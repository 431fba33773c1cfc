------------------------------ MODULE PalConfig ------------------------------
(***************************************************************************)
(* The Linux platform wiring (trustm-sys/csrc/pal_config.c): the device    *)
(* node and the slave address the host library will use.  The C side keeps *)
(* a pointer to the caller's string, never a copy, so the pointer is       *)
(* modelled together with what becomes of the string: it is the name of    *)
(* the client whose CString it points to, "static" for the built-in        *)
(* "/dev/i2c-1", or "dangling" once that CString has been freed.           *)
(***************************************************************************)
EXTENDS Naturals

CONSTANTS
  Clients,       (* the flows of control that call the crate *)
  Addrs,         (* the slave addresses callers pass; 0 keeps the old one *)
  DefaultAddr    (* the address compiled in, 0x30 *)

ASSUME PalAssumption ==
  /\ Addrs \subseteq 0 .. 255
  /\ DefaultAddr \in 1 .. 255
  /\ {"static", "dangling"} \cap Clients = {}

VARIABLES i2c_if, slave_address

pal == <<i2c_if, slave_address>>

PalTypeOK ==
  /\ i2c_if \in {"static", "dangling"} \cup Clients
  /\ slave_address \in 1 .. 255

PalInit ==
  /\ i2c_if = "static"
  /\ slave_address = DefaultAddr

-----------------------------------------------------------------------------
(* The mutated form of trustm_sys_configure that forgets the address. *)
ConfigureDropsAddr(dev, path, addr) ==
  /\ i2c_if' = IF path = "empty" THEN i2c_if ELSE dev
  /\ UNCHANGED slave_address

(* dev points to a string that is "empty" or holds a device path. *)
trustm_sys_configure(dev, path, addr) ==
  /\ i2c_if' = IF path = "empty" THEN i2c_if ELSE dev
  /\ slave_address' = IF addr = 0 THEN slave_address ELSE addr

(* The string of dev is freed: Trustm's field _bus, or open_inner's local. *)
FreePath(dev) ==
  /\ i2c_if' = IF i2c_if = dev THEN "dangling" ELSE i2c_if
  /\ UNCHANGED slave_address
=============================================================================
