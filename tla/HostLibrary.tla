----------------------------- MODULE HostLibrary -----------------------------
(***************************************************************************)
(* Infineon's C host library as the trustm crate uses it: a fixed number   *)
(* of instance registrations, each one unused, FREE or BUSY with one       *)
(* command.  The library's source is a git submodule outside this          *)
(* repository, so this module states only what the crate relies on:        *)
(*   - a create call takes an unused registration, or returns NULL;        *)
(*   - a command is accepted by a FREE instance and makes it BUSY; a BUSY  *)
(*     instance answers INSTANCE_IN_USE;                                   *)
(*   - when a command ends, the library frees the instance and then calls  *)
(*     the instance's handler with the status, from its own timer thread;  *)
(*   - a destroy call on a BUSY instance is refused with INSTANCE_IN_USE   *)
(*     and leaves the instance registered.                                 *)
(***************************************************************************)
EXTENDS Naturals

CONSTANTS
  Slots,       (* the registrations, OPTIGA_CMD_MAX_REGISTRATIONS of them  *)
  ErrorCodes   (* the status codes that report a failure                   *)

OPTIGA_LIB_SUCCESS == 0
OPTIGA_LIB_BUSY == 1

ASSUME ErrorCodesAssumption ==
  /\ ErrorCodes \subseteq 0 .. 65535
  /\ OPTIGA_LIB_SUCCESS \notin ErrorCodes
  /\ OPTIGA_LIB_BUSY \notin ErrorCodes

VARIABLES
  slot,        (* the state of each registration                           *)
  reporting    (* the registrations freed by a finished command whose      *)
               (* handler has not been called yet                          *)

library == <<slot, reporting>>

SlotStates == {"unused", "FREE", "BUSY"}

LibraryTypeOK ==
  /\ slot \in [Slots -> SlotStates]
  /\ reporting \subseteq Slots

LibraryInit ==
  /\ slot = [i \in Slots |-> "unused"]
  /\ reporting = {}

(* The statuses a finished command reports. *)
FinalStatuses == {OPTIGA_LIB_SUCCESS} \cup ErrorCodes

(* Registration i runs a command, or still owes its handler the status. *)
InFlight(i) == slot[i] = "BUSY" \/ i \in reporting

(* Nothing is in flight anywhere in the library. *)
LibraryIdle == \A i \in Slots : ~InFlight(i)

-----------------------------------------------------------------------------
(* optiga_util_create and optiga_crypt_create, when they succeed. *)
optiga_create(i) ==
  /\ slot[i] = "unused"
  /\ slot' = [slot EXCEPT ![i] = "FREE"]
  /\ UNCHANGED reporting

(* optiga_util_destroy and optiga_crypt_destroy. *)
optiga_destroy(i) ==
  /\ slot' = [slot EXCEPT ![i] = IF slot[i] = "BUSY" THEN "BUSY" ELSE "unused"]
  /\ UNCHANGED reporting

(* Any asynchronous command call that is accepted. *)
optiga_accept(i) ==
  /\ slot[i] = "FREE"
  /\ slot' = [slot EXCEPT ![i] = "BUSY"]
  /\ UNCHANGED reporting

(* The command of registration i ends: the library frees the instance ... *)
optiga_finish(i) ==
  /\ slot[i] = "BUSY"
  /\ i \notin reporting
  /\ slot' = [slot EXCEPT ![i] = "FREE"]
  /\ reporting' = reporting \cup {i}

(* ... and then calls the handler. *)
optiga_report(i) ==
  /\ i \in reporting
  /\ reporting' = reporting \ {i}
  /\ UNCHANGED slot
=============================================================================
