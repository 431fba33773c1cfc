------------------------------- MODULE Trustm -------------------------------
(***************************************************************************)
(* The blocking session with the chip (trustm/src/lib.rs): open,           *)
(* open_inner, run, set_timeout, close and Drop, called by concurrent      *)
(* clients, over the process-wide statics OPEN and STATUS, the C side's    *)
(* bus configuration and the host library's instances.                     *)
(*                                                                         *)
(* A client is one flow of control together with the handle it owns: every *)
(* method takes `&mut self` or `self`, so a handle serves one call at a    *)
(* time.  Each access to a static, each foreign call and each free of      *)
(* memory the C side points to is a step of its own.                       *)
(***************************************************************************)
EXTENDS HostLibrary, PalConfig

CONSTANTS
  NoSlot,          (* a null instance pointer                   *)
  NoClient,        (* no client                                 *)
  Paths,           (* the kinds of bus path open is called with *)
  TimeoutValues,   (* the waits set_timeout is called with      *)
  DefaultTimeout   (* the wait of a new handle (10 s)           *)

ASSUME TrustmAssumption ==
  /\ NoSlot \notin Slots
  /\ NoClient \notin Clients
  /\ Paths \subseteq {"path", "empty", "nul"}
  /\ TimeoutValues \subseteq Nat
  /\ DefaultTimeout \in TimeoutValues

VARIABLES
  OPEN,      (* static OPEN: AtomicBool                                     *)
  STATUS,    (* static STATUS: AtomicU16                                    *)
  pc, op,    (* where each client is, and the operation it executes         *)
  util, crypt, timeout,     (* the fields of its handle                     *)
  bus, addr,                (* the arguments of its open; bus is also _bus  *)
  waited,    (* start.elapsed() of its run, counted up to just past timeout *)
  result     (* what its call returns: Err once a step of it has failed     *)

(* History variables, read by no guard. *)
VARIABLES
  holder,    (* the client whose swap set OPEN, NoClient once it is cleared *)
  stray,     (* some store(false) cleared the flag another client had set   *)
  quiet,     (* nothing was in flight when this client's run stored BUSY    *)
  answer,    (* the clients waiting on the instance that reported STATUS    *)
  timedOut   (* some run has returned Error::Timeout                        *)

flag     == <<OPEN, holder, stray>>
cell     == <<STATUS, answer>>
control  == <<pc, op, result>>
handle   == <<util, crypt, timeout>>
args     == <<bus, addr>>
watch    == <<waited, quiet, timedOut>>
vars     == <<library, pal, flag, cell, control, handle, args, watch>>

Ops == {"none", "open", "util", "crypt", "close", "drop"}

(* Which Error it is never matters to what follows. *)
Results == {"Ok", "Err"}

(* The steps of open before its run, of run, and of Drop. *)
Opening == {"configure", "util_create", "crypt_create"}
Running == {"reset", "call", "load", "check"}
Waiting == {"load", "check"}
Dropping == {"destroy_crypt", "destroy_util", "release"}

(* From the swap that sets OPEN to the store with which Drop clears it. *)
Inside == Opening \cup Running \cup Dropping \cup {"idle"}

PCs == Inside \cup {"out", "free_bus", "rollback"}

StaticsTypeOK ==
  /\ OPEN \in BOOLEAN
  /\ STATUS \in FinalStatuses \cup {OPTIGA_LIB_BUSY}

ClientsTypeOK ==
  /\ pc \in [Clients -> PCs]
  /\ op \in [Clients -> Ops]
  /\ util \in [Clients -> Slots \cup {NoSlot}]
  /\ crypt \in [Clients -> Slots \cup {NoSlot}]
  /\ bus \in [Clients -> Paths \cup {"none"}]
  /\ addr \in [Clients -> Addrs \cup {0}]
  /\ result \in [Clients -> Results]

HistoryTypeOK ==
  /\ holder \in Clients \cup {NoClient}
  /\ stray \in BOOLEAN
  /\ quiet \in [Clients -> BOOLEAN]
  /\ answer \in SUBSET Clients
  /\ timedOut \in BOOLEAN

ClocksTypeOK ==
  /\ timeout \in [Clients -> TimeoutValues]
  /\ waited \in [Clients -> Nat]
  /\ \A t \in Clients : waited[t] <= timeout[t] + 1

TypeOK ==
  /\ LibraryTypeOK
  /\ PalTypeOK
  /\ StaticsTypeOK
  /\ ClientsTypeOK
  /\ HistoryTypeOK
  /\ ClocksTypeOK

Init ==
  /\ LibraryInit
  /\ PalInit
  /\ OPEN = FALSE
  /\ STATUS = 0
  /\ pc = [t \in Clients |-> "out"]
  /\ op = [t \in Clients |-> "none"]
  /\ util = [t \in Clients |-> NoSlot]
  /\ crypt = [t \in Clients |-> NoSlot]
  /\ timeout = [t \in Clients |-> DefaultTimeout]
  /\ bus = [t \in Clients |-> "none"]
  /\ addr = [t \in Clients |-> 0]
  /\ waited = [t \in Clients |-> 0]
  /\ result = [t \in Clients |-> "Ok"]
  /\ holder = NoClient
  /\ stray = FALSE
  /\ quiet = [t \in Clients |-> FALSE]
  /\ answer = {}
  /\ timedOut = FALSE

(* The instance a run of t is issued on: open_application and               *)
(* close_application are util calls.                                        *)
Inst(t) == IF op[t] = "crypt" THEN crypt[t] ELSE util[t]

Waiters(i) == {t \in Clients : pc[t] \in Waiting /\ Inst(t) = i}

Goto(t, l) == pc' = [pc EXCEPT ![t] = l]

(* OPEN.store(false), by t. *)
ClearFlag(t) ==
  /\ OPEN' = FALSE
  /\ holder' = NoClient
  /\ stray' = (stray \/ holder \notin {t, NoClient})

-----------------------------------------------------------------------------
(* Trustm::open. *)

OpenRefused(t) ==
  /\ pc[t] \in {"out", "idle"}
  /\ OPEN
  /\ result' = [result EXCEPT ![t] = "Err"]
  /\ UNCHANGED <<library, pal, flag, cell, pc, op, handle, args, watch>>

(* The mutated form of OpenEnter that stores true without looking. *)
OpenStores(t, path, a) ==
  /\ pc[t] = "out"
  /\ OPEN' = TRUE
  /\ holder' = t
  /\ bus' = [bus EXCEPT ![t] = path]
  /\ addr' = [addr EXCEPT ![t] = a]
  /\ op' = [op EXCEPT ![t] = "open"]
  /\ result' = [result EXCEPT ![t] = "Ok"]
  /\ Goto(t, "configure")
  /\ UNCHANGED <<library, pal, stray, cell, handle, watch>>

(* The swap finds the flag clear. *)
OpenEnter(t, path, a) ==
  /\ pc[t] = "out"
  /\ ~OPEN
  /\ OPEN' = TRUE
  /\ holder' = t
  /\ bus' = [bus EXCEPT ![t] = path]
  /\ addr' = [addr EXCEPT ![t] = a]
  /\ op' = [op EXCEPT ![t] = "open"]
  /\ result' = [result EXCEPT ![t] = "Ok"]
  /\ Goto(t, "configure")
  /\ UNCHANGED <<library, pal, stray, cell, handle, watch>>

(* The path holds a NUL byte: CString::new fails. *)
BadPath(t) ==
  /\ pc[t] = "configure"
  /\ bus[t] = "nul"
  /\ result' = [result EXCEPT ![t] = "Err"]
  /\ bus' = [bus EXCEPT ![t] = "none"]
  /\ Goto(t, "rollback")
  /\ UNCHANGED <<library, pal, flag, cell, op, handle, addr, watch>>

Configure(t) ==
  /\ pc[t] = "configure"
  /\ bus[t] # "nul"
  /\ trustm_sys_configure(t, bus[t], addr[t])
  /\ Goto(t, "util_create")
  /\ UNCHANGED <<library, flag, cell, op, result, handle, args, watch>>

UtilCreate(t) ==
  /\ pc[t] = "util_create"
  /\ \E i \in Slots :
       /\ optiga_create(i)
       /\ util' = [util EXCEPT ![t] = i]
  /\ Goto(t, "crypt_create")
  /\ UNCHANGED <<pal, flag, cell, op, result, crypt, timeout, args, watch>>

(* A create call may return NULL for want of a registration or of memory. *)
UtilCreateFails(t) ==
  /\ pc[t] = "util_create"
  /\ result' = [result EXCEPT ![t] = "Err"]
  /\ Goto(t, "free_bus")
  /\ UNCHANGED <<library, pal, flag, cell, op, handle, args, watch>>

CryptCreate(t) ==
  /\ pc[t] = "crypt_create"
  /\ \E i \in Slots :
       /\ optiga_create(i)
       /\ crypt' = [crypt EXCEPT ![t] = i]
  /\ timeout' = [timeout EXCEPT ![t] = DefaultTimeout]
  /\ Goto(t, "reset")
  /\ UNCHANGED <<pal, flag, cell, op, result, util, args, watch>>

(* The mutated form of CryptCreateFails that leaves util registered. *)
CryptFailsKeepingUtil(t) ==
  /\ pc[t] = "crypt_create"
  /\ util' = [util EXCEPT ![t] = NoSlot]
  /\ result' = [result EXCEPT ![t] = "Err"]
  /\ Goto(t, "free_bus")
  /\ UNCHANGED <<library, pal, flag, cell, op, crypt, timeout, args, watch>>

CryptCreateFails(t) ==
  /\ pc[t] = "crypt_create"
  /\ optiga_destroy(util[t])
  /\ util' = [util EXCEPT ![t] = NoSlot]
  /\ result' = [result EXCEPT ![t] = "Err"]
  /\ Goto(t, "free_bus")
  /\ UNCHANGED <<pal, flag, cell, op, crypt, timeout, args, watch>>

(* The mutated form of Rollback that leaves the flag set. *)
RollbackKeepsFlag(t) ==
  /\ pc[t] = "rollback"
  /\ op' = [op EXCEPT ![t] = "none"]
  /\ addr' = [addr EXCEPT ![t] = 0]
  /\ Goto(t, "out")
  /\ UNCHANGED <<library, pal, flag, cell, result, handle, bus, watch>>

(* open's own store(false) after open_inner failed.  When the failure was   *)
(* the application's start, Drop has already stored false once.             *)
Rollback(t) ==
  /\ pc[t] = "rollback"
  /\ ClearFlag(t)
  /\ op' = [op EXCEPT ![t] = "none"]
  /\ addr' = [addr EXCEPT ![t] = 0]
  /\ Goto(t, "out")
  /\ UNCHANGED <<library, pal, cell, result, handle, bus, watch>>

-----------------------------------------------------------------------------
(* A client with an open handle calls a method. *)

Command(t, o) ==
  /\ pc[t] = "idle"
  /\ op' = [op EXCEPT ![t] = o]
  /\ result' = [result EXCEPT ![t] = "Ok"]
  /\ Goto(t, "reset")
  /\ UNCHANGED <<library, pal, flag, cell, handle, args, watch>>

(* A method returns on its argument checks, before its run. *)
CommandRejected(t) ==
  /\ pc[t] = "idle"
  /\ result' = [result EXCEPT ![t] = "Err"]
  /\ UNCHANGED <<library, pal, flag, cell, pc, op, handle, args, watch>>

set_timeout(t, d) ==
  /\ pc[t] = "idle"
  /\ timeout' = [timeout EXCEPT ![t] = d]
  /\ UNCHANGED <<library, pal, flag, cell, control, util, crypt, args, watch>>

BeginDrop(t) ==
  /\ pc[t] = "idle"
  /\ op' = [op EXCEPT ![t] = "drop"]
  /\ Goto(t, "destroy_crypt")
  /\ UNCHANGED <<library, pal, flag, cell, result, handle, args, watch>>

-----------------------------------------------------------------------------
(* Trustm::run: one asynchronous library call, polled to its end. *)

(* The mutated form of RunReset that leaves the last status in the cell. *)
ResetKeepsStatus(t) ==
  /\ pc[t] = "reset"
  /\ quiet' = [quiet EXCEPT ![t] = LibraryIdle]
  /\ Goto(t, "call")
  /\ UNCHANGED <<library, pal, flag, cell, op, result, handle, args, waited, timedOut>>

RunReset(t) ==
  /\ pc[t] = "reset"
  /\ STATUS' = OPTIGA_LIB_BUSY
  /\ answer' = {}
  /\ quiet' = [quiet EXCEPT ![t] = LibraryIdle]
  /\ Goto(t, "call")
  /\ UNCHANGED <<library, pal, flag, op, result, handle, args, waited, timedOut>>

(* Where a client goes when its run returns r: close drops the handle       *)
(* whatever r is, open_inner only when the application did not start.       *)
AfterRun(t, r) ==
  IF op[t] = "close" \/ (op[t] = "open" /\ r # "Ok")
  THEN "destroy_crypt"
  ELSE "idle"

(* The mutated form of RunReturn that keeps the clock of the last run. *)
ReturnKeepsClock(t, r) ==
  /\ result' = [result EXCEPT ![t] = r]
  /\ quiet' = [quiet EXCEPT ![t] = FALSE]
  /\ answer' = answer \ {t}
  /\ Goto(t, AfterRun(t, r))
  /\ op' = IF AfterRun(t, r) = "idle" THEN [op EXCEPT ![t] = "none"] ELSE op
  /\ UNCHANGED <<pal, flag, STATUS, handle, args, waited>>

RunReturn(t, r) ==
  /\ result' = [result EXCEPT ![t] = r]
  /\ waited' = [waited EXCEPT ![t] = 0]
  /\ quiet' = [quiet EXCEPT ![t] = FALSE]
  /\ answer' = answer \ {t}
  /\ Goto(t, AfterRun(t, r))
  /\ op' = IF AfterRun(t, r) = "idle" THEN [op EXCEPT ![t] = "none"] ELSE op
  /\ UNCHANGED <<pal, flag, STATUS, handle, args>>

(* The mutated form of RunRefused that polls although nothing was started.  *)
RefusedPolls(t) ==
  /\ pc[t] = "call"
  /\ Goto(t, "load")
  /\ UNCHANGED <<library, pal, flag, cell, op, result, handle, args, watch>>

(* The call itself returns an error: the instance is in use, or the library *)
(* rejects the arguments.                                                   *)
RunRefused(t) ==
  /\ pc[t] = "call"
  /\ RunReturn(t, "Err")
  /\ UNCHANGED <<library, timedOut>>

RunAccepted(t) ==
  /\ pc[t] = "call"
  /\ optiga_accept(Inst(t))
  /\ Goto(t, "load")
  /\ UNCHANGED <<pal, flag, cell, op, result, handle, args, watch>>

(* Error::from_status of a final status. *)
FromStatus(s) == IF s = OPTIGA_LIB_SUCCESS THEN "Ok" ELSE "Err"

(* The mutated form of RunLoad that takes any first value for the answer. *)
LoadWithoutLoop(t) ==
  /\ pc[t] = "load"
  /\ RunReturn(t, FromStatus(STATUS))
  /\ UNCHANGED <<library, timedOut>>

RunLoad(t) ==
  /\ pc[t] = "load"
  /\ IF STATUS # OPTIGA_LIB_BUSY
     THEN RunReturn(t, FromStatus(STATUS)) /\ UNCHANGED <<library, timedOut>>
     ELSE /\ Goto(t, "check")
          /\ UNCHANGED <<library, pal, flag, cell, op, result, handle, args, watch>>

RunTimeout(t) ==
  /\ pc[t] = "check"
  /\ waited[t] > timeout[t]
  /\ RunReturn(t, "Err")
  /\ timedOut' = TRUE
  /\ UNCHANGED library

(* The mutated form of RunSleep that restarts the clock on every poll. *)
SleepRestartsClock(t) ==
  /\ pc[t] = "check"
  /\ waited[t] <= timeout[t]
  /\ waited' = [waited EXCEPT ![t] = 0]
  /\ Goto(t, "load")
  /\ UNCHANGED <<library, pal, flag, cell, op, result, handle, args, quiet, timedOut>>

RunSleep(t) ==
  /\ pc[t] = "check"
  /\ waited[t] <= timeout[t]
  /\ Goto(t, "load")
  /\ UNCHANGED <<library, pal, flag, cell, op, result, handle, args, watch>>

(* Time passes; what lies beyond "longer than timeout" is all alike. *)
Tick(t) ==
  /\ pc[t] \in Waiting
  /\ waited[t] <= timeout[t]
  /\ waited' = [waited EXCEPT ![t] = @ + 1]
  /\ UNCHANGED <<library, pal, flag, cell, control, handle, args, quiet, timedOut>>

-----------------------------------------------------------------------------
(* Drop, and the free of the field _bus that follows it. *)

(* The mutated form of DestroyCrypt that destroys the other instance. *)
DestroyCryptTakesUtil(t) ==
  /\ pc[t] = "destroy_crypt"
  /\ optiga_destroy(util[t])
  /\ crypt' = [crypt EXCEPT ![t] = NoSlot]
  /\ Goto(t, "destroy_util")
  /\ UNCHANGED <<pal, flag, cell, op, result, util, timeout, args, watch>>

(* The status of a destroy call is not looked at. *)
DestroyCrypt(t) ==
  /\ pc[t] = "destroy_crypt"
  /\ optiga_destroy(crypt[t])
  /\ crypt' = [crypt EXCEPT ![t] = NoSlot]
  /\ Goto(t, "destroy_util")
  /\ UNCHANGED <<pal, flag, cell, op, result, util, timeout, args, watch>>

DestroyUtil(t) ==
  /\ pc[t] = "destroy_util"
  /\ optiga_destroy(util[t])
  /\ util' = [util EXCEPT ![t] = NoSlot]
  /\ Goto(t, "release")
  /\ UNCHANGED <<pal, flag, cell, op, result, crypt, timeout, args, watch>>

Release(t) ==
  /\ pc[t] = "release"
  /\ ClearFlag(t)
  /\ Goto(t, "free_bus")
  /\ UNCHANGED <<library, pal, cell, op, result, handle, args, watch>>

(* The CString is freed, with the handle or on return from open_inner; what *)
(* is left of the handle and of the call's arguments is forgotten.          *)
FreeBus(t) ==
  /\ pc[t] = "free_bus"
  /\ FreePath(t)
  /\ bus' = [bus EXCEPT ![t] = "none"]
  /\ timeout' = [timeout EXCEPT ![t] = DefaultTimeout]
  /\ IF op[t] = "open"
     THEN Goto(t, "rollback") /\ UNCHANGED <<op, addr>>
     ELSE /\ Goto(t, "out")
          /\ op' = [op EXCEPT ![t] = "none"]
          /\ addr' = [addr EXCEPT ![t] = 0]
  /\ UNCHANGED <<library, flag, cell, result, util, crypt, watch>>

-----------------------------------------------------------------------------
(* The host library's timer thread, which runs beside every client. *)

Finish(i) ==
  /\ optiga_finish(i)
  /\ UNCHANGED <<pal, flag, cell, control, handle, args, watch>>

on_done(i, status) ==
  /\ optiga_report(i)
  /\ STATUS' = status
  /\ answer' = Waiters(i)
  /\ UNCHANGED <<pal, flag, control, handle, args, watch>>

-----------------------------------------------------------------------------
(* What a client does of its own accord. *)
Call(t) ==
  \/ OpenRefused(t)
  \/ \E path \in Paths, a \in Addrs : OpenEnter(t, path, a)
  \/ \E o \in {"util", "crypt", "close"} : Command(t, o)
  \/ CommandRejected(t)
  \/ \E d \in TimeoutValues : set_timeout(t, d)
  \/ BeginDrop(t)

(* The steps of a call it has begun. *)
Step(t) ==
  \/ BadPath(t) \/ Configure(t)
  \/ UtilCreate(t) \/ UtilCreateFails(t)
  \/ CryptCreate(t) \/ CryptCreateFails(t)
  \/ Rollback(t)
  \/ RunReset(t) \/ RunRefused(t) \/ RunAccepted(t)
  \/ RunLoad(t) \/ RunTimeout(t) \/ RunSleep(t)
  \/ DestroyCrypt(t) \/ DestroyUtil(t) \/ Release(t) \/ FreeBus(t)

Library ==
  \E i \in Slots : Finish(i) \/ \E s \in FinalStatuses : on_done(i, s)

Next ==
  \/ \E t \in Clients : Call(t) \/ Step(t) \/ Tick(t)
  \/ Library

Spec == Init /\ [][Next]_vars

(* A thread inside a call keeps running and time passes; neither the        *)
(* clients' next calls nor the chip's answers can be relied on.             *)
FairSpec ==
  Spec /\ \A t \in Clients : WF_vars(Step(t)) /\ WF_vars(Tick(t))

-----------------------------------------------------------------------------
(* What the crate promises.  Its promises fail once one client's clearing   *)
(* of OPEN has undone another's swap (stray), which open's failure path can *)
(* do: see OneHandle.  They are stated, and hold, up to that point.         *)

(* "One handle per process": no two clients are between the swap in open    *)
(* and the clearing in Drop at once, so no two threads ever share STATUS.   *)
ExclusiveSession ==
  ~stray => \A t, u \in Clients : pc[t] \in Inside /\ pc[u] \in Inside => t = u

(* The flag is never left behind: whenever OPEN is set, some client is on   *)
(* its way to clearing it or can drop its handle.  AlreadyOpen therefore    *)
(* never outlives the session it reports.                                   *)
FlagNotStuck ==
  OPEN => \E t \in Clients :
    pc[t] \in Inside \/ (op[t] = "open" /\ pc[t] \in {"free_bus", "rollback"})

(* Every instance pointer a client holds is registered and no other pointer *)
(* refers to it, whatever the order of failing opens, drops and timeouts:   *)
(* the destroy calls of Drop and open_inner free each instance once.        *)
InstancesNotShared ==
  /\ \A t \in Clients : \A i \in {util[t], crypt[t]} \ {NoSlot} : slot[i] # "unused"
  /\ \A t \in Clients : util[t] = crypt[t] => util[t] = NoSlot
  /\ \A t, u \in Clients :
       t # u => {util[t], crypt[t]} \cap {util[u], crypt[u]} \subseteq {NoSlot}

(* A run that began with nothing in flight takes for its answer only the    *)
(* status of its own command: not the value the last run left in STATUS,    *)
(* and not a command of another handle.                                     *)
OwnAnswer ==
  ~stray => \A t \in Clients :
    pc[t] \in Waiting /\ quiet[t] /\ STATUS # OPTIGA_LIB_BUSY => t \in answer

(* As long as no run has timed out, a command in flight has a run waiting   *)
(* for it: its buffers live, and nobody else will be handed its status.     *)
NoOrphanBeforeTimeout ==
  ~stray /\ ~timedOut => \A i \in Slots : InFlight(i) => Waiters(i) # {}

(* As long as no run has timed out, every registration in use belongs to a  *)
(* client: opens that fail half-way and drops give theirs back, so the six  *)
(* registrations never run out.                                             *)
NoLeakBeforeTimeout ==
  ~stray /\ ~timedOut => \A i \in Slots :
    slot[i] # "unused" => \E t \in Clients : i \in {util[t], crypt[t]}

(* While a client is inside a session opened with a path and an address,    *)
(* the C side uses that path and that address, however the drop of an       *)
(* earlier handle and this open interleave.                                 *)
UsesWhatWasAsked ==
  ~stray => \A t \in Clients : pc[t] \in Inside \ {"configure"} =>
    /\ bus[t] = "path" => i2c_if = t
    /\ addr[t] # 0 => slave_address = addr[t]

(* Every call returns, answered or not: the timeout bounds run, and no      *)
(* path of open or Drop blocks.                                             *)
EveryCallReturns ==
  \A t \in Clients : pc[t] \notin {"out", "idle"} ~> pc[t] \in {"out", "idle"}

-----------------------------------------------------------------------------
(* What the sources say and the code does not keep: see the findings.       *)

(* lib.rs: "One handle per process" and open "Fails if a handle is already  *)
(* open".  Two clients own an open handle.                                  *)
OneHandle == \A t, u \in Clients : pc[t] = "idle" /\ pc[u] = "idle" => t = u

(* lib.rs: run will "Issue one asynchronous library call and block until    *)
(* its callback".  A run that is about to return a status reads the one its *)
(* own command reported.                                                    *)
BlocksUntilItsCallback ==
  \A t \in Clients : pc[t] = "load" /\ STATUS # OPTIGA_LIB_BUSY => t \in answer

(* lib.rs, of the instances in Drop: "destroyed exactly once here".  Every  *)
(* registration in use belongs to a client, after a drop too.               *)
DropDestroysInstances ==
  \A i \in Slots : slot[i] # "unused" => \E t \in Clients : i \in {util[t], crypt[t]}

(* pal_config.c: "`dev` must stay valid for the life of the process".       *)
DevStaysValid == i2c_if # "dangling"
=============================================================================
