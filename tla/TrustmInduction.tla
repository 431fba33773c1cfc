-------------------------- MODULE TrustmInduction --------------------------
(***************************************************************************)
(* The inductive invariant of Trustm: what the safety properties of that   *)
(* module rest on, one part for each thing two clients could disagree on.  *)
(* TLC checks it on the small instances, TrustmProofs proves it.           *)
(***************************************************************************)
EXTENDS Trustm

(* The clock of a run is zero outside its polling loop, so that a timeout   *)
(* changed between runs cannot leave it past its bound.                     *)
ClockInv == \A t \in Clients : pc[t] \notin Waiting => waited[t] = 0

(* Whoever set OPEN has still to clear it; and up to the first stray store, *)
(* whoever is inside a session is the one that set it.                      *)
Clearing(t) == op[t] = "open" /\ pc[t] \in {"free_bus", "rollback"}

FlagInv ==
  /\ OPEN <=> holder # NoClient
  /\ \A t \in Clients : holder = t => pc[t] \in Inside \/ Clearing(t)
  /\ \A t \in Clients : pc[t] \in Opening => op[t] = "open"
  /\ ~stray => \A t \in Clients : pc[t] \in Inside => holder = t

(* Where a client's pointers are null. *)
PointerInv ==
  \A t \in Clients :
    /\ util[t] # NoSlot <=>
         pc[t] \in Running \cup {"crypt_create", "idle", "destroy_crypt", "destroy_util"}
    /\ crypt[t] # NoSlot <=> pc[t] \in Running \cup {"idle", "destroy_crypt"}

(* A run that began quietly: nothing is in flight but its own command, and  *)
(* STATUS holds BUSY until that command has reported.                       *)
QuietRun(t) ==
  /\ pc[t] = "call" => LibraryIdle /\ STATUS = OPTIGA_LIB_BUSY
  /\ pc[t] \in Waiting =>
       /\ \A i \in Slots : InFlight(i) => i = Inst(t)
       /\ \A i \in reporting : slot[i] # "BUSY"
       /\ STATUS # OPTIGA_LIB_BUSY => t \in answer /\ LibraryIdle

AnswerInv ==
  /\ \A t \in Clients : quiet[t] => pc[t] \in Waiting \cup {"call"}
  /\ ~stray => \A t \in Clients : quiet[t] => QuietRun(t)

(* Until a run times out, every run begins quietly. *)
AlwaysQuiet ==
  ~stray /\ ~timedOut => \A t \in Clients : pc[t] \in Waiting \cup {"call"} => quiet[t]

IInv ==
  /\ TypeOK
  /\ ClockInv
  /\ FlagInv
  /\ PointerInv
  /\ InstancesNotShared
  /\ AnswerInv
  /\ AlwaysQuiet
  /\ NoOrphanBeforeTimeout
  /\ NoLeakBeforeTimeout
  /\ UsesWhatWasAsked
=============================================================================
