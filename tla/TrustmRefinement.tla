-------------------------- MODULE TrustmRefinement --------------------------
(***************************************************************************)
(* Trustm keeps the promise stated in Session: the refinement mapping.     *)
(***************************************************************************)
EXTENDS TrustmInduction

AbstractPhase(l) ==
  IF l = "out" THEN "outside"
  ELSE IF l = "idle" THEN "holding"
  ELSE IF l \in Waiting THEN "running"
  ELSE "calling"

(* The owner's run may take its reply: its command's handler was called.    *)
Replied == STATUS # OPTIGA_LIB_BUSY /\ \E t \in Clients : pc[t] \in Waiting

Promise == INSTANCE Session WITH
  Nobody  <- NoClient,
  owner   <- holder,
  phase   <- [t \in Clients |-> AbstractPhase(pc[t])],
  serving <- ~timedOut /\ ~LibraryIdle,
  reply   <- IF ~timedOut /\ Replied THEN FromStatus(STATUS) ELSE "none",
  late    <- timedOut,
  intact  <- ~stray

(* Every step of open, run, close, Drop and the library's callbacks is a    *)
(* step of one session with one command at a time, or invisible to callers; *)
(* in particular run returns the status of its own command, and a session   *)
(* ends only by its owner's Drop or failing open.                           *)
KeepsThePromise == Promise!Spec
=============================================================================
