------------------------------ MODULE MCTrustm ------------------------------
(* Small instances of Trustm for TLC. *)
EXTENDS TrustmRefinement, TLC

(* Clients and registrations are interchangeable; a run that checks no      *)
(* liveness property may identify states that differ by a renaming.         *)
Symmetry == Permutations(Clients) \cup Permutations(Slots)

(* Bounds of the instance with two handles: no run times out, and no        *)
(* registration is lost to a command in flight.                             *)
NothingLost ==
  /\ ~timedOut
  /\ \A i \in Slots : slot[i] # "unused" => \E t \in Clients : i \in {util[t], crypt[t]}
=============================================================================
