------------------------------ MODULE Session ------------------------------
(***************************************************************************)
(* What the crate promises its callers: one session at a time, commands    *)
(* one after the other, and every command's result the chip's own reply to *)
(* it.  The promise has two limits.  Once a command has been given up its  *)
(* reply may still come, so from then on replies tell nothing (late); and  *)
(* once a session has been ended by somebody else nothing is promised any  *)
(* more (intact).  Statics, instances, pointers and clocks are left out.   *)
(***************************************************************************)
CONSTANTS
  Clients,
  Nobody       (* no client *)

VARIABLES
  owner,       (* whose session it is                                      *)
  phase,       (* where each client is                                     *)
  result,      (* how its last call has gone so far                        *)
  serving,     (* the chip works on a command                              *)
  reply,       (* its reply, until the owner's call has taken it           *)
  late,        (* a command has been given up                              *)
  intact

vars == <<owner, phase, result, serving, reply, late, intact>>

chip == <<serving, reply, late>>

Phases == {"outside", "holding", "calling", "running"}
Results == {"Ok", "Err"}

Init ==
  /\ owner = Nobody
  /\ phase = [t \in Clients |-> "outside"]
  /\ result = [t \in Clients |-> "Ok"]
  /\ serving = FALSE
  /\ reply = "none"
  /\ late = FALSE
  /\ intact = TRUE

Move(t, from, to) == phase[t] = from /\ phase' = [phase EXCEPT ![t] = to]

(* A call that is over as soon as it has begun: a second open, or arguments *)
(* the method does not take.                                                *)
Refuse(t) ==
  /\ phase[t] \in {"outside", "holding"}
  /\ result' = [result EXCEPT ![t] = "Err"]
  /\ UNCHANGED <<owner, phase, chip>>

(* Open: only while there is no session.                                    *)
Enter(t) ==
  /\ owner = Nobody
  /\ owner' = t
  /\ Move(t, "outside", "calling")
  /\ result' = [result EXCEPT ![t] = "Ok"]
  /\ UNCHANGED chip

(* A method of the handle, or the end of the handle.                        *)
Call(t) ==
  /\ Move(t, "holding", "calling")
  /\ result' \in {result, [result EXCEPT ![t] = "Ok"]}
  /\ UNCHANGED <<owner, chip>>

(* The call fails without the chip: it ends, or goes on to clean up.        *)
Fail(t) ==
  /\ \E to \in {"holding", "calling"} : Move(t, "calling", to)
  /\ result' = [result EXCEPT ![t] = "Err"]
  /\ UNCHANGED <<owner, chip>>

(* The owner's command, the only one.                                       *)
Start(t) ==
  /\ owner = t
  /\ ~serving
  /\ Move(t, "calling", "running")
  /\ serving' = ~late
  /\ UNCHANGED <<owner, result, reply, late>>

Answer ==
  /\ serving
  /\ serving' = FALSE
  /\ reply' \in Results
  /\ UNCHANGED <<owner, phase, result, late>>

Return(t) ==
  /\ \E to \in {"holding", "calling"} : Move(t, "running", to)
  /\ \E r \in Results :
       /\ late \/ r = reply
       /\ result' = [result EXCEPT ![t] = r]
  /\ reply' = "none"
  /\ UNCHANGED <<owner, serving, late>>

GiveUp(t) ==
  /\ \E to \in {"holding", "calling"} : Move(t, "running", to)
  /\ result' = [result EXCEPT ![t] = "Err"]
  /\ late' = TRUE
  /\ serving' = FALSE
  /\ reply' = "none"
  /\ UNCHANGED owner

(* The owner ends its session, then its call.                               *)
Leave(t) ==
  /\ owner = t
  /\ owner' = Nobody
  /\ \E to \in {"calling", "outside"} : Move(t, "calling", to)
  /\ UNCHANGED <<result, chip>>

End(t) ==
  /\ owner # t
  /\ Move(t, "calling", "outside")
  /\ UNCHANGED <<owner, result, chip>>

Step ==
  \/ Answer
  \/ \E t \in Clients :
       \/ Refuse(t) \/ Enter(t) \/ Call(t) \/ Fail(t)
       \/ Start(t) \/ Return(t) \/ GiveUp(t)
       \/ Leave(t) \/ End(t)

Next == (Step /\ UNCHANGED intact) \/ ~intact'

Spec == Init /\ [][Next]_vars
=============================================================================
