----------------------------- MODULE CallsProofs -----------------------------
(***************************************************************************)
(* Theorems about the calls clients make: what the methods hand to C and   *)
(* what they make of its answers, for all arguments and whatever the       *)
(* sessions, the timeouts and the other clients do.                        *)
(***************************************************************************)
EXTENDS CommandsProofs, MethodsProofs

USE DEF library, pal, flag, cell, control, handle, args, watch

(* A call in progress is one of a method that has accepted its arguments;   *)
(* what is written into its buffers answers it; and what it has returned is *)
(* made from that, as nothing is written any more once it has returned.     *)
CallInv(t) ==
  /\ Calling(t) => call[t] \in Accepted
  /\ filled[t].done => Calling(t) /\ filled[t].bytes \in Answers(call[t].c)
  /\ returned[t].status = "Ok" =>
       /\ Calling(t)
       /\ pc[t] \notin {"call", "load", "check"}
       /\ ~BadData(call[t], filled[t])
       /\ returned[t].bytes =
            [k \in DOMAIN call[t].outs |-> Kept(call[t], filled[t], k)]

CallsInv == \A t \in Clients : CallInv(t)

(* Nothing of t's call changes. *)
CallKept(t) ==
  /\ call'[t] = call[t]
  /\ filled'[t] = filled[t]
  /\ returned'[t] = returned[t]
  /\ returned[t].status = "Ok" => pc'[t] = pc[t]

LEMMA CallInvKept ==
  ASSUME NEW t \in Clients, CallInv(t), CallKept(t)
  PROVE  CallInv(t)'
BY DEF CallInv, CallKept, Calling, BadData, Kept

LEMMA CallsInit == CommandsInit => CallsInv
BY DEF CommandsInit, CallsInv, CallInv, Calling, Empty, Nothing

(* A step of the session changes the place of one client. *)
LEMMA SessionStepMoves ==
  ASSUME ClientsTypeOK, NEW u \in Clients, SessionStep(u),
         NEW t \in Clients, t # u
  PROVE  pc'[t] = pc[t]
BY DEF SessionStep, OpenRefused, OpenEnter, set_timeout, BadPath, Configure,
  UtilCreate, UtilCreateFails, CryptCreate, CryptCreateFails, Rollback, RunReset,
  RunSleep, Tick, DestroyCrypt, DestroyUtil, Release, FreeBus, Goto, ClientsTypeOK

(* A run's end leaves the loop that polls. *)
LEMMA ReturnLeavesRun ==
  ASSUME ClientsTypeOK, NEW u \in Clients, NEW r, RunReturn(u, r)
  PROVE  pc'[u] \notin {"call", "load", "check"} /\ \A t \in Clients : t # u => pc'[t] = pc[t]
BY DEF RunReturn, Goto, AfterRun, ClientsTypeOK

LEMMA ReturnsStep ==
  ASSUME ClientsTypeOK, CommandsShape, CallsInv,
         NEW u \in Clients, NEW r, RunReturn(u, r), NEW q, Returns(u, q),
         NEW t \in Clients
  PROVE  CallInv(t)'
<1>1. call' = call /\ filled' = filled
  BY DEF Returns
<1>2. CASE t # u
  BY <1>1, <1>2, ReturnLeavesRun, CallInvKept DEF CallsInv, CallKept, Returns, CommandsShape
<1>3. CASE t = u
  <2>1. CallInv(u) /\ pc'[u] \notin {"call", "load", "check"}
    BY ReturnLeavesRun DEF CallsInv
  <2>2. ASSUME returned'[u].status = "Ok"
        PROVE  /\ Calling(u) /\ ~BadData(call[u], filled[u])
               /\ returned'[u].bytes =
                    [k \in DOMAIN call[u].outs |-> Kept(call[u], filled[u], k)]
    BY <2>2 DEF Returns, CommandsShape, Calling, Nothing
  <2>3. QED BY <1>1, <1>3, <2>1, <2>2 DEF CallInv, Calling, BadData, Kept
<1>4. QED BY <1>2, <1>3

LEMMA CallsStep ==
  ASSUME IInv, CommandsShape, CallsInv, [CommandsNext]_allvars
  PROVE  CallsInv'
<1> SUFFICES ASSUME NEW t \in Clients PROVE CallInv(t)'
  BY DEF CallsInv
<1>a. ClientsTypeOK /\ CallInv(t)
  BY DEF IInv, TypeOK, CallsInv
<1>1. ASSUME NEW u \in Clients, SessionStep(u) PROVE CallInv(t)'
  BY <1>1, <1>a, SessionStepMoves, CallInvKept DEF SessionStep, commands, CallKept, Nothing
<1>2. ASSUME NEW u \in Clients, NEW m \in Accepted \cup {NoCall}, Begin(u, m),
             \A v \in Clients : v # u => pc'[v] = pc[v]
      PROVE  CallInv(t)'
  <2>1. CASE t = u
    BY <1>2, <2>1 DEF Begin, Ready, CommandsShape, CallInv, Calling, Empty, Nothing
  <2>2. CASE t # u
    BY <1>2, <1>a, <2>2, CallInvKept DEF Begin, CommandsShape, CallKept
  <2>3. QED BY <2>1, <2>2
<1>3. ASSUME NEW u \in Clients, NEW m \in Invocations,
             Invoke(u, m) \/ Reject(u, m)
      PROVE  CallInv(t)'
  <2>1. \A v \in Clients : v # u => pc'[v] = pc[v]
    BY <1>3, <1>a DEF Invoke, Reject, Command, CommandRejected, Goto, ClientsTypeOK
  <2>2. \E x \in Accepted \cup {NoCall} : Begin(u, x)
    BY <1>3 DEF Invoke, Reject, Accepted
  <2>3. QED BY <1>2, <2>1, <2>2
<1>4. ASSUME NEW u \in Clients, Close(u) PROVE CallInv(t)'
  <2>1. \A v \in Clients : v # u => pc'[v] = pc[v]
    BY <1>4, <1>a DEF Close, Command, BeginDrop, Goto, ClientsTypeOK
  <2>2. QED BY <1>2, <1>4, <2>1 DEF Close
<1>5. ASSUME NEW u \in Clients, Take(u) PROVE CallInv(t)'
  <2>1. CASE t = u
    BY <1>5, <2>1 DEF Take, CommandsShape, CallInv, Calling, Empty, Nothing
  <2>2. CASE t # u
    BY <1>5, <1>a, <2>2, CallInvKept DEF Take, vars, CommandsShape, CallKept
  <2>3. QED BY <2>1, <2>2
<1>6. ASSUME NEW u \in Clients, Accept(u) PROVE CallInv(t)'
  <2>1. t = u => returned[t].status # "Ok"
    BY <1>6, <1>a DEF Accept, RunAccepted, CallInv
  <2>2. QED BY <1>6, <1>a, <2>1, CallInvKept DEF Accept, RunAccepted, Goto, ClientsTypeOK, CallKept
<1>7. ASSUME NEW u \in Clients, Refused(u) \/ TimedOut(u) PROVE CallInv(t)'
  <2>1. RunReturn(u, "Err") /\ Returns(u, "Err")
    BY <1>7 DEF Refused, TimedOut, RunRefused, RunTimeout
  <2>2. QED BY <1>a, <2>1, ReturnsStep
<1>8. ASSUME NEW u \in Clients, Poll(u) PROVE CallInv(t)'
  <2>1. CASE STATUS # OPTIGA_LIB_BUSY
    <3>1. RunReturn(u, FromStatus(STATUS)) /\ Returns(u, FromStatus(STATUS))
      BY <1>8, <2>1 DEF Poll, RunLoad
    <3>2. QED BY <1>a, <3>1, ReturnsStep
  <2>2. CASE STATUS = OPTIGA_LIB_BUSY
    <3>1. t = u => returned[t].status # "Ok"
      BY <1>8, <1>a DEF Poll, RunLoad, CallInv
    <3>2. QED BY <1>8, <1>a, <2>2, <3>1, CallInvKept
              DEF Poll, RunLoad, Goto, ClientsTypeOK, commands, CallKept
  <2>3. QED BY <2>1, <2>2
<1>9. ASSUME NEW i \in Slots, NEW s \in FinalStatuses, Complete(i, s) PROVE CallInv(t)'
  <2>1. call' = call /\ returned' = returned /\ pc' = pc
    BY <1>9 DEF Complete, Finish
  <2>2. CASE filled'[t] = filled[t]
    BY <1>a, <2>1, <2>2, CallInvKept DEF CallKept
  <2>3. CASE pc[t] \in Waiting /\ Calling(t) /\ \E b \in Answers(call[t].c) :
               filled'[t] = [done |-> TRUE, bytes |-> b]
    BY <1>a, <2>1, <2>3 DEF CallInv, Calling, Waiting
  <2>4. QED BY <1>9, <2>2, <2>3 DEF Complete, Waiters, Calling, CommandsShape
<1>10. ASSUME NEW i \in Slots, Report(i) PROVE CallInv(t)'
  BY <1>10, <1>a, CallInvKept DEF Report, on_done, commands, CallKept
<1>11. CASE UNCHANGED allvars
  BY <1>11, <1>a, CallInvKept DEF allvars, vars, commands, CallKept
<1>12. QED BY <1>1, <1>3, <1>4, <1>5, <1>6, <1>7, <1>8, <1>9, <1>10, <1>11 DEF CommandsNext

LEMMA CallsInvariant == CommandsSpec => []CallsInv
<1>1. CommandsInit => CommandsShape /\ CallsInv
  BY CommandsShapeInit, CallsInit
<1>2. IInv /\ CommandsShape /\ CallsInv /\ [CommandsNext]_allvars => (CommandsShape /\ CallsInv)'
  BY CommandsShapeStep, CallsStep
<1>3. QED BY <1>1, <1>2, MethodsKeepToTheSession, Invariant, PTL DEF CommandsSpec

-----------------------------------------------------------------------------
(* C takes every call for what its caller asked: whatever the lengths of    *)
(* the slices, the object ids, the keys and the usages.                     *)
THEOREM NothingIsLostOnTheWay == CommandsSpec => []CSeesWhatWasAsked
<1>1. CallsInv => CSeesWhatWasAsked
  BY CallsReadBack DEF CallsInv, CallInv, CSeesWhatWasAsked
<1>2. QED BY <1>1, CallsInvariant, PTL

(* C reads behind every void pointer what the method put there. *)
THEOREM PointersAreReadRight == CommandsSpec => []PointersAreWhatTheyAreReadAs
<1>1. CallsInv => PointersAreWhatTheyAreReadAs
  BY CallsPoint DEF CallsInv, CallInv, PointersAreWhatTheyAreReadAs, PointsRight
<1>2. QED BY <1>1, CallsInvariant, PTL

(* The buffers have the room C is told of; where it is told of none, the   *)
(* chip's answer fits.                                                     *)
THEOREM BuffersHold == CommandsSpec => []WritesStayInside
<1>1. ASSUME CallsInv, NEW t \in Clients, Calling(t), NEW k \in DOMAIN call[t].outs
      PROVE  /\ call[t].c.room[k] <= call[t].outs[k].cap
             /\ \A b \in Answers(call[t].c) :
                  call[t].outs[k].kept # "reported" => b[k] <= call[t].outs[k].cap
  <2>1. Answered(call[t])
    BY <1>1, CallsAnswered DEF CallsInv, CallInv
  <2>2. ASSUME NEW b \in Answers(call[t].c)
        PROVE  Served(call[t].outs[k], call[t].c.room[k], b[k])
    BY <1>1, <2>1, <2>2 DEF Answered
  <2>3. ASSUME NEW b \in Answers(call[t].c)
        PROVE  /\ call[t].c.room[k] <= call[t].outs[k].cap
               /\ call[t].outs[k].kept # "reported" => b[k] <= call[t].outs[k].cap
    BY <2>2, <2>3 DEF Served
  <2>4. QED BY <2>1, <2>3 DEF Answered
<1>2. CallsInv => WritesStayInside
  BY <1>1 DEF WritesStayInside
<1>3. QED BY <1>2, CallsInvariant, PTL

(* Where the library is told of its room, the chip's answer fits. *)
THEOREM RoomSuffices == CommandsSpec => []AnswersFit
<1>1. ASSUME CallsInv, NEW t \in Clients, Calling(t), NEW k \in DOMAIN call[t].outs,
             NEW b \in Answers(call[t].c), call[t].outs[k].kept = "reported"
      PROVE  b[k] <= call[t].c.room[k]
  <2>1. Answered(call[t])
    BY <1>1, CallsAnswered DEF CallsInv, CallInv
  <2>2. QED BY <1>1, <2>1 DEF Answered, Served
<1>2. CallsInv => AnswersFit
  BY <1>1 DEF AnswersFit
<1>3. QED BY <1>2, CallsInvariant, PTL

(* The length of an OCTET STRING in short form. *)
LEMMA ShortLength ==
  ASSUME NEW n \in Nat, n < 128
  PROVE  der_len(<<4, n>>) = n + 2
BY DEF der_len

(* What the method keeps of a written buffer is all that was written. *)
LEMMA KeepsTheAnswer ==
  ASSUME NEW m, NEW f, f.done, Answered(m), f.bytes \in Answers(m.c), ~BadData(m, f),
         NEW k \in DOMAIN m.outs
  PROVE  Kept(m, f, k) = f.bytes[k]
<1> DEFINE o == m.outs[k]
           n == f.bytes[k]
<1>1. Served(o, m.c.room[k], n) /\ (o.kept = "der" => k = 1)
  BY DEF Answered
<1>2. CASE o.kept = "whole"
  BY <1>1, <1>2 DEF Served, Kept
<1>3. CASE o.kept = "reported"
  <2>1. n <= o.cap
    BY <1>1, <1>3 DEF Served
  <2>2. Kept(m, f, k) = AtMost(n, o.cap)
    BY <1>3 DEF Kept
  <2>3. QED BY <1>1, <2>1, <2>2 DEF AtMost, Served
<1>4. CASE o.kept = "der"
  <2>1. der_len(PrivateKey(f)) # 0
    BY <1>4 DEF BadData
  <2>2. n # 0
    BY <1>1, <1>4, <2>1 DEF PrivateKey, der_len
  <2>3. PrivateKey(f) = <<4, n - 2>>
    BY <1>1, <1>4, <2>2 DEF PrivateKey
  <2>4. der_len(PrivateKey(f)) = n
    BY <1>1, <1>4, <2>2, <2>3, ShortLength DEF Served
  <2>5. QED BY <1>1, <1>4, <2>4 DEF Served, Kept, AtMost
<1>5. QED BY <1>1, <1>2, <1>3, <1>4 DEF Served

(* Ok brings back the chip's answer, whole and with nothing behind it. *)
THEOREM AnswersComeBackWhole == CommandsSpec => []OkIsTheChipsAnswer
<1>1. ASSUME CallsInv, NEW t \in Clients, returned[t].status = "Ok", filled[t].done
      PROVE  returned[t].bytes = filled[t].bytes
  <2>1. /\ Answered(call[t]) /\ filled[t].bytes \in Answers(call[t].c)
        /\ ~BadData(call[t], filled[t])
        /\ returned[t].bytes = [k \in DOMAIN call[t].outs |-> Kept(call[t], filled[t], k)]
    BY <1>1, CallsAnswered DEF CallsInv, CallInv
  <2>2. returned[t].bytes = [k \in DOMAIN call[t].outs |-> filled[t].bytes[k]]
    BY <1>1, <2>1, KeepsTheAnswer
  <2>3. filled[t].bytes \in Seq(Nat) /\ DOMAIN filled[t].bytes = DOMAIN call[t].outs
    BY <2>1 DEF Answered
  <2>4. QED BY <2>2, <2>3
<1>2. CallsInv => OkIsTheChipsAnswer
  BY <1>1 DEF OkIsTheChipsAnswer
<1>3. QED BY <1>2, CallsInvariant, PTL
=============================================================================
