-------------------------- MODULE RefinementProofs --------------------------
(***************************************************************************)
(* That Trustm implements Session, for every instance: the initial states  *)
(* map to its initial states and every step to a step of its own or to a   *)
(* stutter.                                                                *)
(***************************************************************************)
EXTENDS TrustmRefinement, TrustmProofs

USE DEF library, pal, flag, cell, control, handle, args, watch

(* The mapped variables, by name. *)
Phase   == [t \in Clients |-> AbstractPhase(pc[t])]
Serving == ~timedOut /\ ~LibraryIdle
Reply   == IF ~timedOut /\ Replied THEN FromStatus(STATUS) ELSE "none"

Chip == <<Serving, Reply, timedOut>>

-----------------------------------------------------------------------------
(* Where a client is, before and after a Goto. *)

LEMMA PhaseOf ==
  /\ AbstractPhase("out") = "outside"
  /\ AbstractPhase("idle") = "holding"
  /\ \A l \in {"load", "check"} : AbstractPhase(l) = "running"
  /\ \A l \in PCs \ {"out", "idle", "load", "check"} : AbstractPhase(l) = "calling"
BY DEF AbstractPhase, Waiting, PCs, Inside, Opening, Running, Dropping

LEMMA PhaseMoves ==
  ASSUME ClientsTypeOK, NEW t \in Clients, NEW l \in PCs, Goto(t, l)
  PROVE  /\ Phase' = [Phase EXCEPT ![t] = AbstractPhase(l)]
         /\ Phase[t] = AbstractPhase(pc[t])
         /\ AbstractPhase(l) = AbstractPhase(pc[t]) => Phase' = Phase
BY DEF ClientsTypeOK, Goto, Phase

-----------------------------------------------------------------------------
(* What the chip does, as far as a step changes it. *)

LEMMA IdleKept ==
  ASSUME Shape,
         \/ UNCHANGED library
         \/ \E i \in Slots : optiga_create(i) \/ optiga_destroy(i) \/ optiga_finish(i)
  PROVE  LibraryIdle' = LibraryIdle
BY DEF Shape, LibraryTypeOK, SlotStates, LibraryIdle, InFlight, library,
       optiga_create, optiga_destroy, optiga_finish

LEMMA ChipKept ==
  ASSUME ClientsTypeOK, NEW t \in Clients, NEW l \in PCs, Goto(t, l),
         l \in Waiting <=> pc[t] \in Waiting,
         UNCHANGED <<STATUS, timedOut>>, LibraryIdle' = LibraryIdle
  PROVE  UNCHANGED Chip
<1>1. Replied' = Replied
  BY DEF ClientsTypeOK, Goto, Replied
<1>2. QED BY <1>1 DEF Chip, Serving, Reply, FromStatus

(* Until a stray clear whoever is inside a session is alone there, and has  *)
(* its reply when the cell holds one.                                       *)
LEMMA InsideAlone ==
  ASSUME IInv, ~stray, NEW t \in Clients, pc[t] \in Inside
  PROVE  /\ holder = t
         /\ Replied <=> STATUS # OPTIGA_LIB_BUSY /\ pc[t] \in Waiting
BY DEF IInv, FlagInv, Replied, Waiting, Inside, Running

(* A run about to issue its call has nothing else in flight, up to the      *)
(* first timeout.                                                           *)
LEMMA CallIsFirst ==
  ASSUME IInv, ~stray, NEW t \in Clients, pc[t] = "call"
  PROVE  ~Serving /\ Reply = "none"
<1>1. ~timedOut => QuietRun(t)
  BY DEF IInv, AlwaysQuiet, AnswerInv
<1>2. ~Replied
  BY InsideAlone DEF Inside, Running, Waiting
<1>3. QED BY <1>1, <1>2 DEF QuietRun, Serving, Reply

(* No handler reports BUSY. *)
LEMMA FinalIsNotBusy == \A s \in FinalStatuses : s # OPTIGA_LIB_BUSY
BY ErrorCodesAssumption DEF FinalStatuses, OPTIGA_LIB_SUCCESS, OPTIGA_LIB_BUSY

(* A run never returns more than Ok or Err. *)
LEMMA RunLands ==
  ASSUME ClientsTypeOK, NEW t \in Clients, NEW r, RunReturn(t, r)
  PROVE  \E l \in {"idle", "destroy_crypt"} : Goto(t, l)
BY DEF RunReturn, AfterRun

-----------------------------------------------------------------------------
(* Every step, up to a stray clear, is a step of the promise or a stutter.  *)

Stutter == UNCHANGED <<holder, Phase, result, Chip>>

(* A client goes on inside a call, whatever it does to the instances. *)
LEMMA Unseen ==
  ASSUME Shape, NEW t \in Clients, NEW l, Goto(t, l),
         \/ {pc[t], l} \subseteq PCs \ {"out", "idle", "load", "check"}
         \/ {pc[t], l} \subseteq {"load", "check"},
         UNCHANGED <<STATUS, timedOut, holder, result>>, LibraryIdle' = LibraryIdle
  PROVE  Stutter
<1>1. ClientsTypeOK /\ l \in PCs /\ (l \in Waiting <=> pc[t] \in Waiting)
  BY DEF Shape, PCs, Inside, Opening, Running, Dropping, Waiting
<1>2. Phase' = Phase
  BY <1>1, PhaseMoves, PhaseOf
<1>3. UNCHANGED Chip
  BY <1>1, ChipKept
<1>4. QED BY <1>2, <1>3 DEF Stutter

LEMMA StepOfPromise ==
  ASSUME IInv, IInv', [Next]_vars, ~stray, ~stray'
  PROVE  Promise!Step \/ Stutter
<1> DEFINE Goal == Promise!Step \/ Stutter
<1>a. Shape /\ ClientsTypeOK /\ NoClient \notin Clients
  BY TrustmAssumption DEF IInv, TypeOK, Shape
<1>b. \A u \in Clients : pc[u] \in PCs
  BY <1>a DEF ClientsTypeOK
<1> HIDE DEF Goal
<1>1. ASSUME NEW t \in Clients, OpenRefused(t) PROVE Goal
  <2>1. Phase[t] \in {"outside", "holding"}
    BY <1>1, PhaseOf DEF OpenRefused, Phase
  <2>2. UNCHANGED <<Phase, Chip>>
    BY <1>1, <1>a, IdleKept DEF OpenRefused, Phase, Chip, Serving, Reply, Replied
  <2>3. Promise!Refuse(t)
    BY <1>1, <2>1, <2>2 DEF OpenRefused, Promise!Refuse, Promise!chip, Phase, Chip,
       Serving, Reply
  <2>4. QED BY <2>3 DEF Promise!Step, Goal
<1>2. ASSUME NEW t \in Clients, NEW path \in Paths, NEW a \in Addrs,
   OpenEnter(t, path, a) PROVE Goal
  <2>1. Phase' = [Phase EXCEPT ![t] = "calling"] /\ Phase[t] = "outside"
    BY <1>2, <1>a, PhaseMoves, PhaseOf DEF OpenEnter, PCs, Inside, Opening
  <2>2. UNCHANGED Chip
    BY <1>2, <1>a, IdleKept, ChipKept DEF OpenEnter, PCs, Inside, Opening, Waiting
  <2>3. holder = NoClient
    BY <1>2 DEF OpenEnter, IInv, FlagInv
  <2>4. Promise!Enter(t)
    BY <1>2, <2>1, <2>2, <2>3 DEF OpenEnter, Promise!Enter, Promise!Move,
       Promise!chip, Phase, Chip, Serving, Reply
  <2>5. QED BY <2>4 DEF Promise!Step, Goal
<1>3. ASSUME NEW t \in Clients, NEW o \in {"util", "crypt", "close"},
   Command(t, o) PROVE Goal
  <2>1. Phase' = [Phase EXCEPT ![t] = "calling"] /\ Phase[t] = "holding"
    BY <1>3, <1>a, PhaseMoves, PhaseOf DEF Command, PCs, Inside, Opening,
       Running, Dropping, Waiting
  <2>2. UNCHANGED Chip
    BY <1>3, <1>a, IdleKept, ChipKept DEF Command, PCs, Inside, Opening,
       Running, Dropping, Waiting
  <2>3. Promise!Call(t)
    BY <1>3, <2>1, <2>2 DEF Command, Promise!Call, Promise!Move,
       Promise!chip, Phase, Chip, Serving, Reply
  <2>4. QED BY <2>3 DEF Promise!Step, Goal
<1>4. ASSUME NEW t \in Clients, CommandRejected(t) PROVE Goal
  <2>1. Phase[t] \in {"outside", "holding"}
    BY <1>4, PhaseOf DEF CommandRejected, Phase
  <2>2. UNCHANGED <<Phase, Chip>>
    BY <1>4, <1>a, IdleKept DEF CommandRejected, Phase, Chip, Serving, Reply, Replied
  <2>3. Promise!Refuse(t)
    BY <1>4, <2>1, <2>2 DEF CommandRejected, Promise!Refuse, Promise!chip, Phase, Chip,
       Serving, Reply
  <2>4. QED BY <2>3 DEF Promise!Step, Goal
<1>5. ASSUME NEW t \in Clients, NEW d \in TimeoutValues, set_timeout(t, d) PROVE Goal
  <2>1. QED BY <1>5, <1>a, IdleKept DEF set_timeout, Goal, Stutter, Phase, Chip,
             Serving, Reply, Replied
<1>6. ASSUME NEW t \in Clients, BeginDrop(t) PROVE Goal
  <2>1. Phase' = [Phase EXCEPT ![t] = "calling"] /\ Phase[t] = "holding"
    BY <1>6, <1>a, PhaseMoves, PhaseOf DEF BeginDrop, PCs, Inside, Opening,
       Running, Dropping, Waiting
  <2>2. UNCHANGED Chip
    BY <1>6, <1>a, IdleKept, ChipKept DEF BeginDrop, PCs, Inside, Opening,
       Running, Dropping, Waiting
  <2>3. Promise!Call(t)
    BY <1>6, <2>1, <2>2 DEF BeginDrop, Promise!Call, Promise!Move,
       Promise!chip, Phase, Chip, Serving, Reply
  <2>4. QED BY <2>3 DEF Promise!Step, Goal
<1>7. ASSUME NEW t \in Clients, BadPath(t) PROVE Goal
  <2>1. Phase' = [Phase EXCEPT ![t] = "calling"] /\ Phase[t] = "calling"
    BY <1>7, <1>a, PhaseMoves, PhaseOf DEF BadPath, PCs, Inside, Opening,
       Running, Dropping, Waiting
  <2>2. UNCHANGED Chip
    BY <1>7, <1>a, IdleKept, ChipKept DEF BadPath, PCs, Inside, Opening,
       Running, Dropping, Waiting
  <2>3. Promise!Fail(t)
    BY <1>7, <2>1, <2>2 DEF BadPath, Promise!Fail, Promise!Move,
       Promise!chip, Phase, Chip, Serving, Reply
  <2>4. QED BY <2>3 DEF Promise!Step, Goal
<1>8. ASSUME NEW t \in Clients, Configure(t) PROVE Goal
  <2>1. QED BY <1>8, <1>a, IdleKept, Unseen DEF Configure, Goal, PCs, Inside,
     Opening, Running, Dropping, Waiting
<1>9. ASSUME NEW t \in Clients, UtilCreate(t) PROVE Goal
  <2>1. LibraryIdle' = LibraryIdle
    BY <1>9, <1>a, IdleKept DEF UtilCreate
  <2>2. QED BY <1>9, <2>1, <1>a, Unseen DEF UtilCreate, Goal, PCs, Inside,
     Opening, Running, Dropping, Waiting
<1>10. ASSUME NEW t \in Clients, UtilCreateFails(t) PROVE Goal
  <2>1. Phase' = [Phase EXCEPT ![t] = "calling"] /\ Phase[t] = "calling"
    BY <1>10, <1>a, PhaseMoves, PhaseOf DEF UtilCreateFails, PCs, Inside,
       Opening, Running, Dropping, Waiting
  <2>2. UNCHANGED Chip
    BY <1>10, <1>a, IdleKept, ChipKept DEF UtilCreateFails, PCs, Inside,
       Opening, Running, Dropping, Waiting
  <2>3. Promise!Fail(t)
    BY <1>10, <2>1, <2>2 DEF UtilCreateFails, Promise!Fail, Promise!Move,
       Promise!chip, Phase, Chip, Serving, Reply
  <2>4. QED BY <2>3 DEF Promise!Step, Goal
<1>11. ASSUME NEW t \in Clients, CryptCreate(t) PROVE Goal
  <2>1. LibraryIdle' = LibraryIdle
    BY <1>11, <1>a, IdleKept DEF CryptCreate
  <2>2. QED BY <1>11, <2>1, <1>a, Unseen DEF CryptCreate, Goal, PCs, Inside,
     Opening, Running, Dropping, Waiting
<1>12. ASSUME NEW t \in Clients, CryptCreateFails(t) PROVE Goal
  <2>1. util[t] \in Slots
    BY <1>12, <1>a DEF CryptCreateFails, IInv, PointerInv, ClientsTypeOK
  <2>2. LibraryIdle' = LibraryIdle
    BY <1>12, <2>1, <1>a, IdleKept DEF CryptCreateFails
  <2>3. Phase' = [Phase EXCEPT ![t] = "calling"] /\ Phase[t] = "calling"
    BY <1>12, <1>a, PhaseMoves, PhaseOf DEF CryptCreateFails, PCs, Inside,
       Opening, Running, Dropping, Waiting
  <2>4. UNCHANGED Chip
    BY <1>12, <2>2, <1>a, ChipKept DEF CryptCreateFails, PCs, Inside, Opening,
       Running, Dropping, Waiting
  <2>5. Promise!Fail(t)
    BY <1>12, <2>3, <2>4 DEF CryptCreateFails, Promise!Fail, Promise!Move,
       Promise!chip, Phase, Chip, Serving, Reply
  <2>6. QED BY <2>5 DEF Promise!Step, Goal
<1>13. ASSUME NEW t \in Clients, Rollback(t) PROVE Goal
  <2>1. Phase' = [Phase EXCEPT ![t] = "outside"] /\ Phase[t] = "calling"
    BY <1>13, <1>a, PhaseMoves, PhaseOf DEF Rollback, PCs, Inside, Opening,
       Running, Dropping, Waiting
  <2>2. UNCHANGED Chip
    BY <1>13, <1>a, IdleKept, ChipKept DEF Rollback, PCs, Inside, Opening,
       Running, Dropping, Waiting
  <2>3. CASE holder = t
    <3>1. Promise!Leave(t)
      BY <1>13, <2>1, <2>2, <2>3 DEF Rollback, ClearFlag, Promise!Leave,
         Promise!Move, Promise!chip, Phase, Chip, Serving, Reply
    <3>2. QED BY <3>1 DEF Promise!Step, Goal
  <2>4. CASE holder = NoClient
    <3>1. Promise!End(t)
      BY <1>13, <1>a, <2>1, <2>2, <2>4 DEF Rollback, ClearFlag, Promise!End,
         Promise!Move, Promise!chip, Phase, Chip, Serving, Reply
    <3>2. QED BY <3>1 DEF Promise!Step, Goal
  <2>5. QED BY <1>13, <2>3, <2>4 DEF Rollback, ClearFlag
<1>14. ASSUME NEW t \in Clients, RunReset(t) PROVE Goal
  <2>1. LibraryIdle' = LibraryIdle /\ Phase' = Phase
    BY <1>14, <1>a, IdleKept, PhaseMoves, PhaseOf DEF RunReset, PCs, Inside,
       Opening, Running, Dropping, Waiting
  <2>2. ~Replied /\ ~Replied'
    BY <1>14, InsideAlone DEF RunReset, Inside, Running, Waiting, Replied
  <2>3. QED BY <1>14, <2>1, <2>2 DEF RunReset, Goal, Stutter, Chip, Serving, Reply
<1>15. ASSUME NEW t \in Clients, RunRefused(t) PROVE Goal
  <2>1. PICK l \in {"idle", "destroy_crypt"} : Goto(t, l)
    BY <1>15, <1>a, RunLands DEF RunRefused
  <2>2. AbstractPhase(l) \in {"holding", "calling"} /\ AbstractPhase(pc[t]) = "calling"
    BY <1>15, PhaseOf DEF RunRefused, PCs, Inside, Opening, Running, Dropping, Waiting
  <2>3. Phase' = [Phase EXCEPT ![t] = AbstractPhase(l)] /\ Phase[t] = "calling"
    BY <1>a, <2>1, <2>2, PhaseMoves DEF PCs, Inside, Opening, Running, Dropping, Waiting
  <2>4. UNCHANGED Chip
    BY <1>15, <1>a, <2>1, IdleKept, ChipKept DEF RunRefused, RunReturn, PCs,
       Inside, Opening, Running, Dropping, Waiting
  <2>5. Promise!Fail(t)
    BY <1>15, <2>2, <2>3, <2>4 DEF RunRefused, RunReturn, Promise!Fail, Promise!Move,
       Promise!chip, Phase, Chip, Serving, Reply
  <2>6. QED BY <2>5 DEF Promise!Step, Goal
<1>16. ASSUME NEW t \in Clients, RunAccepted(t) PROVE Goal
  <2>1. Phase' = [Phase EXCEPT ![t] = "running"] /\ Phase[t] = "calling"
    BY <1>16, <1>a, PhaseMoves, PhaseOf DEF RunAccepted, PCs, Inside, Opening,
       Running, Dropping, Waiting
  <2>2. holder = t /\ ~Serving /\ Reply = "none"
    BY <1>16, InsideAlone, CallIsFirst DEF RunAccepted, Inside, Running
  <2>3. Serving' = ~timedOut
    <3>1. Inst(t) \in Slots
      BY <1>16, <1>a DEF RunAccepted, Inst, IInv, PointerInv, ClientsTypeOK, Running
    <3>2. ~LibraryIdle'
      BY <1>16, <1>a, <3>1 DEF RunAccepted, optiga_accept, Shape, LibraryTypeOK,
         LibraryIdle, InFlight
    <3>3. QED BY <1>16, <3>2 DEF RunAccepted, Serving
  <2>4. Reply' = "none"
    <3>1. ~timedOut => STATUS = OPTIGA_LIB_BUSY
      BY <1>16 DEF RunAccepted, IInv, AlwaysQuiet, AnswerInv, QuietRun
    <3>2. QED BY <1>16, <3>1 DEF RunAccepted, Reply, Replied
  <2>5. Promise!Start(t)
    BY <1>16, <2>1, <2>2, <2>3, <2>4 DEF RunAccepted, Promise!Start, Promise!Move,
       Phase, Serving, Reply
  <2>6. QED BY <2>5 DEF Promise!Step, Goal
<1>17. ASSUME NEW t \in Clients, RunLoad(t) PROVE Goal
  <2>1. CASE STATUS = OPTIGA_LIB_BUSY
    <3>1. QED BY <1>17, <2>1, <1>a, IdleKept, Unseen DEF RunLoad, Goal
  <2>2. CASE STATUS # OPTIGA_LIB_BUSY
    <3>1. RunReturn(t, FromStatus(STATUS)) /\ UNCHANGED <<library, timedOut>>
      BY <1>17, <2>2 DEF RunLoad
    <3>2. PICK l \in {"idle", "destroy_crypt"} : Goto(t, l)
      BY <1>a, <3>1, RunLands
    <3>3. AbstractPhase(l) \in {"holding", "calling"} /\ AbstractPhase(pc[t]) = "running"
      BY <1>17, PhaseOf DEF RunLoad, PCs, Inside, Opening, Running, Dropping, Waiting
    <3>4. Phase' = [Phase EXCEPT ![t] = AbstractPhase(l)] /\ Phase[t] = "running"
      BY <1>a, <3>2, <3>3, PhaseMoves DEF PCs, Inside, Opening, Running,
         Dropping, Waiting
    <3>5. Replied /\ Reply = IF timedOut THEN "none" ELSE FromStatus(STATUS)
      BY <1>17, <2>2, InsideAlone DEF RunLoad, Inside, Running, Waiting, Reply
    <3>6. Serving' = Serving
      BY <1>a, <3>1, IdleKept DEF Serving
    <3>7. Reply' = "none"
      <4>1. \A u \in Clients : pc'[u] \notin Waiting
        BY <1>17, <1>a, <3>2 DEF RunLoad, Goto, ClientsTypeOK, IInv, FlagInv, Inside,
           Running, Waiting
      <4>2. QED BY <4>1 DEF Reply, Replied
    <3>8. FromStatus(STATUS) \in {"Ok", "Err"}
      BY DEF FromStatus
    <3>9. Promise!Return(t)
      BY <3>1, <3>3, <3>4, <3>5, <3>6, <3>7, <3>8 DEF RunReturn, flag,
         Promise!Return, Promise!Move, Promise!Results, Phase, Serving, Reply
    <3>10. QED BY <3>9 DEF Promise!Step, Goal
  <2>3. QED BY <2>1, <2>2
<1>18. ASSUME NEW t \in Clients, RunTimeout(t) PROVE Goal
  <2>1. PICK l \in {"idle", "destroy_crypt"} : Goto(t, l)
    BY <1>18, <1>a, RunLands DEF RunTimeout
  <2>2. AbstractPhase(l) \in {"holding", "calling"} /\ AbstractPhase(pc[t]) = "running"
    BY <1>18, PhaseOf DEF RunTimeout, PCs, Inside, Opening, Running, Dropping, Waiting
  <2>3. Phase' = [Phase EXCEPT ![t] = AbstractPhase(l)] /\ Phase[t] = "running"
    BY <1>a, <2>1, <2>2, PhaseMoves DEF PCs, Inside, Opening, Running, Dropping, Waiting
  <2>4. ~Serving' /\ Reply' = "none"
    BY <1>18 DEF RunTimeout, Serving, Reply
  <2>5. Promise!GiveUp(t)
    BY <1>18, <2>2, <2>3, <2>4 DEF RunTimeout, RunReturn, Promise!GiveUp, Promise!Move,
       Phase, Serving, Reply
  <2>6. QED BY <2>5 DEF Promise!Step, Goal
<1>19. ASSUME NEW t \in Clients, RunSleep(t) PROVE Goal
  <2>1. QED BY <1>19, <1>a, IdleKept, Unseen DEF RunSleep, Goal
<1>20. ASSUME NEW t \in Clients, DestroyCrypt(t) PROVE Goal
  <2>1. crypt[t] \in Slots
    BY <1>20, <1>a DEF DestroyCrypt, IInv, PointerInv, ClientsTypeOK
  <2>2. LibraryIdle' = LibraryIdle
    BY <1>20, <2>1, <1>a, IdleKept DEF DestroyCrypt
  <2>3. QED BY <1>20, <2>2, <1>a, Unseen DEF DestroyCrypt, Goal, PCs, Inside,
     Opening, Running, Dropping, Waiting
<1>21. ASSUME NEW t \in Clients, DestroyUtil(t) PROVE Goal
  <2>1. util[t] \in Slots
    BY <1>21, <1>a DEF DestroyUtil, IInv, PointerInv, ClientsTypeOK
  <2>2. LibraryIdle' = LibraryIdle
    BY <1>21, <2>1, <1>a, IdleKept DEF DestroyUtil
  <2>3. QED BY <1>21, <2>2, <1>a, Unseen DEF DestroyUtil, Goal, PCs, Inside,
     Opening, Running, Dropping, Waiting
<1>22. ASSUME NEW t \in Clients, Release(t) PROVE Goal
  <2>1. Phase' = [Phase EXCEPT ![t] = "calling"] /\ Phase[t] = "calling"
    BY <1>22, <1>a, PhaseMoves, PhaseOf DEF Release, PCs, Inside, Opening,
       Running, Dropping, Waiting
  <2>2. UNCHANGED Chip
    BY <1>22, <1>a, IdleKept, ChipKept DEF Release, PCs, Inside, Opening,
       Running, Dropping, Waiting
  <2>3. holder = t
    BY <1>22, InsideAlone DEF Release, Inside, Dropping
  <2>4. Promise!Leave(t)
    BY <1>22, <2>1, <2>2, <2>3 DEF Release, ClearFlag, Promise!Leave, Promise!Move,
       Promise!chip, Phase, Chip, Serving, Reply
  <2>5. QED BY <2>4 DEF Promise!Step, Goal
<1>23. ASSUME NEW t \in Clients, FreeBus(t) PROVE Goal
  <2>1. CASE op[t] = "open"
    BY <1>23, <2>1, <1>a, IdleKept, Unseen DEF FreeBus, Goal, PCs, Inside,
       Opening, Running, Dropping, Waiting
  <2>2. CASE op[t] # "open"
    <3>1. Phase' = [Phase EXCEPT ![t] = "outside"] /\ Phase[t] = "calling"
      BY <1>23, <2>2, <1>a, PhaseMoves, PhaseOf DEF FreeBus, PCs, Inside,
         Opening, Running, Dropping, Waiting
    <3>2. UNCHANGED Chip
      BY <1>23, <2>2, <1>a, IdleKept, ChipKept DEF FreeBus, PCs, Inside,
         Opening, Running, Dropping, Waiting
    <3>3. holder # t
      BY <1>23, <2>2 DEF FreeBus, IInv, FlagInv, Clearing, PCs, Inside,
         Opening, Running, Dropping, Waiting
    <3>4. Promise!End(t)
      BY <1>23, <3>1, <3>2, <3>3 DEF FreeBus, Promise!End, Promise!Move,
         Promise!chip, Phase, Chip, Serving, Reply
    <3>5. QED BY <3>4 DEF Promise!Step, Goal
  <2>3. QED BY <2>1, <2>2
<1>24. ASSUME NEW t \in Clients, Tick(t) PROVE Goal
  <2>1. QED BY <1>24, <1>a, IdleKept DEF Tick, Goal, Stutter, Phase, Chip,
             Serving, Reply, Replied
<1>25. ASSUME NEW i \in Slots, Finish(i) PROVE Goal
  <2>1. QED BY <1>25, <1>a, IdleKept DEF Finish, Goal, Stutter, Phase, Chip,
             Serving, Reply, Replied
<1>26. ASSUME NEW i \in Slots, NEW s \in FinalStatuses,
   on_done(i, s) PROVE Goal
  <2>1. UNCHANGED <<holder, Phase, result, timedOut>>
    BY <1>26 DEF on_done, Phase
  <2>2. CASE timedOut
    <3>1. QED BY <2>1, <2>2 DEF Goal, Stutter, Chip, Serving, Reply
  <2>3. CASE ~timedOut
    <3>1. PICK w \in Clients : pc[w] \in Waiting /\ Inst(w) = i
      BY <1>26, <2>3 DEF on_done, optiga_report, IInv, NoOrphanBeforeTimeout, InFlight,
         Waiters
    <3>2. QuietRun(w)
      BY <2>3, <3>1 DEF IInv, AlwaysQuiet, AnswerInv
    <3>3. Serving /\ ~Serving'
      BY <1>26, <2>3, <3>1, <3>2 DEF on_done, optiga_report, QuietRun, LibraryIdle,
         InFlight, Serving
    <3>4. s # OPTIGA_LIB_BUSY
      BY FinalIsNotBusy
    <3>5. STATUS' = s /\ pc' = pc
      BY <1>26 DEF on_done
    <3>6. Reply' \in {"Ok", "Err"}
      BY <2>1, <2>3, <3>1, <3>4, <3>5 DEF Reply, Replied, FromStatus
    <3>7. Promise!Answer
      BY <2>1, <3>3, <3>6 DEF Promise!Answer, Promise!Results, Phase, Serving, Reply
    <3>8. QED BY <3>7 DEF Promise!Step, Goal
  <2>4. QED BY <2>2, <2>3
<1>27. CASE UNCHANGED vars
  BY <1>27, <1>a, IdleKept DEF vars, Goal, Stutter, Phase, Chip, Serving, Reply,
     Replied
<1>28. QED BY <1>1, <1>2, <1>3, <1>4, <1>5, <1>6, <1>7, <1>8, <1>9, <1>10,
   <1>11, <1>12, <1>13, <1>14, <1>15, <1>16, <1>17, <1>18, <1>19, <1>20,
   <1>21, <1>22, <1>23, <1>24, <1>25, <1>26, <1>27
   DEF Next, Call, Step, Library, Goal

LEMMA PromiseInit == Init => Promise!Init
<1> SUFFICES ASSUME Init PROVE Promise!Init
  OBVIOUS
<1>1. Phase = [t \in Clients |-> "outside"]
  BY PhaseOf DEF Init, Phase
<1>2. ~Serving /\ Reply = "none"
  BY DEF Init, LibraryInit, Serving, Reply, Replied, LibraryIdle, InFlight, Waiting
<1>3. QED BY <1>1, <1>2 DEF Init, Promise!Init, Phase, Serving, Reply

LEMMA PromiseStep ==
  ASSUME IInv, IInv', [Next]_vars
  PROVE  [Promise!Next]_Promise!vars
<1>1. CASE stray'
  BY <1>1 DEF Promise!Next
<1>2. CASE ~stray'
  <2>1. ~stray
    BY <1>2, StrayStays DEF IInv, TypeOK, Shape
  <2>2. CASE Promise!Step
    BY <1>2, <2>1, <2>2 DEF Promise!Next
  <2>3. CASE Stutter
    BY <1>2, <2>1, <2>3 DEF Promise!vars, Stutter, Chip, Phase, Serving, Reply
  <2>4. QED BY <1>2, <2>1, <2>2, <2>3, StepOfPromise
<1>3. QED BY <1>1, <1>2

(* open, run, close, Drop and the callbacks, in every interleaving, do what *)
(* the crate promises: one session at a time, commands one after the other, *)
(* every result up to the first timeout the reply to its own command.       *)
THEOREM TrustmKeepsThePromise == Spec => KeepsThePromise
<1>1. Init => Promise!Init
  BY PromiseInit
<1>2. IInv /\ IInv' /\ [Next]_vars => [Promise!Next]_Promise!vars
  BY PromiseStep
<1>3. QED BY <1>1, <1>2, Invariant, PTL DEF Spec, KeepsThePromise, Promise!Spec
=============================================================================
