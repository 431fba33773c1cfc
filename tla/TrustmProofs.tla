---------------------------- MODULE TrustmProofs ----------------------------
(***************************************************************************)
(* Theorems about Trustm, for every set of clients, every number of        *)
(* registrations and every set of statuses, timeouts and addresses.        *)
(***************************************************************************)
EXTENDS TrustmInduction, TLAPS

USE DEF library, pal, flag, cell, control, handle, args, watch

-----------------------------------------------------------------------------
(* Type correctness. *)

(* Everything but the clocks. *)
Shape ==
  /\ LibraryTypeOK
  /\ PalTypeOK
  /\ StaticsTypeOK
  /\ ClientsTypeOK
  /\ HistoryTypeOK

Clocks == ClocksTypeOK /\ ClockInv

LEMMA ShapeInit == Init => Shape
  <1> SUFFICES ASSUME Init PROVE Shape
    OBVIOUS
  <1>1. LibraryTypeOK
    BY DEF Init, LibraryInit, LibraryTypeOK, SlotStates
  <1>2. PalTypeOK
    BY PalAssumption DEF Init, PalInit, PalTypeOK
  <1>3. StaticsTypeOK
    BY DEF Init, StaticsTypeOK, FinalStatuses, OPTIGA_LIB_SUCCESS
  <1>4. ClientsTypeOK
    BY DEF Init, ClientsTypeOK, PCs, Ops, Results
  <1>5. HistoryTypeOK
    BY DEF Init, HistoryTypeOK
  <1>6. QED BY <1>1, <1>2, <1>3, <1>4, <1>5 DEF Shape

LEMMA ClocksInit == Init => Clocks
  <1> SUFFICES ASSUME Init PROVE Clocks
    OBVIOUS
  <1>1. DefaultTimeout \in Nat
    BY TrustmAssumption
  <1>2. ClocksTypeOK
    BY <1>1, TrustmAssumption DEF Init, ClocksTypeOK
  <1>3. ClockInv
    BY DEF Init, ClockInv
  <1>4. QED BY <1>2, <1>3 DEF Clocks

LEMMA ShapeStep ==
  ASSUME Shape, [Next]_vars
  PROVE  Shape'
<1> USE PalAssumption DEF Shape, LibraryTypeOK, PalTypeOK, StaticsTypeOK,
   ClientsTypeOK, HistoryTypeOK, SlotStates, FinalStatuses,
   OPTIGA_LIB_SUCCESS, OPTIGA_LIB_BUSY, PCs, Inside, Opening, Running,
   Waiting, Dropping, Ops, Results
<1>1. ASSUME NEW t \in Clients, OpenRefused(t) PROVE Shape'
  BY <1>1 DEF OpenRefused
<1>2. ASSUME NEW t \in Clients, NEW path \in Paths, NEW a \in Addrs,
   OpenEnter(t, path, a) PROVE Shape'
  BY <1>2 DEF OpenEnter, Goto
<1>3. ASSUME NEW t \in Clients, NEW o \in {"util", "crypt", "close"},
   Command(t, o) PROVE Shape'
  BY <1>3 DEF Command, Goto
<1>4. ASSUME NEW t \in Clients, CommandRejected(t) PROVE Shape'
  BY <1>4 DEF CommandRejected
<1>5. ASSUME NEW t \in Clients, NEW d \in TimeoutValues, set_timeout(t, d)
   PROVE Shape'
  BY <1>5 DEF set_timeout
<1>6. ASSUME NEW t \in Clients, BeginDrop(t) PROVE Shape'
  BY <1>6 DEF BeginDrop, Goto
<1>7. ASSUME NEW t \in Clients, BadPath(t) PROVE Shape'
  BY <1>7 DEF BadPath, Goto
<1>8. ASSUME NEW t \in Clients, Configure(t) PROVE Shape'
  BY <1>8 DEF Configure, trustm_sys_configure, Goto
<1>9. ASSUME NEW t \in Clients, UtilCreate(t) PROVE Shape'
  BY <1>9 DEF UtilCreate, optiga_create, Goto
<1>10. ASSUME NEW t \in Clients, UtilCreateFails(t) PROVE Shape'
  BY <1>10 DEF UtilCreateFails, Goto
<1>11. ASSUME NEW t \in Clients, CryptCreate(t) PROVE Shape'
  BY <1>11 DEF CryptCreate, optiga_create, Goto
<1>12. ASSUME NEW t \in Clients, CryptCreateFails(t) PROVE Shape'
  BY <1>12 DEF CryptCreateFails, optiga_destroy, Goto
<1>13. ASSUME NEW t \in Clients, Rollback(t) PROVE Shape'
  BY <1>13 DEF Rollback, ClearFlag, Goto
<1>14. ASSUME NEW t \in Clients, RunReset(t) PROVE Shape'
  <2>1. LibraryIdle \in BOOLEAN
    BY DEF LibraryIdle
  <2>2. quiet' \in [Clients -> BOOLEAN]
    BY <1>14, <2>1 DEF RunReset
  <2>3. QED BY <1>14, <2>2 DEF RunReset, Goto
<1>15. ASSUME NEW t \in Clients, RunRefused(t) PROVE Shape'
  BY <1>15 DEF RunRefused, RunReturn, AfterRun, Goto
<1>16. ASSUME NEW t \in Clients, RunAccepted(t) PROVE Shape'
  BY <1>16 DEF RunAccepted, optiga_accept, Goto
<1>17. ASSUME NEW t \in Clients, RunLoad(t) PROVE Shape'
  <2>1. CASE STATUS = OPTIGA_LIB_BUSY
    BY <1>17, <2>1 DEF RunLoad, Goto
  <2>2. CASE STATUS # OPTIGA_LIB_BUSY
    <3> DEFINE r == FromStatus(STATUS)
               l == AfterRun(t, r)
    <3>1. r \in Results /\ l \in {"destroy_crypt", "idle"}
      BY DEF FromStatus, AfterRun
    <3>2. RunReturn(t, r) /\ UNCHANGED <<library, timedOut>>
      BY <1>17, <2>2 DEF RunLoad
    <3> HIDE DEF r
    <3>3. pc' = [pc EXCEPT ![t] = l] /\ op' \in {op, [op EXCEPT ![t] = "none"]}
      BY <3>2 DEF RunReturn, Goto
    <3> HIDE DEF l
    <3>4. ClientsTypeOK'
      BY <3>1, <3>2, <3>3 DEF RunReturn
    <3>5. QED BY <3>2, <3>4 DEF RunReturn
  <2>3. QED BY <2>1, <2>2
<1>18. ASSUME NEW t \in Clients, RunTimeout(t) PROVE Shape'
  BY <1>18 DEF RunTimeout, RunReturn, AfterRun, Goto
<1>19. ASSUME NEW t \in Clients, RunSleep(t) PROVE Shape'
  BY <1>19 DEF RunSleep, Goto
<1>20. ASSUME NEW t \in Clients, DestroyCrypt(t) PROVE Shape'
  BY <1>20 DEF DestroyCrypt, optiga_destroy, Goto
<1>21. ASSUME NEW t \in Clients, DestroyUtil(t) PROVE Shape'
  BY <1>21 DEF DestroyUtil, optiga_destroy, Goto
<1>22. ASSUME NEW t \in Clients, Release(t) PROVE Shape'
  BY <1>22 DEF Release, ClearFlag, Goto
<1>23. ASSUME NEW t \in Clients, FreeBus(t) PROVE Shape'
  BY <1>23 DEF FreeBus, FreePath, Goto
<1>24. ASSUME NEW t \in Clients, Tick(t) PROVE Shape'
  BY <1>24 DEF Tick
<1>25. ASSUME NEW i \in Slots, Finish(i) PROVE Shape'
  BY <1>25 DEF Finish, optiga_finish
<1>26. ASSUME NEW i \in Slots, NEW s \in FinalStatuses, on_done(i, s) PROVE
   Shape'
  BY <1>26 DEF on_done, optiga_report, Waiters
<1>27. CASE UNCHANGED vars
  BY <1>27 DEF vars
<1> HIDE DEF Shape, LibraryTypeOK, PalTypeOK, StaticsTypeOK, ClientsTypeOK,
   HistoryTypeOK, SlotStates, FinalStatuses, OPTIGA_LIB_SUCCESS,
   OPTIGA_LIB_BUSY, PCs, Inside, Opening, Running, Waiting, Dropping, Ops,
   Results
<1>28. QED BY <1>1, <1>2, <1>3, <1>4, <1>5, <1>6, <1>7, <1>8, <1>9, <1>10,
   <1>11, <1>12, <1>13, <1>14, <1>15, <1>16, <1>17, <1>18, <1>19, <1>20,
   <1>21, <1>22, <1>23, <1>24, <1>25, <1>26, <1>27 DEF Next, Call, Step,
   Library

LEMMA ClocksStep ==
  ASSUME Clocks, ClientsTypeOK, [Next]_vars
  PROVE  Clocks'
<1> USE TrustmAssumption DEF Clocks, ClocksTypeOK, ClockInv, Waiting,
   ClientsTypeOK
<1>1. ASSUME NEW t \in Clients, OpenRefused(t) PROVE Clocks'
  BY <1>1 DEF OpenRefused
<1>2. ASSUME NEW t \in Clients, NEW path \in Paths, NEW a \in Addrs,
   OpenEnter(t, path, a) PROVE Clocks'
  BY <1>2 DEF OpenEnter, Goto
<1>3. ASSUME NEW t \in Clients, NEW o \in {"util", "crypt", "close"},
   Command(t, o) PROVE Clocks'
  BY <1>3 DEF Command, Goto
<1>4. ASSUME NEW t \in Clients, CommandRejected(t) PROVE Clocks'
  BY <1>4 DEF CommandRejected
<1>5. ASSUME NEW t \in Clients, NEW d \in TimeoutValues, set_timeout(t, d)
   PROVE Clocks'
  BY <1>5 DEF set_timeout
<1>6. ASSUME NEW t \in Clients, BeginDrop(t) PROVE Clocks'
  BY <1>6 DEF BeginDrop, Goto
<1>7. ASSUME NEW t \in Clients, BadPath(t) PROVE Clocks'
  BY <1>7 DEF BadPath, Goto
<1>8. ASSUME NEW t \in Clients, Configure(t) PROVE Clocks'
  BY <1>8 DEF Configure, trustm_sys_configure, Goto
<1>9. ASSUME NEW t \in Clients, UtilCreate(t) PROVE Clocks'
  BY <1>9 DEF UtilCreate, optiga_create, Goto
<1>10. ASSUME NEW t \in Clients, UtilCreateFails(t) PROVE Clocks'
  BY <1>10 DEF UtilCreateFails, Goto
<1>11. ASSUME NEW t \in Clients, CryptCreate(t) PROVE Clocks'
  BY <1>11 DEF CryptCreate, optiga_create, Goto
<1>12. ASSUME NEW t \in Clients, CryptCreateFails(t) PROVE Clocks'
  BY <1>12 DEF CryptCreateFails, optiga_destroy, Goto
<1>13. ASSUME NEW t \in Clients, Rollback(t) PROVE Clocks'
  BY <1>13 DEF Rollback, ClearFlag, Goto
<1>14. ASSUME NEW t \in Clients, RunReset(t) PROVE Clocks'
  BY <1>14 DEF RunReset, Goto
<1>15. ASSUME NEW t \in Clients, RunRefused(t) PROVE Clocks'
  BY <1>15 DEF RunRefused, RunReturn, AfterRun, Goto
<1>16. ASSUME NEW t \in Clients, RunAccepted(t) PROVE Clocks'
  BY <1>16 DEF RunAccepted, optiga_accept, Goto
<1>17. ASSUME NEW t \in Clients, RunLoad(t) PROVE Clocks'
  <2>1. CASE STATUS = OPTIGA_LIB_BUSY
    BY <1>17, <2>1 DEF RunLoad, Goto
  <2>2. CASE STATUS # OPTIGA_LIB_BUSY
    <3>1. waited' = [waited EXCEPT ![t] = 0] /\ timeout' = timeout
      BY <1>17, <2>2 DEF RunLoad, RunReturn
    <3>2. \A u \in Clients \ {t} : pc'[u] = pc[u]
      BY <1>17, <2>2 DEF RunLoad, RunReturn, Goto
    <3>3. timeout[t] \in Nat
      OBVIOUS
    <3>4. QED BY <3>1, <3>2, <3>3
  <2>3. QED BY <2>1, <2>2
<1>18. ASSUME NEW t \in Clients, RunTimeout(t) PROVE Clocks'
  <2>1. waited' = [waited EXCEPT ![t] = 0] /\ timeout' = timeout
    BY <1>18 DEF RunTimeout, RunReturn
  <2>2. \A u \in Clients \ {t} : pc'[u] = pc[u]
    BY <1>18 DEF RunTimeout, RunReturn, Goto
  <2>3. timeout[t] \in Nat
    OBVIOUS
  <2>4. QED BY <2>1, <2>2, <2>3
<1>19. ASSUME NEW t \in Clients, RunSleep(t) PROVE Clocks'
  BY <1>19 DEF RunSleep, Goto
<1>20. ASSUME NEW t \in Clients, DestroyCrypt(t) PROVE Clocks'
  BY <1>20 DEF DestroyCrypt, optiga_destroy, Goto
<1>21. ASSUME NEW t \in Clients, DestroyUtil(t) PROVE Clocks'
  BY <1>21 DEF DestroyUtil, optiga_destroy, Goto
<1>22. ASSUME NEW t \in Clients, Release(t) PROVE Clocks'
  BY <1>22 DEF Release, ClearFlag, Goto
<1>23. ASSUME NEW t \in Clients, FreeBus(t) PROVE Clocks'
  BY <1>23 DEF FreeBus, FreePath, Goto
<1>24. ASSUME NEW t \in Clients, Tick(t) PROVE Clocks'
  <2>1. waited'[t] = waited[t] + 1 /\ waited[t] <= timeout[t]
    BY <1>24 DEF Tick
  <2>2. waited' \in [Clients -> Nat]
    BY <1>24 DEF Tick
  <2>3. \A u \in Clients \ {t} : waited'[u] = waited[u]
    BY <1>24 DEF Tick
  <2>4. timeout' = timeout /\ pc' = pc /\ pc[t] \in Waiting
    BY <1>24 DEF Tick
  <2>5. timeout[t] \in Nat
    OBVIOUS
  <2>6. QED BY <2>1, <2>2, <2>3, <2>4, <2>5
<1>25. ASSUME NEW i \in Slots, Finish(i) PROVE Clocks'
  BY <1>25 DEF Finish, optiga_finish
<1>26. ASSUME NEW i \in Slots, NEW s \in FinalStatuses, on_done(i, s) PROVE
   Clocks'
  BY <1>26 DEF on_done, optiga_report
<1>27. CASE UNCHANGED vars
  BY <1>27 DEF vars
<1> HIDE DEF Clocks, ClocksTypeOK, ClockInv, Waiting, ClientsTypeOK
<1>28. QED BY <1>1, <1>2, <1>3, <1>4, <1>5, <1>6, <1>7, <1>8, <1>9, <1>10,
   <1>11, <1>12, <1>13, <1>14, <1>15, <1>16, <1>17, <1>18, <1>19, <1>20,
   <1>21, <1>22, <1>23, <1>24, <1>25, <1>26, <1>27 DEF Next, Call, Step,
   Library

(* The type invariant of the session: in particular the clock a run polls   *)
(* stays within its timeout, however set_timeout changes it between runs.   *)
THEOREM TypeCorrect == Spec => []TypeOK
<1> DEFINE TypeInv == Shape /\ Clocks
<1>1. Init => TypeInv
  BY ShapeInit, ClocksInit
<1>2. TypeInv /\ [Next]_vars => TypeInv'
  BY ShapeStep, ClocksStep DEF Shape
<1>3. TypeInv => TypeOK
  BY DEF Shape, Clocks, TypeOK
<1> HIDE DEF TypeInv
<1>4. QED BY <1>1, <1>2, <1>3, PTL DEF Spec
-----------------------------------------------------------------------------
(* The flag and the sessions it guards. *)

LEMMA FlagInit == Init => FlagInv
  BY TrustmAssumption DEF Init, FlagInv, Clearing, Inside, Opening, Running, Dropping

LEMMA FlagStep ==
  ASSUME ClientsTypeOK, HistoryTypeOK, FlagInv, [Next]_vars
  PROVE  FlagInv'
<1> USE TrustmAssumption DEF FlagInv, Clearing, ClientsTypeOK, HistoryTypeOK,
   PCs, Inside, Opening, Running, Waiting, Dropping
<1>1. ASSUME NEW t \in Clients, OpenRefused(t) PROVE FlagInv'
  BY <1>1 DEF OpenRefused
<1>2. ASSUME NEW t \in Clients, NEW path \in Paths, NEW a \in Addrs,
   OpenEnter(t, path, a) PROVE FlagInv'
  BY <1>2 DEF OpenEnter, Goto
<1>3. ASSUME NEW t \in Clients, NEW o \in {"util", "crypt", "close"},
   Command(t, o) PROVE FlagInv'
  BY <1>3 DEF Command, Goto
<1>4. ASSUME NEW t \in Clients, CommandRejected(t) PROVE FlagInv'
  BY <1>4 DEF CommandRejected
<1>5. ASSUME NEW t \in Clients, NEW d \in TimeoutValues, set_timeout(t, d)
   PROVE FlagInv'
  BY <1>5 DEF set_timeout
<1>6. ASSUME NEW t \in Clients, BeginDrop(t) PROVE FlagInv'
  BY <1>6 DEF BeginDrop, Goto
<1>7. ASSUME NEW t \in Clients, BadPath(t) PROVE FlagInv'
  BY <1>7 DEF BadPath, Goto
<1>8. ASSUME NEW t \in Clients, Configure(t) PROVE FlagInv'
  BY <1>8 DEF Configure, trustm_sys_configure, Goto
<1>9. ASSUME NEW t \in Clients, UtilCreate(t) PROVE FlagInv'
  BY <1>9 DEF UtilCreate, optiga_create, Goto
<1>10. ASSUME NEW t \in Clients, UtilCreateFails(t) PROVE FlagInv'
  BY <1>10 DEF UtilCreateFails, Goto
<1>11. ASSUME NEW t \in Clients, CryptCreate(t) PROVE FlagInv'
  BY <1>11 DEF CryptCreate, optiga_create, Goto
<1>12. ASSUME NEW t \in Clients, CryptCreateFails(t) PROVE FlagInv'
  BY <1>12 DEF CryptCreateFails, optiga_destroy, Goto
<1>13. ASSUME NEW t \in Clients, Rollback(t) PROVE FlagInv'
  BY <1>13 DEF Rollback, ClearFlag, Goto
<1>14. ASSUME NEW t \in Clients, RunReset(t) PROVE FlagInv'
  BY <1>14 DEF RunReset, Goto
<1>15. ASSUME NEW t \in Clients, RunRefused(t) PROVE FlagInv'
  BY <1>15 DEF RunRefused, RunReturn, AfterRun, Goto
<1>16. ASSUME NEW t \in Clients, RunAccepted(t) PROVE FlagInv'
  BY <1>16 DEF RunAccepted, optiga_accept, Goto
<1>17. ASSUME NEW t \in Clients, RunLoad(t) PROVE FlagInv'
  BY <1>17 DEF RunLoad, RunReturn, AfterRun, FromStatus, Goto
<1>18. ASSUME NEW t \in Clients, RunTimeout(t) PROVE FlagInv'
  BY <1>18 DEF RunTimeout, RunReturn, AfterRun, Goto
<1>19. ASSUME NEW t \in Clients, RunSleep(t) PROVE FlagInv'
  BY <1>19 DEF RunSleep, Goto
<1>20. ASSUME NEW t \in Clients, DestroyCrypt(t) PROVE FlagInv'
  BY <1>20 DEF DestroyCrypt, optiga_destroy, Goto
<1>21. ASSUME NEW t \in Clients, DestroyUtil(t) PROVE FlagInv'
  BY <1>21 DEF DestroyUtil, optiga_destroy, Goto
<1>22. ASSUME NEW t \in Clients, Release(t) PROVE FlagInv'
  BY <1>22 DEF Release, ClearFlag, Goto
<1>23. ASSUME NEW t \in Clients, FreeBus(t) PROVE FlagInv'
  BY <1>23 DEF FreeBus, FreePath, Goto
<1>24. ASSUME NEW t \in Clients, Tick(t) PROVE FlagInv'
  BY <1>24 DEF Tick
<1>25. ASSUME NEW i \in Slots, Finish(i) PROVE FlagInv'
  BY <1>25 DEF Finish, optiga_finish
<1>26. ASSUME NEW i \in Slots, NEW s \in FinalStatuses, on_done(i, s) PROVE
   FlagInv'
  BY <1>26 DEF on_done, optiga_report
<1>27. CASE UNCHANGED vars
  BY <1>27 DEF vars
<1> HIDE DEF FlagInv, Clearing, ClientsTypeOK, HistoryTypeOK, PCs, Inside,
   Opening, Running, Waiting, Dropping
<1>28. QED BY <1>1, <1>2, <1>3, <1>4, <1>5, <1>6, <1>7, <1>8, <1>9, <1>10,
   <1>11, <1>12, <1>13, <1>14, <1>15, <1>16, <1>17, <1>18, <1>19, <1>20,
   <1>21, <1>22, <1>23, <1>24, <1>25, <1>26, <1>27 DEF Next, Call, Step,
   Library

-----------------------------------------------------------------------------
(* The instances. *)

(* Client t has instance i destroyed and forgets it. *)
GivesUp(t, i) ==
  /\ optiga_destroy(i)
  /\ \/ i = util[t] /\ util' = [util EXCEPT ![t] = NoSlot] /\ UNCHANGED crypt
     \/ i = crypt[t] /\ crypt' = [crypt EXCEPT ![t] = NoSlot] /\ UNCHANGED util

(* A stray clear is not forgotten. *)
LEMMA StrayStays ==
  ASSUME Shape, [Next]_vars, stray
  PROVE  stray'
BY DEF Next, Call, Step, Library, vars, OpenRefused, OpenEnter, Command,
  CommandRejected, set_timeout, BeginDrop, BadPath, Configure, UtilCreate,
  UtilCreateFails, CryptCreate, CryptCreateFails, Rollback, ClearFlag, RunReset,
  RunRefused, RunReturn, RunAccepted, RunLoad, RunTimeout, RunSleep, DestroyCrypt,
  DestroyUtil, Release, FreeBus, Tick, Finish, on_done

(* An instance has one owner, so nobody misses one that its owner destroys. *)
LEMMA GivenUp ==
  ASSUME ClientsTypeOK, LibraryTypeOK, InstancesNotShared,
         NEW t \in Clients, NEW i \in Slots, GivesUp(t, i)
  PROVE  InstancesNotShared'
<1> USE TrustmAssumption DEF ClientsTypeOK, LibraryTypeOK, GivesUp
<1>1. \A u \in Clients : /\ util'[u] \in {util[u], NoSlot}
                         /\ crypt'[u] \in {crypt[u], NoSlot}
  OBVIOUS
<1>2. \A u \in Clients : util[u] # crypt[u] \/ util[u] = NoSlot
  BY DEF InstancesNotShared
<1>3. \A u \in Clients \ {t} : i # util[u] /\ i # crypt[u]
  <2>1. i \in {util[t], crypt[t]} /\ i # NoSlot
    OBVIOUS
  <2>2. \A u \in Clients \ {t} : {util[t], crypt[t]} \cap {util[u], crypt[u]} \subseteq {NoSlot}
    BY DEF InstancesNotShared
  <2> HIDE DEF GivesUp, ClientsTypeOK, LibraryTypeOK
  <2>3. QED BY <2>1, <2>2
<1>4. i # util'[t] /\ i # crypt'[t]
  BY <1>2
<1>5. \A j \in Slots \ {i} : slot'[j] = slot[j]
  BY DEF optiga_destroy
<1>6. \A u \in Clients : \A j \in {util'[u], crypt'[u]} \ {NoSlot} :
        j \in Slots \ {i} /\ j \in {util[u], crypt[u]}
  BY <1>1, <1>3, <1>4
<1> HIDE DEF ClientsTypeOK, LibraryTypeOK, GivesUp
<1>7. \A u \in Clients : \A j \in {util'[u], crypt'[u]} \ {NoSlot} : slot'[j] # "unused"
  BY <1>5, <1>6 DEF InstancesNotShared
<1>8. \A u \in Clients : util'[u] = crypt'[u] => util'[u] = NoSlot
  BY <1>1, <1>2
<1>9. \A u, v \in Clients :
        u # v => {util'[u], crypt'[u]} \cap {util'[v], crypt'[v]} \subseteq {NoSlot}
  BY <1>1 DEF InstancesNotShared
<1>10. QED BY <1>7, <1>8, <1>9 DEF InstancesNotShared

LEMMA PointerInit == Init => PointerInv /\ InstancesNotShared
  BY DEF Init, PointerInv, InstancesNotShared, Running

LEMMA PointerStep ==
  ASSUME ClientsTypeOK, LibraryTypeOK, PointerInv, InstancesNotShared, [Next]_vars
  PROVE  (PointerInv /\ InstancesNotShared)'
<1> USE TrustmAssumption DEF PointerInv, InstancesNotShared, ClientsTypeOK,
   LibraryTypeOK, SlotStates, PCs, Inside, Opening, Running, Waiting,
   Dropping
<1>1. ASSUME NEW t \in Clients, OpenRefused(t) PROVE (PointerInv /\
   InstancesNotShared)'
  BY <1>1 DEF OpenRefused
<1>2. ASSUME NEW t \in Clients, NEW path \in Paths, NEW a \in Addrs,
   OpenEnter(t, path, a) PROVE (PointerInv /\ InstancesNotShared)'
  BY <1>2 DEF OpenEnter, Goto
<1>3. ASSUME NEW t \in Clients, NEW o \in {"util", "crypt", "close"},
   Command(t, o) PROVE (PointerInv /\ InstancesNotShared)'
  BY <1>3 DEF Command, Goto
<1>4. ASSUME NEW t \in Clients, CommandRejected(t) PROVE (PointerInv /\
   InstancesNotShared)'
  BY <1>4 DEF CommandRejected
<1>5. ASSUME NEW t \in Clients, NEW d \in TimeoutValues, set_timeout(t, d)
   PROVE (PointerInv /\ InstancesNotShared)'
  BY <1>5 DEF set_timeout
<1>6. ASSUME NEW t \in Clients, BeginDrop(t) PROVE (PointerInv /\
   InstancesNotShared)'
  BY <1>6 DEF BeginDrop, Goto
<1>7. ASSUME NEW t \in Clients, BadPath(t) PROVE (PointerInv /\
   InstancesNotShared)'
  BY <1>7 DEF BadPath, Goto
<1>8. ASSUME NEW t \in Clients, Configure(t) PROVE (PointerInv /\
   InstancesNotShared)'
  BY <1>8 DEF Configure, trustm_sys_configure, Goto
<1>9. ASSUME NEW t \in Clients, UtilCreate(t) PROVE (PointerInv /\
   InstancesNotShared)'
  BY <1>9 DEF UtilCreate, optiga_create, Goto
<1>10. ASSUME NEW t \in Clients, UtilCreateFails(t) PROVE (PointerInv /\
   InstancesNotShared)'
  BY <1>10 DEF UtilCreateFails, Goto
<1>11. ASSUME NEW t \in Clients, CryptCreate(t) PROVE (PointerInv /\
   InstancesNotShared)'
  BY <1>11 DEF CryptCreate, optiga_create, Goto
<1>12. ASSUME NEW t \in Clients, CryptCreateFails(t) PROVE (PointerInv /\
   InstancesNotShared)'
  <2>1. PointerInv' /\ util[t] \in Slots
    BY <1>12 DEF CryptCreateFails, Goto
  <2>2. optiga_destroy(util[t]) /\ util' = [util EXCEPT ![t] = NoSlot]
    BY <1>12 DEF CryptCreateFails
  <2>3. UNCHANGED crypt
    BY <1>12 DEF CryptCreateFails
  <2> HIDE DEF InstancesNotShared
  <2>4. InstancesNotShared'
    BY <2>1, <2>2, <2>3, GivenUp DEF GivesUp
  <2>5. QED BY <2>1, <2>4
<1>13. ASSUME NEW t \in Clients, Rollback(t) PROVE (PointerInv /\
   InstancesNotShared)'
  BY <1>13 DEF Rollback, ClearFlag, Goto
<1>14. ASSUME NEW t \in Clients, RunReset(t) PROVE (PointerInv /\
   InstancesNotShared)'
  BY <1>14 DEF RunReset, Goto
<1>15. ASSUME NEW t \in Clients, RunRefused(t) PROVE (PointerInv /\
   InstancesNotShared)'
  BY <1>15 DEF RunRefused, RunReturn, AfterRun, Goto
<1>16. ASSUME NEW t \in Clients, RunAccepted(t) PROVE (PointerInv /\
   InstancesNotShared)'
  BY <1>16 DEF RunAccepted, optiga_accept, Goto
<1>17. ASSUME NEW t \in Clients, RunLoad(t) PROVE (PointerInv /\
   InstancesNotShared)'
  BY <1>17 DEF RunLoad, RunReturn, AfterRun, FromStatus, Goto
<1>18. ASSUME NEW t \in Clients, RunTimeout(t) PROVE (PointerInv /\
   InstancesNotShared)'
  BY <1>18 DEF RunTimeout, RunReturn, AfterRun, Goto
<1>19. ASSUME NEW t \in Clients, RunSleep(t) PROVE (PointerInv /\
   InstancesNotShared)'
  BY <1>19 DEF RunSleep, Goto
<1>20. ASSUME NEW t \in Clients, DestroyCrypt(t) PROVE (PointerInv /\
   InstancesNotShared)'
  <2>1. PointerInv' /\ crypt[t] \in Slots
    BY <1>20 DEF DestroyCrypt, Goto
  <2>2. optiga_destroy(crypt[t]) /\ crypt' = [crypt EXCEPT ![t] = NoSlot]
    BY <1>20 DEF DestroyCrypt
  <2>3. UNCHANGED util
    BY <1>20 DEF DestroyCrypt
  <2> HIDE DEF InstancesNotShared
  <2>4. InstancesNotShared'
    BY <2>1, <2>2, <2>3, GivenUp DEF GivesUp
  <2>5. QED BY <2>1, <2>4
<1>21. ASSUME NEW t \in Clients, DestroyUtil(t) PROVE (PointerInv /\
   InstancesNotShared)'
  <2>1. PointerInv' /\ util[t] \in Slots
    BY <1>21 DEF DestroyUtil, Goto
  <2>2. optiga_destroy(util[t]) /\ util' = [util EXCEPT ![t] = NoSlot]
    BY <1>21 DEF DestroyUtil
  <2>3. UNCHANGED crypt
    BY <1>21 DEF DestroyUtil
  <2> HIDE DEF InstancesNotShared
  <2>4. InstancesNotShared'
    BY <2>1, <2>2, <2>3, GivenUp DEF GivesUp
  <2>5. QED BY <2>1, <2>4
<1>22. ASSUME NEW t \in Clients, Release(t) PROVE (PointerInv /\
   InstancesNotShared)'
  BY <1>22 DEF Release, ClearFlag, Goto
<1>23. ASSUME NEW t \in Clients, FreeBus(t) PROVE (PointerInv /\
   InstancesNotShared)'
  BY <1>23 DEF FreeBus, FreePath, Goto
<1>24. ASSUME NEW t \in Clients, Tick(t) PROVE (PointerInv /\
   InstancesNotShared)'
  BY <1>24 DEF Tick
<1>25. ASSUME NEW i \in Slots, Finish(i) PROVE (PointerInv /\
   InstancesNotShared)'
  BY <1>25 DEF Finish, optiga_finish
<1>26. ASSUME NEW i \in Slots, NEW s \in FinalStatuses, on_done(i, s) PROVE
   (PointerInv /\ InstancesNotShared)'
  BY <1>26 DEF on_done, optiga_report
<1>27. CASE UNCHANGED vars
  BY <1>27 DEF vars
<1> HIDE DEF PointerInv, InstancesNotShared, ClientsTypeOK, LibraryTypeOK,
   SlotStates, PCs, Inside, Opening, Running, Waiting, Dropping
<1>28. QED BY <1>1, <1>2, <1>3, <1>4, <1>5, <1>6, <1>7, <1>8, <1>9, <1>10,
   <1>11, <1>12, <1>13, <1>14, <1>15, <1>16, <1>17, <1>18, <1>19, <1>20,
   <1>21, <1>22, <1>23, <1>24, <1>25, <1>26, <1>27 DEF Next, Call, Step,
   Library

-----------------------------------------------------------------------------
(* The answers. *)

LEMMA AnswerInit == Init => AnswerInv
  BY DEF Init, AnswerInv

LEMMA AnswerStep ==
  ASSUME ClientsTypeOK, HistoryTypeOK, LibraryTypeOK, FlagInv, AnswerInv, [Next]_vars
  PROVE  AnswerInv'
<1> USE TrustmAssumption DEF AnswerInv, QuietRun, FlagInv, LibraryIdle,
   InFlight, Inst, Waiters, OPTIGA_LIB_BUSY, ClientsTypeOK, HistoryTypeOK,
   LibraryTypeOK, SlotStates, PCs, Inside, Opening, Running, Waiting,
   Dropping
<1>1. ASSUME NEW t \in Clients, OpenRefused(t) PROVE AnswerInv'
  BY <1>1 DEF OpenRefused
<1>2. ASSUME NEW t \in Clients, NEW path \in Paths, NEW a \in Addrs,
   OpenEnter(t, path, a) PROVE AnswerInv'
  BY <1>2 DEF OpenEnter, Goto
<1>3. ASSUME NEW t \in Clients, NEW o \in {"util", "crypt", "close"},
   Command(t, o) PROVE AnswerInv'
  BY <1>3 DEF Command, Goto
<1>4. ASSUME NEW t \in Clients, CommandRejected(t) PROVE AnswerInv'
  BY <1>4 DEF CommandRejected
<1>5. ASSUME NEW t \in Clients, NEW d \in TimeoutValues, set_timeout(t, d)
   PROVE AnswerInv'
  BY <1>5 DEF set_timeout
<1>6. ASSUME NEW t \in Clients, BeginDrop(t) PROVE AnswerInv'
  BY <1>6 DEF BeginDrop, Goto
<1>7. ASSUME NEW t \in Clients, BadPath(t) PROVE AnswerInv'
  BY <1>7 DEF BadPath, Goto
<1>8. ASSUME NEW t \in Clients, Configure(t) PROVE AnswerInv'
  BY <1>8 DEF Configure, trustm_sys_configure, Goto
<1>9. ASSUME NEW t \in Clients, UtilCreate(t) PROVE AnswerInv'
  BY <1>9 DEF UtilCreate, optiga_create, Goto
<1>10. ASSUME NEW t \in Clients, UtilCreateFails(t) PROVE AnswerInv'
  BY <1>10 DEF UtilCreateFails, Goto
<1>11. ASSUME NEW t \in Clients, CryptCreate(t) PROVE AnswerInv'
  BY <1>11 DEF CryptCreate, optiga_create, Goto
<1>12. ASSUME NEW t \in Clients, CryptCreateFails(t) PROVE AnswerInv'
  BY <1>12 DEF CryptCreateFails, optiga_destroy, Goto
<1>13. ASSUME NEW t \in Clients, Rollback(t) PROVE AnswerInv'
  BY <1>13 DEF Rollback, ClearFlag, Goto
<1>14. ASSUME NEW t \in Clients, RunReset(t) PROVE AnswerInv'
  BY <1>14 DEF RunReset, Goto
<1>15. ASSUME NEW t \in Clients, RunRefused(t) PROVE AnswerInv'
  BY <1>15 DEF RunRefused, RunReturn, AfterRun, Goto
<1>16. ASSUME NEW t \in Clients, RunAccepted(t) PROVE AnswerInv'
  BY <1>16 DEF RunAccepted, optiga_accept, Goto
<1>17. ASSUME NEW t \in Clients, RunLoad(t) PROVE AnswerInv'
  BY <1>17 DEF RunLoad, RunReturn, AfterRun, FromStatus, Goto
<1>18. ASSUME NEW t \in Clients, RunTimeout(t) PROVE AnswerInv'
  BY <1>18 DEF RunTimeout, RunReturn, AfterRun, Goto
<1>19. ASSUME NEW t \in Clients, RunSleep(t) PROVE AnswerInv'
  BY <1>19 DEF RunSleep, Goto
<1>20. ASSUME NEW t \in Clients, DestroyCrypt(t) PROVE AnswerInv'
  BY <1>20 DEF DestroyCrypt, optiga_destroy, Goto
<1>21. ASSUME NEW t \in Clients, DestroyUtil(t) PROVE AnswerInv'
  BY <1>21 DEF DestroyUtil, optiga_destroy, Goto
<1>22. ASSUME NEW t \in Clients, Release(t) PROVE AnswerInv'
  BY <1>22 DEF Release, ClearFlag, Goto
<1>23. ASSUME NEW t \in Clients, FreeBus(t) PROVE AnswerInv'
  BY <1>23 DEF FreeBus, FreePath, Goto
<1>24. ASSUME NEW t \in Clients, Tick(t) PROVE AnswerInv'
  BY <1>24 DEF Tick
<1>25. ASSUME NEW i \in Slots, Finish(i) PROVE AnswerInv'
  BY <1>25 DEF Finish, optiga_finish
<1>26. ASSUME NEW i \in Slots, NEW s \in FinalStatuses, on_done(i, s) PROVE
   AnswerInv'
  BY <1>26 DEF on_done, optiga_report
<1>27. CASE UNCHANGED vars
  BY <1>27 DEF vars
<1> HIDE DEF AnswerInv, QuietRun, FlagInv, LibraryIdle, InFlight, Inst,
   Waiters, OPTIGA_LIB_BUSY, ClientsTypeOK, HistoryTypeOK, LibraryTypeOK,
   SlotStates, PCs, Inside, Opening, Running, Waiting, Dropping
<1>28. QED BY <1>1, <1>2, <1>3, <1>4, <1>5, <1>6, <1>7, <1>8, <1>9, <1>10,
   <1>11, <1>12, <1>13, <1>14, <1>15, <1>16, <1>17, <1>18, <1>19, <1>20,
   <1>21, <1>22, <1>23, <1>24, <1>25, <1>26, <1>27 DEF Next, Call, Step,
   Library

-----------------------------------------------------------------------------
(* Commands and registrations nobody waits for. *)

Tended == AlwaysQuiet /\ NoOrphanBeforeTimeout

LEMMA TendedInit == Init => Tended /\ NoLeakBeforeTimeout
  BY DEF Init, LibraryInit, Tended, AlwaysQuiet, NoOrphanBeforeTimeout,
         NoLeakBeforeTimeout, InFlight, Waiting

LEMMA TendedStep ==
  ASSUME ClientsTypeOK, HistoryTypeOK, LibraryTypeOK, FlagInv, AnswerInv, Tended, [Next]_vars
  PROVE  Tended'
<1> USE TrustmAssumption DEF Tended, AlwaysQuiet, NoOrphanBeforeTimeout,
   AnswerInv, QuietRun, FlagInv, LibraryIdle, InFlight, Inst, Waiters,
   OPTIGA_LIB_BUSY, ClientsTypeOK, HistoryTypeOK, LibraryTypeOK, SlotStates,
   PCs, Inside, Opening, Running, Waiting, Dropping
<1>1. ASSUME NEW t \in Clients, OpenRefused(t) PROVE Tended'
  BY <1>1 DEF OpenRefused
<1>2. ASSUME NEW t \in Clients, NEW path \in Paths, NEW a \in Addrs,
   OpenEnter(t, path, a) PROVE Tended'
  BY <1>2 DEF OpenEnter, Goto
<1>3. ASSUME NEW t \in Clients, NEW o \in {"util", "crypt", "close"},
   Command(t, o) PROVE Tended'
  BY <1>3 DEF Command, Goto
<1>4. ASSUME NEW t \in Clients, CommandRejected(t) PROVE Tended'
  BY <1>4 DEF CommandRejected
<1>5. ASSUME NEW t \in Clients, NEW d \in TimeoutValues, set_timeout(t, d)
   PROVE Tended'
  BY <1>5 DEF set_timeout
<1>6. ASSUME NEW t \in Clients, BeginDrop(t) PROVE Tended'
  BY <1>6 DEF BeginDrop, Goto
<1>7. ASSUME NEW t \in Clients, BadPath(t) PROVE Tended'
  BY <1>7 DEF BadPath, Goto
<1>8. ASSUME NEW t \in Clients, Configure(t) PROVE Tended'
  BY <1>8 DEF Configure, trustm_sys_configure, Goto
<1>9. ASSUME NEW t \in Clients, UtilCreate(t) PROVE Tended'
  BY <1>9 DEF UtilCreate, optiga_create, Goto
<1>10. ASSUME NEW t \in Clients, UtilCreateFails(t) PROVE Tended'
  BY <1>10 DEF UtilCreateFails, Goto
<1>11. ASSUME NEW t \in Clients, CryptCreate(t) PROVE Tended'
  BY <1>11 DEF CryptCreate, optiga_create, Goto
<1>12. ASSUME NEW t \in Clients, CryptCreateFails(t) PROVE Tended'
  BY <1>12 DEF CryptCreateFails, optiga_destroy, Goto
<1>13. ASSUME NEW t \in Clients, Rollback(t) PROVE Tended'
  BY <1>13 DEF Rollback, ClearFlag, Goto
<1>14. ASSUME NEW t \in Clients, RunReset(t) PROVE Tended'
  BY <1>14 DEF RunReset, Goto
<1>15. ASSUME NEW t \in Clients, RunRefused(t) PROVE Tended'
  BY <1>15 DEF RunRefused, RunReturn, AfterRun, Goto
<1>16. ASSUME NEW t \in Clients, RunAccepted(t) PROVE Tended'
  BY <1>16 DEF RunAccepted, optiga_accept, Goto
<1>17. ASSUME NEW t \in Clients, RunLoad(t) PROVE Tended'
  BY <1>17 DEF RunLoad, RunReturn, AfterRun, FromStatus, Goto
<1>18. ASSUME NEW t \in Clients, RunTimeout(t) PROVE Tended'
  BY <1>18 DEF RunTimeout, RunReturn, AfterRun, Goto
<1>19. ASSUME NEW t \in Clients, RunSleep(t) PROVE Tended'
  BY <1>19 DEF RunSleep, Goto
<1>20. ASSUME NEW t \in Clients, DestroyCrypt(t) PROVE Tended'
  BY <1>20 DEF DestroyCrypt, optiga_destroy, Goto
<1>21. ASSUME NEW t \in Clients, DestroyUtil(t) PROVE Tended'
  BY <1>21 DEF DestroyUtil, optiga_destroy, Goto
<1>22. ASSUME NEW t \in Clients, Release(t) PROVE Tended'
  BY <1>22 DEF Release, ClearFlag, Goto
<1>23. ASSUME NEW t \in Clients, FreeBus(t) PROVE Tended'
  BY <1>23 DEF FreeBus, FreePath, Goto
<1>24. ASSUME NEW t \in Clients, Tick(t) PROVE Tended'
  BY <1>24 DEF Tick
<1>25. ASSUME NEW i \in Slots, Finish(i) PROVE Tended'
  BY <1>25 DEF Finish, optiga_finish
<1>26. ASSUME NEW i \in Slots, NEW s \in FinalStatuses, on_done(i, s) PROVE
   Tended'
  BY <1>26 DEF on_done, optiga_report
<1>27. CASE UNCHANGED vars
  BY <1>27 DEF vars
<1> HIDE DEF Tended, AlwaysQuiet, NoOrphanBeforeTimeout, AnswerInv, QuietRun,
   FlagInv, LibraryIdle, InFlight, Inst, Waiters, OPTIGA_LIB_BUSY,
   ClientsTypeOK, HistoryTypeOK, LibraryTypeOK, SlotStates, PCs, Inside,
   Opening, Running, Waiting, Dropping
<1>28. QED BY <1>1, <1>2, <1>3, <1>4, <1>5, <1>6, <1>7, <1>8, <1>9, <1>10,
   <1>11, <1>12, <1>13, <1>14, <1>15, <1>16, <1>17, <1>18, <1>19, <1>20,
   <1>21, <1>22, <1>23, <1>24, <1>25, <1>26, <1>27 DEF Next, Call, Step,
   Library

LEMMA NoLeakStep ==
  ASSUME ClientsTypeOK, HistoryTypeOK, LibraryTypeOK, FlagInv, PointerInv, Tended, NoLeakBeforeTimeout, [Next]_vars
  PROVE  NoLeakBeforeTimeout'
<1> USE TrustmAssumption DEF NoLeakBeforeTimeout, PointerInv, Tended,
   NoOrphanBeforeTimeout, FlagInv, InFlight, Waiters, ClientsTypeOK,
   HistoryTypeOK, LibraryTypeOK, SlotStates, PCs, Inside, Opening, Running,
   Waiting, Dropping
<1>1. ASSUME NEW t \in Clients, OpenRefused(t) PROVE NoLeakBeforeTimeout'
  BY <1>1 DEF OpenRefused
<1>2. ASSUME NEW t \in Clients, NEW path \in Paths, NEW a \in Addrs,
   OpenEnter(t, path, a) PROVE NoLeakBeforeTimeout'
  BY <1>2 DEF OpenEnter, Goto
<1>3. ASSUME NEW t \in Clients, NEW o \in {"util", "crypt", "close"},
   Command(t, o) PROVE NoLeakBeforeTimeout'
  BY <1>3 DEF Command, Goto
<1>4. ASSUME NEW t \in Clients, CommandRejected(t) PROVE NoLeakBeforeTimeout'
  BY <1>4 DEF CommandRejected
<1>5. ASSUME NEW t \in Clients, NEW d \in TimeoutValues, set_timeout(t, d)
   PROVE NoLeakBeforeTimeout'
  BY <1>5 DEF set_timeout
<1>6. ASSUME NEW t \in Clients, BeginDrop(t) PROVE NoLeakBeforeTimeout'
  BY <1>6 DEF BeginDrop, Goto
<1>7. ASSUME NEW t \in Clients, BadPath(t) PROVE NoLeakBeforeTimeout'
  BY <1>7 DEF BadPath, Goto
<1>8. ASSUME NEW t \in Clients, Configure(t) PROVE NoLeakBeforeTimeout'
  BY <1>8 DEF Configure, trustm_sys_configure, Goto
<1>9. ASSUME NEW t \in Clients, UtilCreate(t) PROVE NoLeakBeforeTimeout'
  BY <1>9 DEF UtilCreate, optiga_create, Goto
<1>10. ASSUME NEW t \in Clients, UtilCreateFails(t) PROVE
   NoLeakBeforeTimeout'
  BY <1>10 DEF UtilCreateFails, Goto
<1>11. ASSUME NEW t \in Clients, CryptCreate(t) PROVE NoLeakBeforeTimeout'
  BY <1>11 DEF CryptCreate, optiga_create, Goto
<1>12. ASSUME NEW t \in Clients, CryptCreateFails(t) PROVE
   NoLeakBeforeTimeout'
  BY <1>12 DEF CryptCreateFails, optiga_destroy, Goto
<1>13. ASSUME NEW t \in Clients, Rollback(t) PROVE NoLeakBeforeTimeout'
  BY <1>13 DEF Rollback, ClearFlag, Goto
<1>14. ASSUME NEW t \in Clients, RunReset(t) PROVE NoLeakBeforeTimeout'
  BY <1>14 DEF RunReset, Goto
<1>15. ASSUME NEW t \in Clients, RunRefused(t) PROVE NoLeakBeforeTimeout'
  BY <1>15 DEF RunRefused, RunReturn, AfterRun, Goto
<1>16. ASSUME NEW t \in Clients, RunAccepted(t) PROVE NoLeakBeforeTimeout'
  BY <1>16 DEF RunAccepted, optiga_accept, Goto
<1>17. ASSUME NEW t \in Clients, RunLoad(t) PROVE NoLeakBeforeTimeout'
  BY <1>17 DEF RunLoad, RunReturn, AfterRun, FromStatus, Goto
<1>18. ASSUME NEW t \in Clients, RunTimeout(t) PROVE NoLeakBeforeTimeout'
  BY <1>18 DEF RunTimeout, RunReturn, AfterRun, Goto
<1>19. ASSUME NEW t \in Clients, RunSleep(t) PROVE NoLeakBeforeTimeout'
  BY <1>19 DEF RunSleep, Goto
<1>20. ASSUME NEW t \in Clients, DestroyCrypt(t) PROVE NoLeakBeforeTimeout'
  BY <1>20 DEF DestroyCrypt, optiga_destroy, Goto
<1>21. ASSUME NEW t \in Clients, DestroyUtil(t) PROVE NoLeakBeforeTimeout'
  BY <1>21 DEF DestroyUtil, optiga_destroy, Goto
<1>22. ASSUME NEW t \in Clients, Release(t) PROVE NoLeakBeforeTimeout'
  BY <1>22 DEF Release, ClearFlag, Goto
<1>23. ASSUME NEW t \in Clients, FreeBus(t) PROVE NoLeakBeforeTimeout'
  BY <1>23 DEF FreeBus, FreePath, Goto
<1>24. ASSUME NEW t \in Clients, Tick(t) PROVE NoLeakBeforeTimeout'
  BY <1>24 DEF Tick
<1>25. ASSUME NEW i \in Slots, Finish(i) PROVE NoLeakBeforeTimeout'
  BY <1>25 DEF Finish, optiga_finish
<1>26. ASSUME NEW i \in Slots, NEW s \in FinalStatuses, on_done(i, s) PROVE
   NoLeakBeforeTimeout'
  BY <1>26 DEF on_done, optiga_report
<1>27. CASE UNCHANGED vars
  BY <1>27 DEF vars
<1> HIDE DEF NoLeakBeforeTimeout, PointerInv, Tended, NoOrphanBeforeTimeout,
   FlagInv, InFlight, Waiters, ClientsTypeOK, HistoryTypeOK, LibraryTypeOK,
   SlotStates, PCs, Inside, Opening, Running, Waiting, Dropping
<1>28. QED BY <1>1, <1>2, <1>3, <1>4, <1>5, <1>6, <1>7, <1>8, <1>9, <1>10,
   <1>11, <1>12, <1>13, <1>14, <1>15, <1>16, <1>17, <1>18, <1>19, <1>20,
   <1>21, <1>22, <1>23, <1>24, <1>25, <1>26, <1>27 DEF Next, Call, Step,
   Library

-----------------------------------------------------------------------------
(* The bus configuration. *)

LEMMA UsesInit == Init => UsesWhatWasAsked
  BY DEF Init, UsesWhatWasAsked, Inside, Opening, Running, Dropping

LEMMA UsesStep ==
  ASSUME ClientsTypeOK, HistoryTypeOK, FlagInv, UsesWhatWasAsked, [Next]_vars
  PROVE  UsesWhatWasAsked'
<1> USE TrustmAssumption, PalAssumption DEF UsesWhatWasAsked, FlagInv,
   ClientsTypeOK, HistoryTypeOK, PCs, Inside, Opening, Running, Waiting,
   Dropping
<1>1. ASSUME NEW t \in Clients, OpenRefused(t) PROVE UsesWhatWasAsked'
  BY <1>1 DEF OpenRefused
<1>2. ASSUME NEW t \in Clients, NEW path \in Paths, NEW a \in Addrs,
   OpenEnter(t, path, a) PROVE UsesWhatWasAsked'
  BY <1>2 DEF OpenEnter, Goto
<1>3. ASSUME NEW t \in Clients, NEW o \in {"util", "crypt", "close"},
   Command(t, o) PROVE UsesWhatWasAsked'
  BY <1>3 DEF Command, Goto
<1>4. ASSUME NEW t \in Clients, CommandRejected(t) PROVE UsesWhatWasAsked'
  BY <1>4 DEF CommandRejected
<1>5. ASSUME NEW t \in Clients, NEW d \in TimeoutValues, set_timeout(t, d)
   PROVE UsesWhatWasAsked'
  BY <1>5 DEF set_timeout
<1>6. ASSUME NEW t \in Clients, BeginDrop(t) PROVE UsesWhatWasAsked'
  BY <1>6 DEF BeginDrop, Goto
<1>7. ASSUME NEW t \in Clients, BadPath(t) PROVE UsesWhatWasAsked'
  BY <1>7 DEF BadPath, Goto
<1>8. ASSUME NEW t \in Clients, Configure(t) PROVE UsesWhatWasAsked'
  BY <1>8 DEF Configure, trustm_sys_configure, Goto
<1>9. ASSUME NEW t \in Clients, UtilCreate(t) PROVE UsesWhatWasAsked'
  BY <1>9 DEF UtilCreate, optiga_create, Goto
<1>10. ASSUME NEW t \in Clients, UtilCreateFails(t) PROVE UsesWhatWasAsked'
  BY <1>10 DEF UtilCreateFails, Goto
<1>11. ASSUME NEW t \in Clients, CryptCreate(t) PROVE UsesWhatWasAsked'
  BY <1>11 DEF CryptCreate, optiga_create, Goto
<1>12. ASSUME NEW t \in Clients, CryptCreateFails(t) PROVE UsesWhatWasAsked'
  BY <1>12 DEF CryptCreateFails, optiga_destroy, Goto
<1>13. ASSUME NEW t \in Clients, Rollback(t) PROVE UsesWhatWasAsked'
  BY <1>13 DEF Rollback, ClearFlag, Goto
<1>14. ASSUME NEW t \in Clients, RunReset(t) PROVE UsesWhatWasAsked'
  BY <1>14 DEF RunReset, Goto
<1>15. ASSUME NEW t \in Clients, RunRefused(t) PROVE UsesWhatWasAsked'
  BY <1>15 DEF RunRefused, RunReturn, AfterRun, Goto
<1>16. ASSUME NEW t \in Clients, RunAccepted(t) PROVE UsesWhatWasAsked'
  BY <1>16 DEF RunAccepted, optiga_accept, Goto
<1>17. ASSUME NEW t \in Clients, RunLoad(t) PROVE UsesWhatWasAsked'
  BY <1>17 DEF RunLoad, RunReturn, AfterRun, FromStatus, Goto
<1>18. ASSUME NEW t \in Clients, RunTimeout(t) PROVE UsesWhatWasAsked'
  BY <1>18 DEF RunTimeout, RunReturn, AfterRun, Goto
<1>19. ASSUME NEW t \in Clients, RunSleep(t) PROVE UsesWhatWasAsked'
  BY <1>19 DEF RunSleep, Goto
<1>20. ASSUME NEW t \in Clients, DestroyCrypt(t) PROVE UsesWhatWasAsked'
  BY <1>20 DEF DestroyCrypt, optiga_destroy, Goto
<1>21. ASSUME NEW t \in Clients, DestroyUtil(t) PROVE UsesWhatWasAsked'
  BY <1>21 DEF DestroyUtil, optiga_destroy, Goto
<1>22. ASSUME NEW t \in Clients, Release(t) PROVE UsesWhatWasAsked'
  BY <1>22 DEF Release, ClearFlag, Goto
<1>23. ASSUME NEW t \in Clients, FreeBus(t) PROVE UsesWhatWasAsked'
  BY <1>23 DEF FreeBus, FreePath, Goto
<1>24. ASSUME NEW t \in Clients, Tick(t) PROVE UsesWhatWasAsked'
  BY <1>24 DEF Tick
<1>25. ASSUME NEW i \in Slots, Finish(i) PROVE UsesWhatWasAsked'
  BY <1>25 DEF Finish, optiga_finish
<1>26. ASSUME NEW i \in Slots, NEW s \in FinalStatuses, on_done(i, s) PROVE
   UsesWhatWasAsked'
  BY <1>26 DEF on_done, optiga_report
<1>27. CASE UNCHANGED vars
  BY <1>27 DEF vars
<1> HIDE DEF UsesWhatWasAsked, FlagInv, ClientsTypeOK, HistoryTypeOK, PCs,
   Inside, Opening, Running, Waiting, Dropping
<1>28. QED BY <1>1, <1>2, <1>3, <1>4, <1>5, <1>6, <1>7, <1>8, <1>9, <1>10,
   <1>11, <1>12, <1>13, <1>14, <1>15, <1>16, <1>17, <1>18, <1>19, <1>20,
   <1>21, <1>22, <1>23, <1>24, <1>25, <1>26, <1>27 DEF Next, Call, Step,
   Library

-----------------------------------------------------------------------------
(* The inductive invariant, and what follows from it. *)

LEMMA IInvInit == Init => IInv
  BY ShapeInit, ClocksInit, FlagInit, PointerInit, AnswerInit, TendedInit, UsesInit
  DEF IInv, TypeOK, Shape, Clocks, Tended

LEMMA IInvStep == IInv /\ [Next]_vars => IInv'
  <1> SUFFICES ASSUME IInv, [Next]_vars PROVE IInv'
    OBVIOUS
  <1>1. /\ Shape /\ LibraryTypeOK /\ ClientsTypeOK /\ HistoryTypeOK
        /\ Clocks /\ Tended
    BY DEF IInv, TypeOK, Shape, Clocks, Tended
  <1>2. TypeOK' /\ ClockInv'
    BY <1>1, ShapeStep, ClocksStep DEF TypeOK, Shape, Clocks
  <1>3. FlagInv'
    BY <1>1, FlagStep DEF IInv
  <1>4. PointerInv' /\ InstancesNotShared'
    BY <1>1, PointerStep DEF IInv
  <1>5. AnswerInv'
    BY <1>1, AnswerStep DEF IInv
  <1>6. AlwaysQuiet' /\ NoOrphanBeforeTimeout'
    BY <1>1, TendedStep DEF IInv, Tended
  <1>7. NoLeakBeforeTimeout'
    BY <1>1, NoLeakStep DEF IInv
  <1>8. UsesWhatWasAsked'
    BY <1>1, UsesStep DEF IInv
  <1>9. QED BY <1>2, <1>3, <1>4, <1>5, <1>6, <1>7, <1>8 DEF IInv

(* The invariant the safety theorems below are read off from. *)
THEOREM Invariant == Spec => []IInv
<1>1. QED BY IInvInit, IInvStep, PTL DEF Spec

(* Until open's failure path clears another client's flag, the swap on      *)
(* OPEN admits one client at a time, from open to the end of Drop.          *)
THEOREM SessionsAreExclusive == Spec => []ExclusiveSession
<1>1. IInv => ExclusiveSession
  BY DEF IInv, FlagInv, ExclusiveSession
<1>2. QED BY <1>1, Invariant, PTL

(* However opens fail and drops interleave, and also after a stray store, a *)
(* set OPEN has a client that will clear it.                                *)
THEOREM TheFlagIsCleared == Spec => []FlagNotStuck
<1>1. IInv => FlagNotStuck
  BY TrustmAssumption DEF IInv, FlagInv, FlagNotStuck, Clearing, TypeOK, HistoryTypeOK
<1>2. QED BY <1>1, Invariant, PTL

(* Every pointer the crate holds is a registered instance of its own, so no *)
(* destroy call frees an instance twice; also after a stray store.          *)
THEOREM InstancesHaveOneOwner == Spec => []InstancesNotShared
<1>1. IInv => InstancesNotShared
  BY DEF IInv
<1>2. QED BY <1>1, Invariant, PTL

(* A run that began with nothing in flight returns the status of its own    *)
(* command.                                                                 *)
THEOREM AnswersAreOwn == Spec => []OwnAnswer
<1>1. IInv => OwnAnswer
  BY DEF IInv, AnswerInv, QuietRun, OwnAnswer
<1>2. QED BY <1>1, Invariant, PTL

(* Only a timeout leaves a command in flight that no run waits for. *)
THEOREM CommandsAreTended == Spec => []NoOrphanBeforeTimeout
<1>1. IInv => NoOrphanBeforeTimeout
  BY DEF IInv
<1>2. QED BY <1>1, Invariant, PTL

(* Only a timeout leaves a registration that no client can give back. *)
THEOREM RegistrationsAreReturned == Spec => []NoLeakBeforeTimeout
<1>1. IInv => NoLeakBeforeTimeout
  BY DEF IInv
<1>2. QED BY <1>1, Invariant, PTL

(* Inside its session a client drives the bus and the address it opened. *)
THEOREM TheBusIsTheOneAskedFor == Spec => []UsesWhatWasAsked
<1>1. IInv => UsesWhatWasAsked
  BY DEF IInv
<1>2. QED BY <1>1, Invariant, PTL
=============================================================================
