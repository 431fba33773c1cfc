--------------------------- MODULE CommandsProofs ---------------------------
(***************************************************************************)
(* Theorems about Commands: the methods are clients of the session like    *)
(* any other, so that all that is proved of Trustm holds of them; and a    *)
(* call's Ok is earned.                                                    *)
(***************************************************************************)
EXTENDS Commands, TrustmProofs

USE DEF library, pal, flag, cell, control, handle, args, watch

-----------------------------------------------------------------------------
(* Every step of Commands is a step of Trustm or leaves it alone. *)

CommandsShape ==
  /\ DOMAIN call = Clients
  /\ DOMAIN filled = Clients
  /\ DOMAIN job = Slots
  /\ ended \in [Slots -> FinalStatuses]
  /\ DOMAIN returned = Clients

LEMMA CommandsShapeInit == CommandsInit => CommandsShape
BY DEF CommandsInit, CommandsShape, FinalStatuses

LEMMA CommandsShapeStep ==
  ASSUME CommandsShape, [CommandsNext]_allvars
  PROVE  CommandsShape'
<1> USE DEF CommandsShape, commands
<1>1. ASSUME NEW t \in Clients, SessionStep(t) PROVE CommandsShape'
  BY <1>1 DEF SessionStep
<1>2. ASSUME NEW t \in Clients, NEW m, Begin(t, m) PROVE CommandsShape'
  BY <1>2 DEF Begin
<1>3. ASSUME NEW t \in Clients, Take(t) PROVE CommandsShape'
  BY <1>3 DEF Take
<1>4. ASSUME NEW t \in Clients, Accept(t) PROVE CommandsShape'
  BY <1>4 DEF Accept
<1>5. ASSUME NEW t \in Clients, NEW r, Returns(t, r) PROVE CommandsShape'
  BY <1>5 DEF Returns
<1>6. ASSUME NEW t \in Clients, Refused(t) \/ Poll(t) \/ TimedOut(t)
      PROVE  CommandsShape'
  BY <1>5, <1>6 DEF Refused, Poll, TimedOut
<1>7. ASSUME NEW i \in Slots, NEW s \in FinalStatuses, Complete(i, s)
      PROVE  CommandsShape'
  BY <1>7 DEF Complete
<1>8. ASSUME NEW i \in Slots, Report(i) PROVE CommandsShape'
  BY <1>8 DEF Report
<1>9. CASE UNCHANGED allvars
  BY <1>9 DEF allvars
<1>10. QED BY <1>1, <1>2, <1>3, <1>4, <1>6, <1>7, <1>8, <1>9
           DEF CommandsNext, Invoke, Reject, Close

(* Each method runs on one of the two instances. *)
LEMMA InstOfMethod == \A m \in Invocations : m.inst \in {"util", "crypt"}
BY DEF Invocations, DataObjectCalls, HashCalls, EccCalls, RsaCalls, SecretCalls,
  Method, read_data, write_data, read_metadata,
  write_metadata, update_counter, random, hash_sha256, hash_sha256_oid,
  ecc_generate_keypair, ecc_generate_keypair_exported, ecdsa_sign, ecdsa_verify,
  ecdsa_verify_oid, ecdh, rsa_generate_keypair, rsa_sign, rsa_verify,
  rsa_encrypt, rsa_decrypt, hmac, hkdf, tls_prf, symmetric_generate_key,
  aes_ecb_encrypt, aes_ecb_decrypt

LEMMA StepOfSession ==
  ASSUME CommandsShape, [CommandsNext]_allvars
  PROVE  [Next]_vars
<1>1. ASSUME NEW t \in Clients, SessionStep(t) PROVE [Next]_vars
  BY <1>1 DEF SessionStep, Next, Call, Step
<1>2. ASSUME NEW t \in Clients, NEW m \in Invocations, Invoke(t, m) \/ Reject(t, m)
      PROVE  [Next]_vars
  BY <1>2, InstOfMethod DEF Invoke, Reject, Next, Call
<1>3. ASSUME NEW t \in Clients, Close(t) PROVE [Next]_vars
  BY <1>3 DEF Close, Next, Call
<1>4. ASSUME NEW t \in Clients, Take(t) PROVE [Next]_vars
  BY <1>4 DEF Take
<1>5. ASSUME NEW t \in Clients, Accept(t) \/ Refused(t) \/ Poll(t) \/ TimedOut(t)
      PROVE  [Next]_vars
  BY <1>5 DEF Accept, Refused, Poll, TimedOut, Next, Step
<1>6. ASSUME NEW i \in Slots, NEW s \in FinalStatuses, Complete(i, s)
      PROVE  [Next]_vars
  BY <1>6 DEF Complete, Next, Library
<1>7. ASSUME NEW i \in Slots, Report(i) PROVE [Next]_vars
  BY <1>7 DEF Report, CommandsShape, Next, Library
<1>8. CASE UNCHANGED allvars
  BY <1>8 DEF allvars
<1>9. QED BY <1>1, <1>2, <1>3, <1>4, <1>5, <1>6, <1>7, <1>8 DEF CommandsNext

(* Whatever the methods ask and return, they use the handle as Trustm says: *)
(* what is proved of every behaviour of Trustm holds while they run.        *)
THEOREM MethodsKeepToTheSession == CommandsSpec => Spec
<1>1. CommandsInit => Init /\ CommandsShape
  BY CommandsShapeInit DEF CommandsInit
<1>2. CommandsShape /\ [CommandsNext]_allvars => CommandsShape' /\ [Next]_vars
  BY CommandsShapeStep, StepOfSession
<1>3. QED BY <1>1, <1>2, PTL DEF CommandsSpec, Spec

-----------------------------------------------------------------------------
(* A call's Ok is earned. *)

(* The way a quiet call's answer takes: while its command runs, the job is  *)
(* live; a success that is still to be reported, or that has been reported, *)
(* comes with the answer written.                                           *)
Earning(t) ==
  /\ slot[Inst(t)] = "BUSY" => job[Inst(t)] = "live"
  /\ Inst(t) \in reporting /\ ended[Inst(t)] = OPTIGA_LIB_SUCCESS => filled[t].done
  /\ STATUS = OPTIGA_LIB_SUCCESS => filled[t].done

JobInv ==
  ~stray => \A t \in Clients :
    pc[t] \in Waiting /\ quiet[t] /\ Calling(t) => Earning(t)

(* The steps that start and end no command, change none that waits. *)
Undisturbed(t) ==
  /\ pc[t] \in Waiting /\ quiet[t] /\ Calling(t)
  /\ Inst(t)' = Inst(t)
  /\ slot'[Inst(t)] = "BUSY" => slot[Inst(t)] = "BUSY"
  /\ reporting' \subseteq reporting
  /\ STATUS' \in {STATUS, OPTIGA_LIB_BUSY}
  /\ job'[Inst(t)] = job[Inst(t)]
  /\ ended' = ended
  /\ filled'[t] = filled[t]

LEMMA EarningKept ==
  ASSUME NEW t \in Clients, Earning(t), Undisturbed(t)
  PROVE  Earning(t)'
BY DEF Earning, Undisturbed, OPTIGA_LIB_SUCCESS, OPTIGA_LIB_BUSY

(* The session's own steps leave a waiting call alone. *)
LEMMA SessionStepUndisturbs ==
  ASSUME Shape, PointerInv, NEW t \in Clients, NEW u \in Clients, SessionStep(u),
         (pc[t] \in Waiting /\ quiet[t] /\ Calling(t))'
  PROVE  Undisturbed(t)
<1> USE DEF Undisturbed, Calling, commands, Inst, Waiting, Goto, Shape, LibraryTypeOK,
      ClientsTypeOK, HistoryTypeOK
<1>a. pc[t] \in Waiting => Inst(t) \in Slots
  BY DEF PointerInv, Running
<1>1. CASE OpenRefused(u) \/ \E d \in TimeoutValues : set_timeout(u, d)
  BY <1>1 DEF SessionStep, OpenRefused, set_timeout
<1>2. CASE \E path \in Paths, a \in Addrs : OpenEnter(u, path, a)
  BY <1>2 DEF SessionStep, OpenEnter
<1>3. CASE BadPath(u) \/ Configure(u)
  BY <1>3 DEF SessionStep, BadPath, Configure
<1>4. CASE UtilCreate(u) \/ UtilCreateFails(u)
  BY <1>4, <1>a DEF SessionStep, UtilCreate, UtilCreateFails, optiga_create
<1>5. CASE CryptCreate(u) \/ CryptCreateFails(u)
  BY <1>5, <1>a DEF SessionStep, CryptCreate, CryptCreateFails, optiga_create, optiga_destroy
<1>6. CASE Rollback(u) \/ Release(u) \/ FreeBus(u)
  BY <1>6 DEF SessionStep, Rollback, Release, FreeBus
<1>7. CASE RunReset(u) \/ RunSleep(u) \/ Tick(u)
  BY <1>7 DEF SessionStep, RunReset, RunSleep, Tick
<1>8. CASE DestroyCrypt(u) \/ DestroyUtil(u)
  BY <1>8, <1>a DEF SessionStep, DestroyCrypt, DestroyUtil, optiga_destroy
<1> HIDE DEF Undisturbed, Calling, Shape
<1>9. QED BY <1>1, <1>2, <1>3, <1>4, <1>5, <1>6, <1>7, <1>8 DEF SessionStep

(* Up to the first stray store, a waiting client is alone in its session.   *)
LEMMA WaitsAlone ==
  ASSUME IInv, ~stray, NEW t \in Clients, pc[t] \in Waiting,
         NEW u \in Clients, pc[u] \in Inside
  PROVE  u = t
BY DEF IInv, FlagInv, Inside, Running, Waiting

LEMMA JobInit == CommandsInit => JobInv /\ OkMeansDone
BY DEF CommandsInit, Init, JobInv, OkMeansDone, Waiting, Nothing

LEMMA JobStep ==
  ASSUME IInv, CommandsShape, JobInv, [CommandsNext]_allvars
  PROVE  JobInv'
<1>a. Shape /\ LibraryTypeOK /\ ClientsTypeOK /\ HistoryTypeOK /\ (stray => stray')
  BY StepOfSession, StrayStays DEF IInv, TypeOK, Shape
<1> SUFFICES ASSUME ~stray, NEW t \in Clients, (pc[t] \in Waiting /\ quiet[t] /\ Calling(t))'
             PROVE  Earning(t)'
  BY <1>a DEF JobInv
<1>b. ASSUME Undisturbed(t) PROVE Earning(t)'
  BY <1>b, EarningKept DEF Undisturbed, JobInv
<1>1. ASSUME NEW u \in Clients, SessionStep(u) PROVE Earning(t)'
  BY <1>1, <1>a, <1>b, SessionStepUndisturbs DEF IInv
<1>2. ASSUME NEW u \in Clients, NEW m, Invoke(u, m) \/ Reject(u, m) \/ Close(u)
      PROVE  Earning(t)'
  <2>1. pc[u] = "idle" /\ pc'[u] # "load" /\ pc'[u] # "check"
    BY <1>2, <1>a DEF Invoke, Reject, Close, Begin, Ready, Command, CommandRejected,
       BeginDrop, Goto, ClientsTypeOK
  <2>2. u # t
    BY <2>1 DEF Waiting
  <2>3. Undisturbed(t)
    BY <1>2, <1>a, <2>2 DEF Invoke, Reject, Close, Begin, Command, CommandRejected, BeginDrop, Goto,
       CommandsShape, Undisturbed, Calling, Inst, ClientsTypeOK
  <2>4. QED BY <1>b, <2>3
<1>3. ASSUME NEW u \in Clients, Take(u) PROVE Earning(t)'
  <2>1. u # t
    BY <1>3 DEF Take, Calling, CommandsShape
  <2>2. Undisturbed(t)
    BY <1>3, <2>1 DEF Take, vars, CommandsShape, Undisturbed, Calling, Inst
  <2>3. QED BY <1>b, <2>2
<1>4. ASSUME NEW u \in Clients, Accept(u) PROVE Earning(t)'
  <2>1. pc[u] = "call" /\ (t # u => pc[t] \in Waiting)
    BY <1>4, <1>a DEF Accept, RunAccepted, Goto, ClientsTypeOK
  <2>2. u = t
    BY <2>1, WaitsAlone DEF Inside, Running
  <2>3. quiet[t] /\ QuietRun(t)
    BY <1>4, <2>2 DEF Accept, RunAccepted, IInv, AnswerInv
  <2>4. Inst(t) \in Slots /\ Inst(t)' = Inst(t)
    BY <1>4, <1>a, <2>1, <2>2 DEF Accept, RunAccepted, Inst, IInv, PointerInv, Running,
       ClientsTypeOK
  <2>5. job'[Inst(t)] = "live"
    BY <1>4, <2>2, <2>4 DEF Accept, CommandsShape
  <2>6. Inst(t) \notin reporting' /\ STATUS' = OPTIGA_LIB_BUSY
    BY <1>4, <2>1, <2>2, <2>3, <2>4 DEF Accept, RunAccepted, optiga_accept, QuietRun, LibraryIdle,
       InFlight
  <2>7. QED BY <2>4, <2>5, <2>6 DEF Earning, OPTIGA_LIB_SUCCESS, OPTIGA_LIB_BUSY
<1>5. ASSUME NEW u \in Clients, Refused(u) \/ Poll(u) \/ TimedOut(u) PROVE Earning(t)'
  <2>1. pc[u] \in {"call", "load", "check"}
    BY <1>5 DEF Refused, Poll, TimedOut, RunRefused, RunLoad, RunTimeout
  <2>2. CASE u # t
    <3>1. pc[t] \in Waiting
      BY <1>5, <1>a, <2>2 DEF Refused, Poll, TimedOut, RunRefused, RunLoad, RunTimeout, RunReturn,
         Goto, ClientsTypeOK
    <3>2. u = t
      BY <2>1, <3>1, WaitsAlone DEF Inside, Running
    <3>3. QED BY <2>2, <3>2
  <2>3. CASE u = t /\ Poll(t) /\ STATUS = OPTIGA_LIB_BUSY
    <3>1. Undisturbed(t)
      BY <2>3, <1>a DEF Poll, RunLoad, Goto, commands, Undisturbed, Calling, Inst, Waiting,
         ClientsTypeOK
    <3>2. QED BY <1>b, <3>1
  <2>4. CASE u = t /\ ~(Poll(t) /\ STATUS = OPTIGA_LIB_BUSY)
    <3>1. PICK r : RunReturn(t, r)
      BY <1>5, <2>4 DEF Refused, Poll, TimedOut, RunRefused, RunLoad, RunTimeout
    <3>2. ~quiet'[t]
      BY <3>1, <1>a DEF RunReturn, HistoryTypeOK
    <3>3. QED BY <3>2
  <2>5. QED BY <1>5, <2>2, <2>3, <2>4
<1>6. ASSUME NEW i \in Slots, NEW s \in FinalStatuses, Complete(i, s) PROVE Earning(t)'
  <2>1. pc[t] \in Waiting /\ quiet[t] /\ Calling(t) /\ Inst(t)' = Inst(t)
    BY <1>6 DEF Complete, Finish, Calling, Inst
  <2>2. Earning(t) /\ QuietRun(t)
    BY <2>1 DEF JobInv, IInv, AnswerInv
  <2>3. slot[i] = "BUSY" /\ i = Inst(t)
    BY <1>6, <2>1, <2>2 DEF Complete, Finish, optiga_finish, QuietRun, InFlight
  <2>4. job[i] = "live"
    BY <2>2, <2>3 DEF Earning
  <2>5. slot'[i] = "FREE" /\ ended'[i] = s /\ STATUS' = STATUS
    BY <1>6, <1>a DEF Complete, Finish, optiga_finish, LibraryTypeOK, CommandsShape
  <2>6. CASE s = OPTIGA_LIB_SUCCESS
    <3>1. \A u \in Waiters(i) : u = t
      BY <2>1, WaitsAlone DEF Waiters, Inside, Running, Waiting
    <3>2. filled'[t].done
      BY <1>6, <2>1, <2>4, <2>6, <3>1 DEF Complete, Calling, CommandsShape, Waiters
    <3>3. QED BY <2>1, <2>3, <2>5, <3>2 DEF Earning
  <2>7. CASE s # OPTIGA_LIB_SUCCESS
    <3>1. filled' = filled
      BY <1>6, <2>7 DEF Complete
    <3>2. QED BY <2>1, <2>2, <2>3, <2>5, <2>7, <3>1 DEF Earning
  <2>8. QED BY <2>6, <2>7
<1>7. ASSUME NEW i \in Slots, Report(i) PROVE Earning(t)'
  <2>1. pc[t] \in Waiting /\ quiet[t] /\ Calling(t) /\ Inst(t)' = Inst(t)
    BY <1>7 DEF Report, on_done, commands, Calling, Inst
  <2>2. Earning(t) /\ QuietRun(t)
    BY <2>1 DEF JobInv, IInv, AnswerInv
  <2>3. i \in reporting /\ i = Inst(t)
    BY <1>7, <2>1, <2>2 DEF Report, on_done, optiga_report, QuietRun, InFlight
  <2>4. QED BY <1>7, <2>1, <2>2, <2>3 DEF Report, on_done, optiga_report, commands, Earning
<1>8. CASE UNCHANGED allvars
  BY <1>8, <1>b DEF allvars, vars, commands, Undisturbed, Calling, Inst
<1>9. QED BY <1>1, <1>2, <1>3, <1>4, <1>5, <1>6, <1>7, <1>8 DEF CommandsNext

LEMMA OkStep ==
  ASSUME IInv, CommandsShape, JobInv, OkMeansDone, [CommandsNext]_allvars
  PROVE  OkMeansDone'
<1>a. Shape /\ (stray => stray')
  BY StepOfSession, StrayStays DEF IInv, TypeOK, Shape
<1> SUFFICES ASSUME ~stray, NEW t \in Clients, (returned[t].status = "Ok" /\ returned[t].quiet)'
             PROVE  filled'[t].done
  BY <1>a DEF OkMeansDone
<1> USE DEF CommandsShape
<1>1. ASSUME NEW u \in Clients, SessionStep(u) PROVE filled'[t].done
  BY <1>1 DEF SessionStep, commands, OkMeansDone
<1>2. ASSUME NEW u \in Clients, NEW m, Begin(u, m) PROVE filled'[t].done
  <2>1. returned'[u].status # "Ok"
    BY <1>2 DEF Begin, Ready, Nothing
  <2>2. QED BY <1>2, <2>1 DEF Begin, OkMeansDone
<1>3. ASSUME NEW u \in Clients, Take(u) PROVE filled'[t].done
  <2>1. returned'[u].status # "Ok"
    BY <1>3 DEF Take, Nothing
  <2>2. QED BY <1>3, <2>1 DEF Take, OkMeansDone
<1>4. ASSUME NEW u \in Clients, Accept(u) PROVE filled'[t].done
  BY <1>4 DEF Accept, OkMeansDone
<1>5. ASSUME NEW u \in Clients, Refused(u) \/ TimedOut(u) PROVE filled'[t].done
  <2>1. Returns(u, "Err")
    BY <1>5 DEF Refused, TimedOut
  <2>2. returned'[u].status # "Ok" /\ filled' = filled /\ (u # t => returned'[t] = returned[t])
    BY <2>1 DEF Returns, Nothing
  <2>3. QED BY <2>2 DEF OkMeansDone
<1>6. ASSUME NEW u \in Clients, Poll(u) PROVE filled'[t].done
  <2>1. CASE STATUS = OPTIGA_LIB_BUSY
    BY <1>6, <2>1 DEF Poll, commands, OkMeansDone
  <2>2. CASE STATUS # OPTIGA_LIB_BUSY /\ u # t
    BY <1>6, <2>2 DEF Poll, Returns, OkMeansDone
  <2>3. CASE STATUS # OPTIGA_LIB_BUSY /\ u = t
    <3>1. Returns(t, FromStatus(STATUS)) /\ pc[t] = "load"
      BY <1>6, <2>3 DEF Poll, RunLoad
    <3>2. Calling(t) /\ FromStatus(STATUS) = "Ok" /\ quiet[t]
      BY <3>1 DEF Returns, Calling, Nothing, FromStatus
    <3>3. STATUS = OPTIGA_LIB_SUCCESS
      BY <3>2 DEF FromStatus
    <3>4. QED BY <3>1, <3>2, <3>3 DEF JobInv, Earning, Waiting, Returns
  <2>4. QED BY <2>1, <2>2, <2>3
<1>7. ASSUME NEW i \in Slots, NEW s \in FinalStatuses, Complete(i, s) PROVE filled'[t].done
  <2>1. filled[t].done
    BY <1>7 DEF Complete, OkMeansDone
  <2>2. CASE filled' = filled
    BY <2>1, <2>2
  <2>3. CASE \E w \in Clients : \E b :
               filled' = [filled EXCEPT ![w] = [done |-> TRUE, bytes |-> b]]
    BY <2>1, <2>3
  <2>4. QED BY <1>7, <2>2, <2>3 DEF Complete, Waiters
<1>8. ASSUME NEW i \in Slots, Report(i) PROVE filled'[t].done
  BY <1>8 DEF Report, commands, OkMeansDone
<1>9. CASE UNCHANGED allvars
  BY <1>9 DEF allvars, commands, OkMeansDone
<1>10. QED BY <1>1, <1>2, <1>3, <1>4, <1>5, <1>6, <1>7, <1>8, <1>9
           DEF CommandsNext, Invoke, Reject, Close

(* Of a call made while nothing was in flight, Ok says that the chip has    *)
(* carried out its command: whatever commands and timeouts came before.     *)
THEOREM OkIsEarned == CommandsSpec => []OkMeansDone
<1>1. CommandsInit => CommandsShape /\ JobInv /\ OkMeansDone
  BY CommandsShapeInit, JobInit
<1>2. /\ IInv /\ CommandsShape /\ JobInv /\ OkMeansDone /\ [CommandsNext]_allvars
      => (CommandsShape /\ JobInv /\ OkMeansDone)'
  BY CommandsShapeStep, JobStep, OkStep
<1>3. QED BY <1>1, <1>2, MethodsKeepToTheSession, Invariant, PTL DEF CommandsSpec
=============================================================================
