------------------------------ MODULE Commands ------------------------------
(***************************************************************************)
(* The command methods over the session of Trustm: what each call asks of  *)
(* the C side, what the library writes into the call's buffers and when,   *)
(* and what the method makes of it.  Every step is a step of Trustm.       *)
(*                                                                         *)
(* The buffers of a call live on the method's stack and heap.  A job, that *)
(* is a command in flight, is live while the run that started it waits.    *)
(* Once that has returned it is left, or it is dead if its call had output *)
(* buffers: what the library writes for it then lands in freed memory.     *)
(***************************************************************************)
EXTENDS Trustm, Methods

CONSTANTS
  Lengths,   (* of the slices a caller passes                              *)
  Draws,     (* the output lengths and offsets a caller asks for           *)
  Oids,      (* data objects                                               *)
  Counts,    (* what a counter is advanced by                              *)
  Usages     (* key usages                                                  *)

(* As the parameters' Rust types have it: usize, u16, u16, u8 and u8.       *)
ASSUME CommandsAssumption ==
  /\ Lengths \cup Draws \cup Oids \cup Counts \cup Usages \subseteq Nat
  /\ \A n \in Draws \cup Oids : FitsU16(n)
  /\ \A n \in Counts \cup Usages : FitsU8(n)

VARIABLES
  call,      (* the method a client executes, until it takes the result    *)
  filled,    (* whether the library has ended that command with success    *)
             (* while the call waited, and how many bytes it wrote         *)
  job,       (* the commands in flight                                     *)
  ended,     (* the status a finished command will report                  *)
  returned   (* what the method returned                                   *)

commands == <<call, filled, job, ended, returned>>

allvars == <<vars, commands>>

NoCall == [inst |-> "none"]
Empty == [done |-> FALSE, bytes |-> <<>>]
Nothing == [status |-> "none", quiet |-> FALSE, bytes |-> <<>>]

CommandsInit ==
  /\ Init
  /\ call = [t \in Clients |-> NoCall]
  /\ filled = [t \in Clients |-> Empty]
  /\ job = [i \in Slots |-> "none"]
  /\ ended = [i \in Slots |-> OPTIGA_LIB_SUCCESS]
  /\ returned = [t \in Clients |-> Nothing]

(* Every method with the arguments callers use. *)
DataObjectCalls ==
  {read_data(o, n) : o \in Oids, n \in Draws}
  \cup {write_data(o, m, n, d) : o \in Oids, m \in DOMAIN WriteType, n \in Draws, d \in Lengths}
  \cup {read_metadata(o) : o \in Oids}
  \cup {write_metadata(o, d) : o \in Oids, d \in Lengths}
  \cup {update_counter(o, n) : o \in Oids, n \in Counts}

HashCalls ==
  {random(g, n) : g \in DOMAIN RngType, n \in Draws}
  \cup {hash_sha256(d) : d \in Lengths}
  \cup {hash_sha256_oid(o, n, d) : o \in Oids, n \in Draws, d \in Draws}

EccCalls ==
  LET Keys == DOMAIN KeyId
      Curves == DOMAIN EccCurve
      L == Lengths
  IN  {ecc_generate_keypair(c, u, k) : c \in Curves, u \in Usages, k \in Keys}
      \cup {ecc_generate_keypair_exported(c) : c \in Curves}
      \cup {ecdsa_sign(k, d) : k \in Keys, d \in L}
      \cup {ecdsa_verify(c, p, d, s) : c \in Curves, p \in L, d \in L, s \in L}
      \cup {ecdsa_verify_oid(o, d, s) : o \in Oids, d \in L, s \in L}
      \cup {ecdh(k, c, p) : k \in Keys, c \in Curves, p \in L}

RsaCalls ==
  LET Keys == DOMAIN KeyId
      RsaKeys == DOMAIN RsaKeyType
      Schemes == DOMAIN RsaSignatureScheme
      L == Lengths
  IN  {rsa_generate_keypair(r, u, k) : r \in RsaKeys, u \in Usages, k \in Keys}
      \cup {rsa_sign(h, k, d) : h \in Schemes, k \in Keys, d \in L}
      \cup {rsa_verify(h, r, p, d, s) : h \in Schemes, r \in RsaKeys, p \in L, d \in L, s \in L}
      \cup {rsa_encrypt(r, p, m) : r \in RsaKeys, p \in L, m \in L}
      \cup {rsa_decrypt(k, d) : k \in Keys, d \in L}

SecretCalls ==
  LET L == Lengths
  IN  {hmac(h, o, d) : h \in DOMAIN HmacType, o \in Oids, d \in L}
      \cup {hkdf(h, o, s, d, n) : h \in DOMAIN HkdfType, o \in Oids, s \in L, d \in L, n \in Draws}
      \cup {tls_prf(h, o, l, s, n) : h \in DOMAIN TlsPrfType, o \in Oids, l \in L, s \in L, n \in Draws}
      \cup {symmetric_generate_key(k, u) : k \in DOMAIN SymmetricKeyType, u \in Usages}
      \cup {aes_ecb_encrypt(d) : d \in L} \cup {aes_ecb_decrypt(d) : d \in L}

Invocations == DataObjectCalls \cup HashCalls \cup EccCalls \cup RsaCalls \cup SecretCalls

Accepted == {m \in Invocations : m.valid}

-----------------------------------------------------------------------------
(* The chip and the library's side of a call (external). *)

(* A field element of the curve with this number, and a modulus. *)
CurveBytes(curve) ==
  CASE curve \in {3, 19} -> 32 [] curve \in {4, 21} -> 48
    [] curve = 22 -> 64        [] curve = 5 -> 66

(* A public key: BIT STRING with an uncompressed point, or with a PKCS #1   *)
(* RSAPublicKey.                                                            *)
PointDer(n) == IF n <= 48 THEN 2 * n + 4 ELSE 2 * n + 5
RsaKeyDer(type) == IF type = 65 THEN 144 ELSE 275

(* The lengths the chip may answer a call with, one for each output buffer: *)
(* of those it is free to choose, the least and the most.                   *)
Answers(c) ==
  CASE c.f = "read_data"     -> {<<0>>, <<1728>>}
    [] c.f = "read_metadata" -> {<<2>>, <<44>>}
    [] c.f = "random"        -> {<<c.n[2]>>}
    [] c.f = "hash"          -> {<<32>>}
    [] c.f = "ecc_generate_keypair" ->
         LET n == CurveBytes(c.n[1])
         IN  IF c.flag = 1
             THEN {<<n + 2, PointDer(n)>>, <<0, PointDer(n)>>}
             ELSE {<<0, PointDer(n)>>}
    [] c.f = "ecdsa_sign" -> {<<6>>} \cup {<<2 * (n + 3)>> : n \in {32, 48, 64, 66}}
    [] c.f = "ecdh"       -> {<<CurveBytes(c.at.is[2])>>}
    [] c.f = "rsa_generate_keypair" -> {<<0, RsaKeyDer(c.n[1])>>}
    [] c.f = "rsa_sign"   -> {<<128>>, <<256>>}
    [] c.f = "rsa_encrypt_message" -> {<<IF c.at.is[2] = 65 THEN 128 ELSE 256>>}
    [] c.f = "rsa_decrypt_and_export" -> {<<0>>, <<245>>}
    [] c.f = "hmac" -> {<<CASE c.n[1] = 32 -> 32 [] c.n[1] = 33 -> 48 [] OTHER -> 64>>}
    [] c.f \in {"hkdf", "tls_prf"} -> {<<c.n[5]>>}
    [] c.f \in {"symmetric_encrypt_ecb", "symmetric_decrypt_ecb"} -> {<<c.n[2]>>}
    [] OTHER -> {<<>>}

(* The variant with this number. *)
NumberOf(table, n) == CHOOSE v \in DOMAIN table : table[v] = n

(* What the library takes a call for: the method that asks for this, with   *)
(* its arguments, by what the C function and its parameters stand for.      *)
Understood(c) ==
  CASE c.f = "read_data"     -> <<"read_data", c.n[1], c.n[2]>>
    [] c.f = "write_data"    ->
         <<"write_data", c.n[1], NumberOf(WriteType, c.n[2]), c.n[3], c.n[4]>>
    [] c.f = "read_metadata"  -> <<"read_metadata", c.n[1]>>
    [] c.f = "write_metadata" -> <<"write_metadata", c.n[1], c.n[2]>>
    [] c.f = "update_count"   -> <<"update_counter", c.n[1], c.n[2]>>
    [] c.f = "random"         -> <<"random", NumberOf(RngType, c.n[1]), c.n[2]>>
    [] c.f = "hash" /\ c.flag = 1 -> <<"hash_sha256", c.at.is[1]>>
    [] c.f = "hash" /\ c.flag = 0 ->
         <<"hash_sha256_oid", c.at.is[1], c.at.is[2], c.at.is[3]>>
    [] c.f = "ecc_generate_keypair" /\ c.flag = 0 ->
         <<"ecc_generate_keypair", NumberOf(EccCurve, c.n[1]), c.n[2],
           NumberOf(KeyId, c.at.is[1])>>
    [] c.f = "ecc_generate_keypair" /\ c.flag = 1 ->
         <<"ecc_generate_keypair_exported", NumberOf(EccCurve, c.n[1])>>
    [] c.f = "ecdsa_sign" -> <<"ecdsa_sign", NumberOf(KeyId, c.n[2]), c.n[1]>>
    [] c.f = "ecdsa_verify" /\ c.flag = 1 ->
         <<"ecdsa_verify", NumberOf(EccCurve, c.at.is[2]), c.at.is[1], c.n[1], c.n[2]>>
    [] c.f = "ecdsa_verify" /\ c.flag = 0 ->
         <<"ecdsa_verify_oid", c.at.is[1], c.n[1], c.n[2]>>
    [] c.f = "ecdh" /\ c.n[2] = 1 ->
         <<"ecdh", NumberOf(KeyId, c.n[1]), NumberOf(EccCurve, c.at.is[2]), c.at.is[1]>>
    [] c.f = "rsa_generate_keypair" ->
         <<"rsa_generate_keypair", NumberOf(RsaKeyType, c.n[1]), c.n[2],
           NumberOf(KeyId, c.at.is[1])>>
    [] c.f = "rsa_sign" ->
         <<"rsa_sign", NumberOf(RsaSignatureScheme, c.n[1]), NumberOf(KeyId, c.n[3]), c.n[2]>>
    [] c.f = "rsa_verify" ->
         <<"rsa_verify", NumberOf(RsaSignatureScheme, c.n[1]),
           NumberOf(RsaKeyType, c.at.is[2]), c.at.is[1], c.n[2], c.n[3]>>
    [] c.f = "rsa_encrypt_message" ->
         <<"rsa_encrypt", NumberOf(RsaKeyType, c.at.is[2]), c.at.is[1], c.n[2]>>
    [] c.f = "rsa_decrypt_and_export" -> <<"rsa_decrypt", NumberOf(KeyId, c.n[4]), c.n[2]>>
    [] c.f = "hmac" -> <<"hmac", NumberOf(HmacType, c.n[1]), c.n[2], c.n[3]>>
    [] c.f = "hkdf" /\ c.n[6] = 1 ->
         <<"hkdf", NumberOf(HkdfType, c.n[1]), c.n[2], c.n[3], c.n[4], c.n[5]>>
    [] c.f = "tls_prf" /\ c.n[6] = 1 ->
         <<"tls_prf", NumberOf(TlsPrfType, c.n[1]), c.n[2], c.n[3], c.n[4], c.n[5]>>
    [] c.f = "symmetric_generate_key" ->
         <<"symmetric_generate_key", NumberOf(SymmetricKeyType, c.n[1]), c.n[2]>>
    [] c.f = "symmetric_encrypt_ecb" /\ c.n[1] = KeyId.SecretBased ->
         <<"aes_ecb_encrypt", c.n[2]>>
    [] c.f = "symmetric_decrypt_ecb" /\ c.n[1] = KeyId.SecretBased ->
         <<"aes_ecb_decrypt", c.n[2]>>
    [] OTHER -> <<>>

(* What C takes a void pointer for. *)
ReadAs(f, source) ==
  CASE f = "hash" /\ source = OPTIGA_CRYPT_HOST_DATA -> "hash_data_from_host"
    [] f = "hash" /\ source = OPTIGA_CRYPT_OID_DATA  -> "hash_data_in_optiga"
    [] f \in {"ecdsa_verify", "rsa_verify", "rsa_encrypt_message"} ->
         IF source = OPTIGA_CRYPT_HOST_DATA THEN "public_key_from_host" ELSE "u16"
    [] f \in {"ecc_generate_keypair", "rsa_generate_keypair", "symmetric_generate_key"} ->
         IF source = 0 THEN "optiga_key_id" ELSE "buffer"
    [] f = "ecdh" -> "public_key_from_host"
    [] OTHER -> "none"

-----------------------------------------------------------------------------
(* How a method ends. *)

(* The first bytes of the exported private key, an OCTET STRING; zeros as   *)
(* long as the library has not written it; 0 bytes stand for a reply that   *)
(* does not begin with a length.                                            *)
PrivateKey(f) ==
  CASE ~f.done        -> <<0, 0>>
    [] f.bytes[1] = 0 -> <<4, 128>>
    [] OTHER          -> <<4, f.bytes[1] - 2>>

AtMost(a, b) == IF a < b THEN a ELSE b

(* The bytes of the k-th buffer that the method returns.  An output length  *)
(* that the library has not set is still the buffer's.                      *)
Kept(m, f, k) ==
  CASE m.outs[k].kept = "whole" -> m.outs[k].cap
    [] m.outs[k].kept = "der"   -> AtMost(der_len(PrivateKey(f)), m.outs[k].cap)
    [] OTHER -> AtMost(IF f.done THEN f.bytes[k] ELSE m.c.room[k], m.outs[k].cap)

(* No length at the front of the private key: Error::BadData. *)
BadData(m, f) ==
  \E k \in DOMAIN m.outs : m.outs[k].kept = "der" /\ der_len(PrivateKey(f)) = 0

(* The library has been given memory of t's call to write to: not by open's *)
(* or close's own command, nor by a call that only sends.                   *)
HasBuffers(t) == call[t] # NoCall /\ call[t].outs # <<>>

Returns(t, r) ==
  /\ returned' = [returned EXCEPT ![t] =
       IF call[t] = NoCall THEN Nothing
       ELSE IF r = "Err" \/ BadData(call[t], filled[t])
       THEN [status |-> "Err", quiet |-> quiet[t], bytes |-> <<>>]
       ELSE [status |-> "Ok", quiet |-> quiet[t],
             bytes |-> [k \in DOMAIN call[t].outs |-> Kept(call[t], filled[t], k)]]]
  /\ job' = [job EXCEPT ![Inst(t)] =
       IF @ # "live" THEN @ ELSE IF HasBuffers(t) THEN "dead" ELSE "left"]
  /\ UNCHANGED <<call, filled, ended>>

-----------------------------------------------------------------------------
(* The steps. *)

(* An open handle, and no result still to be taken. *)
Ready(t) == pc[t] = "idle" /\ returned[t] = Nothing

Begin(t, m) ==
  /\ Ready(t)
  /\ call' = [call EXCEPT ![t] = m]
  /\ filled' = [filled EXCEPT ![t] = Empty]
  /\ UNCHANGED <<job, ended, returned>>

Invoke(t, m) == m.valid /\ Begin(t, m) /\ Command(t, m.inst)

Reject(t, m) == ~m.valid /\ Begin(t, NoCall) /\ CommandRejected(t)

Close(t) == Begin(t, NoCall) /\ (Command(t, "close") \/ BeginDrop(t))

(* The caller takes the result, before it makes its next call. *)
Take(t) ==
  /\ returned[t] # Nothing
  /\ returned' = [returned EXCEPT ![t] = Nothing]
  /\ call' = [call EXCEPT ![t] = NoCall]
  /\ filled' = [filled EXCEPT ![t] = Empty]
  /\ UNCHANGED <<vars, job, ended>>

Accept(t) ==
  /\ RunAccepted(t)
  /\ job' = [job EXCEPT ![Inst(t)] = "live"]
  /\ UNCHANGED <<call, filled, ended, returned>>

Refused(t) == RunRefused(t) /\ Returns(t, "Err")

Poll(t) ==
  /\ RunLoad(t)
  /\ IF STATUS # OPTIGA_LIB_BUSY
     THEN Returns(t, FromStatus(STATUS))
     ELSE UNCHANGED commands

TimedOut(t) == RunTimeout(t) /\ Returns(t, "Err")

(* The library has the answer.  On success it has written it where the call *)
(* said; if the call still waits, those are its buffers.                    *)
Complete(i, status) ==
  /\ Finish(i)
  /\ ended' = [ended EXCEPT ![i] = status]
  /\ job' = [job EXCEPT ![i] = "none"]
  /\ IF status = OPTIGA_LIB_SUCCESS /\ job[i] = "live"
     THEN \E t \in Waiters(i) :
            IF call[t] = NoCall
            THEN UNCHANGED filled
            ELSE \E b \in Answers(call[t].c) :
                   filled' = [filled EXCEPT ![t] = [done |-> TRUE, bytes |-> b]]
     ELSE UNCHANGED filled
  /\ UNCHANGED <<call, returned>>

Report(i) == on_done(i, ended[i]) /\ UNCHANGED commands

(* The steps of the session that concern no command. *)
SessionStep(t) ==
  /\ returned[t] = Nothing
  /\ \/ OpenRefused(t)
     \/ \E path \in Paths, a \in Addrs : OpenEnter(t, path, a)
     \/ \E d \in TimeoutValues : set_timeout(t, d)
     \/ BadPath(t) \/ Configure(t)
     \/ UtilCreate(t) \/ UtilCreateFails(t)
     \/ CryptCreate(t) \/ CryptCreateFails(t)
     \/ Rollback(t) \/ RunReset(t) \/ RunSleep(t) \/ Tick(t)
     \/ DestroyCrypt(t) \/ DestroyUtil(t) \/ Release(t) \/ FreeBus(t)
  /\ UNCHANGED commands

CommandsNext ==
  \/ \E t \in Clients :
       \/ SessionStep(t)
       \/ Ready(t) /\ \E m \in Invocations : Invoke(t, m) \/ Reject(t, m)
       \/ Close(t) \/ Take(t)
       \/ Accept(t) \/ Refused(t) \/ Poll(t) \/ TimedOut(t)
  \/ \E i \in Slots :
       \/ \E s \in FinalStatuses : Complete(i, s)
       \/ Report(i)

CommandsSpec == CommandsInit /\ [][CommandsNext]_allvars

-----------------------------------------------------------------------------
(* What must hold of every call a client makes. *)

Calling(t) == call[t] # NoCall

(* What C takes the call for is what the caller asked: no length, key type, *)
(* usage or write mode is lost in a conversion, none takes another's place, *)
(* and no method calls another one's function.                              *)
CSeesWhatWasAsked ==
  \A t \in Clients : Calling(t) => Understood(call[t].c) = call[t].asked

(* Behind a void pointer lies what the flag beside it says: host data or a  *)
(* data object, a key slot or a buffer for the key.                         *)
PointersAreWhatTheyAreReadAs ==
  \A t \in Clients : Calling(t) =>
    call[t].c.at.type = ReadAs(call[t].c.f, call[t].c.flag)

(* The library stays inside the call's buffers, whether it is told their    *)
(* size or knows from the arguments how much to write.                      *)
WritesStayInside ==
  \A t \in Clients : Calling(t) => \A k \in DOMAIN call[t].outs :
    /\ call[t].c.room[k] <= call[t].outs[k].cap
    /\ \A b \in Answers(call[t].c) :
         call[t].outs[k].kept # "reported" => b[k] <= call[t].outs[k].cap

(* The library is told of enough room for all the chip may answer: no       *)
(* command fails for want of a buffer the caller has no say in.             *)
AnswersFit ==
  \A t \in Clients : Calling(t) => \A k \in DOMAIN call[t].outs :
    call[t].outs[k].kept = "reported" =>
      \A b \in Answers(call[t].c) : b[k] <= call[t].c.room[k]

(* A call made when nothing was in flight, even after earlier timeouts,     *)
(* returns Ok only if the chip has carried out this very command and its    *)
(* answer has been written while the call's buffers were alive.             *)
OkMeansDone ==
  ~stray => \A t \in Clients :
    returned[t].status = "Ok" /\ returned[t].quiet => filled[t].done

(* What a method makes of an answer is exactly the bytes the chip wrote:    *)
(* none cut off and none added.                                             *)
OkIsTheChipsAnswer ==
  \A t \in Clients :
    returned[t].status = "Ok" /\ filled[t].done => returned[t].bytes = filled[t].bytes

-----------------------------------------------------------------------------
(* What the sources say and the code does not keep: see the findings. *)

(* lib.rs: "buffer and length are valid for the duration of the call": no   *)
(* command in flight has the addresses of buffers that its method has freed *)
(* by returning.                                                            *)
BuffersOutliveCommand == \A i \in Slots : job[i] # "dead"
=============================================================================
