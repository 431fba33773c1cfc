---------------------------- MODULE TrustmCheck ----------------------------
(***************************************************************************)
(* The read-only health check (trustm/src/bin/trustm-check.rs): a fixed    *)
(* sequence of calls on one handle, what each check demands of the reply,  *)
(* the skips, the report and the exit status.                              *)
(*                                                                         *)
(* The handle is the one promised in Session, which Trustm implements: in  *)
(* particular, once a command has timed out a reply need not be the chip's *)
(* own, and then the buffers are still the zeros they started with.        *)
(***************************************************************************)
EXTENDS Session, FormatHelpers

CONSTANTS
  Me,            (* the process                                            *)
  Certificates,  (* what data object 0xE0E0 may hold: the bytes, and the   *)
                 (* point certified there, <<>> if there is none           *)
  Signatures     (* what ecdsa_sign may return                             *)

ASSUME OneProcess == Clients = {Me}

VARIABLES
  at,            (* how far main has come                                  *)
  first,         (* the first of the two random draws                      *)
  factory_pub,   (* the key found in the certificate, <<>> for None        *)
  signature,     (* <<>> for None                                          *)
  passed, failed, skipped,
  exit           (* the exit status                                        *)

(* History variables, read by no guard. *)
VARIABLES
  doubted,       (* a check has passed on a reply that need not be the     *)
                 (* chip's to its call, tampered and close apart           *)
  rejected,      (* tampered has passed on the chip's own reply            *)
  certified      (* the point in the certificate that was read             *)

report == <<passed, failed, skipped>>
history == <<doubted, rejected, certified>>
main   == <<at, first, factory_pub, signature, report, exit, history>>
checkvars == <<vars, main>>

(* The calls in their order.  "draw" is the first half of the random check. *)
Program ==
  <<"open", "uid", "lifecycle", "security status", "event counter",
    "buffer size", "monotonic counter", "metadata E0F0", "metadata E0F1",
    "metadata E0E0", "metadata F1D1", "certificate", "draw", "random",
    "sha", "sign", "verify", "tampered", "close">>

Checks == {Program[i] : i \in DOMAIN Program}

Running(c) == exit = "none" /\ at \in DOMAIN Program /\ Program[at] = c
Over == at = Len(Program) + 1

CheckInit ==
  /\ Init
  /\ at = 1
  /\ first = "none"
  /\ factory_pub = <<>> /\ signature = <<>> /\ certified = <<>>
  /\ passed = 0 /\ failed = 0 /\ skipped = 0
  /\ exit = "none"
  /\ doubted = FALSE /\ rejected = FALSE

-----------------------------------------------------------------------------
(* The certificate. *)

P256 == <<6, 8, 42, 134, 72, 206, 61, 3, 1, 7>>

strip_cert_header(raw) ==
  CASE raw # <<>> /\ raw[1] = 48                  -> Ok(raw)
    [] raw # <<>> /\ raw[1] = 192 /\ Len(raw) > 9 -> Ok(From(raw, 10))
    [] OTHER -> Err

(* Where the OID stands in der. *)
Places(der) == {i \in 1 .. Len(der) - 9 : SubSeq(der, i, i + 9) = P256}

(* The BIT STRING's point in what follows the OID. *)
PointAfter(rest) ==
  IF Len(rest) < 69 \/ SubSeq(rest, 1, 4) # <<3, 66, 0, 4>>
  THEN Err
  ELSE Ok(SubSeq(rest, 4, 68))

(* The mutated form of find_p256_spki that searches from the end. *)
FindLastSpki(der) ==
  IF Places(der) = {}
  THEN Err
  ELSE PointAfter(From(der, 10 + CHOOSE i \in Places(der) :
                                   \A j \in Places(der) : j <= i))

find_p256_spki(der) ==
  IF Places(der) = {}
  THEN Err
  ELSE PointAfter(From(der, 10 + CHOOSE i \in Places(der) :
                                   \A j \in Places(der) : i <= j))

(* The key a certificate object yields. *)
KeyIn(raw) ==
  LET der == strip_cert_header(raw)
  IN  IF der.ok /\ Len(der.value) > 1 /\ SubSeq(der.value, 1, 2) = <<48, 130>>
      THEN find_p256_spki(der.value)
      ELSE Err

(* What the inputs are, told apart from the code that reads them.  A DER    *)
(* certificate of 256 bytes or more lies in raw behind h bytes: none, or an *)
(* identity header.                                                         *)
Framed(raw, h) ==
  /\ Len(raw) > h + 1
  /\ raw[1] = IF h = 0 THEN 48 ELSE 192
  /\ SubSeq(raw, h + 1, h + 2) = <<48, 130>>

(* A P-256 key at i: its OID, a BIT STRING of an uncompressed point, and    *)
(* more, as in a certificate a signature follows.                           *)
KeyAt(raw, i) ==
  /\ i + 77 < Len(raw)
  /\ SubSeq(raw, i, i + 9) = P256
  /\ SubSeq(raw, i + 10, i + 13) = <<3, 66, 0, 4>>

(* The certificate in raw certifies point, and names the curve nowhere      *)
(* before.                                                                  *)
Certifies(raw, point) ==
  \E h \in {0, 9}, i \in 1 .. Len(raw) :
    /\ Framed(raw, h)
    /\ h < i
    /\ KeyAt(raw, i)
    /\ \A j \in h + 1 .. i - 1 : SubSeq(raw, j, j + 9) # P256
    /\ point = SubSeq(raw, i + 13, i + 77)

ASSUME CertificatesAssumption ==
  \A v \in Certificates :
    /\ v.raw \in Seq(Byte)
    /\ IF v.point # <<>>
       THEN Certifies(v.raw, v.point)
       ELSE \A h \in {0, 9}, i \in 1 .. Len(v.raw) :
              Framed(v.raw, h) /\ h < i => ~KeyAt(v.raw, i)

(* The mutated form of CertificateHolds that does not insist on a key.      *)
AnyCertificateHolds(raw) == strip_cert_header(raw).ok

CertificateHolds(raw) == KeyIn(raw).ok

der_key(point) == <<3, 66, 0>> \o point

-----------------------------------------------------------------------------
(* Replies. *)

(* What the chip may say to a call that succeeds: a length where only that  *)
(* is looked at, and "" where nothing is.                                   *)
Own(c) ==
  CASE c = "uid"         -> {26, 27}
    [] c = "buffer size" -> {1, 2}
    [] c = "certificate" -> Certificates
    [] c \in {"draw", "random"} -> {"zeros", "r1", "r2"}
    [] c = "sha"         -> {"digest", "other"}
    [] c = "sign"        -> Signatures
    [] OTHER             -> {""}

(* A certificate's buffer that was not written. *)
Blank == [raw |-> Zeros(2048), point |-> <<>>]

(* What the method returns when the buffers were not written.               *)
Unwritten(c) ==
  CASE c \in {"uid", "buffer size"} -> 2048
    [] c = "certificate" -> Blank
    [] c \in {"draw", "random"} -> "zeros"
    [] c = "sha"         -> "other"
    [] c = "sign"        -> Zeros(160)
    [] OTHER             -> ""

(* The closure of check c returns Ok on an Ok reply v. *)
Holds(c, v) ==
  CASE c = "uid"         -> v = 27
    [] c = "buffer size" -> v = 2
    [] c = "certificate" -> CertificateHolds(v.raw)
    [] c = "random"      -> first # v /\ first # "zeros"
    [] c = "sha"         -> v = "digest"
    [] c = "sign"        -> ecdsa_signature_to_rs(v, 32).ok
    [] OTHER             -> TRUE

-----------------------------------------------------------------------------
(* Report::ok, Report::fail, and the end of Report::check. *)
Count(ok) ==
  /\ passed' = IF ok THEN passed + 1 ELSE passed
  /\ failed' = IF ok THEN failed ELSE failed + 1
  /\ UNCHANGED skipped

(* The mutated form of ReportOf that leaves a failing first draw out.       *)
ReportNoDraw(c, ok) == IF c = "draw" THEN UNCHANGED report ELSE Count(ok)

(* A first draw that succeeds is followed by the second before any report.  *)
ReportOf(c, ok) == IF c = "draw" /\ ok THEN UNCHANGED report ELSE Count(ok)

(* The call of check c has returned r, with v if it is Ok; how says whether *)
(* that is the chip's own reply.                                            *)
Settle(c, r, v, how) ==
  LET ok == IF c = "tampered" THEN r = "Err" ELSE r = "Ok" /\ Holds(c, v)
  IN  /\ ReportOf(c, ok)
      /\ at' = CASE c = "draw" /\ ~ok -> at + 2
                 [] c = "open" /\ ~ok -> Len(Program) + 1
                 [] OTHER             -> at + 1
      /\ first' = IF c = "draw" /\ ok THEN v ELSE first
      /\ factory_pub' = IF c = "certificate" /\ ok THEN KeyIn(v.raw).value ELSE factory_pub
      /\ certified' = IF c = "certificate" /\ r = "Ok" THEN v.point ELSE certified
      /\ signature' = IF c = "sign" /\ ok THEN v ELSE signature
      /\ doubted' = (doubted \/ (ok /\ c \notin {"tampered", "close"} /\ how # "chip"))
      /\ rejected' = (rejected \/ (ok /\ c = "tampered" /\ how = "chip"))
      /\ UNCHANGED exit

-----------------------------------------------------------------------------
(* main. *)

(* --help, or not exactly one argument. *)
Usage ==
  /\ at = 1 /\ exit = "none" /\ phase[Me] = "outside"
  /\ exit' \in {"0", "2"}
  /\ at' = 0
  /\ UNCHANGED <<vars, first, factory_pub, signature, report, history>>

(* No signature or no key: neither verification is made. *)
Skip ==
  /\ Running("verify")
  /\ signature = <<>> \/ factory_pub = <<>>
  /\ skipped' = skipped + 2
  /\ at' = at + 2
  /\ UNCHANGED <<vars, first, factory_pub, signature, passed, failed, exit,
                 history>>

Begin(c) ==
  /\ Running(c)
  /\ c = "verify" => signature # <<>> /\ factory_pub # <<>>
  /\ IF c = "open" THEN Enter(Me) ELSE Call(Me)
  /\ UNCHANGED <<main, intact>>

(* Where a call leaves the handle: close ends the session, and so does an   *)
(* open that fails.                                                         *)
After(c, r) ==
  IF c = "close" \/ (c = "open" /\ r = "Err") THEN "calling" ELSE "holding"

(* The call fails without having started a command ...                      *)
CallFails(c) ==
  /\ Running(c)
  /\ Fail(Me)
  /\ phase'[Me] = After(c, "Err")
  /\ Settle(c, "Err", "", "none")
  /\ UNCHANGED intact

Starts(c) ==
  /\ Running(c)
  /\ Start(Me)
  /\ UNCHANGED <<main, intact>>

ChipAnswers == Answer /\ UNCHANGED <<main, intact>>

(* ... or ends with a status, the command's own unless an earlier one is    *)
(* late ...                                                                 *)
CallReturns(c) ==
  /\ Running(c)
  /\ Return(Me)
  /\ phase'[Me] = After(c, result'[Me])
  /\ \E v \in Own(c) \cup (IF late THEN {Unwritten(c)} ELSE {}) :
       Settle(c, result'[Me], v, IF late THEN "late" ELSE "chip")
  /\ UNCHANGED intact

(* ... or with a timeout. *)
CallTimesOut(c) ==
  /\ Running(c)
  /\ GiveUp(Me)
  /\ phase'[Me] = After(c, "Err")
  /\ Settle(c, "Err", "", "none")
  /\ UNCHANGED intact

(* The handle goes: at the end of close, or of an open that failed. *)
Drop ==
  /\ Over
  /\ Leave(Me) \/ End(Me)
  /\ UNCHANGED <<main, intact>>

(* Report::finish. *)
Finish ==
  /\ Over /\ exit = "none" /\ phase[Me] = "outside"
  /\ exit' = IF failed > 0 THEN "1" ELSE "0"
  /\ UNCHANGED <<vars, at, first, factory_pub, signature, report, history>>

CheckNext ==
  \/ Usage
  \/ \E c \in Checks :
       \/ Begin(c) \/ CallFails(c) \/ Starts(c)
       \/ CallReturns(c) \/ CallTimesOut(c)
  \/ ChipAnswers
  \/ Skip
  \/ Drop
  \/ Finish

CheckSpec == CheckInit /\ [][CheckNext]_checkvars

-----------------------------------------------------------------------------
(* What an operator may conclude from a run.  Exit status 0 with Over means *)
(* that the checks were made, and not just the help printed.                *)

(* "0 all checks passed": then every check did pass, and on a reply of the  *)
(* chip's own to that very call, although replies stop being reliable with  *)
(* the first timeout and the program goes on after it.  Two are excepted:   *)
(* the tampered digest, see TamperedIsVerified, and close after it.         *)
ExitZeroIsEarned ==
  exit = "0" /\ Over =>
    /\ passed = Len(Program) - 1
    /\ ~doubted

(* Verifications are skipped only after a check has failed, so that a run   *)
(* without them does not end in exit status 0.                              *)
SkipsFollowFailures == skipped > 0 => failed > 0

(* The key the signature is verified with is the one the certificate        *)
(* certifies, bare or in the identity header, alone or followed by its      *)
(* issuer's; a certificate that certifies none yields none; and the form    *)
(* it is handed to the chip in unwraps to it.                               *)
KeyIsTheCertifiedOne ==
  Running("verify") =>
    /\ factory_pub = certified
    /\ factory_pub # <<>> =>
         ecc_public_key_point(der_key(factory_pub)) = Ok(factory_pub)

-----------------------------------------------------------------------------
(* What the program says and does not keep: see the findings. *)

(* "ok  ECDSA verify rejects a tampered digest": the chip was asked and has *)
(* answered.                                                                *)
TamperedIsVerified ==
  exit = "0" /\ Over => rejected
=============================================================================
