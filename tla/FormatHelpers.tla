--------------------------- MODULE FormatHelpers ---------------------------
(***************************************************************************)
(* The format helpers at the end of trustm/src/lib.rs, pure functions on   *)
(* byte strings: a chip signature (two bare DER INTEGERs) to fixed-width   *)
(* r || s and back, the length of a DER element, and the point inside an   *)
(* exported public key.                                                    *)
(***************************************************************************)
EXTENDS Naturals, Sequences

Byte == 0 .. 255

Ok(v) == [ok |-> TRUE, value |-> v]
Err == [ok |-> FALSE, value |-> <<>>]

From(s, i) == SubSeq(s, i, Len(s))

Zeros(n) == [i \in 1 .. n |-> 0]

-----------------------------------------------------------------------------
(* Signatures. *)

(* Leading zeros go, but one byte stays. *)
Strip(v) == From(v, CHOOSE i \in 1 .. Len(v) :
  /\ v[i] # 0 \/ i = Len(v)
  /\ \A j \in 1 .. i - 1 : v[j] = 0)

(* The mutated form of der_uint_into that looks at the length on the wire   *)
(* and not at the integer without its zeros.                                *)
UintKeepsZeros(buf, n) ==
  IF \/ Len(buf) < 2
     \/ buf[1] # 2
     \/ buf[2] = 0 \/ buf[2] >= 128 \/ Len(buf) < 2 + buf[2]
     \/ buf[2] > n
  THEN [ok |-> FALSE, value |-> <<>>, used |-> 0]
  ELSE LET v == SubSeq(buf, 3, 2 + buf[2])
       IN  [ok |-> TRUE, value |-> Zeros(n - Len(v)) \o v, used |-> 2 + buf[2]]

(* The mutated form of der_uint_into that copies to the front of out. *)
UintFillsFront(buf, n) ==
  LET failed == [ok |-> FALSE, value |-> <<>>, used |-> 0]
      v == Strip(SubSeq(buf, 3, 2 + buf[2]))
  IN  IF \/ Len(buf) < 2
         \/ buf[1] # 2
         \/ buf[2] = 0 \/ buf[2] >= 128 \/ Len(buf) < 2 + buf[2]
         \/ Len(v) > n
      THEN failed
      ELSE [ok |-> TRUE, value |-> v \o Zeros(n - Len(v)), used |-> 2 + buf[2]]

(* The first INTEGER of buf, left-padded to n bytes. *)
der_uint_into(buf, n) ==
  LET failed == [ok |-> FALSE, value |-> <<>>, used |-> 0]
      v == Strip(SubSeq(buf, 3, 2 + buf[2]))
  IN  IF \/ Len(buf) < 2
         \/ buf[1] # 2
         \/ buf[2] = 0 \/ buf[2] >= 128 \/ Len(buf) < 2 + buf[2]
         \/ Len(v) > n
      THEN failed
      ELSE [ok |-> TRUE, value |-> Zeros(n - Len(v)) \o v, used |-> 2 + buf[2]]

(* The mutated form of ecdsa_signature_to_rs that ignores what follows s. *)
ToRsIgnoresRest(sig, n) ==
  LET r == der_uint_into(sig, n)
      s == der_uint_into(From(sig, r.used + 1), n)
  IN  IF r.ok /\ s.ok THEN Ok(r.value \o s.value) ELSE Err

ecdsa_signature_to_rs(sig, n) ==
  LET r == der_uint_into(sig, n)
      s == der_uint_into(From(sig, r.used + 1), n)
  IN  IF r.ok /\ s.ok /\ r.used + s.used = Len(sig)
      THEN Ok(r.value \o s.value)
      ELSE Err

(* The mutated form of Integer that never pads. *)
IntegerNoPad(part) ==
  LET v == Strip(part) IN <<2, Len(v) % 256>> \o v

(* The INTEGER of one half.  The length is cast to one byte. *)
Integer(part) ==
  LET v == Strip(part)
      pad == IF v[1] >= 128 THEN <<0>> ELSE <<>>
  IN  <<2, (Len(v) + Len(pad)) % 256>> \o pad \o v

ecdsa_signature_from_rs(rs) ==
  LET half == Len(rs) \div 2
  IN  IF rs = <<>> \/ Len(rs) % 2 # 0
      THEN Err
      ELSE Ok(Integer(SubSeq(rs, 1, half)) \o Integer(From(rs, half + 1)))

-----------------------------------------------------------------------------
(* Public keys. *)

(* The mutated form of der_len that reads one length byte too few. *)
LenReadsOneByte(buf) ==
  CASE Len(buf) >= 2 /\ buf[2] < 128 -> 2 + buf[2]
    [] Len(buf) >= 3 /\ buf[2] \in {129, 130} -> 3 + buf[3]
    [] OTHER -> 0

(* The length of the element at the start of buf; 0 stands for None, as an  *)
(* element has at least two bytes.                                          *)
der_len(buf) ==
  CASE Len(buf) >= 2 /\ buf[2] < 128 -> 2 + buf[2]
    [] Len(buf) >= 3 /\ buf[2] = 129 -> 3 + buf[3]
    [] Len(buf) >= 4 /\ buf[2] = 130 -> 4 + 256 * buf[3] + buf[4]
    [] OTHER -> 0

(* The bytes of the element before its content. *)
HeaderLen(der) == IF der[2] < 128 THEN 2 ELSE 2 + (der[2] % 128)

(* From behind the header and the byte that counts unused bits. *)
ecc_public_key_point(der) ==
  LET point == From(der, HeaderLen(der) + 2)
  IN  CASE der # <<>> /\ der[1] = 4 -> Ok(der)
        [] /\ der # <<>> /\ der[1] = 3
           /\ der_len(der) = Len(der)
           /\ point # <<>> /\ point[1] = 4 -> Ok(point)
        [] OTHER -> Err
=============================================================================
