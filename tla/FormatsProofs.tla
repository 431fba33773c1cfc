---------------------------- MODULE FormatsProofs ----------------------------
(***************************************************************************)
(* Theorems about the format helpers at work, for every string of bytes    *)
(* and every component length.                                             *)
(***************************************************************************)
EXTENDS Formats, FormatHelperProofs

(* Until a value has been read as a number there is no seen; from then on   *)
(* bytes is either seen itself or what ecdsa_signature_from_rs makes of it. *)
FormatInv ==
  /\ form \in {"sig", "rs", "key", "point", "error"}
  /\ bytes \in Seq(Byte)
  /\ seen \in Seq(Byte)
  /\ width \in Nat
  /\ form = "rs" => bytes = seen /\ width = Len(seen) \div 2
  /\ form = "sig" /\ seen # <<>> =>
       /\ Len(seen) % 2 = 0
       /\ width = Len(seen) \div 2
       /\ bytes = Integer(SubSeq(seen, 1, width)) \o Integer(From(seen, width + 1))
  /\ form \in {"key", "point"} => seen = <<>>
  /\ ReadsItsOwn

LEMMA FormatInit == Init => FormatInv
<1> SUFFICES ASSUME Init PROVE FormatInv
  OBVIOUS
<1>1. bytes \in Seq(Byte) /\ seen \in Seq(Byte)
  BY FormatsAssumption DEF Init
<1>2. width \in Nat
  <2>1. Len(bytes) \in Nat
    BY <1>1
  <2>2. Len(bytes) \div 2 \in Nat
    BY <2>1
  <2>3. 0 \in Nat
    OBVIOUS
  <2>4. QED BY <2>2, <2>3, FormatsAssumption DEF Init
<1>3. form \in {"sig", "rs", "key"}
  BY DEF Init
<1>4. form = "rs" => bytes = seen /\ width = Len(seen) \div 2
  BY DEF Init
<1>5. form # "rs" => seen = <<>>
  BY DEF Init
<1>6. QED BY <1>1, <1>2, <1>3, <1>4, <1>5 DEF FormatInv, ReadsItsOwn

(* What the round trip lemma says of a value that came back as DER. *)
LEMMA BackFromDer ==
  ASSUME FormatInv, form = "sig", seen # <<>>
  PROVE  LET r == SubSeq(seen, 1, width)
             s == From(seen, width + 1)
             back == ecdsa_signature_to_rs(bytes, width)
         IN  /\ back.ok <=> Short(r) /\ Short(s)
             /\ back.ok => back = Ok(seen)
             /\ Len(Integer(r)) \in Nat /\ Len(Integer(s)) \in Nat
<1> DEFINE half == Len(seen) \div 2
<1>1. /\ seen \in Seq(Byte) /\ Len(seen) % 2 = 0 /\ width = half
      /\ bytes = Integer(SubSeq(seen, 1, half)) \o Integer(From(seen, half + 1))
  BY DEF FormatInv
<1>2. LET r == SubSeq(seen, 1, half)
          s == From(seen, half + 1)
          back == ecdsa_signature_to_rs(Integer(r) \o Integer(s), half)
      IN  /\ back.ok <=> Short(r) /\ Short(s)
          /\ back.ok => back = Ok(seen)
  BY <1>1, RoundTrip
<1>3. /\ SubSeq(seen, 1, half) \in Seq(Byte) /\ SubSeq(seen, 1, half) # <<>>
      /\ From(seen, half + 1) \in Seq(Byte) /\ From(seen, half + 1) # <<>>
  BY <1>1, Halves
<1>4. /\ Len(Integer(SubSeq(seen, 1, half))) \in Nat
      /\ Len(Integer(From(seen, half + 1))) \in Nat
  BY <1>3, IntegerWrites
<1> HIDE DEF half
<1>5. QED BY <1>1, <1>2, <1>4

LEMMA FormatStep == FormatInv /\ [Next]_vars => FormatInv'
<1> SUFFICES ASSUME FormatInv, [Next]_vars PROVE FormatInv'
  OBVIOUS
<1>1. CASE ToRs
  <2> DEFINE back == ecdsa_signature_to_rs(bytes, width)
  <2>1. /\ form = "sig" /\ width' = width
        /\ form' = IF back.ok THEN "rs" ELSE "error"
        /\ bytes' = IF back.ok THEN back.value ELSE bytes
        /\ seen' = IF back.ok /\ seen = <<>> THEN back.value ELSE seen
    BY <1>1 DEF ToRs, Becomes
  <2>2. bytes \in Seq(Byte) /\ seen \in Seq(Byte) /\ width \in Nat
    BY DEF FormatInv
  <2>3. ASSUME back.ok
        PROVE  back.value \in Seq(Byte) /\ Len(back.value) = width + width
    <3> DEFINE u == der_uint_into(bytes, width)
               w == der_uint_into(From(bytes, u.used + 1), width)
               x == u.value \o w.value
    <3>1. back = Ok(x) /\ x \in Seq(Byte) /\ Len(x) = width + width
      BY <2>2, <2>3, ToRsGives
    <3> HIDE DEF back, x
    <3>2. back.value = x
      BY <3>1 DEF Ok
    <3>3. QED BY <3>1, <3>2
  <2>4. CASE seen = <<>>
    <3> HIDE DEF back
    <3>1. CASE back.ok
      <4>1. /\ form' = "rs" /\ bytes' = back.value /\ seen' = back.value
        BY <2>1, <2>4, <3>1
      <4>2. width = Len(back.value) \div 2
        <5> DEFINE L == Len(back.value)
        <5>1. L = width + width
          BY <2>3, <3>1
        <5> HIDE DEF L
        <5>2. width = L \div 2
          BY <2>2, <5>1
        <5>3. QED BY <5>2 DEF L
      <4>3. QED BY <2>1, <2>2, <2>3, <3>1, <4>1, <4>2 DEF FormatInv, ReadsItsOwn
    <3>2. CASE ~back.ok
      BY <2>1, <2>2, <2>4, <3>2 DEF FormatInv, ReadsItsOwn
    <3>3. QED BY <3>1, <3>2
  <2>5. CASE seen # <<>>
    <3> DEFINE r == SubSeq(seen, 1, width)
               s == From(seen, width + 1)
    <3>1. /\ back.ok <=> Short(r) /\ Short(s)
          /\ back.ok => back = Ok(seen)
          /\ Len(Integer(r)) \in Nat /\ Len(Integer(s)) \in Nat
      BY <2>1, <2>5, BackFromDer
    <3>2. width = Len(seen) \div 2
      BY <2>1, <2>5 DEF FormatInv
    <3> HIDE DEF back
    <3>3. CASE back.ok
      <4>1. back.value = seen
        BY <3>1, <3>3 DEF Ok
      <4>2. form' = "rs" /\ bytes' = seen /\ seen' = seen
        BY <2>1, <2>5, <3>3, <4>1
      <4>3. QED BY <2>1, <2>2, <3>2, <4>2 DEF FormatInv, ReadsItsOwn
    <3>4. CASE ~back.ok
      <4>1. form' = "error" /\ bytes' = bytes /\ seen' = seen
        BY <2>1, <3>4
      <4>2. Len(Integer(r)) - 2 >= 128 \/ Len(Integer(s)) - 2 >= 128
        BY <3>1, <3>4 DEF Short
      <4>3. \E part \in {r, s} : Len(Integer(part)) - 2 >= 128
        BY <4>2
      <4>4. ReadsItsOwn'
        BY <2>1, <4>1, <4>3 DEF ReadsItsOwn
      <4>5. QED BY <2>1, <2>2, <4>1, <4>4 DEF FormatInv
    <3>5. QED BY <3>3, <3>4
  <2>6. QED BY <2>4, <2>5
<1>2. CASE FromRs
  <2> DEFINE sig == ecdsa_signature_from_rs(bytes)
  <2>1. /\ form = "rs" /\ width' = width /\ seen' = seen
        /\ form' = IF sig.ok THEN "sig" ELSE "error"
        /\ bytes' = IF sig.ok THEN sig.value ELSE bytes
    BY <1>2 DEF FromRs, Becomes
  <2>2. /\ bytes \in Seq(Byte) /\ seen \in Seq(Byte) /\ width \in Nat
        /\ bytes = seen /\ width = Len(seen) \div 2
    BY <2>1 DEF FormatInv
  <2>3. CASE seen = <<>> \/ Len(seen) % 2 # 0
    <3>1. sig = Err
      BY <2>2, <2>3 DEF ecdsa_signature_from_rs
    <3>2. form' = "error" /\ bytes' = bytes
      <4> HIDE DEF sig
      <4>1. QED BY <2>1, <3>1 DEF Err
    <3>3. QED BY <2>1, <2>2, <2>3, <3>2 DEF FormatInv, ReadsItsOwn
  <2>4. CASE seen # <<>> /\ Len(seen) % 2 = 0
    <3> DEFINE half == Len(seen) \div 2
               r == SubSeq(seen, 1, half)
               s == From(seen, half + 1)
    <3>1. sig = Ok(Integer(r) \o Integer(s))
      BY <2>2, <2>4, FromRsWrites
    <3>2. r \in Seq(Byte) /\ r # <<>> /\ s \in Seq(Byte) /\ s # <<>>
      BY <2>2, <2>4, Halves
    <3> HIDE DEF r, s, half, sig
    <3>3. Integer(r) \in Seq(Byte) /\ Integer(s) \in Seq(Byte)
      BY <3>2, IntegerWrites
    <3>4. Integer(r) \o Integer(s) \in Seq(Byte)
      BY <3>3, Joined
    <3>5. form' = "sig" /\ bytes' = Integer(r) \o Integer(s)
      BY <2>1, <3>1 DEF Ok
    <3>6. bytes' = Integer(SubSeq(seen, 1, width)) \o Integer(From(seen, width + 1))
      BY <2>2, <3>5 DEF r, s, half
    <3>7. bytes' \in Seq(Byte)
      BY <3>4, <3>5
    <3>8. QED BY <2>1, <2>2, <2>4, <3>5, <3>6, <3>7 DEF FormatInv, ReadsItsOwn
  <2>5. QED BY <2>3, <2>4
<1>3. CASE ToPoint
  <2> DEFINE point == ecc_public_key_point(bytes)
  <2>1. /\ form \in {"key", "point"} /\ width' = width /\ seen' = seen
        /\ form' = IF point.ok THEN "point" ELSE "error"
        /\ bytes' = IF point.ok THEN point.value ELSE bytes
    BY <1>3 DEF ToPoint, Becomes
  <2>2. bytes \in Seq(Byte) /\ seen = <<>> /\ width \in Nat
    BY <2>1 DEF FormatInv
  <2>3. point.ok => point.value \in Seq(Byte)
    BY <2>2, PointGives
  <2> HIDE DEF point
  <2>4. QED BY <2>1, <2>2, <2>3 DEF FormatInv, ReadsItsOwn
<1>4. CASE UNCHANGED vars
  BY <1>4 DEF FormatInv, ReadsItsOwn, vars
<1>5. QED BY <1>1, <1>2, <1>3, <1>4 DEF Next

LEMMA FormatsInvariant == Spec => []FormatInv
  BY FormatInit, FormatStep, PTL DEF Spec

(* However often a value goes to DER and back, its r || s stays the same.   *)
THEOREM ConversionsLoseNothing == Spec => []RsSurvives
<1>1. FormatInv => RsSurvives
  BY DEF FormatInv, RsSurvives
<1>2. QED BY <1>1, FormatsInvariant, PTL

(* What the crate wrote it reads back, unless a half needs a length of two  *)
(* bytes.                                                                   *)
THEOREM OwnSignaturesAreRead == Spec => []ReadsItsOwn
<1>1. FormatInv => ReadsItsOwn
  BY DEF FormatInv
<1>2. QED BY <1>1, FormatsInvariant, PTL

-----------------------------------------------------------------------------
(* IsInteger and Splits against what der_uint_into accepts. *)

LEMMA IntegerIs ==
  ASSUME NEW e \in Seq(Byte), NEW n \in Nat
  PROVE  IsInteger(e, n) <=> StartsInteger(e, n) /\ Len(e) = 2 + e[2]
<1>1. Len(e) \in Nat
  OBVIOUS
<1>2. Len(e) > 2 => e[2] \in Nat
  <2>1. Len(e) > 2 => e[2] \in Byte
    BY <1>1, ElementOfSeq
  <2>2. QED BY <2>1, ByteIs
<1>3. CASE Len(e) > 2 /\ Len(e) = 2 + e[2]
  <2>1. e[2] = Len(e) - 2 /\ e[2] # 0 /\ 2 + e[2] <= Len(e)
        /\ Len(e) - n = 2 + e[2] - n
    BY <1>1, <1>2, <1>3
  <2>2. QED BY <1>3, <2>1 DEF IsInteger, StartsInteger
<1>4. CASE ~ (Len(e) > 2 /\ Len(e) = 2 + e[2])
  BY <1>1, <1>2, <1>4 DEF IsInteger, StartsInteger
<1>5. QED BY <1>3, <1>4

LEMMA IntegerAt ==
  ASSUME NEW sig \in Seq(Byte), NEW n \in Nat, NEW k \in 1 .. Len(sig)
  PROVE  /\ IsInteger(SubSeq(sig, 1, k), n) <=> StartsInteger(sig, n) /\ k = 2 + sig[2]
         /\ SubSeq(sig, 1, k) \in Seq(Byte)
         /\ Len(SubSeq(sig, 1, k)) = k
         /\ \A i \in 1 .. k : SubSeq(sig, 1, k)[i] = sig[i]
<1> DEFINE e == SubSeq(sig, 1, k)
<1>1. Len(sig) \in Nat /\ k \in Nat /\ k >= 1 /\ k <= Len(sig)
  OBVIOUS
<1>2. /\ e \in Seq(Byte)
      /\ Len(e) = k
      /\ \A i \in 1 .. k : e[i] = sig[i]
  <2>1. 1 \in 1 .. Len(sig) + 1 /\ k \in 0 .. Len(sig)
    BY <1>1
  <2>2. /\ SubSeq(sig, 1, k) \in Seq(Byte)
        /\ Len(SubSeq(sig, 1, k)) = IF 1 <= k THEN k - 1 + 1 ELSE 0
        /\ \A i \in 1 .. k - 1 + 1 : SubSeq(sig, 1, k)[i] = sig[1 + i - 1]
    BY <2>1, Part
  <2>3. QED BY <1>1, <2>2
<1> HIDE DEF e
<1>3. CASE k > 2
  <2>1. e[1] = sig[1] /\ e[2] = sig[2]
    BY <1>1, <1>2, <1>3
  <2>2. sig[2] \in Nat
    <3>1. 2 \in 1 .. Len(sig)
      BY <1>1, <1>3
    <3>2. sig[2] \in Byte
      BY <3>1, ElementOfSeq
    <3>3. QED BY <3>2, ByteIs
  <2>3. CASE k = 2 + sig[2]
    <3>1. \A i \in 3 .. 2 + sig[2] - n : e[i] = sig[i]
      <4>1. \A i \in 3 .. 2 + sig[2] - n : i \in 1 .. k
        BY <1>1, <2>2, <2>3
      <4>2. QED BY <1>2, <4>1
    <3>2. StartsInteger(e, n) <=> StartsInteger(sig, n)
      <4>1. Len(e) > 2 /\ Len(sig) > 2 /\ 2 + sig[2] <= Len(e) /\ 2 + sig[2] <= Len(sig)
        BY <1>1, <1>2, <1>3, <2>3
      <4>2. QED BY <2>1, <3>1, <4>1 DEF StartsInteger
    <3>3. QED BY <1>2, <2>1, <2>3, <3>2, IntegerIs DEF e
  <2>4. CASE k # 2 + sig[2]
    BY <1>2, <2>1, <2>4, IntegerIs DEF e
  <2>5. QED BY <2>3, <2>4
<1>4. CASE ~ (k > 2)
  <2>1. ~ IsInteger(e, n)
    BY <1>1, <1>2, <1>4 DEF IsInteger
  <2>2. ASSUME StartsInteger(sig, n), k = 2 + sig[2] PROVE FALSE
    <3>1. Len(sig) > 2 /\ sig[2] # 0
      BY <2>2 DEF StartsInteger
    <3>2. 2 \in 1 .. Len(sig)
      BY <1>1, <3>1
    <3>3. sig[2] \in Byte
      BY <3>2, ElementOfSeq
    <3>4. sig[2] \in Nat
      BY <3>3, ByteIs
    <3>5. QED BY <1>1, <1>4, <2>2, <3>1, <3>4
  <2>3. QED BY <1>2, <2>1, <2>2 DEF e
<1>5. QED BY <1>3, <1>4

(* Bytes that are an INTEGER's last n are its Value. *)
LEMMA ValueIs ==
  ASSUME NEW e \in Seq(Byte), NEW n \in Nat, NEW v \in Seq(Byte), Len(v) = n,
         \A j \in 1 .. n :
           v[j] = IF Len(e) - n + j > 2 THEN e[Len(e) - n + j] ELSE 0
  PROVE  v = Value(e, n)
<1>1. v = [j \in 1 .. n |-> v[j]]
  OBVIOUS
<1>2. QED BY <1>1 DEF Value

LEMMA SplitsExactly ==
  ASSUME NEW sig \in Seq(Byte), NEW n \in Nat
  PROVE  LET back == ecdsa_signature_to_rs(sig, n)
         IN  /\ back.ok <=> Splits(sig, n) # {}
             /\ \A k \in Splits(sig, n) :
                  back = Ok(Value(SubSeq(sig, 1, k), n) \o Value(From(sig, k + 1), n))
<1> DEFINE back == ecdsa_signature_to_rs(sig, n)
           u == der_uint_into(sig, n)
<1>1. ASSUME NEW k \in Splits(sig, n)
      PROVE  back = Ok(Value(SubSeq(sig, 1, k), n) \o Value(From(sig, k + 1), n))
  <2> DEFINE e == SubSeq(sig, 1, k)
             rest == From(sig, k + 1)
             w == der_uint_into(rest, n)
  <2>1. k \in 1 .. Len(sig) /\ IsInteger(e, n) /\ IsInteger(rest, n)
    BY DEF Splits
  <2>2. /\ StartsInteger(sig, n) /\ k = 2 + sig[2]
        /\ e \in Seq(Byte) /\ Len(e) = k
        /\ \A i \in 1 .. k : e[i] = sig[i]
    BY <2>1, IntegerAt
  <2>3. rest \in Seq(Byte) /\ Len(rest) = Len(sig) - k
    BY <2>1, RestIs
  <2>4. /\ u.ok /\ u.used = k /\ u.value \in Seq(Byte) /\ Len(u.value) = n
        /\ \A j \in 1 .. n :
             u.value[j] = IF u.used - n + j > 2 THEN sig[u.used - n + j] ELSE 0
    BY <2>2, UintReads
  <2>5. StartsInteger(rest, n) /\ Len(rest) = 2 + rest[2]
    BY <2>1, <2>3, IntegerIs
  <2>6. /\ w.ok /\ w.used = Len(rest) /\ w.value \in Seq(Byte) /\ Len(w.value) = n
        /\ \A j \in 1 .. n :
             w.value[j] = IF w.used - n + j > 2 THEN rest[w.used - n + j] ELSE 0
    BY <2>3, <2>5, UintReads
  <2>7. From(sig, u.used + 1) = rest
    BY <2>4
  <2>8. back = IF u.ok /\ w.ok /\ u.used + w.used = Len(sig)
               THEN Ok(u.value \o w.value) ELSE Err
    BY <2>7 DEF ecdsa_signature_to_rs
  <2> HIDE DEF u, w, e, rest, back
  <2>9. u.value = Value(e, n)
    <3>1. ASSUME NEW j \in 1 .. n
          PROVE  u.value[j] = IF Len(e) - n + j > 2 THEN e[Len(e) - n + j] ELSE 0
      <4>1. Len(e) - n + j > 2 => Len(e) - n + j \in 1 .. k
        BY <2>1, <2>2
      <4>2. QED BY <2>1, <2>2, <2>4, <4>1
    <3>2. QED BY <2>2, <2>4, <3>1, ValueIs
  <2>10. w.value = Value(rest, n)
    <3>1. Len(rest) \in Nat
      BY <2>3
    <3>2. \A j \in 1 .. n : w.value[j] =
            IF Len(rest) - n + j > 2 THEN rest[Len(rest) - n + j] ELSE 0
      BY <2>6, <3>1
    <3>3. QED BY <2>3, <2>6, <3>2, ValueIs
  <2>11. u.used + w.used = Len(sig)
    BY <2>1, <2>3, <2>4, <2>6
  <2>12. QED BY <2>4, <2>6, <2>8, <2>9, <2>10, <2>11 DEF e, rest
<1>2. ASSUME back.ok PROVE Splits(sig, n) # {}
  <2> DEFINE k == u.used
             rest == From(sig, k + 1)
             w == der_uint_into(rest, n)
  <2>1. /\ u.ok /\ w.ok /\ k + w.used = Len(sig)
        /\ k \in 3 .. Len(sig) /\ rest \in Seq(Byte)
    BY <1>2, ToRsGives
  <2>2. StartsInteger(sig, n) /\ k = 2 + sig[2]
    BY <2>1, UintReads
  <2>3. StartsInteger(rest, n) /\ w.used = 2 + rest[2]
    BY <2>1, UintReads
  <2> HIDE DEF u, w
  <2>4. k \in 1 .. Len(sig) /\ Len(rest) = Len(sig) - k
    <3> HIDE DEF rest
    <3>1. k \in 1 .. Len(sig) /\ k \in 0 .. Len(sig)
      BY <2>1
    <3>2. QED BY <3>1, RestIs DEF rest
  <2>5. IsInteger(SubSeq(sig, 1, k), n)
    BY <2>2, <2>4, IntegerAt
  <2>6. Len(rest) = w.used
    <3> HIDE DEF rest
    <3>1. w.used \in Int
      <4>1. rest[2] \in Byte
        <5>1. Len(rest) > 2 /\ Len(rest) \in Nat
          BY <2>1, <2>3 DEF StartsInteger
        <5>2. 2 \in 1 .. Len(rest)
          BY <5>1
        <5>3. QED BY <2>1, <5>2, ElementOfSeq
      <4>2. rest[2] \in Nat
        BY <4>1, ByteIs
      <4>3. QED BY <2>3, <4>2
    <3>2. QED BY <2>1, <2>4, <3>1
  <2>7. IsInteger(rest, n)
    BY <2>1, <2>3, <2>6, IntegerIs
  <2>8. k \in Splits(sig, n)
    BY <2>4, <2>5, <2>7 DEF Splits
  <2>9. QED BY <2>8
<1>3. ASSUME Splits(sig, n) # {} PROVE back.ok
  <2>1. PICK k \in Splits(sig, n) : TRUE
    BY <1>3
  <2> DEFINE x == Value(SubSeq(sig, 1, k), n) \o Value(From(sig, k + 1), n)
  <2>2. back = Ok(x)
    BY <1>1
  <2> HIDE DEF back, x
  <2>3. QED BY <2>2 DEF Ok
<1>4. back.ok \in BOOLEAN
  BY DEF ecdsa_signature_to_rs, Ok, Err
<1>5. QED BY <1>1, <1>2, <1>3, <1>4

(* ecdsa_signature_to_rs accepts what splits into two INTEGERs that fit,    *)
(* and nothing else, and returns their values.                              *)
THEOREM SignaturesAreReadExactly == Spec => ToRsIsExact
<1>1. FormatInv /\ [Next]_vars =>
        [form = "sig" =>
           /\ form' = "rs" <=> Splits(bytes, width) # {}
           /\ \A k \in Splits(bytes, width) : bytes' =
                Value(SubSeq(bytes, 1, k), width)
                  \o Value(From(bytes, k + 1), width)]_vars
  <2> SUFFICES ASSUME FormatInv, Next, form = "sig"
               PROVE  /\ form' = "rs" <=> Splits(bytes, width) # {}
                      /\ \A k \in Splits(bytes, width) : bytes' =
                           Value(SubSeq(bytes, 1, k), width)
                             \o Value(From(bytes, k + 1), width)
    OBVIOUS
  <2> DEFINE back == ecdsa_signature_to_rs(bytes, width)
  <2>1. /\ form' = IF back.ok THEN "rs" ELSE "error"
        /\ bytes' = IF back.ok THEN back.value ELSE bytes
    BY DEF Next, ToRs, FromRs, ToPoint, Becomes
  <2>2. bytes \in Seq(Byte) /\ width \in Nat
    BY DEF FormatInv
  <2>3. back.ok <=> Splits(bytes, width) # {}
    BY <2>2, SplitsExactly
  <2>4. ASSUME NEW k \in Splits(bytes, width)
        PROVE  bytes' = Value(SubSeq(bytes, 1, k), width)
                          \o Value(From(bytes, k + 1), width)
    <3> DEFINE x == Value(SubSeq(bytes, 1, k), width)
                      \o Value(From(bytes, k + 1), width)
    <3>1. back = Ok(x)
      BY <2>2, SplitsExactly
    <3> HIDE DEF back, x
    <3>2. back.ok /\ back.value = x
      BY <3>1 DEF Ok
    <3>3. QED BY <2>1, <3>2 DEF x
  <2> HIDE DEF back
  <2>5. QED BY <2>1, <2>3, <2>4
<1>2. QED BY <1>1, FormatsInvariant, PTL DEF Spec, ToRsIsExact


-----------------------------------------------------------------------------
(* ecdsa_signature_from_rs writes two INTEGERs and keeps each minimal, for  *)
(* every width up to 126.                                                   *)
Minimal(e, n) ==
  /\ IsInteger(e, n)
  /\ e[3] < 128
  /\ e[3] = 0 /\ Len(e) > 3 => e[4] >= 128

LEMMA IntegerIsMinimal ==
  ASSUME NEW part \in Seq(Byte), part # <<>>, Len(part) <= 126
  PROVE  Integer(part) \in Seq(Byte) /\ Minimal(Integer(part), Len(part))
<1> DEFINE e == Integer(part)
           P == Len(part)
<1>1. /\ e \in Seq(Byte)
      /\ Len(e) \in Nat /\ Len(e) > 2 /\ Len(e) <= P + 3
      /\ e[1] = 2 /\ e[2] = (Len(e) - 2) % 256
      /\ e[3] < 128
      /\ e[3] = 0 /\ Len(e) > 3 => e[4] >= 128
      /\ \A i \in 3 .. Len(e) - P : e[i] = 0
  BY IntegerWrites
<1>2. P \in Nat /\ P > 0
  BY EmptySeq
<1> HIDE DEF e
<1>3. e[2] = Len(e) - 2 /\ e[2] < 128
  <2> DEFINE m == Len(e) - 2
  <2>1. m \in Nat /\ m < 128
    BY <1>1, <1>2
  <2> HIDE DEF m
  <2>2. m % 256 = m
    BY <2>1
  <2>3. QED BY <1>1, <2>1, <2>2 DEF m
<1>4. IsInteger(e, P)
  BY <1>1, <1>2, <1>3 DEF IsInteger
<1>5. QED BY <1>1, <1>4 DEF Minimal, e

(* What ecdsa_signature_from_rs writes of each half is the INTEGER of DER:  *)
(* no zero too many in front, and none missing before a high bit.           *)
THEOREM SignaturesAreWrittenMinimal == Spec => FromRsIsMinimal
<1>1. FormatInv /\ [Next]_vars =>
        [form = "rs" /\ form' = "sig" /\ width <= 126 =>
           \E k \in 1 .. Len(bytes') :
             \A e \in {SubSeq(bytes', 1, k), From(bytes', k + 1)} :
               /\ IsInteger(e, width)
               /\ e[3] < 128
               /\ e[3] = 0 /\ Len(e) > 3 => e[4] >= 128]_vars
  <2> SUFFICES ASSUME FormatInv, Next, form = "rs", form' = "sig", width <= 126
               PROVE  \E k \in 1 .. Len(bytes') :
                        \A e \in {SubSeq(bytes', 1, k), From(bytes', k + 1)} :
                          Minimal(e, width)
    BY DEF Minimal
  <2> DEFINE sig == ecdsa_signature_from_rs(bytes)
             half == Len(bytes) \div 2
             r == SubSeq(bytes, 1, half)
             s == From(bytes, half + 1)
             a == Integer(r)
             b == Integer(s)
  <2>1. sig.ok /\ bytes' = sig.value
    BY DEF Next, ToRs, FromRs, ToPoint, Becomes
  <2>2. bytes \in Seq(Byte) /\ width = half
    BY DEF FormatInv
  <2>3. bytes # <<>> /\ Len(bytes) % 2 = 0
    <3>1. ASSUME bytes = <<>> \/ Len(bytes) % 2 # 0 PROVE sig = Err
      BY <3>1 DEF ecdsa_signature_from_rs
    <3> HIDE DEF sig
    <3>2. QED BY <2>1, <3>1 DEF Err
  <2>4. sig = Ok(a \o b)
    BY <2>2, <2>3, FromRsWrites
  <2>5. /\ r \in Seq(Byte) /\ Len(r) = half /\ r # <<>>
        /\ s \in Seq(Byte) /\ Len(s) = half /\ s # <<>>
    BY <2>2, <2>3, Halves
  <2> HIDE DEF sig, half, r, s
  <2>6. /\ a \in Seq(Byte) /\ Minimal(a, width)
        /\ b \in Seq(Byte) /\ Minimal(b, width)
    BY <2>2, <2>5, IntegerIsMinimal
  <2>7. Len(a) \in Nat /\ Len(a) > 2
    BY <2>5, IntegerWrites
  <2> HIDE DEF a, b
  <2>8. bytes' = a \o b
    BY <2>1, <2>4 DEF Ok
  <2>9. SubSeq(bytes', 1, Len(a)) = a /\ From(bytes', Len(a) + 1) = b
    BY <2>6, <2>8, Before, Behind
  <2>10. Len(a) \in 1 .. Len(bytes')
    <3>1. Len(a \o b) = Len(a) + Len(b) /\ Len(b) \in Nat
      BY <2>6, Joined
    <3>2. QED BY <2>7, <2>8, <3>1
  <2>11. QED BY <2>6, <2>9, <2>10
<1>2. QED BY <1>1, FormatsInvariant, PTL DEF Spec, FromRsIsMinimal

-----------------------------------------------------------------------------
(* The headers under which a key's point may lie are the one its own second *)
(* byte announces, when that spans the whole key.                           *)
LEMMA HeaderAt ==
  ASSUME NEW key \in Seq(Byte), NEW k \in 1 .. Len(key), k # 1
  PROVE  SubSeq(key, 1, k - 2) \in Header(Len(key) - k + 2)
           <=> /\ key[1] = 3 /\ der_len(key) = Len(key)
               /\ k = HeaderLen(key) + 2
<1> DEFINE m == k - 2
           h == SubSeq(key, 1, m)
           N == Len(key)
           n == N - k + 2
<1>1. N \in Nat /\ k \in Nat /\ k >= 2 /\ k <= N /\ m \in Nat /\ N = m + n /\ n \in Nat
      /\ n >= 2
  OBVIOUS
<1>2. /\ h \in Seq(Byte)
      /\ Len(h) = m
      /\ \A i \in 1 .. m : h[i] = key[i]
  <2>1. 1 \in 1 .. Len(key) + 1 /\ m \in 0 .. Len(key)
    BY <1>1
  <2>2. /\ SubSeq(key, 1, m) \in Seq(Byte)
        /\ Len(SubSeq(key, 1, m)) = IF 1 <= m THEN m - 1 + 1 ELSE 0
        /\ \A i \in 1 .. m - 1 + 1 : SubSeq(key, 1, m)[i] = key[1 + i - 1]
    BY <2>1, Part
  <2>3. QED BY <1>1, <2>2
<1>3. \A i \in 1 .. N : key[i] \in Nat /\ key[i] < 256
  <2>1. \A i \in 1 .. N : key[i] \in Byte
    BY ElementOfSeq
  <2>2. QED BY <2>1, ByteIs
<1>4. ASSUME h \in Header(n)
      PROVE  key[1] = 3 /\ der_len(key) = N /\ k = HeaderLen(key) + 2
  <2>1. \/ h = <<3, n>> /\ n < 128
        \/ h = <<3, 129, n>> /\ n < 256
        \/ h = <<3, 130, n \div 256, n % 256>>
    <3> HIDE DEF h, n
    <3>1. QED BY <1>4 DEF Header
  <2> HIDE DEF h
  <2>2. CASE h = <<3, n>> /\ n < 128
    <3>1. m = 2
      BY <1>2, <2>2
    <3>2. key[1] = 3 /\ key[2] = n
      BY <1>2, <2>2, <3>1
    <3>3. HeaderLen(key) = 2
      BY <2>2, <3>2 DEF HeaderLen
    <3>4. der_len(key) = 2 + n
      BY <1>1, <2>2, <3>2, DerLenIs
    <3>5. QED BY <1>1, <3>1, <3>2, <3>3, <3>4
  <2>3. CASE h = <<3, 129, n>> /\ n < 256
    <3>1. m = 3
      BY <1>2, <2>3
    <3>2. key[1] = 3 /\ key[2] = 129 /\ key[3] = n
      BY <1>2, <2>3, <3>1
    <3>3. HeaderLen(key) = 3
      BY <3>2 DEF HeaderLen
    <3>4. der_len(key) = 3 + n
      BY <1>1, <3>1, <3>2, DerLenIs
    <3>5. QED BY <1>1, <3>1, <3>2, <3>3, <3>4
  <2>4. CASE h = <<3, 130, n \div 256, n % 256>>
    <3>1. m = 4
      BY <1>2, <2>4
    <3>2. key[1] = 3 /\ key[2] = 130 /\ key[3] = n \div 256 /\ key[4] = n % 256
      BY <1>2, <2>4, <3>1
    <3>3. HeaderLen(key) = 4
      BY <3>2 DEF HeaderLen
    <3>4. der_len(key) = 4 + 256 * (n \div 256) + (n % 256)
      BY <1>1, <3>1, <3>2, DerLenIs
    <3> HIDE DEF n
    <3>5. 256 * (n \div 256) + (n % 256) = n
      BY <1>1
    <3>6. n \div 256 \in Nat /\ n % 256 \in Nat
      BY <1>1
    <3>7. QED BY <1>1, <3>1, <3>2, <3>3, <3>4, <3>5, <3>6
  <2>5. QED BY <2>1, <2>2, <2>3, <2>4
<1>5. ASSUME key[1] = 3, der_len(key) = N, k = HeaderLen(key) + 2
      PROVE  h \in Header(n)
  <2>1. key # <<>>
    BY <1>1
  <2>2. /\ key[2] \in Nat
        /\ \/ key[2] < 128 /\ HeaderLen(key) = 2 /\ N = 2 + key[2]
           \/ key[2] = 129 /\ HeaderLen(key) = 3 /\ N = 3 + key[3]
           \/ key[2] = 130 /\ HeaderLen(key) = 4 /\ N = 4 + 256 * key[3] + key[4]
    BY <1>5, <2>1, HeaderLenIs
  <2>3. CASE key[2] < 128 /\ HeaderLen(key) = 2 /\ N = 2 + key[2]
    <3>1. m = 2 /\ n = key[2]
      BY <1>1, <1>5, <2>2, <2>3
    <3> HIDE DEF h, n, m
    <3>2. h = <<3, n>>
      BY <1>2, <1>5, <3>1
    <3>3. QED BY <2>3, <3>1, <3>2 DEF Header
  <2>4. CASE key[2] = 129 /\ HeaderLen(key) = 3 /\ N = 3 + key[3]
    <3>1. m = 3
      BY <1>1, <1>5, <2>4
    <3>2. 3 \in 1 .. N
      BY <1>1, <3>1
    <3>3. key[3] \in Nat /\ key[3] < 256
      BY <1>3, <3>2
    <3>4. n = key[3]
      BY <1>1, <2>4, <3>1, <3>3
    <3> HIDE DEF h, n, m
    <3>5. h = <<3, 129, n>>
      BY <1>2, <1>5, <2>4, <3>1, <3>4
    <3>6. QED BY <3>3, <3>4, <3>5 DEF Header
  <2>5. CASE key[2] = 130 /\ HeaderLen(key) = 4 /\ N = 4 + 256 * key[3] + key[4]
    <3>1. m = 4
      BY <1>1, <1>5, <2>5
    <3>2. 3 \in 1 .. N /\ 4 \in 1 .. N
      BY <1>1, <3>1
    <3> DEFINE x == key[3]
               y == key[4]
    <3>3. x \in Nat /\ y \in Nat /\ y < 256
      BY <1>3, <3>2
    <3>4. n = 256 * x + y
      BY <1>1, <2>5, <3>1, <3>3
    <3> HIDE DEF x, y, h, n, m
    <3>5. n \div 256 = x /\ n % 256 = y
      BY <3>3, <3>4
    <3>6. h = <<3, 130, x, y>>
      BY <1>2, <1>5, <2>5, <3>1 DEF x, y
    <3>7. QED BY <3>5, <3>6 DEF Header
  <2>6. QED BY <2>2, <2>3, <2>4, <2>5
<1>6. QED BY <1>4, <1>5

LEMMA PointExactly ==
  ASSUME NEW key \in Seq(Byte)
  PROVE  LET p == ecc_public_key_point(key)
         IN  /\ p.ok <=> Points(key) # {}
             /\ \A k \in Points(key) : p = Ok(From(key, k))
<1> DEFINE p == ecc_public_key_point(key)
           h == HeaderLen(key) + 2
           point == From(key, h)
           bare == key # <<>> /\ key[1] = 4
           wrapped == /\ key # <<>> /\ key[1] = 3
                      /\ der_len(key) = Len(key)
                      /\ point # <<>> /\ point[1] = 4
<1>1. /\ bare => p = Ok(key)
      /\ wrapped => p = Ok(point)
      /\ ~bare /\ ~wrapped => p = Err
  BY PointEnds
<1>2. Len(key) \in Nat /\ (key # <<>> <=> Len(key) >= 1)
  BY EmptySeq
<1> HIDE DEF p
<1>3. ASSUME NEW k \in Points(key) PROVE p = Ok(From(key, k))
  <2>1. /\ k \in 1 .. Len(key) /\ key[k] = 4
        /\ k = 1 \/ SubSeq(key, 1, k - 2) \in Header(Len(key) - k + 2)
    BY DEF Points
  <2>2. CASE k = 1
    <3>1. bare
      BY <1>2, <2>1, <2>2
    <3>2. From(key, 1) = key
      <4>1. /\ From(key, 0 + 1) \in Seq(Byte)
            /\ Len(From(key, 0 + 1)) = Len(key) - 0
            /\ \A i \in 1 .. Len(key) - 0 : From(key, 0 + 1)[i] = key[0 + i]
        <5>1. 0 \in 0 .. Len(key)
          BY <1>2
        <5>2. QED BY <5>1, RestIs
      <4> DEFINE f == From(key, 1)
      <4>2. /\ f \in Seq(Byte) /\ Len(f) = Len(key)
            /\ \A i \in 1 .. Len(f) : f[i] = key[i]
        BY <1>2, <4>1
      <4> HIDE DEF f
      <4>3. f = key
        BY <4>2, SameBytes
      <4>4. QED BY <4>3 DEF f
    <3>3. QED BY <1>1, <2>2, <3>1, <3>2
  <2>3. CASE k # 1
    <3>1. key[1] = 3 /\ der_len(key) = Len(key) /\ k = h
      BY <2>1, <2>3, HeaderAt
    <3>2. point # <<>> /\ point[1] = 4
      <4>1. k \in Nat /\ k # 0 /\ k <= Len(key)
        BY <1>2, <2>1
      <4>2. From(key, k) # <<>> /\ From(key, k)[1] = key[k]
        BY <4>1, FromIs
      <4>3. QED BY <2>1, <3>1, <4>2
    <3>3. key # <<>>
      BY <1>2, <2>1
    <3>4. QED BY <1>1, <3>1, <3>2, <3>3
  <2>4. QED BY <2>2, <2>3
<1>4. ASSUME p.ok PROVE Points(key) # {}
  <2>1. bare \/ wrapped
    <3>1. p # Err
      BY <1>4 DEF Err
    <3> HIDE DEF bare, wrapped
    <3>2. QED BY <1>1, <3>1
  <2>2. CASE bare
    <3>1. 1 \in 1 .. Len(key)
      BY <1>2, <2>2
    <3>2. 1 \in Points(key)
      BY <2>2, <3>1 DEF Points
    <3>3. QED BY <3>2
  <2>3. CASE wrapped
    <3>1. h \in {4, 5, 6}
      BY <2>3, HeaderLenIs
    <3>2. h \in Nat /\ h # 0 /\ h # 1
      BY <3>1
    <3>3. h <= Len(key) /\ key[h] = 4
      BY <2>3, <3>2, FromIs
    <3>4. h \in 1 .. Len(key)
      BY <1>2, <3>2, <3>3
    <3>5. SubSeq(key, 1, h - 2) \in Header(Len(key) - h + 2)
      BY <2>3, <3>2, <3>4, HeaderAt
    <3>6. h \in Points(key)
      BY <3>3, <3>4, <3>5 DEF Points
    <3>7. QED BY <3>6
  <2>4. QED BY <2>1, <2>2, <2>3
<1>5. ASSUME Points(key) # {} PROVE p.ok
  <2>1. PICK k \in Points(key) : TRUE
    BY <1>5
  <2>2. p = Ok(From(key, k))
    BY <1>3
  <2>3. QED BY <2>2 DEF Ok
<1>6. p.ok \in BOOLEAN
  <2> HIDE DEF bare, wrapped, point
  <2>1. p = Ok(key) \/ p = Ok(point) \/ p = Err
    BY <1>1
  <2>2. CASE p = Err
    BY <2>2 DEF Err
  <2>3. CASE p = Ok(key)
    BY <2>3 DEF Ok
  <2>4. CASE p = Ok(point)
    BY <2>4 DEF Ok
  <2>5. QED BY <2>1, <2>2, <2>3, <2>4
<1>7. QED BY <1>3, <1>4, <1>5, <1>6 DEF p

(* ecc_public_key_point gives a point as it is, takes a wrapper off exactly *)
(* when its length spans the whole key, and takes nothing else.             *)
THEOREM PointsAreFoundExactly == Spec => PointIsExact
<1>1. FormatInv /\ [Next]_vars =>
        [(form \in {"key", "point"}) =>
           /\ form' = "point" <=> Points(bytes) # {}
           /\ \A k \in Points(bytes) : bytes' = From(bytes, k)]_vars
  <2> SUFFICES ASSUME FormatInv, Next, form \in {"key", "point"}
               PROVE  /\ form' = "point" <=> Points(bytes) # {}
                      /\ \A k \in Points(bytes) : bytes' = From(bytes, k)
    OBVIOUS
  <2> DEFINE p == ecc_public_key_point(bytes)
  <2>1. /\ form' = IF p.ok THEN "point" ELSE "error"
        /\ bytes' = IF p.ok THEN p.value ELSE bytes
    BY DEF Next, ToRs, FromRs, ToPoint, Becomes
  <2>2. bytes \in Seq(Byte)
    BY DEF FormatInv
  <2>3. /\ p.ok <=> Points(bytes) # {}
        /\ \A k \in Points(bytes) : p = Ok(From(bytes, k))
    BY <2>2, PointExactly
  <2> HIDE DEF p
  <2>4. ASSUME NEW k \in Points(bytes) PROVE bytes' = From(bytes, k)
    <3>1. p.ok /\ p.value = From(bytes, k)
      BY <2>3 DEF Ok
    <3>2. QED BY <2>1, <3>1
  <2>5. QED BY <2>1, <2>3, <2>4
<1>2. QED BY <1>1, FormatsInvariant, PTL DEF Spec, PointIsExact

=============================================================================
