-------------------------- MODULE TrustmCheckProofs --------------------------
(***************************************************************************)
(* Theorems about the health check, for every certificate the data object  *)
(* may hold and every signature the chip may return.                       *)
(***************************************************************************)
EXTENDS TrustmCheck, FormatHelperProofs

-----------------------------------------------------------------------------
(* The certificate. *)

(* A part of what stands behind h bytes is a part of the whole.             *)
LEMMA Shifted ==
  ASSUME NEW s \in Seq(Byte), NEW t \in Seq(Byte), NEW h \in Nat,
         Len(s) = h + Len(t),
         \A j \in 1 .. Len(t) : t[j] = s[h + j],
         NEW a \in Nat, NEW b \in Nat, 1 <= a, a <= b, b <= Len(t)
  PROVE  SubSeq(t, a, b) = SubSeq(s, h + a, h + b)
<1> DEFINE x == SubSeq(t, a, b)
           y == SubSeq(s, h + a, h + b)
           n == b - a + 1
<1>1. Len(t) \in Nat /\ Len(s) \in Nat
  OBVIOUS
<1>2. /\ x \in Seq(Byte) /\ Len(x) = n
      /\ \A i \in 1 .. n : x[i] = t[a + i - 1]
  <2>1. a \in 1 .. Len(t) + 1 /\ b \in 0 .. Len(t)
    BY <1>1
  <2>2. QED BY <2>1, Part
<1>3. /\ y \in Seq(Byte) /\ Len(y) = n
      /\ \A i \in 1 .. n : y[i] = s[h + a + i - 1]
  <2> DEFINE c == h + a
             d == h + b
  <2>1. c \in 1 .. Len(s) + 1 /\ d \in 0 .. Len(s) /\ c <= d /\ d - c + 1 = n
    BY <1>1
  <2> HIDE DEF c, d, n
  <2>2. /\ SubSeq(s, c, d) \in Seq(Byte)
        /\ Len(SubSeq(s, c, d)) = IF c <= d THEN d - c + 1 ELSE 0
        /\ \A i \in 1 .. d - c + 1 : SubSeq(s, c, d)[i] = s[c + i - 1]
    BY <2>1, Part
  <2>3. QED BY <2>1, <2>2 DEF c, d
<1> HIDE DEF x, y
<1>4. \A i \in 1 .. n : x[i] = y[i]
  <2>1. ASSUME NEW i \in 1 .. n PROVE x[i] = y[i]
    <3>1. a + i - 1 \in 1 .. Len(t) /\ h + (a + i - 1) = h + a + i - 1
      BY <1>1
    <3>2. QED BY <1>2, <1>3, <3>1
  <2>2. QED BY <2>1
<1>5. x = y
  BY <1>2, <1>3, <1>4, SameBytes
<1>6. QED BY <1>5 DEF x, y

(* The bytes from h + 1 on, and where they come from. *)
IsBehind(raw, h, der) ==
  /\ der \in Seq(Byte)
  /\ Len(raw) = h + Len(der)
  /\ \A j \in 1 .. Len(der) : der[j] = raw[h + j]

(* What strip_cert_header leaves is what lies behind a header, or nothing.  *)
LEMMA StripIsBehind ==
  ASSUME NEW raw \in Seq(Byte)
  PROVE  /\ raw # <<>> /\ raw[1] = 48 =>
              strip_cert_header(raw) = Ok(raw) /\ IsBehind(raw, 0, raw)
         /\ raw # <<>> /\ raw[1] = 192 /\ Len(raw) > 9 =>
              /\ strip_cert_header(raw) = Ok(From(raw, 10))
              /\ IsBehind(raw, 9, From(raw, 10))
         /\ (raw # <<>> => raw[1] # 48 /\ (raw[1] # 192 \/ ~ (Len(raw) > 9))) =>
              strip_cert_header(raw) = Err
<1> DEFINE bare == raw # <<>> /\ raw[1] = 48
           wrapped == raw # <<>> /\ raw[1] = 192 /\ Len(raw) > 9
<1>1. strip_cert_header(raw) =
        CASE bare -> Ok(raw) [] wrapped -> Ok(From(raw, 10)) [] OTHER -> Err
  BY DEF strip_cert_header
<1>2. ~ (bare /\ wrapped)
  OBVIOUS
<1>3. IsBehind(raw, 0, raw)
  BY DEF IsBehind
<1>4. wrapped => IsBehind(raw, 9, From(raw, 10))
  <2>1. SUFFICES ASSUME wrapped PROVE IsBehind(raw, 9, From(raw, 10))
    OBVIOUS
  <2>2. 9 \in 0 .. Len(raw)
    BY <2>1
  <2>3. /\ From(raw, 9 + 1) \in Seq(Byte)
        /\ Len(From(raw, 9 + 1)) = Len(raw) - 9
        /\ \A i \in 1 .. Len(raw) - 9 : From(raw, 9 + 1)[i] = raw[9 + i]
    BY <2>2, RestIs
  <2> DEFINE f == From(raw, 10)
  <2>4. /\ f \in Seq(Byte)
        /\ Len(f) = Len(raw) - 9
        /\ \A i \in 1 .. Len(raw) - 9 : f[i] = raw[9 + i]
    BY <2>3
  <2> HIDE DEF f
  <2>5. Len(raw) \in Nat
    OBVIOUS
  <2>6. IsBehind(raw, 9, f)
    BY <2>4, <2>5 DEF IsBehind
  <2>7. QED BY <2>6 DEF f
<1> HIDE DEF bare, wrapped
<1>5. QED BY <1>1, <1>2, <1>3, <1>4 DEF bare, wrapped

(* An accepted certificate is a frame behind h bytes. *)
LEMMA DerIs ==
  ASSUME NEW raw \in Seq(Byte)
  PROVE  /\ \A h \in {0, 9} : Framed(raw, h) =>
              \E der : /\ IsBehind(raw, h, der)
                       /\ KeyIn(raw) = find_p256_spki(der)
         /\ (\A h \in {0, 9} : ~Framed(raw, h)) => KeyIn(raw) = Err
<1>1. Len(raw) \in Nat /\ (raw # <<>> <=> Len(raw) >= 1)
  BY EmptySeq
<1>2. ASSUME Framed(raw, 0)
      PROVE  /\ IsBehind(raw, 0, raw)
             /\ KeyIn(raw) = find_p256_spki(raw)
  <2>1. Len(raw) > 1 /\ raw[1] = 48 /\ SubSeq(raw, 1, 2) = <<48, 130>>
    BY <1>2 DEF Framed
  <2>2. strip_cert_header(raw) = Ok(raw) /\ IsBehind(raw, 0, raw)
    BY <1>1, <2>1, StripIsBehind
  <2>3. QED BY <2>1, <2>2 DEF KeyIn, Ok
<1>3. ASSUME NEW der, IsBehind(raw, 9, der)
      PROVE  /\ Len(der) > 1 <=> Len(raw) > 10
             /\ Len(der) > 1 => SubSeq(der, 1, 2) = SubSeq(raw, 10, 11)
  <2>1. /\ der \in Seq(Byte) /\ Len(der) \in Nat /\ Len(raw) = 9 + Len(der)
        /\ \A j \in 1 .. Len(der) : der[j] = raw[9 + j]
    BY <1>3 DEF IsBehind
  <2>2. Len(der) > 1 => SubSeq(der, 1, 2) = SubSeq(raw, 9 + 1, 9 + 2)
    BY <2>1, Shifted
  <2>3. QED BY <1>1, <2>1, <2>2
<1>4. ASSUME Framed(raw, 9)
      PROVE  /\ IsBehind(raw, 9, From(raw, 10))
             /\ KeyIn(raw) = find_p256_spki(From(raw, 10))
  <2> DEFINE der == From(raw, 10)
  <2>1. Len(raw) > 10 /\ raw[1] = 192 /\ SubSeq(raw, 10, 11) = <<48, 130>>
    BY <1>4 DEF Framed
  <2>2. strip_cert_header(raw) = Ok(der) /\ IsBehind(raw, 9, der)
    BY <1>1, <2>1, StripIsBehind
  <2> HIDE DEF der
  <2>3. Len(der) > 1 /\ SubSeq(der, 1, 2) = <<48, 130>>
    BY <1>3, <2>1, <2>2
  <2>4. KeyIn(raw) = find_p256_spki(der)
    BY <2>2, <2>3 DEF KeyIn, Ok
  <2>5. QED BY <2>2, <2>4 DEF der
<1>5. ASSUME ~Framed(raw, 0), ~Framed(raw, 9)
      PROVE  KeyIn(raw) = Err
  <2>1. CASE raw # <<>> /\ raw[1] = 48
    <3>1. strip_cert_header(raw) = Ok(raw)
      BY <2>1, StripIsBehind
    <3>2. ~ (Len(raw) > 1 /\ SubSeq(raw, 1, 2) = <<48, 130>>)
      BY <1>5, <2>1 DEF Framed
    <3>3. QED BY <3>1, <3>2 DEF KeyIn, Ok
  <2>2. CASE raw # <<>> /\ raw[1] = 192 /\ Len(raw) > 9
    <3> DEFINE der == From(raw, 10)
    <3>1. strip_cert_header(raw) = Ok(der) /\ IsBehind(raw, 9, der)
      BY <2>2, StripIsBehind
    <3> HIDE DEF der
    <3>2. ~ (Len(raw) > 10 /\ SubSeq(raw, 10, 11) = <<48, 130>>)
      BY <1>5, <2>2 DEF Framed
    <3>3. ~ (Len(der) > 1 /\ SubSeq(der, 1, 2) = <<48, 130>>)
      BY <1>3, <3>1, <3>2
    <3>4. QED BY <3>1, <3>3 DEF KeyIn, Ok
  <2>3. CASE raw # <<>> => raw[1] # 48 /\ (raw[1] # 192 \/ ~ (Len(raw) > 9))
    <3>1. strip_cert_header(raw) = Err
      BY <2>3, StripIsBehind
    <3>2. QED BY <3>1 DEF KeyIn, Err
  <2>4. QED BY <2>1, <2>2, <2>3
<1>6. QED BY <1>2, <1>4, <1>5

(* What follows the OID at p yields a key exactly when one is there.        *)
LEMMA PointAfterIs ==
  ASSUME NEW der \in Seq(Byte), NEW p \in Places(der)
  PROVE  PointAfter(From(der, 10 + p)) =
           IF KeyAt(der, p) THEN Ok(SubSeq(der, p + 13, p + 77)) ELSE Err
<1> DEFINE rest == From(der, 10 + p)
           k == p + 9
           N == Len(der)
<1>1. N \in Nat /\ p \in Nat /\ p >= 1 /\ k <= N /\ k \in Nat
      /\ SubSeq(der, p, p + 9) = P256
  BY DEF Places
<1>2. /\ rest \in Seq(Byte) /\ N = k + Len(rest)
      /\ \A i \in 1 .. Len(rest) : rest[i] = der[k + i]
  <2>1. k \in 0 .. Len(der) /\ 10 + p = k + 1
    BY <1>1
  <2> HIDE DEF k
  <2>2. /\ From(der, k + 1) \in Seq(Byte)
        /\ Len(From(der, k + 1)) = Len(der) - k
        /\ \A i \in 1 .. Len(der) - k : From(der, k + 1)[i] = der[k + i]
    BY <2>1, RestIs
  <2>3. From(der, k + 1) = rest
    BY <2>1
  <2> HIDE DEF rest
  <2>4. QED BY <1>1, <2>2, <2>3
<1> DEFINE n == Len(rest)
<1>3. n \in Nat
  BY <1>2
<1> HIDE DEF rest
<1>4. n >= 69 <=> p + 77 < N
  BY <1>1, <1>2, <1>3
<1>5. n >= 69 => /\ SubSeq(rest, 1, 4) = SubSeq(der, p + 10, p + 13)
                 /\ SubSeq(rest, 4, 68) = SubSeq(der, p + 13, p + 77)
  <2>1. SUFFICES ASSUME n >= 69
                 PROVE  /\ SubSeq(rest, 1, 4) = SubSeq(der, p + 10, p + 13)
                        /\ SubSeq(rest, 4, 68) = SubSeq(der, p + 13, p + 77)
    OBVIOUS
  <2>2. k \in Nat /\ 4 <= n /\ 68 <= n
    BY <1>1, <1>3, <2>1
  <2>3. k + 1 = p + 10 /\ k + 4 = p + 13 /\ k + 68 = p + 77
    BY <1>1
  <2> HIDE DEF k
  <2>4. SubSeq(rest, 1, 4) = SubSeq(der, k + 1, k + 4)
    BY <1>2, <2>2, Shifted
  <2>5. SubSeq(rest, 4, 68) = SubSeq(der, k + 4, k + 68)
    BY <1>2, <2>2, Shifted
  <2>6. QED BY <2>3, <2>4, <2>5
<1>6. n < 69 <=> ~ (n >= 69)
  BY <1>3
<1>7. PointAfter(rest) =
        IF n < 69 \/ SubSeq(rest, 1, 4) # <<3, 66, 0, 4>>
        THEN Err
        ELSE Ok(SubSeq(rest, 4, 68))
  BY DEF PointAfter
<1> HIDE DEF n
<1>8. PointAfter(rest) =
        IF KeyAt(der, p) THEN Ok(SubSeq(der, p + 13, p + 77)) ELSE Err
  BY <1>1, <1>4, <1>5, <1>6, <1>7 DEF KeyAt
<1>9. QED BY <1>8 DEF rest

(* find_p256_spki looks behind the first OID, if there is one.              *)
LEMMA SpkiIsFirst ==
  ASSUME NEW der \in Seq(Byte)
  PROVE  /\ Places(der) = {} => find_p256_spki(der) = Err
         /\ Places(der) # {} =>
              \E p \in Places(der) :
                /\ \A j \in Places(der) : p <= j
                /\ find_p256_spki(der) =
                     IF KeyAt(der, p) THEN Ok(SubSeq(der, p + 13, p + 77)) ELSE Err
<1>1. Places(der) = {} => find_p256_spki(der) = Err
  BY DEF find_p256_spki
<1>2. ASSUME Places(der) # {}
      PROVE  \E p \in Places(der) :
               /\ \A j \in Places(der) : p <= j
               /\ find_p256_spki(der) =
                    IF KeyAt(der, p) THEN Ok(SubSeq(der, p + 13, p + 77)) ELSE Err
  <2> DEFINE S == Places(der)
             c == CHOOSE i \in S : \A j \in S : i <= j
  <2>1. S \in SUBSET Nat
    BY DEF Places
  <2>2. \E i \in S : \A j \in S : i <= j
    BY <1>2, <2>1, Least
  <2>3. c \in S /\ \A j \in S : c <= j
    BY <2>2
  <2>4. find_p256_spki(der) = PointAfter(From(der, 10 + c))
    BY <1>2 DEF find_p256_spki
  <2> HIDE DEF c
  <2>5. find_p256_spki(der) =
          IF KeyAt(der, c) THEN Ok(SubSeq(der, c + 13, c + 77)) ELSE Err
    BY <2>3, <2>4, PointAfterIs
  <2>6. QED BY <2>3, <2>5
<1>3. QED BY <1>1, <1>2

(* A place in the certificate, and in the object it lies in. *)
OidAt(raw, i) == SubSeq(raw, i, i + 9)
KeyFrom(raw, i) == SubSeq(raw, i + 13, i + 77)

(* A place behind the header is one in the certificate.                     *)
LEMMA SamePlace ==
  ASSUME NEW raw \in Seq(Byte), NEW h \in Nat, NEW der, IsBehind(raw, h, der),
         NEW p \in Nat, p >= 1
  PROVE  /\ p + 9 <= Len(der) => OidAt(der, p) = OidAt(raw, h + p)
         /\ KeyAt(der, p) <=> KeyAt(raw, h + p)
         /\ KeyAt(der, p) => KeyFrom(der, p) = KeyFrom(raw, h + p)
<1>1. /\ der \in Seq(Byte) /\ Len(der) \in Nat /\ Len(raw) = h + Len(der)
      /\ \A j \in 1 .. Len(der) : der[j] = raw[h + j]
  BY DEF IsBehind
<1>2. ASSUME NEW a \in Nat, NEW b \in Nat, 1 <= a, a <= b, b <= Len(der)
      PROVE  SubSeq(der, a, b) = SubSeq(raw, h + a, h + b)
  BY ONLY <1>1, <1>2, Shifted, raw \in Seq(Byte), h \in Nat
<1>3. ASSUME p + 9 <= Len(der)
      PROVE  SubSeq(der, p, p + 9) = SubSeq(raw, h + p, h + p + 9)
  <2> DEFINE a == p
             b == p + 9
             c == h + p
             d == h + p + 9
  <2>1. /\ a \in Nat /\ b \in Nat /\ 1 <= a /\ a <= b /\ b <= Len(der)
        /\ h + a = c /\ h + b = d
    BY <1>1, <1>3
  <2> HIDE DEF a, b, c, d
  <2>2. SubSeq(der, a, b) = SubSeq(raw, c, d)
    BY <1>2, <2>1
  <2>3. QED BY <2>2 DEF a, b, c, d
<1>4. ASSUME p + 77 < Len(der)
      PROVE  SubSeq(der, p + 10, p + 13) = SubSeq(raw, h + p + 10, h + p + 13)
  <2> DEFINE a == p + 10
             b == p + 13
             c == h + p + 10
             d == h + p + 13
  <2>1. /\ a \in Nat /\ b \in Nat /\ 1 <= a /\ a <= b /\ b <= Len(der)
        /\ h + a = c /\ h + b = d
    BY <1>1, <1>4
  <2> HIDE DEF a, b, c, d
  <2>2. SubSeq(der, a, b) = SubSeq(raw, c, d)
    BY <1>2, <2>1
  <2>3. QED BY <2>2 DEF a, b, c, d
<1>5. ASSUME p + 77 < Len(der)
      PROVE  SubSeq(der, p + 13, p + 77) = SubSeq(raw, h + p + 13, h + p + 77)
  <2> DEFINE a == p + 13
             b == p + 77
             c == h + p + 13
             d == h + p + 77
  <2>1. /\ a \in Nat /\ b \in Nat /\ 1 <= a /\ a <= b /\ b <= Len(der)
        /\ h + a = c /\ h + b = d
    BY <1>1, <1>5
  <2> HIDE DEF a, b, c, d
  <2>2. SubSeq(der, a, b) = SubSeq(raw, c, d)
    BY <1>2, <2>1
  <2>3. QED BY <2>2 DEF a, b, c, d
<1>6. p + 77 < Len(der) <=> h + p + 77 < Len(raw)
  BY <1>1
<1>7. p + 77 < Len(der) => p + 9 <= Len(der)
  BY <1>1
<1>8. KeyAt(der, p) <=> KeyAt(raw, h + p)
  BY <1>3, <1>4, <1>6, <1>7 DEF KeyAt
<1>9. QED BY <1>3, <1>5, <1>8 DEF KeyAt, OidAt, KeyFrom

(* The key of a certificate that certifies point. *)
LEMMA KeyOfCertificate ==
  ASSUME NEW raw \in Seq(Byte), NEW point, Certifies(raw, point)
  PROVE  KeyIn(raw) = Ok(point) /\ point \in Seq(Byte) /\ Len(point) = 65 /\ point[1] = 4
<1>1. PICK h \in {0, 9}, i \in 1 .. Len(raw) :
        /\ Framed(raw, h)
        /\ h < i
        /\ KeyAt(raw, i)
        /\ \A j \in h + 1 .. i - 1 : SubSeq(raw, j, j + 9) # P256
        /\ point = SubSeq(raw, i + 13, i + 77)
  BY DEF Certifies
<1>2. PICK der : IsBehind(raw, h, der) /\ KeyIn(raw) = find_p256_spki(der)
  BY <1>1, DerIs
<1>3. /\ der \in Seq(Byte) /\ Len(der) \in Nat /\ Len(raw) = h + Len(der)
      /\ h \in Nat /\ i \in Nat /\ Len(raw) \in Nat
  BY <1>2 DEF IsBehind
<1> DEFINE p == i - h
<1>4. p \in Nat /\ p >= 1 /\ h + p = i
  BY <1>1, <1>3
<1> HIDE DEF p
<1>5. /\ KeyAt(der, p)
      /\ SubSeq(der, p + 13, p + 77) = point
  <2>1. /\ KeyAt(der, p) <=> KeyAt(raw, h + p)
        /\ KeyAt(der, p) => KeyFrom(der, p) = KeyFrom(raw, h + p)
    BY <1>2, <1>3, <1>4, SamePlace
  <2>2. KeyAt(der, p) /\ KeyFrom(raw, h + p) = point
    BY <1>1, <1>4, <2>1 DEF KeyFrom
  <2>3. QED BY <2>1, <2>2 DEF KeyFrom
<1>6. p \in Places(der)
  <2>1. p + 77 < Len(der) /\ SubSeq(der, p, p + 9) = P256
    BY <1>5 DEF KeyAt
  <2>2. p \in 1 .. Len(der) - 9
    BY <1>3, <1>4, <2>1
  <2>3. QED BY <2>1, <2>2 DEF Places
<1>7. PICK q \in Places(der) :
        /\ \A j \in Places(der) : q <= j
        /\ find_p256_spki(der) =
             IF KeyAt(der, q) THEN Ok(SubSeq(der, q + 13, q + 77)) ELSE Err
  BY <1>3, <1>6, SpkiIsFirst
<1>8. q = p
  <2>1. q \in Nat /\ q >= 1 /\ q + 9 <= Len(der) /\ SubSeq(der, q, q + 9) = P256
    BY <1>3, <1>7 DEF Places
  <2>2. SubSeq(raw, h + q, h + q + 9) = P256
    <3>1. OidAt(der, q) = OidAt(raw, h + q)
      BY <1>2, <1>3, <2>1, SamePlace
    <3>2. QED BY <2>1, <3>1 DEF OidAt
  <2>3. q <= p
    BY <1>6, <1>7
  <2>4. ASSUME q < p PROVE FALSE
    <3>1. h + q \in h + 1 .. i - 1
      BY <1>3, <1>4, <2>1, <2>4
    <3>2. SubSeq(raw, h + q, h + q + 9) # P256
      BY <1>1, <3>1
    <3>3. QED BY <2>2, <3>2
  <2>5. QED BY <1>4, <2>1, <2>3, <2>4
<1>9. KeyIn(raw) = Ok(point)
  BY <1>2, <1>5, <1>7, <1>8
<1>10. point \in Seq(Byte) /\ Len(point) = 65 /\ point[1] = 4
  <2> DEFINE a == i + 13
             b == i + 77
             k == SubSeq(raw, i + 10, i + 13)
  <2>1. b < Len(raw) /\ k = <<3, 66, 0, 4>>
    BY <1>1 DEF KeyAt
  <2>2. a \in 1 .. Len(raw) + 1 /\ b \in 0 .. Len(raw) /\ a <= b /\ b - a + 1 = 65
    BY <1>3, <2>1
  <2> HIDE DEF a, b
  <2>3. /\ SubSeq(raw, a, b) \in Seq(Byte)
        /\ Len(SubSeq(raw, a, b)) = IF a <= b THEN b - a + 1 ELSE 0
        /\ \A j \in 1 .. b - a + 1 : SubSeq(raw, a, b)[j] = raw[a + j - 1]
    BY <2>2, Part
  <2>4. point = SubSeq(raw, a, b)
    BY <1>1 DEF a, b
  <2>5. 1 \in 1 .. b - a + 1 /\ a + 1 - 1 = i + 13
    BY <1>3, <2>2 DEF a
  <2>6. point \in Seq(Byte) /\ Len(point) = 65 /\ point[1] = raw[i + 13]
    BY <2>2, <2>3, <2>4, <2>5
  <2>7. raw[i + 13] = 4
    <3> DEFINE c == i + 10
               d == i + 13
    <3>1. c \in 1 .. Len(raw) + 1 /\ d \in 0 .. Len(raw) /\ 4 \in 1 .. d - c + 1
          /\ c + 4 - 1 = i + 13
      BY <1>3, <2>1 DEF b
    <3>2. k = SubSeq(raw, c, d)
      OBVIOUS
    <3> HIDE DEF c, d, k
    <3>3. k[4] = raw[c + 4 - 1]
      BY <3>1, <3>2, Part
    <3>4. QED BY <2>1, <3>1, <3>3
  <2>8. QED BY <2>6, <2>7
<1>11. QED BY <1>9, <1>10

(* Without a key in a frame there is none. *)
LEMMA NoKeyElsewhere ==
  ASSUME NEW raw \in Seq(Byte),
         \A h \in {0, 9}, i \in 1 .. Len(raw) :
           Framed(raw, h) /\ h < i => ~KeyAt(raw, i)
  PROVE  KeyIn(raw) = Err
<1>1. CASE \A h \in {0, 9} : ~Framed(raw, h)
  BY <1>1, DerIs
<1>2. CASE \E h \in {0, 9} : Framed(raw, h)
  <2>1. PICK h \in {0, 9} : Framed(raw, h)
    BY <1>2
  <2>2. PICK der : IsBehind(raw, h, der) /\ KeyIn(raw) = find_p256_spki(der)
    BY <2>1, DerIs
  <2>3. /\ der \in Seq(Byte) /\ Len(der) \in Nat /\ Len(raw) = h + Len(der)
        /\ h \in Nat
    BY <2>2 DEF IsBehind
  <2>4. CASE Places(der) = {}
    BY <2>2, <2>3, <2>4, SpkiIsFirst
  <2>5. CASE Places(der) # {}
    <3>1. PICK q \in Places(der) :
            find_p256_spki(der) =
              IF KeyAt(der, q) THEN Ok(SubSeq(der, q + 13, q + 77)) ELSE Err
      BY <2>3, <2>5, SpkiIsFirst
    <3>2. q \in Nat /\ q >= 1 /\ q + 9 <= Len(der)
      BY <2>3 DEF Places
    <3>3. h + q \in 1 .. Len(raw) /\ h < h + q
      BY <2>3, <3>2
    <3>4. ~KeyAt(raw, h + q)
      BY <2>1, <3>3
    <3>5. ~KeyAt(der, q)
      BY <2>2, <2>3, <3>2, <3>4, SamePlace
    <3>6. QED BY <2>2, <3>1, <3>5
  <2>6. QED BY <2>4, <2>5
<1>3. QED BY <1>1, <1>2

-----------------------------------------------------------------------------
(* Where main is when it runs a check. *)

LEMMA ProgramIs ==
  /\ Len(Program) = 19
  /\ DOMAIN Program = 1 .. 19
  /\ \A i \in 1 .. 19 :
       /\ Program[i] = "open" <=> i = 1
       /\ Program[i] = "certificate" <=> i = 12
       /\ Program[i] = "draw" <=> i = 13
       /\ Program[i] = "sign" <=> i = 16
       /\ Program[i] = "verify" <=> i = 17
       /\ Program[i] = "tampered" <=> i = 18
       /\ Program[i] = "close" <=> i = 19
BY DEF Program

LEMMA Where ==
  ASSUME NEW c, Running(c)
  PROVE  /\ at \in Nat /\ 1 <= at /\ at <= 19
         /\ exit = "none"
         /\ c = "open" <=> at = 1
         /\ c = "certificate" <=> at = 12
         /\ c = "draw" <=> at = 13
         /\ c = "sign" <=> at = 16
         /\ c = "verify" <=> at = 17
         /\ c = "tampered" <=> at = 18
         /\ c = "close" <=> at = 19
<1>1. exit = "none" /\ at \in 1 .. 19 /\ c = Program[at]
  BY ProgramIs DEF Running
<1>2. QED BY <1>1, ProgramIs

-----------------------------------------------------------------------------
(* What keeps the tally honest. *)

CheckTypeOK ==
  /\ at \in Nat /\ at <= 20
  /\ passed \in Nat /\ failed \in Nat /\ skipped \in Nat

(* While nothing has failed, every check made so far has passed, on a reply *)
(* of its own; the two random draws are one check.                          *)
Tallied ==
  failed = 0 =>
    /\ skipped = 0
    /\ ~doubted
    /\ at >= 1 => passed = IF at <= 13 THEN at - 1 ELSE at - 2

(* A command given up is a check that has failed, until the last two.       *)
Distrusted == late => failed > 0 \/ at > 18

(* So is a key or a signature that is not there.                            *)
Missing ==
  failed = 0 =>
    /\ at > 12 => factory_pub # <<>>
    /\ at > 16 => signature # <<>>

(* The key is the certified one from the first.                             *)
KeyKept ==
  /\ factory_pub = certified
  /\ at <= 12 => factory_pub = <<>>
  /\ factory_pub # <<>> =>
       factory_pub \in Seq(Byte) /\ Len(factory_pub) = 65 /\ factory_pub[1] = 4

Exits ==
  /\ exit = "none" => at # 0
  /\ exit = "0" => at = 0 \/ failed = 0

CheckInv ==
  CheckTypeOK /\ Tallied /\ Distrusted /\ Missing /\ KeyKept /\ Exits

LEMMA CheckStart == CheckInit => CheckInv
<1> SUFFICES ASSUME CheckInit PROVE CheckInv
  OBVIOUS
<1>1. /\ at = 1 /\ passed = 0 /\ failed = 0 /\ skipped = 0
      /\ factory_pub = <<>> /\ certified = <<>> /\ signature = <<>>
      /\ exit = "none" /\ doubted = FALSE /\ late = FALSE
  BY DEF CheckInit, Init
<1>2. QED
  BY <1>1 DEF CheckInv, CheckTypeOK, Tallied, Distrusted, Missing, KeyKept, Exits

(* What a certificate and its absence yield. *)
LEMMA CertificateYields ==
  ASSUME NEW v,
         v \in Certificates \/ v = Blank
  PROVE  /\ KeyIn(v.raw) = IF v.point = <<>> THEN Err ELSE Ok(v.point)
         /\ v.point # <<>> =>
              v.point \in Seq(Byte) /\ Len(v.point) = 65 /\ v.point[1] = 4
<1>1. CASE v \in Certificates
  <2>1. /\ v.raw \in Seq(Byte)
        /\ IF v.point # <<>>
           THEN Certifies(v.raw, v.point)
           ELSE \A h \in {0, 9}, i \in 1 .. Len(v.raw) :
                  Framed(v.raw, h) /\ h < i => ~KeyAt(v.raw, i)
    BY <1>1, CertificatesAssumption
  <2>2. CASE v.point # <<>>
    <3>1. Certifies(v.raw, v.point)
      BY <2>1, <2>2
    <3>2. QED BY <2>1, <2>2, <3>1, KeyOfCertificate
  <2>3. CASE v.point = <<>>
    <3>1. \A h \in {0, 9}, i \in 1 .. Len(v.raw) :
            Framed(v.raw, h) /\ h < i => ~KeyAt(v.raw, i)
      BY <2>1, <2>3
    <3>2. KeyIn(v.raw) = Err
      BY <2>1, <3>1, NoKeyElsewhere
    <3>3. QED BY <2>3, <3>2
  <2>4. QED BY <2>2, <2>3
<1>2. CASE v = Blank
  <2> DEFINE n == 2048
             z == Zeros(n)
  <2>1. v.raw = z /\ v.point = <<>>
    BY <1>2 DEF Blank
  <2>2. z \in Seq(Byte) /\ z # <<>> /\ z[1] = 0
    <3>1. n \in Nat /\ n >= 1
      OBVIOUS
    <3> HIDE DEF n
    <3>2. 1 \in 1 .. n
      BY <3>1
    <3>3. z \in Seq(Byte) /\ Len(z) = n /\ z[1] = 0
      BY <3>1, <3>2, ZerosAre
    <3>4. Len(z) # 0
      BY <3>1, <3>3
    <3>5. QED BY <3>3, <3>4
  <2> HIDE DEF z
  <2>3. strip_cert_header(z) = Err
    BY <2>2, StripIsBehind
  <2>4. KeyIn(z) = Err
    BY <2>3 DEF KeyIn, Err
  <2>5. QED BY <2>1, <2>4
<1>3. QED BY <1>1, <1>2

(* The bytes of no signature at all are none. *)
LEMMA NoSignature == ~ ecdsa_signature_to_rs(<<>>, 32).ok
<1> DEFINE u == der_uint_into(<<>>, 32)
<1>1. u.ok = FALSE
  <2>1. <<>> \in Seq(Byte) /\ Len(<<>>) = 0
    OBVIOUS
  <2>2. ~StartsInteger(<<>>, 32)
    BY <2>1 DEF StartsInteger
  <2>3. (u.ok <=> StartsInteger(<<>>, 32)) /\ u.ok \in BOOLEAN
    BY <2>1, UintReads
  <2> HIDE DEF u
  <2>4. QED BY <2>2, <2>3
<1> HIDE DEF u
<1>2. QED BY <1>1 DEF ecdsa_signature_to_rs, Err, u

-----------------------------------------------------------------------------
(* The end of a call. *)

(* Settle, told apart by where main is and by how the check went.           *)
LEMMA SettleIs ==
  ASSUME NEW c, NEW r, NEW v, NEW how, Settle(c, r, v, how)
  PROVE  \E ok \in BOOLEAN :
           /\ ok <=> IF c = "tampered" THEN r = "Err" ELSE r = "Ok" /\ Holds(c, v)
           /\ c = "draw" /\ ok => UNCHANGED report
           /\ ~ (c = "draw" /\ ok) => Count(ok)
           /\ c = "draw" /\ ~ok => at' = at + 2
           /\ c = "open" /\ ~ok => at' = 20
           /\ ok \/ c \notin {"draw", "open"} => at' = at + 1
           /\ factory_pub' = IF c = "certificate" /\ ok THEN KeyIn(v.raw).value
                                                        ELSE factory_pub
           /\ certified' = IF c = "certificate" /\ r = "Ok" THEN v.point ELSE certified
           /\ signature' = IF c = "sign" /\ ok THEN v ELSE signature
           /\ doubted' = (doubted \/ (ok /\ c \notin {"tampered", "close"} /\ how # "chip"))
           /\ exit' = exit
<1> DEFINE hit == IF c = "tampered" THEN r = "Err" ELSE r = "Ok" /\ Holds(c, v)
           ok == hit = TRUE
<1>1. /\ ReportOf(c, hit)
      /\ at' = CASE c = "draw" /\ ~hit -> at + 2
                 [] c = "open" /\ ~hit -> Len(Program) + 1
                 [] OTHER              -> at + 1
      /\ factory_pub' = IF c = "certificate" /\ hit THEN KeyIn(v.raw).value
                                                    ELSE factory_pub
      /\ certified' = IF c = "certificate" /\ r = "Ok" THEN v.point ELSE certified
      /\ signature' = IF c = "sign" /\ hit THEN v ELSE signature
      /\ doubted' = (doubted \/ (hit /\ c \notin {"tampered", "close"} /\ how # "chip"))
      /\ UNCHANGED exit
  BY DEF Settle
<1>2. Len(Program) + 1 = 20
  BY ProgramIs
<1>3. hit \in BOOLEAN
  OBVIOUS
<1> HIDE DEF hit
<1>4. ReportOf(c, hit) = IF c = "draw" /\ hit THEN UNCHANGED report ELSE Count(hit)
  BY DEF ReportOf
<1>5. QED BY <1>1, <1>2, <1>3, <1>4 DEF hit

(* What the closures of the two checks with a result demand. *)
LEMMA HoldsIs ==
  ASSUME NEW v
  PROVE  /\ Holds("certificate", v) <=> KeyIn(v.raw).ok
         /\ Holds("sign", v) <=> ecdsa_signature_to_rs(v, 32).ok
<1>1. Holds("certificate", v) <=> CertificateHolds(v.raw)
  BY DEF Holds
<1>2. Holds("sign", v) <=> ecdsa_signature_to_rs(v, 32).ok
  BY DEF Holds
<1>3. QED BY <1>1, <1>2 DEF CertificateHolds

(* A call that ends keeps the invariant.  Its reply is the chip's own       *)
(* unless a command was given up before, and a command given up is an error.*)
LEMMA SettleKeeps ==
  ASSUME CheckInv,
         NEW c, Running(c),
         NEW r \in {"Ok", "Err"}, NEW v, NEW how,
         Settle(c, r, v, how),
         c = "certificate" /\ r = "Ok" =>
           v \in Certificates \/ v = Blank,
         r = "Ok" /\ how # "chip" => late,
         late' => late \/ r = "Err"
  PROVE  CheckInv'
<1>1. /\ at \in Nat /\ 1 <= at /\ at <= 19 /\ exit = "none"
      /\ c = "open" <=> at = 1
      /\ c = "certificate" <=> at = 12
      /\ c = "draw" <=> at = 13
      /\ c = "sign" <=> at = 16
      /\ c = "tampered" <=> at = 18
      /\ c = "close" <=> at = 19
  BY Where
<1>2. PICK ok \in BOOLEAN :
        /\ ok <=> IF c = "tampered" THEN r = "Err" ELSE r = "Ok" /\ Holds(c, v)
        /\ c = "draw" /\ ok => UNCHANGED report
        /\ ~ (c = "draw" /\ ok) => Count(ok)
        /\ c = "draw" /\ ~ok => at' = at + 2
        /\ c = "open" /\ ~ok => at' = 20
        /\ ok \/ c \notin {"draw", "open"} => at' = at + 1
        /\ factory_pub' = IF c = "certificate" /\ ok THEN KeyIn(v.raw).value
                                                     ELSE factory_pub
        /\ certified' = IF c = "certificate" /\ r = "Ok" THEN v.point ELSE certified
        /\ signature' = IF c = "sign" /\ ok THEN v ELSE signature
        /\ doubted' = (doubted \/ (ok /\ c \notin {"tampered", "close"} /\ how # "chip"))
        /\ exit' = exit
  BY SettleIs
<1>3. /\ passed \in Nat /\ failed \in Nat /\ skipped \in Nat
  BY DEF CheckInv, CheckTypeOK
<1>4. /\ skipped' = skipped
      /\ ~ok => passed' = passed /\ failed' = failed + 1
      /\ ok /\ c = "draw" => passed' = passed /\ failed' = failed
      /\ ok /\ c # "draw" => passed' = passed + 1 /\ failed' = failed
  BY <1>2 DEF Count, report
<1>5. /\ at' \in Nat /\ at' <= 20 /\ at' >= 2
      /\ ok => at' = at + 1
      /\ at # 1 /\ at # 13 => at' = at + 1
      /\ at' > 12 => at >= 12 \/ ~ok
      /\ at' <= 12 => at < 12
  BY <1>1, <1>2
<1>6. passed' \in Nat /\ failed' \in Nat /\ skipped' \in Nat
      /\ (failed' = 0 => ok /\ failed = 0)
  BY <1>2, <1>3, <1>4
<1>7. CheckTypeOK'
  BY <1>5, <1>6 DEF CheckTypeOK
<1>8. Tallied'
  <2>1. SUFFICES ASSUME failed' = 0
                 PROVE  /\ skipped' = 0
                        /\ ~doubted'
                        /\ at' >= 1 => passed' = IF at' <= 13 THEN at' - 1 ELSE at' - 2
    BY DEF Tallied
  <2>2. ok /\ failed = 0 /\ at' = at + 1
    BY <1>5, <1>6, <2>1
  <2>3. skipped = 0 /\ ~doubted /\ passed = IF at <= 13 THEN at - 1 ELSE at - 2
    BY <1>1, <2>2 DEF CheckInv, Tallied
  <2>4. ~doubted'
    <3>1. ASSUME c \notin {"tampered", "close"}, how # "chip" PROVE FALSE
      <4>1. r = "Ok"
        BY <1>2, <2>2, <3>1
      <4>2. at > 18
        BY <2>2, <3>1, <4>1 DEF CheckInv, Distrusted
      <4>3. QED BY <1>1, <3>1, <4>2
    <3>2. ~ (ok /\ c \notin {"tampered", "close"} /\ how # "chip")
      BY <3>1
    <3>3. doubted' = (doubted \/ (ok /\ c \notin {"tampered", "close"} /\ how # "chip"))
      BY <1>2
    <3>4. QED BY ONLY <2>3, <3>2, <3>3, Zenon
  <2>5. passed' = IF at' <= 13 THEN at' - 1 ELSE at' - 2
    <3>1. CASE c = "draw"
      BY <1>1, <1>4, <2>2, <2>3, <3>1
    <3>2. CASE c # "draw"
      BY <1>1, <1>4, <2>2, <2>3, <3>2
    <3>3. QED BY <3>1, <3>2
  <2>6. QED BY <1>4, <2>3, <2>4, <2>5
<1>9. Distrusted'
  <2>1. SUFFICES ASSUME late', ~ (failed' > 0) PROVE at' > 18
    BY DEF Distrusted
  <2>2. ok /\ failed = 0 /\ at' = at + 1
    BY <1>5, <1>6, <2>1
  <2>3. CASE late
    <3>1. at > 18
      BY <2>2, <2>3 DEF CheckInv, Distrusted
    <3>2. QED BY <1>1, <2>2, <3>1
  <2>4. CASE r = "Err"
    <3>1. c = "tampered"
      BY <1>2, <2>2, <2>4
    <3>2. QED BY <1>1, <2>2, <3>1
  <2>5. QED BY <2>1, <2>3, <2>4
<1>10. c = "certificate" /\ ok => factory_pub' = certified' /\ factory_pub' # <<>>
        /\ factory_pub' \in Seq(Byte) /\ Len(factory_pub') = 65 /\ factory_pub'[1] = 4
  <2>1. SUFFICES ASSUME c = "certificate", ok
                 PROVE  /\ factory_pub' = certified' /\ factory_pub' # <<>>
                        /\ factory_pub' \in Seq(Byte) /\ Len(factory_pub') = 65
                        /\ factory_pub'[1] = 4
    OBVIOUS
  <2>2. r = "Ok" /\ Holds("certificate", v)
    BY <1>2, <2>1
  <2> DEFINE k == KeyIn(v.raw)
             q == v.point
  <2>3. k.ok
    BY ONLY <2>2, HoldsIs, Zenon
  <2>4. /\ k = IF q = <<>> THEN Err ELSE Ok(q)
        /\ q # <<>> => q \in Seq(Byte) /\ Len(q) = 65 /\ q[1] = 4
    BY <2>1, <2>2, CertificateYields
  <2>5. factory_pub' = k.value /\ certified' = q
    BY <1>2, <2>1, <2>2
  <2> HIDE DEF k, q
  <2>6. q # <<>> /\ k = Ok(q)
    BY <2>3, <2>4 DEF Err
  <2>7. k.value = q
    BY <2>6 DEF Ok
  <2>8. QED BY <2>4, <2>5, <2>6, <2>7
<1>11. c = "certificate" /\ ~ok => certified' = <<>> /\ factory_pub' = <<>>
  <2>1. SUFFICES ASSUME c = "certificate", ~ok
                 PROVE  certified' = <<>> /\ factory_pub' = <<>>
    OBVIOUS
  <2>2. factory_pub = <<>> /\ certified = <<>> /\ factory_pub' = factory_pub
    BY <1>1, <1>2, <2>1 DEF CheckInv, KeyKept
  <2>3. CASE r = "Err"
    BY <1>2, <2>1, <2>2, <2>3
  <2>4. CASE r = "Ok"
    <3> DEFINE k == KeyIn(v.raw)
               q == v.point
    <3>1. ~k.ok
      <4>1. ~ Holds("certificate", v)
        BY <1>2, <2>1, <2>4
      <4>2. QED BY ONLY <4>1, HoldsIs, Zenon
    <3>2. k = IF q = <<>> THEN Err ELSE Ok(q)
      BY <2>1, <2>4, CertificateYields
    <3>3. certified' = q
      BY <1>2, <2>1, <2>4
    <3> HIDE DEF k, q
    <3>4. q = <<>>
      BY <3>1, <3>2 DEF Ok
    <3>5. QED BY <2>2, <3>3, <3>4
  <2>5. QED BY <2>3, <2>4
<1>12. c # "certificate" => certified' = certified /\ factory_pub' = factory_pub
  BY <1>2
<1>13. KeyKept'
  <2>1. CASE c = "certificate"
    <3>1. ~ (at' <= 12)
      BY <1>1, <1>5, <2>1
    <3>2. QED BY <1>10, <1>11, <2>1, <3>1 DEF KeyKept
  <2>2. CASE c # "certificate"
    <3>1. at' <= 12 => at <= 12
      BY <1>1, <1>5
    <3>2. QED BY <1>12, <2>2, <3>1 DEF KeyKept, CheckInv
  <2>3. QED BY <2>1, <2>2
<1>14. Missing'
  <2>1. SUFFICES ASSUME failed' = 0
                 PROVE  /\ at' > 12 => factory_pub' # <<>>
                        /\ at' > 16 => signature' # <<>>
    BY DEF Missing
  <2>2. ok /\ failed = 0 /\ at' = at + 1
    BY <1>5, <1>6, <2>1
  <2>3. (at > 12 => factory_pub # <<>>) /\ (at > 16 => signature # <<>>)
    BY <2>2 DEF CheckInv, Missing
  <2>4. at' > 12 => factory_pub' # <<>>
    <3>1. CASE c = "certificate"
      BY <1>10, <2>2, <3>1
    <3>2. CASE c # "certificate"
      BY <1>1, <1>12, <2>2, <2>3, <3>2
    <3>3. QED BY <3>1, <3>2
  <2>5. at' > 16 => signature' # <<>>
    <3>1. CASE c = "sign"
      <4>1. signature' = v /\ Holds("sign", v)
        BY <1>2, <2>2, <3>1
      <4>2. v # <<>>
        <5>1. ecdsa_signature_to_rs(v, 32).ok
          BY ONLY <4>1, HoldsIs, Zenon
        <5>2. QED BY ONLY <5>1, NoSignature, Zenon
      <4>3. QED BY <4>1, <4>2
    <3>2. CASE c # "sign"
      <4>1. signature' = signature
        BY <1>2, <3>2
      <4>2. at' > 16 => at > 16
        BY <1>1, <2>2, <3>2
      <4>3. QED BY <2>3, <4>1, <4>2
    <3>3. QED BY <3>1, <3>2
  <2>6. QED BY <2>4, <2>5
<1>15. Exits'
  <2>1. exit' = "none" /\ at' # 0
    BY <1>1, <1>2, <1>5
  <2>2. QED BY <2>1 DEF Exits
<1>16. QED BY <1>7, <1>8, <1>9, <1>13, <1>14, <1>15 DEF CheckInv

-----------------------------------------------------------------------------
(* The invariant is inductive. *)

HandleOK == result \in [Clients -> Results]

LEMMA HandleStep == HandleOK /\ [CheckNext]_checkvars => HandleOK'
<1> SUFFICES ASSUME HandleOK, [CheckNext]_checkvars PROVE HandleOK'
  OBVIOUS
<1> USE OneProcess DEF HandleOK, Results
<1>1. CASE UNCHANGED result
  BY <1>1
<1>2. CASE Enter(Me)
  BY <1>2 DEF Enter
<1>3. CASE Call(Me)
  BY <1>3 DEF Call
<1>4. CASE Fail(Me)
  BY <1>4 DEF Fail
<1>5. CASE Return(Me)
  BY <1>5 DEF Return
<1>6. CASE GiveUp(Me)
  BY <1>6 DEF GiveUp
<1>7. \/ Enter(Me) \/ Call(Me) \/ Fail(Me) \/ Return(Me) \/ GiveUp(Me)
      \/ UNCHANGED result
  BY DEF CheckNext, Usage, Begin, CallFails, Starts, CallReturns, CallTimesOut,
         ChipAnswers, Skip, Drop, Finish, Start, Answer, Leave, End, checkvars,
         vars
<1>8. QED BY <1>1, <1>2, <1>3, <1>4, <1>5, <1>6, <1>7

LEMMA UnwrittenCertificate == Unwritten("certificate") = Blank
  BY DEF Unwritten

(* What is so unless main itself moves. *)
LEMMA Elsewhere ==
  ASSUME CheckInv, UNCHANGED main, late' = late
  PROVE  CheckInv'
BY DEF CheckInv, CheckTypeOK, Tallied, Distrusted, Missing, KeyKept, Exits,
       main, report, history

(* A call that ends in an error, a timeout included. *)
LEMMA ErrorKeeps ==
  ASSUME CheckInv, NEW c, Running(c), Settle(c, "Err", "", "none")
  PROVE  CheckInv'
<1> DEFINE r == "Err"
           v == ""
           how == "none"
<1>1. Settle(c, r, v, how) /\ r = "Err" /\ r \in {"Ok", "Err"} /\ r # "Ok"
  OBVIOUS
<1> HIDE DEF r, v, how
<1>2. c = "certificate" /\ r = "Ok" => v \in Certificates \/ v = Blank
  BY <1>1
<1>3. r = "Ok" /\ how # "chip" => late
  BY <1>1
<1>4. late' => late \/ r = "Err"
  BY <1>1
<1>5. QED BY <1>1, <1>2, <1>3, <1>4, SettleKeeps

LEMMA CheckStep == HandleOK /\ CheckInv /\ [CheckNext]_checkvars => CheckInv'
<1> SUFFICES ASSUME HandleOK, CheckInv, [CheckNext]_checkvars PROVE CheckInv'
  OBVIOUS
<1>1. CASE Usage
  <2>1. /\ at = 1 /\ at' = 0 /\ exit' \in {"0", "2"} /\ late' = late
        /\ UNCHANGED <<factory_pub, signature, passed, failed, skipped,
                       doubted, certified>>
    BY <1>1 DEF Usage, vars, report, history
  <2>2. QED
    BY <2>1 DEF CheckInv, CheckTypeOK, Tallied, Distrusted, Missing, KeyKept, Exits
<1>2. CASE Skip
  <2>1. /\ Running("verify") /\ at' = at + 2 /\ skipped' = skipped + 2
        /\ signature = <<>> \/ factory_pub = <<>>
        /\ late' = late
        /\ UNCHANGED <<factory_pub, signature, passed, failed, exit, doubted, certified>>
    BY <1>2 DEF Skip, vars, history
  <2>2. at = 17 /\ exit = "none"
    BY <2>1, Where
  <2>3. failed # 0
    BY <2>1, <2>2 DEF CheckInv, Missing
  <2>4. failed \in Nat /\ skipped \in Nat
    BY DEF CheckInv, CheckTypeOK
  <2>5. CheckTypeOK'
    BY <2>1, <2>2, <2>4 DEF CheckInv, CheckTypeOK
  <2>6. KeyKept'
    BY <2>1, <2>2 DEF CheckInv, KeyKept
  <2>7. Tallied' /\ Distrusted' /\ Missing' /\ Exits'
    BY <2>1, <2>2, <2>3, <2>4 DEF Tallied, Distrusted, Missing, Exits
  <2>8. QED BY <2>5, <2>6, <2>7 DEF CheckInv
<1>3. ASSUME NEW c \in Checks, Begin(c) PROVE CheckInv'
  BY <1>3, Elsewhere DEF Begin, Enter, Call, chip
<1>4. ASSUME NEW c \in Checks, CallFails(c) PROVE CheckInv'
  <2>1. Running(c) /\ Settle(c, "Err", "", "none") /\ late' = late
    BY <1>4 DEF CallFails, Fail, chip
  <2>2. QED BY <2>1, ErrorKeeps
<1>5. ASSUME NEW c \in Checks, Starts(c) PROVE CheckInv'
  BY <1>5, Elsewhere DEF Starts, Start
<1>6. ASSUME NEW c \in Checks, CallReturns(c) PROVE CheckInv'
  <2> DEFINE how == IF late THEN "late" ELSE "chip"
             r == result'[Me]
  <2>1. Running(c) /\ late' = late
    BY <1>6 DEF CallReturns, Return
  <2>2. PICK v \in Own(c) \cup (IF late THEN {Unwritten(c)} ELSE {}) :
          Settle(c, r, v, how)
    BY <1>6 DEF CallReturns
  <2>3. r \in {"Ok", "Err"}
    <3>1. PICK q \in Results : result' = [result EXCEPT ![Me] = q]
      BY <1>6 DEF CallReturns, Return
    <3>2. r = q
      BY <3>1, OneProcess DEF HandleOK
    <3>3. QED BY <3>1, <3>2 DEF Results
  <2>4. c = "certificate" =>
          v \in Certificates \/ v = Blank
    <3>1. Own("certificate") = Certificates
      BY DEF Own
    <3>2. QED BY <2>2, <3>1, UnwrittenCertificate
  <2>5. how # "chip" => late
    OBVIOUS
  <2> HIDE DEF how, r
  <2>6. QED BY <2>1, <2>2, <2>3, <2>4, <2>5, SettleKeeps
<1>7. ASSUME NEW c \in Checks, CallTimesOut(c) PROVE CheckInv'
  <2>1. Running(c) /\ Settle(c, "Err", "", "none")
    BY <1>7 DEF CallTimesOut
  <2>2. QED BY <2>1, ErrorKeeps
<1>8. CASE ChipAnswers
  BY <1>8, Elsewhere DEF ChipAnswers, Answer
<1>9. CASE Drop
  BY <1>9, Elsewhere DEF Drop, Leave, End, chip
<1>10. CASE Finish
  <2>1. /\ Over /\ exit' = IF failed > 0 THEN "1" ELSE "0"
        /\ late' = late
        /\ UNCHANGED <<at, factory_pub, signature, passed, failed, skipped,
                       doubted, certified>>
    BY <1>10 DEF Finish, vars, report, history
  <2>2. failed \in Nat
    BY DEF CheckInv, CheckTypeOK
  <2>3. Exits'
    BY <2>1, <2>2 DEF Exits
  <2>4. QED
    BY <2>1, <2>3 DEF CheckInv, CheckTypeOK, Tallied, Distrusted, Missing, KeyKept
<1>11. CASE UNCHANGED checkvars
  BY <1>11, Elsewhere DEF checkvars, vars
<1>12. QED
  BY <1>1, <1>2, <1>3, <1>4, <1>5, <1>6, <1>7, <1>8, <1>9, <1>10, <1>11
     DEF CheckNext

LEMMA CheckInvariant == CheckSpec => []CheckInv
<1>1. CheckInit => HandleOK
  BY DEF CheckInit, Init, HandleOK, Results
<1>2. QED
  BY <1>1, CheckStart, HandleStep, CheckStep, PTL DEF CheckSpec

-----------------------------------------------------------------------------
(* The health check is a client like any other: what it sees of a session   *)
(* is what Session promises, and Trustm keeps that promise.                 *)
THEOREM CheckKeepsToTheSession == CheckSpec => Spec
<1>1. CheckInit => Init
  BY DEF CheckInit
<1>2. [CheckNext]_checkvars => [Next]_vars
  <2> SUFFICES ASSUME [CheckNext]_checkvars PROVE [Next]_vars
    OBVIOUS
  <2> USE OneProcess DEF Next
  <2>1. CASE UNCHANGED vars
    BY <2>1
  <2>2. CASE Usage \/ Skip \/ Finish
    BY <2>2 DEF Usage, Skip, Finish
  <2>3. CASE ChipAnswers
    BY <2>3 DEF ChipAnswers, Step
  <2>4. CASE Drop
    BY <2>4 DEF Drop, Step
  <2>5. CASE \E c \in Checks :
               Begin(c) \/ CallFails(c) \/ Starts(c) \/ CallReturns(c) \/ CallTimesOut(c)
    <3> PICK c \in Checks :
               Begin(c) \/ CallFails(c) \/ Starts(c) \/ CallReturns(c) \/ CallTimesOut(c)
      BY <2>5
    <3>1. CASE Begin(c) BY <3>1 DEF Begin, Step
    <3>2. CASE CallFails(c) BY <3>2 DEF CallFails, Step
    <3>3. CASE Starts(c) BY <3>3 DEF Starts, Step
    <3>4. CASE CallReturns(c) BY <3>4 DEF CallReturns, Step
    <3>5. CASE CallTimesOut(c) BY <3>5 DEF CallTimesOut, Step
    <3>6. QED BY <3>1, <3>2, <3>3, <3>4, <3>5
  <2>6. CASE UNCHANGED checkvars
    BY <2>6 DEF checkvars, vars
  <2>7. QED BY <2>2, <2>3, <2>4, <2>5, <2>6 DEF CheckNext
<1>3. QED BY <1>1, <1>2, PTL DEF CheckSpec, Spec

-----------------------------------------------------------------------------
(* Exit status 0 after the checks means that all eighteen passed, each on a *)
(* reply to its own call, whatever timed out and came late on the way.      *)
THEOREM ExitZeroMeansAllPassed == CheckSpec => []ExitZeroIsEarned
<1>1. CheckInv => ExitZeroIsEarned
  <2>1. SUFFICES ASSUME CheckInv, exit = "0", Over
                 PROVE  passed = Len(Program) - 1 /\ ~doubted
    BY DEF ExitZeroIsEarned
  <2>2. Len(Program) = 19 /\ at = 20
    BY <2>1, ProgramIs DEF Over
  <2>3. failed = 0
    BY <2>1, <2>2 DEF CheckInv, Exits
  <2>4. ~doubted /\ passed = 20 - 2
    BY <2>1, <2>2, <2>3 DEF CheckInv, Tallied
  <2>5. QED BY <2>2, <2>4
<1>2. QED BY <1>1, CheckInvariant, PTL

(* A verification is skipped only in a run that ends in exit status 1.      *)
THEOREM SkipsAreFailures == CheckSpec => []SkipsFollowFailures
<1>1. CheckInv => SkipsFollowFailures
  BY DEF CheckInv, CheckTypeOK, Tallied, SkipsFollowFailures
<1>2. QED BY <1>1, CheckInvariant, PTL

(* A bare point, wrapped for the chip, unwraps to itself.                   *)
LEMMA KeyUnwraps ==
  ASSUME NEW p \in Seq(Byte), Len(p) = 65, p[1] = 4
  PROVE  ecc_public_key_point(der_key(p)) = Ok(p)
<1> DEFINE w == <<3, 66, 0>>
           der == w \o p
<1>1. w \in Seq(Byte) /\ Len(w) = 3 /\ w[1] = 3 /\ w[2] = 66
  <2>1. 3 \in Byte /\ 66 \in Byte /\ 0 \in Byte
    BY ByteIs
  <2>2. QED BY <2>1
<1> HIDE DEF w
<1>2. /\ der \in Seq(Byte) /\ Len(der) = 68
      /\ der[1] = 3 /\ der[2] = 66
      /\ From(der, 4) = p
  <2>1. /\ w \o p \in Seq(Byte)
        /\ Len(w \o p) = Len(w) + Len(p)
        /\ \A i \in 1 .. Len(w) : (w \o p)[i] = w[i]
    BY ONLY <1>1, Joined, p \in Seq(Byte)
  <2>2. From(w \o p, Len(w) + 1) = p
    BY <1>1, Behind
  <2>3. QED BY <1>1, <2>1, <2>2
<1>3. der_key(p) = der
  BY DEF der_key, w
<1> HIDE DEF der
<1>4. HeaderLen(der) = 2 /\ der_len(der) = 68
  <2>1. der_len(der) = 2 + 66
    BY <1>2, DerLenIs
  <2>2. QED BY <1>2, <2>1 DEF HeaderLen
<1>5. From(der, HeaderLen(der) + 2) = p
  BY <1>2, <1>4
<1>6. der # <<>> /\ p # <<>>
  <2>1. Len(der) # 0 /\ Len(p) # 0
    BY <1>2
  <2>2. QED BY <1>2, <2>1, EmptySeq
<1>7. ecc_public_key_point(der) = Ok(p)
  <2> DEFINE point == From(der, HeaderLen(der) + 2)
  <2>1. point # <<>> /\ point[1] = 4
    BY <1>5, <1>6
  <2>2. der # <<>> /\ der[1] = 3 /\ der_len(der) = Len(der)
    BY <1>2, <1>4, <1>6
  <2>3. ecc_public_key_point(der) = Ok(point)
    BY ONLY <2>1, <2>2, PointEnds
  <2>4. QED BY <1>5, <2>3
<1>8. QED BY <1>3, <1>7

(* The key of the verification is the certificate's own, whatever bytes the *)
(* certificate has and wherever its key lies in them.                       *)
THEOREM CertifiedKeyIsUsed == CheckSpec => []KeyIsTheCertifiedOne
<1>1. CheckInv => KeyIsTheCertifiedOne
  <2>1. SUFFICES ASSUME CheckInv
                 PROVE  /\ factory_pub = certified
                        /\ factory_pub # <<>> =>
                             ecc_public_key_point(der_key(factory_pub)) = Ok(factory_pub)
    BY DEF KeyIsTheCertifiedOne
  <2>2. QED BY <2>1, KeyUnwraps DEF CheckInv, KeyKept
<1>2. QED BY <1>1, CheckInvariant, PTL

=============================================================================
