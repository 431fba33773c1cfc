------------------------- MODULE FormatHelperProofs -------------------------
(***************************************************************************)
(* What the format helpers compute, for byte strings of every length.      *)
(* Stripping is a least position, so its lemma rests on the natural        *)
(* numbers being well founded; the rest is arithmetic on positions.        *)
(***************************************************************************)
EXTENDS FormatHelpers, SequenceTheorems, WellFoundedInduction, TLAPS

(* A set of numbers has a least one.                                        *)
LEMMA Least ==
  ASSUME NEW T \in SUBSET Nat, T # {}
  PROVE  \E x \in T : \A y \in T : x <= y
<1> DEFINE R == OpToRel(<, Nat)
<1>1. IsWellFoundedOn(R, Nat)
  BY NatLessThanWellFounded
<1> HIDE DEF R
<1>2. PICK x \in T : \A y \in T : ~ (<<y, x>> \in R)
  BY ONLY <1>1, WFMin, T \in SUBSET Nat, T # {}
<1>3. \A y \in T : y < x => <<y, x>> \in R
  BY DEF R, OpToRel
<1>4. ASSUME NEW y \in T PROVE x <= y
  <2>1. ~ (y < x)
    BY <1>2, <1>3
  <2>2. x \in Nat /\ y \in Nat
    OBVIOUS
  <2>3. QED BY <2>1, <2>2
<1>5. QED BY <1>4

-----------------------------------------------------------------------------
(* Parts of byte strings. *)

(* A part of a string, byte by byte.                                        *)
LEMMA Part ==
  ASSUME NEW s \in Seq(Byte), NEW m \in 1 .. Len(s) + 1, NEW n \in 0 .. Len(s)
  PROVE  /\ SubSeq(s, m, n) \in Seq(Byte)
         /\ Len(SubSeq(s, m, n)) = IF m <= n THEN n - m + 1 ELSE 0
         /\ \A i \in 1 .. n - m + 1 : SubSeq(s, m, n)[i] = s[m + i - 1]
<1>1. \A i \in m .. n : s[i] \in Byte
  BY ElementOfSeq
<1>2. QED BY <1>1, SubSeqProperties

(* The bytes, without listing them.                                         *)
LEMMA ByteIs ==
  /\ \A b \in Byte : b \in Nat /\ b < 256
  /\ \A b \in Nat : b < 256 => b \in Byte
BY DEF Byte

(* Two strings joined, byte by byte.                                        *)
LEMMA Joined ==
  ASSUME NEW s \in Seq(Byte), NEW t \in Seq(Byte)
  PROVE  /\ s \o t \in Seq(Byte)
         /\ Len(s \o t) = Len(s) + Len(t)
         /\ \A i \in 1 .. Len(s) : (s \o t)[i] = s[i]
         /\ \A i \in 1 .. Len(t) : (s \o t)[Len(s) + i] = t[i]
<1>1. Len(s) \in Nat /\ Len(t) \in Nat
  OBVIOUS
<1>2. \A i \in 1 .. Len(s) + Len(t) :
        (s \o t)[i] = IF i <= Len(s) THEN s[i] ELSE t[i - Len(s)]
  BY ConcatProperties
<1>3. ASSUME NEW i \in 1 .. Len(s) PROVE (s \o t)[i] = s[i]
  BY <1>1, <1>2
<1>4. ASSUME NEW i \in 1 .. Len(t) PROVE (s \o t)[Len(s) + i] = t[i]
  <2>1. Len(s) + i \in 1 .. Len(s) + Len(t) /\ ~ (Len(s) + i <= Len(s))
    BY <1>1
  <2>2. Len(s) + i - Len(s) = i
    BY <1>1
  <2>3. QED BY <1>2, <2>1, <2>2
<1>5. QED BY <1>3, <1>4, ConcatProperties

(* A run of zeros, as fill and resize write it.                             *)
LEMMA ZerosAre ==
  ASSUME NEW n \in Nat
  PROVE  /\ Zeros(n) \in Seq(Byte)
         /\ Len(Zeros(n)) = n
         /\ \A i \in 1 .. n : Zeros(n)[i] = 0
BY DEF Zeros, Byte

(* Strings of bytes are equal when their bytes are.                         *)
LEMMA SameBytes ==
  ASSUME NEW s \in Seq(Byte), NEW t \in Seq(Byte), Len(s) = Len(t),
         \A i \in 1 .. Len(s) : s[i] = t[i]
  PROVE  s = t
BY SeqEqual

-----------------------------------------------------------------------------
(* Strip takes off zeros, every one but a last byte's. *)
LEMMA StripIs ==
  ASSUME NEW v \in Seq(Byte), v # <<>>
  PROVE  \E i \in 1 .. Len(v) :
           /\ Strip(v) = SubSeq(v, i, Len(v))
           /\ v[i] # 0 \/ i = Len(v)
           /\ \A j \in 1 .. i - 1 : v[j] = 0
<1> DEFINE T == {i \in 1 .. Len(v) : v[i] # 0 \/ i = Len(v)}
           Q(i) == /\ v[i] # 0 \/ i = Len(v)
                   /\ \A j \in 1 .. i - 1 : v[j] = 0
<1>1. Len(v) \in Nat /\ Len(v) >= 1
  BY EmptySeq
<1>2. T \in SUBSET Nat /\ Len(v) \in T
  BY <1>1
<1>3. PICK x \in T : \A y \in T : x <= y
  BY <1>2, Least
<1>4. ASSUME NEW j \in 1 .. x - 1 PROVE v[j] = 0
  BY <1>1, <1>3
<1>5. \E i \in 1 .. Len(v) : Q(i)
  BY <1>4
<1> DEFINE c == CHOOSE i \in 1 .. Len(v) : Q(i)
<1>6. c \in 1 .. Len(v) /\ Q(c)
  BY <1>5
<1>7. Strip(v) = SubSeq(v, c, Len(v))
  BY DEF Strip, From
<1>8. QED BY <1>6, <1>7

(* What is left of a byte string's zeros, and where it stood. *)
LEMMA StripLeaves ==
  ASSUME NEW v \in Seq(Byte), v # <<>>
  PROVE  /\ Strip(v) \in Seq(Byte)
         /\ Len(Strip(v)) \in 1 .. Len(v)
         /\ Strip(v)[1] = 0 => Len(Strip(v)) = 1
         /\ \A j \in 1 .. Len(Strip(v)) :
              Strip(v)[j] = v[Len(v) - Len(Strip(v)) + j]
         /\ \A j \in 1 .. Len(v) - Len(Strip(v)) : v[j] = 0
         /\ Len(Strip(v)) > 1 => v[Len(v) - Len(Strip(v)) + 1] # 0
<1>1. PICK i \in 1 .. Len(v) :
        /\ Strip(v) = SubSeq(v, i, Len(v))
        /\ v[i] # 0 \/ i = Len(v)
        /\ \A j \in 1 .. i - 1 : v[j] = 0
  BY StripIs
<1> DEFINE w == Strip(v)
<1>2. Len(v) \in Nat
  OBVIOUS
<1>3. /\ w \in Seq(Byte)
      /\ Len(w) = Len(v) - i + 1
      /\ \A j \in 1 .. Len(v) - i + 1 : w[j] = v[i + j - 1]
  BY <1>1, <1>2, Part
<1> HIDE DEF w
<1>4. Len(v) - Len(w) + 1 = i /\ Len(w) \in 1 .. Len(v)
  BY <1>2, <1>3
<1>5. w[1] = v[i]
  BY <1>2, <1>3
<1>6. \A j \in 1 .. Len(w) : w[j] = v[Len(v) - Len(w) + j]
  BY <1>2, <1>3
<1>7. w[1] = 0 => Len(w) = 1
  BY <1>1, <1>2, <1>3, <1>5
<1>8. QED BY <1>1, <1>2, <1>3, <1>4, <1>6, <1>7 DEF w

-----------------------------------------------------------------------------
(* An INTEGER at the start of buf whose value fits n bytes: what is in the  *)
(* way of the last n bytes of its content is zeros.                         *)
StartsInteger(buf, n) ==
  /\ Len(buf) > 2 /\ buf[1] = 2
  /\ buf[2] # 0 /\ buf[2] < 128 /\ 2 + buf[2] <= Len(buf)
  /\ n > 0
  /\ \A i \in 3 .. 2 + buf[2] - n : buf[i] = 0

(* der_uint_into accepts just those, and what it writes is the last n bytes *)
(* before the end of the INTEGER, zeros where there are none.               *)
LEMMA UintReads ==
  ASSUME NEW buf \in Seq(Byte), NEW n \in Nat
  PROVE  LET u == der_uint_into(buf, n)
         IN  /\ u.ok <=> StartsInteger(buf, n)
             /\ u.ok \in BOOLEAN
             /\ u.ok =>
                  /\ u.used = 2 + buf[2]
                  /\ u.value \in Seq(Byte)
                  /\ Len(u.value) = n
                  /\ \A j \in 1 .. n :
                       u.value[j] = IF u.used - n + j > 2 THEN buf[u.used - n + j] ELSE 0
             /\ ~u.ok => u.used = 0
<1> DEFINE u == der_uint_into(buf, n)
           c == buf[2]
           w == SubSeq(buf, 3, 2 + c)
           v == Strip(w)
           bad == \/ Len(buf) < 2
                  \/ buf[1] # 2
                  \/ c = 0 \/ c >= 128 \/ Len(buf) < 2 + c
<1>1. Len(buf) \in Nat
  OBVIOUS
<1>2. Len(buf) >= 2 => c \in Nat /\ c < 256
  <2>1. Len(buf) >= 2 => c \in Byte
    BY <1>1, ElementOfSeq
  <2>2. QED BY <2>1, ByteIs
<1>3. u = IF bad \/ Len(v) > n
          THEN [ok |-> FALSE, value |-> <<>>, used |-> 0]
          ELSE [ok |-> TRUE, value |-> Zeros(n - Len(v)) \o v, used |-> 2 + c]
  BY DEF der_uint_into
<1>4. CASE bad
  <2>1. ~StartsInteger(buf, n)
    BY <1>1, <1>2, <1>4 DEF StartsInteger
  <2> HIDE DEF bad
  <2>2. u = [ok |-> FALSE, value |-> <<>>, used |-> 0]
    BY <1>3, <1>4
  <2> HIDE DEF u
  <2>3. u.ok = FALSE /\ u.used = 0
    BY <2>2
  <2>4. QED BY <2>1, <2>3 DEF u
<1>5. CASE ~bad
  <2>1. c \in Nat /\ c >= 1 /\ c < 128 /\ Len(buf) >= 2 + c
    BY <1>2, <1>5, <1>1
  <2>2. /\ w \in Seq(Byte)
        /\ Len(w) = c
        /\ \A i \in 1 .. c : w[i] = buf[2 + i]
    <3>1. 3 \in 1 .. Len(buf) + 1 /\ 2 + c \in 0 .. Len(buf)
      BY <1>1, <2>1
    <3>2. (IF 3 <= 2 + c THEN (2 + c) - 3 + 1 ELSE 0) = c /\ (2 + c) - 3 + 1 = c
      BY <2>1
    <3>3. \A i \in 1 .. c : 3 + i - 1 = 2 + i
      BY <2>1
    <3> HIDE DEF c
    <3>4. QED BY <3>1, <3>2, <3>3, Part
  <2>3. w # <<>>
    <3> HIDE DEF w, c
    <3>1. Len(w) # 0
      BY <2>1, <2>2
    <3>2. QED BY <3>1
  <2> HIDE DEF w
  <2>4. /\ v \in Seq(Byte)
        /\ Len(v) \in 1 .. c
        /\ v[1] = 0 => Len(v) = 1
        /\ \A j \in 1 .. Len(v) : v[j] = w[c - Len(v) + j]
        /\ \A j \in 1 .. c - Len(v) : w[j] = 0
        /\ Len(v) > 1 => w[c - Len(v) + 1] # 0
    BY <2>2, <2>3, StripLeaves
  <2> HIDE DEF v
  <2>5. Len(v) <= n <=> (n > 0 /\ \A i \in 3 .. 2 + c - n : buf[i] = 0)
    <3> HIDE DEF c, bad
    <3>1. ASSUME Len(v) <= n, NEW i \in 3 .. 2 + c - n PROVE buf[i] = 0
      <4>1. i - 2 \in 1 .. c - Len(v) /\ i - 2 \in 1 .. c /\ 2 + (i - 2) = i
        BY <2>1, <2>4, <3>1
      <4>2. w[i - 2] = 0 /\ w[i - 2] = buf[2 + (i - 2)]
        BY <2>2, <2>4, <4>1
      <4>3. QED BY <4>1, <4>2
    <3>2. ASSUME ~ (Len(v) <= n), n > 0, \A i \in 3 .. 2 + c - n : buf[i] = 0
          PROVE  FALSE
      <4> DEFINE p == c - Len(v) + 1
      <4>1. p \in 1 .. c /\ 2 + p \in 3 .. 2 + c - n /\ Len(v) > 1
        BY <2>1, <2>4, <3>2
      <4>2. w[p] # 0 /\ w[p] = buf[2 + p]
        BY <2>2, <2>4, <4>1
      <4>3. QED BY <3>2, <4>1, <4>2
    <3>3. QED BY <2>1, <2>4, <3>1, <3>2
  <2>6. u.ok <=> StartsInteger(buf, n)
    <3>1. StartsInteger(buf, n) <=> (n > 0 /\ \A i \in 3 .. 2 + c - n : buf[i] = 0)
      BY <1>1, <1>5, <2>1 DEF StartsInteger
    <3> HIDE DEF bad, c
    <3>2. u.ok <=> ~ (Len(v) > n)
      BY <1>3, <1>5
    <3> HIDE DEF u
    <3>3. Len(v) <= n <=> ~ (Len(v) > n)
      BY <2>1, <2>4
    <3>4. QED BY <2>5, <3>1, <3>2, <3>3
  <2>7. ASSUME u.ok PROVE u.used = 2 + c /\ u.value = Zeros(n - Len(v)) \o v
                            /\ Len(v) <= n
    <3>1. ~ (Len(v) > n)
      BY <1>3, <2>7
    <3>2. Len(v) <= n
      BY <2>1, <2>4, <3>1
    <3> HIDE DEF bad, c
    <3>3. QED BY <1>3, <1>5, <3>1, <3>2
  <2>8. ASSUME u.ok
        PROVE  /\ u.value \in Seq(Byte)
               /\ Len(u.value) = n
               /\ \A j \in 1 .. n :
                    u.value[j] = IF 2 + c - n + j > 2 THEN buf[2 + c - n + j] ELSE 0
    <3> DEFINE z == Zeros(n - Len(v))
               k == n - Len(v)
    <3>1. k \in Nat /\ n = k + Len(v)
      BY <2>4, <2>7, <2>8, <2>1
    <3>2. z \in Seq(Byte) /\ Len(z) = k /\ \A j \in 1 .. k : z[j] = 0
      BY <3>1, ZerosAre
    <3>3. u.value = z \o v
      BY <2>7, <2>8
    <3> HIDE DEF z, k, u, c
    <3>4. /\ u.value \in Seq(Byte)
          /\ Len(u.value) = n
          /\ \A j \in 1 .. k : u.value[j] = 0
          /\ \A j \in 1 .. Len(v) : u.value[k + j] = v[j]
      <4>1. /\ z \o v \in Seq(Byte)
            /\ Len(z \o v) = Len(z) + Len(v)
            /\ \A j \in 1 .. Len(z) : (z \o v)[j] = z[j]
            /\ \A j \in 1 .. Len(v) : (z \o v)[Len(z) + j] = v[j]
        BY <2>4, <3>2, Joined
      <4>2. QED BY <4>1, <3>1, <3>2, <3>3
    <3>5. ASSUME NEW j \in 1 .. n
          PROVE  u.value[j] = IF 2 + c - n + j > 2 THEN buf[2 + c - n + j] ELSE 0
      <4> DEFINE p == c - n + j
      <4>1. CASE j <= k
        <5>1. p <= c - Len(v) /\ p <= c /\ p \in Int /\ 2 + c - n + j = 2 + p
          BY <2>1, <2>4, <3>1, <4>1
        <5>2. p > 0 => w[p] = 0 /\ w[p] = buf[2 + p]
          BY <2>1, <2>2, <2>4, <5>1
        <5>3. u.value[j] = 0
          BY <3>4, <4>1, <3>1
        <5> HIDE DEF p
        <5>4. QED BY <5>1, <5>2, <5>3
      <4>2. CASE j > k
        <5>1. /\ j - k \in 1 .. Len(v) /\ k + (j - k) = j
              /\ c - Len(v) + (j - k) = p /\ p \in 1 .. c
              /\ 2 + c - n + j = 2 + p /\ 2 + p > 2
          BY <2>1, <2>4, <3>1, <4>2
        <5>2. u.value[j] = v[j - k]
          BY <3>4, <5>1
        <5>3. v[j - k] = w[p] /\ w[p] = buf[2 + p]
          BY <2>2, <2>4, <5>1
        <5> HIDE DEF p
        <5>4. QED BY <5>1, <5>2, <5>3
      <4>3. QED BY <4>1, <4>2, <3>1
    <3>6. QED BY <3>4, <3>5
  <2>9. ~u.ok => u.used = 0
    BY <1>3
  <2>10. u.ok \in BOOLEAN
    BY <1>3
  <2> HIDE DEF u, v, bad
  <2>11. u.ok =>
           /\ u.used = 2 + buf[2]
           /\ u.value \in Seq(Byte)
           /\ Len(u.value) = n
           /\ \A j \in 1 .. n :
                u.value[j] = IF u.used - n + j > 2 THEN buf[u.used - n + j] ELSE 0
    <3>1. SUFFICES ASSUME u.ok
                   PROVE  /\ u.used = 2 + c
                          /\ u.value \in Seq(Byte)
                          /\ Len(u.value) = n
                          /\ \A j \in 1 .. n : u.value[j] =
                               IF u.used - n + j > 2 THEN buf[u.used - n + j] ELSE 0
      OBVIOUS
    <3> HIDE DEF c
    <3>2. u.used = 2 + c
      BY <2>7, <3>1
    <3>3. \A j \in 1 .. n : u.value[j] =
            IF 2 + c - n + j > 2 THEN buf[2 + c - n + j] ELSE 0
      BY <2>8, <3>1
    <3>4. \A j \in 1 .. n : u.value[j] =
            IF u.used - n + j > 2 THEN buf[u.used - n + j] ELSE 0
      BY <2>1, <3>2, <3>3
    <3>5. u.value \in Seq(Byte) /\ Len(u.value) = n
      BY <2>8, <3>1
    <3>6. QED BY <3>2, <3>4, <3>5
  <2>12. QED BY <2>6, <2>9, <2>10, <2>11 DEF u
<1>6. QED BY <1>4, <1>5

-----------------------------------------------------------------------------
(* Integer writes one INTEGER with its length (as far as a byte shows it),  *)
(* a first byte without the sign bit, a leading zero only before one with   *)
(* it, and a content that ends with the bytes of part, but for its zeros.   *)
LEMMA IntegerWrites ==
  ASSUME NEW part \in Seq(Byte), part # <<>>
  PROVE  LET e == Integer(part)
         IN  /\ e \in Seq(Byte)
             /\ Len(e) \in Nat /\ Len(e) > 2 /\ Len(e) <= Len(part) + 3
             /\ e[1] = 2 /\ e[2] = (Len(e) - 2) % 256
             /\ e[3] < 128
             /\ e[3] = 0 /\ Len(e) > 3 => e[4] >= 128
             /\ \A i \in 3 .. Len(e) - Len(part) : e[i] = 0
             /\ \A j \in 1 .. Len(part) : part[j] =
                  IF Len(e) - Len(part) + j > 2 THEN e[Len(e) - Len(part) + j] ELSE 0
<1> DEFINE v == Strip(part)
           P == Len(part)
           L == Len(v)
<1>1. P \in Nat /\ part[1] \in Byte
  <2>1. P \in Nat /\ P # 0
    BY EmptySeq
  <2>2. 1 \in 1 .. P
    BY <2>1
  <2>3. QED BY <2>1, <2>2, ElementOfSeq
<1>2. /\ v \in Seq(Byte)
      /\ L \in 1 .. P
      /\ v[1] = 0 => L = 1
      /\ \A j \in 1 .. L : v[j] = part[P - L + j]
      /\ \A j \in 1 .. P - L : part[j] = 0
  BY StripLeaves
<1> DEFINE k == IF v[1] >= 128 THEN 1 ELSE 0
           pad == IF v[1] >= 128 THEN <<0>> ELSE <<>>
           head == <<2, (L + k) % 256>>
           e == Integer(part)
<1>3. e = head \o pad \o v
  <2>1. Len(pad) = k
    OBVIOUS
  <2>2. e = <<2, (L + Len(pad)) % 256>> \o pad \o v
    BY DEF Integer
  <2>3. QED BY <2>1, <2>2
<1>4. v[1] \in Nat /\ v[1] < 256
  <2>1. 1 \in 1 .. L
    BY <1>1, <1>2
  <2> HIDE DEF v
  <2>2. v[1] \in Byte
    BY <1>2, <2>1, ElementOfSeq
  <2>3. QED BY <2>2, ByteIs
<1> HIDE DEF v, e, P, L
<1>5. /\ head \in Seq(Byte) /\ Len(head) = 2 /\ head[1] = 2 /\ head[2] = (L + k) % 256
      /\ pad \in Seq(Byte) /\ Len(pad) = k /\ k \in {0, 1}
      /\ k = 1 => pad[1] = 0
  <2>1. k \in {0, 1} /\ Len(pad) = k /\ (k = 1 => pad[1] = 0)
    OBVIOUS
  <2>2. 0 \in Byte /\ 2 \in Byte
    BY ByteIs
  <2>3. (L + k) % 256 \in Nat /\ (L + k) % 256 < 256
    <3>1. L + k \in Nat
      BY <1>1, <1>2, <2>1
    <3> HIDE DEF k
    <3>2. QED BY <3>1
  <2>4. (L + k) % 256 \in Byte
    BY <2>3, ByteIs
  <2>5. pad \in Seq(Byte)
    BY <2>2
  <2>6. head \in Seq(Byte) /\ Len(head) = 2 /\ head[1] = 2 /\ head[2] = (L + k) % 256
    <3> HIDE DEF k
    <3>1. QED BY <2>2, <2>4
  <2>7. QED BY <2>1, <2>5, <2>6
<1> HIDE DEF head, pad
<1>6. /\ head \o pad \in Seq(Byte) /\ Len(head \o pad) = 2 + k
      /\ (head \o pad)[1] = 2 /\ (head \o pad)[2] = (L + k) % 256
      /\ k = 1 => (head \o pad)[3] = 0
  <2>1. /\ head \o pad \in Seq(Byte)
        /\ Len(head \o pad) = Len(head) + Len(pad)
        /\ \A i \in 1 .. Len(head) : (head \o pad)[i] = head[i]
        /\ \A i \in 1 .. Len(pad) : (head \o pad)[Len(head) + i] = pad[i]
    BY <1>5, Joined
  <2> HIDE DEF k
  <2>2. QED BY <1>5, <2>1
<1> DEFINE front == head \o pad
<1> HIDE DEF front
<1>7. /\ e \in Seq(Byte)
      /\ Len(e) = 2 + k + L
      /\ e[1] = 2 /\ e[2] = (L + k) % 256
      /\ k = 1 => e[3] = 0
      /\ \A j \in 1 .. L : e[2 + k + j] = v[j]
  <2>1. /\ front \in Seq(Byte) /\ Len(front) = 2 + k
        /\ front[1] = 2 /\ front[2] = (L + k) % 256
        /\ k = 1 => front[3] = 0
    BY <1>6 DEF front
  <2>2. e = front \o v
    BY <1>3 DEF front
  <2>3. /\ e \in Seq(Byte)
        /\ Len(e) = Len(front) + L
        /\ \A i \in 1 .. Len(front) : e[i] = front[i]
        /\ \A i \in 1 .. L : e[Len(front) + i] = v[i]
    <3>1. /\ front \o v \in Seq(Byte)
          /\ Len(front \o v) = Len(front) + Len(v)
          /\ \A i \in 1 .. Len(front) : (front \o v)[i] = front[i]
          /\ \A i \in 1 .. Len(v) : (front \o v)[Len(front) + i] = v[i]
      BY <1>2, <2>1, Joined
    <3>2. QED BY <2>2, <3>1 DEF L
  <2>4. L \in Nat
    BY <1>2
  <2> HIDE DEF k
  <2>5. QED BY <1>5, <2>1, <2>3, <2>4
<1>8. Len(e) \in Nat /\ Len(e) > 2 /\ Len(e) <= P + 3 /\ Len(e) - 2 = L + k
      /\ Len(e) - P = 2 + k + L - P
  BY <1>1, <1>2, <1>5, <1>7
<1> DEFINE E == Len(e)
<1>9. /\ P \in Nat /\ L \in Nat /\ k \in Nat /\ E \in Nat
      /\ L >= 1 /\ L <= P /\ k <= 1 /\ E = 2 + k + L
  BY <1>1, <1>2, <1>5, <1>7
<1>10. e[2] = (Len(e) - 2) % 256
  BY <1>7, <1>8
<1>11. e[3] < 128 /\ (e[3] = 0 /\ Len(e) > 3 => e[4] >= 128)
  <2>1. CASE v[1] >= 128
    <3>1. k = 1 /\ 2 + k + 1 = 4 /\ 1 \in 1 .. L
      BY <2>1, <1>1, <1>2
    <3>2. e[3] = 0 /\ e[4] = v[1]
      <4> HIDE DEF k
      <4>1. QED BY <1>7, <3>1
    <3>3. QED BY <3>2, <2>1
  <2>2. CASE ~ (v[1] >= 128)
    <3>1. k = 0 /\ 2 + k + 1 = 3 /\ 1 \in 1 .. L
      BY <2>2, <1>1, <1>2
    <3>2. e[3] = v[1] /\ Len(e) = 2 + L
      <4> HIDE DEF k
      <4>1. QED BY <1>1, <1>2, <1>7, <3>1
    <3>3. v[1] = 0 => Len(e) = 3
      BY <1>2, <3>2
    <3>4. QED BY <1>4, <2>2, <3>2, <3>3
  <2>3. QED BY <2>1, <2>2
<1> HIDE DEF k
<1>12. ASSUME NEW i \in 3 .. Len(e) - P PROVE e[i] = 0
  <2>1. i = 3 /\ k = 1
    BY <1>1, <1>2, <1>5, <1>8
  <2>2. QED BY <1>7, <2>1
<1>13. ASSUME NEW j \in 1 .. P
       PROVE  part[j] = IF Len(e) - P + j > 2 THEN e[Len(e) - P + j] ELSE 0
  <2>1. CASE j > P - L
    <3>1. /\ j - (P - L) \in 1 .. L /\ P - L + (j - (P - L)) = j
          /\ E - P + j = 2 + k + (j - (P - L)) /\ E - P + j > 2
      <4> HIDE DEF E
      <4>1. QED BY <1>9, <2>1
    <3>2. v[j - (P - L)] = part[j] /\ e[Len(e) - P + j] = v[j - (P - L)]
      BY <1>2, <1>7, <3>1
    <3>3. QED BY <3>1, <3>2
  <2>2. CASE j <= P - L
    <3>1. part[j] = 0
      BY <1>1, <1>2, <2>2
    <3>2. E - P + j > 2 => k = 1 /\ E - P + j = 3
      <4> HIDE DEF E
      <4>1. QED BY <1>9, <2>2
    <3>3. QED BY <1>7, <3>1, <3>2
  <2>3. QED BY <1>1, <1>2, <2>1, <2>2
<1>14. QED BY <1>7, <1>8, <1>10, <1>11, <1>12, <1>13 DEF e, P

-----------------------------------------------------------------------------
(* What Integer writes, der_uint_into reads, whatever follows, provided its *)
(* length is short form.                                                    *)
Short(part) == Len(Integer(part)) - 2 < 128

(* What Integer has written der_uint_into reads back, whatever follows it.  *)
LEMMA UintReadsInteger ==
  ASSUME NEW part \in Seq(Byte), part # <<>>, Short(part),
         NEW rest \in Seq(Byte)
  PROVE  LET u == der_uint_into(Integer(part) \o rest, Len(part))
         IN  u.ok /\ u.used = Len(Integer(part)) /\ u.value = part
<1> DEFINE e == Integer(part)
           P == Len(part)
           E == Len(e)
           buf == e \o rest
           u == der_uint_into(buf, P)
<1>1. /\ e \in Seq(Byte)
      /\ E \in Nat /\ E > 2
      /\ e[1] = 2 /\ e[2] = (E - 2) % 256
      /\ \A i \in 3 .. E - P : e[i] = 0
      /\ \A j \in 1 .. P :
           part[j] = IF E - P + j > 2 THEN e[E - P + j] ELSE 0
  BY IntegerWrites
<1>2. E - 2 < 128
  BY DEF Short
<1> HIDE DEF e
<1>3. /\ buf \in Seq(Byte)
      /\ Len(buf) = E + Len(rest)
      /\ \A i \in 1 .. E : buf[i] = e[i]
  BY <1>1, Joined
<1>4. P \in Nat /\ P > 0
  BY EmptySeq
<1> HIDE DEF buf, E, P
<1>5. /\ u.ok <=> StartsInteger(buf, P)
      /\ u.ok =>
           /\ u.used = 2 + buf[2]
           /\ u.value \in Seq(Byte)
           /\ Len(u.value) = P
           /\ \A j \in 1 .. P :
                u.value[j] = IF u.used - P + j > 2 THEN buf[u.used - P + j] ELSE 0
  BY <1>3, <1>4, UintReads
<1>6. buf[1] = 2 /\ buf[2] = E - 2
  <2>1. (E - 2) % 256 = E - 2
    BY <1>1, <1>2
  <2>2. 1 \in 1 .. E /\ 2 \in 1 .. E
    BY <1>1
  <2>3. QED BY <1>1, <1>3, <2>1, <2>2
<1>7. StartsInteger(buf, P)
  <2>1. Len(buf) >= E
    BY <1>1, <1>3
  <2>2. ASSUME NEW i \in 3 .. 2 + buf[2] - P PROVE buf[i] = 0
    <3>1. i \in 3 .. E - P /\ i \in 1 .. E
      BY <1>1, <1>4, <1>6
    <3>2. QED BY <1>1, <1>3, <3>1
  <2>3. QED BY <1>1, <1>2, <1>3, <1>4, <1>6, <2>1, <2>2 DEF StartsInteger
<1> HIDE DEF u
<1>8. u.used = E
  BY <1>1, <1>5, <1>6, <1>7
<1>9. ASSUME NEW j \in 1 .. P PROVE u.value[j] = part[j]
  <2>1. u.value[j] = IF E - P + j > 2 THEN buf[E - P + j] ELSE 0
    BY <1>1, <1>4, <1>5, <1>7, <1>8
  <2>2. E - P + j > 2 => E - P + j \in 1 .. E
    BY <1>1, <1>4
  <2>3. QED BY <1>1, <1>3, <2>1, <2>2
<1>10. u.value = part
  BY <1>5, <1>7, <1>9, SameBytes DEF P
<1>11. QED BY <1>5, <1>7, <1>8, <1>10 DEF u, E, e, P, buf

-----------------------------------------------------------------------------
(* The two halves of a signature, there and back. *)
LEMMA Halves ==
  ASSUME NEW rs \in Seq(Byte), rs # <<>>, Len(rs) % 2 = 0
  PROVE  LET half == Len(rs) \div 2
             r == SubSeq(rs, 1, half)
             s == From(rs, half + 1)
         IN  /\ half \in Nat /\ half > 0 /\ Len(rs) = half + half
             /\ r \in Seq(Byte) /\ Len(r) = half /\ r # <<>>
             /\ s \in Seq(Byte) /\ Len(s) = half /\ s # <<>>
             /\ r \o s = rs
<1> DEFINE half == Len(rs) \div 2
           r == SubSeq(rs, 1, half)
           s == SubSeq(rs, half + 1, Len(rs))
<1>1. half \in Nat /\ half > 0 /\ Len(rs) = half + half
  <2>1. Len(rs) \in Nat /\ Len(rs) > 0
    BY EmptySeq
  <2>2. QED BY <2>1
<1>2. s = From(rs, half + 1)
  BY DEF From
<1> HIDE DEF half
<1>3. /\ r \in Seq(Byte) /\ Len(r) = half
      /\ \A i \in 1 .. half : r[i] = rs[i]
  <2>1. 1 \in 1 .. Len(rs) + 1 /\ half \in 0 .. Len(rs)
    BY <1>1
  <2>2. /\ SubSeq(rs, 1, half) \in Seq(Byte)
        /\ Len(SubSeq(rs, 1, half)) = IF 1 <= half THEN half - 1 + 1 ELSE 0
        /\ \A i \in 1 .. half - 1 + 1 : SubSeq(rs, 1, half)[i] = rs[1 + i - 1]
    BY <2>1, Part
  <2>3. QED BY <1>1, <2>2
<1>4. /\ s \in Seq(Byte) /\ Len(s) = half
      /\ \A i \in 1 .. half : s[i] = rs[half + i]
  <2> DEFINE n == Len(rs)
             m == half + 1
  <2>1. m \in 1 .. Len(rs) + 1 /\ n \in 0 .. Len(rs)
    BY <1>1
  <2>2. /\ SubSeq(rs, m, n) \in Seq(Byte)
        /\ Len(SubSeq(rs, m, n)) = IF m <= n THEN n - m + 1 ELSE 0
        /\ \A i \in 1 .. n - m + 1 : SubSeq(rs, m, n)[i] = rs[m + i - 1]
    BY <2>1, Part
  <2>3. m <= n /\ n - m + 1 = half /\ \A i \in 1 .. half : m + i - 1 = half + i
    BY <1>1
  <2>4. QED BY <2>2, <2>3
<1> HIDE DEF r, s
<1>5. r \o s = rs
  <2>1. /\ r \o s \in Seq(Byte)
        /\ Len(r \o s) = half + half
        /\ \A i \in 1 .. half : (r \o s)[i] = r[i]
        /\ \A i \in 1 .. half : (r \o s)[half + i] = s[i]
    <3>1. /\ r \o s \in Seq(Byte)
          /\ Len(r \o s) = Len(r) + Len(s)
          /\ \A i \in 1 .. Len(r) : (r \o s)[i] = r[i]
          /\ \A i \in 1 .. Len(s) : (r \o s)[Len(r) + i] = s[i]
      BY <1>3, <1>4, Joined
    <3>2. QED BY <1>3, <1>4, <3>1
  <2>2. ASSUME NEW i \in 1 .. Len(rs) PROVE (r \o s)[i] = rs[i]
    <3>1. CASE i <= half
      BY <1>1, <1>3, <2>1, <3>1
    <3>2. CASE i > half
      <4>1. i - half \in 1 .. half /\ half + (i - half) = i
        BY <1>1, <3>2
      <4>2. (r \o s)[half + (i - half)] = s[i - half] /\ s[i - half] = rs[half + (i - half)]
        BY <1>4, <2>1, <4>1
      <4>3. QED BY <4>1, <4>2
    <3>3. i \in Nat
      OBVIOUS
    <3>4. i <= half \/ i > half
      BY <1>1, <3>3
    <3>5. QED BY <3>1, <3>2, <3>4
  <2>3. Len(r \o s) = Len(rs)
    BY <1>1, <2>1
  <2>4. QED BY <2>1, <2>2, <2>3, SameBytes
<1>6. r # <<>> /\ s # <<>>
  <2>1. Len(r) # 0 /\ Len(s) # 0
    BY <1>1, <1>3, <1>4
  <2>2. QED BY <2>1
<1>7. QED BY <1>1, <1>2, <1>3, <1>4, <1>5, <1>6 DEF half, r

(* Two INTEGERs, one behind the other.                                      *)
LEMMA FromRsWrites ==
  ASSUME NEW rs \in Seq(Byte), rs # <<>>, Len(rs) % 2 = 0
  PROVE  LET half == Len(rs) \div 2
         IN  ecdsa_signature_from_rs(rs)
               = Ok(Integer(SubSeq(rs, 1, half)) \o Integer(From(rs, half + 1)))
BY DEF ecdsa_signature_from_rs

(* Behind the first of two strings begins the second. *)
LEMMA Behind ==
  ASSUME NEW a \in Seq(Byte), NEW b \in Seq(Byte)
  PROVE  From(a \o b, Len(a) + 1) = b
<1> DEFINE t == a \o b
           A == Len(a)
           B == Len(b)
           f == SubSeq(t, A + 1, A + B)
<1>1. A \in Nat /\ B \in Nat
  OBVIOUS
<1>2. /\ t \in Seq(Byte)
      /\ Len(t) = A + B
      /\ \A i \in 1 .. B : t[A + i] = b[i]
  BY Joined
<1>3. From(t, A + 1) = f
  BY <1>2 DEF From
<1> HIDE DEF t, A
<1>4. /\ f \in Seq(Byte)
      /\ Len(f) = B
      /\ \A i \in 1 .. B : f[i] = t[A + i]
  <2> DEFINE m == A + 1
             n == A + B
  <2>1. m \in 1 .. Len(t) + 1 /\ n \in 0 .. Len(t)
    BY <1>1, <1>2
  <2>2. /\ SubSeq(t, m, n) \in Seq(Byte)
        /\ Len(SubSeq(t, m, n)) = IF m <= n THEN n - m + 1 ELSE 0
        /\ \A i \in 1 .. n - m + 1 : SubSeq(t, m, n)[i] = t[m + i - 1]
    BY <1>2, <2>1, Part
  <2>3. /\ (IF m <= n THEN n - m + 1 ELSE 0) = B
        /\ n - m + 1 = B
        /\ \A i \in 1 .. B : m + i - 1 = A + i
    BY <1>1
  <2>4. QED BY <2>2, <2>3
<1> HIDE DEF f, B
<1>5. \A i \in 1 .. B : f[i] = b[i]
  BY <1>2, <1>4
<1>6. f = b
  BY <1>4, <1>5, SameBytes DEF B
<1>7. QED BY <1>3, <1>6 DEF t, A

(* From r || s to DER and back: r || s comes back, exactly when the lengths *)
(* of both INTEGERs are short form.                                         *)
LEMMA RoundTrip ==
  ASSUME NEW rs \in Seq(Byte), rs # <<>>, Len(rs) % 2 = 0
  PROVE  LET half == Len(rs) \div 2
             r == SubSeq(rs, 1, half)
             s == From(rs, half + 1)
             back == ecdsa_signature_to_rs(Integer(r) \o Integer(s), half)
         IN  /\ back.ok <=> Short(r) /\ Short(s)
             /\ back.ok => back = Ok(rs)
<1> DEFINE half == Len(rs) \div 2
           r == SubSeq(rs, 1, half)
           s == From(rs, half + 1)
           a == Integer(r)
           b == Integer(s)
           sig == a \o b
           back == ecdsa_signature_to_rs(sig, half)
<1>1. /\ half \in Nat /\ half > 0 /\ Len(rs) = half + half
      /\ r \in Seq(Byte) /\ Len(r) = half /\ r # <<>>
      /\ s \in Seq(Byte) /\ Len(s) = half /\ s # <<>>
      /\ r \o s = rs
  BY Halves
<1> HIDE DEF half, r, s
<1>2. /\ a \in Seq(Byte) /\ Len(a) \in Nat /\ Len(a) > 2
      /\ a[2] = (Len(a) - 2) % 256
  BY <1>1, IntegerWrites
<1>3. /\ b \in Seq(Byte) /\ Len(b) \in Nat /\ Len(b) > 2
      /\ b[2] = (Len(b) - 2) % 256
  BY <1>1, IntegerWrites
<1>4. (Short(r) <=> Len(a) - 2 < 128) /\ (Short(s) <=> Len(b) - 2 < 128)
  BY DEF Short
<1>5. ASSUME Short(r)
      PROVE  LET u == der_uint_into(sig, half)
             IN  u.ok /\ u.used = Len(a) /\ u.value = r
  BY <1>1, <1>3, <1>5, UintReadsInteger
<1>6. ASSUME Short(s)
      PROVE  LET w == der_uint_into(b, half)
             IN  w.ok /\ w.used = Len(b) /\ w.value = s
  <2>1. <<>> \in Seq(Byte) /\ b \o <<>> = b
    BY <1>3, ConcatEmptySeq
  <2>2. LET w == der_uint_into(b \o <<>>, half)
        IN  w.ok /\ w.used = Len(b) /\ w.value = s
    BY <1>1, <1>6, <2>1, UintReadsInteger
  <2>3. QED BY <2>1, <2>2
<1> HIDE DEF a, b
<1>7. /\ sig \in Seq(Byte)
      /\ Len(sig) = Len(a) + Len(b)
      /\ \A i \in 1 .. Len(a) : sig[i] = a[i]
  BY <1>2, <1>3, Joined
<1>8. From(sig, Len(a) + 1) = b
  BY <1>2, <1>3, Behind
<1> DEFINE u == der_uint_into(sig, half)
           rest == From(sig, u.used + 1)
           w == der_uint_into(rest, half)
<1>9. /\ u.ok => u.used = 2 + sig[2] /\ sig[2] < 128 /\ sig[2] # 0
      /\ u.ok \in BOOLEAN
      /\ ~u.ok => u.used = 0
  <2>1. u.ok <=> StartsInteger(sig, half)
    BY <1>1, <1>7, UintReads
  <2> HIDE DEF sig
  <2>2. u.ok \in BOOLEAN /\ (u.ok => u.used = 2 + sig[2]) /\ (~u.ok => u.used = 0)
    BY <1>1, <1>7, UintReads
  <2> HIDE DEF u
  <2>3. QED BY <2>1, <2>2 DEF StartsInteger
<1>10. back = IF u.ok /\ w.ok /\ u.used + w.used = Len(sig)
              THEN Ok(u.value \o w.value)
              ELSE Err
  BY DEF ecdsa_signature_to_rs
<1>11. CASE Short(r) /\ Short(s)
  <2>1. u.ok /\ u.used = Len(a) /\ u.value = r
    BY <1>5, <1>11
  <2>2. rest = b
    BY <1>8, <2>1
  <2>3. w.ok /\ w.used = Len(b) /\ w.value = s
    BY <1>6, <1>11, <2>2
  <2> HIDE DEF u, w, back, sig
  <2>4. back = Ok(rs)
    BY <1>1, <1>7, <1>10, <2>1, <2>3
  <2>5. back.ok
    BY <2>4 DEF Ok
  <2>6. QED BY <1>11, <2>4, <2>5 DEF back, sig, a, b, r, s, half
<1>12. CASE ~ (Short(r) /\ Short(s))
  <2>1. ASSUME back.ok PROVE FALSE
    <3>1. u.ok /\ w.ok /\ u.used + w.used = Len(sig)
      <4> HIDE DEF u, w, back, sig
      <4>1. QED BY <1>10, <2>1 DEF Err
    <3>2. sig[2] = a[2]
      BY <1>2, <1>7
    <3>3. u.used = 2 + a[2] /\ a[2] < 128
      BY <1>9, <3>1, <3>2
    <3>4. rest \in Seq(Byte)
      <4>1. Len(sig) \in Nat
        BY <1>7
      <4>2. sig # <<>> /\ Len(sig) > 2
        BY <1>2, <1>3, <1>7
      <4>3. u.used \in 0 .. Len(sig)
        <5>1. StartsInteger(sig, half)
          BY <1>1, <1>7, <3>1, UintReads
        <5> HIDE DEF u, sig
        <5>2. 2 + sig[2] <= Len(sig)
          BY <5>1 DEF StartsInteger
        <5>3. sig[2] \in Nat
          BY <1>2, <3>2
        <5>4. QED BY <1>9, <3>1, <4>1, <5>2, <5>3
      <4> HIDE DEF u, sig
      <4>4. u.used + 1 \in 1 .. Len(sig) + 1
        BY <4>1, <4>3
      <4>5. QED BY <1>7, <4>1, <4>4, Part DEF From
    <3>5. w.used = 2 + rest[2] /\ rest[2] < 128
      <4>1. StartsInteger(rest, half) /\ w.used = 2 + rest[2]
        BY <1>1, <3>1, <3>4, UintReads
      <4> HIDE DEF rest, w
      <4>2. QED BY <4>1 DEF StartsInteger
    <3> HIDE DEF u, w, rest, sig
    <3>6. rest[2] \in Nat
      <4>1. StartsInteger(rest, half)
        BY <1>1, <3>1, <3>4, UintReads DEF w
      <4>2. Len(rest) > 2 /\ Len(rest) \in Nat
        BY <3>4, <4>1 DEF StartsInteger
      <4>3. 2 \in 1 .. Len(rest)
        BY <4>2
      <4>4. rest[2] \in Byte
        BY <3>4, <4>3, ElementOfSeq
      <4>5. QED BY <4>4, ByteIs
    <3>7. Len(a) + Len(b) = 2 + a[2] + 2 + rest[2]
      <4>1. a[2] \in Nat
        BY <1>2
      <4>2. u.used + w.used = Len(a) + Len(b)
        BY <1>7, <3>1
      <4>3. u.used = 2 + a[2] /\ w.used = 2 + rest[2]
        BY <3>3, <3>5
      <4>4. QED BY <3>6, <4>1, <4>2, <4>3
    <3>8. Short(r)
      <4>1. a[2] = (Len(a) - 2) % 256 /\ Len(a) \in Nat /\ Len(b) \in Nat
            /\ Len(b) > 2 /\ a[2] < 128 /\ rest[2] < 128 /\ Len(a) > 2
        BY <1>2, <1>3, <3>3, <3>5
      <4> DEFINE n == Len(a) - 2
      <4>2. n \in Nat /\ n < 255 /\ n % 256 < 128
        BY <3>6, <3>7, <4>1
      <4> HIDE DEF n
      <4>3. n < 128
        BY <4>2
      <4>4. QED BY <1>4, <4>3 DEF n
    <3>9. a[2] = Len(a) - 2
      BY <1>2, <1>4, <3>8
    <3>10. rest = b
      BY <1>2, <1>8, <3>3, <3>9 DEF rest
    <3>11. Short(s)
      BY <1>3, <1>4, <3>5, <3>7, <3>9, <3>10
    <3>12. QED BY <1>12, <3>8, <3>11
  <2>2. QED BY <1>12, <2>1 DEF a, b, r, s, half
<1>13. QED BY <1>11, <1>12

(* A signature that is accepted gives two components of the width asked     *)
(* for.                                                                     *)
LEMMA ToRsGives ==
  ASSUME NEW sig \in Seq(Byte), NEW n \in Nat, ecdsa_signature_to_rs(sig, n).ok
  PROVE  LET u == der_uint_into(sig, n)
             w == der_uint_into(From(sig, u.used + 1), n)
         IN  /\ u.ok /\ w.ok /\ u.used + w.used = Len(sig)
             /\ u.used \in 3 .. Len(sig)
             /\ From(sig, u.used + 1) \in Seq(Byte)
             /\ u.value \in Seq(Byte) /\ Len(u.value) = n
             /\ w.value \in Seq(Byte) /\ Len(w.value) = n
             /\ ecdsa_signature_to_rs(sig, n) = Ok(u.value \o w.value)
             /\ u.value \o w.value \in Seq(Byte)
             /\ Len(u.value \o w.value) = n + n
<1> DEFINE u == der_uint_into(sig, n)
           rest == From(sig, u.used + 1)
           w == der_uint_into(rest, n)
           back == ecdsa_signature_to_rs(sig, n)
<1>1. back = IF u.ok /\ w.ok /\ u.used + w.used = Len(sig)
             THEN Ok(u.value \o w.value)
             ELSE Err
  BY DEF ecdsa_signature_to_rs
<1>2. u.ok /\ w.ok /\ u.used + w.used = Len(sig) /\ back = Ok(u.value \o w.value)
  <2>1. back.ok
    OBVIOUS
  <2> HIDE DEF u, w, back
  <2>2. QED BY <1>1, <2>1 DEF Err
<1>3. /\ StartsInteger(sig, n) /\ u.used = 2 + sig[2]
      /\ u.value \in Seq(Byte) /\ Len(u.value) = n
  BY <1>2, UintReads
<1> HIDE DEF u
<1>4. u.used \in 3 .. Len(sig)
  <2>1. /\ Len(sig) \in Nat /\ Len(sig) > 2 /\ sig[2] # 0
        /\ 2 + sig[2] <= Len(sig)
    BY <1>3 DEF StartsInteger
  <2>2. sig[2] \in Nat
    <3>1. 2 \in 1 .. Len(sig)
      BY <2>1
    <3>2. sig[2] \in Byte
      BY <3>1, ElementOfSeq
    <3>3. QED BY <3>2, ByteIs
  <2>3. QED BY <1>3, <2>1, <2>2
<1>5. rest \in Seq(Byte)
  <2>1. u.used + 1 \in 1 .. Len(sig) + 1 /\ Len(sig) \in 0 .. Len(sig)
    BY <1>4
  <2>2. QED BY <2>1, Part DEF From
<1> HIDE DEF rest
<1>6. w.value \in Seq(Byte) /\ Len(w.value) = n
  BY <1>2, <1>5, UintReads
<1> HIDE DEF w
<1>7. u.value \o w.value \in Seq(Byte) /\ Len(u.value \o w.value) = n + n
  <2>1. /\ u.value \o w.value \in Seq(Byte)
        /\ Len(u.value \o w.value) = Len(u.value) + Len(w.value)
    <3> DEFINE x == u.value
               y == w.value
    <3>1. x \in Seq(Byte) /\ y \in Seq(Byte)
      BY <1>3, <1>6
    <3> HIDE DEF x, y
    <3>2. x \o y \in Seq(Byte) /\ Len(x \o y) = Len(x) + Len(y)
      BY <3>1, Joined
    <3>3. QED BY <3>2 DEF x, y
  <2>2. QED BY <1>3, <1>6, <2>1
<1>8. QED BY <1>2, <1>3, <1>4, <1>5, <1>6, <1>7 DEF u, w, rest

-----------------------------------------------------------------------------
(* Public keys. *)

(* The rest of a string from m on.                                          *)
LEMMA FromIs ==
  ASSUME NEW s \in Seq(Byte), NEW m \in Nat, m # 0
  PROVE  /\ From(s, m) \in Seq(Byte)
         /\ From(s, m) # <<>> <=> m <= Len(s)
         /\ m <= Len(s) => From(s, m)[1] = s[m]
<1> DEFINE n == Len(s)
           f == SubSeq(s, m, n)
<1>1. n \in Nat /\ \A i \in m .. n : s[i] \in Byte
  BY ElementOfSeq
<1>2. /\ f \in Seq(Byte)
      /\ Len(f) = IF m <= n THEN n - m + 1 ELSE 0
      /\ \A i \in 1 .. n - m + 1 : f[i] = s[m + i - 1]
  BY <1>1, SubSeqProperties
<1>3. From(s, m) = f
  BY DEF From
<1> HIDE DEF f, n
<1>4. CASE m <= n
  <2>1. 1 \in 1 .. n - m + 1 /\ m + 1 - 1 = m /\ Len(f) > 0
    BY <1>1, <1>2, <1>4
  <2>2. f[1] = s[m] /\ f # <<>>
    BY <1>2, <2>1
  <2>3. QED BY <1>2, <1>3, <1>4, <2>2 DEF n
<1>5. CASE ~ (m <= n)
  <2>1. Len(f) = 0
    BY <1>2, <1>5
  <2>2. f = <<>>
    BY <1>2, <2>1, EmptySeq
  <2>3. QED BY <1>2, <1>3, <1>5, <2>2 DEF n
<1>6. QED BY <1>4, <1>5

(* der_len by the form of its length. *)
LEMMA DerLenIs ==
  ASSUME NEW der \in Seq(Byte)
  PROVE  /\ Len(der) < 2 => der_len(der) = 0
         /\ Len(der) >= 2 /\ der[2] < 128 => der_len(der) = 2 + der[2]
         /\ Len(der) >= 2 /\ der[2] = 129 =>
              der_len(der) = IF Len(der) >= 3 THEN 3 + der[3] ELSE 0
         /\ Len(der) >= 2 /\ der[2] = 130 =>
              der_len(der) = IF Len(der) >= 4 THEN 4 + 256 * der[3] + der[4] ELSE 0
         /\ Len(der) >= 2 /\ ~ (der[2] < 128) /\ der[2] # 129 /\ der[2] # 130 =>
              der_len(der) = 0
<1> DEFINE n == Len(der)
           b == der[2]
<1>1. n \in Nat
  OBVIOUS
<1>2. der_len(der) =
        CASE n >= 2 /\ b < 128 -> 2 + b
          [] n >= 3 /\ b = 129 -> 3 + der[3]
          [] n >= 4 /\ b = 130 -> 4 + 256 * der[3] + der[4]
          [] OTHER -> 0
  BY DEF der_len
<1>3. (n >= 3 => n >= 2) /\ (n >= 4 => n >= 2) /\ (n < 2 <=> ~ (n >= 2))
  BY <1>1
<1>4. (b = 129 => ~ (b < 128)) /\ (b = 130 => ~ (b < 128) /\ b # 129)
  OBVIOUS
<1> HIDE DEF n, b
<1>5. QED BY <1>2, <1>3, <1>4 DEF n, b

(* The three ways ecc_public_key_point ends. *)
LEMMA PointEnds ==
  ASSUME NEW der
  PROVE  LET point == From(der, HeaderLen(der) + 2)
             bare == der # <<>> /\ der[1] = 4
             wrapped == /\ der # <<>> /\ der[1] = 3
                        /\ der_len(der) = Len(der)
                        /\ point # <<>> /\ point[1] = 4
         IN  /\ bare => ecc_public_key_point(der) = Ok(der)
             /\ wrapped => ecc_public_key_point(der) = Ok(point)
             /\ ~bare /\ ~wrapped => ecc_public_key_point(der) = Err
             /\ ~ (bare /\ wrapped)
<1> DEFINE point == From(der, HeaderLen(der) + 2)
           bare == der # <<>> /\ der[1] = 4
           wrapped == /\ der # <<>> /\ der[1] = 3
                      /\ der_len(der) = Len(der)
                      /\ point # <<>> /\ point[1] = 4
<1>1. ecc_public_key_point(der) =
        CASE bare -> Ok(der) [] wrapped -> Ok(point) [] OTHER -> Err
  BY DEF ecc_public_key_point
<1>2. ~ (bare /\ wrapped)
  OBVIOUS
<1> HIDE DEF bare, wrapped, point
<1>3. QED BY <1>1, <1>2 DEF bare, wrapped, point

(* A wrapped key is long enough to tell where its header ends. *)
LEMMA HeaderLenIs ==
  ASSUME NEW der \in Seq(Byte), der_len(der) = Len(der), der # <<>>
  PROVE  /\ Len(der) \in Nat /\ Len(der) >= 2 /\ der[2] \in Nat /\ der[2] < 256
         /\ HeaderLen(der) \in {2, 3, 4}
         /\ \/ der[2] < 128 /\ HeaderLen(der) = 2 /\ Len(der) = 2 + der[2]
            \/ /\ der[2] = 129 /\ HeaderLen(der) = 3
               /\ Len(der) >= 3 /\ Len(der) = 3 + der[3]
            \/ /\ der[2] = 130 /\ HeaderLen(der) = 4
               /\ Len(der) >= 4 /\ Len(der) = 4 + 256 * der[3] + der[4]
<1>1. Len(der) \in Nat /\ Len(der) # 0
  BY EmptySeq
<1>2. Len(der) >= 2
  BY <1>1, DerLenIs
<1>3. der[2] \in Nat /\ der[2] < 256
  <2>1. 2 \in 1 .. Len(der)
    BY <1>1, <1>2
  <2>2. der[2] \in Byte
    BY <2>1, ElementOfSeq
  <2>3. QED BY <2>2, ByteIs
<1>4. CASE der[2] < 128
  BY <1>1, <1>2, <1>3, <1>4, DerLenIs DEF HeaderLen
<1>5. CASE der[2] = 129
  <2>1. HeaderLen(der) = 3
    BY <1>5 DEF HeaderLen
  <2>2. Len(der) >= 3 /\ Len(der) = 3 + der[3]
    BY <1>1, <1>2, <1>5, DerLenIs
  <2>3. QED BY <1>1, <1>2, <1>3, <1>5, <2>1, <2>2
<1>6. CASE der[2] = 130
  <2>1. HeaderLen(der) = 4
    BY <1>6 DEF HeaderLen
  <2>2. Len(der) >= 4 /\ Len(der) = 4 + 256 * der[3] + der[4]
    BY <1>1, <1>2, <1>6, DerLenIs
  <2>3. QED BY <1>1, <1>2, <1>3, <1>6, <2>1, <2>2
<1>7. CASE ~ (der[2] < 128) /\ der[2] # 129 /\ der[2] # 130
  BY <1>1, <1>2, <1>7, DerLenIs
<1>8. QED BY <1>4, <1>5, <1>6, <1>7

(* A point is a string of bytes.                                            *)
LEMMA PointGives ==
  ASSUME NEW der \in Seq(Byte), ecc_public_key_point(der).ok
  PROVE  ecc_public_key_point(der).value \in Seq(Byte)
<1> DEFINE h == HeaderLen(der) + 2
           point == From(der, h)
<1>1. ecc_public_key_point(der) # Err
  <2> DEFINE p == ecc_public_key_point(der)
  <2>1. p.ok
    OBVIOUS
  <2> HIDE DEF p
  <2>2. p # Err
    BY <2>1 DEF Err
  <2>3. QED BY <2>2 DEF p
<1>2. \/ ecc_public_key_point(der) = Ok(der)
      \/ /\ ecc_public_key_point(der) = Ok(point)
         /\ der_len(der) = Len(der) /\ der # <<>>
  BY <1>1, PointEnds
<1>3. der_len(der) = Len(der) /\ der # <<>> => h \in Nat /\ h # 0
  BY HeaderLenIs
<1>4. der_len(der) = Len(der) /\ der # <<>> => point \in Seq(Byte)
  BY <1>3, FromIs
<1> HIDE DEF point
<1>5. QED BY <1>2, <1>4 DEF Ok

(* What is left behind the first k bytes.                                   *)
LEMMA RestIs ==
  ASSUME NEW s \in Seq(Byte), NEW k \in 0 .. Len(s)
  PROVE  /\ From(s, k + 1) \in Seq(Byte)
         /\ Len(From(s, k + 1)) = Len(s) - k
         /\ \A i \in 1 .. Len(s) - k : From(s, k + 1)[i] = s[k + i]
<1> DEFINE n == Len(s)
           m == k + 1
<1>1. n \in Nat /\ k \in Nat /\ k <= n /\ m \in 1 .. Len(s) + 1 /\ n \in 0 .. Len(s)
  OBVIOUS
<1>2. /\ SubSeq(s, m, n) \in Seq(Byte)
      /\ Len(SubSeq(s, m, n)) = IF m <= n THEN n - m + 1 ELSE 0
      /\ \A i \in 1 .. n - m + 1 : SubSeq(s, m, n)[i] = s[m + i - 1]
  BY <1>1, Part
<1> DEFINE f == SubSeq(s, m, n)
<1> HIDE DEF f, n
<1>3. /\ Len(f) = n - k
      /\ \A i \in 1 .. n - k : f[i] = s[k + i]
  <2>1. (IF m <= n THEN n - m + 1 ELSE 0) = n - k /\ n - m + 1 = n - k
    BY <1>1
  <2>2. \A i \in 1 .. n - k : m + i - 1 = k + i
    BY <1>1
  <2>3. QED BY <1>2, <2>1, <2>2 DEF f
<1>4. QED BY <1>2, <1>3 DEF From, f, n

(* Before the second of two strings ends the first. *)
LEMMA Before ==
  ASSUME NEW a \in Seq(Byte), NEW b \in Seq(Byte)
  PROVE  SubSeq(a \o b, 1, Len(a)) = a
<1> DEFINE t == a \o b
           A == Len(a)
           f == SubSeq(t, 1, A)
<1>1. A \in Nat /\ Len(b) \in Nat
  OBVIOUS
<1>2. /\ t \in Seq(Byte)
      /\ Len(t) = A + Len(b)
      /\ \A i \in 1 .. A : t[i] = a[i]
  BY Joined
<1> HIDE DEF t, A
<1>3. /\ f \in Seq(Byte)
      /\ Len(f) = A
      /\ \A i \in 1 .. A : f[i] = t[i]
  <2>1. 1 \in 1 .. Len(t) + 1 /\ A \in 0 .. Len(t)
    BY <1>1, <1>2
  <2>2. /\ SubSeq(t, 1, A) \in Seq(Byte)
        /\ Len(SubSeq(t, 1, A)) = IF 1 <= A THEN A - 1 + 1 ELSE 0
        /\ \A i \in 1 .. A - 1 + 1 : SubSeq(t, 1, A)[i] = t[1 + i - 1]
    BY <1>2, <2>1, Part
  <2>3. (IF 1 <= A THEN A - 1 + 1 ELSE 0) = A /\ A - 1 + 1 = A
        /\ \A i \in 1 .. A : 1 + i - 1 = i
    BY <1>1
  <2>4. QED BY <2>2, <2>3
<1> HIDE DEF f
<1>4. f = a
  BY <1>2, <1>3, SameBytes DEF A
<1>5. QED BY <1>4 DEF f, t, A

=============================================================================
