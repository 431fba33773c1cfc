--------------------------- MODULE MCTrustmCheck ---------------------------
(* Inputs of TrustmCheck for TLC. *)
EXTENDS TrustmCheck, TLC

Point(a) == <<4>> \o [i \in 1 .. 64 |-> a]

(* A certificate of the key Point(a): framing, algorithm and key, the rest. *)
Cert(a, rest) ==
  <<48, 130, 1, 0, 170, 187>> \o P256 \o <<3, 66, 0>> \o Point(a) \o rest

(* Tag and length, the chain's length, the first certificate's length. *)
IdentityHeader == <<192, 1, 0, 0, 0, 253, 0, 0, 250>>

(* Bare, wrapped, wrapped with the issuer's certificate behind it; one of   *)
(* another curve, one cut off, one too short for a two-byte length, one     *)
(* behind a byte that does not belong there, a header alone, an empty       *)
(* object.                                                                  *)
SomeCertificates ==
  {[raw |-> r, point |-> Point(17)] :
     r \in {Cert(17, <<255>>), IdentityHeader \o Cert(17, <<255>>),
            IdentityHeader \o Cert(17, <<0, 0, 91>> \o Cert(34, <<255>>))}}
  \cup
  {[raw |-> r, point |-> <<>>] :
     r \in {<<48, 130, 1, 0, 6, 5, 43, 129, 4, 0, 34, 3, 98, 0, 4>>,
            SubSeq(Cert(17, <<>>), 1, 60), <<48, 10>> \o P256,
            <<0>> \o Cert(17, <<255>>), IdentityHeader, <<>>}}

(* With a sign pad, with a short half; cut off, and with an outer SEQUENCE. *)
SomeSignatures ==
  {<<2, 3, 0, 200, 1, 2, 1, 9>>, <<2, 3, 0, 200, 1>>, <<48, 6, 2, 1, 7, 2, 1, 9>>}
=============================================================================
