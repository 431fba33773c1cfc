------------------------------ MODULE Formats ------------------------------
(***************************************************************************)
(* The format helpers at work: a value is passed through them as callers   *)
(* do, from one form to the other and back again, and what comes out is    *)
(* compared with definitions of the formats that neither strip nor scan.   *)
(***************************************************************************)
EXTENDS FormatHelpers

CONSTANTS
  Sigs,     (* byte strings offered as a chip signature                     *)
  Pairs,    (* byte strings offered as r || s                               *)
  Keys,     (* byte strings offered as an exported public key               *)
  Widths    (* the component_len a signature is converted with              *)

ASSUME FormatsAssumption ==
  /\ Sigs \cup Pairs \cup Keys \subseteq Seq(Byte)
  /\ Widths \subseteq Nat

VARIABLES
  form,     (* what bytes holds: "sig", "rs", "key", "point", or "error"    *)
  bytes,
  width,    (* component_len                                                *)
  seen      (* the first r || s this value had, <<>> before                 *)

vars == <<form, bytes, width, seen>>

-----------------------------------------------------------------------------
Init ==
  /\ \/ form = "sig" /\ bytes \in Sigs /\ width \in Widths
     \/ form = "rs" /\ bytes \in Pairs /\ width = Len(bytes) \div 2
     \/ form = "key" /\ bytes \in Keys /\ width = 0
  /\ seen = IF form = "rs" THEN bytes ELSE <<>>

(* A conversion's outcome: the new form, or the end. *)
Becomes(f, r) ==
  /\ form' = IF r.ok THEN f ELSE "error"
  /\ bytes' = IF r.ok THEN r.value ELSE bytes

ToRs ==
  /\ form = "sig"
  /\ LET r == ecdsa_signature_to_rs(bytes, width)
     IN  /\ Becomes("rs", r)
         /\ seen' = IF r.ok /\ seen = <<>> THEN r.value ELSE seen
  /\ UNCHANGED width

FromRs ==
  /\ form = "rs"
  /\ Becomes("sig", ecdsa_signature_from_rs(bytes))
  /\ UNCHANGED <<width, seen>>

ToPoint ==
  /\ form \in {"key", "point"}
  /\ Becomes("point", ecc_public_key_point(bytes))
  /\ UNCHANGED <<width, seen>>

Next == ToRs \/ FromRs \/ ToPoint

Spec == Init /\ [][Next]_vars

-----------------------------------------------------------------------------
(* The conversions lose nothing: whatever number of times a value goes to   *)
(* DER and back, its r || s stays the first one, zeros, pads and all.       *)
RsSurvives == form = "rs" => bytes = seen

(* One INTEGER whose content fits n bytes, read off without stripping.      *)
IsInteger(e, n) ==
  /\ Len(e) > 2 /\ e[1] = 2 /\ e[2] = Len(e) - 2 /\ e[2] < 128
  /\ n > 0
  /\ \A i \in 3 .. Len(e) - n : e[i] = 0

(* Its last n content bytes. *)
Value(e, n) ==
  [j \in 1 .. n |-> IF Len(e) - n + j > 2 THEN e[Len(e) - n + j] ELSE 0]

(* Where a signature splits into two of them. *)
Splits(sig, n) ==
  {k \in 1 .. Len(sig) :
     IsInteger(SubSeq(sig, 1, k), n) /\ IsInteger(From(sig, k + 1), n)}

(* ecdsa_signature_to_rs against the format the crate documents, "two bare  *)
(* DER INTEGERs, r then s": it accepts exactly the strings that split into  *)
(* two INTEGERs that fit, trailing bytes rejected, and returns their        *)
(* values.                                                                  *)
ToRsIsExact ==
  [][form = "sig" =>
       /\ form' = "rs" <=> Splits(bytes, width) # {}
       /\ \A k \in Splits(bytes, width) : bytes' =
            Value(SubSeq(bytes, 1, k), width) \o Value(From(bytes, k + 1), width)]_vars

(* ecdsa_signature_from_rs writes what DER asks of a non-negative INTEGER:  *)
(* no sign bit, no superfluous zero, as long as a length fits short form.   *)
FromRsIsMinimal ==
  [][form = "rs" /\ form' = "sig" /\ width <= 126 =>
       \E k \in 1 .. Len(bytes') :
         \A e \in {SubSeq(bytes', 1, k), From(bytes', k + 1)} :
           /\ IsInteger(e, width)
           /\ e[3] < 128
           /\ e[3] = 0 /\ Len(e) > 3 => e[4] >= 128]_vars

(* What the crate wrote itself, it reads back; except that a half of 128    *)
(* encoded bytes or more gets a length byte that is not short form.         *)
ReadsItsOwn ==
  form = "error" /\ seen # <<>> /\ Len(seen) % 2 = 0 =>
    \E part \in {SubSeq(seen, 1, width), From(seen, width + 1)} :
      Len(Integer(part)) - 2 >= 128

(* The content lengths a DER length field may declare. *)
Header(n) ==
  (IF n < 128 THEN {<<3, n>>} ELSE {})
    \cup (IF n < 256 THEN {<<3, 129, n>>} ELSE {})
    \cup {<<3, 130, n \div 256, n % 256>>}

(* Where the point of an exported key may begin: at once, or behind a header *)
(* and the byte of unused bits.                                             *)
Points(key) ==
  {k \in 1 .. Len(key) :
     /\ key[k] = 4
     /\ k = 1 \/ SubSeq(key, 1, k - 2) \in Header(Len(key) - k + 2)}

(* ecc_public_key_point against the format the crate documents, "BIT        *)
(* STRINGs wrapping the uncompressed point": a point comes back as it is, a *)
(* wrapper is taken off exactly when its length spans the whole input, and  *)
(* what comes out is a point that unwrapping again leaves alone.            *)
PointIsExact ==
  [][(form \in {"key", "point"}) =>
       /\ form' = "point" <=> Points(bytes) # {}
       /\ \A k \in Points(bytes) : bytes' = From(bytes, k)]_vars
=============================================================================
