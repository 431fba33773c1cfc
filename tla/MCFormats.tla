----------------------------- MODULE MCFormats -----------------------------
(* Bounded inputs for Formats. *)
EXTENDS Formats

Strings(S, n) == UNION {[1 .. m -> S] : m \in 0 .. n}

(* Long enough for two INTEGERs, one of them padded or with a zero in       *)
(* front, and for a byte too many.                                          *)
MCSigs == Strings({0, 1, 2, 128}, 7)

(* A component of n bytes: z zeros, the byte that decides about the pad,    *)
(* then anything.                                                           *)
Component(n, z, b) ==
  [i \in 1 .. n |-> IF i <= z THEN 0 ELSE IF i = z + 1 THEN b ELSE 7]

Components(n) ==
  {Component(n, z, b) : z \in {0, 1, n - 1, n} \cap 0 .. n, b \in {1, 127, 128, 255}}

(* The widths of the curves, and around where a length leaves one byte. *)
MCPairs ==
  UNION {{r \o s : r, s \in Components(n)} : n \in {1, 2, 32, 66, 126, 127, 128, 256}}
    \cup {<<>>, <<1>>, <<1, 2, 3>>}

(* Every short string over the bytes a header is made of, and whole points  *)
(* under each form of length, one byte too long or too short as well.       *)
Point(n) == [i \in 1 .. n |-> IF i = 1 THEN 4 ELSE 7]

MCKeys ==
  Strings({0, 1, 2, 3, 4, 129, 130}, 5)
    \cup {h \o <<0>> \o Point(n) :
            h \in UNION {Header(m) : m \in {65, 66, 67, 127, 128, 134, 255, 256, 257}},
            n \in {65, 126, 127, 133, 254, 255, 256}}
=============================================================================
