----------------------------- MODULE MCCommands -----------------------------
(* A small instance of Commands for TLC. *)
EXTENDS Commands, TLC

(* Around the widths of the C interface.                                    *)
SliceLengths == {0, 255, 256, 65536, U32Size}

(* Around the bounds of random.                                             *)
OutputLengths == {0, 7, 8, 256, 257}

(* One flag, three of them, and a byte with bits that have no name.         *)
SomeUsages ==
  {KeyUsage.SIGN, 255,
   bitor(bitor(KeyUsage.AUTHENTICATION, KeyUsage.SIGN), KeyUsage.KEY_AGREEMENT)}

SlotSymmetry == Permutations(Slots)
=============================================================================
