------------------------------ MODULE Bitmask ------------------------------
(***************************************************************************)
(* lib/bitmask.c: the 64-bit masks in which the server keeps one bit per   *)
(* worker thread (`threads_status.data` and every entry's `sent`).         *)
(*                                                                         *)
(* A mask is the set of its bits that are 1.  The code computes the bit of *)
(* a position as `1 << pos` in type int, and only then converts it to      *)
(* uint64_t, so two things happen that a plain set of positions would not  *)
(* show:                                                                   *)
(*   - a position of IntWidth or more is undefined behaviour; the position *)
(*     is a run-time argument, so the build emits the machine's 32-bit     *)
(*     shift, which takes the count modulo IntWidth;                       *)
(*   - position IntWidth-1 is the sign bit, and converting the negative    *)
(*     int to uint64_t sets every higher bit of the mask as well.          *)
(***************************************************************************)
EXTENDS Naturals

CONSTANTS
    IntWidth,    \* bits of an int (32)
    MaskWidth    \* bits of a mask (64), also MAX_NUM_WORKERS of lib/args.h

ASSUME WidthAssumption ==
    /\ IntWidth \in Nat \ {0}
    /\ MaskWidth \in Nat
    /\ IntWidth <= MaskWidth

Mask == SUBSET (0 .. MaskWidth - 1)

\* The bit an int shift by `pos` really lands on.
ShiftCount(pos) == pos % IntWidth

\* The bits of (uint64_t) (1 << pos).
BitsOf(pos) ==
    IF ShiftCount(pos) = IntWidth - 1
    THEN (IntWidth - 1) .. (MaskWidth - 1)
    ELSE {ShiftCount(pos)}

is_set(mask, pos) == mask \cap BitsOf(pos) # {}

set_bit(mask, pos, val) ==
    IF val THEN mask \cup BitsOf(pos) ELSE mask \ BitsOf(pos)
=============================================================================
