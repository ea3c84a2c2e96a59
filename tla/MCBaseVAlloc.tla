--------------------------- MODULE MCBaseVAlloc ---------------------------
(* Bounds for TLC: the paged memory of a program that takes no locks.      *)
EXTENDS BaseVAlloc

CONSTANTS b0, b1   \* the two values of a byte

ByteSymmetry == Permutations(Val)

(* No step depends on the last call: it is only there to be compared with  *)
(* what a flat memory would do, on every transition.                       *)
AllocatorState == allocVars

TwoBigPages == [c \in Class |-> IF c = "big" THEN 2 ELSE 1]
TwoBytePages == [c \in Class |-> 2]
=============================================================================
