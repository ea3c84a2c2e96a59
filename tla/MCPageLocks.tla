---------------------------- MODULE MCPageLocks ----------------------------
(* Bounds for TLC: the paged memory of a program that takes locks.         *)
EXTENDS PageLocks

CONSTANTS h1, h2   \* handles

HandleSymmetry == Permutations(Handles)
LockState == lockVars

Pages(small, medium, big) ==
    [c \in Class |-> CASE c = "small" -> small [] c = "medium" -> medium [] c = "big" -> big]

Pages112 == Pages(1, 1, 2)
Pages111 == Pages(1, 1, 1)
Bytes113 == Pages(1, 1, 3)
Bytes123 == Pages(1, 2, 3)
=============================================================================
