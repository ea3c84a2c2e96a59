------------------------------- MODULE MCHeap -------------------------------
(* Bounds for TLC: a pool of a few units. *)
EXTENDS Heap
=============================================================================
