----------------------------- MODULE MCSpiChips -----------------------------
(* Bounds for TLC: a chip that is too large for the FIFO and takes two     *)
(* bytes of address, and one that takes a single byte.                     *)
EXTENDS SpiChips

TwoChips == <<7, 2>>
(* As a 23LC512 is to 256 values of a byte: the square of their number.    *)
SquareChip == <<16>>
=============================================================================
