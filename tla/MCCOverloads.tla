---------------------------- MODULE MCCOverloads ----------------------------
(* Bounds for TLC: a few bytes of virtual and of regular memory.           *)
EXTENDS COverloads

SixBytes == 1 .. 6
TwoBytes == 10 .. 11
=============================================================================
