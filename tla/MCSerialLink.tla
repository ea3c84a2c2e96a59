---------------------------- MODULE MCSerialLink ----------------------------
(* Bounds for TLC: a pool of two bytes at the other end of the wires. *)
EXTENDS SerialLink
=============================================================================
