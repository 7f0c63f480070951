------------------------------- MODULE MCWire -------------------------------
(* Wire for TLC: the clients are model values, see the .cfg file. *)
EXTENDS Wire
=============================================================================
