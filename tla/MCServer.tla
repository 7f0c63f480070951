----------------------------- MODULE MCServer -------------------------------
(* Server for TLC: the clients are model values, see the .cfg file. *)
EXTENDS Server
=============================================================================
