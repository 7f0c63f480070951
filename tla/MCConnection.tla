--------------------------- MODULE MCConnection -----------------------------
(* Connection for TLC; its constants are plain numbers, see the .cfg files. *)
EXTENDS Connection
=============================================================================
