---------------------------- MODULE MCMainLoop -----------------------------
(* MainLoop for TLC; its constants are plain numbers, see the .cfg files. *)
EXTENDS MainLoop
=============================================================================
