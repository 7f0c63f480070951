----------------------------- MODULE MCChunks -------------------------------
(***************************************************************************)
(* Chunks for TLC.                                                         *)
(***************************************************************************)
EXTENDS Chunks

MCField == (-2..2) \X (-2..2)
MCLine == {<<0, 0>>, <<1, 0>>, <<2, 0>>}
MCHere == {<<0, 0>>}
MCNowhere == {}
=============================================================================
