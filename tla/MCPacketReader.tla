--------------------------- MODULE MCPacketReader ---------------------------
(***************************************************************************)
(* PacketReader for TLC: packets of one, three and four bytes, with fields *)
(* of one and of two bytes.                                                *)
(***************************************************************************)
EXTENDS PacketReader

MCLayout == {<<1>>, <<1, 3>>, <<1, 2, 4>>}
=============================================================================
