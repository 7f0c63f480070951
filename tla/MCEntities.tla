---------------------------- MODULE MCEntities ------------------------------
(***************************************************************************)
(* Entities for TLC: two axes, of which z starts with a last coordinate    *)
(* far away, positions on both sides of zero and of a half, a limit that   *)
(* some movements exceed, and looks whose byte wraps round both ways.      *)
(***************************************************************************)
EXTENDS Entities

MCAxis == {"x", "z"}
MCPosition == {-3, 0, 1, 3}
MCStart == [a \in MCAxis |-> 0]
MCStartLast == [a \in MCAxis |-> IF a = "z" THEN 8 ELSE 0]
MCLook == {0, -90, 540}
=============================================================================
