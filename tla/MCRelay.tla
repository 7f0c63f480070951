------------------------------ MODULE MCRelay -------------------------------
(***************************************************************************)
(* Blocks on both sides of zero and of the borders of chunks of 4 by 4;    *)
(* bytes of 16 values and a long of four of them, so that every number has *)
(* its sign, its overflow and two halves.                                  *)
(***************************************************************************)
EXTENDS Relay

MCCoord == {-4, -1, 0, 3}
MCHeight == {-1, 0, 2, 7}
MCIds == {-128, 19}
MCTimes == {128}
MCTexts == [units : {2, 8}, bytes : {8}] \cup {EmptyText}
MCDoubles == {-128 * 256 + 19, 128 * 256 - 1}
MCDigits == {2}
MCName == [units |-> 2, bytes |-> 3]
=============================================================================
