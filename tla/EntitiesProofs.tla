--------------------------- MODULE EntitiesProofs ---------------------------
(***************************************************************************)
(* Theorems of module Entities, for any number of axes, any positions and  *)
(* looks, any starting place and any limit of a relative movement.         *)
(***************************************************************************)
EXTENDS Entities, TLAPS

\* The three parts of the inductive invariant do not need each other, except
\* for their types.
IInv == TypeOK /\ NoDrift /\ LookShown

-----------------------------------------------------------------------------
\* What cutting a fraction off does: the result is an integer, and differs from
\* the rounded one by the half that was added, or not at all.
LEMMA CutIsInt == \A n \in Int : Cut(n) \in Int /\ Rounded(n) \in Int
  BY DEF Cut, Rounded, Truncated

LEMMA RoundedAndCut == \A n \in Int : Rounded(n) - Cut(n) \in {0, 1}
<1> SUFFICES ASSUME NEW n \in Int PROVE Rounded(n) - Cut(n) \in {0, 1}
  OBVIOUS
<1>1. CASE n >= 0
  BY <1>1 DEF Cut, Rounded, Truncated
<1>2. CASE n = -1
  BY <1>2 DEF Cut, Rounded, Truncated
<1>3. CASE n < -1
  BY <1>3 DEF Cut, Rounded, Truncated
<1> QED
  BY <1>1, <1>2, <1>3

LEMMA AngleIsByte == \A n \in Int : Angle(n) \in 0..255
<1> SUFFICES ASSUME NEW n \in Int PROVE Angle(n) \in 0..255
  OBVIOUS
<1>1. Truncated(n * 255, 360) \in Int
  BY DEF Truncated
<1> QED
  BY <1>1 DEF Angle

LEMMA OffsetIsInt == TypeOK => \A a \in Axis : Offset(a) \in Int
  BY CutIsInt DEF TypeOK, Offset

-----------------------------------------------------------------------------
LEMMA InitInvariant == Init => IInv
<1> SUFFICES ASSUME Init PROVE IInv
  OBVIOUS
<1>1. TypeOK
  <2>1. drawn \in [Axis -> Int]
    BY DEF Init
  <2>2. pos \in [Axis -> Int] /\ last \in [Axis -> Int]
    BY EntitiesAssumption DEF Init
  <2>3. look \in Int /\ lastLook \in Int /\ drawnLook \in 0..255
    BY DEF Init
  <2>4. spawned \in BOOLEAN /\ stale \in BOOLEAN
    BY Zenon DEF Init
  <2>5. missed \in [Axis -> Int]
    BY DEF Init
  <2> QED
    BY <2>1, <2>2, <2>3, <2>4, <2>5 DEF TypeOK
<1>2. NoDrift /\ LookShown
  BY DEF Init, NoDrift, LookShown
<1> QED
  BY <1>1, <1>2 DEF IInv

LEMMA MoveInvariant == IInv /\ Move => IInv'
<1> SUFFICES ASSUME IInv, Move PROVE IInv'
  OBVIOUS
<1> USE DEF IInv, Move
<1>1. TypeOK'
  <2>1. pos' \in [Axis -> Int]
    BY EntitiesAssumption
  <2>2. look' \in Int
    BY EntitiesAssumption
  <2> QED
    BY <2>1, <2>2 DEF TypeOK
<1>2. NoDrift'
  BY DEF NoDrift, Rounded, Cut, Truncated
<1>3. LookShown'
  BY DEF LookShown, Angle, Truncated
<1> QED
  BY <1>1, <1>2, <1>3

\* A player that is spawned is drawn where it is, which is ahead of the last tick
\* by what is missed: rounded and cut differ by one 32nd at most.
LEMMA AddPeerInvariant == IInv /\ AddPeer => IInv'
<1> SUFFICES ASSUME IInv, AddPeer PROVE IInv'
  OBVIOUS
<1> USE DEF IInv, AddPeer
<1>1. TypeOK'
  <2>1. drawn' \in [Axis -> Int]
    BY CutIsInt DEF TypeOK
  <2>2. drawnLook' \in 0..255
    BY AngleIsByte DEF TypeOK
  <2>3. stale' \in BOOLEAN
    OBVIOUS
  <2>4. missed' \in [Axis -> Int]
    BY OffsetIsInt
  <2> QED
    BY <2>1, <2>2, <2>3, <2>4 DEF TypeOK
<1>2. NoDrift'
  <2> SUFFICES ASSUME NEW a \in Axis
               PROVE Rounded(last[a]) + missed'[a] - drawn'[a] \in {0, 1}
    BY DEF NoDrift, Rounded, Cut, Truncated
  <2>1. pos[a] \in Int /\ last[a] \in Int
    BY DEF TypeOK
  <2>2. missed'[a] = Offset(a) /\ drawn'[a] = Cut(pos[a])
    OBVIOUS
  <2>3. Offset(a) = Rounded(pos[a]) - Rounded(last[a])
    BY DEF Offset
  <2>4. /\ Rounded(last[a]) \in Int /\ Rounded(pos[a]) \in Int /\ Cut(pos[a]) \in Int
        /\ Rounded(pos[a]) - Cut(pos[a]) \in {0, 1}
    BY <2>1, CutIsInt, RoundedAndCut
  <2> QED
    BY ONLY <2>2, <2>3, <2>4
<1>3. LookShown'
  <2> SUFFICES ASSUME ~stale' PROVE Angle(look) = Angle(lastLook)
    BY DEF LookShown, Angle, Truncated
  <2> QED
    OBVIOUS
<1> QED
  BY <1>1, <1>2, <1>3

\* A tick adds to where a player is drawn what it adds to where it was, and leaves
\* what the spawn was ahead.
LEMMA TickInvariant == IInv /\ Tick => IInv'
<1> SUFFICES ASSUME IInv, Tick PROVE IInv'
  OBVIOUS
<1> USE DEF IInv
<1>1. last' = pos /\ lastLook' = look /\ pos' = pos /\ look' = look /\ spawned' = spawned
  BY DEF Tick
<1>2. CASE ~spawned
  <2>1. drawn' = drawn /\ drawnLook' = drawnLook /\ missed' = missed /\ stale' = stale
    BY <1>2 DEF Tick
  <2> QED
    BY <1>1, <1>2, <2>1 DEF TypeOK, NoDrift, LookShown
<1>3. CASE spawned /\ Fits
  <2>1. /\ drawn' = [a \in Axis |-> drawn[a] + Offset(a)]
        /\ drawnLook' = IF Turned THEN Angle(look) ELSE drawnLook
        /\ stale' = (stale /\ ~Turned) /\ missed' = missed
    BY <1>3 DEF Tick, SendEntityMove
  <2>2. TypeOK'
    <3>1. drawn' \in [Axis -> Int]
      BY <2>1, OffsetIsInt DEF TypeOK
    <3>2. drawnLook' \in 0..255
      BY <2>1, AngleIsByte DEF TypeOK
    <3>3. stale' \in BOOLEAN
      BY <2>1, Zenon DEF TypeOK
    <3> QED
      BY <1>1, <2>1, <3>1, <3>2, <3>3 DEF TypeOK
  <2>3. NoDrift'
    <3> SUFFICES ASSUME NEW a \in Axis
                 PROVE Rounded(pos[a]) + missed[a] - drawn'[a] \in {0, 1}
      BY <1>1, <2>1 DEF NoDrift, Rounded, Cut, Truncated
    <3>1. Rounded(last[a]) + missed[a] - drawn[a] \in {0, 1}
      BY <1>3 DEF NoDrift
    <3>2. drawn'[a] = drawn[a] + (Rounded(pos[a]) - Rounded(last[a]))
      BY <2>1 DEF Offset
    <3>3. pos[a] \in Int /\ last[a] \in Int /\ drawn[a] \in Int /\ missed[a] \in Int
      BY DEF TypeOK
    <3>4. Rounded(pos[a]) \in Int /\ Rounded(last[a]) \in Int
      BY <3>3, CutIsInt
    <3> QED
      BY <3>1, <3>2, <3>3, <3>4
  <2>4. LookShown'
    <3> SUFFICES ASSUME ~stale' PROVE drawnLook' = Angle(look)
      BY <1>1 DEF LookShown, Angle, Truncated
    <3>1. CASE Turned
      BY <2>1, <3>1
    <3>2. CASE ~Turned
      BY <1>3, <2>1, <3>2 DEF LookShown, Turned
    <3> QED
      BY <3>1, <3>2
  <2> QED
    BY <2>2, <2>3, <2>4
<1>4. CASE spawned /\ ~Fits
  <2>1. /\ drawn' = [a \in Axis |-> Cut(pos[a])]
        /\ drawnLook' = Angle(look)
        /\ missed' = [a \in Axis |-> 0] /\ stale' = FALSE
    BY <1>4 DEF Tick, SendEntityMove
  <2>2. TypeOK'
    <3>1. drawn' \in [Axis -> Int]
      BY <2>1, CutIsInt DEF TypeOK
    <3>2. drawnLook' \in 0..255
      BY <2>1, AngleIsByte DEF TypeOK
    <3>3. stale' \in BOOLEAN
      BY <2>1, Zenon
    <3>4. missed' \in [Axis -> Int]
      BY <2>1
    <3> QED
      BY <1>1, <3>1, <3>2, <3>3, <3>4 DEF TypeOK
  <2>3. NoDrift'
    <3> SUFFICES ASSUME NEW a \in Axis
                 PROVE Rounded(pos[a]) + missed'[a] - drawn'[a] \in {0, 1}
      BY <1>1 DEF NoDrift, Rounded, Cut, Truncated
    <3>1. missed'[a] = 0 /\ drawn'[a] = Cut(pos[a])
      BY <2>1
    <3>2. Rounded(pos[a]) \in Int /\ Cut(pos[a]) \in Int /\ Rounded(pos[a]) - Cut(pos[a]) \in {0, 1}
      BY CutIsInt, RoundedAndCut DEF TypeOK
    <3> QED
      BY <3>1, <3>2
  <2>4. LookShown'
    BY <1>1, <2>1 DEF LookShown, Angle, Truncated
  <2> QED
    BY <2>2, <2>3, <2>4
<1> QED
  BY <1>2, <1>3, <1>4

LEMMA NextInvariant == IInv /\ [Next]_vars => IInv'
<1> SUFFICES ASSUME IInv, [Next]_vars PROVE IInv'
  OBVIOUS
<1>1. CASE Move
  BY <1>1, MoveInvariant
<1>2. CASE AddPeer
  BY <1>2, AddPeerInvariant
<1>3. CASE Tick
  BY <1>3, TickInvariant
<1>4. CASE UNCHANGED vars
  BY <1>4 DEF IInv, vars, TypeOK, NoDrift, LookShown, Rounded, Cut, Angle, Truncated
<1> QED
  BY <1>1, <1>2, <1>3, <1>4 DEF Next

\* The inductive invariant of what a watcher is told about a player.
THEOREM Invariant == Spec => []IInv
<1>1. Init => IInv
  BY InitInvariant
<1>2. IInv /\ [Next]_vars => IInv'
  BY NextInvariant
<1> QED
  BY <1>1, <1>2, PTL DEF Spec

\* The coordinates and looks are numbers, and what a game draws is a byte.
THEOREM TypeCorrect == Spec => []TypeOK
<1>1. IInv => TypeOK
  BY DEF IInv
<1> QED
  BY <1>1, Invariant, PTL

\* addPeer and sendEntityMove: however far a player walks, rounding does not
\* add up in the game of a watcher, and what the spawn was ahead stays the same.
THEOREM RoundingDoesNotAddUp == Spec => []NoDrift
<1>1. IInv => NoDrift
  BY DEF IInv
<1> QED
  BY <1>1, Invariant, PTL

\* addPeer and sendEntityMove: a look that was not spawned in the middle of a
\* turn is always that of the last tick.
THEOREM LookIsExact == Spec => []LookShown
<1>1. IInv => LookShown
  BY DEF IInv
<1> QED
  BY <1>1, Invariant, PTL
=============================================================================
