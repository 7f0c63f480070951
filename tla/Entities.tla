------------------------------ MODULE Entities ------------------------------
(***************************************************************************)
(* One player as the game of another one draws it: the position and look   *)
(* it was spawned with (Client::addPeer) and the movements sent for it     *)
(* once per tick (Client::sendEntityMove), which are mostly relative to    *)
(* its position at the tick before.                                        *)
(*                                                                         *)
(* Coordinates are integers in 64ths of a block.  The protocol's are in    *)
(* 32nds: so a half is the one fraction that rounding and cutting treat    *)
(* differently.  Watchers do not influence each other; one is enough.      *)
(***************************************************************************)
EXTENDS Integers

CONSTANTS Axis,       \* the coordinates: x, y, z
          Position,   \* bound: the coordinates a player moves to
          Look,       \* bound: the yaw, or pitch, it turns to, in degrees
          Start,      \* the coordinates an Entity is constructed with
          StartLast,  \* and its last coordinates: they differ, m_lastZ is 72
          Limit       \* 128: a movement of -Limit to Limit - 1 fits an mcByte

ASSUME EntitiesAssumption ==
  /\ Position \subseteq Int /\ Look \subseteq Int /\ 0 \in Look
  /\ Start \in [Axis -> Int] /\ StartLast \in [Axis -> Int]
  /\ Limit \in Nat

VARIABLES
  pos, last,            \* m_x, m_y, m_z, and m_lastX, m_lastY, m_lastZ
  look, lastLook,       \* m_yaw and m_pitch as one, m_lastYaw and m_lastPitch
  spawned,              \* the watcher was told to spawn the player
  drawn, drawnLook,     \* where, and looking where, its game draws the player
  missed,               \* history: the movement that the spawn was ahead of the
                        \* tick before it, until the place is sent whole
  stale                 \* history: the spawn had a turn that no tick had seen, and
                        \* no look was sent since

vars == <<pos, last, look, lastLook, spawned, drawn, drawnLook, missed, stale>>

TypeOK ==
  /\ pos \in [Axis -> Int] /\ last \in [Axis -> Int]
  /\ look \in Int /\ lastLook \in Int
  /\ spawned \in BOOLEAN
  /\ drawn \in [Axis -> Int]
  /\ drawnLook \in 0..255
  /\ missed \in [Axis -> Int] /\ stale \in BOOLEAN

\* The player has just logged in.
Init ==
  /\ pos = Start /\ last = StartLast
  /\ look = 0 /\ lastLook = 0
  /\ spawned = FALSE
  /\ drawn = [a \in Axis |-> 0]
  /\ drawnLook = 0
  /\ missed = [a \in Axis |-> 0] /\ stale = FALSE

-----------------------------------------------------------------------------
\* A quotient converted to an integer: the fraction is cut off, towards zero.
Truncated(n, d) == IF n >= 0 THEN n \div d ELSE -((-n) \div d)

\* mcInt(x * 32)
Cut(n) == Truncated(n, 2)

\* int(x * 32.0 + 0.5)
Rounded(n) == Cut(n + 1)

\* mcByte(yaw / 360 * 255), as the byte on the wire.  A game's yaw is not kept
\* within a turn; a quotient that no mcByte holds is undefined in C++, and what
\* the build does is to keep its low byte.
Angle(degrees) == Truncated(degrees * 255, 360) % 256

\* xOff, yOff, zOff.
OffsetOfMove(a) == Rounded(pos[a] - last[a])
Offset(a) == Rounded(pos[a]) - Rounded(last[a])

Fits == \A a \in Axis : -Limit <= Offset(a) /\ Offset(a) <= Limit - 1

\* Packets 0x20 and 0x21, rather than 0x1E and 0x1F, carry the look.
TurnedStanding == lastLook # look /\ \A a \in Axis : Offset(a) = 0
Turned == lastLook # look

-----------------------------------------------------------------------------
\* handlePlayerPositionUpdate, handlePlayerPosition.
Move ==
  /\ \E p \in [Axis -> Position] : pos' = p
  /\ \E l \in Look : look' = l
  /\ UNCHANGED <<last, lastLook, spawned, drawn, drawnLook, missed, stale>>

\* addPeer, when the player or the watcher logs in.
AddPeer ==
  /\ ~spawned
  /\ spawned' = TRUE
  /\ drawn' = [a \in Axis |-> Cut(pos[a])]
  /\ drawnLook' = Angle(look)
  /\ missed' = [a \in Axis |-> Offset(a)]
  /\ stale' = (look # lastLook)
  /\ UNCHANGED <<pos, last, look, lastLook>>

\* sendEntityMove to a watcher: a movement, with the look if it has changed,
\* when every axis fits, and a teleport otherwise.
SendEntityMove ==
  IF Fits
  THEN /\ drawn' = [a \in Axis |-> drawn[a] + Offset(a)]
       /\ drawnLook' = IF Turned THEN Angle(look) ELSE drawnLook
       /\ stale' = (stale /\ ~Turned)
       /\ UNCHANGED missed
  ELSE /\ drawn' = [a \in Axis |-> Cut(pos[a])]
       /\ drawnLook' = Angle(look)
       /\ missed' = [a \in Axis |-> 0] /\ stale' = FALSE

\* A tick: every watcher is sent the movement, then tickPosition.
Tick ==
  /\ IF spawned THEN SendEntityMove ELSE UNCHANGED <<drawn, drawnLook, missed, stale>>
  /\ last' = pos
  /\ lastLook' = look
  /\ UNCHANGED <<pos, look, spawned>>

Next == Move \/ AddPeer \/ Tick

Spec == Init /\ [][Next]_vars

-----------------------------------------------------------------------------
\* However long a player walks, rounding does not add up: the watcher draws it
\* where it was at the last tick, give or take a 32nd (on this grid; of the fractions
\* of a double cutting and rounding may lose half of one more).  A player that was
\* spawned in the middle of a move is drawn as far beyond that as the spawn was ahead
\* of the tick before it: the next tick sends that movement once more, no later one
\* makes it good or worse, and a teleport ends it.
NoDrift ==
  spawned => \A a \in Axis : Rounded(last[a]) + missed[a] - drawn[a] \in {0, 1}

\* A watcher draws the look of the last tick, exactly, unless it was spawned in
\* the middle of a turn that was taken back before the tick: a look is sent
\* whole, but only when it differs from the tick before.
LookShown == (spawned /\ ~stale) => drawnLook = Angle(lastLook)
=============================================================================
