------------------------------ MODULE Session -------------------------------
(***************************************************************************)
(* What the life of one client promises, whatever its socket does: it goes *)
(* through the states of Client::State in order, leaves the game for good  *)
(* once it has left it, and a client that is being disconnected is finally *)
(* disconnected and erased from the server.                                *)
(***************************************************************************)
VARIABLES phase,   \* Client::State, and ERASED once the server has dropped the object
          up       \* the process runs

vars == <<phase, up>>

Phase == {"LISTENING", "CONNECTED", "PLAYING", "DISCONNECTING", "DISCONNECTED", "ERASED"}

Init == phase = "LISTENING" /\ up = TRUE

Advance(from, to) ==
  /\ up
  /\ phase \in from
  /\ phase' = to
  /\ UNCHANGED up

Accept == Advance({"LISTENING"}, "CONNECTED")

Login == Advance({"CONNECTED"}, "PLAYING")

Disconnect == Advance({"CONNECTED", "PLAYING"}, "DISCONNECTING")

Drop == Advance({"CONNECTED", "PLAYING", "DISCONNECTING"}, "DISCONNECTED")

\* The tick that erases this client may be ended by an exception over another one.
Erase ==
  /\ up
  /\ phase = "DISCONNECTED"
  /\ phase' = "ERASED"
  /\ up' \in BOOLEAN

Halt == up /\ up' = FALSE /\ UNCHANGED phase

Next == Accept \/ Login \/ Disconnect \/ Drop \/ Erase \/ Halt

\* A DISCONNECTING client does not stay so, and a DISCONNECTED one is erased.
Leave == phase = "DISCONNECTING" /\ Drop

SafeSpec == Init /\ [][Next]_vars

Spec == SafeSpec /\ WF_vars(Leave) /\ WF_vars(Erase)
=============================================================================
