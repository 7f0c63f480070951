-------------------------------- MODULE Wire --------------------------------
(***************************************************************************)
(* Server together with the streams to the games: what module Server calls *)
(* `spawned' is here what a game makes of the packets it has read, once it *)
(* has read all that is queued for it.                                     *)
(*                                                                         *)
(* Every action of Server that queues packets is taken together with what  *)
(* it does to the streams.  Packets that say who is drawn are followed one *)
(* by one, with the answer to the login and the kick; all others (chat,    *)
(* movements, chunks, the time) are left out, except that a write may be   *)
(* started for them alone.                                                 *)
(*                                                                         *)
(* A write takes what is queued when it starts, and the game may read its  *)
(* packets before or after it ends.  While it is in flight its bytes stay  *)
(* in the stream buffer; queueing more may make the buffer move them, and  *)
(* what the game makes of the rest is then not followed.                   *)
(*                                                                         *)
(* Left out: the end of the process and of accepting (module Server), and  *)
(* what the socket of a DISCONNECTED client may still write.               *)
(***************************************************************************)
EXTENDS Server, SequencesExt

VARIABLES
  wire,   \* per client: Client::m_writing, m_outgoing, and what the game is still to read
  game    \* what each game has made of the packets it has read

wireVars == <<vars, wire, game>>

\* A new Client, and a game that has read nothing.
NewWire == [m_writing |-> FALSE, m_outgoing |-> <<>>, pipe |-> <<>>]
NewGame == [joined |-> FALSE, drawn |-> {}, over |-> FALSE, confused |-> FALSE, garbled |-> FALSE]

WireInit ==
  /\ Init
  /\ wire = [c \in Client |-> NewWire]
  /\ game = [c \in Client |-> NewGame]

-----------------------------------------------------------------------------
\* The game g reads the packet p.  It expects the answer to its login before
\* anything else and only once, an entity it does not draw in a spawn, and
\* nothing after a kick; it ignores a destroy of what it does not draw.
Reads(g, p) ==
  LET expected == /\ ~g.over
                  /\ p[1] \in {"spawn", "destroy"} => g.joined
                  /\ p[1] = "spawn" => p[2] \notin g.drawn
                  /\ p[1] = "login" => ~g.joined
  IN  IF g.garbled THEN g
      ELSE IF ~expected THEN [g EXCEPT !.confused = TRUE]
      ELSE CASE p[1] = "login"   -> [g EXCEPT !.joined = TRUE]
             [] p[1] = "spawn"   -> [g EXCEPT !.drawn = @ \cup {p[2]}]
             [] p[1] = "destroy" -> [g EXCEPT !.drawn = @ \ {p[2]}]
             [] p[1] = "kick"    -> [g EXCEPT !.over = TRUE]

\* It reads these packets one after the other.
ReadsAll(g, packets) == FoldLeft(Reads, g, packets)

\* A packet of this kind for every client of S, in the order of m_clients.
Each(kind, S) == [i \in 1..Cardinality(S) |-> <<kind, SetToSeq(S)[i]>>]

\* handleLogin answers c and then calls notifyConnected, c being PLAYING.
AtLoginAnswerLast(c, d) ==
  CASE d = c         -> Each("spawn", Playing) \o << <<"login">> >>
    [] d \in Playing -> Each("spawn", {c})
    [] OTHER         -> <<>>
AtLogin(c, d) ==
  CASE d = c         -> << <<"login">> >> \o Each("spawn", Playing)
    [] d \in Playing -> Each("spawn", {c})
    [] OTHER         -> <<>>

\* removePeer, by checkClientStatus, for the clients in left that have played.
AtTick(left, d) == IF d \in Playing THEN Each("destroy", Announced(left)) ELSE <<>>

\* sendKick.
Kick == <<"kick">>

Put(w, packets) == [w EXCEPT !.m_outgoing = @ \o packets]

\* writeIfNeeded.  With none of the packets queued that are followed there may
\* still be others to write.
Started(w) == [m_writing |-> TRUE, m_outgoing |-> <<>>, pipe |-> w.pipe \o w.m_outgoing]
WriteNothing(w) == {w}
WriteIfNeeded(w) ==
  IF w.m_writing THEN {w}
  ELSE {Started(w)} \cup {v \in {w} : w.m_outgoing = <<>>}

\* A write has ended: handleWrite consumes the bytes that were written.
EndedAll(w) == [w EXCEPT !.m_writing = FALSE, !.m_outgoing = <<>>]
Ended(w) == [w EXCEPT !.m_writing = FALSE]

\* A handler of c ends: each client d has been queued packets[d], and
\* handleRead calls writeIfNeeded for c alone.
Flushed(c, packets) ==
  \E w \in WriteIfNeeded(Put(wire[c], packets[c])) :
    wire' = [d \in Client |-> IF d = c THEN w ELSE Put(wire[d], packets[d])]

-----------------------------------------------------------------------------
WireAccept(c) == HandleAccept(c) /\ up' /\ UNCHANGED <<wire, game>>

WireLogin(c) ==
  /\ HandleLogin(c)
  /\ Flushed(c, [d \in Client |-> AtLogin(c, d)])
  /\ UNCHANGED game

\* disconnect(reason) queues the kick.
WireDisconnect(c) ==
  /\ Disconnect(c)
  /\ Flushed(c, [d \in Client |-> IF d = c THEN <<Kick>> ELSE <<>>])
  /\ UNCHANGED game

\* Any other command, which may have been queued an answer.
Command(c) ==
  /\ m_state[c] \in {"CONNECTED", "PLAYING", "DISCONNECTING"}
  /\ Flushed(c, [d \in Client |-> <<>>])
  /\ UNCHANGED <<vars, game>>

\* handleWrite without error: the end for a client that is being disconnected,
\* the next write, if there is something to write, for any other.
WriteDone(c) ==
  /\ m_state[c] # "DISCONNECTED" /\ wire[c].m_writing
  /\ \/ /\ m_state[c] = "DISCONNECTING" /\ Drop(c)
        /\ wire' = [wire EXCEPT ![c] = Ended(@)]
     \/ /\ m_state[c] # "DISCONNECTING"
        /\ \E w \in WriteIfNeeded(Ended(wire[c])) : wire' = [wire EXCEPT ![c] = w]
        /\ UNCHANGED vars
  /\ UNCHANGED game

\* The 0xFF packet, or handleRead or handleWrite with an error.
Breaks(c) == Drop(c) /\ UNCHANGED <<wire, game>>

\* The clients that are erased are destroyed, and their games left to themselves.
WireTick ==
  /\ Tick
  /\ wire' = [d \in Client |-> IF d \in Gone THEN NewWire ELSE Put(wire[d], AtTick(Gone, d))]
  /\ game' = [d \in Client |-> IF d \in Gone THEN NewGame ELSE game[d]]

\* setHelper appends to the buffer of a write in flight, and the buffer moves
\* what is still to be sent.
BufferMoves(c) ==
  /\ m_state[c] \in {"CONNECTED", "PLAYING"}
  /\ wire[c].m_writing /\ wire[c].pipe # <<>>
  /\ game' = [game EXCEPT ![c] = [NewGame EXCEPT !.garbled = TRUE]]
  /\ UNCHANGED <<vars, wire>>

\* The game reads a packet.
Receive(c) ==
  /\ c \in m_clients /\ wire[c].pipe # <<>>
  /\ game' = [game EXCEPT ![c] = Reads(@, Head(wire[c].pipe))]
  /\ wire' = [wire EXCEPT ![c].pipe = Tail(@)]
  /\ UNCHANGED vars

WireNext ==
  \/ \E c \in Client : \/ WireAccept(c)
                       \/ WireLogin(c)
                       \/ WireDisconnect(c)
                       \/ Command(c)
                       \/ WriteDone(c)
                       \/ Breaks(c)
                       \/ BufferMoves(c)
                       \/ Receive(c)
  \/ WireTick

\* The ticks go on, a write ends, and a game keeps sending and reading: one that
\* does not for ever has lost its connection (Breaks).
WireSpec ==
  /\ WireInit /\ [][WireNext]_wireVars
  /\ WF_wireVars(WireTick)
  /\ \A c \in Client : /\ SF_wireVars(WriteDone(c))
                       /\ SF_wireVars(Command(c))
                       /\ SF_wireVars(Receive(c))

-----------------------------------------------------------------------------
\* The games of the registered clients whose stream was not moved in memory.
Followed == {c \in m_clients : ~game[c].garbled}

\* A game that has read everything queued for it.
CaughtUp(c) == ReadsAll(game[c], wire[c].pipe \o wire[c].m_outgoing)

\* The streams tell the games what the server takes them to know: no packet is
\* lost, repeated or overtaken by another on its way through the buffer and the
\* writes, whoever queued it.
StreamTellsSpawned == \A c \in Followed : CaughtUp(c).drawn = spawned[c]

\* No game reads a packet it cannot make sense of at that point: anything
\* before the answer to its login or after a kick, or an entity twice.
NeverConfused == \A c \in Followed : ~CaughtUp(c).confused

\* When no more clients come and go, every game ends up drawing exactly the
\* other players: packets that others queue, and start no write for, included.
GamesConverge == <>[](\A c \in Playing \cap Followed : game[c].drawn = Playing \ {c})
=============================================================================
