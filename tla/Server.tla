------------------------------- MODULE Server -------------------------------
(***************************************************************************)
(* The Server object of server.cpp and the session of each of its clients: *)
(* who is registered in m_clients, in which state, and which other players *)
(* each client's game has been told to draw.                               *)
(*                                                                         *)
(* Everything runs on one thread: the completion handlers inside           *)
(* io_service::poll() and then Server::tick(), so one handler or one tick  *)
(* is one step, and a poll that runs no handler, one or many is covered by *)
(* letting the steps interleave.  What a handler does to its socket and    *)
(* its buffers is the subject of module Connection; here a socket          *)
(* operation either fails or succeeds, whenever it likes.                  *)
(*                                                                         *)
(* The stream to a client is in order, so what the client's game knows is  *)
(* determined by the packets in the order they are queued; `spawned' is    *)
(* updated when the packet is queued.                                      *)
(***************************************************************************)
EXTENDS Integers, FiniteSets

CONSTANTS Client,      \* the Client objects; each is accepted at most once and has its own EID
          MaxPlayers   \* m_maxPlayers, an int read once from the config file

ASSUME ServerAssumption ==
  /\ IsFiniteSet(Client)
  /\ MaxPlayers \in Int

VARIABLES
  m_clients,     \* the clients registered in the map of that name
  m_state,       \* Client::m_state
  m_hasPlayed,   \* Client::m_hasPlayed
  spawned,       \* spawned[c]: the entities c was told to spawn and not yet to destroy
  stray,         \* packets queued to a game that cannot make sense of them
  goneAtLogin,   \* history: goneAtLogin[c] had left the game, still registered, when c logged in
  accepting,     \* an async_accept is outstanding
  up             \* the process runs: no exception has reached main()

vars == <<m_clients, m_state, m_hasPlayed, spawned, stray, goneAtLogin, accepting, up>>

State == {"LISTENING", "CONNECTED", "PLAYING", "DISCONNECTING", "DISCONNECTED"}

\* A stray packet: the second client is spawned twice, or moved or destroyed
\* without having been spawned, in the game of the first.
Packet == {"spawn", "move", "destroy"} \X Client \X Client

TypeOK ==
  /\ m_clients \subseteq Client
  /\ m_state \in [Client -> State]
  /\ m_hasPlayed \in [Client -> BOOLEAN]
  /\ spawned \in [Client -> SUBSET Client]
  /\ stray \subseteq Packet
  /\ goneAtLogin \in [Client -> SUBSET Client]
  /\ accepting \in BOOLEAN
  /\ up \in BOOLEAN

Init ==
  /\ m_clients = {}
  /\ m_state = [c \in Client |-> "LISTENING"]
  /\ m_hasPlayed = [c \in Client |-> FALSE]
  /\ spawned = [c \in Client |-> {}]
  /\ stray = {}
  /\ goneAtLogin = [c \in Client |-> {}]
  /\ accepting = TRUE
  /\ up = TRUE

-----------------------------------------------------------------------------
\* The clients every broadcast loop of the server selects.
Playing == {c \in m_clients : m_state[c] = "PLAYING"}

\* handleLogin's test, getPlayingCount() >= getPlayingMax() turned round.
HasRoomOffByOne == Cardinality(Playing) <= MaxPlayers
HasRoom == Cardinality(Playing) < MaxPlayers

\* notifyConnected(c, true), c already PLAYING itself: every other player gets
\* addPeer(c) and c gets addPeer of every other player.
SpawnedAtLoginOneWay(c) ==
  [p \in Client |-> IF p \in Playing THEN spawned[p] \cup {c} ELSE spawned[p]]
SpawnedAtLogin(c) ==
  [p \in Client |-> IF p = c THEN spawned[p] \cup Playing
                    ELSE IF p \in Playing THEN spawned[p] \cup {c}
                    ELSE spawned[p]]

StrayAtLogin(c) ==
  {<<"spawn", p, c>> : p \in {q \in Playing : c \in spawned[q]}}
    \cup {<<"spawn", c, p>> : p \in Playing \cap spawned[c]}

\* The clients checkClientStatus erases.
GoneIfPlayed == {c \in m_clients : m_state[c] = "DISCONNECTED" /\ m_hasPlayed[c]}
Gone == {c \in m_clients : m_state[c] = "DISCONNECTED"}

\* Those of them whose departure it announces with notifyConnected(c, false).
AnnouncedAll(left) == left
Announced(left) == {c \in left : m_hasPlayed[c]}

\* removePeer goes to the PLAYING clients only.
SpawnedAfterOthers(left) == spawned
SpawnedAfter(left) ==
  [p \in Client |-> IF p \in Playing THEN spawned[p] \ Announced(left) ELSE spawned[p]]

\* sendUpdatedPositions queues one entity packet per pair of players; then
\* removePeer is queued without looking at what the receiver was told.
StrayAtTick(left) ==
  {m \in {"move"} \X Playing \X Playing : m[2] # m[3] /\ m[3] \notin spawned[m[2]]}
    \cup {m \in {"destroy"} \X Playing \X Announced(left) : m[3] \notin spawned[m[2]]}

-----------------------------------------------------------------------------
\* handleAccept without error: register the client under a new EID and read(),
\* which makes it CONNECTED; remote_endpoint() in the log line between the two
\* throws when the peer has already reset the connection.
HandleAccept(c) ==
  /\ up /\ accepting
  /\ c \notin m_clients /\ m_state[c] = "LISTENING"
  /\ m_clients' = m_clients \cup {c}
  /\ \/ /\ m_state' = [m_state EXCEPT ![c] = "CONNECTED"]
        /\ UNCHANGED up
     \/ /\ up' = FALSE
        /\ UNCHANGED m_state
  /\ UNCHANGED <<m_hasPlayed, spawned, stray, goneAtLogin, accepting>>

\* handleAccept with an error: no new async_accept is started.
HandleAcceptError ==
  /\ up /\ accepting
  /\ accepting' = FALSE
  /\ UNCHANGED <<m_clients, m_state, m_hasPlayed, spawned, stray, goneAtLogin, up>>

\* handleLogin, the whole packet read, the right version and a free place.
HandleLogin(c) ==
  /\ up
  /\ c \in m_clients /\ m_state[c] = "CONNECTED"
  /\ HasRoom
  /\ m_state' = [m_state EXCEPT ![c] = "PLAYING"]
  /\ m_hasPlayed' = [m_hasPlayed EXCEPT ![c] = TRUE]
  /\ spawned' = SpawnedAtLogin(c)
  /\ stray' = stray \cup StrayAtLogin(c)
  /\ goneAtLogin' = [goneAtLogin EXCEPT ![c] =
                       {p \in m_clients \ Playing : m_hasPlayed[p]}]
  /\ UNCHANGED <<m_clients, accepting, up>>

\* The states in which handleRead looks a command up.
DispatchingAll == {"CONNECTED", "PLAYING", "DISCONNECTING", "DISCONNECTED"}
Dispatching == {"CONNECTED", "PLAYING"}

\* disconnect(reason): a ping, a wrong version, a full server, an unknown
\* command or somebody else's entity ID.
Disconnect(c) ==
  /\ up
  /\ c \in m_clients /\ m_state[c] \in Dispatching
  /\ m_state' = [m_state EXCEPT ![c] = "DISCONNECTING"]
  /\ UNCHANGED <<m_clients, m_hasPlayed, spawned, stray, goneAtLogin, accepting, up>>

\* m_state = DISCONNECTED: the 0xFF packet, handleRead or handleWrite with an
\* error, or the end of the write that a DISCONNECTING client was waiting for.
Drop(c) ==
  /\ up
  /\ c \in m_clients /\ m_state[c] \in {"CONNECTED", "PLAYING", "DISCONNECTING"}
  /\ m_state' = [m_state EXCEPT ![c] = "DISCONNECTED"]
  /\ UNCHANGED <<m_clients, m_hasPlayed, spawned, stray, goneAtLogin, accepting, up>>

\* An exception leaves poll(): a string of a login, handshake or chat packet
\* is not valid UTF-16, or a handler runs on the object of an erased client.
HandlerThrows ==
  /\ up
  /\ \E c \in Client : \/ c \in m_clients /\ m_state[c] \in Dispatching
                       \/ c \notin m_clients /\ m_state[c] = "DISCONNECTED"
  /\ up' = FALSE
  /\ UNCHANGED <<m_clients, m_state, m_hasPlayed, spawned, stray, goneAtLogin, accepting>>

\* tick(): checkClientStatus announces and erases every DISCONNECTED client.
Tick ==
  /\ up
  /\ m_clients' = m_clients \ Gone
  /\ spawned' = SpawnedAfter(Gone)
  /\ stray' = stray \cup StrayAtTick(Gone)
  /\ UNCHANGED <<m_state, m_hasPlayed, goneAtLogin, accepting, up>>

\* remote_endpoint() in the log line throws for the client c: it and the
\* clients before it are announced, but c is not erased and the loop ends.
TickThrows ==
  /\ up
  /\ \E c \in Gone : \E done \in SUBSET (Gone \ {c}) :
       /\ m_clients' = m_clients \ done
       /\ spawned' = SpawnedAfter(done \cup {c})
       /\ stray' = stray \cup StrayAtTick(done \cup {c})
  /\ up' = FALSE
  /\ UNCHANGED <<m_state, m_hasPlayed, goneAtLogin, accepting>>

Next ==
  \/ \E c \in Client : \/ HandleAccept(c)
                       \/ HandleLogin(c)
                       \/ Disconnect(c)
                       \/ Drop(c)
  \/ HandleAcceptError
  \/ HandlerThrows
  \/ Tick
  \/ TickThrows

Spec == Init /\ [][Next]_vars

\* main() calls tick() once per frame for as long as the process runs; the write
\* that a DISCONNECTING client waits for ends, or fails (module Connection).
FairSpec ==
  /\ Spec
  /\ WF_vars(Tick)
  /\ \A c \in Client : WF_vars(m_state[c] = "DISCONNECTING" /\ Drop(c))

-----------------------------------------------------------------------------
\* Any two players see each other: whichever logged in second, both games
\* were told to spawn the other (notifyConnected from handleLogin).
MutualVisibility == \A a, b \in Playing : a # b => b \in spawned[a]

\* No ghosts: a player's game only draws entities of clients that are still
\* registered; the step that erases a client is the one that destroys its
\* entity everywhere (checkClientStatus and notifyConnected).
NoGhosts == \A c \in Playing : spawned[c] \subseteq m_clients

\* The two broadcast loops agree: no game is sent a movement of an entity it
\* does not know, and none is told to spawn the same entity twice.
NoStrayUpdate == \A m \in stray : m[1] = "destroy"

\* A game may be told to destroy an entity it does not know, but only when
\* that player had already left, not yet erased, at the receiver's login.
StrayDestroyExplained ==
  \A m \in stray : m[1] = "destroy" => m[3] \in goneAtLogin[m[2]]

\* The server never has more players than maxPlayers (handleLogin).
Capacity == Playing # {} => Cardinality(Playing) <= MaxPlayers

\* A kicked or dropped client is eventually erased from m_clients, and from then
\* on no player's game draws it, unless the process has ended (handleWrite, then
\* checkClientStatus, called by every tick).
Departure ==
  \A c \in Client :
    (m_state[c] \in {"DISCONNECTING", "DISCONNECTED"})
      ~> [](~up \/ (c \notin m_clients /\ \A p \in Playing : c \notin spawned[p]))

\* Each client, seen alone, goes through the life of the abstract Session, which
\* its socket implements (module Connection), whatever the other clients do.
PhaseOf(c) ==
  IF m_state[c] = "DISCONNECTED" /\ c \notin m_clients THEN "ERASED" ELSE m_state[c]
SessionOf(c) == INSTANCE Session WITH phase <- PhaseOf(c), up <- up
EachSession ==
  /\ \A c \in Client : SessionOf(c)!Init
  /\ [][\A c \in Client : SessionOf(c)!Next \/ UNCHANGED SessionOf(c)!vars]_vars
=============================================================================
