--------------------------- MODULE ServerProofs -----------------------------
(***************************************************************************)
(* Module Server for any finite set of clients and any maxPlayers: what    *)
(* each game is told about the other players is consistent.                *)
(***************************************************************************)
EXTENDS Server, TLAPS, FiniteSetTheorems

\* A client plays at most once, and only after it was CONNECTED.
PlayedOnce ==
  \A c \in Client : /\ m_state[c] \in {"LISTENING", "CONNECTED"} => ~m_hasPlayed[c]
                    /\ m_state[c] = "PLAYING" => m_hasPlayed[c]

\* A player's game draws other clients only, all of which have played.
DrawsPlayers ==
  \A v \in Playing : \A e \in spawned[v] : e # v /\ e \in m_clients /\ m_hasPlayed[e]

\* A game that has not been logged in to draws nobody and was sent nothing stray.
BlankBeforeLogin ==
  /\ \A c \in Client : ~m_hasPlayed[c] => spawned[c] = {}
  /\ \A m \in stray : m_hasPlayed[m[2]]

\* Every registered client that has played is either drawn by a player's game
\* or had left when that player logged in.
MetOrGone ==
  up => \A v \in Playing : \A e \in m_clients :
          m_hasPlayed[e] /\ e # v => e \in spawned[v] \cup goneAtLogin[v]

\* The inductive invariant.
IInv ==
  /\ TypeOK
  /\ PlayedOnce
  /\ DrawsPlayers
  /\ BlankBeforeLogin
  /\ MetOrGone
  /\ MutualVisibility
  /\ NoStrayUpdate
  /\ StrayDestroyExplained

-----------------------------------------------------------------------------
\* Every action keeps the types of the variables (the state of server.cpp).
LEMMA TypeStep == TypeOK /\ [Next]_vars => TypeOK'
<1> SUFFICES ASSUME TypeOK, [Next]_vars PROVE TypeOK'
  OBVIOUS
<1> USE DEF TypeOK, State
<1>1. ASSUME NEW c \in Client, HandleAccept(c) PROVE TypeOK'
  BY <1>1 DEF HandleAccept
<1>2. ASSUME NEW c \in Client, HandleLogin(c) PROVE TypeOK'
  <2>1. Playing \subseteq Client
    BY DEF Playing
  <2>2. spawned' \in [Client -> SUBSET Client]
    BY <1>2, <2>1 DEF HandleLogin, SpawnedAtLogin
  <2>3. stray' \subseteq Packet
    BY <1>2, <2>1 DEF HandleLogin, StrayAtLogin, Packet
  <2>4. goneAtLogin' \in [Client -> SUBSET Client]
    BY <1>2 DEF HandleLogin
  <2>5. QED
    BY <1>2, <2>2, <2>3, <2>4 DEF HandleLogin
<1>3. ASSUME NEW c \in Client, Disconnect(c) PROVE TypeOK'
  BY <1>3 DEF Disconnect
<1>4. ASSUME NEW c \in Client, Drop(c) PROVE TypeOK'
  BY <1>4 DEF Drop
<1>5. CASE HandleAcceptError
  BY <1>5 DEF HandleAcceptError
<1>6. CASE HandlerThrows
  BY <1>6 DEF HandlerThrows
<1>7. ASSUME NEW left \in SUBSET Client
      PROVE  /\ SpawnedAfter(left) \in [Client -> SUBSET Client]
             /\ StrayAtTick(left) \subseteq Packet
  <2>1. Playing \subseteq Client /\ Announced(left) \subseteq Client
    BY DEF Playing, Announced
  <2>2. SpawnedAfter(left) \in [Client -> SUBSET Client]
    BY DEF SpawnedAfter
  <2>3. StrayAtTick(left) \subseteq Packet
    BY <2>1 DEF StrayAtTick, Packet
  <2>4. QED
    BY <2>2, <2>3
<1>8. CASE Tick
  <2>1. Gone \in SUBSET Client
    BY DEF Gone
  <2>2. spawned' \in [Client -> SUBSET Client] /\ stray' \subseteq Packet
    BY <1>7, <1>8, <2>1 DEF Tick
  <2>3. QED
    BY <1>8, <2>2 DEF Tick
<1>9. CASE TickThrows
  <2>1. PICK c \in Gone : \E done \in SUBSET (Gone \ {c}) :
              /\ m_clients' = m_clients \ done
              /\ spawned' = SpawnedAfter(done \cup {c})
              /\ stray' = stray \cup StrayAtTick(done \cup {c})
    BY <1>9 DEF TickThrows
  <2>2. PICK done \in SUBSET (Gone \ {c}) :
              /\ m_clients' = m_clients \ done
              /\ spawned' = SpawnedAfter(done \cup {c})
              /\ stray' = stray \cup StrayAtTick(done \cup {c})
    BY <2>1
  <2>3. done \cup {c} \in SUBSET Client
    BY DEF Gone
  <2>4. spawned' \in [Client -> SUBSET Client] /\ stray' \subseteq Packet
    BY <1>7, <2>2, <2>3
  <2>5. QED
    BY <1>9, <2>2, <2>4 DEF TickThrows
<1>10. CASE UNCHANGED vars
  BY <1>10 DEF vars
<1>11. QED
  BY <1>1, <1>2, <1>3, <1>4, <1>5, <1>6, <1>8, <1>9, <1>10 DEF Next

\* The variables of Server always have their types.
THEOREM TypeCorrect == Spec => []TypeOK
<1>1. Init => TypeOK
  BY DEF Init, TypeOK, State
<1>2. QED
  BY <1>1, TypeStep, PTL DEF Spec

-----------------------------------------------------------------------------
\* The initial state satisfies the inductive invariant: nobody is registered.
LEMMA InvInit == Init => IInv
<1> SUFFICES ASSUME Init PROVE IInv
  OBVIOUS
<1>1. TypeOK
  BY DEF Init, TypeOK, State
<1>2. Playing = {}
  BY DEF Init, Playing
<1>3. QED
  BY <1>1, <1>2 DEF Init, IInv, PlayedOnce, DrawsPlayers, BlankBeforeLogin, MetOrGone,
       MutualVisibility, NoStrayUpdate, StrayDestroyExplained

\* handleLogin: the newcomer and the players are told of each other, and
\* nobody is told twice.
LEMMA LoginKeeps ==
  ASSUME IInv, TypeOK', NEW c \in Client, HandleLogin(c)
  PROVE  IInv'
<1> USE DEF IInv, TypeOK
<1>1. Playing' = Playing \cup {c} /\ c \notin Playing /\ ~m_hasPlayed[c]
  BY DEF HandleLogin, Playing, PlayedOnce
<1>2. spawned[c] = {} /\ \A p \in Playing : c \notin spawned[p]
  BY <1>1 DEF BlankBeforeLogin, DrawsPlayers
<1>3. stray' = stray
  BY <1>2 DEF HandleLogin, StrayAtLogin
<1>4. /\ spawned'[c] = Playing
      /\ \A p \in Playing : spawned'[p] = spawned[p] \cup {c}
      /\ \A p \in Client \ Playing : p # c => spawned'[p] = spawned[p]
  BY <1>1, <1>2 DEF HandleLogin, SpawnedAtLogin, Playing
<1>5. /\ m_clients' = m_clients /\ c \in m_clients /\ up' = up
      /\ m_hasPlayed' = [m_hasPlayed EXCEPT ![c] = TRUE]
      /\ goneAtLogin' = [goneAtLogin EXCEPT ![c] =
                           {p \in m_clients \ Playing : m_hasPlayed[p]}]
      /\ m_state' = [m_state EXCEPT ![c] = "PLAYING"]
  BY DEF HandleLogin
<1>6. PlayedOnce'
  BY <1>5 DEF PlayedOnce, State
<1>7. DrawsPlayers'
  <2> SUFFICES ASSUME NEW v \in Playing', NEW e \in spawned'[v]
               PROVE  e # v /\ e \in m_clients /\ m_hasPlayed'[e]
    BY <1>5 DEF DrawsPlayers
  <2>1. CASE v = c
    BY <2>1, <1>1, <1>4, <1>5 DEF Playing, PlayedOnce
  <2>2. CASE v \in Playing
    BY <2>2, <1>1, <1>4, <1>5 DEF Playing, DrawsPlayers
  <2>3. QED
    BY <1>1, <2>1, <2>2
<1>8. BlankBeforeLogin'
  BY <1>3, <1>4, <1>5, <1>1 DEF BlankBeforeLogin, Playing, PlayedOnce, Packet
<1>9. MetOrGone'
  <2> SUFFICES ASSUME up, NEW v \in Playing', NEW e \in m_clients,
                      m_hasPlayed'[e], e # v
               PROVE  e \in spawned'[v] \cup goneAtLogin'[v]
    BY <1>5 DEF MetOrGone
  <2>1. CASE v = c
    BY <2>1, <1>4, <1>5
  <2>2. CASE v # c /\ e = c
    BY <2>2, <1>1, <1>4
  <2>3. CASE v # c /\ e # c
    BY <2>3, <1>1, <1>4, <1>5 DEF MetOrGone, Playing
  <2>4. QED
    BY <2>1, <2>2, <2>3
<1>10. MutualVisibility'
  BY <1>1, <1>4 DEF MutualVisibility
<1>11. NoStrayUpdate'
  BY <1>3 DEF NoStrayUpdate
<1>12. StrayDestroyExplained'
  <2> SUFFICES ASSUME NEW m \in stray, m[1] = "destroy"
               PROVE  m[3] \in goneAtLogin'[m[2]]
    BY <1>3 DEF StrayDestroyExplained
  <2>1. m[2] # c /\ m[2] \in Client
    BY <1>1 DEF BlankBeforeLogin, Packet
  <2>2. QED
    BY <2>1, <1>5 DEF StrayDestroyExplained
<1>13. QED
  BY <1>6, <1>7, <1>8, <1>9, <1>10, <1>11, <1>12

\* checkClientStatus, whole or cut short by an exception: the clients in left
\* are announced and those in out erased; only a pass that is cut short erases
\* fewer clients than it announces.
LEMMA TickKeeps ==
  ASSUME IInv, TypeOK',
         NEW left \in SUBSET Gone, NEW out \in SUBSET left,
         up, up' => out = left,
         m_clients' = m_clients \ out,
         spawned' = SpawnedAfter(left),
         stray' = stray \cup StrayAtTick(left),
         UNCHANGED <<m_state, m_hasPlayed, goneAtLogin>>
  PROVE  IInv'
<1> USE DEF IInv, TypeOK
<1>1. Playing' = Playing /\ Playing \cap left = {}
  BY DEF Playing, Gone
<1>2. \A v \in Playing : spawned'[v] = spawned[v] \ Announced(left)
  BY DEF SpawnedAfter, Playing
<1>3. \A v \in Client \ Playing : spawned'[v] = spawned[v]
  BY DEF SpawnedAfter
<1>4. PlayedOnce'
  BY DEF PlayedOnce
<1>5. DrawsPlayers'
  <2> SUFFICES ASSUME NEW v \in Playing, NEW e \in spawned'[v]
               PROVE  e # v /\ e \in m_clients \ out /\ m_hasPlayed[e]
    BY <1>1 DEF DrawsPlayers
  <2>1. e \in spawned[v] /\ e \notin Announced(left)
    BY <1>2
  <2>2. e # v /\ e \in m_clients /\ m_hasPlayed[e]
    BY <2>1 DEF DrawsPlayers
  <2>3. e \notin left
    BY <2>1, <2>2 DEF Announced
  <2>4. QED
    BY <2>2, <2>3
<1>6. \A m \in StrayAtTick(left) :
        m[1] = "destroy" /\ m[2] \in Playing /\ m[3] \in Announced(left)
                         /\ m[3] \notin spawned[m[2]]
  BY DEF StrayAtTick, MutualVisibility
<1>7. BlankBeforeLogin'
  <2>1. \A c \in Client : ~m_hasPlayed'[c] => spawned'[c] = {}
    BY <1>3 DEF BlankBeforeLogin, PlayedOnce, Playing
  <2>2. \A m \in stray' : m_hasPlayed'[m[2]]
    BY <1>6 DEF BlankBeforeLogin, PlayedOnce, Playing
  <2>3. QED
    BY <2>1, <2>2 DEF BlankBeforeLogin
<1>8. MetOrGone'
  BY <1>1, <1>2 DEF MetOrGone, Announced
<1>9. MutualVisibility'
  BY <1>1, <1>2 DEF MutualVisibility, Announced
<1>10. NoStrayUpdate'
  BY <1>6 DEF NoStrayUpdate
<1>11. StrayDestroyExplained'
  <2>1. ASSUME NEW m \in StrayAtTick(left) PROVE m[3] \in goneAtLogin[m[2]]
    <3>1. m[3] \in m_clients /\ m_hasPlayed[m[3]] /\ m[3] # m[2]
      BY <1>1, <1>6 DEF Announced, Gone
    <3>2. QED
      BY <1>6, <3>1 DEF MetOrGone
  <2>2. QED
    BY <2>1 DEF StrayDestroyExplained
<1>12. QED
  BY <1>4, <1>5, <1>7, <1>8, <1>9, <1>10, <1>11

\* disconnect() and the ways to become DISCONNECTED: c leaves the players.
LEMMA LeaveKeeps ==
  ASSUME IInv, TypeOK', NEW c \in Client, NEW s \in {"DISCONNECTING", "DISCONNECTED"},
         m_state[c] # "LISTENING",
         m_state' = [m_state EXCEPT ![c] = s],
         UNCHANGED <<m_clients, m_hasPlayed, spawned, stray, goneAtLogin, up>>
  PROVE  IInv'
<1> USE DEF IInv, TypeOK
<1>1. Playing' = Playing \ {c}
  BY DEF Playing
<1>2. PlayedOnce'
  BY DEF PlayedOnce
<1>3. DrawsPlayers'
  BY <1>1 DEF DrawsPlayers
<1>4. BlankBeforeLogin'
  BY DEF BlankBeforeLogin
<1>5. MetOrGone'
  BY <1>1 DEF MetOrGone
<1>6. MutualVisibility'
  BY <1>1 DEF MutualVisibility
<1>7. NoStrayUpdate' /\ StrayDestroyExplained'
  BY DEF NoStrayUpdate, StrayDestroyExplained
<1>8. QED
  BY <1>2, <1>3, <1>4, <1>5, <1>6, <1>7

\* handleAccept: the new client neither plays nor has played.
LEMMA AcceptKeeps ==
  ASSUME IInv, TypeOK', NEW c \in Client, HandleAccept(c)
  PROVE  IInv'
<1> USE DEF IInv, TypeOK, HandleAccept
<1>1. Playing' = Playing /\ ~m_hasPlayed[c]
  BY DEF Playing, PlayedOnce
<1>2. PlayedOnce'
  BY DEF PlayedOnce
<1>3. DrawsPlayers'
  BY <1>1 DEF DrawsPlayers
<1>4. BlankBeforeLogin'
  BY DEF BlankBeforeLogin
<1>5. MetOrGone'
  BY <1>1 DEF MetOrGone
<1>6. MutualVisibility'
  BY <1>1 DEF MutualVisibility
<1>7. NoStrayUpdate' /\ StrayDestroyExplained'
  BY DEF NoStrayUpdate, StrayDestroyExplained
<1>8. QED
  BY <1>2, <1>3, <1>4, <1>5, <1>6, <1>7

\* A step that leaves the clients and what they were told alone: only the
\* process may end.
LEMMA OthersKeep ==
  ASSUME IInv, TypeOK', up' => up,
         UNCHANGED <<m_clients, m_state, m_hasPlayed, spawned, stray, goneAtLogin>>
  PROVE  IInv'
<1>1. Playing' = Playing
  BY DEF Playing
<1>2. QED
  BY <1>1 DEF IInv, PlayedOnce, DrawsPlayers, BlankBeforeLogin, MetOrGone, MutualVisibility,
       NoStrayUpdate, StrayDestroyExplained

\* Every step of the server keeps the inductive invariant.
LEMMA InvStep == IInv /\ [Next]_vars => IInv'
<1> SUFFICES ASSUME IInv, [Next]_vars PROVE IInv'
  OBVIOUS
<1>0. TypeOK'
  BY TypeStep DEF IInv
<1>1. ASSUME NEW c \in Client, HandleAccept(c) PROVE IInv'
  BY <1>0, <1>1, AcceptKeeps
<1>2. ASSUME NEW c \in Client, HandleLogin(c) PROVE IInv'
  BY <1>0, <1>2, LoginKeeps
<1>3. ASSUME NEW c \in Client, Disconnect(c) PROVE IInv'
  BY <1>0, <1>3, LeaveKeeps DEF Disconnect, Dispatching
<1>4. ASSUME NEW c \in Client, Drop(c) PROVE IInv'
  BY <1>0, <1>4, LeaveKeeps DEF Drop
<1>5. CASE HandleAcceptError
  BY <1>0, <1>5, OthersKeep DEF HandleAcceptError
<1>6. CASE HandlerThrows
  BY <1>0, <1>6, OthersKeep DEF HandlerThrows
<1>7. CASE Tick
  BY <1>0, <1>7, TickKeeps DEF Tick
<1>8. CASE TickThrows
  <2>1. PICK c \in Gone : \E done \in SUBSET (Gone \ {c}) :
             /\ m_clients' = m_clients \ done
             /\ spawned' = SpawnedAfter(done \cup {c})
             /\ stray' = stray \cup StrayAtTick(done \cup {c})
    BY <1>8 DEF TickThrows
  <2>0. PICK done \in SUBSET (Gone \ {c}) :
             /\ m_clients' = m_clients \ done
             /\ spawned' = SpawnedAfter(done \cup {c})
             /\ stray' = stray \cup StrayAtTick(done \cup {c})
    BY <2>1
  <2>2. up /\ ~up' /\ UNCHANGED <<m_state, m_hasPlayed, goneAtLogin>>
    BY <1>8 DEF TickThrows
  <2>3. done \cup {c} \in SUBSET Gone /\ done \in SUBSET (done \cup {c})
    OBVIOUS
  <2>4. QED
    BY <1>0, <2>0, <2>2, <2>3, TickKeeps
<1>9. CASE UNCHANGED vars
  BY <1>0, <1>9, OthersKeep DEF vars
<1>10. QED
  BY <1>1, <1>2, <1>3, <1>4, <1>5, <1>6, <1>7, <1>8, <1>9 DEF Next

\* The inductive invariant holds in every reachable state.
THEOREM Invariant == Spec => []IInv
BY InvInit, InvStep, PTL DEF Spec

\* However logins, departures and ticks interleave, any two players have been
\* told to draw each other (notifyConnected).
THEOREM PlayersSeeEachOther == Spec => []MutualVisibility
<1>1. IInv => MutualVisibility
  BY DEF IInv
<1>2. QED
  BY <1>1, Invariant, PTL

\* A player's game never draws a client that has been erased (checkClientStatus).
THEOREM NoGhost == Spec => []NoGhosts
<1>1. IInv => NoGhosts
  BY DEF IInv, NoGhosts, DrawsPlayers
<1>2. QED
  BY <1>1, Invariant, PTL

\* No game is sent a movement of an entity it was not told to spawn, or is told
\* to spawn one twice (sendUpdatedPositions and notifyConnected).
THEOREM NoStray == Spec => []NoStrayUpdate
<1>1. IInv => NoStrayUpdate
  BY DEF IInv
<1>2. QED
  BY <1>1, Invariant, PTL

\* The only stray packets destroy a player that had left before the receiver
\* logged in and had not yet been erased then.
THEOREM StrayDestroys == Spec => []StrayDestroyExplained
<1>1. IInv => StrayDestroyExplained
  BY DEF IInv
<1>2. QED
  BY <1>1, Invariant, PTL

-----------------------------------------------------------------------------
\* The number of players grows in handleLogin only, by one, below maxPlayers.
LEMMA CapacityStep == TypeOK /\ Capacity /\ [Next]_vars => Capacity'
<1> SUFFICES ASSUME TypeOK, Capacity, [Next]_vars PROVE Capacity'
  OBVIOUS
<1>1. IsFiniteSet(Playing) /\ Cardinality(Playing) \in Nat
  BY ServerAssumption, FS_Subset, FS_CardinalityType DEF TypeOK, Playing
<1>2. ASSUME NEW c \in Client, HandleLogin(c) PROVE Capacity'
  <2>1. Playing' = Playing \cup {c}
    BY <1>2 DEF HandleLogin, Playing, TypeOK
  <2>2. Cardinality(Playing \cup {c}) \in {Cardinality(Playing), Cardinality(Playing) + 1}
    <3>1. Cardinality(Playing \cup {c})
            = IF c \in Playing THEN Cardinality(Playing) ELSE Cardinality(Playing) + 1
      BY <1>1, FS_AddElement, Zenon
    <3>2. QED
      BY <3>1, Zenon
  <2>3. Cardinality(Playing) < MaxPlayers
    BY <1>2 DEF HandleLogin, HasRoom
  <2>4. Cardinality(Playing') \in {Cardinality(Playing), Cardinality(Playing) + 1}
    BY <2>1, <2>2, Zenon
  <2>5. Cardinality(Playing') <= MaxPlayers
    BY <1>1, <2>3, <2>4, ServerAssumption
  <2>6. QED
    BY <2>5 DEF Capacity
<1>3. CASE Playing' \subseteq Playing
  <2>1. Cardinality(Playing') \in Nat /\ Cardinality(Playing') <= Cardinality(Playing)
    BY <1>1, <1>3, FS_Subset, FS_CardinalityType
  <2>2. QED
    BY <1>1, <1>3, <2>1, ServerAssumption DEF Capacity
<1>4. ASSUME NEW c \in Client, HandleAccept(c) \/ Disconnect(c) \/ Drop(c)
      PROVE  Playing' \subseteq Playing
  BY <1>4 DEF HandleAccept, Disconnect, Drop, Playing, TypeOK
<1>5. ASSUME HandleAcceptError \/ HandlerThrows \/ Tick \/ TickThrows \/ UNCHANGED vars
      PROVE  Playing' \subseteq Playing
  BY <1>5 DEF HandleAcceptError, HandlerThrows, Tick, TickThrows, vars, Playing
<1>6. QED
  BY <1>2, <1>3, <1>4, <1>5 DEF Next

\* The server never has more players than maxPlayers (handleLogin).
THEOREM NeverOverfull == Spec => []Capacity
<1>1. Init => Capacity
  BY DEF Init, Capacity, Playing
<1>2. QED
  BY <1>1, CapacityStep, TypeCorrect, PTL DEF Spec

-----------------------------------------------------------------------------
\* Only a client that was connected is DISCONNECTED, and one that is not
\* registered was either never accepted or has been erased.
Registered == \A c \in Client :
  c \notin m_clients => m_state[c] \in {"LISTENING", "DISCONNECTED"}

\* Registration and state go together in every step (handleAccept, tick).
LEMMA RegisteredStep == TypeOK /\ Registered /\ [Next]_vars => Registered'
<1> SUFFICES ASSUME TypeOK, Registered, [Next]_vars PROVE Registered'
  OBVIOUS
<1> USE DEF Registered, TypeOK
<1>1. ASSUME NEW c \in Client, HandleAccept(c) \/ HandleLogin(c) \/ Disconnect(c) \/ Drop(c)
      PROVE  Registered'
  BY <1>1 DEF HandleAccept, HandleLogin, Disconnect, Drop
<1>2. CASE HandleAcceptError \/ HandlerThrows \/ UNCHANGED vars
  BY <1>2 DEF HandleAcceptError, HandlerThrows, vars
<1>3. ASSUME m_state' = m_state, NEW out \in SUBSET Gone, m_clients' = m_clients \ out
      PROVE  Registered'
  BY <1>3 DEF Gone
<1>4. CASE Tick
  BY <1>3, <1>4 DEF Tick
<1>5. CASE TickThrows
  <2>1. PICK c \in Gone : \E done \in SUBSET (Gone \ {c}) : m_clients' = m_clients \ done
    BY <1>5 DEF TickThrows
  <2>2. QED
    BY <1>3, <1>5, <2>1 DEF TickThrows
<1>6. QED
  BY <1>1, <1>2, <1>4, <1>5 DEF Next

\* One client's part in a step of the server is a step of its session.
LEMMA SessionStep ==
  ASSUME TypeOK, TypeOK', Registered, Next, NEW c \in Client
  PROVE  SessionOf(c)!Next \/ UNCHANGED SessionOf(c)!vars
<1> DEFINE Goal == SessionOf(c)!Next \/ UNCHANGED SessionOf(c)!vars
<1> USE DEF TypeOK, Registered, PhaseOf, SessionOf!Next, SessionOf!vars
<1>1. ASSUME up' = up, m_state'[c] = m_state[c], c \in m_clients' <=> c \in m_clients PROVE Goal
  BY <1>1
<1>2. ASSUME NEW d \in Client, HandleAccept(d) PROVE Goal
  <2>1. d \in m_clients' /\ m_state[d] = "LISTENING"
    BY <1>2 DEF HandleAccept
  <2>2. CASE d = c
    BY <1>2, <2>1, <2>2 DEF HandleAccept, SessionOf!Accept, SessionOf!Advance, SessionOf!Halt
  <2>3. CASE d # c
    BY <1>2, <2>1, <2>3 DEF HandleAccept, SessionOf!Halt
  <2>4. QED
    BY <2>2, <2>3
<1>3. ASSUME NEW d \in Client, HandleLogin(d) PROVE Goal
  BY <1>1, <1>3 DEF HandleLogin, SessionOf!Login, SessionOf!Advance
<1>4. ASSUME NEW d \in Client, Disconnect(d) PROVE Goal
  BY <1>1, <1>4 DEF Disconnect, Dispatching, SessionOf!Disconnect, SessionOf!Advance
<1>5. ASSUME NEW d \in Client, Drop(d) PROVE Goal
  BY <1>1, <1>5 DEF Drop, SessionOf!Drop, SessionOf!Advance
<1>6. CASE HandleAcceptError
  BY <1>1, <1>6 DEF HandleAcceptError
<1>7. CASE HandlerThrows
  BY <1>7 DEF HandlerThrows, SessionOf!Halt
<1>8. ASSUME up, m_state' = m_state, NEW out \in SUBSET Gone, m_clients' = m_clients \ out,
             up' = up \/ up' = FALSE
      PROVE  Goal
  <2>1. CASE c \in out
    BY <1>8, <2>1 DEF Gone, SessionOf!Erase
  <2>2. CASE c \notin out
    BY <1>1, <1>8, <2>2 DEF SessionOf!Halt
  <2>3. QED
    BY <2>1, <2>2
<1>9. CASE Tick
  BY <1>8, <1>9 DEF Tick
<1>10. CASE TickThrows
  <2>1. PICK d \in Gone : \E done \in SUBSET (Gone \ {d}) : m_clients' = m_clients \ done
    BY <1>10 DEF TickThrows
  <2>2. QED
    BY <1>8, <1>10, <2>1 DEF TickThrows
<1>11. QED
  BY <1>2, <1>3, <1>4, <1>5, <1>6, <1>7, <1>9, <1>10 DEF Next

\* The life of every client is that of the abstract Session, whatever the others
\* do (handleAccept, handleLogin, disconnect, handleWrite, checkClientStatus).
THEOREM ImplementsSessions == Spec => EachSession
<1> DEFINE Steps == \A c \in Client : SessionOf(c)!Next \/ UNCHANGED SessionOf(c)!vars
<1> DEFINE Starts == \A c \in Client : SessionOf(c)!Init
<1>1. Init => Registered /\ Starts
  BY DEF Init, Registered, SessionOf!Init, PhaseOf
<1>2. Spec => []Registered
  BY <1>1, TypeCorrect, RegisteredStep, PTL DEF Spec
<1>3. TypeOK /\ TypeOK' /\ Registered /\ [Next]_vars => [Steps]_vars
  BY SessionStep
<1>4. QED
  BY <1>1, <1>2, <1>3, TypeCorrect, PTL DEF Spec, EachSession
=============================================================================
