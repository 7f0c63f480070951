------------------------------ MODULE Chunks -------------------------------
(***************************************************************************)
(* The chunks of the world: those the server holds in m_loadedChunks,      *)
(* those it has sent to each player (Client::m_chunksLoaded), and the      *)
(* blocks that were destroyed in them.                                     *)
(*                                                                         *)
(* tick() walks over the players, sends each the chunks around it that it  *)
(* lacks and then drops the chunks no player is near.  Between two ticks   *)
(* players log in, move anywhere, dig and leave.                           *)
(*                                                                         *)
(* A chunk is its pair of coordinates; of its blocks one is modelled, the  *)
(* one that may be dug.  m_chunksLoaded is a list without duplicates       *)
(* (updateChunk returns early) and its order is never used: it is a set.   *)
(***************************************************************************)
EXTENDS Integers, SequencesExt

CONSTANTS Player,       \* clients that may log in, each once
          ChunkRange,   \* getChunkRange(): 9 in the code
          Place,        \* bound: the chunks players move to
          DigAt         \* bound: the chunks whose block is dug

ASSUME ChunksAssumption ==
  /\ ChunkRange \in Nat \ {0}
  /\ Place \subseteq Int \X Int
  /\ DigAt \subseteq Int \X Int

VARIABLES
  m_state,          \* Client::m_state, as far as playing is concerned
  pos,              \* the chunk of the player's position: getChunkX(), getChunkZ()
  m_chunksLoaded,   \* the chunks enabled in the player's game
  m_loadedChunks,   \* the keys <<world, chunk>> of the server's map
  dug,              \* the keys whose chunk has had its block set to 0
  shown,            \* shown[p]: the chunks whose block p's game shows destroyed
  placed,           \* how often p was sent its position (sendPlayerPosition)
  settled           \* history: players that have not moved since their last tick

vars == <<m_state, pos, m_chunksLoaded, m_loadedChunks, dug, shown, placed, settled>>

Chunk == Int \X Int
World == {0, 1}

TypeOK ==
  /\ m_state \in [Player -> {"CONNECTED", "PLAYING", "DISCONNECTED"}]
  /\ pos \in [Player -> Chunk]
  /\ m_chunksLoaded \in [Player -> SUBSET Chunk]
  /\ m_loadedChunks \subseteq World \X Chunk
  /\ dug \subseteq m_loadedChunks
  /\ shown \in [Player -> SUBSET Chunk]
  /\ placed \in [Player -> Nat]
  /\ settled \subseteq Player

\* A client starts at the origin without chunks (Entity and Client constructors).
Init ==
  /\ m_state = [p \in Player |-> "CONNECTED"]
  /\ pos = [p \in Player |-> <<0, 0>>]
  /\ m_chunksLoaded = [p \in Player |-> {}]
  /\ m_loadedChunks = {}
  /\ dug = {}
  /\ shown = [p \in Player |-> {}]
  /\ placed = [p \in Player |-> 0]
  /\ settled = {}

-----------------------------------------------------------------------------
Playing == {p \in Player : m_state[p] = "PLAYING"}

\* The square of chunks at most r away from chunk k in both directions.
Square(k, r) == ((k[1] - r)..(k[1] + r)) \X ((k[2] - r)..(k[2] + r))

\* The chunks sendUpdatedPositions loads: getChunkRange() - 1 around the player.
Needed(k) == Square(k, ChunkRange - 1)

\* The loop of updateChunk over what is loaded disables what is further away
\* than getChunkRange() from the player.
KeepAll(k, loaded) == loaded
Keep(k, loaded) == loaded \cap Square(k, ChunkRange)

\* One call of updateChunk(chunk, c) for a player at k: nothing happens, not even
\* the disabling of distant chunks, unless c is missing.
UpdateChunkTight(k, loaded, c) ==
  IF c \in loaded THEN loaded ELSE (loaded \cup {c}) \cap Square(k, ChunkRange - 1)
UpdateChunk(k, loaded, c) ==
  IF c \in loaded THEN loaded ELSE Keep(k, loaded \cup {c})

\* The needed chunks in the order of the two nested loops of sendUpdatedPositions.
LoopOrder(k) ==
  LET side == 2 * ChunkRange - 1
  IN  [i \in 1..(side * side) |->
         <<k[1] - (ChunkRange - 1) + ((i - 1) \div side), k[2] - (ChunkRange - 1) + ((i - 1) % side)>>]

\* The loops as they are written, and what they come to.
Loops(k, loaded) ==
  FoldLeft(LAMBDA sofar, c : UpdateChunk(k, sofar, c), loaded, LoopOrder(k))
Updated(k, loaded) ==
  IF Needed(k) \subseteq loaded THEN loaded ELSE Keep(k, loaded \cup Needed(k))

\* A chunk of any world is in use when a player is near it.
UsedNarrowly(key) == \E p \in Playing : key[2] \in Square(pos[p], ChunkRange - 2)
Used(key) == \E p \in Playing : key[2] \in Needed(pos[p])

\* digBlock looks the chunk up in this world, sendUpdatedPositions in world 0.
DigWorld == 1

\* sendUpdatedPositions sends the player its position when its first chunks
\* have been loaded (waitingForChunks before, and no longer after).
PlacedAtEveryLoad(p) ==
  placed[p] + (IF Updated(pos[p], m_chunksLoaded[p]) # m_chunksLoaded[p] THEN 1 ELSE 0)
PlacedAfter(p) ==
  placed[p] + (IF m_chunksLoaded[p] = {} /\ Updated(pos[p], m_chunksLoaded[p]) # {}
               THEN 1 ELSE 0)

\* The game of p after the tick: chunks it has just been sent show what world
\* 0 holds, those it already had stay as they were.
ShownAfterResend(p) ==
  LET now == Updated(pos[p], m_chunksLoaded[p])
  IN  {k \in now : <<0, k>> \in dug}
ShownAfter(p) ==
  LET now == Updated(pos[p], m_chunksLoaded[p])
      new == now \ m_chunksLoaded[p]
  IN  ((shown[p] \cap now) \ new) \cup {k \in new : <<0, k>> \in dug}

-----------------------------------------------------------------------------
\* handleLogin: the client plays; chunks follow at the next tick.
Login(p) ==
  /\ m_state[p] = "CONNECTED"
  /\ m_state' = [m_state EXCEPT ![p] = "PLAYING"]
  /\ UNCHANGED <<pos, m_chunksLoaded, m_loadedChunks, dug, shown, placed, settled>>

\* handlePlayerPositionUpdate, handlePlayerPosition: any position is accepted.
Move(p) ==
  /\ m_state[p] = "PLAYING"
  /\ \E k \in Place : k # pos[p] /\ pos' = [pos EXCEPT ![p] = k]
  /\ settled' = settled \ {p}
  /\ UNCHANGED <<m_state, m_chunksLoaded, m_loadedChunks, dug, shown, placed>>

\* The player is kicked, quits or loses its connection.
Leave(p) ==
  /\ m_state[p] = "PLAYING"
  /\ m_state' = [m_state EXCEPT ![p] = "DISCONNECTED"]
  /\ settled' = settled \ {p}
  /\ UNCHANGED <<pos, m_chunksLoaded, m_loadedChunks, dug, shown, placed>>

\* The players digBlock sends the update of a block of chunk k to.
ToldFurther(k) == {p \in Playing : k \in Square(pos[p], ChunkRange)}
Told(k) == {p \in Playing : k \in Needed(pos[p])}

\* digBlock for a block of chunk k, wherever the digger is: the players near k
\* are told, and the block is set to 0 in the chunk, loaded if need be.
DigBlock(k) ==
  /\ Playing # {}
  /\ m_loadedChunks' = m_loadedChunks \cup {<<DigWorld, k>>}
  /\ dug' = dug \cup {<<DigWorld, k>>}
  /\ shown' = [p \in Player |-> IF p \in Told(k) THEN shown[p] \cup {k} ELSE shown[p]]
  /\ UNCHANGED <<m_state, pos, m_chunksLoaded, placed, settled>>

\* tick(): sendUpdatedPositions for every player, which loads the chunks it
\* needs, sends those it lacks and, the first time, its position; then every
\* chunk that is not used is dropped.
Tick ==
  LET loaded == m_loadedChunks \cup ({0} \X UNION {Needed(pos[p]) : p \in Playing})
  IN
  /\ m_chunksLoaded' = [p \in Player |->
       IF p \in Playing THEN Updated(pos[p], m_chunksLoaded[p]) ELSE m_chunksLoaded[p]]
  /\ shown' = [p \in Player |-> IF p \in Playing THEN ShownAfter(p) ELSE shown[p]]
  /\ placed' = [p \in Player |-> IF p \in Playing THEN PlacedAfter(p) ELSE placed[p]]
  /\ m_loadedChunks' = {key \in loaded : Used(key)}
  /\ dug' = {key \in dug : Used(key)}
  /\ settled' = Playing
  /\ UNCHANGED <<m_state, pos>>

Next ==
  \/ \E p \in Player : Login(p) \/ Move(p) \/ Leave(p)
  \/ \E k \in DigAt : DigBlock(k)
  \/ Tick

Spec == Init /\ [][Next]_vars

-----------------------------------------------------------------------------
\* The loops give the player exactly the chunks of the closed form Updated: no
\* chunk that a call loads is disabled by a later one.
LoopsGiveUpdated ==
  \A p \in Playing : Loops(pos[p], m_chunksLoaded[p]) = Updated(pos[p], m_chunksLoaded[p])

\* After a tick a player has every chunk it needs and none further away than
\* getChunkRange(), although updateChunk looks for distant chunks only when it
\* happens to load a new one.
ChunksAround ==
  \A p \in settled :
    /\ Needed(pos[p]) \subseteq m_chunksLoaded[p]
    /\ m_chunksLoaded[p] \subseteq Square(pos[p], ChunkRange)

\* Whatever way a player has gone, what its game holds fits in a square of
\* 2 * getChunkRange() chunks a side: a game's memory is bounded.
Compact ==
  \A p \in Player : \A a, b \in m_chunksLoaded[p] :
    a[1] - b[1] < 2 * ChunkRange /\ a[2] - b[2] < 2 * ChunkRange

\* The server still holds the chunks around a player that has not moved since
\* its last tick, whoever else has come, gone or dug.
ServerHolds == \A p \in settled : {0} \X Needed(pos[p]) \subseteq m_loadedChunks

\* A player is placed in the world once, at its first tick, with the chunks
\* around it: it never again runs out of chunks and waits for them.
PlacedOnce ==
  \A p \in Player : placed[p] <= 1 /\ (placed[p] = 0 <=> m_chunksLoaded[p] = {})

\* A destroyed block does not come back: while a chunk stays enabled in a game,
\* what was destroyed in it is not drawn again, whatever is sent to that game.
StaysDestroyed ==
  [][\A p \in Player :
       (shown[p] \cap m_chunksLoaded[p] \cap m_chunksLoaded'[p]) \subseteq shown'[p]]_vars

\* A player that has not moved since its last tick is told of a destroyed block
\* only if its game holds the chunk.  (One that has just logged in or moved may
\* be told before the tick that sends the chunk, which then undoes the update.)
UpdatesFindChunk ==
  [][\A p \in settled : shown'[p] \subseteq shown[p] \cup m_chunksLoaded[p] \cup m_chunksLoaded'[p]]_vars

\* README.markdown: "you can log in, walk around, and destroy blocks".  A block
\* that the server has destroyed and some player sees destroyed is destroyed
\* for every player whose game holds its chunk.
DestroyedIsShown ==
  \A p, q \in settled : \A k \in m_chunksLoaded[p] \cap m_chunksLoaded[q] :
    (k \in shown[q] /\ \E w \in World : <<w, k>> \in dug) => k \in shown[p]
=============================================================================
