---------------------------- MODULE ChunksProofs ----------------------------
(***************************************************************************)
(* Module Chunks for any players, any chunk range and any movement: what a *)
(* game holds is bounded and surrounds the player, and the server holds    *)
(* it too.                                                                 *)
(***************************************************************************)
EXTENDS Chunks, TLAPS, WellFoundedInduction

\* The inductive invariant.  ServerHolds and PlacedOnce are inductive beside
\* TypeOK; ChunksAround rests on Compact.
IInv ==
  /\ TypeOK
  /\ Compact
  /\ ChunksAround
  /\ ServerHolds
  /\ PlacedOnce

-----------------------------------------------------------------------------
\* A square of chunks, by the coordinates of its members.
LEMMA SquareMember ==
  ASSUME NEW k \in Chunk, NEW r \in Int, NEW a \in Chunk
  PROVE  a \in Square(k, r) <=> /\ k[1] - r <= a[1] /\ a[1] <= k[1] + r
                                /\ k[2] - r <= a[2] /\ a[2] <= k[2] + r
BY DEF Square, Chunk

\* A square consists of chunks.
LEMMA SquareType ==
  ASSUME NEW k \in Chunk, NEW r \in Int
  PROVE  Square(k, r) \subseteq Chunk
BY DEF Square, Chunk

\* What a player needs is a part of what it may keep, and it is never empty:
\* the player's own chunk is needed.
LEMMA NeededFacts ==
  ASSUME NEW k \in Chunk
  PROVE  /\ Needed(k) \subseteq Square(k, ChunkRange)
         /\ Needed(k) \subseteq Chunk
         /\ k \in Needed(k)
<1>1. ChunkRange \in Int /\ ChunkRange - 1 \in Int /\ ChunkRange >= 1
  BY ChunksAssumption
<1>2. Needed(k) \subseteq Chunk
  BY <1>1, SquareType DEF Needed
<1>3. Needed(k) \subseteq Square(k, ChunkRange)
  <2> SUFFICES ASSUME NEW a \in Needed(k) PROVE a \in Square(k, ChunkRange)
    OBVIOUS
  <2>1. a \in Chunk
    BY <1>2
  <2>2. QED
    BY <1>1, <2>1, SquareMember DEF Needed, Chunk
<1>4. k \in Needed(k)
  BY <1>1, SquareMember DEF Needed, Chunk
<1>5. QED
  BY <1>2, <1>3, <1>4

\* Chunks held by a game that are less than 2 * ChunkRange apart.
Near(loaded) ==
  \A a, b \in loaded : a[1] - b[1] < 2 * ChunkRange /\ a[2] - b[2] < 2 * ChunkRange

\* updateChunk over the needed chunks: all of them are then loaded, those that
\* stay lie within ChunkRange of the player, and they are as near to each
\* other as they were.
LEMMA UpdatedFacts ==
  ASSUME NEW k \in Chunk, NEW loaded \in SUBSET Chunk, Near(loaded)
  PROVE  /\ Updated(k, loaded) \in SUBSET Chunk
         /\ Needed(k) \subseteq Updated(k, loaded)
         /\ Updated(k, loaded) \subseteq Square(k, ChunkRange)
         /\ Near(Updated(k, loaded))
<1> USE ChunksAssumption
<1>1. ChunkRange \in Nat /\ ChunkRange >= 1
  OBVIOUS
<1>2. Needed(k) \subseteq Square(k, ChunkRange) /\ Needed(k) \subseteq Chunk
  BY NeededFacts
<1>3. CASE Needed(k) \subseteq loaded
  <2>1. Updated(k, loaded) = loaded
    BY <1>3 DEF Updated
  <2>2. ASSUME NEW a \in loaded PROVE a \in Square(k, ChunkRange)
    <3>1. PICK low \in Needed(k) : low[1] = k[1] - (ChunkRange - 1)
                                 /\ low[2] = k[2] - (ChunkRange - 1)
      <4> DEFINE low == <<k[1] - (ChunkRange - 1), k[2] - (ChunkRange - 1)>>
      <4>1. low \in Chunk
        BY <1>1 DEF Chunk
      <4>2. low \in Square(k, ChunkRange - 1)
        BY <1>1, <4>1, SquareMember DEF Chunk
      <4>3. QED
        BY <4>2 DEF Needed
    <3>2. PICK high \in Needed(k) : high[1] = k[1] + (ChunkRange - 1)
                                  /\ high[2] = k[2] + (ChunkRange - 1)
      <4> DEFINE high == <<k[1] + (ChunkRange - 1), k[2] + (ChunkRange - 1)>>
      <4>1. high \in Chunk
        BY <1>1 DEF Chunk
      <4>2. high \in Square(k, ChunkRange - 1)
        BY <1>1, <4>1, SquareMember DEF Chunk
      <4>3. QED
        BY <4>2 DEF Needed
    <3>3. /\ a[1] - low[1] < 2 * ChunkRange /\ a[2] - low[2] < 2 * ChunkRange
          /\ high[1] - a[1] < 2 * ChunkRange /\ high[2] - a[2] < 2 * ChunkRange
      BY <1>3 DEF Near
    <3>4. a \in Chunk /\ k[1] \in Int /\ k[2] \in Int /\ a[1] \in Int /\ a[2] \in Int
      BY DEF Chunk
    <3>5. /\ k[1] - ChunkRange <= a[1] /\ a[1] <= k[1] + ChunkRange
          /\ k[2] - ChunkRange <= a[2] /\ a[2] <= k[2] + ChunkRange
      BY <1>1, <3>1, <3>2, <3>3, <3>4
    <3>6. QED
      BY <1>1, <3>4, <3>5, SquareMember
  <2>3. QED
    BY <1>3, <2>1, <2>2
<1>4. CASE ~(Needed(k) \subseteq loaded)
  <2>1. Updated(k, loaded) = (loaded \cup Needed(k)) \cap Square(k, ChunkRange)
    BY <1>4 DEF Updated, Keep
  <2>2. ASSUME NEW a \in Updated(k, loaded), NEW b \in Updated(k, loaded)
        PROVE  a[1] - b[1] < 2 * ChunkRange /\ a[2] - b[2] < 2 * ChunkRange
    <3>1. /\ a \in Chunk /\ b \in Chunk
          /\ a \in Square(k, ChunkRange) /\ b \in Square(k, ChunkRange)
      BY <1>2, <2>1
    <3>2. k[1] \in Int /\ k[2] \in Int /\ a[1] \in Int /\ a[2] \in Int
            /\ b[1] \in Int /\ b[2] \in Int
      BY <3>1 DEF Chunk
    <3>3. /\ k[1] - ChunkRange <= a[1] /\ a[1] <= k[1] + ChunkRange
          /\ k[2] - ChunkRange <= a[2] /\ a[2] <= k[2] + ChunkRange
          /\ k[1] - ChunkRange <= b[1] /\ b[1] <= k[1] + ChunkRange
          /\ k[2] - ChunkRange <= b[2] /\ b[2] <= k[2] + ChunkRange
      BY <1>1, <3>1, SquareMember
    <3>4. CASE a \in loaded /\ b \in loaded
      BY <3>4 DEF Near
    <3>5. CASE a \in Needed(k)
      <4>1. a[1] <= k[1] + (ChunkRange - 1) /\ a[2] <= k[2] + (ChunkRange - 1)
        BY <1>1, <3>1, <3>5, SquareMember DEF Needed
      <4>2. QED
        BY <1>1, <3>2, <3>3, <4>1
    <3>6. CASE b \in Needed(k)
      <4>1. k[1] - (ChunkRange - 1) <= b[1] /\ k[2] - (ChunkRange - 1) <= b[2]
        BY <1>1, <3>1, <3>6, SquareMember DEF Needed
      <4>2. QED
        BY <1>1, <3>2, <3>3, <4>1
    <3>7. QED
      BY <2>1, <3>4, <3>5, <3>6
  <2>3. QED
    BY <1>2, <2>1, <2>2 DEF Near
<1>5. QED
  BY <1>3, <1>4

-----------------------------------------------------------------------------
\* Compact, in terms of Near.
LEMMA CompactIsNear == Compact <=> \A p \in Player : Near(m_chunksLoaded[p])
BY DEF Compact, Near

\* A tick loads what every player needs and drops only what no player needs.
LEMMA TickKeeps == ASSUME IInv, Tick PROVE IInv'
<1> USE DEF IInv
<1>1. /\ m_state' = m_state /\ pos' = pos /\ Playing' = Playing /\ settled' = Playing
      /\ Playing \subseteq Player
  BY DEF Tick, Playing
<1>2. ASSUME NEW p \in Playing
      PROVE  /\ pos[p] \in Chunk /\ m_chunksLoaded[p] \in SUBSET Chunk
             /\ m_chunksLoaded'[p] = Updated(pos[p], m_chunksLoaded[p])
             /\ Needed(pos[p]) \subseteq m_chunksLoaded'[p]
             /\ m_chunksLoaded'[p] \subseteq Square(pos[p], ChunkRange)
             /\ m_chunksLoaded'[p] \in SUBSET Chunk
             /\ Near(m_chunksLoaded'[p])
  <2>1. p \in Player /\ pos[p] \in Chunk /\ m_chunksLoaded[p] \in SUBSET Chunk
    BY <1>1 DEF TypeOK
  <2>2. Near(m_chunksLoaded[p])
    BY <2>1, CompactIsNear
  <2>3. m_chunksLoaded'[p] = Updated(pos[p], m_chunksLoaded[p])
    BY <2>1 DEF Tick
  <2>4. QED
    BY <2>1, <2>2, <2>3, UpdatedFacts
<1>3. ASSUME NEW p \in Player, p \notin Playing
      PROVE  m_chunksLoaded'[p] = m_chunksLoaded[p] /\ placed'[p] = placed[p]
  BY <1>3 DEF Tick
<1>4. Compact'
  <2>1. ASSUME NEW p \in Player PROVE Near(m_chunksLoaded'[p])
    BY <1>2, <1>3, CompactIsNear
  <2>2. QED
    BY <2>1 DEF Compact, Near
<1>5. ChunksAround'
  BY <1>1, <1>2 DEF ChunksAround
<1>6. PlacedOnce'
  <2> SUFFICES ASSUME NEW p \in Player
               PROVE  placed'[p] <= 1 /\ (placed'[p] = 0 <=> m_chunksLoaded'[p] = {})
    BY DEF PlacedOnce
  <2>1. CASE p \notin Playing
    BY <2>1, <1>3 DEF PlacedOnce
  <2>2. CASE p \in Playing
    <3>1. m_chunksLoaded'[p] # {}
      BY <1>2, <2>2, NeededFacts
    <3>2. placed'[p] = PlacedAfter(p)
      BY <2>2 DEF Tick
    <3>3. placed'[p] = placed[p] + (IF m_chunksLoaded[p] = {} THEN 1 ELSE 0)
      BY <1>2, <2>2, <3>1, <3>2 DEF PlacedAfter
    <3>4. placed[p] \in Nat /\ placed[p] <= 1 /\ (placed[p] = 0 <=> m_chunksLoaded[p] = {})
      BY DEF PlacedOnce, TypeOK
    <3>5. QED
      BY <3>1, <3>3, <3>4
  <2>3. QED
    BY <2>1, <2>2
<1>7. ServerHolds'
  <2> SUFFICES ASSUME NEW p \in Playing, NEW key \in {0} \X Needed(pos[p])
               PROVE  key \in m_loadedChunks'
    BY <1>1 DEF ServerHolds
  <2>1. Used(key)
    BY DEF Used
  <2>2. QED
    BY <2>1 DEF Tick
<1>8. TypeOK'
  <2>1. m_chunksLoaded' \in [Player -> SUBSET Chunk]
    <3>1. ASSUME NEW p \in Player PROVE m_chunksLoaded'[p] \in SUBSET Chunk
      BY <1>2, <1>3 DEF TypeOK
    <3>2. QED
      BY <3>1 DEF Tick
  <2>2. m_loadedChunks' \subseteq World \X Chunk
    BY <1>2, NeededFacts DEF Tick, TypeOK, World
  <2>3. dug' \subseteq m_loadedChunks'
    BY DEF Tick, TypeOK
  <2>4. shown' \in [Player -> SUBSET Chunk]
    <3>1. ASSUME NEW p \in Playing PROVE ShownAfter(p) \in SUBSET Chunk
      BY <1>1, <1>2 DEF ShownAfter, TypeOK
    <3>2. QED
      BY <3>1 DEF Tick, TypeOK
  <2>5. placed' \in [Player -> Nat]
    <3>1. ASSUME NEW p \in Playing PROVE PlacedAfter(p) \in Nat
      BY <1>1 DEF PlacedAfter, TypeOK
    <3>2. QED
      BY <3>1 DEF Tick, TypeOK
  <2>6. QED
    BY <1>1, <2>1, <2>2, <2>3, <2>4, <2>5 DEF TypeOK
<1>9. QED
  BY <1>4, <1>5, <1>6, <1>7, <1>8

\* Between two ticks the chunks a game holds do not change, and a player that
\* moves is no longer settled.
LEMMA OthersKeep ==
  ASSUME IInv,
         m_state' \in [Player -> {"CONNECTED", "PLAYING", "DISCONNECTED"}],
         pos' \in [Player -> Chunk],
         settled' \subseteq settled,
         \A p \in settled' : pos'[p] = pos[p],
         m_loadedChunks \subseteq m_loadedChunks',
         m_loadedChunks' \subseteq World \X Chunk,
         dug' \subseteq m_loadedChunks',
         shown' \in [Player -> SUBSET Chunk],
         UNCHANGED <<m_chunksLoaded, placed>>
  PROVE  IInv'
<1> USE DEF IInv
<1>1. TypeOK'
  BY DEF TypeOK
<1>2. Compact' /\ PlacedOnce'
  BY DEF Compact, PlacedOnce
<1>3. ChunksAround'
  BY DEF ChunksAround
<1>4. ServerHolds'
  BY DEF ServerHolds
<1>5. QED
  BY <1>1, <1>2, <1>3, <1>4

\* Every step keeps the inductive invariant.
LEMMA InvStep == IInv /\ [Next]_vars => IInv'
<1> SUFFICES ASSUME IInv, [Next]_vars PROVE IInv'
  OBVIOUS
<1> USE DEF IInv
<1>1. ASSUME NEW p \in Player, Login(p) PROVE IInv'
  BY <1>1, OthersKeep DEF Login, TypeOK
<1>2. ASSUME NEW p \in Player, Move(p) PROVE IInv'
  <2>1. PICK k \in Place : pos' = [pos EXCEPT ![p] = k]
    BY <1>2 DEF Move
  <2>2. k \in Chunk
    BY ChunksAssumption DEF Chunk
  <2>3. pos' \in [Player -> Chunk] /\ \A q \in Player \ {p} : pos'[q] = pos[q]
    BY <2>1, <2>2 DEF TypeOK
  <2>4. settled' \subseteq settled /\ \A q \in settled' : pos'[q] = pos[q]
    BY <1>2, <2>3 DEF Move, TypeOK
  <2>5. QED
    BY <1>2, <2>3, <2>4, OthersKeep DEF Move, TypeOK
<1>3. ASSUME NEW p \in Player, Leave(p) PROVE IInv'
  <2>1. settled' \subseteq settled
    BY <1>3 DEF Leave
  <2>2. QED
    BY <1>3, <2>1, OthersKeep DEF Leave, TypeOK
<1>4. ASSUME NEW k \in DigAt, DigBlock(k) PROVE IInv'
  <2>1. k \in Chunk
    BY ChunksAssumption DEF Chunk
  <2>2. /\ m_loadedChunks \subseteq m_loadedChunks'
        /\ m_loadedChunks' \subseteq World \X Chunk
        /\ dug' \subseteq m_loadedChunks'
    BY <1>4, <2>1 DEF DigBlock, DigWorld, World, TypeOK
  <2>3. shown' \in [Player -> SUBSET Chunk]
    BY <1>4, <2>1 DEF DigBlock, TypeOK
  <2>4. QED
    BY <1>4, <2>2, <2>3, OthersKeep DEF DigBlock, TypeOK
<1>5. CASE Tick
  BY <1>5, TickKeeps
<1>6. CASE UNCHANGED vars
  BY <1>6, OthersKeep DEF vars, TypeOK
<1>7. QED
  BY <1>1, <1>2, <1>3, <1>4, <1>5, <1>6 DEF Next

\* The inductive invariant holds initially: nobody has been sent anything.
LEMMA InvInit == Init => IInv
BY DEF Init, IInv, TypeOK, Compact, ChunksAround, ServerHolds, PlacedOnce, Chunk

\* The inductive invariant holds in every reachable state.
THEOREM Invariant == Spec => []IInv
BY InvInit, InvStep, PTL DEF Spec

\* The variables of Chunks always have their types.
THEOREM TypeCorrect == Spec => []TypeOK
<1>1. IInv => TypeOK
  BY DEF IInv
<1>2. QED
  BY <1>1, Invariant, PTL

\* What a game is made to hold fits in a square of 2 * ChunkRange chunks a side
\* (updateChunk), wherever its player goes.
THEOREM BoundedMemory == Spec => []Compact
<1>1. IInv => Compact
  BY DEF IInv
<1>2. QED
  BY <1>1, Invariant, PTL

\* After a tick a player has the chunks it needs and no distant ones
\* (sendUpdatedPositions and updateChunk).
THEOREM Surrounded == Spec => []ChunksAround
<1>1. IInv => ChunksAround
  BY DEF IInv
<1>2. QED
  BY <1>1, Invariant, PTL

\* The server does not drop the chunks around a player that stays where it is
\* (tick).
THEOREM NeededAreHeld == Spec => []ServerHolds
<1>1. IInv => ServerHolds
  BY DEF IInv
<1>2. QED
  BY <1>1, Invariant, PTL

\* A player is sent its position once, with its first chunks.
THEOREM OnePlacement == Spec => []PlacedOnce
<1>1. IInv => PlacedOnce
  BY DEF IInv
<1>2. QED
  BY <1>1, Invariant, PTL

\* What is destroyed in a chunk stays destroyed in a game that keeps the chunk:
\* updateChunk never sends a chunk twice.
THEOREM NoResurrection == Spec => StaysDestroyed
<1> DEFINE Stays == \A p \in Player :
             (shown[p] \cap m_chunksLoaded[p] \cap m_chunksLoaded'[p]) \subseteq shown'[p]
<1>1. TypeOK /\ [Next]_vars => [Stays]_vars
  <2> SUFFICES ASSUME TypeOK, Next PROVE Stays
    BY DEF vars
  <2>1. ASSUME NEW p \in Player, Login(p) \/ Move(p) \/ Leave(p) PROVE Stays
    BY <2>1 DEF Login, Move, Leave
  <2>2. ASSUME NEW k \in DigAt, DigBlock(k) PROVE Stays
    BY <2>2 DEF DigBlock
  <2>3. CASE Tick
    BY <2>3 DEF Tick, ShownAfter
  <2>4. QED
    BY <2>1, <2>2, <2>3 DEF Next
<1>2. QED
  BY <1>1, TypeCorrect, PTL DEF Spec, StaysDestroyed

\* A settled player is only told of blocks in chunks its game holds: digBlock and
\* sendUpdatedPositions use the same distance.
THEOREM UpdatesArriveInChunk == Spec => UpdatesFindChunk
<1> DEFINE Found == \A p \in settled :
             shown'[p] \subseteq shown[p] \cup m_chunksLoaded[p] \cup m_chunksLoaded'[p]
<1>1. IInv /\ [Next]_vars => [Found]_vars
  <2> SUFFICES ASSUME IInv, Next, NEW p \in settled
               PROVE  shown'[p] \subseteq shown[p] \cup m_chunksLoaded[p] \cup m_chunksLoaded'[p]
    BY DEF vars
  <2>0. p \in Player /\ Needed(pos[p]) \subseteq m_chunksLoaded[p]
    BY DEF IInv, TypeOK, ChunksAround
  <2>1. ASSUME NEW q \in Player, Login(q) \/ Move(q) \/ Leave(q)
        PROVE  shown'[p] = shown[p]
    BY <2>1 DEF Login, Move, Leave
  <2>2. ASSUME NEW k \in DigAt, DigBlock(k)
        PROVE  shown'[p] \subseteq shown[p] \cup m_chunksLoaded[p]
    BY <2>0, <2>2 DEF DigBlock, Told
  <2>3. CASE Tick
    BY <2>0, <2>3 DEF Tick, ShownAfter
  <2>4. QED
    BY <2>1, <2>2, <2>3 DEF Next
<1>2. QED
  BY <1>1, Invariant, PTL DEF Spec, UpdatesFindChunk

-----------------------------------------------------------------------------
\* Induction over the natural numbers, for a set instead of a predicate.
LEMMA SetInduction ==
  ASSUME NEW S, 0 \in S, \A n \in Nat : n \in S => n + 1 \in S
  PROVE  Nat \subseteq S
<1> DEFINE R == OpToRel(<, Nat)
<1>1. IsWellFoundedOn(R, Nat)
  BY NatLessThanWellFounded
<1>2. \A n \in Nat : <<n, n + 1>> \in R
  BY DEF OpToRel
<1> HIDE DEF R
<1>3. SUFFICES ASSUME Nat \ S # {} PROVE FALSE
  OBVIOUS
<1>4. PICK n \in Nat \ S : \A y \in Nat \ S : <<y, n>> \notin R
  BY <1>1, <1>3, WFMin
<1>5. n - 1 \in Nat /\ n = (n - 1) + 1
  OBVIOUS
<1>6. n - 1 \in S
  BY <1>2, <1>4, <1>5
<1> QED
  BY <1>5, <1>6

\* The greatest of the numbers from 1 on.
LEMMA MaxOf ==
  ASSUME NEW n \in Nat \ {0}, NEW T \in SUBSET (1..n), n \in T
  PROVE  Max(T) = n
<1>1. \A y \in T : n >= y
  OBVIOUS
<1>2. \A x \in T : (\A y \in T : x >= y) => x = n
  OBVIOUS
<1> QED
  BY <1>1, <1>2 DEF Max

\* Multiplying by a positive factor does not make a number smaller.
LEMMA TimesGrows == \A n, d \in Nat \ {0} : n * d \in Int /\ n * d >= n
<1> SUFFICES ASSUME NEW n \in Nat \ {0}, NEW d \in Nat \ {0} PROVE n * d \in Int /\ n * d >= n
  OBVIOUS
<1>1. n * (d - 1) >= 0
  OBVIOUS
<1>2. n * d = n * (d - 1) + n
  OBVIOUS
<1> QED
  BY <1>1, <1>2

\* A number has one quotient and one remainder.
LEMMA Unique ==
  ASSUME NEW n \in Nat \ {0}, NEW q \in Int, NEW p \in Int,
         NEW r \in 0..(n - 1), NEW s \in 0..(n - 1), n * q + r = n * p + s
  PROVE  q = p /\ r = s
<1>1. ~(q > p)
  <2> SUFFICES ASSUME q > p PROVE FALSE
    OBVIOUS
  <2>1. q - p \in Nat \ {0}
    OBVIOUS
  <2>2. n * (q - p) >= n
    BY <2>1, TimesGrows
  <2>3. n * (q - p) = n * q - n * p
    OBVIOUS
  <2>4. n * q \in Int /\ n * p \in Int
    OBVIOUS
  <2> QED
    BY <2>2, <2>3, <2>4
<1>2. ~(p > q)
  <2> SUFFICES ASSUME p > q PROVE FALSE
    OBVIOUS
  <2>1. p - q \in Nat \ {0}
    OBVIOUS
  <2>2. n * (p - q) >= n
    BY <2>1, TimesGrows
  <2>3. n * (p - q) = n * p - n * q
    OBVIOUS
  <2>4. n * q \in Int /\ n * p \in Int
    OBVIOUS
  <2> QED
    BY <2>2, <2>3, <2>4
<1>3. q = p
  BY <1>1, <1>2
<1>4. n * q = n * p /\ n * q \in Int
  BY <1>3
<1> QED
  BY <1>3, <1>4

LEMMA Division ==
  ASSUME NEW n \in Nat \ {0}, NEW x \in Int
  PROVE  /\ x \div n \in Int
         /\ x % n \in 0..(n - 1)
         /\ x = n * (x \div n) + (x % n)
  OBVIOUS

-----------------------------------------------------------------------------
\* The function that the fold of Loops chooses, over the first n calls.
Iterates(f, k, loaded, n) ==
  f = [T \in SUBSET (1..n) |->
         IF T = {} THEN loaded ELSE UpdateChunk(k, f[T \ {Max(T)}], LoopOrder(k)[Max(T)])]

LEMMA IteratesOneMore ==
  ASSUME NEW k, NEW loaded, NEW n \in Nat, NEW f, Iterates(f, k, loaded, n)
  PROVE  \E h : Iterates(h, k, loaded, n + 1)
<1> DEFINE s == LoopOrder(k)
           h == [T \in SUBSET (1..(n + 1)) |->
                   IF n + 1 \in T THEN UpdateChunk(k, f[T \ {n + 1}], s[n + 1]) ELSE f[T]]
<1>1. \A T \in SUBSET (1..n) :
        f[T] = IF T = {} THEN loaded ELSE UpdateChunk(k, f[T \ {Max(T)}], s[Max(T)])
  BY DEF Iterates
<1> HIDE DEF s
<1>2. ASSUME NEW T \in SUBSET (1..(n + 1))
      PROVE  h[T] = IF T = {} THEN loaded ELSE UpdateChunk(k, h[T \ {Max(T)}], s[Max(T)])
  <2>1. CASE n + 1 \in T
    <3>1. Max(T) = n + 1
      BY <2>1, MaxOf
    <3>2. h[T \ {n + 1}] = f[T \ {n + 1}]
      OBVIOUS
    <3> QED
      BY <2>1, <3>1, <3>2
  <2>2. CASE n + 1 \notin T
    <3>1. T \in SUBSET (1..n) /\ h[T] = f[T]
      BY <2>2
    <3>2. f[T] = IF T = {} THEN loaded ELSE UpdateChunk(k, f[T \ {Max(T)}], s[Max(T)])
      BY <1>1, <3>1
    <3>3. h[T \ {Max(T)}] = f[T \ {Max(T)}]
      BY <2>2
    <3> QED
      BY <3>1, <3>2, <3>3
  <2> QED
    BY <2>1, <2>2
<1>3. Iterates(h, k, loaded, n + 1)
  <2> DEFINE g == [T \in SUBSET (1..(n + 1)) |->
                     IF T = {} THEN loaded ELSE UpdateChunk(k, h[T \ {Max(T)}], s[Max(T)])]
  <2>1. DOMAIN h = SUBSET (1..(n + 1)) /\ h = [T \in DOMAIN h |-> h[T]]
    OBVIOUS
  <2> HIDE DEF h
  <2>2. h = g
    BY <1>2, <2>1
  <2> QED
    BY <2>2 DEF Iterates, s
<1> QED
  BY <1>3

LEMMA IteratesExists ==
  ASSUME NEW k, NEW loaded
  PROVE  \A n \in Nat : \E f : Iterates(f, k, loaded, n)
<1> DEFINE S == {n \in Nat : \E f : Iterates(f, k, loaded, n)}
<1>1. 0 \in S
  <2>1. Iterates([T \in SUBSET (1..0) |-> loaded], k, loaded, 0)
    BY DEF Iterates
  <2> QED
    BY <2>1
<1>2. ASSUME NEW n \in Nat, n \in S PROVE n + 1 \in S
  BY <1>2, IteratesOneMore
<1>3. Nat \subseteq S
  <2> HIDE DEF S
  <2> QED
    BY <1>1, <1>2, SetInduction
<1> QED
  BY <1>3

\* Side by side the calls visit the chunks that are needed, each of them.
Side == 2 * ChunkRange - 1
Calls == Side * Side

LEMMA SideFacts ==
  /\ ChunkRange \in Nat \ {0} /\ Side \in Nat \ {0} /\ Calls \in Nat
  /\ Side = (ChunkRange - 1) + ChunkRange
<1>1. ChunkRange \in Nat \ {0} /\ Side \in Nat \ {0} /\ Side = (ChunkRange - 1) + ChunkRange
  BY ChunksAssumption DEF Side
<1>2. Calls \in Nat
  <2>1. \A n \in Nat : n * n \in Nat
    OBVIOUS
  <2> QED
    BY <1>1, <2>1 DEF Calls
<1> QED
  BY <1>1, <1>2

LEMMA OrderIs ==
  ASSUME NEW k
  PROVE  LoopOrder(k) = [i \in 1..Calls |->
           <<k[1] - (ChunkRange - 1) + ((i - 1) \div Side), k[2] - (ChunkRange - 1) + ((i - 1) % Side)>>]
  BY DEF LoopOrder, Side, Calls

LEMMA OrderVisitsNeeded ==
  ASSUME NEW k \in Chunk
  PROVE  {LoopOrder(k)[i] : i \in 1..Calls} = Needed(k)
<1> DEFINE s == LoopOrder(k)
           R == ChunkRange - 1
<1>1. k[1] \in Int /\ k[2] \in Int
  BY DEF Chunk
<1>2. R \in Nat /\ Side \in Nat \ {0} /\ Side = R + R + 1 /\ Calls = Side * Side /\ Calls \in Nat
  BY SideFacts DEF Calls
<1>3. s = [i \in 1..Calls |-> <<k[1] - R + ((i - 1) \div Side), k[2] - R + ((i - 1) % Side)>>]
  BY OrderIs
<1> HIDE DEF s
<1>4. ASSUME NEW i \in 1..Calls PROVE s[i] \in Needed(k)
  <2> DEFINE q == (i - 1) \div Side
             r == (i - 1) % Side
  <2>1. q \in Int /\ r \in 0..(Side - 1) /\ i - 1 = Side * q + r
    <3> DEFINE x == i - 1
    <3>1. x \in Int
      OBVIOUS
    <3> HIDE DEF x
    <3>2. x \div Side \in Int /\ x % Side \in 0..(Side - 1) /\ x = Side * (x \div Side) + (x % Side)
      BY <1>2, <3>1, Division
    <3> QED
      BY <3>2 DEF x
  <2>2. s[i] = <<k[1] - R + q, k[2] - R + r>>
    BY <1>3
  <2> HIDE DEF q, r, R
  <2>3. i - 1 >= 0 /\ i - 1 <= Side * Side - 1 /\ Side * Side \in Int
    BY <1>2
  <2>4. q >= 0
    <3> SUFFICES ASSUME q <= -1 PROVE FALSE
      BY <2>1
    <3>1. Side * (-1 - q) >= 0 /\ Side * (-1 - q) = -Side - Side * q /\ Side * q \in Int
      BY <1>2, <2>1
    <3> QED
      BY <1>2, <2>1, <2>3, <3>1
  <2>5. q <= Side - 1
    <3> SUFFICES ASSUME q >= Side PROVE FALSE
      BY <1>2, <2>1
    <3>1. Side * (q - Side) >= 0 /\ Side * (q - Side) = Side * q - Side * Side /\ Side * q \in Int
      BY <1>2, <2>1
    <3> QED
      BY <1>2, <2>1, <2>3, <3>1
  <2>6. /\ k[1] - R + q \in (k[1] - R)..(k[1] + R)
        /\ k[2] - R + r \in (k[2] - R)..(k[2] + R)
    BY <1>1, <1>2, <2>1, <2>4, <2>5
  <2> QED
    BY <2>2, <2>6 DEF Needed, Square, R
<1>5. ASSUME NEW c \in Needed(k) PROVE \E i \in 1..Calls : s[i] = c
  <2> DEFINE q == c[1] - k[1] + R
             r == c[2] - k[2] + R
             i == Side * q + r + 1
  <2>1. c \in ((k[1] - R)..(k[1] + R)) \X ((k[2] - R)..(k[2] + R))
    BY DEF Needed, Square
  <2> HIDE DEF R
  <2>2. c = <<c[1], c[2]>> /\ c[1] \in (k[1] - R)..(k[1] + R) /\ c[2] \in (k[2] - R)..(k[2] + R)
    BY <2>1
  <2>3. /\ q \in 0..(Side - 1) /\ r \in 0..(Side - 1) /\ q \in Int
        /\ c[1] = k[1] - R + q /\ c[2] = k[2] - R + r
    BY <1>1, <1>2, <2>2
  <2> HIDE DEF q, r
  <2>4. i \in Int /\ i >= 1 /\ i <= Calls
    <3>1. Side * q \in Int /\ Side * q >= 0
      BY <1>2, <2>3
    <3>2. /\ Side * (Side - 1 - q) >= 0
          /\ Side * (Side - 1 - q) = Side * Side - Side - Side * q
          /\ Side * Side \in Int
      BY <1>2, <2>3
    <3> QED
      BY <1>2, <2>3, <3>1, <3>2
  <2>5. (i - 1) \div Side = q /\ (i - 1) % Side = r
    <3>1. i - 1 = Side * q + r /\ i - 1 \in Int
      BY <1>2, <2>3, <2>4
    <3> HIDE DEF i
    <3> DEFINE x == i - 1
               p == x \div Side
               t == x % Side
    <3>2. x \in Int /\ x = Side * q + r
      BY <3>1
    <3> HIDE DEF x
    <3>3. p \in Int /\ t \in 0..(Side - 1) /\ x = Side * p + t
      BY <1>2, <3>2, Division
    <3> HIDE DEF p, t
    <3>4. p = q /\ t = r
      <4>1. Side * p + t = Side * q + r
        BY <3>2, <3>3
      <4>2. /\ Side \in Nat \ {0} /\ p \in Int /\ q \in Int
            /\ t \in 0..(Side - 1) /\ r \in 0..(Side - 1)
        BY <1>2, <2>3, <3>3
      <4> QED
        BY <4>1, <4>2, Unique
    <3> QED
      BY <3>4 DEF p, t, x
  <2>6. i \in 1..Calls
    BY <1>2, <2>4
  <2> HIDE DEF i
  <2>7. s[i] = c
    BY <1>3, <2>2, <2>3, <2>5, <2>6
  <2> QED
    BY <2>6, <2>7
<1> QED
  BY <1>4, <1>5 DEF s

\* What a player has been sent after the first i calls.
LEMMA LoopsRun ==
  ASSUME NEW k, NEW loaded
  PROVE  \E r : /\ r[0] = loaded
                /\ \A i \in 1..Calls : r[i] = UpdateChunk(k, r[i - 1], LoopOrder(k)[i])
                /\ r[Calls] = Loops(k, loaded)
<1> DEFINE n == Calls
           s == LoopOrder(k)
           iter == CHOOSE f : Iterates(f, k, loaded, n)
           r == [i \in 0..n |-> iter[1..i]]
<1>1. n \in Nat /\ DOMAIN s = 1..n
  BY SideFacts, OrderIs
<1>2. Iterates(iter, k, loaded, n)
  BY <1>1, IteratesExists
<1>3. Loops(k, loaded) = iter[1..n]
  BY <1>1 DEF Loops, FoldLeft, MapThenFoldSet, Iterates
<1> HIDE DEF iter, n
<1>4. r[0] = loaded
  BY <1>1, <1>2 DEF Iterates
<1>5. ASSUME NEW i \in 1..n PROVE r[i] = UpdateChunk(k, r[i - 1], s[i])
  <2>1. Max(1..i) = i /\ (1..i) \ {i} = 1..(i - 1)
    BY <1>1, MaxOf
  <2>2. 1..i \in SUBSET (1..n) /\ i \in 1..i
    BY <1>1
  <2>3. iter[1..i] = UpdateChunk(k, iter[1..(i - 1)], s[i])
    BY <1>2, <2>1, <2>2 DEF Iterates
  <2> QED
    BY <1>1, <2>3
<1>6. r[n] = iter[1..n]
  BY <1>1
<1> HIDE DEF r
<1> QED
  BY <1>3, <1>4, <1>5, <1>6 DEF n

\* The loops come to the closed form: after i calls the game has what it had, if
\* none of the first i chunks was missing, and otherwise those that may be kept
\* of what it had and of the first i.
LEMMA LoopsAreUpdated ==
  ASSUME NEW k \in Chunk, NEW loaded
  PROVE  Loops(k, loaded) = Updated(k, loaded)
<1> DEFINE s == LoopOrder(k)
           first(i) == {s[j] : j \in 1..i}
           After(i) == IF first(i) \subseteq loaded THEN loaded
                       ELSE Keep(k, loaded \cup first(i))
<1>1. PICK r : /\ r[0] = loaded
               /\ \A i \in 1..Calls : r[i] = UpdateChunk(k, r[i - 1], s[i])
               /\ r[Calls] = Loops(k, loaded)
  BY LoopsRun
<1>2. \A i \in 1..Calls : s[i] \in Square(k, ChunkRange)
  BY OrderVisitsNeeded, NeededFacts
<1>3. first(Calls) = Needed(k)
  BY OrderVisitsNeeded
<1> HIDE DEF s
<1> DEFINE S == {i \in Nat : i <= Calls => r[i] = After(i)}
<1>4. 0 \in S
  <2>1. first(0) = {}
    OBVIOUS
  <2> QED
    BY <1>1, <2>1
<1>5. ASSUME NEW i \in Nat, i \in S PROVE i + 1 \in S
  <2> SUFFICES ASSUME i + 1 <= Calls PROVE r[i + 1] = After(i + 1)
    OBVIOUS
  <2> DEFINE c == s[i + 1]
             A == first(i)
             B == first(i + 1)
  <2>1. i + 1 \in 1..Calls /\ (i + 1) - 1 = i /\ i <= Calls
    BY SideFacts
  <2>2. r[i] = (IF A \subseteq loaded THEN loaded ELSE Keep(k, loaded \cup A))
        /\ r[i + 1] = UpdateChunk(k, r[i], c) /\ c \in Square(k, ChunkRange)
    BY <1>1, <1>2, <1>5, <2>1
  <2>3. B = A \cup {c}
    <3>1. 1..(i + 1) = (1..i) \cup {i + 1}
      OBVIOUS
    <3> QED
      BY <3>1
  <2> HIDE DEF A, B, c
  <2>4. r[i + 1] = IF B \subseteq loaded THEN loaded ELSE Keep(k, loaded \cup B)
    <3>1. CASE A \subseteq loaded
      BY <2>2, <2>3, <3>1 DEF UpdateChunk, Keep
    <3>2. CASE ~(A \subseteq loaded)
      BY <2>2, <2>3, <3>2 DEF UpdateChunk, Keep
    <3> QED
      BY <3>1, <3>2
  <2> QED
    BY <2>4 DEF B
<1>6. Calls \in S
  <2> HIDE DEF S
  <2> QED
    BY <1>4, <1>5, SetInduction, SideFacts
<1> HIDE DEF first
<1>7. r[Calls] = After(Calls)
  BY <1>6, SideFacts
<1> QED
  BY <1>1, <1>3, <1>7 DEF Updated

\* sendUpdatedPositions and updateChunk: the loops over the chunks around a
\* player, as they are written, load and disable what Tick has them.
THEOREM LoopsComeToUpdated == Spec => []LoopsGiveUpdated
<1>1. TypeOK => LoopsGiveUpdated
  BY LoopsAreUpdated DEF TypeOK, LoopsGiveUpdated, Playing
<1> QED
  BY <1>1, TypeCorrect, PTL
=============================================================================
