----------------------------- MODULE WireProofs -----------------------------
(***************************************************************************)
(* Module Wire adds the streams to module Server and takes nothing away:   *)
(* each of its steps is one of Server's, or leaves the server as it is.    *)
(* So what is proved of Server holds with the streams too.                 *)
(*                                                                         *)
(* What a game makes of a stream of any length is a fold; that it can be   *)
(* taken apart packet by packet is proved by induction over its length.    *)
(***************************************************************************)
EXTENDS Wire, ServerProofs, TLAPS, SequenceTheorems, WellFoundedInduction

LEMMA DoneStep == \A c \in Client : WriteDone(c) => [Next]_vars
<1> SUFFICES ASSUME NEW c \in Client, WriteDone(c) PROVE [Next]_vars
  OBVIOUS
<1>1. Drop(c) \/ UNCHANGED vars
  BY DEF WriteDone
<1> QED
  BY <1>1 DEF Next

\* A write that ends is a step of the server only for a client that waits for
\* its kick to go out; handlers of the games' packets and the moves of a buffer
\* are none.
LEMMA WireStep == [WireNext]_wireVars => [Next]_vars
<1> SUFFICES ASSUME [WireNext]_wireVars PROVE [Next]_vars
  OBVIOUS
<1>1. CASE WireTick
  BY <1>1 DEF WireTick, Next
<1>2. CASE UNCHANGED wireVars
  BY <1>2 DEF wireVars
<1>3. ASSUME NEW c \in Client,
             \/ WireAccept(c) \/ WireLogin(c) \/ WireDisconnect(c) \/ Breaks(c)
      PROVE  Next
  BY <1>3 DEF WireAccept, WireLogin, WireDisconnect, Breaks, Next
<1>4. ASSUME NEW c \in Client, Command(c) \/ BufferMoves(c) \/ Receive(c)
      PROVE  UNCHANGED vars
  BY <1>4 DEF Command, BufferMoves, Receive
<1> QED
  BY <1>1, <1>2, <1>3, <1>4, DoneStep DEF WireNext

\* The server with its streams implements the server alone (client.cpp and
\* server.cpp), whatever the streams do to the packets.
THEOREM ImplementsServer == WireSpec => Spec
<1>1. WireInit => Init
  BY DEF WireInit
<1> QED
  BY <1>1, WireStep, PTL DEF WireSpec, Spec

\* Whatever happens to the streams, players are told of each other, and of
\* nobody who is no longer registered (notifyConnected).
THEOREM PlayersAreTold == WireSpec => [](MutualVisibility /\ NoGhosts)
  BY ImplementsServer, PlayersSeeEachOther, NoGhost, PTL
-----------------------------------------------------------------------------
\* Induction over the natural numbers, for a set instead of a predicate.
LEMMA SetInduction ==
  ASSUME NEW S, 0 \in S, \A n \in Nat : n \in S => n + 1 \in S
  PROVE  Nat \subseteq S
<1> DEFINE R == OpToRel(<, Nat)
<1>1. IsWellFoundedOn(R, Nat)
  BY NatLessThanWellFounded
<1>2. \A n \in Nat : <<n, n + 1>> \in R
  BY DEF OpToRel
<1> HIDE DEF R
<1>3. SUFFICES ASSUME Nat \ S # {} PROVE FALSE
  OBVIOUS
<1>4. PICK n \in Nat \ S : \A y \in Nat \ S : <<y, n>> \notin R
  BY <1>1, <1>3, WFMin
<1>5. n - 1 \in Nat /\ n = (n - 1) + 1
  OBVIOUS
<1>6. n - 1 \in S
  BY <1>2, <1>4, <1>5
<1> QED
  BY <1>5, <1>6

\* The greatest of the numbers from 1 on.
LEMMA MaxOf ==
  ASSUME NEW n \in Nat \ {0}, NEW T \in SUBSET (1..n), n \in T
  PROVE  Max(T) = n
<1>1. \A y \in T : n >= y
  OBVIOUS
<1>2. \A x \in T : (\A y \in T : x >= y) => x = n
  OBVIOUS
<1> QED
  BY <1>1, <1>2 DEF Max

\* The function that MapThenFoldSet chooses, for the positions up to n of s.
Iterates(f, g, s, n) ==
  f = [T \in SUBSET (1..n) |-> IF T = {} THEN g ELSE Reads(f[T \ {Max(T)}], s[Max(T)])]

LEMMA IteratesOneMore ==
  ASSUME NEW g, NEW s, NEW n \in Nat, NEW f, Iterates(f, g, s, n)
  PROVE  \E h : Iterates(h, g, s, n + 1)
<1> DEFINE h == [T \in SUBSET (1..(n + 1)) |->
                   IF n + 1 \in T THEN Reads(f[T \ {n + 1}], s[n + 1]) ELSE f[T]]
<1>1. ASSUME NEW T \in SUBSET (1..(n + 1))
      PROVE  h[T] = IF T = {} THEN g ELSE Reads(h[T \ {Max(T)}], s[Max(T)])
  <2>1. CASE n + 1 \in T
    <3>1. Max(T) = n + 1
      BY <2>1, MaxOf
    <3>2. h[T \ {n + 1}] = f[T \ {n + 1}]
      OBVIOUS
    <3> QED
      BY <2>1, <3>1, <3>2
  <2>2. CASE n + 1 \notin T
    <3>1. T \in SUBSET (1..n) /\ h[T] = f[T]
      BY <2>2
    <3>2. f[T] = IF T = {} THEN g ELSE Reads(f[T \ {Max(T)}], s[Max(T)])
      BY <3>1 DEF Iterates
    <3>3. h[T \ {Max(T)}] = f[T \ {Max(T)}]
      BY <2>2
    <3> QED
      BY <3>1, <3>2, <3>3
  <2> QED
    BY <2>1, <2>2
<1>2. Iterates(h, g, s, n + 1)
  <2> DEFINE k == [T \in SUBSET (1..(n + 1)) |->
                     IF T = {} THEN g ELSE Reads(h[T \ {Max(T)}], s[Max(T)])]
  <2>1. DOMAIN h = SUBSET (1..(n + 1)) /\ h = [T \in DOMAIN h |-> h[T]]
    OBVIOUS
  <2> HIDE DEF h
  <2>2. h = k
    BY <1>1, <2>1
  <2> QED
    BY <2>2 DEF Iterates
<1> QED
  BY <1>2

LEMMA IteratesExists == ASSUME NEW g, NEW s PROVE \A n \in Nat : \E f : Iterates(f, g, s, n)
<1> DEFINE S == {n \in Nat : \E f : Iterates(f, g, s, n)}
<1>1. 0 \in S
  <2>1. Iterates([T \in SUBSET (1..0) |-> g], g, s, 0)
    BY DEF Iterates
  <2> QED
    BY <2>1
<1>2. ASSUME NEW n \in Nat, n \in S PROVE n + 1 \in S
  BY <1>2, IteratesOneMore
<1>3. Nat \subseteq S
  <2> HIDE DEF S
  <2> QED
    BY <1>1, <1>2, SetInduction
<1> QED
  BY <1>3

\* What a game that was g goes through while it reads the packets s.
Run(r, g, s) ==
  /\ r[0] = g
  /\ \A i \in 1..Len(s) : r[i] = Reads(r[i - 1], s[i])

\* Reading goes through a run, and every run ends with the same game.
LEMMA RunExists ==
  ASSUME NEW P, NEW g, NEW s \in Seq(P)
  PROVE  \E r : Run(r, g, s) /\ r[Len(s)] = ReadsAll(g, s)
<1> DEFINE n == Len(s)
           iter == CHOOSE f : Iterates(f, g, s, n)
           r == [i \in 0..n |-> iter[1..i]]
<1>1. n \in Nat /\ DOMAIN s = 1..n
  BY LenProperties
<1>2. Iterates(iter, g, s, n)
  BY <1>1, IteratesExists
<1>3. ReadsAll(g, s) = iter[1..n]
  BY <1>1 DEF ReadsAll, FoldLeft, MapThenFoldSet, Iterates
<1> HIDE DEF iter, n
<1>4. r[0] = g
  BY <1>1, <1>2 DEF Iterates
<1>5. ASSUME NEW i \in 1..n PROVE r[i] = Reads(r[i - 1], s[i])
  <2>1. Max(1..i) = i /\ (1..i) \ {i} = 1..(i - 1)
    BY <1>1, MaxOf
  <2>2. 1..i \in SUBSET (1..n) /\ 1..i # {}
    BY <1>1
  <2>3. iter[1..i] = Reads(iter[1..(i - 1)], s[i])
    BY <1>2, <2>1, <2>2 DEF Iterates
  <2> QED
    BY <1>1, <2>3
<1>6. r[n] = iter[1..n]
  BY <1>1
<1> HIDE DEF r
<1> QED
  BY <1>3, <1>4, <1>5, <1>6 DEF Run, n

LEMMA RunEnds ==
  ASSUME NEW P, NEW g, NEW s \in Seq(P), NEW r, Run(r, g, s)
  PROVE  r[Len(s)] = ReadsAll(g, s)
<1> DEFINE n == Len(s)
<1>1. n \in Nat
  BY LenProperties
<1>2. PICK q : Run(q, g, s) /\ q[n] = ReadsAll(g, s)
  BY RunExists
<1> DEFINE S == {i \in Nat : i <= n => r[i] = q[i]}
<1>3. 0 \in S
  BY <1>2 DEF Run
<1>4. ASSUME NEW i \in Nat, i \in S PROVE i + 1 \in S
  <2>1. CASE i + 1 <= n
    <3>1. i + 1 \in 1..n /\ (i + 1) - 1 = i
      BY <1>1, <2>1
    <3>2. r[i + 1] = Reads(r[i], s[i + 1]) /\ q[i + 1] = Reads(q[i], s[i + 1])
      BY <1>2, <3>1 DEF Run
    <3>3. r[i] = q[i]
      BY <1>1, <1>4, <2>1
    <3> QED
      BY <3>2, <3>3
  <2> QED
    BY <2>1
<1>5. n \in S
  <2> HIDE DEF S
  <2> QED
    BY <1>1, <1>3, <1>4, SetInduction
<1> QED
  BY <1>2, <1>5
\* A game that reads one stream after another, or a packet and then the rest.
LEMMA ReadsNothing == ASSUME NEW g PROVE ReadsAll(g, <<>>) = g
<1>1. Run([i \in 0..0 |-> g], g, <<>>)
  BY DEF Run
<1> QED
  BY <1>1, RunEnds, <<>> \in Seq({})

LEMMA ReadsOne == ASSUME NEW g, NEW p PROVE ReadsAll(g, <<p>>) = Reads(g, p)
<1> DEFINE r == [i \in 0..1 |-> IF i = 0 THEN g ELSE Reads(g, p)]
<1>1. Run(r, g, <<p>>)
  BY DEF Run
<1>2. <<p>> \in Seq({p}) /\ Len(<<p>>) = 1
  OBVIOUS
<1> QED
  BY <1>1, <1>2, RunEnds

LEMMA ReadsConcat ==
  ASSUME NEW P, NEW g, NEW s \in Seq(P), NEW t \in Seq(P)
  PROVE  ReadsAll(g, s \o t) = ReadsAll(ReadsAll(g, s), t)
<1> DEFINE m == Len(s)
           n == Len(t)
<1>1. m \in Nat /\ n \in Nat
  BY LenProperties
<1>2. /\ s \o t \in Seq(P) /\ Len(s \o t) = m + n
      /\ \A i \in 1..(m + n) : (s \o t)[i] = IF i <= m THEN s[i] ELSE t[i - m]
  BY ConcatProperties
<1>3. PICK q : Run(q, g, s) /\ q[m] = ReadsAll(g, s)
  BY RunExists
<1>4. PICK r : Run(r, ReadsAll(g, s), t) /\ r[n] = ReadsAll(ReadsAll(g, s), t)
  BY RunExists
<1> DEFINE both == [i \in 0..(m + n) |-> IF i <= m THEN q[i] ELSE r[i - m]]
<1>5. \A i \in m..(m + n) : both[i] = r[i - m]
  BY <1>1, <1>3, <1>4 DEF Run
<1>6. \A i \in 0..m : both[i] = q[i]
  BY <1>1
<1>7. ASSUME NEW i \in 1..(m + n) PROVE both[i] = Reads(both[i - 1], (s \o t)[i])
  <2>1. CASE i <= m
    <3>1. i \in 1..m /\ i \in 0..m /\ i - 1 \in 0..m
      BY <1>1, <2>1
    <3>2. q[i] = Reads(q[i - 1], s[i])
      BY <1>3, <3>1 DEF Run
    <3> QED
      BY <1>2, <1>6, <2>1, <3>1, <3>2
  <2>2. CASE i > m
    <3>1. i \in m..(m + n) /\ i - 1 \in m..(m + n) /\ i - m \in 1..n /\ (i - 1) - m = (i - m) - 1
      BY <1>1, <2>2
    <3>2. r[i - m] = Reads(r[(i - m) - 1], t[i - m])
      BY <1>4, <3>1 DEF Run
    <3>3. (s \o t)[i] = t[i - m]
      BY <1>1, <1>2, <2>2
    <3>4. both[i] = r[i - m] /\ both[i - 1] = r[(i - m) - 1]
      BY <1>5, <3>1
    <3> QED
      BY <3>2, <3>3, <3>4
  <2> QED
    BY <1>1, <2>1, <2>2
<1>8. both[0] = g /\ both[m + n] = ReadsAll(ReadsAll(g, s), t)
  <2>1. 0 \in 0..m /\ m + n \in m..(m + n) /\ (m + n) - m = n
    BY <1>1
  <2> QED
    BY <1>3, <1>4, <1>5, <1>6, <2>1 DEF Run
<1>9. Run(both, g, s \o t)
  <2> HIDE DEF both
  <2> QED
    BY <1>2, <1>7, <1>8 DEF Run
<1> HIDE DEF both
<1>10. both[Len(s \o t)] = ReadsAll(g, s \o t)
  BY <1>2, <1>9, RunEnds
<1> QED
  BY <1>2, <1>8, <1>10

LEMMA ReadsFirst ==
  ASSUME NEW P, NEW g, NEW s \in Seq(P), s # <<>>
  PROVE  ReadsAll(Reads(g, Head(s)), Tail(s)) = ReadsAll(g, s)
<1> DEFINE first == <<Head(s)>>
           rest == Tail(s)
<1>1. first \in Seq(P) /\ rest \in Seq(P) /\ s = first \o rest
  <2>1. Head(s) \in P /\ Tail(s) \in Seq(P)
    BY HeadTailProperties
  <2> QED
    BY <2>1
<1>2. ReadsAll(g, first) = Reads(g, Head(s))
  BY ReadsOne
<1> HIDE DEF first, rest
<1>3. ReadsAll(g, first \o rest) = ReadsAll(ReadsAll(g, first), rest)
  BY <1>1, ReadsConcat
<1> QED
  BY <1>1, <1>2, <1>3 DEF rest

-----------------------------------------------------------------------------
\* The packets that are followed, the games, and what a client's stream holds.
WirePacket == {<<"login">>, Kick} \cup ({"spawn", "destroy"} \X Client)
Game == [joined : BOOLEAN, drawn : SUBSET Client, over : BOOLEAN,
         confused : BOOLEAN, garbled : BOOLEAN]
Wires == [m_writing : BOOLEAN, m_outgoing : Seq(WirePacket), pipe : Seq(WirePacket)]
StreamOf(w) == w.pipe \o w.m_outgoing

\* The order of m_clients names every client once.
LEMMA OrderOf ==
  ASSUME NEW S \in SUBSET Client
  PROVE  LET n == Cardinality(S)
             q == SetToSeq(S)
         IN  /\ n \in Nat /\ q \in [1..n -> S]
             /\ \A i, j \in 1..n : q[i] = q[j] => i = j
             /\ S = {q[i] : i \in 1..n}
<1> DEFINE n == Cardinality(S)
           q == SetToSeq(S)
<1>1. IsFiniteSet(S)
  BY ServerAssumption, FS_Subset
<1>2. n \in Nat /\ ExistsBijection(1..n, S)
  BY <1>1, FS_CardinalityType
<1>3. \E f \in [1..n -> S] : IsInjective(f)
  BY <1>2 DEF ExistsBijection, Bijection, Injection
<1>4. q \in [1..n -> S] /\ IsInjective(q)
  BY <1>3 DEF SetToSeq
<1>5. IsFiniteSet(1..n) /\ Cardinality(1..n) = n
  BY <1>2, FS_Interval
<1> HIDE DEF n, q
<1>6. q \in Injection(1..n, S)
  BY <1>4 DEF Injection
<1>7. q \in Surjection(1..n, S)
  BY <1>1, <1>5, <1>6, FS_Injection DEF n
<1>8. S = {q[i] : i \in 1..n}
  BY <1>4, <1>7 DEF Surjection
<1> QED
  BY <1>2, <1>4, <1>8 DEF IsInjective, n, q

LEMMA EachIsStream ==
  ASSUME NEW S \in SUBSET Client, NEW kind \in {"spawn", "destroy"}
  PROVE  Each(kind, S) \in Seq(WirePacket) /\ Len(Each(kind, S)) = Cardinality(S)
<1> DEFINE n == Cardinality(S)
           q == SetToSeq(S)
<1>1. n \in Nat /\ q \in [1..n -> S]
  BY OrderOf
<1> HIDE DEF n, q
<1>2. \A i \in 1..n : <<kind, q[i]>> \in WirePacket
  BY <1>1 DEF WirePacket
<1>3. [i \in 1..n |-> <<kind, q[i]>>] \in Seq(WirePacket)
  BY <1>1, <1>2
<1>4. Each(kind, S) = [i \in 1..n |-> <<kind, q[i]>>]
  BY DEF Each, n, q
<1> QED
  BY <1>1, <1>3, <1>4 DEF n

\* A game that is joined and not over draws in the end all it is told to spawn,
\* none of which it drew before, and nothing of what it is told to destroy.
LEMMA ReadsSpawns ==
  ASSUME NEW g \in Game, ~g.garbled, ~g.over, g.joined,
         NEW S \in SUBSET Client, S \cap g.drawn = {}
  PROVE  ReadsAll(g, Each("spawn", S)) = [g EXCEPT !.drawn = @ \cup S]
<1> DEFINE n == Cardinality(S)
           q == SetToSeq(S)
           p == Each("spawn", S)
           told(i) == {q[j] : j \in 1..i}
           r == [i \in 0..n |-> [g EXCEPT !.drawn = @ \cup told(i)]]
<1>1. /\ n \in Nat /\ q \in [1..n -> S] /\ S = told(n)
      /\ \A i, j \in 1..n : q[i] = q[j] => i = j
  BY OrderOf
<1>2. p \in Seq(WirePacket) /\ Len(p) = n /\ \A i \in 1..n : p[i] = <<"spawn", q[i]>>
  BY <1>1, EachIsStream DEF Each
<1> HIDE DEF n, q, p
<1>3. r[0] = g
  <2>1. told(0) = {}
    OBVIOUS
  <2>2. [g EXCEPT !.drawn = @ \cup {}] = g
    BY DEF Game
  <2> QED
    BY <1>1, <2>1, <2>2
<1>4. ASSUME NEW i \in 1..n PROVE r[i] = Reads(r[i - 1], p[i])
  <2>1. told(i) = told(i - 1) \cup {q[i]} /\ q[i] \notin told(i - 1) /\ q[i] \notin g.drawn
    BY <1>1
  <2> DEFINE h == [g EXCEPT !.drawn = @ \cup told(i - 1)]
  <2>2. r[i - 1] = h /\ r[i] = [g EXCEPT !.drawn = @ \cup told(i)]
    BY <1>1
  <2>3. /\ ~h.garbled /\ ~h.over /\ h.joined /\ h.drawn = g.drawn \cup told(i - 1)
        /\ [h EXCEPT !.drawn = @ \cup {q[i]}]
             = [g EXCEPT !.drawn = (g.drawn \cup told(i - 1)) \cup {q[i]}]
    BY DEF Game
  <2>4. q[i] \notin h.drawn
    BY <2>1, <2>3
  <2> HIDE DEF h, told
  <2>5. Reads(h, <<"spawn", q[i]>>) = [h EXCEPT !.drawn = @ \cup {q[i]}]
    BY <2>3, <2>4 DEF Reads
  <2>6. (g.drawn \cup told(i - 1)) \cup {q[i]} = g.drawn \cup told(i)
    BY <2>1
  <2>7. r[i] = [h EXCEPT !.drawn = @ \cup {q[i]}]
    BY <2>2, <2>3, <2>6
  <2> HIDE DEF r
  <2> QED
    BY <1>2, <2>2, <2>5, <2>7
<1>5. r[n] = [g EXCEPT !.drawn = @ \cup S]
  BY <1>1
<1> HIDE DEF r
<1>6. Run(r, g, p)
  BY <1>2, <1>3, <1>4 DEF Run
<1>7. r[Len(p)] = ReadsAll(g, p)
  BY <1>2, <1>6, RunEnds
<1> QED
  BY <1>2, <1>5, <1>7 DEF p

LEMMA ReadsDestroys ==
  ASSUME NEW g \in Game, ~g.garbled, ~g.over, g.joined,
         NEW S \in SUBSET Client
  PROVE  ReadsAll(g, Each("destroy", S)) = [g EXCEPT !.drawn = @ \ S]
<1> DEFINE n == Cardinality(S)
           q == SetToSeq(S)
           p == Each("destroy", S)
           told(i) == {q[j] : j \in 1..i}
           r == [i \in 0..n |-> [g EXCEPT !.drawn = @ \ told(i)]]
<1>1. /\ n \in Nat /\ q \in [1..n -> S] /\ S = told(n)
      /\ \A i, j \in 1..n : q[i] = q[j] => i = j
  BY OrderOf
<1>2. p \in Seq(WirePacket) /\ Len(p) = n /\ \A i \in 1..n : p[i] = <<"destroy", q[i]>>
  BY <1>1, EachIsStream DEF Each
<1> HIDE DEF n, q, p
<1>3. r[0] = g
  <2>1. told(0) = {}
    OBVIOUS
  <2>2. [g EXCEPT !.drawn = @ \ {}] = g
    BY DEF Game
  <2> QED
    BY <1>1, <2>1, <2>2
<1>4. ASSUME NEW i \in 1..n PROVE r[i] = Reads(r[i - 1], p[i])
  <2>1. told(i) = told(i - 1) \cup {q[i]}
    BY <1>1
  <2> DEFINE h == [g EXCEPT !.drawn = @ \ told(i - 1)]
  <2>2. r[i - 1] = h /\ r[i] = [g EXCEPT !.drawn = @ \ told(i)]
    BY <1>1
  <2>3. /\ ~h.garbled /\ ~h.over /\ h.joined /\ h.drawn = g.drawn \ told(i - 1)
        /\ [h EXCEPT !.drawn = @ \ {q[i]}]
             = [g EXCEPT !.drawn = (g.drawn \ told(i - 1)) \ {q[i]}]
    BY DEF Game
  <2> HIDE DEF h, told
  <2>4. Reads(h, <<"destroy", q[i]>>) = [h EXCEPT !.drawn = @ \ {q[i]}]
    BY <2>3 DEF Reads
  <2>5. (g.drawn \ told(i - 1)) \ {q[i]} = g.drawn \ told(i)
    BY <2>1
  <2>6. r[i] = [h EXCEPT !.drawn = @ \ {q[i]}]
    BY <2>2, <2>3, <2>5
  <2> HIDE DEF r
  <2> QED
    BY <1>2, <2>2, <2>4, <2>6
<1>5. r[n] = [g EXCEPT !.drawn = @ \ S]
  BY <1>1
<1> HIDE DEF r
<1>6. Run(r, g, p)
  BY <1>2, <1>3, <1>4 DEF Run
<1>7. r[Len(p)] = ReadsAll(g, p)
  BY <1>2, <1>6, RunEnds
<1> QED
  BY <1>2, <1>5, <1>7 DEF p

-----------------------------------------------------------------------------
\* The type of what module Wire adds.
WireTypes == wire \in [Client -> Wires] /\ game \in [Client -> Game]

\* A Client object that has not been accepted has a fresh stream and game.
Untouched == \A c \in Client : m_state[c] = "LISTENING" => wire[c] = NewWire /\ game[c] = NewGame

\* A game, once caught up, has been logged in if its client has played, draws
\* what it was told to, and is over only when its client is being disconnected.
Tracks(c) ==
  /\ CaughtUp(c).joined = m_hasPlayed[c]
  /\ CaughtUp(c).drawn = spawned[c]
  /\ ~CaughtUp(c).confused /\ ~CaughtUp(c).garbled
  /\ CaughtUp(c).over => m_state[c] \in {"DISCONNECTING", "DISCONNECTED"}

\* The inductive invariant.
WireIInv ==
  /\ IInv
  /\ WireTypes
  /\ Untouched
  /\ \A c \in Followed : Tracks(c)

\* A packet is read into a game, and so is a stream.
LEMMA ReadsType ==
  ASSUME NEW g \in Game, NEW p \in WirePacket
  PROVE  Reads(g, p) \in Game
<1>1. CASE p = <<"login">>
  BY <1>1 DEF Game, Reads
<1>2. CASE p = <<"kick">>
  BY <1>2 DEF Game, Reads
<1>3. ASSUME NEW c \in Client, p = <<"spawn", c>> PROVE Reads(g, p) \in Game
  BY <1>3 DEF Game, Reads
<1>4. ASSUME NEW c \in Client, p = <<"destroy", c>> PROVE Reads(g, p) \in Game
  BY <1>4 DEF Game, Reads
<1> QED
  BY <1>1, <1>2, <1>3, <1>4 DEF WirePacket, Kick

LEMMA ReadsAllType ==
  ASSUME NEW g \in Game, NEW s \in Seq(WirePacket)
  PROVE  ReadsAll(g, s) \in Game
<1> DEFINE n == Len(s)
<1>1. n \in Nat /\ \A i \in 1..n : s[i] \in WirePacket
  BY LenProperties
<1>2. PICK r : Run(r, g, s) /\ r[n] = ReadsAll(g, s)
  BY RunExists
<1> DEFINE S == {i \in Nat : i <= n => r[i] \in Game}
<1>3. 0 \in S
  BY <1>2 DEF Run
<1>4. ASSUME NEW i \in Nat, i \in S PROVE i + 1 \in S
  <2>1. CASE i + 1 <= n
    <3>1. i + 1 \in 1..n /\ (i + 1) - 1 = i /\ r[i] \in Game
      BY <1>1, <1>4, <2>1
    <3>2. r[i + 1] = Reads(r[i], s[i + 1])
      BY <1>2, <3>1 DEF Run
    <3> QED
      BY <1>1, <3>1, <3>2, ReadsType
  <2> QED
    BY <2>1
<1>5. n \in S
  <2> HIDE DEF S
  <2> QED
    BY <1>1, <1>3, <1>4, SetInduction
<1> QED
  BY <1>2, <1>5

-----------------------------------------------------------------------------
\* Queueing appends to a stream, and starting a write leaves it as it is.
LEMMA PutStream ==
  ASSUME NEW w \in Wires, NEW p \in Seq(WirePacket)
  PROVE  Put(w, p) \in Wires /\ StreamOf(Put(w, p)) = StreamOf(w) \o p
<1>1. w.m_outgoing \o p \in Seq(WirePacket)
  BY ConcatProperties DEF Wires
<1>2. w.pipe \o (w.m_outgoing \o p) = (w.pipe \o w.m_outgoing) \o p
  BY ConcatAssociative DEF Wires
<1> QED
  BY <1>1, <1>2 DEF Put, Wires, StreamOf

LEMMA WriteStream ==
  ASSUME NEW w \in Wires, NEW v \in WriteIfNeeded(w)
  PROVE  v \in Wires /\ StreamOf(v) = StreamOf(w)
<1>1. CASE v = w
  BY <1>1
<1>2. CASE v = Started(w)
  <2>1. w.pipe \o w.m_outgoing \in Seq(WirePacket)
    BY ConcatProperties DEF Wires
  <2>2. (w.pipe \o w.m_outgoing) \o <<>> = w.pipe \o w.m_outgoing
    BY <2>1, ConcatEmptySeq
  <2> QED
    BY <1>2, <2>1, <2>2 DEF Started, Wires, StreamOf
<1> QED
  BY <1>1, <1>2 DEF WriteIfNeeded

LEMMA EndedStream ==
  ASSUME NEW w \in Wires
  PROVE  Ended(w) \in Wires /\ StreamOf(Ended(w)) = StreamOf(w)
  BY DEF Ended, Wires, StreamOf

\* The end of a handler appends each client's packets to its stream.
LEMMA FlushedStreams ==
  ASSUME WireTypes, NEW c \in Client, NEW packets \in [Client -> Seq(WirePacket)],
         Flushed(c, packets)
  PROVE  /\ wire' \in [Client -> Wires]
         /\ \A d \in Client : StreamOf(wire'[d]) = StreamOf(wire[d]) \o packets[d]
<1>1. PICK w \in WriteIfNeeded(Put(wire[c], packets[c])) :
        wire' = [d \in Client |-> IF d = c THEN w ELSE Put(wire[d], packets[d])]
  BY DEF Flushed
<1>2. \A d \in Client : /\ Put(wire[d], packets[d]) \in Wires
                        /\ StreamOf(Put(wire[d], packets[d])) = StreamOf(wire[d]) \o packets[d]
  BY PutStream DEF WireTypes
<1>3. w \in Wires /\ StreamOf(w) = StreamOf(wire[c]) \o packets[c]
  BY <1>1, <1>2, WriteStream
<1> QED
  BY <1>1, <1>2, <1>3

\* A game that is told p has caught up when it has read p, too.
LEMMA CaughtUpAfter ==
  ASSUME WireTypes, NEW c \in Client, NEW p \in Seq(WirePacket),
         game'[c] = game[c], StreamOf(wire'[c]) = StreamOf(wire[c]) \o p
  PROVE  CaughtUp(c)' = ReadsAll(CaughtUp(c), p)
<1>1. StreamOf(wire[c]) \in Seq(WirePacket)
  BY ConcatProperties DEF WireTypes, Wires, StreamOf
<1>2. /\ CaughtUp(c)' = ReadsAll(game'[c], StreamOf(wire'[c]))
      /\ CaughtUp(c) = ReadsAll(game[c], StreamOf(wire[c]))
  BY DEF CaughtUp, StreamOf
<1> HIDE DEF WireTypes
<1> DEFINE s == StreamOf(wire[c])
           g == game[c]
<1>3. ReadsAll(g, s \o p) = ReadsAll(ReadsAll(g, s), p)
  <2>1. s \in Seq(WirePacket)
    BY <1>1
  <2> HIDE DEF s, g
  <2> QED
    BY <2>1, ReadsConcat
<1> QED
  BY <1>2, <1>3

LEMMA CaughtUpType ==
  ASSUME WireTypes, NEW c \in Client
  PROVE  CaughtUp(c) \in Game
<1>1. game[c] \in Game /\ wire[c].pipe \o wire[c].m_outgoing \in Seq(WirePacket)
  BY ConcatProperties DEF WireTypes, Wires
<1> QED
  BY <1>1, ReadsAllType DEF CaughtUp

-----------------------------------------------------------------------------
\* A client whose stream and game stay as they are, and what the server takes
\* the game to know too, is followed as before.
LEMMA TracksOn ==
  ASSUME WireTypes, NEW c \in Client, Tracks(c),
         game'[c] = game[c], StreamOf(wire'[c]) = StreamOf(wire[c]),
         m_hasPlayed'[c] = m_hasPlayed[c], spawned'[c] = spawned[c],
         m_state'[c] \in {m_state[c], "DISCONNECTING", "DISCONNECTED"}
  PROVE  Tracks(c)'
<1>1. CaughtUp(c)' = CaughtUp(c)
  BY DEF CaughtUp, StreamOf
<1> QED
  BY <1>1 DEF Tracks

\* A handler that queues nothing that is followed.
LEMMA NothingQueued ==
  ASSUME WireTypes, NEW c \in Client, Flushed(c, [d \in Client |-> <<>>])
  PROVE  /\ wire' \in [Client -> Wires]
         /\ \A d \in Client : StreamOf(wire'[d]) = StreamOf(wire[d])
<1> DEFINE none == [d \in Client |-> <<>>]
<1>1. none \in [Client -> Seq(WirePacket)] /\ \A d \in Client : none[d] = <<>>
  OBVIOUS
<1> HIDE DEF none
<1>2. /\ wire' \in [Client -> Wires]
      /\ \A d \in Client : StreamOf(wire'[d]) = StreamOf(wire[d]) \o none[d]
  BY <1>1, FlushedStreams DEF none
<1>3. \A d \in Client : StreamOf(wire[d]) \in Seq(WirePacket)
  BY ConcatProperties DEF WireTypes, Wires, StreamOf
<1>4. \A d \in Client : StreamOf(wire[d]) \o <<>> = StreamOf(wire[d])
  BY <1>3, ConcatEmptySeq
<1> QED
  BY <1>1, <1>2, <1>4

\* The wire of a client that is not touched by a handler of c stays fresh.
LEMMA FreshStays ==
  ASSUME NEW c \in Client, NEW packets, Flushed(c, packets), NEW d \in Client, d # c,
         wire[d] = NewWire, packets[d] = <<>>
  PROVE  wire'[d] = NewWire
<1>1. <<>> \o <<>> = <<>>
  BY ConcatEmptySeq, <<>> \in Seq({})
<1>2. wire'[d] = Put(wire[d], <<>>)
  BY DEF Flushed
<1> QED
  BY <1>1, <1>2 DEF Put, NewWire

LEMMA AcceptTracks ==
  ASSUME WireIInv, NEW c \in Client, WireAccept(c)
  PROVE  WireTypes' /\ Untouched' /\ \A d \in Followed' : Tracks(d)'
<1> USE DEF WireIInv, WireAccept
<1>1. /\ wire' = wire /\ game' = game /\ m_clients' = m_clients \cup {c}
      /\ m_state[c] = "LISTENING" /\ m_state' = [m_state EXCEPT ![c] = "CONNECTED"]
      /\ UNCHANGED <<m_hasPlayed, spawned>>
  BY DEF HandleAccept
<1>2. m_state \in [Client -> State] /\ m_clients \subseteq Client
  BY DEF IInv, TypeOK
<1>3. WireTypes' /\ Untouched'
  BY <1>1, <1>2 DEF WireTypes, Untouched
<1>4. Tracks(c)'
  <2>1. wire[c] = NewWire /\ game[c] = NewGame
    BY <1>1 DEF Untouched
  <2>2. CaughtUp(c)' = NewGame
    <3>1. CaughtUp(c)' = ReadsAll(NewGame, <<>> \o <<>>)
      BY <1>1, <2>1 DEF CaughtUp, NewWire
    <3>2. <<>> \o <<>> = <<>>
      BY ConcatEmptySeq, <<>> \in Seq({})
    <3> QED
      BY <3>1, <3>2, ReadsNothing
  <2>3. ~m_hasPlayed[c] /\ spawned[c] = {}
    BY <1>1 DEF IInv, PlayedOnce, BlankBeforeLogin
  <2>4. m_hasPlayed[c] = FALSE
    BY <2>3 DEF IInv, TypeOK
  <2>5. /\ CaughtUp(c)'.joined = FALSE /\ CaughtUp(c)'.drawn = {} /\ ~CaughtUp(c)'.confused
        /\ ~CaughtUp(c)'.garbled /\ ~CaughtUp(c)'.over
    BY <2>2 DEF NewGame
  <2>6. m_hasPlayed'[c] = FALSE /\ spawned'[c] = {}
    BY <1>1, <2>3, <2>4
  <2> QED
    BY <2>5, <2>6 DEF Tracks
<1>5. ASSUME NEW d \in Followed', d # c PROVE Tracks(d)'
  <2>1. d \in Followed /\ d \in Client /\ Tracks(d)
    BY <1>1, <1>2, <1>5 DEF Followed
  <2> QED
    BY <1>1, <1>2, <1>5, <2>1, TracksOn
<1> QED
  BY <1>3, <1>4, <1>5

\* handleLogin: c is told of its login and of the others, and they of it.
LEMMA LoginTracks ==
  ASSUME WireIInv, NEW c \in Client, WireLogin(c)
  PROVE  WireTypes' /\ Untouched' /\ \A d \in Followed' : Tracks(d)'
<1> DEFINE packets == [d \in Client |-> AtLogin(c, d)]
<1>1. /\ game' = game /\ m_clients' = m_clients /\ c \in m_clients
      /\ m_state[c] = "CONNECTED" /\ m_state' = [m_state EXCEPT ![c] = "PLAYING"]
      /\ m_hasPlayed' = [m_hasPlayed EXCEPT ![c] = TRUE] /\ spawned' = SpawnedAtLogin(c)
      /\ Flushed(c, packets)
  BY DEF WireLogin, HandleLogin
<1>2. /\ m_state \in [Client -> State] /\ m_clients \subseteq Client
      /\ m_hasPlayed \in [Client -> BOOLEAN] /\ spawned \in [Client -> SUBSET Client]
      /\ Playing \subseteq Client /\ c \notin Playing
      /\ WireTypes /\ Untouched /\ \A d \in Followed : Tracks(d)
  BY <1>1 DEF WireIInv, IInv, TypeOK, Playing
<1>3. \A d \in Client : packets[d] \in Seq(WirePacket)
  <2>1. Each("spawn", Playing) \in Seq(WirePacket) /\ Each("spawn", {c}) \in Seq(WirePacket)
    BY <1>2, EachIsStream
  <2>2. << <<"login">> >> \in Seq(WirePacket)
    BY DEF WirePacket
  <2>3. << <<"login">> >> \o Each("spawn", Playing) \in Seq(WirePacket)
    BY <2>1, <2>2, ConcatProperties
  <2> QED
    BY <2>1, <2>3 DEF AtLogin
<1>4. packets \in [Client -> Seq(WirePacket)]
  BY <1>3
<1>5. /\ wire' \in [Client -> Wires]
      /\ \A d \in Client : StreamOf(wire'[d]) = StreamOf(wire[d]) \o packets[d]
  BY <1>1, <1>2, <1>4, FlushedStreams
<1>6. \A d \in Client : packets[d] = AtLogin(c, d)
  OBVIOUS
<1> HIDE DEF packets
<1>7. \A d \in Client : CaughtUp(d)' = ReadsAll(CaughtUp(d), packets[d])
  BY <1>1, <1>2, <1>3, <1>5, CaughtUpAfter
<1>8. Followed' = Followed
  BY <1>1 DEF Followed
<1>9. Untouched'
  <2> SUFFICES ASSUME NEW d \in Client, m_state'[d] = "LISTENING"
               PROVE  wire'[d] = NewWire /\ game'[d] = NewGame
    BY DEF Untouched
  <2>1. d # c /\ m_state[d] = "LISTENING" /\ d \notin Playing
    BY <1>1, <1>2 DEF Playing
  <2>2. wire[d] = NewWire /\ game[d] = NewGame /\ packets[d] = <<>>
    BY <1>2, <1>6, <2>1 DEF Untouched, AtLogin
  <2> QED
    BY <1>1, <2>1, <2>2, FreshStays
<1>10. ASSUME NEW d \in Followed PROVE Tracks(d)'
  <2>1. /\ d \in Client /\ d \in m_clients /\ Tracks(d) /\ CaughtUp(d) \in Game
    BY <1>2, CaughtUpType DEF Followed
  <2>2. CASE d = c
    <3> DEFINE g == CaughtUp(c)
               h == [g EXCEPT !.joined = TRUE]
    <3>1. ~m_hasPlayed[c] /\ spawned[c] = {}
      BY <1>1 DEF WireIInv, IInv, PlayedOnce, BlankBeforeLogin
    <3>2. g \in Game /\ ~g.joined /\ g.drawn = {} /\ ~g.confused /\ ~g.garbled /\ ~g.over
      BY <1>1, <2>1, <2>2, <3>1 DEF Tracks
    <3>3. packets[c] = << <<"login">> >> \o Each("spawn", Playing)
      BY <1>2, <1>6 DEF AtLogin
    <3> HIDE DEF g
    <3>4. /\ h \in Game /\ h.joined /\ h.drawn = {} /\ ~h.confused /\ ~h.garbled /\ ~h.over
          /\ [h EXCEPT !.drawn = @ \cup Playing].drawn = Playing
      BY <3>2 DEF Game
    <3>5. Reads(g, <<"login">>) = h
      BY <3>2 DEF Reads
    <3>6. ReadsAll(g, << <<"login">> >> \o Each("spawn", Playing)) = [h EXCEPT !.drawn = @ \cup Playing]
      <4> DEFINE first == << <<"login">> >>
                 rest == Each("spawn", Playing)
      <4>1. first \in Seq(WirePacket) /\ rest \in Seq(WirePacket)
        BY <1>2, EachIsStream DEF WirePacket
      <4>2. ReadsAll(g, first) = h
        BY <3>5, ReadsOne
      <4>3. ReadsAll(h, rest) = [h EXCEPT !.drawn = @ \cup Playing]
        BY <1>2, <3>4, ReadsSpawns
      <4> HIDE DEF first, rest, h
      <4>4. ReadsAll(g, first \o rest) = ReadsAll(ReadsAll(g, first), rest)
        BY <4>1, ReadsConcat
      <4> QED
        BY <4>2, <4>3, <4>4 DEF first, rest
    <3>7. CaughtUp(c)' = [h EXCEPT !.drawn = @ \cup Playing]
      BY <1>7, <3>3, <3>6 DEF g
    <3>8. spawned'[c] = Playing /\ m_hasPlayed'[c] = TRUE
      BY <1>1, <1>2, <3>1 DEF SpawnedAtLogin
    <3>9. h.joined = TRUE
      BY <3>2 DEF Game
    <3> HIDE DEF h
    <3>10. /\ CaughtUp(c)'.joined = TRUE /\ CaughtUp(c)'.drawn = Playing /\ ~CaughtUp(c)'.confused
           /\ ~CaughtUp(c)'.garbled /\ ~CaughtUp(c)'.over
      BY <3>4, <3>7, <3>9 DEF Game
    <3> QED
      BY <2>2, <3>8, <3>10 DEF Tracks
  <2>3. CASE d # c /\ d \in Playing
    <3> DEFINE g == CaughtUp(d)
    <3>1. m_hasPlayed[d] /\ c \notin spawned[d] /\ m_state[d] = "PLAYING"
      BY <1>1, <1>2, <2>3 DEF WireIInv, IInv, PlayedOnce, DrawsPlayers, Playing
    <3>2. g \in Game /\ g.joined /\ {c} \cap g.drawn = {} /\ ~g.garbled /\ ~g.over
      BY <2>1, <3>1 DEF Tracks
    <3>3. packets[d] = Each("spawn", {c})
      BY <1>6, <2>1, <2>3 DEF AtLogin
    <3>4. ReadsAll(g, Each("spawn", {c})) = [g EXCEPT !.drawn = @ \cup {c}]
      <4> HIDE DEF g
      <4> QED
        BY <3>2, ReadsSpawns
    <3>5. CaughtUp(d)' = [g EXCEPT !.drawn = @ \cup {c}]
      BY <1>7, <2>1, <3>3, <3>4
    <3>6. spawned'[d] = spawned[d] \cup {c} /\ m_hasPlayed'[d] = m_hasPlayed[d] /\ m_state'[d] = m_state[d]
      BY <1>1, <1>2, <2>1, <2>3 DEF SpawnedAtLogin
    <3>7. /\ CaughtUp(d)'.joined = g.joined /\ CaughtUp(d)'.drawn = g.drawn \cup {c}
          /\ CaughtUp(d)'.confused = g.confused /\ CaughtUp(d)'.garbled = g.garbled
          /\ CaughtUp(d)'.over = g.over
      BY <3>2, <3>5 DEF Game
    <3> QED
      BY <2>1, <3>6, <3>7 DEF Tracks
  <2>4. CASE d # c /\ d \notin Playing
    <3>1. packets[d] = <<>>
      BY <1>6, <2>1, <2>4 DEF AtLogin
    <3>2. StreamOf(wire'[d]) = StreamOf(wire[d])
      <4>1. StreamOf(wire[d]) \in Seq(WirePacket)
        BY <1>2, <2>1, ConcatProperties DEF WireTypes, Wires, StreamOf
      <4> QED
        BY <1>5, <2>1, <3>1, <4>1, ConcatEmptySeq
    <3>3. spawned'[d] = spawned[d] /\ m_hasPlayed'[d] = m_hasPlayed[d] /\ m_state'[d] = m_state[d]
      BY <1>1, <1>2, <2>1, <2>4 DEF SpawnedAtLogin
    <3> QED
      BY <1>1, <1>2, <2>1, <3>2, <3>3, TracksOn
  <2> QED
    BY <2>2, <2>3, <2>4
<1> QED
  BY <1>1, <1>2, <1>5, <1>8, <1>9, <1>10 DEF WireTypes

\* disconnect(reason): the game is over once it has read the kick.
LEMMA DisconnectTracks ==
  ASSUME WireIInv, NEW c \in Client, WireDisconnect(c)
  PROVE  WireTypes' /\ Untouched' /\ \A d \in Followed' : Tracks(d)'
<1> DEFINE packets == [d \in Client |-> IF d = c THEN <<Kick>> ELSE <<>>]
<1>1. /\ game' = game /\ m_clients' = m_clients /\ c \in m_clients
      /\ m_state[c] \in {"CONNECTED", "PLAYING"}
      /\ m_state' = [m_state EXCEPT ![c] = "DISCONNECTING"]
      /\ UNCHANGED <<m_hasPlayed, spawned>>
      /\ Flushed(c, packets)
  BY DEF WireDisconnect, Disconnect, Dispatching
<1>2. /\ m_state \in [Client -> State] /\ m_clients \subseteq Client
      /\ WireTypes /\ Untouched /\ \A d \in Followed : Tracks(d)
  BY DEF WireIInv, IInv, TypeOK
<1>3. packets \in [Client -> Seq(WirePacket)] /\ packets[c] = <<Kick>>
      /\ \A d \in Client : d # c => packets[d] = <<>>
  <2>1. Kick \in WirePacket
    BY DEF WirePacket
  <2>2. <<Kick>> \in Seq(WirePacket) /\ <<>> \in Seq(WirePacket)
    BY <2>1
  <2> QED
    BY <2>2
<1> HIDE DEF packets
<1>4. /\ wire' \in [Client -> Wires]
      /\ \A d \in Client : StreamOf(wire'[d]) = StreamOf(wire[d]) \o packets[d]
  BY <1>1, <1>2, <1>3, FlushedStreams
<1>5. Followed' = Followed
  BY <1>1 DEF Followed
<1>6. Untouched'
  BY <1>1, <1>2, <1>3, FreshStays DEF Untouched
<1>7. ASSUME NEW d \in Followed PROVE Tracks(d)'
  <2>1. d \in Client /\ Tracks(d) /\ CaughtUp(d) \in Game
    BY <1>2, CaughtUpType DEF Followed
  <2>2. CASE d = c
    <3> DEFINE g == CaughtUp(c)
    <3>1. g \in Game /\ ~g.garbled /\ ~g.over
      BY <1>1, <2>1, <2>2 DEF Tracks
    <3>2. CaughtUp(c)' = ReadsAll(g, <<Kick>>)
      <4>1. packets[c] \in Seq(WirePacket)
        BY <1>3
      <4> QED
        BY <1>1, <1>2, <1>3, <1>4, <4>1, CaughtUpAfter
    <3>3. ReadsAll(g, <<Kick>>) = Reads(g, Kick)
      <4> HIDE DEF g
      <4> QED
        BY ReadsOne
    <3>4. Reads(g, Kick) = [g EXCEPT !.over = TRUE]
      <4> HIDE DEF g
      <4> QED
        BY <3>1 DEF Reads, Kick
    <3>5. /\ CaughtUp(c)'.joined = g.joined /\ CaughtUp(c)'.drawn = g.drawn
          /\ CaughtUp(c)'.confused = g.confused /\ CaughtUp(c)'.garbled = g.garbled
      BY <3>1, <3>2, <3>3, <3>4 DEF Game
    <3>6. m_state'[c] = "DISCONNECTING"
      BY <1>1, <1>2
    <3> QED
      BY <1>1, <2>1, <2>2, <3>5, <3>6 DEF Tracks
  <2>3. CASE d # c
    <3>1. StreamOf(wire'[d]) = StreamOf(wire[d])
      <4>1. StreamOf(wire[d]) \in Seq(WirePacket)
        BY <1>2, <2>1, ConcatProperties DEF WireTypes, Wires, StreamOf
      <4> QED
        BY <1>3, <1>4, <2>1, <2>3, <4>1, ConcatEmptySeq
    <3> QED
      BY <1>1, <1>2, <2>1, <2>3, <3>1, TracksOn
  <2> QED
    BY <2>2, <2>3
<1> QED
  BY <1>1, <1>2, <1>4, <1>5, <1>6, <1>7 DEF WireTypes

\* Any other command, the end of a write, and a client that drops out.
LEMMA CommandTracks ==
  ASSUME WireIInv, NEW c \in Client, Command(c)
  PROVE  WireTypes' /\ Untouched' /\ \A d \in Followed' : Tracks(d)'
<1>1. /\ Flushed(c, [d \in Client |-> <<>>]) /\ m_state[c] # "LISTENING"
      /\ UNCHANGED <<m_clients, m_state, m_hasPlayed, spawned, game>>
  BY DEF Command, vars
<1>2. /\ m_clients \subseteq Client
      /\ WireTypes /\ Untouched /\ \A d \in Followed : Tracks(d)
  BY DEF WireIInv, IInv, TypeOK
<1>3. wire' \in [Client -> Wires] /\ \A d \in Client : StreamOf(wire'[d]) = StreamOf(wire[d])
  BY <1>1, <1>2, NothingQueued
<1>4. Untouched'
  <2>1. ASSUME NEW d \in Client, m_state[d] = "LISTENING" PROVE wire'[d] = NewWire
    <3>1. d # c /\ wire[d] = NewWire /\ [e \in Client |-> <<>>][d] = <<>>
      BY <1>1, <1>2, <2>1 DEF Untouched
    <3> QED
      BY <1>1, <3>1, FreshStays
  <2> QED
    BY <1>1, <1>2, <2>1 DEF Untouched
<1>5. ASSUME NEW d \in Followed PROVE Tracks(d)'
  <2>1. d \in Client /\ Tracks(d)
    BY <1>2 DEF Followed
  <2> QED
    BY <1>1, <1>2, <1>3, <2>1, TracksOn
<1>6. Followed' = Followed
  BY <1>1 DEF Followed
<1> QED
  BY <1>1, <1>2, <1>3, <1>4, <1>5, <1>6 DEF WireTypes

LEMMA WriteTracks ==
  ASSUME WireIInv, NEW c \in Client, WriteDone(c)
  PROVE  WireTypes' /\ Untouched' /\ \A d \in Followed' : Tracks(d)'
<1>1. /\ m_clients \subseteq Client /\ m_state \in [Client -> State]
      /\ WireTypes /\ Untouched /\ \A d \in Followed : Tracks(d)
  BY DEF WireIInv, IInv, TypeOK
<1>2. wire[c].m_writing /\ game' = game /\ UNCHANGED <<m_clients, m_hasPlayed, spawned>>
  BY DEF WriteDone, Drop, vars
<1>3. m_state' = m_state \/ m_state' = [m_state EXCEPT ![c] = "DISCONNECTED"]
  BY DEF WriteDone, Drop, vars
<1>4. Ended(wire[c]) \in Wires /\ StreamOf(Ended(wire[c])) = StreamOf(wire[c])
  BY <1>1, EndedStream DEF WireTypes
<1>5. \E w \in {Ended(wire[c])} \cup WriteIfNeeded(Ended(wire[c])) : wire' = [wire EXCEPT ![c] = w]
  BY DEF WriteDone
<1>6. \A w \in {Ended(wire[c])} \cup WriteIfNeeded(Ended(wire[c])) :
        w \in Wires /\ StreamOf(w) = StreamOf(wire[c])
  BY <1>4, WriteStream
<1>7. wire' \in [Client -> Wires] /\ \A d \in Client : StreamOf(wire'[d]) = StreamOf(wire[d])
  BY <1>1, <1>5, <1>6 DEF WireTypes
<1>8. m_state[c] # "LISTENING"
  BY <1>1, <1>2 DEF Untouched, NewWire
<1>9. Untouched'
  BY <1>1, <1>2, <1>3, <1>5, <1>8 DEF Untouched, WireTypes
<1>10. ASSUME NEW d \in Followed PROVE Tracks(d)'
  <2>1. d \in Client /\ Tracks(d)
    BY <1>1 DEF Followed
  <2>2. m_state'[d] \in {m_state[d], "DISCONNECTING", "DISCONNECTED"}
    BY <1>1, <1>3, <2>1
  <2> QED
    BY <1>1, <1>2, <1>7, <2>1, <2>2, TracksOn
<1>11. Followed' = Followed
  BY <1>2 DEF Followed
<1> QED
  BY <1>1, <1>2, <1>7, <1>9, <1>10, <1>11 DEF WireTypes

LEMMA BreakTracks ==
  ASSUME WireIInv, NEW c \in Client, Breaks(c)
  PROVE  WireTypes' /\ Untouched' /\ \A d \in Followed' : Tracks(d)'
<1>1. /\ m_clients \subseteq Client /\ m_state \in [Client -> State]
      /\ WireTypes /\ Untouched /\ \A d \in Followed : Tracks(d)
  BY DEF WireIInv, IInv, TypeOK
<1>2. /\ UNCHANGED <<m_clients, m_hasPlayed, spawned, wire, game>>
      /\ m_state' = [m_state EXCEPT ![c] = "DISCONNECTED"]
  BY DEF Breaks, Drop
<1>3. WireTypes' /\ Untouched' /\ Followed' = Followed
  BY <1>1, <1>2 DEF WireTypes, Untouched, Followed
<1>4. ASSUME NEW d \in Followed PROVE Tracks(d)'
  BY <1>1, <1>2, TracksOn DEF Followed
<1> QED
  BY <1>3, <1>4

\* A stream that is moved in memory, and a packet that is read.
LEMMA MoveTracks ==
  ASSUME WireIInv, NEW c \in Client, BufferMoves(c)
  PROVE  WireTypes' /\ Untouched' /\ \A d \in Followed' : Tracks(d)'
<1>1. /\ m_clients \subseteq Client
      /\ WireTypes /\ Untouched /\ \A d \in Followed : Tracks(d)
  BY DEF WireIInv, IInv, TypeOK
<1>2. /\ UNCHANGED <<m_clients, m_state, m_hasPlayed, spawned, wire>>
      /\ m_state[c] # "LISTENING"
      /\ game' = [game EXCEPT ![c] = [NewGame EXCEPT !.garbled = TRUE]]
  BY DEF BufferMoves, vars
<1>3. [NewGame EXCEPT !.garbled = TRUE] \in Game /\ [NewGame EXCEPT !.garbled = TRUE].garbled
  BY DEF NewGame, Game
<1>4. WireTypes' /\ Untouched'
  BY <1>1, <1>2, <1>3 DEF WireTypes, Untouched
<1>5. ASSUME NEW d \in Followed' PROVE Tracks(d)'
  <2>1. d # c /\ d \in Client /\ game'[d] = game[d] /\ d \in Followed
    BY <1>1, <1>2, <1>3 DEF Followed, WireTypes
  <2> QED
    BY <1>1, <1>2, <2>1, TracksOn
<1> QED
  BY <1>4, <1>5

LEMMA ReceiveTracks ==
  ASSUME WireIInv, NEW c \in Client, Receive(c)
  PROVE  WireTypes' /\ Untouched' /\ \A d \in Followed' : Tracks(d)'
<1> DEFINE pipe == wire[c].pipe
           out == wire[c].m_outgoing
<1>1. /\ m_clients \subseteq Client
      /\ WireTypes /\ Untouched /\ \A d \in Followed : Tracks(d)
  BY DEF WireIInv, IInv, TypeOK
<1>2. /\ UNCHANGED <<m_clients, m_state, m_hasPlayed, spawned>>
      /\ pipe # <<>>
      /\ game' = [game EXCEPT ![c] = Reads(game[c], Head(pipe))]
      /\ wire' = [wire EXCEPT ![c].pipe = Tail(pipe)]
  BY DEF Receive, vars
<1>3. pipe \in Seq(WirePacket) /\ out \in Seq(WirePacket)
  BY <1>1 DEF WireTypes, Wires
<1>4. Head(pipe) \in WirePacket /\ Tail(pipe) \in Seq(WirePacket)
  <2> HIDE DEF pipe
  <2> QED
    BY <1>2, <1>3, HeadTailProperties
<1>5. wire'[c].pipe = Tail(pipe) /\ wire'[c].m_outgoing = out /\ wire' \in [Client -> Wires]
  BY <1>1, <1>2, <1>4 DEF WireTypes, Wires
<1>6. game' \in [Client -> Game] /\ game'[c] = Reads(game[c], Head(pipe))
  BY <1>1, <1>2, <1>4, ReadsType DEF WireTypes
<1>7. m_state[c] # "LISTENING"
  BY <1>1, <1>2 DEF Untouched, NewWire
<1>8. Untouched'
  BY <1>1, <1>2, <1>7 DEF Untouched
<1>9. ASSUME c \in Followed PROVE Tracks(c)'
  <2>1. Tracks(c)
    BY <1>1, <1>9
  <2>2. CaughtUp(c)' = CaughtUp(c)
    <3> DEFINE g == game[c]
    <3>1. CaughtUp(c)' = ReadsAll(Reads(g, Head(pipe)), Tail(pipe) \o out)
      BY <1>5, <1>6 DEF CaughtUp
    <3>2. CaughtUp(c) = ReadsAll(g, pipe \o out)
      BY DEF CaughtUp
    <3> HIDE DEF pipe, out, g
    <3>3. ReadsAll(Reads(g, Head(pipe)), Tail(pipe) \o out)
            = ReadsAll(ReadsAll(Reads(g, Head(pipe)), Tail(pipe)), out)
      <4> DEFINE s == Tail(pipe)
                 h == Reads(g, Head(pipe))
      <4>1. s \in Seq(WirePacket)
        BY <1>4
      <4> HIDE DEF s, h
      <4>2. ReadsAll(h, s \o out) = ReadsAll(ReadsAll(h, s), out)
        BY <1>3, <4>1, ReadsConcat
      <4> QED
        BY <4>2 DEF s, h
    <3>4. ReadsAll(Reads(g, Head(pipe)), Tail(pipe)) = ReadsAll(g, pipe)
      BY <1>2, <1>3, ReadsFirst
    <3>5. ReadsAll(g, pipe \o out) = ReadsAll(ReadsAll(g, pipe), out)
      BY <1>3, ReadsConcat
    <3> QED
      BY <3>1, <3>2, <3>3, <3>4, <3>5
  <2> QED
    BY <1>2, <2>1, <2>2 DEF Tracks
<1>10. c \in Followed' => c \in Followed
  <2>1. game[c] \in Game /\ (game[c].garbled => game'[c] = game[c])
    BY <1>1, <1>6 DEF WireTypes, Reads
  <2> QED
    BY <1>2, <2>1 DEF Followed
<1>11. ASSUME NEW d \in Followed', d # c PROVE Tracks(d)'
  <2>1. d \in Client /\ game'[d] = game[d] /\ wire'[d] = wire[d] /\ d \in Followed
    BY <1>1, <1>2, <1>11 DEF Followed, WireTypes
  <2> QED
    BY <1>1, <1>2, <2>1, TracksOn
<1> QED
  BY <1>5, <1>6, <1>8, <1>9, <1>10, <1>11 DEF WireTypes

\* tick(): the players are told of those who have gone.
LEMMA TickTracks ==
  ASSUME WireIInv, WireTick
  PROVE  WireTypes' /\ Untouched' /\ \A d \in Followed' : Tracks(d)'
<1> DEFINE S == Announced(Gone)
<1>1. /\ m_clients \subseteq Client /\ m_state \in [Client -> State]
      /\ spawned \in [Client -> SUBSET Client]
      /\ WireTypes /\ Untouched /\ \A d \in Followed : Tracks(d)
  BY DEF WireIInv, IInv, TypeOK
<1>2. /\ m_clients' = m_clients \ Gone /\ spawned' = SpawnedAfter(Gone)
      /\ UNCHANGED <<m_state, m_hasPlayed>>
      /\ wire' = [d \in Client |-> IF d \in Gone THEN NewWire ELSE Put(wire[d], AtTick(Gone, d))]
      /\ game' = [d \in Client |-> IF d \in Gone THEN NewGame ELSE game[d]]
  BY DEF WireTick, Tick
<1>3. S \in SUBSET Client /\ \A d \in Gone : d \notin Playing /\ m_state[d] # "LISTENING"
  BY <1>1 DEF Announced, Gone, Playing
<1> HIDE DEF S
<1>4. \A d \in Client : AtTick(Gone, d) = IF d \in Playing THEN Each("destroy", S) ELSE <<>>
  BY DEF AtTick, S
<1>5. \A d \in Client : AtTick(Gone, d) \in Seq(WirePacket)
  <2> DEFINE p == Each("destroy", S)
             Streams == Seq(WirePacket)
  <2>1. p \in Streams
    BY <1>3, EachIsStream
  <2>2. <<>> \in Streams
    OBVIOUS
  <2> HIDE DEF p, Streams
  <2>3. \A d \in Client : AtTick(Gone, d) = IF d \in Playing THEN p ELSE <<>>
    BY <1>4 DEF p
  <2>4. \A d \in Client : AtTick(Gone, d) \in Streams
    BY <2>1, <2>2, <2>3
  <2> QED
    BY <2>4 DEF Streams
<1>6. \A d \in Client : /\ Put(wire[d], AtTick(Gone, d)) \in Wires
                        /\ StreamOf(Put(wire[d], AtTick(Gone, d))) = StreamOf(wire[d]) \o AtTick(Gone, d)
  BY <1>1, <1>5, PutStream DEF WireTypes
<1>7. NewWire \in Wires /\ NewGame \in Game
  BY DEF NewWire, NewGame, Wires, Game
<1>8. WireTypes'
  BY <1>1, <1>2, <1>6, <1>7 DEF WireTypes
<1>9. Untouched'
  <2> SUFFICES ASSUME NEW d \in Client, m_state[d] = "LISTENING"
               PROVE  wire'[d] = NewWire /\ game'[d] = NewGame
    BY <1>2 DEF Untouched
  <2>1. wire[d] = NewWire /\ game[d] = NewGame /\ d \notin Gone /\ d \notin Playing
    BY <1>1, <1>3 DEF Untouched, Playing
  <2>2. <<>> \o <<>> = <<>>
    BY ConcatEmptySeq, <<>> \in Seq({})
  <2>3. Put(NewWire, <<>>) = NewWire
    BY <2>2 DEF Put, NewWire
  <2> QED
    BY <1>2, <1>4, <2>1, <2>3
<1>10. ASSUME NEW d \in Followed' PROVE Tracks(d)'
  <2>1. d \in Client /\ d \notin Gone /\ d \in Followed /\ game'[d] = game[d]
    BY <1>1, <1>2 DEF Followed
  <2>2. Tracks(d) /\ CaughtUp(d) \in Game
    BY <1>1, <2>1, CaughtUpType
  <2>3. StreamOf(wire'[d]) = StreamOf(wire[d]) \o AtTick(Gone, d)
    BY <1>2, <1>6, <2>1
  <2>4. CASE d \in Playing
    <3> DEFINE g == CaughtUp(d)
    <3>1. m_hasPlayed[d] /\ m_state[d] = "PLAYING"
      BY <2>1, <2>4 DEF WireIInv, IInv, PlayedOnce, Playing
    <3>2. g \in Game /\ g.joined /\ ~g.garbled /\ ~g.over
      BY <2>2, <3>1 DEF Tracks
    <3>3. CaughtUp(d)' = ReadsAll(g, Each("destroy", S))
      <4>1. AtTick(Gone, d) = Each("destroy", S) /\ Each("destroy", S) \in Seq(WirePacket)
        BY <1>3, <1>4, <2>1, <2>4, EachIsStream
      <4> QED
        BY <1>1, <2>1, <2>3, <4>1, CaughtUpAfter
    <3>4. ReadsAll(g, Each("destroy", S)) = [g EXCEPT !.drawn = @ \ S]
      <4> HIDE DEF g
      <4> QED
        BY <1>3, <3>2, ReadsDestroys
    <3>5. /\ CaughtUp(d)'.joined = g.joined /\ CaughtUp(d)'.drawn = g.drawn \ S
          /\ CaughtUp(d)'.confused = g.confused /\ CaughtUp(d)'.garbled = g.garbled
          /\ CaughtUp(d)'.over = g.over
      BY <3>2, <3>3, <3>4 DEF Game
    <3>6. spawned'[d] = spawned[d] \ S
      BY <1>2, <2>1, <2>4 DEF SpawnedAfter, S
    <3> QED
      BY <1>2, <2>2, <3>5, <3>6 DEF Tracks
  <2>5. CASE d \notin Playing
    <3>1. StreamOf(wire'[d]) = StreamOf(wire[d])
      <4>1. StreamOf(wire[d]) \in Seq(WirePacket)
        BY <1>1, <2>1, ConcatProperties DEF WireTypes, Wires, StreamOf
      <4> QED
        BY <1>4, <2>1, <2>3, <2>5, <4>1, ConcatEmptySeq
    <3>2. spawned'[d] = spawned[d]
      BY <1>2, <2>1, <2>5 DEF SpawnedAfter
    <3> QED
      BY <1>1, <1>2, <2>1, <2>2, <3>1, <3>2, TracksOn
  <2> QED
    BY <2>4, <2>5
<1> QED
  BY <1>8, <1>9, <1>10

-----------------------------------------------------------------------------
\* Before anyone has connected.
LEMMA WireInvInit == WireInit => WireIInv
<1> SUFFICES ASSUME WireInit PROVE WireIInv
  OBVIOUS
<1>1. IInv
  BY InvInit DEF WireInit
<1>2. WireTypes
  BY DEF WireInit, WireTypes, NewWire, NewGame, Wires, Game
<1>3. Untouched /\ Followed = {}
  BY DEF WireInit, Init, Untouched, Followed
<1> QED
  BY <1>1, <1>2, <1>3 DEF WireIInv

\* Every step of the server with its streams keeps the inductive invariant.
LEMMA WireInvStep == WireIInv /\ [WireNext]_wireVars => WireIInv'
<1> SUFFICES ASSUME WireIInv, [WireNext]_wireVars PROVE WireIInv'
  OBVIOUS
<1> DEFINE Goal == WireTypes' /\ Untouched' /\ \A d \in Followed' : Tracks(d)'
<1>1. IInv'
  BY WireStep, InvStep DEF WireIInv
<1>2. ASSUME NEW c \in Client, WireAccept(c) \/ WireLogin(c) \/ WireDisconnect(c)
      PROVE  Goal
  BY <1>2, AcceptTracks, LoginTracks, DisconnectTracks
<1>3. ASSUME NEW c \in Client, Command(c) \/ WriteDone(c) \/ Breaks(c) PROVE Goal
  BY <1>3, CommandTracks, WriteTracks, BreakTracks
<1>4. ASSUME NEW c \in Client, BufferMoves(c) \/ Receive(c) PROVE Goal
  BY <1>4, MoveTracks, ReceiveTracks
<1>5. ASSUME WireTick PROVE Goal
  BY <1>5, TickTracks
<1>6. ASSUME UNCHANGED wireVars PROVE Goal
  <2>1. UNCHANGED <<m_clients, m_state, m_hasPlayed, spawned, wire, game>>
    BY <1>6 DEF wireVars, vars
  <2>2. WireTypes' /\ Untouched' /\ Followed' = Followed
    BY <2>1 DEF WireIInv, WireTypes, Untouched, Followed
  <2>3. ASSUME NEW d \in Followed PROVE Tracks(d)'
    BY <2>1, <2>3 DEF WireIInv, Tracks, CaughtUp
  <2> QED
    BY <2>2, <2>3
<1> HIDE DEF Goal
<1>7. Goal
  BY <1>2, <1>3, <1>4, <1>5, <1>6 DEF WireNext
<1> QED
  BY <1>1, <1>7 DEF Goal, WireIInv

\* The inductive invariant of the streams.
THEOREM WireInvariant == WireSpec => []WireIInv
  BY WireInvInit, WireInvStep, PTL DEF WireSpec

\* The types of the streams and the games, for any clients.
THEOREM WireTypeCorrect == WireSpec => []WireTypes
<1>1. WireIInv => WireTypes
  BY DEF WireIInv
<1> QED
  BY <1>1, WireInvariant, PTL

\* However handlers, writes, reads and ticks interleave, a game that has read
\* what is queued for it draws whom the server takes it to draw (client.cpp).
THEOREM StreamsAreWhole == WireSpec => []StreamTellsSpawned
<1>1. WireIInv => StreamTellsSpawned
  BY DEF WireIInv, StreamTellsSpawned, Tracks
<1> QED
  BY <1>1, WireInvariant, PTL

\* No game is told anything before the answer to its login or after a kick, or
\* to spawn an entity twice (notifyConnected, handleLogin and sendKick).
THEOREM StreamsMakeSense == WireSpec => []NeverConfused
<1>1. WireIInv => NeverConfused
  BY DEF WireIInv, NeverConfused, Tracks
<1> QED
  BY <1>1, WireInvariant, PTL
=============================================================================
