------------------------- MODULE PacketReaderProofs -------------------------
(***************************************************************************)
(* Theorems of module PacketReader, for any layouts, any number of packets *)
(* and any division of the bytes among the reads: what holds until the     *)
(* first packet is cut short or the client is disconnected.                *)
(***************************************************************************)
EXTENDS PacketReader, SequenceTheorems, FiniteSetTheorems, TLAPS

\* The bytes handleRead has still to look at.
Stream == m_incoming \o wire

\* Where packets start in s.
Starts(s) == {i \in DOMAIN s : s[i] # Data}

\* s is made of whole packets: one starts at once, and where it ends the next
\* one starts, or s ends.
Whole(s) ==
  /\ s # <<>> => s[1] # Data
  /\ \A i \in Starts(s) :
       /\ i + Last(s[i]) <= Len(s) + 1
       /\ \A j \in (i + 1)..(i + Last(s[i]) - 1) : s[j] = Data
       /\ i + Last(s[i]) <= Len(s) => s[i + Last(s[i])] # Data

\* Either the handler runs, with something to look at, or a read for a command
\* byte is outstanding.
OneReader ==
  \/ inHandler /\ reads = <<>> /\ m_incoming # <<>>
  \/ ~inHandler /\ reads = <<1>>

Uncut ==
  /\ m_incoming \in Seq(Byte) /\ wire \in Seq(Byte) /\ m_data = <<>>
  /\ packets \in Nat
  /\ OneReader
  /\ Whole(Stream)
  /\ handled = packets - Cardinality(Starts(Stream))
  /\ command # Data

\* A client that is being disconnected keeps the last command only.
IInv ==
  /\ cut \in BOOLEAN
  /\ ~cut => command # Data
  /\ ~cut /\ m_state = "OPEN" => Uncut

-----------------------------------------------------------------------------
LEMMA LayoutIs ==
  ASSUME NEW l \in Layout
  PROVE  /\ l # Data /\ Len(l) \in Nat \ {0} /\ DOMAIN l = 1..Len(l)
         /\ \A i \in 1..Len(l) : l[i] \in Nat \ {0} /\ l[i] <= Last(l)
         /\ Last(l) \in Nat \ {0}
<1>1. /\ l # Data /\ l \in Seq(Nat \ {0}) /\ l # <<>>
      /\ \A i, j \in DOMAIN l : i < j => l[i] < l[j]
  BY PacketReaderAssumption
<1>2. Len(l) \in Nat \ {0} /\ DOMAIN l = 1..Len(l)
  BY <1>1, LenProperties, EmptySeq
<1>3. \A i \in 1..Len(l) : l[i] \in Nat \ {0}
  BY <1>1, ElementOfSeq
<1>4. \A i \in 1..Len(l) : l[i] <= l[Len(l)]
  BY <1>1, <1>2, <1>3
<1> QED
  BY <1>1, <1>2, <1>3, <1>4 DEF Last

LEMMA StartsFinite ==
  ASSUME NEW s \in Seq(Byte)
  PROVE  /\ Starts(s) \subseteq 1..Len(s) /\ Len(s) \in Nat
         /\ IsFiniteSet(Starts(s)) /\ Cardinality(Starts(s)) \in Nat
         /\ \A i \in Starts(s) : s[i] \in Layout
<1>1. Len(s) \in Nat /\ DOMAIN s = 1..Len(s) /\ \A i \in 1..Len(s) : s[i] \in Byte
  BY LenProperties, ElementOfSeq
<1>2. Starts(s) \subseteq 1..Len(s)
  BY <1>1 DEF Starts
<1>3. IsFiniteSet(1..Len(s))
  BY <1>1, FS_Interval
<1>4. IsFiniteSet(Starts(s))
  BY <1>2, <1>3, FS_Subset
<1> QED
  BY <1>1, <1>2, <1>4, FS_CardinalityType DEF Starts, Byte

-----------------------------------------------------------------------------
\* A packet that is sent leaves the stream whole, with one more packet in it.
LEMMA BytesOf ==
  ASSUME NEW l \in Layout
  PROVE  /\ Bytes(l) \in Seq(Byte) /\ Len(Bytes(l)) = Last(l)
         /\ \A i \in 1..Last(l) : Bytes(l)[i] = IF i = 1 THEN l ELSE Data
<1>1. Last(l) \in Nat \ {0}
  BY LayoutIs
<1>2. Bytes(l) \in [1..Last(l) -> Byte]
  BY <1>1 DEF Bytes, Byte
<1>3. Bytes(l) \in Seq(Byte)
  BY <1>1, <1>2
<1>4. Len(Bytes(l)) = Last(l)
  BY <1>1, <1>2, <1>3, LenProperties
<1> QED
  BY <1>3, <1>4 DEF Bytes

LEMMA Appended ==
  ASSUME NEW s \in Seq(Byte), Whole(s), NEW l \in Layout
  PROVE  /\ s \o Bytes(l) \in Seq(Byte)
         /\ Whole(s \o Bytes(l))
         /\ Cardinality(Starts(s \o Bytes(l))) = Cardinality(Starts(s)) + 1
<1> DEFINE t == s \o Bytes(l)
           n == Len(s)
           k == Last(l)
<1>1. /\ t \in Seq(Byte) /\ n \in Nat /\ k \in Nat \ {0} /\ Len(t) = n + k /\ DOMAIN t = 1..(n + k)
      /\ \A i \in 1..(n + k) : t[i] = IF i <= n THEN s[i] ELSE Bytes(l)[i - n]
  <2> DEFINE b == Bytes(l)
  <2>1. n \in Nat /\ k \in Nat \ {0} /\ b \in Seq(Byte) /\ Len(b) = k
    BY LayoutIs, BytesOf, LenProperties
  <2> HIDE DEF b
  <2>2. /\ s \o b \in Seq(Byte) /\ Len(s \o b) = n + k
        /\ \A i \in 1..(n + k) : (s \o b)[i] = IF i <= n THEN s[i] ELSE b[i - n]
    BY <2>1, ConcatProperties
  <2>3. DOMAIN (s \o b) = 1..(n + k)
    BY <2>2, LenProperties
  <2> QED
    BY <2>1, <2>2, <2>3 DEF b
<1>2. DOMAIN s = 1..n /\ (s = <<>> <=> n = 0)
  BY LenProperties, EmptySeq
<1>3. \A i \in 1..n : t[i] = s[i]
  BY <1>1
<1>4. t[n + 1] = l /\ l # Data
  BY <1>1, BytesOf, LayoutIs
<1>5. \A i \in (n + 2)..(n + k) : t[i] = Data
  BY <1>1, BytesOf
<1> HIDE DEF t, n
<1>6. Starts(t) = Starts(s) \cup {n + 1} /\ n + 1 \notin Starts(s)
  BY <1>1, <1>2, <1>3, <1>4, <1>5 DEF Starts
<1>7. t # <<>> => t[1] # Data
  BY <1>1, <1>2, <1>3, <1>4 DEF Whole
<1>8. ASSUME NEW i \in Starts(t)
      PROVE  /\ i + Last(t[i]) <= Len(t) + 1
             /\ \A j \in (i + 1)..(i + Last(t[i]) - 1) : t[j] = Data
             /\ i + Last(t[i]) <= Len(t) => t[i + Last(t[i])] # Data
  <2>1. CASE i = n + 1
    BY <1>1, <1>4, <1>5, <2>1
  <2>2. CASE i \in Starts(s)
    <3>1. i \in 1..n /\ t[i] = s[i] /\ Last(s[i]) \in Nat \ {0}
      BY <1>3, <2>2, StartsFinite, LayoutIs DEF n
    <3>2. /\ i + Last(s[i]) <= n + 1
          /\ \A j \in (i + 1)..(i + Last(s[i]) - 1) : s[j] = Data
          /\ i + Last(s[i]) <= n => s[i + Last(s[i])] # Data
      BY <2>2 DEF Whole, n
    <3>3. i + Last(s[i]) \in Nat
      BY <3>1
    <3>4. \A j \in (i + 1)..(i + Last(s[i]) - 1) : t[j] = Data
      <4> SUFFICES ASSUME NEW j \in (i + 1)..(i + Last(s[i]) - 1) PROVE t[j] = Data
        OBVIOUS
      <4>1. s[j] = Data
        BY <3>2
      <4>2. j \in 1..n
        BY <1>1, <3>1, <3>2, <3>3
      <4> QED
        BY <1>3, <4>1, <4>2
    <3>5. t[i + Last(s[i])] # Data
      BY <1>1, <1>3, <1>4, <3>1, <3>2, <3>3
    <3> QED
      BY <1>1, <3>1, <3>2, <3>4, <3>5
  <2> QED
    BY <1>6, <2>1, <2>2
<1>9. Whole(t)
  BY <1>7, <1>8 DEF Whole
<1>10. Cardinality(Starts(t)) = Cardinality(Starts(s)) + 1
  BY <1>6, StartsFinite, FS_AddElement
<1> QED
  BY <1>1, <1>9, <1>10 DEF t

\* A packet that is handled leaves the stream whole, with one packet less in it.
LEMMA Removed ==
  ASSUME NEW s \in Seq(Byte), Whole(s), s # <<>>
  PROVE  LET t == SubSeq(s, Last(s[1]) + 1, Len(s))
         IN  /\ s[1] \in Layout /\ Last(s[1]) <= Len(s)
             /\ t \in Seq(Byte)
             /\ Whole(t)
             /\ Cardinality(Starts(t)) = Cardinality(Starts(s)) - 1
<1> DEFINE n == Len(s)
           k == Last(s[1])
           t == SubSeq(s, k + 1, n)
<1>1. n \in Nat \ {0} /\ DOMAIN s = 1..n
  BY EmptySeq, LenProperties
<1>2. 1 \in Starts(s)
  BY <1>1 DEF Starts, Whole
<1>3. s[1] \in Layout /\ k \in Nat \ {0}
  BY <1>2, StartsFinite, LayoutIs
<1>4. k <= n /\ (\A j \in 2..k : s[j] = Data) /\ (k < n => s[k + 1] # Data)
  <2>1. /\ 1 + k <= n + 1
        /\ \A j \in (1 + 1)..(1 + k - 1) : s[j] = Data
        /\ 1 + k <= n => s[1 + k] # Data
    BY <1>2 DEF Whole
  <2> QED
    BY <1>1, <1>3, <2>1
<1>5. /\ t \in Seq(Byte) /\ Len(t) = n - k /\ DOMAIN t = 1..(n - k)
      /\ \A i \in 1..(n - k) : t[i] = s[i + k]
  <2>1. k + 1 \in Int /\ n \in Int /\ \A i \in (k + 1)..n : s[i] \in Byte
    BY <1>1, <1>3, ElementOfSeq
  <2>2. /\ t \in Seq(Byte)
        /\ Len(t) = IF k + 1 <= n THEN n - (k + 1) + 1 ELSE 0
        /\ \A i \in 1..(n - (k + 1) + 1) : t[i] = s[k + 1 + i - 1]
    BY <2>1, SubSeqProperties
  <2>3. Len(t) = n - k
    BY <1>1, <1>3, <1>4, <2>2
  <2>4. DOMAIN t = 1..(n - k)
    BY <2>2, <2>3, LenProperties
  <2>5. \A i \in 1..(n - k) : t[i] = s[i + k]
    <3> SUFFICES ASSUME NEW i \in 1..(n - k) PROVE t[i] = s[i + k]
      OBVIOUS
    <3>1. i \in 1..(n - (k + 1) + 1) /\ k + 1 + i - 1 = i + k
      BY <1>1, <1>3
    <3> QED
      BY <2>2, <3>1
  <2> QED
    BY <2>2, <2>3, <2>4, <2>5
<1> HIDE DEF n, k, t
<1>6. \A i \in 1..(n - k) : i \in Starts(t) <=> i + k \in Starts(s)
  BY <1>1, <1>3, <1>5 DEF Starts
<1>7. Starts(t) \subseteq 1..(n - k) /\ Starts(s) \subseteq 1..n
  BY <1>1, <1>5 DEF Starts
<1>8. Whole(t)
  <2>1. t # <<>> => t[1] # Data
    BY <1>1, <1>3, <1>4, <1>5, EmptySeq
  <2>2. ASSUME NEW i \in Starts(t)
        PROVE  /\ i + Last(t[i]) <= Len(t) + 1
               /\ \A j \in (i + 1)..(i + Last(t[i]) - 1) : t[j] = Data
               /\ i + Last(t[i]) <= Len(t) => t[i + Last(t[i])] # Data
    <3> DEFINE m == Last(t[i])
    <3>1. i \in 1..(n - k) /\ i + k \in Starts(s) /\ t[i] = s[i + k]
      BY <1>5, <1>6, <1>7
    <3>2. m \in Nat \ {0}
      BY <1>5, StartsFinite, LayoutIs
    <3>3. /\ (i + k) + m <= n + 1
          /\ \A j \in ((i + k) + 1)..((i + k) + m - 1) : s[j] = Data
          /\ (i + k) + m <= n => s[(i + k) + m] # Data
      BY <3>1 DEF Whole, n
    <3> HIDE DEF m
    <3>4. \A j \in (i + 1)..(i + m - 1) : t[j] = Data
      <4> SUFFICES ASSUME NEW j \in (i + 1)..(i + m - 1) PROVE t[j] = Data
        OBVIOUS
      <4>1. j \in 1..(n - k) /\ j + k \in ((i + k) + 1)..((i + k) + m - 1)
        BY <1>1, <1>3, <3>1, <3>2, <3>3
      <4> QED
        BY <1>5, <3>3, <4>1
    <3>5. i + m <= n - k => t[i + m] # Data
      <4> SUFFICES ASSUME i + m <= n - k PROVE t[i + m] # Data
        OBVIOUS
      <4>1. i + m \in 1..(n - k) /\ (i + m) + k = (i + k) + m /\ (i + k) + m <= n
        BY <1>1, <1>3, <3>1, <3>2
      <4>2. t[i + m] = s[(i + k) + m]
        BY <1>5, <4>1
      <4> QED
        BY <3>3, <4>1, <4>2
    <3>6. i + m <= n - k + 1
      BY <1>1, <1>3, <3>1, <3>2, <3>3
    <3> QED
      BY <1>5, <3>4, <3>5, <3>6 DEF m
  <2> QED
    BY <2>1, <2>2 DEF Whole
<1>9. Cardinality(Starts(t)) = Cardinality(Starts(s)) - 1
  <2> DEFINE S == Starts(t)
             T == Starts(s) \ {1}
             f == [i \in S |-> i + k]
  <2>1. T \subseteq (k + 1)..n
    <3> SUFFICES ASSUME NEW i \in T PROVE i \in (k + 1)..n
      OBVIOUS
    <3>1. i \in 1..n /\ i # 1 /\ s[i] # Data
      BY <1>7 DEF Starts
    <3>2. i \notin 2..k
      BY <1>4, <3>1
    <3> QED
      BY <1>1, <1>3, <3>1, <3>2
  <2>2. \A i \in S : i \in 1..(n - k) /\ i + k \in T
    BY <1>1, <1>3, <1>6, <1>7
  <2>3. \A j \in T : j - k \in S /\ (j - k) + k = j
    <3> SUFFICES ASSUME NEW j \in T PROVE j - k \in S /\ (j - k) + k = j
      OBVIOUS
    <3>1. j \in (k + 1)..n
      BY <2>1
    <3>2. j - k \in 1..(n - k) /\ (j - k) + k = j
      BY <1>1, <1>3, <3>1
    <3> QED
      BY <1>6, <3>2
  <2>4. f \in [S -> T]
    BY <2>2
  <2>5. \A i, j \in S : f[i] = f[j] => i = j
    BY <1>1, <1>3, <2>2
  <2>6. \A j \in T : \E i \in S : f[i] = j
    BY <2>3
  <2> HIDE DEF f
  <2>7. ExistsBijection(S, T)
    BY <2>4, <2>5, <2>6 DEF ExistsBijection, Bijection, Injection, IsInjective, Surjection
  <2>8. Cardinality(S) = Cardinality(T)
    BY <1>5, <2>7, StartsFinite, FS_Bijection
  <2>9. Cardinality(T) = Cardinality(Starts(s)) - 1
    BY <1>2, StartsFinite, FS_RemoveElement
  <2> QED
    BY <2>8, <2>9
<1> QED
  BY <1>3, <1>4, <1>5, <1>8, <1>9 DEF t, n, k

-----------------------------------------------------------------------------
\* How many items get() delivers, when it remembers none: those that end within
\* the buffer, and the layout's ends increase.
LEMMA ItemsAre ==
  ASSUME NEW l \in Layout, m_data = <<>>, m_incoming \in Seq(Byte)
  PROVE  /\ ItemsRead(l) \in 0..Len(l)
         /\ \A i \in 1..Len(l) : l[i] <= Len(m_incoming) <=> i <= ItemsRead(l)
<1> DEFINE n == Len(m_incoming)
           T == {i \in DOMAIN l : l[i] <= n}
<1>1. /\ n \in Nat /\ Len(l) \in Nat \ {0} /\ DOMAIN l = 1..Len(l)
      /\ \A i \in 1..Len(l) : l[i] \in Nat \ {0}
  BY LenProperties, LayoutIs
<1>2. ItemsRead(l) = Cardinality(T)
  <2>1. Len(m_data) = 0
    BY EmptySeq
  <2>2. End(l, Len(m_data)) = 0
    BY <2>1 DEF End
  <2>3. T = {i \in DOMAIN l : l[i] - End(l, Len(m_data)) <= Len(m_incoming)}
    BY <1>1, <2>2
  <2> QED
    BY <2>3 DEF ItemsRead
<1> HIDE DEF n
<1>3. T \subseteq 1..Len(l)
  BY <1>1
<1>4. IsFiniteSet(1..Len(l)) /\ Cardinality(1..Len(l)) = Len(l)
  BY <1>1, FS_Interval
<1>5. IsFiniteSet(T) /\ Cardinality(T) \in Nat /\ Cardinality(T) <= Len(l)
  BY <1>3, <1>4, FS_Subset, FS_CardinalityType
<1>6. ASSUME NEW i \in 1..Len(l), l[i] <= n PROVE i <= Cardinality(T)
  <2>1. \A j \in 1..i : j \in T
    <3> SUFFICES ASSUME NEW j \in 1..i PROVE j \in T
      OBVIOUS
    <3>1. j \in 1..Len(l) /\ (j = i \/ j < i)
      BY <1>1
    <3>2. l[j] <= l[i]
      BY <1>1, <3>1, PacketReaderAssumption
    <3> QED
      BY <1>1, <1>6, <3>1, <3>2
  <2>2. 1..i \in SUBSET T
    BY <2>1
  <2>3. Cardinality(1..i) = i
    BY FS_Interval
  <2> QED
    BY <1>5, <2>2, <2>3, FS_Subset
<1>7. ASSUME NEW i \in 1..Len(l), ~(l[i] <= n) PROVE Cardinality(T) < i
  <2>1. T \subseteq 1..(i - 1)
    <3> SUFFICES ASSUME NEW j \in T, ~(j < i) PROVE FALSE
      BY <1>1, <1>3
    <3>1. j \in 1..Len(l) /\ l[j] <= n /\ (j = i \/ i < j)
      BY <1>1
    <3>2. l[i] <= l[j]
      BY <1>1, <3>1, PacketReaderAssumption
    <3> QED
      BY <1>1, <1>7, <3>1, <3>2
  <2>2. IsFiniteSet(1..(i - 1)) /\ Cardinality(1..(i - 1)) = i - 1
    BY FS_Interval
  <2>3. Cardinality(T) <= i - 1
    BY <2>1, <2>2, FS_Subset
  <2> QED
    BY <1>5, <2>3
<1> HIDE DEF T
<1>8. ItemsRead(l) \in 0..Len(l)
  BY <1>1, <1>2, <1>5
<1>9. \A i \in 1..Len(l) : l[i] <= n <=> i <= ItemsRead(l)
  <2> SUFFICES ASSUME NEW i \in 1..Len(l) PROVE l[i] <= n <=> i <= Cardinality(T)
    BY <1>2
  <2>1. i \in Nat /\ l[i] \in Nat
    BY <1>1
  <2> QED
    BY <1>1, <1>5, <1>6, <1>7, <2>1
<1> QED
  BY <1>8, <1>9 DEF n

\* Before a cut the byte taken for a command is the first of a packet, which it
\* names.
LEMMA CommandStarts ==
  ASSUME Uncut, cut = FALSE, inHandler
  PROVE  /\ Stream \in Seq(Byte) /\ Stream # <<>> /\ Stream[1] = m_incoming[1]
         /\ CommandByte = Stream[1] /\ Stream[1] \in Layout
         /\ Meaning(CommandByte) = {CommandByte}
<1>1. m_incoming \in Seq(Byte) /\ wire \in Seq(Byte) /\ m_data = <<>> /\ m_incoming # <<>>
  BY Zenon DEF Uncut, OneReader
<1>2. CommandByte = m_incoming[1]
  BY <1>1, ConcatEmptySeq DEF CommandByte
<1>3. Len(m_incoming) \in Nat \ {0} /\ Len(wire) \in Nat
  BY <1>1, EmptySeq, LenProperties
<1>4. /\ Stream \in Seq(Byte) /\ Len(Stream) = Len(m_incoming) + Len(wire)
      /\ \A i \in 1..(Len(m_incoming) + Len(wire)) :
           Stream[i] = IF i <= Len(m_incoming) THEN m_incoming[i] ELSE wire[i - Len(m_incoming)]
  BY <1>1, ConcatProperties DEF Stream
<1>5. Stream[1] = m_incoming[1] /\ Stream # <<>>
  BY <1>3, <1>4, EmptySeq
<1>6. Stream[1] \in Layout /\ Stream[1] # Data
  BY <1>4, <1>5, Removed, PacketReaderAssumption DEF Uncut
<1>7. Meaning(CommandByte) = {CommandByte}
  BY <1>2, <1>5, <1>6 DEF Meaning
<1> QED
  BY <1>2, <1>4, <1>5, <1>6, <1>7

\* What is left of the buffer behind the bytes that k items took.
LEMMA BehindIs ==
  ASSUME NEW l, NEW k, m_data = <<>>, m_incoming \in Seq(Byte),
         End(l, k) \in Nat, End(l, k) <= Len(m_incoming)
  PROVE  /\ Behind(l, k) \in Seq(Byte) /\ Len(Behind(l, k)) = Len(m_incoming) - End(l, k)
         /\ \A i \in 1..(Len(m_incoming) - End(l, k)) : Behind(l, k)[i] = m_incoming[i + End(l, k)]
<1> DEFINE n == Len(m_incoming)
           e == End(l, k)
           r == SubSeq(m_incoming, e + 1, n)
<1>1. n \in Nat /\ e \in Nat /\ e <= n /\ \A i \in 1..n : m_incoming[i] \in Byte
  BY LenProperties, ElementOfSeq
<1>2. Behind(l, k) = r
  <2>1. End(l, Len(m_data)) = 0
    BY EmptySeq DEF End
  <2> QED
    BY <2>1 DEF Behind
<1>3. /\ r \in Seq(Byte)
      /\ Len(r) = IF e + 1 <= n THEN n - (e + 1) + 1 ELSE 0
      /\ \A i \in 1..(n - (e + 1) + 1) : r[i] = m_incoming[(e + 1) + i - 1]
  <2>1. e + 1 \in Int /\ n \in Int /\ \A i \in (e + 1)..n : m_incoming[i] \in Byte
    BY <1>1
  <2> HIDE DEF n, e
  <2> QED
    BY <2>1, SubSeqProperties
<1> HIDE DEF r, n, e
<1>4. Len(r) = n - e
  BY <1>1, <1>3
<1>5. \A i \in 1..(n - e) : r[i] = m_incoming[i + e]
  <2> SUFFICES ASSUME NEW i \in 1..(n - e) PROVE r[i] = m_incoming[i + e]
    OBVIOUS
  <2>1. i \in 1..(n - (e + 1) + 1) /\ (e + 1) + i - 1 = i + e
    BY <1>1
  <2> QED
    BY <1>3, <2>1
<1> QED
  BY <1>2, <1>3, <1>4, <1>5 DEF n, e

LEMMA RestIs ==
  ASSUME NEW l \in Layout, m_data = <<>>, m_incoming \in Seq(Byte),
         NEW e \in Nat, e = End(l, ItemsRead(l)), e <= Len(m_incoming)
  PROVE  /\ Rest(l) \in Seq(Byte) /\ Len(Rest(l)) = Len(m_incoming) - e
         /\ \A i \in 1..(Len(m_incoming) - e) : Rest(l)[i] = m_incoming[i + e]
<1> DEFINE k == ItemsRead(l)
<1>1. e = End(l, k) /\ End(l, k) \in Nat /\ End(l, k) <= Len(m_incoming)
  OBVIOUS
<1> HIDE DEF k
<1>2. /\ Behind(l, k) \in Seq(Byte) /\ Len(Behind(l, k)) = Len(m_incoming) - e
      /\ \A i \in 1..(Len(m_incoming) - e) : Behind(l, k)[i] = m_incoming[i + e]
  BY <1>1, BehindIs
<1> QED
  BY <1>2 DEF Rest, k

\* What a handler may leave in the buffer are bytes.
LEMMA BehindItems ==
  ASSUME NEW l \in Layout, m_data = <<>>, m_incoming \in Seq(Byte), NEW k \in 0..ItemsRead(l)
  PROVE  Behind(l, k) \in Seq(Byte)
<1>1. ItemsRead(l) \in 0..Len(l) /\ \A i \in 1..Len(l) : l[i] <= Len(m_incoming) <=> i <= ItemsRead(l)
  BY ItemsAre
<1>2. Len(l) \in Nat /\ Len(m_incoming) \in Nat /\ \A i \in 1..Len(l) : l[i] \in Nat
  BY LayoutIs, LenProperties
<1>3. End(l, k) \in Nat /\ End(l, k) <= Len(m_incoming)
  BY <1>1, <1>2 DEF End
<1> QED
  BY <1>3, BehindIs

LEMMA BehindCommandIs ==
  ASSUME m_data = <<>>, m_incoming \in Seq(Byte), m_incoming # <<>>
  PROVE  BehindCommand \in Seq(Byte)
<1>1. End(<<1>>, 1) = 1
  BY DEF End
<1>2. Len(m_incoming) \in Nat /\ 1 <= Len(m_incoming)
  BY EmptySeq, LenProperties
<1> DEFINE b == <<1>>
<1>3. End(b, 1) = 1
  BY <1>1
<1> HIDE DEF b
<1>4. Behind(b, 1) \in Seq(Byte)
  BY <1>2, <1>3, BehindIs
<1> QED
  BY <1>4 DEF BehindCommand, b

\* A packet handled to its end: the stream loses its first packet.
LEMMA HandleKeeps ==
  ASSUME Uncut, cut = FALSE, Handle
  PROVE  Uncut'
<1>1. PICK l \in Meaning(CommandByte) :
        ItemsRead(l) = Len(l) /\ Finish("OPEN", Rest(l), <<>>)
  BY DEF Handle
<1>2. inHandler /\ wire' = wire /\ packets' = packets /\ handled' = handled + 1 /\ command' = CommandByte
  BY DEF Handle, Dispatch
<1>3. /\ Stream \in Seq(Byte) /\ Stream # <<>> /\ Stream[1] = m_incoming[1]
      /\ CommandByte = l /\ l = Stream[1] /\ l \in Layout
  <2>1. /\ Stream \in Seq(Byte) /\ Stream # <<>> /\ Stream[1] = m_incoming[1]
        /\ CommandByte = Stream[1] /\ Stream[1] \in Layout
        /\ Meaning(CommandByte) = {CommandByte}
    BY <1>2, CommandStarts
  <2> QED
    BY <1>1, <2>1
<1>4. /\ m_incoming \in Seq(Byte) /\ wire \in Seq(Byte) /\ m_data = <<>> /\ packets \in Nat
      /\ Whole(Stream) /\ handled = packets - Cardinality(Starts(Stream))
  BY DEF Uncut
<1> DEFINE n == Len(m_incoming)
           w == Len(wire)
           k == Last(l)
           r == Rest(l)
<1>5. k \in Nat \ {0} /\ n \in Nat /\ w \in Nat /\ Len(l) \in Nat \ {0}
  BY <1>3, <1>4, LayoutIs, LenProperties
<1>6. k <= n /\ k = End(l, ItemsRead(l))
  <2>1. k = End(l, ItemsRead(l))
    BY <1>1, <1>5 DEF End, Last
  <2>2. l[Len(l)] <= n
    BY <1>1, <1>3, <1>4, <1>5, ItemsAre
  <2> QED
    BY <2>1, <2>2 DEF Last
<1>7. r \in Seq(Byte) /\ Len(r) = n - k /\ \A i \in 1..(n - k) : r[i] = m_incoming[i + k]
  BY <1>3, <1>4, <1>5, <1>6, RestIs
<1>8. reads = <<>>
  BY <1>2 DEF Uncut, OneReader
<1>9. /\ m_data' = <<>> /\ m_incoming' = r
      /\ inHandler' = (r # <<>>)
      /\ reads' = (reads \o <<>>) \o (IF r = <<>> THEN <<1>> ELSE <<>>)
  BY <1>1 DEF Finish, GoesOn, Take, NextNeeded
<1> HIDE DEF r
<1>10. OneReader'
  <2>1. CASE r = <<>>
    <3>1. ~inHandler'
      BY <1>9, <2>1, Zenon
    <3>2. reads' = <<1>>
      BY <1>8, <1>9, <2>1
    <3> QED
      BY <3>1, <3>2 DEF OneReader
  <2>2. CASE r # <<>>
    <3>1. inHandler'
      BY <1>9, <2>2, Zenon
    <3>2. reads' = <<>> /\ m_incoming' # <<>>
      BY <1>8, <1>9, <2>2
    <3> QED
      BY <3>1, <3>2 DEF OneReader
  <2> QED
    BY <2>1, <2>2
<1> DEFINE t == SubSeq(Stream, k + 1, Len(Stream))
<1>11. t \in Seq(Byte) /\ Whole(t) /\ Cardinality(Starts(t)) = Cardinality(Starts(Stream)) - 1
  BY <1>3, <1>4, Removed
<1>12. Stream' = t
  <2>1. /\ Len(Stream) = n + w
        /\ \A i \in 1..(n + w) : Stream[i] = IF i <= n THEN m_incoming[i] ELSE wire[i - n]
    BY <1>4, ConcatProperties DEF Stream
  <2>2. /\ r \o wire \in Seq(Byte) /\ Len(r \o wire) = (n - k) + w
        /\ \A i \in 1..((n - k) + w) : (r \o wire)[i] = IF i <= n - k THEN r[i] ELSE wire[i - (n - k)]
    <3>1. /\ r \o wire \in Seq(Byte) /\ Len(r \o wire) = Len(r) + Len(wire)
          /\ \A i \in 1..(Len(r) + Len(wire)) :
               (r \o wire)[i] = IF i <= Len(r) THEN r[i] ELSE wire[i - Len(r)]
      BY <1>4, <1>7, ConcatProperties
    <3>2. Len(r) = n - k /\ Len(wire) = w
      BY <1>7
    <3> HIDE DEF n, w, k
    <3> QED
      BY <3>1, <3>2
  <2>3. /\ Len(t) = IF k + 1 <= n + w THEN (n + w) - (k + 1) + 1 ELSE 0
        /\ \A i \in 1..((n + w) - (k + 1) + 1) : t[i] = Stream[(k + 1) + i - 1]
    <3>1. k + 1 \in Int /\ n + w \in Int /\ \A i \in (k + 1)..(n + w) : Stream[i] \in Byte
      BY <1>3, <1>5, <2>1, ElementOfSeq
    <3> HIDE DEF n, w, k
    <3> QED
      BY <2>1, <3>1, SubSeqProperties
  <2> HIDE DEF n, w, k, t
  <2>4. Len(t) = (n - k) + w
    BY <1>5, <1>6, <2>3
  <2>5. \A i \in 1..((n - k) + w) : t[i] = (r \o wire)[i]
    <3> SUFFICES ASSUME NEW i \in 1..((n - k) + w) PROVE t[i] = (r \o wire)[i]
      OBVIOUS
    <3>1. i \in 1..((n + w) - (k + 1) + 1) /\ (k + 1) + i - 1 = i + k /\ i + k \in 1..(n + w)
      BY <1>5, <1>6
    <3>2. t[i] = Stream[i + k]
      BY <2>3, <3>1
    <3>3. CASE i <= n - k
      <4>1. i \in 1..(n - k) /\ i + k <= n
        BY <1>5, <1>6, <3>3
      <4> QED
        BY <1>7, <2>1, <2>2, <3>1, <3>2, <4>1
    <3>4. CASE i > n - k
      <4>1. ~(i <= n - k) /\ ~(i + k <= n) /\ (i + k) - n = i - (n - k)
        BY <1>5, <1>6, <3>4
      <4> QED
        BY <2>1, <2>2, <3>1, <3>2, <4>1
    <3>5. i <= n - k \/ i > n - k
      BY <1>5
    <3> QED
      BY <3>3, <3>4, <3>5
  <2>6. t = r \o wire
    BY <1>11, <2>2, <2>4, <2>5, SeqEqual
  <2> QED
    BY <1>2, <1>9, <2>6 DEF Stream
<1>13. Whole(Stream)' /\ (handled = packets - Cardinality(Starts(Stream)))'
  <2>1. Whole(Stream)' <=> Whole(t)
    BY <1>12 DEF Whole, Starts, Last
  <2>2. Starts(Stream)' = Starts(t)
    BY <1>12 DEF Starts
  <2>3. Cardinality(Starts(Stream)) \in Nat
    BY <1>3, StartsFinite
  <2>4. handled' = packets' - Cardinality(Starts(t))
    BY <1>2, <1>4, <1>11, <2>3
  <2> QED
    BY <1>11, <2>1, <2>2, <2>4
<1>14. command' # Data
  BY <1>2, <1>3, LayoutIs
<1> QED
  BY <1>2, <1>4, <1>7, <1>9, <1>10, <1>13, <1>14 DEF Uncut, Byte

LEMMA SendKeeps ==
  ASSUME Uncut, Send
  PROVE  Uncut'
<1>1. PICK l \in Layout : wire' = wire \o Bytes(l)
  BY DEF Send
<1>2. /\ m_incoming' = m_incoming /\ m_data' = m_data /\ packets' = packets + 1
      /\ reads' = reads /\ inHandler' = inHandler /\ handled' = handled /\ command' = command
  BY DEF Send
<1>3. /\ m_incoming \in Seq(Byte) /\ wire \in Seq(Byte) /\ m_data = <<>> /\ packets \in Nat
      /\ Whole(Stream) /\ handled = packets - Cardinality(Starts(Stream)) /\ command # Data
  BY DEF Uncut
<1> DEFINE t == Stream \o Bytes(l)
<1>4. Bytes(l) \in Seq(Byte) /\ Stream \in Seq(Byte)
  BY <1>3, BytesOf, ConcatProperties DEF Stream
<1>5. t \in Seq(Byte) /\ Whole(t) /\ Cardinality(Starts(t)) = Cardinality(Starts(Stream)) + 1
  BY <1>3, <1>4, Appended
<1>6. Stream' = t
  <2> DEFINE b == Bytes(l)
  <2>1. b \in Seq(Byte)
    BY <1>4
  <2> HIDE DEF b
  <2>2. (m_incoming \o wire) \o b = m_incoming \o (wire \o b)
    <3>1. m_incoming \in Seq(Byte) /\ wire \in Seq(Byte) /\ b \in Seq(Byte)
      BY <1>3, <2>1
    <3> QED
      BY ONLY <3>1, ConcatAssociative
  <2> QED
    BY <1>1, <1>2, <2>2 DEF Stream, b
<1> HIDE DEF t
<1>7. Whole(Stream)' /\ handled' = packets' - Cardinality(Starts(Stream))'
  <2>1. Whole(Stream)' <=> Whole(t)
    BY <1>6 DEF Whole, Starts, Last
  <2>2. Starts(Stream)' = Starts(t)
    BY <1>6 DEF Starts
  <2>3. Cardinality(Starts(Stream)) \in Nat
    BY <1>4, StartsFinite
  <2>4. handled' = packets' - Cardinality(Starts(t))
    BY <1>2, <1>3, <1>5, <2>3
  <2> QED
    BY <1>5, <2>1, <2>2, <2>4
<1>8. wire' \in Seq(Byte) /\ packets' \in Nat
  BY <1>1, <1>2, <1>3, <1>4, ConcatProperties
<1>9. OneReader'
  BY <1>2, Zenon DEF Uncut, OneReader
<1>10. (m_incoming \in Seq(Byte))' /\ (wire \in Seq(Byte))'
  BY <1>2, <1>3, <1>8 DEF Byte
<1> QED
  BY <1>2, <1>3, <1>7, <1>8, <1>9, <1>10 DEF Uncut

\* A read moves bytes from the wire to the buffer.
LEMMA ReadKeeps ==
  ASSUME Uncut, ReadDone
  PROVE  Uncut'
<1>1. PICK n \in reads[1]..Len(wire) :
        /\ m_incoming' = m_incoming \o SubSeq(wire, 1, n)
        /\ wire' = SubSeq(wire, n + 1, Len(wire))
  BY DEF ReadDone
<1>2. /\ ~inHandler /\ inHandler' /\ reads' = <<>> /\ packets' = packets /\ m_data' = m_data
      /\ handled' = handled /\ command' = command
  BY Zenon DEF ReadDone
<1>3. /\ m_incoming \in Seq(Byte) /\ wire \in Seq(Byte) /\ m_data = <<>> /\ packets \in Nat
      /\ Whole(Stream) /\ handled = packets - Cardinality(Starts(Stream)) /\ command # Data
  BY DEF Uncut
<1>4. n \in 1..Len(wire) /\ Len(wire) \in Nat
  <2>1. reads = <<1>>
    BY <1>2, Zenon DEF Uncut, OneReader
  <2> QED
    BY <1>3, <2>1, LenProperties
<1> DEFINE a == SubSeq(wire, 1, n)
           b == SubSeq(wire, n + 1, Len(wire))
<1>5. a \in Seq(Byte) /\ Len(a) = n /\ b \in Seq(Byte)
  <2>1. \A i \in 1..Len(wire) : wire[i] \in Byte
    BY <1>3, ElementOfSeq
  <2>2. /\ 1 \in Int /\ n \in Int /\ n + 1 \in Int /\ Len(wire) \in Int
        /\ \A i \in 1..n : wire[i] \in Byte
        /\ \A i \in (n + 1)..Len(wire) : wire[i] \in Byte
    BY <1>4, <2>1
  <2>3. a \in Seq(Byte) /\ Len(a) = IF 1 <= n THEN n - 1 + 1 ELSE 0
    BY <2>2, SubSeqProperties
  <2>4. b \in Seq(Byte)
    BY <2>2, SubSeqProperties
  <2> QED
    BY <1>4, <2>3, <2>4
<1>6. a \o b = wire
  <2>1. 1 \in 1..(Len(wire) + 1) /\ n \in (1 - 1)..Len(wire) /\ Len(wire) \in n..Len(wire)
    BY <1>4
  <2>2. a \o b = SubSeq(wire, 1, Len(wire))
    BY <1>3, <2>1, ConcatAdjacentSubSeq
  <2> QED
    BY <1>3, <2>2, SubSeqFull
<1> HIDE DEF a, b
<1>7. Stream' = Stream
  <2>1. (m_incoming \o a) \o b = m_incoming \o (a \o b)
    <3>1. m_incoming \in Seq(Byte) /\ a \in Seq(Byte) /\ b \in Seq(Byte)
      BY <1>3, <1>5
    <3> QED
      BY ONLY <3>1, ConcatAssociative
  <2> QED
    BY <1>1, <1>6, <2>1 DEF Stream, a, b
<1>8. m_incoming' \in Seq(Byte) /\ m_incoming' # <<>> /\ wire' \in Seq(Byte)
  <2>1. m_incoming \o a \in Seq(Byte) /\ Len(m_incoming \o a) = Len(m_incoming) + n
    BY <1>3, <1>5, ConcatProperties
  <2>2. Len(m_incoming) \in Nat
    BY <1>3, LenProperties
  <2>3. m_incoming \o a # <<>>
    BY <1>4, <2>1, <2>2, EmptySeq
  <2> QED
    BY <1>1, <1>5, <2>1, <2>3 DEF a, b
<1>9. OneReader'
  BY <1>2, <1>8, Zenon DEF OneReader
<1>10. Whole(Stream)' /\ Starts(Stream)' = Starts(Stream)
  BY <1>3, <1>7 DEF Whole, Starts, Last
<1>11. (m_incoming \in Seq(Byte))' /\ (wire \in Seq(Byte))'
  BY <1>8 DEF Byte
<1> QED
  BY <1>2, <1>3, <1>9, <1>10, <1>11 DEF Uncut

\* What is asked for is missing, and belongs to the packet.
LEMMA NeededIs ==
  ASSUME NEW l \in Layout, m_data = <<>>, m_incoming \in Seq(Byte), ItemsRead(l) < Len(l)
  PROVE  Needed(l) \in Nat \ {0} /\ Needed(l) <= Last(l) - Len(m_incoming)
<1> DEFINE n == Len(m_incoming)
           k == ItemsRead(l)
<1>1. n \in Nat /\ Len(l) \in Nat \ {0} /\ Last(l) \in Nat
  BY LayoutIs, LenProperties
<1>2. k \in 0..Len(l) /\ \A i \in 1..Len(l) : l[i] <= n <=> i <= k
  BY ItemsAre
<1>3. \A i \in 1..Len(l) : l[i] \in Nat \ {0} /\ l[i] <= Last(l)
  BY LayoutIs
<1>4. k < Len(l)
  OBVIOUS
<1> HIDE DEF n, k
<1>5. k \in Nat /\ k + 1 \in 1..Len(l) /\ (k # 0 => k \in 1..Len(l))
  BY <1>1, <1>2, <1>4
<1>6. End(l, k) \in Nat /\ End(l, k) <= n
  BY <1>1, <1>2, <1>3, <1>5 DEF End
<1>7. l[k + 1] \in Nat /\ l[k + 1] > n /\ l[k + 1] <= Last(l)
  BY <1>1, <1>2, <1>3, <1>5
<1>8. Len(Rest(l)) = n - End(l, k)
  <2>1. End(l, k) = End(l, ItemsRead(l)) /\ End(l, k) <= Len(m_incoming)
    BY <1>6 DEF n, k
  <2> QED
    BY <1>6, <2>1, RestIs DEF n
<1>9. Needed(l) = l[k + 1] - End(l, k) - (n - End(l, k))
  BY <1>8 DEF Needed, k
<1> QED
  BY <1>1, <1>6, <1>7, <1>9 DEF n

\* The read for the rest of a packet asks for bytes of that packet only.
LEMMA CutAsksWithin ==
  ASSUME Uncut, cut = FALSE, HandleCut
  PROVE  reads'[Len(reads) + 1] <=
           Cardinality({i \in DOMAIN wire : \A j \in 1..i : wire[j] = Data})
<1>1. PICK l \in Meaning(CommandByte) :
        ItemsRead(l) < Len(l) /\ Finish("OPEN", Rest(l), <<Needed(l)>>)
  BY DEF HandleCut
<1>2. inHandler
  BY DEF HandleCut, Dispatch
<1>3. Stream \in Seq(Byte) /\ l = Stream[1] /\ l \in Layout /\ Stream # <<>>
  <2>1. /\ Stream \in Seq(Byte) /\ Stream # <<>>
        /\ CommandByte = Stream[1] /\ Stream[1] \in Layout
        /\ Meaning(CommandByte) = {CommandByte}
    BY <1>2, CommandStarts
  <2> QED
    BY <1>1, <2>1
<1>4. /\ m_incoming \in Seq(Byte) /\ wire \in Seq(Byte) /\ m_data = <<>> /\ m_incoming # <<>>
      /\ Whole(Stream) /\ reads = <<>>
  BY <1>2, Zenon DEF Uncut, OneReader
<1> DEFINE n == Len(m_incoming)
           w == Len(wire)
           D == {i \in DOMAIN wire : \A j \in 1..i : wire[j] = Data}
<1>5. n \in Nat \ {0} /\ w \in Nat /\ DOMAIN wire = 1..w /\ Len(l) \in Nat \ {0}
  BY <1>3, <1>4, LayoutIs, LenProperties, EmptySeq
<1>6. Needed(l) \in Nat /\ Needed(l) <= Last(l) - n /\ Last(l) \in Nat
  BY <1>1, <1>3, <1>4, LayoutIs, NeededIs
<1>7. reads'[Len(reads) + 1] = Needed(l)
  <2> DEFINE asked == Needed(l)
             next == IF Take(Rest(l)) = <<>> THEN <<NextNeeded>> ELSE <<>>
  <2>1. reads' = (reads \o <<asked>>) \o next
    BY <1>1 DEF Finish, GoesOn
  <2>2. next = <<>> \/ next = <<1>>
    BY DEF NextNeeded
  <2> HIDE DEF asked, next
  <2>3. reads' = (<<>> \o <<asked>>) \o next /\ Len(reads) + 1 = 1
    BY <1>4, <2>1
  <2>4. reads'[1] = asked
    BY ONLY <2>2, <2>3
  <2> QED
    BY <2>3, <2>4 DEF asked
<1>8. /\ Last(l) <= n + w
       /\ \A i \in 1..(Last(l) - n) : i \in 1..w /\ wire[i] = Data
  <2>1. /\ Len(Stream) = n + w
        /\ \A i \in 1..(n + w) : Stream[i] = IF i <= n THEN m_incoming[i] ELSE wire[i - n]
    BY <1>4, ConcatProperties DEF Stream
  <2>2. 1 \in Starts(Stream)
    BY <1>3, <1>4, <1>5, <2>1, LenProperties DEF Starts, Whole
  <2>3. /\ 1 + Last(l) <= Len(Stream) + 1
        /\ \A j \in (1 + 1)..(1 + Last(l) - 1) : Stream[j] = Data
    BY <1>3, <1>4, <2>2 DEF Whole
  <2> HIDE DEF n, w
  <2>4. Last(l) <= n + w
    BY <1>5, <1>6, <2>1, <2>3
  <2>5. ASSUME NEW i \in 1..(Last(l) - n) PROVE i \in 1..w /\ wire[i] = Data
    <3>1. i + n \in (1 + 1)..(1 + Last(l) - 1) /\ i + n \in 1..(n + w) /\ ~(i + n <= n)
          /\ (i + n) - n = i /\ i \in 1..w
      BY <1>5, <1>6, <2>4
    <3>2. Stream[i + n] = Data /\ Stream[i + n] = wire[(i + n) - n]
      BY <2>1, <2>3, <3>1
    <3> QED
      BY <3>1, <3>2
  <2> QED
    BY <2>4, <2>5
<1> HIDE DEF n, w
<1>9. IsFiniteSet(D) /\ Cardinality(D) \in Nat
  <2>1. D \subseteq 1..w
    BY <1>5
  <2> HIDE DEF D
  <2>2. IsFiniteSet(1..w)
    BY <1>5, FS_Interval
  <2>3. IsFiniteSet(D)
    BY <2>1, <2>2, FS_Subset
  <2> QED
    BY <2>3, FS_CardinalityType
<1>10. CASE Last(l) - n >= 0
  <2>1. 1..(Last(l) - n) \subseteq D
    <3> SUFFICES ASSUME NEW i \in 1..(Last(l) - n) PROVE i \in D
      OBVIOUS
    <3>1. i \in 1..w
      BY <1>8
    <3>2. ASSUME NEW j \in 1..i PROVE wire[j] = Data
      <4>1. j \in 1..(Last(l) - n)
        BY <1>5, <1>6
      <4> QED
        BY <1>8, <4>1
    <3> QED
      BY <1>5, <3>1, <3>2
  <2>2. Cardinality(1..(Last(l) - n)) = Last(l) - n
    <3>1. 1 \in Int /\ Last(l) - n \in Int
      BY <1>5, <1>6
    <3> QED
      BY <1>5, <1>6, <1>10, <3>1, FS_Interval
  <2>3. 1..(Last(l) - n) \in SUBSET D
    BY <2>1
  <2>4. Cardinality(1..(Last(l) - n)) <= Cardinality(D)
    BY <1>9, <2>3, FS_Subset
  <2> HIDE DEF D
  <2>5. Needed(l) <= Cardinality(D)
    BY <1>5, <1>6, <1>9, <2>2, <2>4
  <2> QED
    BY <1>7, <2>5 DEF D
<1>11. CASE Last(l) - n < 0
  <2> HIDE DEF D
  <2>1. Needed(l) <= Cardinality(D)
    BY <1>5, <1>6, <1>9, <1>11
  <2> QED
    BY <1>7, <2>1 DEF D
<1> QED
  BY <1>5, <1>6, <1>10, <1>11

-----------------------------------------------------------------------------
LEMMA OneRead ==
  ASSUME NEW x, NEW r, r = <<x>>
  PROVE  ~(Len(r) > 1)
<1>1. Len(r) = 1
  OBVIOUS
<1> QED
  BY <1>1

LEMMA InitInvariant == Init => IInv
<1> SUFFICES ASSUME Init PROVE IInv
  OBVIOUS
<1>1. /\ m_incoming = <<>> /\ wire = <<>> /\ m_data = <<>> /\ packets = 0 /\ handled = 0
      /\ reads = <<1>> /\ ~inHandler /\ command = None /\ cut \in BOOLEAN
  BY Zenon DEF Init
<1>2. Stream = <<>> /\ <<>> \in Seq(Byte)
  BY <1>1, EmptySeq, ConcatEmptySeq DEF Stream
<1>3. Starts(Stream) = {} /\ Whole(Stream)
  BY <1>2 DEF Starts, Whole
<1>4. Cardinality(Starts(Stream)) = 0
  BY <1>3, FS_EmptySet
<1>5. OneReader
  BY <1>1 DEF OneReader
<1> QED
  BY <1>1, <1>2, <1>3, <1>4, <1>5, PacketReaderAssumption DEF IInv, Uncut

\* A client leaves OPEN with a command that started a packet.
LEMMA LeavesWithCommand ==
  ASSUME IInv, Dispatch, ~cut
  PROVE  command' # Data
<1>1. inHandler /\ cut = FALSE /\ Uncut /\ command' = CommandByte
  BY DEF IInv, Dispatch
<1>2. CommandByte \in Layout
  BY <1>1, CommandStarts
<1> QED
  BY <1>1, <1>2, PacketReaderAssumption

LEMMA NextInvariant == IInv /\ [Next]_vars => IInv'
<1> SUFFICES ASSUME IInv, [Next]_vars PROVE IInv'
  OBVIOUS
<1>1. CASE Send
  <2>1. cut' = cut /\ m_state' = m_state /\ command' = command
    BY <1>1 DEF Send
  <2> QED
    BY <1>1, <2>1, SendKeeps DEF IInv
<1>2. CASE ReadDone
  <2>1. cut' = cut /\ m_state' = m_state /\ command' = command
    BY <1>2 DEF ReadDone
  <2> QED
    BY <1>2, <2>1, ReadKeeps DEF IInv
<1>3. CASE ReadOverlapping
  <2>1. cut' = cut /\ m_state' = m_state /\ command' = command /\ Len(reads) > 1
    BY <1>3 DEF ReadOverlapping
  <2>2. Uncut => reads = <<>> \/ reads = <<1>>
    BY Zenon DEF Uncut, OneReader
  <2>3. reads # <<>>
    BY <2>1, EmptySeq
  <2>4. reads # <<1>>
    BY <2>1, OneRead, Zenon
  <2>5. ~Uncut
    BY <2>2, <2>3, <2>4, Zenon
  <2> QED
    BY <2>1, <2>5 DEF IInv
<1>4. CASE ReadFails \/ WriteEnds
  <2>1. cut' = cut /\ m_state' = "DISCONNECTED" /\ command' = command
    BY <1>4 DEF ReadFails, WriteEnds
  <2> QED
    BY <2>1 DEF IInv
<1>5. CASE Handle
  <2>1. cut' = cut /\ Dispatch
    BY <1>5 DEF Handle
  <2>2. ~cut => Uncut'
    BY <1>5, <2>1, HandleKeeps DEF IInv, Dispatch
  <2> QED
    BY <2>1, <2>2, LeavesWithCommand DEF IInv
<1>6. CASE HandleCut
  <2>1. cut' = TRUE
    BY <1>6 DEF HandleCut
  <2> QED
    BY <2>1 DEF IInv
<1>7. CASE HandleRefused \/ HandleUnknown \/ HandleQuit
  <2>1. cut' = cut /\ Dispatch /\ m_state' # "OPEN"
    BY <1>7 DEF HandleRefused, HandleUnknown, HandleQuit, Finish
  <2> QED
    BY <2>1, LeavesWithCommand DEF IInv
<1>8. CASE HandleIgnored
  <2>1. cut' = cut /\ m_state' = m_state /\ m_state # "OPEN" /\ command' = command
    BY <1>8 DEF HandleIgnored, Finish
  <2> QED
    BY <2>1 DEF IInv
<1>9. CASE UNCHANGED vars
  BY <1>9 DEF vars, IInv, Uncut, OneReader, Whole, Starts, Stream, Last, Byte
<1> QED
  BY <1>1, <1>2, <1>3, <1>4, <1>5, <1>6, <1>7, <1>8, <1>9 DEF Next, HandleRead

\* For any layouts and any reads, IInv always holds.
THEOREM Invariant == Spec => []IInv
<1> QED
  BY InitInvariant, NextInvariant, PTL DEF Spec

\* Nothing but the first byte of a packet is taken for a command until a packet
\* is cut short, in whatever state the client is (handleRead, client.cpp 272-276).
THEOREM StaysInStep == Spec => []InStepUntilCut
<1>1. IInv => InStepUntilCut
  BY DEF IInv, InStepUntilCut
<1> QED
  BY <1>1, Invariant, PTL

\* Until then, and until the client is disconnected, every packet is handled once
\* (handleRead, client.cpp 340-351).
THEOREM NothingLost == Spec => []NothingSkipped
<1>1. IInv => NothingSkipped
  BY DEF IInv, Uncut, NothingSkipped, Starts, Stream
<1> QED
  BY <1>1, Invariant, PTL

\* The read issued when a packet is cut short asks for no byte beyond that packet
\* (getHelper, client.cpp 595-598).
THEOREM ReadsNoFurther == Spec => AsksWithinPacket
<1> DEFINE Within == (~cut /\ cut') =>
             reads'[Len(reads) + 1] <=
               Cardinality({i \in DOMAIN wire : \A j \in 1..i : wire[j] = Data})
<1>1. IInv /\ [Next]_vars => [Within]_vars
  <2> SUFFICES ASSUME IInv, Next, ~cut, cut' PROVE Within
    BY DEF vars
  <2>1. HandleCut
    BY DEF Next, Send, ReadDone, ReadOverlapping, ReadFails, WriteEnds, HandleRead, Handle,
           HandleRefused, HandleUnknown, HandleQuit, HandleIgnored
  <2>2. cut = FALSE /\ Uncut
    BY <2>1 DEF IInv, HandleCut, Dispatch
  <2> QED
    BY <2>1, <2>2, CutAsksWithin
<1> QED
  BY <1>1, Invariant, PTL DEF Spec, AsksWithinPacket

-----------------------------------------------------------------------------
\* The types hold after a cut as well, where nothing else is left of Uncut: the
\* handler always has room for one more read, and get() remembers nothing.
TInv ==
  /\ TypeOK
  /\ m_data = <<>>
  /\ inHandler => Len(reads) < MaxReads /\ m_incoming # <<>>

\* What Finish does to the types, when the reads asked for leave room.
LEMMA FinishTypes ==
  ASSUME TInv, NEW state \in State, NEW r \in Seq(Byte), NEW asked \in Seq(Nat \ {0}),
         Len(reads) + Len(asked) < MaxReads,
         Finish(state, r, asked)
  PROVE  /\ m_state' \in State /\ m_data' = <<>> /\ m_incoming' \in Seq(Byte) /\ inHandler' \in BOOLEAN
         /\ reads' \in Seq(Nat \ {0}) /\ Len(reads') <= MaxReads
         /\ inHandler' => Len(reads') < MaxReads /\ m_incoming' # <<>>
<1> DEFINE again == GoesOn(state) /\ r = <<>>
           next == IF again THEN <<1>> ELSE <<>>
<1>1. reads \in Seq(Nat \ {0}) /\ MaxReads \in Nat
  BY PacketReaderAssumption DEF TInv, TypeOK
<1>2. /\ m_state' = state /\ m_data' = <<>> /\ m_incoming' = r
      /\ inHandler' = (GoesOn(state) /\ r # <<>>)
      /\ reads' = (reads \o asked) \o next
  BY DEF Finish, Take, NextNeeded
<1>3. /\ next \in Seq(Nat \ {0}) /\ Len(next) \in {0, 1} /\ (r # <<>> => Len(next) = 0)
  <2> HIDE DEF again
  <2>1. <<>> \in Seq(Nat \ {0}) /\ Len(<<>>) = 0
    BY EmptySeq
  <2>2. <<1>> \in Seq(Nat \ {0}) /\ Len(<<1>>) = 1
    OBVIOUS
  <2>3. r # <<>> => ~again
    BY DEF again
  <2> QED
    BY <2>1, <2>2, <2>3
<1> HIDE DEF next
<1>4. /\ reads \o asked \in Seq(Nat \ {0}) /\ Len(reads \o asked) = Len(reads) + Len(asked)
      /\ Len(reads) \in Nat /\ Len(asked) \in Nat
  BY <1>1, ConcatProperties, LenProperties
<1>5. /\ (reads \o asked) \o next \in Seq(Nat \ {0})
      /\ Len((reads \o asked) \o next) = Len(reads) + Len(asked) + Len(next)
  BY <1>3, <1>4, ConcatProperties
<1>6. reads' \in Seq(Nat \ {0}) /\ Len(reads') = Len(reads) + Len(asked) + Len(next)
  BY ONLY <1>2, <1>5
<1>7. Len(reads') <= MaxReads /\ (r # <<>> => Len(reads') < MaxReads)
  <2> DEFINE a == Len(reads)
             b == Len(asked)
             c == Len(next)
  <2>1. /\ a \in Nat /\ b \in Nat /\ c \in {0, 1} /\ (r # <<>> => c = 0)
        /\ MaxReads \in Nat /\ a + b < MaxReads
    BY <1>1, <1>3, <1>4
  <2> HIDE DEF a, b, c
  <2>2. a + b + c <= MaxReads /\ (r # <<>> => a + b + c < MaxReads)
    BY ONLY <2>1
  <2>3. Len(reads') = a + b + c
    BY ONLY <1>6 DEF a, b, c
  <2> QED
    BY ONLY <2>2, <2>3
<1>8. inHandler' \in BOOLEAN /\ (inHandler' => r # <<>>)
  BY <1>2, Zenon
<1>9. m_incoming' \in Seq(Byte)
  BY <1>2
<1> QED
  BY <1>2, <1>6, <1>7, <1>8, <1>9, Zenon DEF Byte

\* The byte that is looked at as a command is a byte.
LEMMA CommandIsByte ==
  ASSUME m_data = <<>>, m_incoming \in Seq(Byte), m_incoming # <<>>
  PROVE  CommandByte \in Byte
<1>1. CommandByte = m_incoming[1]
  BY ConcatEmptySeq DEF CommandByte
<1>2. 1 \in 1..Len(m_incoming)
  BY EmptySeq, LenProperties
<1> QED
  BY <1>1, <1>2, ElementOfSeq

LEMMA InitTypes == Init => TInv
<1> SUFFICES ASSUME Init PROVE TInv
  OBVIOUS
<1>1. /\ wire = <<>> /\ packets = 0 /\ m_incoming = <<>> /\ m_data = <<>> /\ reads = <<1>>
      /\ inHandler = FALSE /\ m_state = "OPEN" /\ handled = 0 /\ command = None /\ cut = FALSE
  BY DEF Init
<1>2. <<>> \in Seq(Byte) /\ <<1>> \in Seq(Nat \ {0}) /\ Len(<<1>>) = 1
  BY EmptySeq
<1>3. inHandler \in BOOLEAN /\ m_state \in State /\ cut \in BOOLEAN /\ ~inHandler
  BY <1>1 DEF State
<1>4. /\ wire \in Seq(Byte) /\ m_incoming \in Seq(Byte) /\ m_data \in Seq(Byte)
      /\ packets \in 0..MaxPackets /\ handled \in Nat /\ command \in Byte \cup {None}
  BY <1>1, <1>2, PacketReaderAssumption
<1>5. reads \in Seq(Nat \ {0}) /\ Len(reads) <= MaxReads
  BY <1>1, <1>2, PacketReaderAssumption
<1> QED
  BY <1>1, <1>3, <1>4, <1>5, Zenon DEF TInv, TypeOK

\* The types of the reads that go on when another completes.
LEMMA OneReadLess ==
  ASSUME reads \in Seq(Nat \ {0}), Len(reads) <= MaxReads, NEW i \in DOMAIN reads
  PROVE  Without(i) \in Seq(Nat \ {0}) /\ Len(Without(i)) < MaxReads
<1>1. Len(reads) \in Nat \ {0} /\ MaxReads \in Nat /\ \A j \in 1..Len(reads) : reads[j] \in Nat \ {0}
  <2>1. Len(reads) \in Nat /\ i \in 1..Len(reads)
    BY LenProperties
  <2> QED
    BY <2>1, PacketReaderAssumption, ElementOfSeq
<1> DEFINE k == Len(reads) - 1
           q == Without(i)
<1>2. k \in Nat /\ k < MaxReads /\ \A j \in 1..k : j \in 1..Len(reads) /\ j + 1 \in 1..Len(reads)
  BY <1>1
<1>3. q \in [1..k -> Nat \ {0}]
  BY <1>1, <1>2 DEF Without
<1> HIDE DEF k, q
<1>4. q \in Seq(Nat \ {0})
  BY <1>2, <1>3
<1>5. Len(q) = k
  BY <1>2, <1>3, <1>4, LenProperties
<1> QED
  BY <1>2, <1>4, <1>5 DEF q

LEMMA NextTypes == TInv /\ [Next]_vars => TInv'
<1> SUFFICES ASSUME TInv, [Next]_vars PROVE TInv'
  OBVIOUS
<1>1. /\ wire \in Seq(Byte) /\ m_incoming \in Seq(Byte) /\ m_data = <<>>
      /\ packets \in 0..MaxPackets /\ MaxPackets \in Nat /\ MaxReads \in Nat
      /\ reads \in Seq(Nat \ {0}) /\ Len(reads) <= MaxReads /\ Len(reads) \in Nat
      /\ handled \in Nat /\ command \in Byte \cup {None}
  BY PacketReaderAssumption, LenProperties DEF TInv, TypeOK
<1>2. /\ inHandler \in BOOLEAN /\ m_state \in State /\ cut \in BOOLEAN
      /\ inHandler => Len(reads) < MaxReads /\ m_incoming # <<>>
  BY Zenon DEF TInv, TypeOK
<1>3. CASE Send
  <2>1. PICK l \in Layout : wire' = wire \o Bytes(l)
    BY <1>3 DEF Send
  <2>2. /\ packets < MaxPackets /\ packets' = packets + 1
        /\ UNCHANGED <<m_incoming, m_data, reads, inHandler, m_state, handled, command, cut>>
    BY <1>3 DEF Send
  <2>3. wire' \in Seq(Byte) /\ packets' \in 0..MaxPackets
    BY <1>1, <2>1, <2>2, BytesOf, ConcatProperties
  <2> QED
    BY <2>2, <2>3 DEF TInv, TypeOK, Byte
<1>4. ASSUME NEW n \in 0..Len(wire) PROVE SubSeq(wire, n + 1, Len(wire)) \in Seq(Byte)
  <2>1. n + 1 \in Int /\ Len(wire) \in Int /\ \A i \in (n + 1)..Len(wire) : wire[i] \in Byte
    BY <1>1, LenProperties, ElementOfSeq
  <2> QED
    BY <2>1, SubSeqProperties
<1>5. CASE ReadDone
  <2>1. PICK n \in reads[1]..Len(wire) :
          /\ m_incoming' = m_incoming \o SubSeq(wire, 1, n)
          /\ wire' = SubSeq(wire, n + 1, Len(wire))
    BY <1>5 DEF ReadDone
  <2>2. /\ Len(reads) = 1 /\ reads' = <<>> /\ inHandler' = TRUE
        /\ UNCHANGED <<packets, m_data, m_state, handled, command, cut>>
    BY <1>5 DEF ReadDone
  <2>3. n \in 1..Len(wire) /\ Len(wire) \in Nat
    <3>1. reads \in Seq(Nat \ {0}) /\ 1 \in 1..Len(reads) /\ wire \in Seq(Byte)
      BY <1>1, <2>2
    <3>2. reads[1] \in Nat \ {0} /\ Len(wire) \in Nat
      BY ONLY <3>1, ElementOfSeq, LenProperties
    <3> QED
      BY <3>2
  <2>4. SubSeq(wire, 1, n) \in Seq(Byte) /\ Len(SubSeq(wire, 1, n)) = n
    <3>1. 1 \in Int /\ n \in Int /\ \A i \in 1..n : wire[i] \in Byte
      BY <1>1, <2>3, ElementOfSeq
    <3>2. /\ SubSeq(wire, 1, n) \in Seq(Byte)
          /\ Len(SubSeq(wire, 1, n)) = IF 1 <= n THEN n - 1 + 1 ELSE 0
      BY <3>1, SubSeqProperties
    <3> QED
      BY <2>3, <3>2
  <2>5. m_incoming' \in Seq(Byte) /\ m_incoming' # <<>>
    <3>1. /\ m_incoming' \in Seq(Byte) /\ Len(m_incoming') = Len(m_incoming) + n
          /\ Len(m_incoming) \in Nat
      BY <1>1, <2>1, <2>4, ConcatProperties, LenProperties
    <3> QED
      BY <2>3, <3>1, EmptySeq
  <2>6. wire' \in Seq(Byte)
    BY <1>4, <2>1, <2>3
  <2>7. reads' \in Seq(Nat \ {0}) /\ Len(reads') = 0 /\ 0 < MaxReads
    BY <2>2, EmptySeq, PacketReaderAssumption
  <2>8. /\ wire' \in Seq(Byte)' /\ m_incoming' \in Seq(Byte)' /\ m_data' \in Seq(Byte)'
        /\ (packets \in 0..MaxPackets)' /\ (handled \in Nat)' /\ (command \in Byte \cup {None})'
        /\ reads' \in Seq(Nat \ {0}) /\ Len(reads') <= MaxReads /\ Len(reads') < MaxReads
    BY <1>1, <2>2, <2>5, <2>6, <2>7, EmptySeq DEF Byte
  <2>9. m_state' \in State /\ cut' \in BOOLEAN /\ inHandler' \in BOOLEAN /\ m_data' = <<>>
    BY <1>1, <1>2, <2>2, Zenon
  <2> QED
    BY <2>5, <2>8, <2>9, Zenon DEF TInv, TypeOK
<1>6. CASE ReadOverlapping
  <2>1. PICK i \in DOMAIN reads : reads' = Without(i)
    BY <1>6 DEF ReadOverlapping
  <2>2. PICK n \in 1..(MaxBytes - Len(m_incoming)) :
          m_incoming' = m_incoming \o [k \in 1..n |-> Data]
    BY <1>6 DEF ReadOverlapping
  <2>3. PICK k \in 1..Len(wire) : wire' = SubSeq(wire, k + 1, Len(wire))
    BY <1>6 DEF ReadOverlapping
  <2>4. /\ Len(reads) > 1 /\ inHandler' = TRUE
        /\ UNCHANGED <<packets, m_data, m_state, handled, command, cut>>
    BY <1>6 DEF ReadOverlapping
  <2>5. reads' \in Seq(Nat \ {0}) /\ Len(reads') < MaxReads
    BY <1>1, <2>1, <2>4, OneReadLess
  <2>6. m_incoming' \in Seq(Byte) /\ m_incoming' # <<>>
    <3> DEFINE d == [j \in 1..n |-> Data]
    <3>1. n \in Nat \ {0} /\ Len(m_incoming) \in Nat
      BY <1>1, LenProperties, PacketReaderAssumption
    <3>2. d \in [1..n -> Byte]
      BY DEF Byte
    <3>3. d \in Seq(Byte)
      BY <3>1, <3>2
    <3>4. Len(d) = n
      BY <3>1, <3>2, <3>3, LenProperties
    <3> HIDE DEF d
    <3>5. m_incoming \o d \in Seq(Byte) /\ Len(m_incoming \o d) = Len(m_incoming) + n
      BY <1>1, <3>3, <3>4, ConcatProperties
    <3>6. m_incoming \o d # <<>>
      BY <3>1, <3>5, EmptySeq
    <3> QED
      BY <2>2, <3>5, <3>6 DEF d
  <2>7. wire' \in Seq(Byte)
    <3>1. k \in 0..Len(wire)
      OBVIOUS
    <3> QED
      BY <1>4, <2>3, <3>1
  <2>8. /\ wire' \in Seq(Byte)' /\ m_incoming' \in Seq(Byte)' /\ m_data' \in Seq(Byte)'
        /\ (packets \in 0..MaxPackets)' /\ (handled \in Nat)' /\ (command \in Byte \cup {None})'
        /\ reads' \in Seq(Nat \ {0}) /\ Len(reads') <= MaxReads
    <3>1. Len(reads') \in Nat
      BY <2>5, LenProperties
    <3> QED
      BY <1>1, <2>4, <2>5, <2>6, <2>7, <3>1, EmptySeq DEF Byte
  <2>9. m_state' \in State /\ cut' \in BOOLEAN /\ inHandler' \in BOOLEAN /\ m_data' = <<>>
    BY <1>1, <1>2, <2>4, Zenon
  <2> QED
    BY <2>5, <2>6, <2>8, <2>9, Zenon DEF TInv, TypeOK
<1>7. CASE ReadFails
  <2>1. PICK i \in DOMAIN reads : reads' = Without(i)
    BY <1>7 DEF ReadFails
  <2>2. /\ ~inHandler /\ m_state' = "DISCONNECTED"
        /\ UNCHANGED <<wire, packets, m_incoming, m_data, inHandler, handled, command, cut>>
    BY <1>7 DEF ReadFails
  <2>3. reads' \in Seq(Nat \ {0}) /\ Len(reads') < MaxReads
    BY <1>1, <2>1, OneReadLess
  <2>4. Len(reads') <= MaxReads
    <3>1. Len(reads') \in Nat
      BY <2>3, LenProperties
    <3> QED
      BY <1>1, <2>3, <3>1
  <2>5. m_state' \in State
    BY <2>2 DEF State
  <2> QED
    BY <2>2, <2>3, <2>4, <2>5 DEF TInv, TypeOK, Byte
<1>8. CASE WriteEnds
  <2>1. /\ m_state' = "DISCONNECTED"
        /\ UNCHANGED <<wire, packets, m_incoming, m_data, reads, inHandler, handled, command, cut>>
    BY <1>8 DEF WriteEnds
  <2>2. m_state' \in State
    BY <2>1 DEF State
  <2> QED
    BY <2>1, <2>2 DEF TInv, TypeOK, Byte
\* What every handler has in common: it ends with a Finish.
<1>9. ASSUME inHandler, NEW state \in State, NEW r \in Seq(Byte), NEW asked \in Seq(Nat \ {0}),
             Len(reads) + Len(asked) < MaxReads, Finish(state, r, asked),
             wire' = wire, packets' = packets, handled' \in Nat, command' \in Byte \cup {None},
             cut' \in BOOLEAN
      PROVE  TInv'
  <2>1. /\ m_state' \in State /\ m_data' = <<>> /\ m_incoming' \in Seq(Byte) /\ inHandler' \in BOOLEAN
        /\ reads' \in Seq(Nat \ {0}) /\ Len(reads') <= MaxReads
        /\ inHandler' => Len(reads') < MaxReads /\ m_incoming' # <<>>
    BY <1>9, FinishTypes
  <2>2. /\ wire' \in Seq(Byte)' /\ m_incoming' \in Seq(Byte)' /\ m_data' \in Seq(Byte)'
        /\ (packets \in 0..MaxPackets)' /\ (handled \in Nat)' /\ (command \in Byte \cup {None})'
    BY <1>1, <1>9, <2>1, EmptySeq DEF Byte
  <2> QED
    BY <1>9, <2>1, <2>2, Zenon DEF TInv, TypeOK
<1>10. <<>> \in Seq(Nat \ {0}) /\ (inHandler => Len(reads) + Len(<<>>) < MaxReads)
  BY <1>1, <1>2, EmptySeq
<1>11. /\ "OPEN" \in State /\ "DISCONNECTING" \in State /\ "DISCONNECTED" \in State
  BY DEF State
<1>12. inHandler => CommandByte \in Byte
  BY <1>1, <1>2, CommandIsByte
<1>13. inHandler => Meaning(CommandByte) \subseteq Layout
  BY <1>12 DEF Meaning, Byte
<1>14. ASSUME NEW l \in Layout PROVE Rest(l) \in Seq(Byte)
  <2>1. ItemsRead(l) \in 0..ItemsRead(l)
    BY <1>1, LayoutIs, ItemsAre
  <2> QED
    BY <1>1, <2>1, BehindItems DEF Rest
<1>15. inHandler => BehindCommand \in Seq(Byte)
  BY <1>1, <1>2, BehindCommandIs
<1>16. CASE Handle
  <2>1. PICK l \in Meaning(CommandByte) : Finish("OPEN", Rest(l), <<>>)
    BY <1>16 DEF Handle
  <2>2. /\ inHandler /\ handled' = handled + 1 /\ command' = CommandByte /\ cut' = cut
        /\ UNCHANGED <<wire, packets>>
    BY <1>16 DEF Handle, Dispatch
  <2>3. handled' \in Nat /\ command' \in Byte \cup {None} /\ cut' \in BOOLEAN /\ l \in Layout
    BY <1>1, <1>2, <1>12, <1>13, <2>2
  <2> QED
    BY <1>9, <1>10, <1>11, <1>14, <2>1, <2>2, <2>3
<1>17. CASE HandleCut
  <2>1. PICK l \in Meaning(CommandByte) :
          ItemsRead(l) < Len(l) /\ Len(reads) + 2 <= MaxReads /\ Finish("OPEN", Rest(l), <<Needed(l)>>)
    BY <1>17 DEF HandleCut
  <2>2. /\ inHandler /\ cut' = TRUE /\ command' = CommandByte /\ handled' = handled
        /\ UNCHANGED <<wire, packets>>
    BY <1>17 DEF HandleCut, Dispatch
  <2>3. handled' \in Nat /\ command' \in Byte \cup {None} /\ cut' \in BOOLEAN /\ l \in Layout
    BY <1>1, <1>2, <1>12, <1>13, <2>2
  <2>4. Needed(l) \in Nat \ {0}
    BY <1>1, <2>1, <2>3, NeededIs
  <2> DEFINE a == <<Needed(l)>>
  <2>5. a \in Seq(Nat \ {0}) /\ Len(a) = 1 /\ Finish("OPEN", Rest(l), a)
    BY <2>1, <2>4
  <2> HIDE DEF a
  <2>6. Len(reads) + Len(a) < MaxReads
    BY <1>1, <2>1, <2>5
  <2> QED
    BY <1>9, <1>11, <1>14, <2>2, <2>3, <2>5, <2>6
<1>18. CASE HandleRefused
  <2>1. PICK l \in Meaning(CommandByte) : \E n \in 1..ItemsRead(l) :
          Finish("DISCONNECTING", Behind(l, n), <<>>)
    BY <1>18 DEF HandleRefused
  <2>2. PICK n \in 1..ItemsRead(l) : Finish("DISCONNECTING", Behind(l, n), <<>>)
    BY <2>1
  <2>3. /\ inHandler /\ cut' = cut /\ command' = CommandByte /\ handled' = handled
        /\ UNCHANGED <<wire, packets>>
    BY <1>18 DEF HandleRefused, Dispatch
  <2>4. handled' \in Nat /\ command' \in Byte \cup {None} /\ cut' \in BOOLEAN /\ l \in Layout
    BY <1>1, <1>2, <1>12, <1>13, <2>3
  <2>5. Behind(l, n) \in Seq(Byte)
    <3>1. n \in 0..ItemsRead(l)
      BY <1>1, <2>4, ItemsAre
    <3> QED
      BY <1>1, <2>4, <3>1, BehindItems
  <2> QED
    BY <1>9, <1>10, <1>11, <2>2, <2>3, <2>4, <2>5
<1>19. CASE HandleUnknown \/ HandleQuit
  <2>1. PICK state \in State : Finish(state, BehindCommand, <<>>)
    BY <1>11, <1>19 DEF HandleUnknown, HandleQuit
  <2>2. /\ inHandler /\ cut' = cut /\ command' = CommandByte /\ handled' = handled
        /\ UNCHANGED <<wire, packets>>
    BY <1>19 DEF HandleUnknown, HandleQuit, Dispatch
  <2>3. handled' \in Nat /\ command' \in Byte \cup {None} /\ cut' \in BOOLEAN
    BY <1>1, <1>2, <1>12, <2>2
  <2> QED
    BY <1>9, <1>10, <1>15, <2>1, <2>2, <2>3
<1>20. CASE HandleIgnored
  <2>1. /\ inHandler /\ Finish(m_state, BehindCommand, <<>>)
        /\ UNCHANGED <<wire, packets, handled, command, cut>>
    BY <1>20 DEF HandleIgnored
  <2>2. handled' \in Nat /\ command' \in Byte \cup {None} /\ cut' \in BOOLEAN
    BY <1>1, <1>2, <2>1
  <2> QED
    BY <1>2, <1>9, <1>10, <1>15, <2>1, <2>2
<1>21. CASE UNCHANGED vars
  BY <1>21 DEF vars, TInv, TypeOK, Byte
<1> QED
  BY <1>3, <1>5, <1>6, <1>7, <1>8, <1>16, <1>17, <1>18, <1>19, <1>20, <1>21 DEF Next, HandleRead

\* The types, for any layouts and any bounds, after a cut too; every read asks
\* for at least one byte.
THEOREM TypeCorrect == Spec => []TypeOK
<1>1. TInv => TypeOK
  BY DEF TInv
<1> QED
  BY <1>1, InitTypes, NextTypes, PTL DEF Spec
=============================================================================
