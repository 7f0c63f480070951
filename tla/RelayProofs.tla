---------------------------- MODULE RelayProofs -----------------------------
(***************************************************************************)
(* Theorems of the modules Blocks, Codec and Relay, for chunks of any size *)
(* whose sides fit a byte and divide the range of an mcInt, any blocks,    *)
(* numbers of any width, bytes of any even number of values, and hosts of  *)
(* either byte order.                                                      *)
(*                                                                         *)
(* First the bytes of a number: by induction over their number they stand  *)
(* for it, and it determines them.  The functions of Codec are then shown  *)
(* one by one to write, and to read, the bytes from the highest on.        *)
(***************************************************************************)
EXTENDS Relay, TLAPS, SequenceTheorems, WellFoundedInduction

-----------------------------------------------------------------------------
\* Induction over the natural numbers, for a set instead of a predicate.
LEMMA SetInduction ==
  ASSUME NEW S, 0 \in S, \A n \in Nat : n \in S => n + 1 \in S
  PROVE  Nat \subseteq S
<1> DEFINE R == OpToRel(<, Nat)
<1>1. IsWellFoundedOn(R, Nat)
  BY NatLessThanWellFounded
<1>2. \A n \in Nat : <<n, n + 1>> \in R
  BY DEF OpToRel
<1> HIDE DEF R
<1>3. SUFFICES ASSUME Nat \ S # {} PROVE FALSE
  OBVIOUS
<1>4. PICK n \in Nat \ S : \A y \in Nat \ S : <<y, n>> \notin R
  BY <1>1, <1>3, WFMin
<1>5. n - 1 \in Nat /\ n = (n - 1) + 1
  OBVIOUS
<1>6. n - 1 \in S
  BY <1>2, <1>4, <1>5
<1> QED
  BY <1>5, <1>6

\* A function on 0..n that starts with a and goes on as F says.
Follows(f, a, F, n) ==
  /\ f \in [0..n -> Int]
  /\ f[0] = a
  /\ \A i \in 1..n : f[i] = F[i][f[i - 1]]

LEMMA FollowsOneMore ==
  ASSUME NEW a \in Int, NEW F \in [Nat -> [Int -> Int]], NEW n \in Nat,
         NEW f, Follows(f, a, F, n)
  PROVE  \E g : Follows(g, a, F, n + 1)
<1> DEFINE g == [i \in 0..(n + 1) |-> IF i <= n THEN f[i] ELSE F[i][f[n]]]
<1>1. f \in [0..n -> Int] /\ f[0] = a /\ \A i \in 1..n : f[i] = F[i][f[i - 1]]
  BY DEF Follows
<1>2. f[n] \in Int /\ F[n + 1][f[n]] \in Int
  BY <1>1
<1>3. g \in [0..(n + 1) -> Int]
  <2>1. ASSUME NEW i \in 0..(n + 1) PROVE g[i] \in Int
    <3>1. CASE i <= n
      BY <1>1, <3>1
    <3>2. CASE i = n + 1
      BY <1>2, <3>2
    <3> QED
      BY <3>1, <3>2
  <2>2. g = [i \in 0..(n + 1) |-> g[i]]
    OBVIOUS
  <2> HIDE DEF g
  <2> QED
    BY <2>1, <2>2, Zenon
<1>4. g[0] = a
  BY <1>1
<1>5. ASSUME NEW i \in 1..(n + 1) PROVE g[i] = F[i][g[i - 1]]
  <2>1. i - 1 \in 0..n /\ g[i - 1] = f[i - 1]
    OBVIOUS
  <2>2. CASE i <= n
    BY <1>1, <2>1, <2>2
  <2>3. CASE i = n + 1
    BY <2>1, <2>3
  <2> QED
    BY <2>2, <2>3
<1> HIDE DEF g
<1> QED
  BY <1>3, <1>4, <1>5 DEF Follows

LEMMA FollowsExists ==
  ASSUME NEW a \in Int, NEW F \in [Nat -> [Int -> Int]]
  PROVE  \A n \in Nat : \E f : Follows(f, a, F, n)
<1> DEFINE S == {n \in Nat : \E f : Follows(f, a, F, n)}
<1>1. 0 \in S
  <2> DEFINE f == [i \in 0..0 |-> a]
  <2>1. f \in [0..0 -> Int] /\ f[0] = a /\ \A i \in 1..0 : f[i] = F[i][f[i - 1]]
    OBVIOUS
  <2> HIDE DEF f
  <2>2. Follows(f, a, F, 0)
    BY <2>1 DEF Follows
  <2> QED
    BY <2>2
<1>2. ASSUME NEW n \in Nat, n \in S PROVE n + 1 \in S
  BY <1>2, FollowsOneMore
<1>3. Nat \subseteq S
  <2> HIDE DEF S
  <2> QED
    BY <1>1, <1>2, SetInduction
<1> QED
  BY <1>3

LEMMA FollowsUnique ==
  ASSUME NEW a \in Int, NEW F \in [Nat -> [Int -> Int]], NEW n \in Nat, NEW m \in Nat, n <= m,
         NEW f, Follows(f, a, F, n), NEW g, Follows(g, a, F, m)
  PROVE  f[n] = g[n]
<1> DEFINE S == {i \in Nat : i <= n => f[i] = g[i]}
<1>1. 0 \in S
  BY DEF Follows
<1>2. ASSUME NEW i \in Nat, i \in S PROVE i + 1 \in S
  <2>1. CASE i + 1 <= n
    <3>1. i + 1 \in 1..n /\ i + 1 \in 1..m /\ (i + 1) - 1 = i
      BY <2>1
    <3>2. f[i + 1] = F[i + 1][f[i]] /\ g[i + 1] = F[i + 1][g[i]]
      BY <3>1 DEF Follows
    <3> QED
      BY <1>2, <2>1, <3>2
  <2> QED
    BY <2>1
<1>3. Nat \subseteq S
  <2> HIDE DEF S
  <2> QED
    BY <1>1, <1>2, SetInduction
<1> QED
  BY <1>3

\* The function that is so defined on all natural numbers.
LEMMA Recursion ==
  ASSUME NEW a \in Int, NEW F \in [Nat -> [Int -> Int]]
  PROVE  \E f \in [Nat -> Int] : f[0] = a /\ \A n \in Nat \ {0} : f[n] = F[n][f[n - 1]]
<1> DEFINE h(n) == CHOOSE f : Follows(f, a, F, n)
           f == [n \in Nat |-> h(n)[n]]
<1>1. \A n \in Nat : Follows(h(n), a, F, n)
  BY FollowsExists
<1> HIDE DEF h
<1>2. f \in [Nat -> Int]
  <2>1. ASSUME NEW n \in Nat PROVE f[n] \in Int
    BY <1>1 DEF Follows
  <2> QED
    BY <2>1
<1>3. f[0] = a
  BY <1>1 DEF Follows
<1>4. ASSUME NEW n \in Nat \ {0} PROVE f[n] = F[n][f[n - 1]]
  <2>1. n - 1 \in Nat /\ n - 1 <= n /\ n \in 1..n
    OBVIOUS
  <2>2. h(n - 1)[n - 1] = h(n)[n - 1]
    BY <1>1, <2>1, FollowsUnique
  <2>3. h(n)[n] = F[n][h(n)[n - 1]]
    BY <1>1, <2>1 DEF Follows
  <2> QED
    BY <2>1, <2>2, <2>3
<1> QED
  BY <1>2, <1>3, <1>4
-----------------------------------------------------------------------------
\* Multiplying by a positive factor does not make a number smaller.
LEMMA TimesGrows == \A n, d \in Nat \ {0} : n * d \in Int /\ n * d >= n
<1> SUFFICES ASSUME NEW n \in Nat \ {0}, NEW d \in Nat \ {0} PROVE n * d \in Int /\ n * d >= n
  OBVIOUS
<1>1. n * (d - 1) >= 0
  OBVIOUS
<1>2. n * d = n * (d - 1) + n
  OBVIOUS
<1> QED
  BY <1>1, <1>2

\* A number has one quotient and one remainder.
LEMMA Unique ==
  ASSUME NEW n \in Nat \ {0}, NEW q \in Int, NEW p \in Int,
         NEW r \in 0..(n - 1), NEW s \in 0..(n - 1), n * q + r = n * p + s
  PROVE  q = p /\ r = s
<1>1. ~(q > p)
  <2> SUFFICES ASSUME q > p PROVE FALSE
    OBVIOUS
  <2>1. q - p \in Nat \ {0}
    OBVIOUS
  <2>2. n * (q - p) >= n
    BY <2>1, TimesGrows
  <2>3. n * (q - p) = n * q - n * p
    OBVIOUS
  <2>4. n * q \in Int /\ n * p \in Int
    OBVIOUS
  <2> QED
    BY <2>2, <2>3, <2>4
<1>2. ~(p > q)
  <2> SUFFICES ASSUME p > q PROVE FALSE
    OBVIOUS
  <2>1. p - q \in Nat \ {0}
    OBVIOUS
  <2>2. n * (p - q) >= n
    BY <2>1, TimesGrows
  <2>3. n * (p - q) = n * p - n * q
    OBVIOUS
  <2>4. n * q \in Int /\ n * p \in Int
    OBVIOUS
  <2> QED
    BY <2>2, <2>3, <2>4
<1>3. q = p
  BY <1>1, <1>2
<1>4. n * q = n * p /\ n * q \in Int
  BY <1>3
<1> QED
  BY <1>3, <1>4

LEMMA Division ==
  ASSUME NEW n \in Nat \ {0}, NEW x \in Int
  PROVE  /\ x \div n \in Int
         /\ x % n \in 0..(n - 1)
         /\ x = n * (x \div n) + (x % n)
  OBVIOUS

LEMMA DivisionUnique ==
  ASSUME NEW n \in Nat \ {0}, NEW x \in Int, NEW q \in Int, NEW r \in 0..(n - 1), x = n * q + r
  PROVE  x % n = r
<1> DEFINE p == x \div n
           s == x % n
<1>1. p \in Int /\ s \in 0..(n - 1) /\ x = n * p + s
  BY Division
<1> HIDE DEF p, s
<1>2. n * p + s = n * q + r
  BY <1>1
<1>3. s = r
  <2>1. p \in Int /\ s \in 0..(n - 1)
    BY <1>1
  <2> QED
    BY <1>2, <2>1, Unique, SMTT(30)
<1> QED
  BY <1>3 DEF s

-----------------------------------------------------------------------------
\* The powers of the base.
LEMMA PowerIs ==
  /\ Power[0] = 1
  /\ \A n \in Nat \ {0} : Power[n] = Base * Power[n - 1]
<1> DEFINE F == [n \in Nat |-> [x \in Int |-> Base * x]]
           Recursive(f) == f = [n \in Nat |-> IF n = 0 THEN 1 ELSE Base * f[n - 1]]
<1>1. Base \in Nat
  BY CodecAssumption
<1>2. F \in [Nat -> [Int -> Int]]
  BY <1>1
<1>3. PICK f \in [Nat -> Int] : f[0] = 1 /\ \A n \in Nat \ {0} : f[n] = F[n][f[n - 1]]
  <2> DEFINE one == 1
  <2>1. one \in Int
    OBVIOUS
  <2> HIDE DEF F, one
  <2>2. \E f \in [Nat -> Int] : f[0] = one /\ \A n \in Nat \ {0} : f[n] = F[n][f[n - 1]]
    BY <1>2, <2>1, Recursion
  <2> QED
    BY <2>2 DEF one
<1>4. ASSUME NEW n \in Nat \ {0} PROVE f[n] = Base * f[n - 1]
  <2>1. n \in Nat /\ f[n - 1] \in Int
    BY <1>3
  <2>2. F[n][f[n - 1]] = Base * f[n - 1]
    BY <2>1
  <2> QED
    BY <1>3, <2>2
<1>5. Recursive(f)
  <2>1. \A n \in Nat : f[n] = IF n = 0 THEN 1 ELSE Base * f[n - 1]
    BY <1>3, <1>4
  <2> QED
    BY <2>1
<1>6. Recursive(Power)
  <2>1. Power = CHOOSE g : Recursive(g)
    BY DEF Power
  <2> HIDE DEF Recursive
  <2> QED
    BY <1>5, <2>1
<1>7. Power = [n \in Nat |-> IF n = 0 THEN 1 ELSE Base * Power[n - 1]]
  BY <1>6
<1> HIDE DEF F, Recursive
<1> QED
  BY <1>7

LEMMA PowerPositive == \A n \in Nat : Power[n] \in Nat \ {0}
<1> DEFINE S == {n \in Nat : Power[n] \in Nat \ {0}}
<1>1. 0 \in S
  BY PowerIs
<1>2. ASSUME NEW n \in Nat, n \in S PROVE n + 1 \in S
  <2>1. Power[n + 1] = Base * Power[n]
    BY PowerIs, n + 1 \in Nat \ {0}, (n + 1) - 1 = n
  <2>2. Base \in Nat \ {0} /\ Power[n] \in Nat \ {0}
    BY <1>2, CodecAssumption
  <2>3. Base * Power[n] \in Nat \ {0}
    <3> DEFINE p == Power[n]
    <3>1. p \in Nat \ {0}
      BY <2>2
    <3> HIDE DEF p
    <3>2. Base * p \in Int /\ Base * p >= Base
      BY <2>2, <3>1, TimesGrows
    <3>3. Base * p \in Nat \ {0}
      BY <2>2, <3>2
    <3> QED
      BY <3>3 DEF p
  <2> QED
    BY <2>1, <2>3
<1>3. Nat \subseteq S
  <2> HIDE DEF S
  <2> QED
    BY <1>1, <1>2, SetInduction
<1> QED
  BY <1>3

LEMMA PowerNext == \A n \in Nat : Power[n + 1] = Base * Power[n]
<1> SUFFICES ASSUME NEW n \in Nat PROVE Power[n + 1] = Base * Power[n]
  OBVIOUS
<1> QED
  BY PowerIs, n + 1 \in Nat \ {0}, (n + 1) - 1 = n

LEMMA PowerSum == ASSUME NEW m \in Nat PROVE \A n \in Nat : Power[m + n] = Power[m] * Power[n]
<1> DEFINE S == {n \in Nat : Power[m + n] = Power[m] * Power[n]}
<1>1. 0 \in S
  BY PowerIs, PowerPositive, m + 0 = m
<1>2. ASSUME NEW n \in Nat, n \in S PROVE n + 1 \in S
  <2> DEFINE a == Power[m]
             b == Power[n]
  <2>1. Power[m + (n + 1)] = Base * Power[m + n]
    BY PowerNext, m + n \in Nat, m + (n + 1) = (m + n) + 1
  <2>2. Power[m + n] = a * b
    BY <1>2
  <2>3. a \in Nat /\ b \in Nat /\ Base \in Nat
    BY PowerPositive, CodecAssumption
  <2>4. Power[n + 1] = Base * b
    BY PowerNext
  <2> HIDE DEF a, b
  <2>5. Base * (a * b) = a * (Base * b)
    BY <2>3
  <2> QED
    BY <2>1, <2>2, <2>4, <2>5 DEF a
<1>3. Nat \subseteq S
  <2> HIDE DEF S
  <2> QED
    BY <1>1, <1>2, SetInduction
<1> QED
  BY <1>3

\* Dividing first by b and then by a divides by their product.
LEMMA DivisionTwice ==
  ASSUME NEW a \in Nat \ {0}, NEW b \in Nat \ {0}, NEW x \in Int
  PROVE  /\ x \div (b * a) = (x \div b) \div a
         /\ x % (b * a) = b * ((x \div b) % a) + (x % b)
<1> DEFINE q == x \div b
           r == x % b
           p == q \div a
           s == q % a
           n == b * a
           t == b * s + r
<1>1. q \in Int /\ r \in 0..(b - 1) /\ x = b * q + r
  BY Division
<1>2. p \in Int /\ s \in 0..(a - 1) /\ q = a * p + s
  <2> HIDE DEF q
  <2> QED
    BY <1>1, Division
<1>3. n \in Nat \ {0}
  BY TimesGrows
<1>4. x \div n \in Int /\ x % n \in 0..(n - 1) /\ x = n * (x \div n) + (x % n)
  <2> HIDE DEF n
  <2> QED
    BY <1>3, Division
<1> HIDE DEF q, r, p, s
<1>5. t \in 0..(n - 1)
  <2>1. b * s \in Int /\ b * s >= 0
    BY <1>2
  <2>2. b * (a - 1 - s) \in Int /\ b * (a - 1 - s) >= 0
    BY <1>2
  <2>3. b * (a - 1 - s) = b * a - b - b * s /\ b * a \in Int
    BY <1>2
  <2> QED
    BY <1>1, <2>1, <2>2, <2>3
<1>6. x = n * p + t
  <2>1. b * (a * p + s) = b * (a * p) + b * s
    BY <1>2
  <2>2. b * (a * p) = b * a * p
    BY <1>2
  <2>3. x = b * a * p + b * s + r
    BY <1>1, <1>2, <2>1, <2>2
  <2>4. b * a * p \in Int /\ b * s \in Int
    BY <1>2
  <2> QED
    BY <1>1, <2>3, <2>4
<1> HIDE DEF n, t
<1>7. x \div n = p /\ x % n = t
  <2> DEFINE u == x \div n
             v == x % n
  <2>1. u \in Int /\ v \in 0..(n - 1) /\ n * u + v = n * p + t
    BY <1>4, <1>6
  <2> HIDE DEF u, v
  <2>2. u = p /\ v = t
    BY <1>2, <1>3, <1>5, <2>1, Unique
  <2> QED
    BY <2>2 DEF u, v
<1> QED
  BY <1>7 DEF n, t, p, q, r, s
-----------------------------------------------------------------------------
\* Sequences of n bytes.
Byte == 0..(Base - 1)
BytesOf(n) == {b \in Seq(Byte) : Len(b) = n}

LEMMA BytesOfIs ==
  ASSUME NEW n \in Nat, NEW b
  PROVE  b \in BytesOf(n) <=> b \in [1..n -> Byte]
<1>1. ASSUME b \in BytesOf(n) PROVE b \in [1..n -> Byte]
  BY <1>1, LenProperties DEF BytesOf
<1>2. ASSUME b \in [1..n -> Byte] PROVE b \in BytesOf(n)
  <2>1. b \in Seq(Byte) /\ DOMAIN b = 1..n
    BY <1>2, IsASeq
  <2>2. Len(b) \in Nat /\ 1..Len(b) = 1..n
    BY <2>1, LenProperties
  <2>3. Len(b) = n
    BY <2>2
  <2> QED
    BY <2>1, <2>3 DEF BytesOf
<1> QED
  BY <1>1, <1>2

\* The numbers that the first bytes of b stand for.
PartialValues(u, b, n) ==
  /\ u \in [0..n -> Int]
  /\ u[0] = 0
  /\ \A i \in 1..n : u[i] = u[i - 1] * Base + b[i]

LEMMA PartialValuesExist ==
  ASSUME NEW n \in Nat, NEW b \in BytesOf(n)
  PROVE  \E u : PartialValues(u, b, n)
<1> DEFINE zero == 0
           F == [i \in Nat |-> [x \in Int |-> x * Base + (IF i \in 1..n THEN b[i] ELSE 0)]]
<1>1. Base \in Nat /\ b \in [1..n -> Byte]
  BY CodecAssumption, BytesOfIs
<1>2. F \in [Nat -> [Int -> Int]]
  <2>1. ASSUME NEW i \in Nat, NEW x \in Int
        PROVE  x * Base + (IF i \in 1..n THEN b[i] ELSE 0) \in Int
    <3>1. CASE i \in 1..n
      BY <1>1, <3>1 DEF Byte
    <3>2. CASE i \notin 1..n
      BY <1>1, <3>2
    <3> QED
      BY <3>1, <3>2
  <2> QED
    BY <2>1
<1>3. zero \in Int
  OBVIOUS
<1>4. PICK f \in [Nat -> Int] : f[0] = zero /\ \A i \in Nat \ {0} : f[i] = F[i][f[i - 1]]
  <2> HIDE DEF F, zero
  <2> QED
    BY <1>2, <1>3, Recursion
<1> DEFINE u == [i \in 0..n |-> f[i]]
<1>5. u \in [0..n -> Int] /\ u[0] = 0
  BY <1>4
<1>6. ASSUME NEW i \in 1..n PROVE u[i] = u[i - 1] * Base + b[i]
  <2>1. i \in Nat \ {0} /\ i - 1 \in 0..n /\ f[i - 1] \in Int
    BY <1>4
  <2>2. F[i][f[i - 1]] = f[i - 1] * Base + b[i]
    BY <2>1
  <2>3. f[i] = f[i - 1] * Base + b[i]
    BY <1>4, <2>1, <2>2
  <2> QED
    BY <2>1, <2>3
<1> HIDE DEF u
<1> QED
  BY <1>5, <1>6 DEF PartialValues

LEMMA UnsignedIs ==
  ASSUME NEW n \in Nat, NEW b \in BytesOf(n), NEW u, PartialValues(u, b, n)
  PROVE  Unsigned(b) = u[n]
<1> DEFINE Recursive(f) == f = [i \in 0..n |-> IF i = 0 THEN 0 ELSE f[i - 1] * Base + b[i]]
           g == CHOOSE f : Recursive(f)
<1>1. Len(b) = n
  BY DEF BytesOf
<1>2. Unsigned(b) = g[n]
  BY <1>1 DEF Unsigned
<1>3. Recursive(u)
  <2>1. \A i \in 0..n : u[i] = IF i = 0 THEN 0 ELSE u[i - 1] * Base + b[i]
    BY DEF PartialValues
  <2>2. u = [i \in 0..n |-> u[i]]
    BY DEF PartialValues
  <2> QED
    BY <2>1, <2>2
<1>4. Recursive(g)
  <2> HIDE DEF Recursive
  <2> QED
    BY <1>3
<1> HIDE DEF g
<1>5. g[0] = 0 /\ \A i \in 1..n : g[i] = g[i - 1] * Base + b[i]
  BY <1>4
<1> HIDE DEF Recursive
<1> DEFINE S == {i \in Nat : i <= n => g[i] = u[i]}
<1>6. 0 \in S
  BY <1>5 DEF PartialValues
<1>7. ASSUME NEW i \in Nat, i \in S PROVE i + 1 \in S
  <2>1. CASE i + 1 <= n
    <3>1. i + 1 \in 1..n /\ (i + 1) - 1 = i /\ g[i] = u[i]
      BY <1>7, <2>1
    <3>2. g[i + 1] = g[i] * Base + b[i + 1] /\ u[i + 1] = u[i] * Base + b[i + 1]
      BY <1>5, <3>1 DEF PartialValues
    <3> QED
      BY <3>1, <3>2
  <2> QED
    BY <2>1
<1>8. Nat \subseteq S
  <2> HIDE DEF S
  <2> QED
    BY <1>6, <1>7, SetInduction
<1> QED
  BY <1>2, <1>8

\* What a sequence of bytes stands for determines the bytes.
LEMMA UnsignedDetermines ==
  ASSUME NEW n \in Nat, NEW b \in BytesOf(n)
  PROVE  /\ Unsigned(b) \in Int
         /\ Bytes(Unsigned(b), n) = b
<1>1. PICK u : PartialValues(u, b, n)
  BY PartialValuesExist
<1> DEFINE v == u[n]
<1>2. Unsigned(b) = v /\ v \in Int
  BY <1>1, UnsignedIs DEF PartialValues
<1>3. Base \in Nat \ {0} /\ b \in [1..n -> Byte]
  BY CodecAssumption, BytesOfIs
<1>4. ASSUME NEW i \in 1..n PROVE u[i] \div Base = u[i - 1] /\ u[i] % Base = b[i]
  <2>1. i - 1 \in 0..n /\ u[i - 1] \in Int /\ u[i] \in Int /\ b[i] \in 0..(Base - 1)
    BY <1>1, <1>3 DEF PartialValues, Byte
  <2>2. u[i] = u[i - 1] * Base + b[i]
    BY <1>1 DEF PartialValues
  <2> DEFINE x == u[i]
             q == u[i - 1]
             r == b[i]
             p == x \div Base
             s == x % Base
  <2>3. x \in Int /\ q \in Int /\ r \in 0..(Base - 1) /\ x = Base * q + r
    BY <1>3, <2>1, <2>2
  <2>4. p \in Int /\ s \in 0..(Base - 1) /\ x = Base * p + s
    <3> HIDE DEF x
    <3> QED
      BY <1>3, <2>3, Division
  <2>5. p = q /\ s = r
    <3> HIDE DEF x, p, s, q, r
    <3>1. Base * p + s = Base * q + r
      BY <2>3, <2>4
    <3> QED
      BY <1>3, <2>3, <2>4, <3>1, Unique
  <2> QED
    BY <2>5
<1> HIDE DEF v
<1> DEFINE S == {k \in Nat : k <= n => v \div Power[k] = u[n - k]}
<1>5. 0 \in S
  <2>1. Power[0] = 1 /\ n - 0 = n
    BY PowerIs
  <2>2. v \div 1 = v
    BY <1>2
  <2> QED
    BY <2>1, <2>2 DEF v
<1>6. ASSUME NEW k \in Nat, k \in S PROVE k + 1 \in S
  <2> SUFFICES ASSUME k + 1 <= n PROVE v \div Power[k + 1] = u[n - (k + 1)]
    OBVIOUS
  <2>1. Power[k + 1] = Base * Power[k] /\ Power[k] \in Nat \ {0}
    BY PowerNext, PowerPositive
  <2>2. v \div Power[k + 1] = (v \div Power[k]) \div Base
    <3> DEFINE p == Power[k]
    <3>1. p \in Nat \ {0}
      BY <2>1
    <3> HIDE DEF p
    <3>2. v \div (p * Base) = (v \div p) \div Base
      BY <1>2, <1>3, <3>1, DivisionTwice
    <3>3. p * Base = Base * p
      BY <1>3, <3>1
    <3> QED
      BY <2>1, <3>2, <3>3 DEF p
  <2>3. v \div Power[k] = u[n - k]
    BY <1>6
  <2>4. n - k \in 1..n /\ (n - k) - 1 = n - (k + 1)
    OBVIOUS
  <2>5. u[n - k] \div Base = u[n - (k + 1)]
    BY <1>4, <2>4
  <2> QED
    BY <2>2, <2>3, <2>5
<1>7. Nat \subseteq S
  <2> HIDE DEF S
  <2> QED
    BY <1>5, <1>6, SetInduction
<1>8. ASSUME NEW i \in 1..n PROVE (v \div Power[n - i]) % Base = b[i]
  <2>1. n - i \in Nat /\ n - i <= n /\ n - (n - i) = i
    OBVIOUS
  <2>2. v \div Power[n - i] = u[i]
    BY <1>7, <2>1
  <2> QED
    BY <1>4, <2>2
<1>9. Bytes(v, n) = b
  <2>1. b = [i \in 1..n |-> b[i]]
    BY <1>3
  <2> QED
    BY <1>8, <2>1 DEF Bytes
<1> QED
  BY <1>2, <1>9

\* The bytes of a number, and what they stand for: the number modulo the width.
LEMMA BytesType ==
  ASSUME NEW n \in Nat, NEW v \in Int
  PROVE  Bytes(v, n) \in BytesOf(n)
<1>1. ASSUME NEW i \in 1..n PROVE (v \div Power[n - i]) % Base \in Byte
  <2> DEFINE p == Power[n - i]
             q == v \div p
  <2>1. p \in Nat \ {0} /\ Base \in Nat \ {0}
    BY PowerPositive, CodecAssumption, n - i \in Nat
  <2> HIDE DEF p
  <2>2. q \in Int
    BY <2>1, Division
  <2> HIDE DEF q
  <2>3. q % Base \in 0..(Base - 1)
    BY <2>1, <2>2, Division
  <2> QED
    BY <2>3 DEF Byte, p, q
<1>2. Bytes(v, n) \in [1..n -> Byte]
  BY <1>1 DEF Bytes
<1> QED
  BY <1>2, BytesOfIs

LEMMA UnsignedOfBytes ==
  ASSUME NEW n \in Nat, NEW v \in Int
  PROVE  /\ v % Power[n] \in 0..(Power[n] - 1)
         /\ Unsigned(Bytes(v, n)) = v % Power[n]
<1> DEFINE u == [i \in 0..n |-> (v \div Power[n - i]) % Power[i]]
           b == Bytes(v, n)
<1>1. Base \in Nat \ {0} /\ \A k \in Nat : Power[k] \in Nat \ {0}
  BY CodecAssumption, PowerPositive
<1>2. ASSUME NEW i \in 0..n
      PROVE  v \div Power[n - i] \in Int /\ (v \div Power[n - i]) % Power[i] \in 0..(Power[i] - 1)
  <2> DEFINE p == Power[n - i]
             q == v \div p
             m == Power[i]
  <2>1. p \in Nat \ {0} /\ m \in Nat \ {0}
    BY <1>1, n - i \in Nat, i \in Nat
  <2> HIDE DEF p, m
  <2>2. q \in Int
    BY <2>1, Division
  <2> HIDE DEF q
  <2>3. q % m \in 0..(m - 1)
    BY <2>1, <2>2, Division
  <2> QED
    BY <2>2, <2>3 DEF p, q, m
<1>3. u \in [0..n -> Int]
  <2>1. ASSUME NEW i \in 0..n PROVE (v \div Power[n - i]) % Power[i] \in Int
    <3>1. Power[i] \in Int
      BY <1>1, i \in Nat
    <3> QED
      BY <1>2, <3>1
  <2> QED
    BY <2>1
<1>4. u[0] = 0
  <2>1. u[0] = (v \div Power[n]) % 1
    BY PowerIs, n - 0 = n
  <2>2. v \div Power[n] \in Int
    BY <1>2, 0 \in 0..n, n - 0 = n
  <2> QED
    BY <2>1, <2>2
<1>5. ASSUME NEW i \in 1..n PROVE u[i] = u[i - 1] * Base + b[i]
  <2> DEFINE p == Power[n - i]
             m == Power[i - 1]
             y == v \div p
  <2>1. /\ i - 1 \in 0..n /\ i \in 0..n /\ n - i \in Nat /\ i - 1 \in Nat
        /\ n - (i - 1) = (n - i) + 1 /\ (i - 1) + 1 = i
    OBVIOUS
  <2>2. p \in Nat \ {0} /\ m \in Nat \ {0} /\ y \in Int
    BY <1>1, <1>2, <2>1
  <2>3. Power[n - (i - 1)] = Base * p /\ Power[i] = Base * m
    BY <2>1, PowerNext
  <2>4. u[i] = y % (Base * m) /\ u[i - 1] = (v \div (Base * p)) % m /\ b[i] = y % Base
    BY <2>1, <2>3 DEF Bytes
  <2>5. v \div (Base * p) = y \div Base
    <3> HIDE DEF p
    <3>1. v \div (p * Base) = (v \div p) \div Base
      BY <1>1, <2>2, DivisionTwice
    <3>2. p * Base = Base * p
      BY <1>1, <2>2
    <3> QED
      BY <3>1, <3>2
  <2>6. y % (Base * m) = Base * ((y \div Base) % m) + (y % Base)
    <3> HIDE DEF y, m
    <3> QED
      BY <1>1, <2>2, DivisionTwice
  <2>7. u[i - 1] \in Int
    BY <1>3, <2>1
  <2> HIDE DEF u, b, y, m, p
  <2>8. u[i] = Base * u[i - 1] + b[i]
    BY <2>4, <2>5, <2>6
  <2>9. Base * u[i - 1] = u[i - 1] * Base
    BY <1>1, <2>7
  <2> QED
    BY <2>8, <2>9
<1>6. b \in BytesOf(n)
  BY BytesType
<1>7. u[n] = v % Power[n]
  <2>1. u[n] = (v \div 1) % Power[n]
    BY PowerIs, n - n = 0, n \in 0..n
  <2>2. v \div 1 = v
    OBVIOUS
  <2> QED
    BY <2>1, <2>2
<1> HIDE DEF u, b
<1>8. Unsigned(b) = u[n]
  <2>1. PartialValues(u, b, n)
    BY <1>3, <1>4, <1>5 DEF PartialValues
  <2> QED
    BY <1>6, <2>1, UnsignedIs
<1>9. v % Power[n] \in 0..(Power[n] - 1)
  BY <1>1, Division
<1> QED
  BY <1>7, <1>8, <1>9 DEF b

LEMMA UnsignedRange ==
  ASSUME NEW n \in Nat, NEW b \in BytesOf(n)
  PROVE  Unsigned(b) \in 0..(Power[n] - 1)
<1>1. Unsigned(b) \in Int /\ Unsigned(b) = Unsigned(Bytes(Unsigned(b), n))
  BY UnsignedDetermines
<1> QED
  BY <1>1, UnsignedOfBytes

\* The bytes of a number that fits, as a signed number or an unsigned one.
LEMMA SmallRemainder ==
  ASSUME NEW m \in Nat \ {0}, NEW v \in 0..(m - 1)
  PROVE  v % m = v /\ v \div m = 0
<1>1. v = m * 0 + v
  OBVIOUS
<1>2. v % m = v
  BY <1>1, DivisionUnique, v \in Int, 0 \in Int
<1> QED
  BY <1>2

LEMMA UnsignedOfFit ==
  ASSUME NEW n \in Nat, NEW v \in 0..(Power[n] - 1)
  PROVE  Unsigned(Bytes(v, n)) = v
<1>1. Power[n] \in Nat \ {0} /\ v \in Int
  BY PowerPositive
<1> QED
  BY <1>1, SmallRemainder, UnsignedOfBytes

\* Half of the numbers of a width are negative.
LEMMA HalfOfPower ==
  ASSUME NEW n \in Nat \ {0}
  PROVE  Power[n] = 2 * (Power[n] \div 2) /\ Power[n] \div 2 \in Nat \ {0}
<1> DEFINE all == Power[n]
           p == Power[n - 1]
           h == Base \div 2
<1>1. p \in Nat \ {0} /\ all = Base * p
  BY PowerNext, PowerPositive, n - 1 \in Nat, (n - 1) + 1 = n
<1>2. Base = 2 * h /\ h \in Nat \ {0}
  BY CodecAssumption
<1> HIDE DEF p, h
<1>3. all = 2 * (h * p) /\ h * p \in Nat \ {0}
  <2>1. h * p \in Int /\ h * p >= h
    BY <1>1, <1>2, TimesGrows
  <2>2. (2 * h) * p = 2 * (h * p)
    BY <1>1, <1>2
  <2> QED
    BY <1>1, <1>2, <2>1, <2>2
<1> DEFINE k == h * p
<1> HIDE DEF all, k
<1>4. all = 2 * k /\ k \in Nat \ {0}
  BY <1>3 DEF k
<1>5. all \div 2 = k
  BY <1>4
<1> QED
  BY <1>4, <1>5 DEF all

LEMMA SignedOfBytes ==
  ASSUME NEW n \in Nat \ {0}, NEW v \in OfWidth(n)
  PROVE  v \in Int /\ Signed(Bytes(v, n)) = v
<1> DEFINE all == Power[n]
           half == all \div 2
           s == v % all
<1>1. all \in Nat \ {0} /\ all = 2 * half /\ half \in Nat \ {0}
  BY HalfOfPower, PowerPositive
<1>2. v \in (-half)..(half - 1)
  BY DEF OfWidth
<1>3. v \in Int
  <2> HIDE DEF half
  <2> QED
    BY <1>1, <1>2
<1>4. Unsigned(Bytes(v, n)) = s /\ Len(Bytes(v, n)) = n
  BY <1>3, UnsignedOfBytes, BytesType, n \in Nat DEF BytesOf
<1>5. Signed(Bytes(v, n)) = IF s < half THEN s ELSE s - all
  BY <1>4 DEF Signed
<1>6. s = IF v >= 0 THEN v ELSE v + all
  <2> HIDE DEF all, half
  <2>1. CASE v >= 0
    <3>1. v = all * 0 + v /\ v \in 0..(all - 1)
      BY <1>1, <1>2, <2>1
    <3>2. v % all = v
      BY <1>1, <1>3, <3>1, DivisionUnique, 0 \in Int
    <3> QED
      BY <2>1, <3>2
  <2>2. CASE v < 0
    <3> DEFINE r == v + all
    <3>1. v = all * (-1) + r /\ r \in 0..(all - 1)
      BY <1>1, <1>2, <2>2
    <3> HIDE DEF r
    <3>2. v % all = r
      BY <1>1, <1>3, <3>1, DivisionUnique, -1 \in Int
    <3>3. ~(v >= 0)
      BY <1>3, <2>2
    <3> QED
      BY <3>2, <3>3 DEF r
  <2> QED
    BY <1>3, <2>1, <2>2
<1> HIDE DEF half, s, all
<1> QED
  BY <1>1, <1>2, <1>3, <1>5, <1>6
-----------------------------------------------------------------------------
\* The memory of the host, whichever order it keeps the bytes in.
LEMMA ReverseBytes ==
  ASSUME NEW n \in Nat, NEW b \in BytesOf(n)
  PROVE  Reverse(b) \in BytesOf(n) /\ Reverse(Reverse(b)) = b
<1>1. b \in [1..n -> Byte] /\ Len(b) = n
  BY BytesOfIs DEF BytesOf
<1> DEFINE r == Reverse(b)
<1>2. r = [i \in 1..n |-> b[(n - i) + 1]]
  BY <1>1 DEF Reverse
<1>3. r \in BytesOf(n)
  <2>1. \A i \in 1..n : b[(n - i) + 1] \in Byte
    BY <1>1
  <2>2. r \in [1..n -> Byte]
    BY <1>2, <2>1
  <2> QED
    BY <2>2, BytesOfIs
<1>4. Reverse(r) = b
  <2>1. Len(r) = n
    BY <1>3 DEF BytesOf
  <2>2. Reverse(r) = [i \in 1..n |-> r[(n - i) + 1]]
    BY <2>1 DEF Reverse
  <2>3. ASSUME NEW i \in 1..n PROVE r[(n - i) + 1] = b[i]
    <3>1. (n - i) + 1 \in 1..n /\ (n - ((n - i) + 1)) + 1 = i
      OBVIOUS
    <3> QED
      BY <1>2, <3>1
  <2>4. b = [i \in 1..n |-> b[i]]
    BY <1>1
  <2> HIDE DEF r
  <2> QED
    BY <2>2, <2>3, <2>4
<1> QED
  BY <1>3, <1>4

LEMMA MemoryOfValue ==
  ASSUME NEW n \in Nat, NEW v \in Int
  PROVE  Memory(v, n) \in BytesOf(n) /\ InMemory(Memory(v, n)) = Unsigned(Bytes(v, n))
  BY BytesType, ReverseBytes DEF Memory, InMemory

LEMMA MemoryOfBytes ==
  ASSUME NEW n \in Nat, NEW b \in BytesOf(n)
  PROVE  InMemory(b) \in 0..(Power[n] - 1) /\ Memory(InMemory(b), n) = b
<1>1. CASE littleEndian
  <2> DEFINE r == Reverse(b)
  <2>1. r \in BytesOf(n) /\ Reverse(r) = b
    BY ReverseBytes
  <2> HIDE DEF r
  <2>2. Unsigned(r) \in 0..(Power[n] - 1) /\ Bytes(Unsigned(r), n) = r
    BY <2>1, UnsignedDetermines, UnsignedRange
  <2> QED
    BY <1>1, <2>1, <2>2 DEF Memory, InMemory, r
<1>2. CASE ~littleEndian
  BY <1>2, UnsignedDetermines, UnsignedRange DEF Memory, InMemory
<1> QED
  BY <1>1, <1>2

\* htons, htonl and back: the bytes of a number in memory are its bytes from the
\* highest on.
LEMMA HtonWrites ==
  ASSUME NEW n \in Nat, NEW v \in Int
  PROVE  Hton(v, n) \in 0..(Power[n] - 1) /\ Memory(Hton(v, n), n) = Bytes(v, n)
  BY BytesType, MemoryOfBytes DEF Hton

LEMMA NtohReads ==
  ASSUME NEW n \in Nat, NEW b \in BytesOf(n)
  PROVE  Ntoh(InMemory(b), n) = Unsigned(b)
  BY MemoryOfBytes DEF Ntoh

\* What set writes of an integer that fits, and what get makes of it.
LEMMA Widths == /\ ShortWidth \in Nat /\ IntWidth \in Nat /\ LongWidth \in Nat
                /\ LongWidth = IntWidth + IntWidth
  BY CodecAssumption DEF LongWidth

LEMMA SetsBytes ==
  ASSUME NEW v \in Int
  PROVE  SetByte(v) = Bytes(v, 1) /\ SetShort(v) = Bytes(v, ShortWidth)
         /\ SetInt(v) = Bytes(v, IntWidth) /\ SetFloat(v) = Bytes(v, IntWidth)
  BY HtonWrites, Widths DEF SetByte, SetShort, SetInt, SetFloat

LEMMA GetsSigned ==
  /\ \A b \in BytesOf(ShortWidth) : GetShort(b) = Signed(b)
  /\ \A b \in BytesOf(IntWidth) : GetInt(b) = Signed(b)
  BY NtohReads, UnsignedDetermines, Widths DEF GetShort, GetInt
-----------------------------------------------------------------------------
\* A number with twice the bytes: htonll and ntohll.
LEMMA DivisionShift ==
  ASSUME NEW m \in Nat \ {0}, NEW q \in Int, NEW x \in Int
  PROVE  (m * q + x) \div m = q + (x \div m) /\ (m * q + x) % m = x % m
<1> DEFINE p == x \div m
           r == x % m
           y == m * q + x
           t == y \div m
           u == y % m
<1>1. p \in Int /\ r \in 0..(m - 1) /\ x = m * p + r
  BY Division
<1>2. y \in Int
  OBVIOUS
<1>3. t \in Int /\ u \in 0..(m - 1) /\ y = m * t + u
  <2> HIDE DEF y
  <2> QED
    BY <1>2, Division
<1>4. y = m * (q + p) + r
  <2> HIDE DEF p, r
  <2>1. m * (q + p) = m * q + m * p /\ m * q \in Int /\ m * p \in Int
    BY <1>1
  <2> QED
    BY <1>1, <2>1
<1>5. t = q + p /\ u = r
  <2> HIDE DEF p, r, y, t, u
  <2>1. q + p \in Int /\ m * t + u = m * (q + p) + r
    BY <1>1, <1>3, <1>4
  <2> DEFINE k == q + p
  <2> HIDE DEF k
  <2>2. k \in Int /\ m * t + u = m * k + r
    BY <2>1 DEF k
  <2>3. t = k /\ u = r
    BY <1>1, <1>3, <2>2, Unique
  <2> QED
    BY <2>3 DEF k
<1> QED
  BY <1>5

LEMMA ConcatBytes ==
  ASSUME NEW n \in Nat, NEW s \in BytesOf(n), NEW m \in Nat, NEW t \in BytesOf(m)
  PROVE  /\ s \o t \in BytesOf(n + m)
         /\ s \o t = [i \in 1..(n + m) |-> IF i <= n THEN s[i] ELSE t[i - n]]
<1>1. s \in Seq(Byte) /\ t \in Seq(Byte) /\ Len(s) = n /\ Len(t) = m
  BY DEF BytesOf
<1> DEFINE w == s \o t
<1>2. w \in Seq(Byte) /\ Len(w) = n + m
  BY <1>1, ConcatProperties
<1>3. \A i \in 1..(n + m) : w[i] = IF i <= n THEN s[i] ELSE t[i - n]
  BY <1>1, ConcatProperties
<1> HIDE DEF w
<1>4. w \in BytesOf(n + m)
  BY <1>2 DEF BytesOf
<1>5. w = [i \in 1..(n + m) |-> w[i]]
  BY <1>4, BytesOfIs, n + m \in Nat
<1> QED
  BY <1>3, <1>4, <1>5 DEF w

LEMMA BytesOfHalves ==
  ASSUME NEW n \in Nat, NEW a \in Int, NEW b \in 0..(Power[n] - 1)
  PROVE  Bytes(a * Power[n] + b, n + n) = Bytes(a, n) \o Bytes(b, n)
<1> DEFINE H == Power[n]
           x == a * H + b
<1>1. H \in Nat \ {0} /\ b \in Int /\ b \in 0..(H - 1) /\ Base \in Nat \ {0}
  BY PowerPositive, CodecAssumption
<1>2. x = H * a + b /\ x \in Int
  <2> HIDE DEF H
  <2> QED
    BY <1>1
<1>3. Bytes(a, n) \in BytesOf(n) /\ Bytes(b, n) \in BytesOf(n)
  BY <1>1, BytesType
<1>4. Bytes(x, n + n) = [i \in 1..(n + n) |-> (x \div Power[(n + n) - i]) % Base]
  BY DEF Bytes
<1>5. Bytes(a, n) \o Bytes(b, n)
        = [i \in 1..(n + n) |-> IF i <= n THEN Bytes(a, n)[i] ELSE Bytes(b, n)[i - n]]
  BY <1>3, ConcatBytes
<1> HIDE DEF x
<1>6. ASSUME NEW i \in 1..(n + n), i <= n
      PROVE  (x \div Power[(n + n) - i]) % Base = Bytes(a, n)[i]
  <2> DEFINE K == Power[n - i]
  <2>1. n - i \in Nat /\ (n + n) - i = n + (n - i) /\ i \in 1..n
    BY <1>6
  <2>2. Power[(n + n) - i] = H * K /\ K \in Nat \ {0}
    BY <2>1, PowerSum, PowerPositive
  <2>3. Bytes(a, n)[i] = (a \div K) % Base
    BY <2>1 DEF Bytes
  <2> HIDE DEF H, K
  <2>4. x \div (H * K) = (x \div H) \div K
    BY <1>1, <1>2, <2>2, DivisionTwice
  <2>5. (H * a + b) \div H = a + (b \div H) /\ b \div H = 0
    BY <1>1, DivisionShift, SmallRemainder
  <2>6. x \div H = a
    BY <1>2, <2>5
  <2> QED
    BY <2>2, <2>3, <2>4, <2>6
<1>7. ASSUME NEW i \in 1..(n + n), ~(i <= n)
      PROVE  (x \div Power[(n + n) - i]) % Base = Bytes(b, n)[i - n]
  <2> DEFINE k == (n + n) - i
             l == n - (k + 1)
             p == Power[k]
             R == Power[l]
  <2>1. k \in Nat /\ l \in Nat /\ n = (k + 1) + l /\ i - n \in 1..n /\ n - (i - n) = k
    BY <1>7
  <2>2. p \in Nat \ {0} /\ R \in Nat \ {0} /\ Power[k + 1] = Base * p
    BY <2>1, PowerPositive, PowerNext
  <2>3. H = (Base * p) * R
    BY <2>1, <2>2, PowerSum, k + 1 \in Nat
  <2>4. Bytes(b, n)[i - n] = (b \div p) % Base
    BY <2>1 DEF Bytes
  <2> HIDE DEF p, R, H
  <2> DEFINE c == R * a
             d == Base * c
             e == b \div p
  <2>5. c \in Int /\ e \in Int
    BY <1>1, <2>2, Division
  <2> HIDE DEF c
  <2>6. d \in Int
    BY <1>1, <2>5
  <2> HIDE DEF e
  <2>7. x = p * d + b
    <3>1. H * a = Base * p * R * a
      BY <2>3
    <3>2. Base * p * R * a = Base * p * (R * a)
      BY <1>1, <2>2
    <3>3. Base * p * c = p * (Base * c)
      BY <1>1, <2>2, <2>5
    <3> QED
      BY <1>2, <3>1, <3>2, <3>3 DEF c
  <2> HIDE DEF d
  <2>8. x \div p = d + e
    <3>1. (p * d + b) \div p = d + (b \div p)
      BY <1>1, <2>2, <2>6, DivisionShift
    <3> QED
      BY <2>7, <3>1 DEF e
  <2>9. (Base * c + e) % Base = e % Base
    BY <1>1, <2>5, DivisionShift
  <2> QED
    BY <2>4, <2>8, <2>9 DEF p, d, e
<1> HIDE DEF H
<1>8. Bytes(x, n + n) = Bytes(a, n) \o Bytes(b, n)
  BY <1>4, <1>5, <1>6, <1>7
<1> QED
  BY <1>8 DEF x, H

\* The number of two halves and the bytes they are put together from.
LEMMA UnsignedOfHalves ==
  ASSUME NEW n \in Nat, NEW s \in BytesOf(n), NEW t \in BytesOf(n)
  PROVE  Unsigned(s \o t) = Unsigned(s) * Power[n] + Unsigned(t)
<1> DEFINE H == Power[n]
           a == Unsigned(s)
           b == Unsigned(t)
           x == a * H + b
<1>1. a \in 0..(H - 1) /\ b \in 0..(H - 1) /\ H \in Nat \ {0}
  BY UnsignedRange, PowerPositive
<1>2. Bytes(x, n + n) = s \o t
  <2>1. Bytes(a, n) = s /\ Bytes(b, n) = t /\ a \in Int
    BY UnsignedDetermines
  <2> HIDE DEF a, b
  <2>2. Bytes(x, n + n) = Bytes(a, n) \o Bytes(b, n)
    BY <1>1, <2>1, BytesOfHalves
  <2> QED
    BY <2>1, <2>2
<1>3. x \in 0..(H * H - 1)
  <2> HIDE DEF H, a, b
  <2>1. a * H >= 0 /\ a * H \in Int
    BY <1>1
  <2>2. (H - 1 - a) * H >= 0 /\ (H - 1 - a) * H = H * H - H - a * H /\ H * H \in Int
    BY <1>1
  <2> QED
    BY <1>1, <2>1, <2>2
<1>4. Power[n + n] = H * H
  BY PowerSum
<1> HIDE DEF x, H
<1>5. x \in 0..(Power[n + n] - 1)
  BY <1>3, <1>4
<1>6. Unsigned(Bytes(x, n + n)) = x
  BY <1>5, UnsignedOfFit, n + n \in Nat
<1> QED
  BY <1>2, <1>6 DEF x, H

LEMMA ReverseConcat ==
  ASSUME NEW n \in Nat, NEW s \in BytesOf(n), NEW t \in BytesOf(n)
  PROVE  Reverse(s \o t) = Reverse(t) \o Reverse(s)
<1> DEFINE m == n + n
           w == s \o t
           p == Reverse(t)
           q == Reverse(s)
<1>1. w \in BytesOf(m) /\ Len(w) = m /\ m \in Nat
      /\ w = [i \in 1..m |-> IF i <= n THEN s[i] ELSE t[i - n]]
  <2>1. w \in BytesOf(m) /\ w = [i \in 1..m |-> IF i <= n THEN s[i] ELSE t[i - n]]
    BY ConcatBytes
  <2> HIDE DEF w
  <2> QED
    BY <2>1 DEF BytesOf
<1>2. p \in BytesOf(n) /\ q \in BytesOf(n) /\ Len(s) = n /\ Len(t) = n
  BY ReverseBytes DEF BytesOf
<1>3. p = [i \in 1..n |-> t[(n - i) + 1]] /\ q = [i \in 1..n |-> s[(n - i) + 1]]
  BY <1>2 DEF Reverse
<1>4. p \o q = [i \in 1..m |-> IF i <= n THEN p[i] ELSE q[i - n]]
  BY <1>2, ConcatBytes
<1>5. Reverse(w) = [i \in 1..m |-> w[(m - i) + 1]]
  BY <1>1 DEF Reverse
<1> HIDE DEF w, p, q
<1>6. ASSUME NEW i \in 1..m PROVE w[(m - i) + 1] = IF i <= n THEN p[i] ELSE q[i - n]
  <2>1. (m - i) + 1 \in 1..m
    BY <1>1
  <2>2. CASE i <= n
    <3>1. ~((m - i) + 1 <= n) /\ ((m - i) + 1) - n = (n - i) + 1 /\ i \in 1..n
      BY <2>2
    <3>2. w[(m - i) + 1] = t[(n - i) + 1]
      BY <1>1, <2>1, <3>1
    <3> QED
      BY <1>3, <2>2, <3>1, <3>2
  <2>3. CASE ~(i <= n)
    <3>1. (m - i) + 1 <= n /\ (m - i) + 1 = (n - (i - n)) + 1 /\ i - n \in 1..n
      BY <2>3
    <3>2. w[(m - i) + 1] = s[(m - i) + 1]
      BY <1>1, <2>1, <3>1
    <3> QED
      BY <1>3, <2>3, <3>1, <3>2
  <2> QED
    BY <2>2, <2>3
<1> HIDE DEF m
<1> QED
  BY <1>4, <1>5, <1>6 DEF w, p, q

LEMMA EndianIsFound == ASSUME littleEndian \in BOOLEAN PROVE DiffEndian = littleEndian
<1> DEFINE n == IntWidth
           f == 26 % Base
           b == Bytes(f, n)
           r == Reverse(b)
<1>1. Base \in Nat \ {0} /\ f \in 0..(Base - 1) /\ f # 0 /\ n \in Nat /\ n >= 2
  <2>1. Base \in Nat \ {0} /\ f # 0 /\ n \in Nat /\ n >= 2
    BY CodecAssumption
  <2> QED
    BY <2>1, Division
<1>2. b \in BytesOf(n) /\ Len(b) = n
  BY <1>1, BytesType DEF BytesOf
<1>3. b = [i \in 1..n |-> (f \div Power[n - i]) % Base]
  BY DEF Bytes
<1>4. r[1] = b[n]
  <2>1. r = [i \in 1..n |-> b[(n - i) + 1]]
    BY <1>2 DEF Reverse
  <2> HIDE DEF r
  <2> QED
    BY <1>1, <2>1
<1> HIDE DEF f
<1>5. b[n] = f
  <2>1. b[n] = (f \div 1) % Base
    BY <1>1, <1>3, PowerIs, n - n = 0
  <2>2. f \div 1 = f /\ f % Base = f
    BY <1>1, SmallRemainder
  <2> QED
    BY <2>1, <2>2
<1>6. b[1] # f
  <2> DEFINE p == Power[n - 1]
  <2>1. b[1] = (f \div p) % Base
    BY <1>1, <1>3
  <2>2. p \in Nat \ {0} /\ p >= Base
    <3>1. p = Base * Power[n - 2] /\ Power[n - 2] \in Nat \ {0}
      BY <1>1, PowerNext, PowerPositive, n - 2 \in Nat, (n - 2) + 1 = n - 1
    <3> QED
      BY <1>1, <3>1, TimesGrows, PowerPositive, n - 1 \in Nat
  <2> HIDE DEF p
  <2>3. f \in 0..(p - 1)
    BY <1>1, <2>2
  <2>4. f \div p = 0
    BY <2>2, <2>3, SmallRemainder
  <2>5. 0 % Base = 0
    BY <1>1, SmallRemainder, 0 \in 0..(Base - 1)
  <2> QED
    BY <1>1, <2>1, <2>4, <2>5
<1>7. DiffEndian = ((IF littleEndian THEN r ELSE b)[1] = f)
  BY DEF DiffEndian, Memory, f
<1> HIDE DEF b, r
<1> QED
  BY <1>4, <1>5, <1>6, <1>7

LEMMA HtonllWrites ==
  ASSUME littleEndian \in BOOLEAN, NEW v \in 0..(Power[LongWidth] - 1)
  PROVE  Memory(Htonll(v), LongWidth) = Bytes(v, LongWidth)
<1> DEFINE n == IntWidth
           H == Power[n]
           hi == v \div H
           lo == v % H
<1>1. n \in Nat /\ LongWidth = n + n /\ H \in Nat \ {0} /\ v \in Int
  BY Widths, PowerPositive
<1>2. hi \in Int /\ lo \in 0..(H - 1) /\ lo \in Int /\ v = hi * H + lo
  <2>1. hi \in Int /\ lo \in 0..(H - 1) /\ v = H * hi + lo
    <3> HIDE DEF H
    <3> QED
      BY <1>1, Division
  <2> HIDE DEF H, hi, lo
  <2> QED
    BY <1>1, <2>1
<1>3. CASE littleEndian
  <2> DEFINE a == Hton(lo, n)
             c == Hton(hi, n)
             s == Bytes(a, n)
             t == Bytes(c, n)
  <2>1. Htonll(v) = a * H + c
    BY <1>3, EndianIsFound DEF Htonll
  <2>2. /\ a \in 0..(H - 1) /\ c \in 0..(H - 1) /\ a \in Int /\ c \in Int
        /\ Reverse(s) = Bytes(lo, n) /\ Reverse(t) = Bytes(hi, n)
    <3>1. /\ a \in 0..(H - 1) /\ Memory(a, n) = Bytes(lo, n)
          /\ c \in 0..(H - 1) /\ Memory(c, n) = Bytes(hi, n)
      <4> HIDE DEF hi, lo
      <4> QED
        BY <1>1, <1>2, HtonWrites
    <3>2. a \in Int /\ c \in Int
      <4> HIDE DEF a, c, H
      <4> QED
        BY <1>1, <3>1
    <3> HIDE DEF a, c, H, hi, lo
    <3> QED
      BY <1>3, <3>1, <3>2 DEF Memory
  <2>3. s \in BytesOf(n) /\ t \in BytesOf(n)
    BY <1>1, <2>2, BytesType
  <2>4. Memory(a * H + c, n + n) = Reverse(Bytes(a * H + c, n + n))
    BY <1>3 DEF Memory
  <2> HIDE DEF a, c, hi, lo
  <2>5. Bytes(a * H + c, n + n) = s \o t
    BY <1>1, <2>2, BytesOfHalves
  <2>6. Bytes(hi * H + lo, n + n) = Bytes(hi, n) \o Bytes(lo, n)
    BY <1>1, <1>2, BytesOfHalves
  <2> HIDE DEF s, t
  <2>7. Reverse(s \o t) = Reverse(t) \o Reverse(s)
    BY <1>1, <2>3, ReverseConcat
  <2> QED
    BY <1>1, <1>2, <2>1, <2>2, <2>4, <2>5, <2>6, <2>7
<1>4. CASE ~littleEndian
  BY <1>4, EndianIsFound DEF Htonll, Memory
<1> QED
  BY <1>3, <1>4

LEMMA NtohllReads ==
  ASSUME littleEndian \in BOOLEAN, NEW b \in BytesOf(LongWidth)
  PROVE  Ntohll(InMemory(b)) = Unsigned(b)
<1> DEFINE n == IntWidth
           H == Power[n]
           s == [i \in 1..n |-> b[i]]
           t == [i \in 1..n |-> b[n + i]]
<1>1. n \in Nat /\ LongWidth = n + n /\ H \in Nat \ {0}
  BY Widths, PowerPositive
<1>2. s \in BytesOf(n) /\ t \in BytesOf(n) /\ s \o t = b
  <2>1. b \in [1..(n + n) -> Byte]
    BY <1>1, BytesOfIs, n + n \in Nat
  <2>2. s \in [1..n -> Byte] /\ t \in [1..n -> Byte]
    BY <1>1, <2>1
  <2>3. s \in BytesOf(n) /\ t \in BytesOf(n)
    BY <1>1, <2>2, BytesOfIs
  <2>4. s \o t = [i \in 1..(n + n) |-> IF i <= n THEN s[i] ELSE t[i - n]]
    BY <1>1, <2>3, ConcatBytes
  <2>5. ASSUME NEW i \in 1..(n + n) PROVE b[i] = IF i <= n THEN s[i] ELSE t[i - n]
    <3>1. CASE i <= n
      BY <1>1, <3>1
    <3>2. CASE ~(i <= n)
      <4>1. i - n \in 1..n /\ n + (i - n) = i
        BY <1>1, <3>2
      <4> QED
        BY <3>2, <4>1
    <3> QED
      BY <3>1, <3>2
  <2>6. b = [i \in 1..(n + n) |-> b[i]]
    BY <2>1
  <2> HIDE DEF s, t
  <2> QED
    BY <2>3, <2>4, <2>5, <2>6
<1> HIDE DEF s, t
<1>3. CASE littleEndian
  <2> DEFINE p == Reverse(s)
             q == Reverse(t)
             lo == Unsigned(p)
             hi == Unsigned(q)
             x == hi * H + lo
  <2>1. p \in BytesOf(n) /\ q \in BytesOf(n) /\ Reverse(p) = s /\ Reverse(q) = t
    BY <1>1, <1>2, ReverseBytes
  <2>2. /\ lo \in 0..(H - 1) /\ lo \in Int /\ Bytes(lo, n) = p
        /\ hi \in 0..(H - 1) /\ hi \in Int /\ Bytes(hi, n) = q
    BY <1>1, <2>1, UnsignedDetermines, UnsignedRange
  <2>3. InMemory(b) = x
    <3>1. Reverse(b) = q \o p
      BY <1>1, <1>2, ReverseConcat
    <3>2. Unsigned(q \o p) = x
      BY <1>1, <2>1, UnsignedOfHalves
    <3> QED
      BY <1>3, <3>1, <3>2 DEF InMemory
  <2>4. Ntoh(lo, n) = Unsigned(s) /\ Ntoh(hi, n) = Unsigned(t)
    BY <1>3, <2>1, <2>2 DEF Ntoh, Memory
  <2>5. x \div H = hi /\ x % H = lo
    <3> HIDE DEF H, lo, hi
    <3>1. (H * hi + lo) \div H = hi + (lo \div H) /\ (H * hi + lo) % H = lo % H
      BY <1>1, <2>2, DivisionShift
    <3>2. lo \div H = 0 /\ lo % H = lo
      BY <1>1, <2>2, SmallRemainder
    <3>3. x = H * hi + lo
      BY <1>1, <2>2
    <3> HIDE DEF x
    <3> QED
      BY <2>2, <3>1, <3>2, <3>3
  <2> HIDE DEF x, lo, hi
  <2>6. Ntohll(x) = Unsigned(s) * H + Unsigned(t)
    BY <1>3, <2>4, <2>5, EndianIsFound DEF Ntohll
  <2>7. Unsigned(s \o t) = Unsigned(s) * H + Unsigned(t)
    BY <1>1, <1>2, UnsignedOfHalves
  <2> QED
    BY <1>2, <2>3, <2>6, <2>7
<1>4. CASE ~littleEndian
  BY <1>4, EndianIsFound DEF Ntohll, InMemory
<1> QED
  BY <1>3, <1>4

\* A long and the bits of a double: what set writes, and what get makes of it.
LEMMA SetsLong ==
  ASSUME littleEndian \in BOOLEAN, NEW v \in 0..(Power[LongWidth] - 1)
  PROVE  SetLong(v) = Bytes(v, LongWidth) /\ SetDouble(v) = Bytes(v, LongWidth)
<1>1. v % Power[LongWidth] = v
  BY SmallRemainder, PowerPositive, Widths
<1> QED
  BY <1>1, HtonllWrites DEF SetLong, SetDouble

LEMMA DoubleArrives ==
  ASSUME littleEndian \in BOOLEAN, NEW v \in Int
  PROVE  SetDouble(GetDouble(Bytes(v, LongWidth))) = Bytes(v, LongWidth)
<1> DEFINE b == Bytes(v, LongWidth)
<1>1. b \in BytesOf(LongWidth)
  BY BytesType, Widths
<1> HIDE DEF b
<1>2. GetDouble(b) = Unsigned(b) /\ Unsigned(b) \in 0..(Power[LongWidth] - 1)
  BY <1>1, NtohllReads, UnsignedRange, Widths DEF GetDouble
<1>3. SetDouble(Unsigned(b)) = b
  BY <1>1, <1>2, SetsLong, UnsignedDetermines, Widths
<1> QED
  BY <1>2, <1>3 DEF b
-----------------------------------------------------------------------------
Diggable == Coord \X Height \X Coord

\* What is zeroed is where the blocks that were dug belong, in the one world.
DugInv == dug \subseteq Diggable /\ zeroed = {<<DigWorld, Place(b)>> : b \in dug}

\* x % 16 of C++, made positive, is the remainder of the division that floor
\* stands for: chunk and offset together are the coordinate.
LEMMA OffsetIsRemainder ==
  ASSUME NEW n \in Nat \ {0}, NEW x \in Int
  PROVE  Offset(x, n) = x % n
<1>1. CASE x >= 0
  <2>1. x % n >= 0 /\ x % n \in Int
    BY Division
  <2> QED
    BY <1>1, <2>1 DEF Offset, Remainder
<1>2. CASE x < 0
  <2> DEFINE q == (-x) \div n
             r == (-x) % n
  <2>1. q \in Int /\ r \in 0..(n - 1) /\ -x = n * q + r
    BY -x \in Int, Division
  <2>2. Remainder(x, n) = -r
    BY <1>2 DEF Remainder
  <2> HIDE DEF q, r
  <2>3. CASE r = 0
    <3>1. n * (-q) = -(n * q)
      BY <2>1
    <3>2. x = n * (-q) + 0
      BY <2>1, <2>3, <3>1
    <3>3. x % n = 0
      BY <2>1, <3>2, -q \in Int, 0 \in 0..(n - 1), DivisionUnique
    <3> QED
      BY <2>2, <2>3, <3>3 DEF Offset
  <2>4. CASE r > 0
    <3> DEFINE p == -q - 1
               s == n - r
    <3>1. n * p = -(n * q) - n
      BY <2>1
    <3>2. p \in Int /\ s \in 0..(n - 1)
      BY <2>1, <2>4
    <3>3. x = n * p + s
      BY <2>1, <3>1
    <3> HIDE DEF p, s
    <3>4. x % n = s
      BY <3>2, <3>3, DivisionUnique
    <3>5. -r < 0
      BY <2>1, <2>4
    <3> QED
      BY <2>1, <2>2, <3>4, <3>5 DEF Offset, s
  <2> QED
    BY <2>1, <2>3, <2>4
<1> QED
  BY <1>1, <1>2

LEMMA OffsetInChunk ==
  ASSUME NEW n \in Nat \ {0}, NEW x \in Int
  PROVE  Offset(x, n) \in 0..(n - 1) /\ x = n * (x \div n) + Offset(x, n)
  BY Division, OffsetIsRemainder
-----------------------------------------------------------------------------
\* A place in the array of a chunk, as setBlockType computes it: the bounds and
\* the height of a block with coordinates inside the chunk.
Inside(x, y, z) == x \in 0..(SizeX - 1) /\ y \in 0..(SizeY - 1) /\ z \in 0..(SizeZ - 1)

LEMMA IndexOfColumn ==
  ASSUME NEW x \in Int, NEW y \in Int, NEW z \in Int
  PROVE  /\ SizeZ * x + z \in Int
         /\ Index(x, y, z) = SizeY * (SizeZ * x + z) + y
<1>1. SizeX \in Nat \ {0} /\ SizeY \in Nat \ {0} /\ SizeZ \in Nat \ {0}
  BY BlocksAssumption
<1>2. x * (SizeZ * SizeY) = SizeY * (SizeZ * x)
  BY <1>1
<1>3. SizeY * (SizeZ * x + z) = SizeY * (SizeZ * x) + SizeY * z
  BY <1>1
<1>4. SizeY * z = z * SizeY
  BY <1>1
<1> QED
  BY <1>1, <1>2, <1>3, <1>4 DEF Index

LEMMA IndexIsInjective ==
  ASSUME NEW x \in Int, NEW y \in Int, NEW z \in Int, Inside(x, y, z),
         NEW u \in Int, NEW v \in Int, NEW w \in Int, Inside(u, v, w),
         Index(x, y, z) = Index(u, v, w)
  PROVE  x = u /\ y = v /\ z = w
<1> DEFINE a == SizeZ * x + z
           b == SizeZ * u + w
<1>1. a \in Int /\ b \in Int /\ SizeY * a + y = SizeY * b + v
  BY IndexOfColumn
<1>2. SizeY \in Nat \ {0} /\ y \in 0..(SizeY - 1) /\ v \in 0..(SizeY - 1)
  BY BlocksAssumption DEF Inside
<1>3. SizeZ \in Nat \ {0} /\ z \in 0..(SizeZ - 1) /\ w \in 0..(SizeZ - 1)
  BY BlocksAssumption DEF Inside
<1>4. a = b /\ y = v
  <2> HIDE DEF a, b
  <2> QED
    BY <1>1, <1>2, Unique
<1>5. x = u /\ z = w
  BY <1>3, <1>4, Unique
<1> QED
  BY <1>4, <1>5

LEMMA IndexInArray ==
  ASSUME NEW x \in Int, NEW y \in Int, NEW z \in Int, Inside(x, y, z)
  PROVE  /\ Index(x, y, z) \in 0..(SizeX * SizeY * SizeZ - 1)
         /\ Index(x, y, z) % SizeY = y
<1> DEFINE a == SizeZ * x + z
<1>1. SizeX \in Nat \ {0} /\ SizeY \in Nat \ {0} /\ SizeZ \in Nat \ {0}
  BY BlocksAssumption
<1>2. a \in Int /\ Index(x, y, z) = SizeY * a + y
  BY IndexOfColumn
<1>3. a >= 0 /\ a <= SizeZ * SizeX - 1
  <2>1. SizeZ * x >= 0 /\ SizeZ * x \in Int
    BY <1>1 DEF Inside
  <2>2. SizeZ * (SizeX - 1 - x) >= 0
    BY <1>1 DEF Inside
  <2>3. SizeZ * (SizeX - 1 - x) = SizeZ * SizeX - SizeZ - SizeZ * x
    BY <1>1
  <2>4. SizeZ * SizeX \in Int
    BY <1>1
  <2> QED
    BY <1>1, <2>1, <2>2, <2>3, <2>4 DEF Inside
<1>4. Index(x, y, z) >= 0 /\ Index(x, y, z) <= SizeX * SizeY * SizeZ - 1
  <2> HIDE DEF a
  <2>1. SizeY * a >= 0 /\ SizeY * a \in Int
    BY <1>1, <1>2, <1>3
  <2> DEFINE c == SizeZ * SizeX
  <2>2. c \in Int /\ c - 1 - a >= 0
    BY <1>1, <1>2, <1>3
  <2>3. SizeX * SizeY * SizeZ = SizeY * c
    BY <1>1
  <2> HIDE DEF c
  <2>4. SizeY * (c - 1 - a) >= 0
    BY <1>1, <1>2, <2>2
  <2>5. SizeY * (c - 1 - a) = SizeY * c - SizeY - SizeY * a
    BY <1>1, <1>2, <2>2
  <2>6. SizeY * c \in Int
    BY <1>1, <2>2
  <2> QED
    BY <1>1, <1>2, <2>1, <2>3, <2>4, <2>5, <2>6 DEF Inside
<1>5. Index(x, y, z) % SizeY = y
  <2> HIDE DEF a
  <2> DEFINE i == Index(x, y, z)
  <2>1. i \in Int /\ y \in 0..(SizeY - 1) /\ i = SizeY * a + y
    BY <1>1, <1>2 DEF Inside
  <2> HIDE DEF i
  <2>2. i % SizeY = y
    BY <1>1, <1>2, <2>1, DivisionUnique
  <2> QED
    BY <2>2 DEF i
<1>6. Index(x, y, z) \in Int
  BY <1>1, <1>2
<1>7. SizeX * SizeY * SizeZ \in Int
  BY <1>1
<1> QED
  BY <1>4, <1>5, <1>6, <1>7

-----------------------------------------------------------------------------
\* Where a block belongs: of blocks that exist no two have the same place.
Exists(b) == b \in Int \X (0..(SizeY - 1)) \X Int

LEMMA PlaceInside ==
  ASSUME NEW b, Exists(b)
  PROVE  Inside(Offset(b[1], SizeX), b[2], Offset(b[3], SizeZ))
<1>1. b[1] \in Int /\ b[2] \in 0..(SizeY - 1) /\ b[3] \in Int
  BY DEF Exists
<1>2. SizeX \in Nat \ {0} /\ SizeZ \in Nat \ {0}
  BY BlocksAssumption
<1> QED
  BY <1>1, <1>2, OffsetInChunk DEF Inside

LEMMA PlaceIsInjective ==
  ASSUME NEW b, Exists(b), NEW d, Exists(d), Place(b) = Place(d)
  PROVE  b = d
<1> DEFINE off(e) == Index(Offset(e[1], SizeX), e[2], Offset(e[3], SizeZ))
<1>1. /\ b[1] \in Int /\ b[2] \in Int /\ b[3] \in Int /\ b = <<b[1], b[2], b[3]>>
      /\ d[1] \in Int /\ d[2] \in Int /\ d[3] \in Int /\ d = <<d[1], d[2], d[3]>>
  BY DEF Exists
<1>2. SizeX \in Nat \ {0} /\ SizeZ \in Nat \ {0}
  BY BlocksAssumption
<1>3. /\ b[1] \div SizeX = d[1] \div SizeX
      /\ b[3] \div SizeZ = d[3] \div SizeZ
      /\ off(b) = off(d)
  BY DEF Place, ChunkOf
<1>4. /\ Offset(b[1], SizeX) \in Int /\ Offset(b[3], SizeZ) \in Int
      /\ Offset(d[1], SizeX) \in Int /\ Offset(d[3], SizeZ) \in Int
  BY <1>1, <1>2, OffsetInChunk
<1>5. /\ Offset(b[1], SizeX) = Offset(d[1], SizeX)
      /\ b[2] = d[2]
      /\ Offset(b[3], SizeZ) = Offset(d[3], SizeZ)
  BY <1>1, <1>3, <1>4, PlaceInside, IndexIsInjective
<1>6. b[1] = d[1]
  <2>1. b[1] = SizeX * (b[1] \div SizeX) + Offset(b[1], SizeX)
    BY <1>1, <1>2, OffsetInChunk
  <2>2. d[1] = SizeX * (d[1] \div SizeX) + Offset(d[1], SizeX)
    BY <1>1, <1>2, OffsetInChunk
  <2> QED
    BY <1>3, <1>5, <2>1, <2>2
<1>7. b[3] = d[3]
  <2>1. b[3] = SizeZ * (b[3] \div SizeZ) + Offset(b[3], SizeZ)
    BY <1>1, <1>2, OffsetInChunk
  <2>2. d[3] = SizeZ * (d[3] \div SizeZ) + Offset(d[3], SizeZ)
    BY <1>1, <1>2, OffsetInChunk
  <2> QED
    BY <1>3, <1>5, <2>1, <2>2
<1> QED
  BY <1>1, <1>5, <1>6, <1>7

\* Heights are those of an mcByte, and those below zero the premise excludes.
LEMMA DugExists ==
  ASSUME dug \subseteq Diggable, \A b \in dug : b[2] >= 0, NEW b \in dug
  PROVE  Exists(b)
<1>1. b[1] \in Int /\ b[2] \in -SizeY..(SizeY - 1) /\ b[3] \in Int /\ b = <<b[1], b[2], b[3]>>
  <2>1. b \in Coord \X Height \X Coord
    BY DEF Diggable
  <2>2. b[1] \in Coord /\ b[2] \in Height /\ b[3] \in Coord /\ b = <<b[1], b[2], b[3]>>
    BY <2>1
  <2> QED
    BY <2>2, BlocksAssumption
<1>2. b[2] \in 0..(SizeY - 1)
  BY <1>1, BlocksAssumption
<1> QED
  BY <1>1, <1>2 DEF Exists

-----------------------------------------------------------------------------
LEMMA InitInvariant == BlockInit => DugInv
  BY DEF BlockInit, DugInv

LEMMA NextInvariant == DugInv /\ [BlockNext]_blockVars => DugInv'
<1> SUFFICES ASSUME DugInv, [BlockNext]_blockVars PROVE DugInv'
  OBVIOUS
<1>1. CASE BlockNext
  <2>1. PICK b \in Diggable : DigBlock(b)
    BY <1>1 DEF BlockNext, Diggable
  <2>2. /\ zeroed' = {<<DigWorld, Place(d)>> : d \in dug} \cup {<<DigWorld, Place(b)>>}
        /\ dug' = dug \cup {b}
    BY <2>1 DEF DigBlock, DugInv
  <2>3. zeroed' = {<<DigWorld, Place(d)>> : d \in dug'}
    BY <2>2
  <2>4. dug' \subseteq Diggable
    BY <2>2 DEF DugInv
  <2>5. Diggable' = Diggable /\ {<<DigWorld, Place(d)>> : d \in dug'} = {<<DigWorld, Place(d)>> : d \in dug}'
    BY DEF Diggable, DigWorld, Place, ChunkOf, Index, Offset, Remainder
  <2> QED
    BY <2>3, <2>4, <2>5 DEF DugInv
<1>2. CASE UNCHANGED blockVars
  BY <1>2 DEF DugInv, blockVars, Diggable, DigWorld, Place, ChunkOf, Index, Offset, Remainder
<1> QED
  BY <1>1, <1>2

\* The inductive invariant of the blocks that were dug.
THEOREM DugInvariant == BlockSpec => []DugInv
<1>1. BlockInit => DugInv
  BY InitInvariant
<1>2. DugInv /\ [BlockNext]_blockVars => DugInv'
  BY NextInvariant
<1> QED
  BY <1>1, <1>2, PTL DEF BlockSpec

\* The element of a block is in its column at its height.
LEMMA HeightOfPlace ==
  ASSUME NEW b, Exists(b)
  PROVE  Place(b)[2] % SizeY = b[2]
<1>1. Inside(Offset(b[1], SizeX), b[2], Offset(b[3], SizeZ))
  BY PlaceInside
<1>2. Offset(b[1], SizeX) \in Int /\ b[2] \in Int /\ Offset(b[3], SizeZ) \in Int
  BY <1>1 DEF Inside
<1>3. Index(Offset(b[1], SizeX), b[2], Offset(b[3], SizeZ)) % SizeY = b[2]
  BY <1>1, <1>2, IndexInArray
<1> QED
  BY <1>3 DEF Place

LEMMA BlockExists ==
  ASSUME NEW b \in Block
  PROVE  Exists(b)
<1>1. b[1] \in Int /\ b[2] \in -SizeY..(SizeY - 1) /\ b[2] \in Nat /\ b[3] \in Int
      /\ b = <<b[1], b[2], b[3]>>
  <2>1. b[1] \in Coord /\ b[2] \in Height \cap Nat /\ b[3] \in Coord /\ b = <<b[1], b[2], b[3]>>
    BY DEF Block
  <2> QED
    BY <2>1, BlocksAssumption
<1>2. b[2] \in 0..(SizeY - 1)
  BY <1>1, BlocksAssumption
<1> QED
  BY <1>1, <1>2 DEF Exists

\* Server::digBlock and Chunk: with blocks at heights the world has, on either
\* side of zero, digging changes the block that was dug and no other.
THEOREM DugBlocksOnly == BlockSpec => []DugIsStored
<1>1. DugInv => DugIsStored
  <2> SUFFICES ASSUME DugInv, \A d \in dug : d[2] >= 0, NEW b \in Block
               PROVE TypeAt(DigWorld, Place(b)) = IF b \in dug THEN 0 ELSE Terrain(b[2])
    BY DEF DugIsStored
  <2>1. Exists(b)
    BY BlockExists
  <2>2. <<DigWorld, Place(b)>> \in zeroed <=> b \in dug
    <3>1. ASSUME NEW d \in dug, Place(d) = Place(b) PROVE d = b
      <4>1. Exists(d)
        BY DugExists DEF DugInv
      <4> QED
        BY <2>1, <3>1, <4>1, PlaceIsInjective
    <3> QED
      BY <3>1 DEF DugInv
  <2> QED
    BY <2>1, <2>2, HeightOfPlace DEF TypeAt
<1> QED
  BY <1>1, DugInvariant, PTL

\* Chunk::setBlockType: with blocks at heights the world has, what is written
\* is an element of the chunk's array.
THEOREM WritesInsideArray == BlockSpec => []InsideArray
<1>1. DugInv => InsideArray
  <2> SUFFICES ASSUME DugInv, \A d \in dug : d[2] >= 0, NEW b \in dug
               PROVE Place(b)[2] \in 0..(SizeX * SizeY * SizeZ - 1)
    BY DEF InsideArray, DugInv
  <2>1. Exists(b)
    BY DugExists DEF DugInv
  <2>2. Inside(Offset(b[1], SizeX), b[2], Offset(b[3], SizeZ))
    BY <2>1, PlaceInside
  <2>3. Offset(b[1], SizeX) \in Int /\ b[2] \in Int /\ Offset(b[3], SizeZ) \in Int
    BY <2>2 DEF Inside
  <2>4. Index(Offset(b[1], SizeX), b[2], Offset(b[3], SizeZ)) \in 0..(SizeX * SizeY * SizeZ - 1)
    BY <2>2, <2>3, IndexInArray
  <2> QED
    BY <2>4 DEF Place
<1> QED
  BY <1>1, DugInvariant, PTL

-----------------------------------------------------------------------------
\* The blocks of Relay are those of Blocks, and what is on the wire is what was
\* meant; the text only if its length fits.
RelayIInv ==
  /\ DugInv
  /\ littleEndian \in BOOLEAN
  /\ NumbersArrive /\ TextParses

\* Numbers that have a byte, and a clock in a long.
LEMMA SmallNumbers ==
  /\ \A n \in Nat \ {0} : 0 \in OfWidth(n)
  /\ {1, -1} \subseteq OfWidth(1)
<1>1. ASSUME NEW n \in Nat \ {0} PROVE 0 \in OfWidth(n)
  <2> DEFINE h == Power[n] \div 2
  <2>1. h \in Nat \ {0}
    BY HalfOfPower
  <2> HIDE DEF h
  <2>2. 0 \in (-h)..(h - 1)
    BY <2>1
  <2> QED
    BY <2>2 DEF OfWidth, h
<1>2. {1, -1} \subseteq OfWidth(1)
  <2> DEFINE h == Power[1] \div 2
  <2>1. Power[1] = Base * Power[0] /\ Power[0] = 1
    BY PowerIs, 1 \in Nat \ {0}, 1 - 1 = 0
  <2>2. h = Base \div 2 /\ h \in Nat /\ h >= 2
    BY <2>1, CodecAssumption
  <2> HIDE DEF h
  <2>3. {1, -1} \subseteq (-h)..(h - 1)
    BY <2>2
  <2> QED
    BY <2>3 DEF OfWidth, h
<1> QED
  BY <1>1, <1>2

LEMMA ClockFits ==
  ASSUME NEW v \in 0..(Power[IntWidth] - 1)
  PROVE  v \in 0..(Power[LongWidth] - 1) /\ v \in OfWidth(LongWidth)
<1> DEFINE H == Power[IntWidth]
           h == H \div 2
           all == Power[LongWidth]
<1>1. IntWidth \in Nat \ {0}
  BY CodecAssumption
<1>2. H = 2 * h /\ h \in Nat \ {0} /\ v \in 0..(H - 1)
  BY <1>1, HalfOfPower
<1>3. all = H * H
  BY PowerSum, Widths
<1> HIDE DEF H, h, all
<1>4. all = 2 * (h * H) /\ h * H \in Int /\ h * H >= H
  <2>1. (2 * h) * H = 2 * (h * H)
    BY <1>2
  <2>2. h * H = H * h /\ H \in Nat \ {0}
    BY <1>2
  <2>3. H * h >= H /\ H * h \in Int
    BY <1>2, <2>2, TimesGrows
  <2> QED
    BY <1>2, <1>3, <2>1, <2>2, <2>3
<1> DEFINE k == h * H
<1> HIDE DEF k
<1>5. all = 2 * k /\ k \in Int /\ k >= H
  BY <1>4 DEF k
<1>6. all \div 2 = k
  BY <1>5
<1>7. v \in 0..(all - 1) /\ v \in (-k)..(k - 1)
  BY <1>2, <1>5
<1> QED
  BY <1>6, <1>7 DEF OfWidth, all

\* The numbers that are kept and written again.
LEMMA IntsArrive ==
  ASSUME NEW v \in OfWidth(IntWidth)
  PROVE  /\ v \in Int
         /\ GetInt(Sent(v, IntWidth)) = v
         /\ SetInt(v) = Bytes(v, IntWidth) /\ Signed(Bytes(v, IntWidth)) = v
<1>1. IntWidth \in Nat \ {0}
  BY CodecAssumption
<1>2. v \in Int /\ Signed(Bytes(v, IntWidth)) = v
  BY <1>1, SignedOfBytes
<1> QED
  BY <1>1, <1>2, BytesType, GetsSigned, SetsBytes DEF Sent

LEMMA BytesArrive ==
  ASSUME NEW v \in OfWidth(1)
  PROVE  /\ v \in Int
         /\ GetByte(Sent(v, 1)) = v
         /\ SetByte(v) = Bytes(v, 1) /\ Signed(Bytes(v, 1)) = v
<1>1. v \in Int /\ Signed(Bytes(v, 1)) = v
  BY SignedOfBytes, 1 \in Nat \ {0}
<1> QED
  BY <1>1, SetsBytes DEF Sent, GetByte

-----------------------------------------------------------------------------
\* The packets, one by one.
LEMMA KeepAliveArrives ==
  ASSUME RelayIInv, NEW id \in Ids, KeepAlive(id)
  PROVE  NumbersArrive' /\ TextParses'
<1> DEFINE b == Bytes(id, IntWidth)
<1>1. id \in OfWidth(IntWidth)
  BY RelayAssumption
<1>2. Signed(b) = id /\ SetInt(GetInt(Sent(id, IntWidth))) = b
  BY <1>1, IntsArrive
<1>3. kind' = "keepAlive" /\ written' = <<b>> /\ meant' = <<id>>
  BY <1>2 DEF KeepAlive, Write
<1> HIDE DEF b
<1>4. [i \in DOMAIN <<b>> |-> Signed(<<b>>[i])] = <<id>>
  BY <1>2
<1> QED
  BY <1>3, <1>4 DEF NumbersArrive, TextParses, Read

LEMMA TimeArrives ==
  ASSUME RelayIInv, NEW time \in Times, TimeUpdate(time)
  PROVE  NumbersArrive' /\ TextParses'
<1> DEFINE b == Bytes(time, LongWidth)
<1>1. time \in 0..(Power[IntWidth] - 1)
  BY RelayAssumption
<1>2. time \in 0..(Power[LongWidth] - 1) /\ time \in OfWidth(LongWidth)
  BY <1>1, ClockFits
<1>3. LongWidth \in Nat \ {0}
  BY CodecAssumption DEF LongWidth
<1>4. Signed(b) = time /\ SetLong(time) = b
  BY <1>2, <1>3, SignedOfBytes, SetsLong DEF RelayIInv
<1>5. kind' = "time" /\ written' = <<b>> /\ meant' = <<time>>
  BY <1>4 DEF TimeUpdate, Write
<1> HIDE DEF b
<1>6. [i \in DOMAIN <<b>> |-> Signed(<<b>>[i])] = <<time>>
  BY <1>4
<1> QED
  BY <1>5, <1>6 DEF NumbersArrive, TextParses, Read

LEMMA PositionArrives ==
  ASSUME RelayIInv, NEW x \in Doubles, NEW z \in Doubles, PlayerPosition(x, z)
  PROVE  NumbersArrive' /\ TextParses'
<1> DEFINE a == Bytes(x, LongWidth)
           b == Bytes(z, LongWidth)
           c == Bytes(0, IntWidth)
           d == Bytes(1, 1)
<1>1. LongWidth \in Nat \ {0} /\ IntWidth \in Nat \ {0}
  BY CodecAssumption DEF LongWidth
<1>2. x \in OfWidth(LongWidth) /\ z \in OfWidth(LongWidth)
  BY RelayAssumption
<1>3. x \in Int /\ Signed(a) = x /\ z \in Int /\ Signed(b) = z
  BY <1>1, <1>2, SignedOfBytes
<1>4. Signed(c) = 0 /\ Signed(d) = 1
  BY <1>1, SmallNumbers, SignedOfBytes, 1 \in Nat \ {0}
<1>5. /\ SetDouble(GetDouble(Sent(x, LongWidth))) = a
      /\ SetDouble(GetDouble(Sent(z, LongWidth))) = b
      /\ SetFloat(0) = c /\ SetByte(1) = d
  BY <1>3, DoubleArrives, SetsBytes DEF RelayIInv, Sent
<1>6. kind' = "position" /\ written' = <<a, b, c, d>> /\ meant' = <<x, z, 0, 1>>
  BY <1>5 DEF PlayerPosition, Write
<1> HIDE DEF a, b, c, d
<1> DEFINE w == <<a, b, c, d>>
<1>7. [i \in DOMAIN w |-> Signed(w[i])] = <<x, z, 0, 1>>
  BY <1>3, <1>4
<1> QED
  BY <1>6, <1>7 DEF NumbersArrive, TextParses, Read

\* A text of so many units.
LEMMA TextArrives ==
  ASSUME NEW k \in {"chat", "kick"}, NEW units \in Nat,
         Write(k, <<SetShort(units)>>, <<units>>)
  PROVE  NumbersArrive' /\ TextParses'
<1> DEFINE b == Bytes(units, ShortWidth)
<1>1. kind' = k /\ written' = <<b>> /\ meant' = <<units>>
  BY SetsBytes DEF Write
<1>2. ASSUME units <= MaxShort PROVE Signed(b) = units
  <2> DEFINE h == Power[ShortWidth] \div 2
  <2>1. ShortWidth \in Nat \ {0}
    BY CodecAssumption
  <2>2. h \in Nat \ {0} /\ MaxShort = h - 1
    BY <2>1, HalfOfPower DEF MaxShort
  <2> HIDE DEF h
  <2>3. units \in (-h)..(h - 1)
    BY <1>2, <2>2
  <2>4. units \in OfWidth(ShortWidth)
    BY <2>3 DEF OfWidth, h
  <2> QED
    BY <2>1, <2>4, SignedOfBytes
<1> HIDE DEF b
<1>3. ASSUME units <= MaxShort
      PROVE  [i \in DOMAIN <<b>> |-> Signed(<<b>>[i])] = <<units>>
  BY <1>2, <1>3
<1>4. NumbersArrive'
  BY <1>1 DEF NumbersArrive
<1>5. TextParses'
  BY <1>1, <1>3 DEF TextParses, Read, MaxShort
<1> QED
  BY <1>4, <1>5

LEMMA ChatArrives ==
  ASSUME NEW text \in Texts, Chat(text)
  PROVE  NumbersArrive' /\ TextParses'
<1> DEFINE msg == GetString(Sent(text.units, ShortWidth), text)
           line == [f \in {"units", "bytes"} |-> Name[f] + msg[f] + 3]
<1>1. text \in [units : Nat, bytes : Nat] /\ Name \in [units : Nat, bytes : Nat]
  BY RelayAssumption
<1>2. msg \in [units : Nat, bytes : Nat]
  BY <1>1 DEF GetString, EmptyText
<1>3. SendText("chat", line)
  BY DEF Chat
<1> HIDE DEF msg
<1>4. line.units = Name["units"] + msg["units"] + 3 /\ line.units \in Nat
  BY <1>1, <1>2
<1> HIDE DEF line
<1>5. PICK units \in Nat : units = line.units
  BY <1>4
<1>6. Write("chat", <<SetShort(units)>>, <<units>>)
  BY <1>3, <1>5 DEF SendText, SetString, Length
<1> QED
  BY <1>6, TextArrives

LEMMA PingArrives ==
  ASSUME NEW text \in Texts, NEW digits \in Digits, Ping(text, digits)
  PROVE  NumbersArrive' /\ TextParses'
<1> DEFINE n == text.units + digits + 2
<1>1. text \in [units : Nat, bytes : Nat] /\ digits \in Nat
  BY RelayAssumption
<1>2. n \in Nat
  BY <1>1
<1>3. Write("kick", <<SetShort(n)>>, <<n>>)
  BY DEF Ping, SendText, SetString, Length
<1> HIDE DEF n
<1> QED
  BY <1>2, <1>3, TextArrives

\* The block that is dug is the one that was meant.
LEMMA DigArrives ==
  ASSUME RelayIInv, NEW status, NEW b \in Diggable, Dig(status, b)
  PROVE  /\ DigBlock(b) \/ UNCHANGED relayVars
         /\ NumbersArrive' /\ TextParses'
<1>1. CASE UNCHANGED relayVars
  BY <1>1 DEF RelayIInv, relayVars, NumbersArrive, TextParses, Read
<1>2. CASE ~UNCHANGED relayVars
  <2> DEFINE x == b[1]
             y == b[2]
             z == b[3]
             X == Bytes(x, IntWidth)
             Y == Bytes(y, 1)
             Z == Bytes(z, IntWidth)
             O == Bytes(0, 1)
             M == Bytes(-1, 1)
  <2>1. x \in OfWidth(IntWidth) /\ y \in OfWidth(1) /\ z \in OfWidth(IntWidth) /\ b = <<x, y, z>>
    BY RelayAssumption DEF Diggable
  <2>2. /\ x \in Int /\ y \in Int /\ z \in Int
        /\ GetInt(Sent(x, IntWidth)) = x /\ SetInt(x) = X /\ Signed(X) = x
        /\ GetByte(Sent(y, 1)) = y /\ SetByte(y) = Y /\ Signed(Y) = y
        /\ GetInt(Sent(z, IntWidth)) = z /\ SetInt(z) = Z /\ Signed(Z) = z
    BY <2>1, IntsArrive, BytesArrive
  <2>3. Signed(O) = 0 /\ Signed(M) = -1 /\ SetByte(0) = O /\ SetByte(-1) = M
    BY SmallNumbers, BytesArrive, 1 \in Nat \ {0}
  <2>4. DigBlock(<<x, y, z>>) /\ Write("block", UpdateBlock(<<x, y, z>>, 0), <<x, y, z, 0, -1>>)
    BY <1>2, <2>2 DEF Dig
  <2>5. UpdateBlock(<<x, y, z>>, 0) = <<X, Y, Z, O, M>>
    <3> HIDE DEF x, y, z, X, Y, Z, O, M
    <3> QED
      BY <2>2, <2>3 DEF UpdateBlock
  <2>6. kind' = "block" /\ written' = <<X, Y, Z, O, M>> /\ meant' = <<x, y, z, 0, -1>>
    BY <2>4, <2>5 DEF Write
  <2>7. DigBlock(b) /\ <<x, y, z>> \in dug'
    BY <2>1, <2>4 DEF DigBlock
  <2> HIDE DEF x, y, z, X, Y, Z, O, M
  <2> DEFINE w == <<X, Y, Z, O, M>>
  <2>8. [i \in DOMAIN w |-> Signed(w[i])] = <<x, y, z, 0, -1>>
    BY <2>2, <2>3
  <2>9. NumbersArrive' /\ TextParses'
    BY <2>6, <2>7, <2>8 DEF NumbersArrive, TextParses, Read
  <2> QED
    BY <2>7, <2>9
<1> QED
  BY <1>1, <1>2

-----------------------------------------------------------------------------
\* The invariant, and with it that Relay digs as Blocks does.
LEMMA RelayInitInvariant == RelayInit => RelayIInv
<1> SUFFICES ASSUME RelayInit PROVE RelayIInv
  OBVIOUS
<1>1. DugInv /\ littleEndian \in BOOLEAN /\ kind = "none"
  BY InitInvariant DEF RelayInit
<1> QED
  BY <1>1 DEF RelayIInv, NumbersArrive, TextParses

LEMMA RelayStep ==
  ASSUME RelayIInv, [RelayNext]_relayVars
  PROVE  [BlockNext]_blockVars /\ RelayIInv'
<1> DEFINE Goal == [BlockNext]_blockVars /\ littleEndian' = littleEndian
                   /\ NumbersArrive' /\ TextParses'
<1>1. ASSUME NEW id \in Ids, KeepAlive(id) PROVE Goal
  BY <1>1, KeepAliveArrives DEF KeepAlive, worldVars, blockVars
<1>2. ASSUME NEW text \in Texts, Chat(text) PROVE Goal
  BY <1>2, ChatArrives DEF Chat, worldVars, blockVars
<1>3. ASSUME NEW text \in Texts, NEW digits \in Digits, Ping(text, digits) PROVE Goal
  BY <1>3, PingArrives DEF Ping, worldVars, blockVars
<1>4. ASSUME NEW x \in Doubles, NEW z \in Doubles, PlayerPosition(x, z) PROVE Goal
  BY <1>4, PositionArrives DEF PlayerPosition, worldVars, blockVars
<1>5. ASSUME NEW status, NEW b \in Diggable, Dig(status, b) PROVE Goal
  <2>1. (DigBlock(b) \/ UNCHANGED relayVars) /\ NumbersArrive' /\ TextParses'
    BY <1>5, DigArrives
  <2>2. littleEndian' = littleEndian
    BY <1>5 DEF Dig, relayVars
  <2>3. [BlockNext]_blockVars
    BY <2>1 DEF BlockNext, Diggable, relayVars, blockVars
  <2> QED
    BY <2>1, <2>2, <2>3
<1>6. ASSUME NEW time \in Times, TimeUpdate(time) PROVE Goal
  BY <1>6, TimeArrives DEF TimeUpdate, worldVars, blockVars
<1>7. ASSUME UNCHANGED relayVars PROVE Goal
  BY <1>7 DEF RelayIInv, relayVars, blockVars, NumbersArrive, TextParses, Read
<1> HIDE DEF Goal
<1>8. Goal
  BY <1>1, <1>2, <1>3, <1>4, <1>5, <1>6, <1>7 DEF RelayNext, Diggable
<1>9. DugInv'
  BY <1>8, NextInvariant DEF Goal, RelayIInv
<1> QED
  BY <1>8, <1>9 DEF Goal, RelayIInv

\* The inductive invariant of the packets and the blocks.
THEOREM RelayInvariant == RelaySpec => []RelayIInv
<1>1. RelayIInv /\ [RelayNext]_relayVars => RelayIInv'
  BY RelayStep
<1> QED
  BY <1>1, RelayInitInvariant, PTL DEF RelaySpec

\* Packets dig as module Blocks does: the coordinates that a client sends, and
\* the server reads, are those of the block (handleDig, digBlock).
THEOREM RelayDigsBlocks == RelaySpec => BlockSpec
<1>1. RelayInit => BlockInit
  BY DEF RelayInit
<1>2. RelayIInv /\ [RelayNext]_relayVars => [BlockNext]_blockVars
  BY RelayStep
<1> QED
  BY <1>1, <1>2, RelayInvariant, PTL DEF RelaySpec, BlockSpec

\* Client::get, Client::set and netutil.cpp, for hosts of either byte order and
\* integers of any width: what is written stands for the number that was read.
THEOREM NumbersAlwaysArrive == RelaySpec => []NumbersArrive
<1>1. RelayIInv => NumbersArrive
  BY DEF RelayIInv
<1> QED
  BY <1>1, RelayInvariant, PTL

\* Client::set of a string: the length says how many units follow.
THEOREM TextAlwaysParses == RelaySpec => []TextParses
<1>1. RelayIInv => TextParses
  BY DEF RelayIInv
<1> QED
  BY <1>1, RelayInvariant, PTL

-----------------------------------------------------------------------------
\* The corner of the chunk of a block is an mcInt, too.
LEMMA CornerFits ==
  ASSUME NEW x \in OfWidth(IntWidth), NEW n \in Nat \ {0},
         (Power[IntWidth] \div 2) % n = 0
  PROVE  (x \div n) * n \in OfWidth(IntWidth) /\ x - (x \div n) * n = x % n
<1> DEFINE h == Power[IntWidth] \div 2
           k == h \div n
           q == x \div n
           r == x % n
<1>1. h \in Nat \ {0} /\ x \in Int
  BY HalfOfPower, IntsArrive, CodecAssumption
<1>2. k \in Int /\ h = n * k
  <2> HIDE DEF h
  <2>1. h \div n \in Int /\ h = n * (h \div n) + (h % n)
    BY <1>1, Division
  <2>2. h % n = 0
    BY DEF h
  <2> DEFINE p == h \div n
  <2>3. n * p \in Int
    BY <2>1
  <2> QED
    BY <2>1, <2>2, <2>3
<1>3. q \in Int /\ r \in 0..(n - 1) /\ x = n * q + r
  BY <1>1, Division
<1>4. x \in (-h)..(h - 1)
  BY DEF OfWidth
<1> HIDE DEF h, k, q, r
<1>5. n * q \in Int /\ n * q = q * n
  BY <1>3
<1>6. n * q >= -h
  <2> SUFFICES ASSUME n * q < n * (-k) PROVE FALSE
    <3>1. n * (-k) = -(n * k) /\ n * k \in Int
      BY <1>2
    <3> QED
      BY <1>1, <1>2, <1>5, <3>1
  <2>1. ~(q >= -k)
    <3> SUFFICES ASSUME q >= -k PROVE FALSE
      OBVIOUS
    <3>1. n * (q + k) >= 0 /\ n * (q + k) = n * q + n * k /\ n * k \in Int /\ n * (-k) = -(n * k)
      BY <1>2, <1>3
    <3> QED
      BY <1>5, <3>1
  <2>2. n * (-k - 1 - q) >= 0
    BY <1>2, <1>3, <2>1
  <2>3. n * (-k - 1 - q) = -(n * k) - n - n * q /\ n * k \in Int
    BY <1>2, <1>3
  <2> QED
    BY <1>1, <1>2, <1>3, <1>4, <1>5, <2>2, <2>3
<1>7. n * q \in (-h)..(h - 1)
  BY <1>1, <1>3, <1>4, <1>5, <1>6
<1> QED
  BY <1>3, <1>5, <1>7 DEF OfWidth, h, q, r

\* What the header of a chunk says, once it is read.
LEMMA HeaderSays ==
  ASSUME NEW b \in Block
  PROVE  HeaderOf(ChunkOf(b))
               = <<(b[1] \div SizeX) * SizeX, 0, (b[3] \div SizeZ) * SizeZ,
                   SizeX - 1, SizeY - 1, SizeZ - 1>>
<1> DEFINE x == (b[1] \div SizeX) * SizeX
           z == (b[3] \div SizeZ) * SizeZ
           A == Bytes(x, IntWidth)
           B == Bytes(0, ShortWidth)
           C == Bytes(z, IntWidth)
           D == Bytes(SizeX - 1, 1)
           E == Bytes(SizeY - 1, 1)
           F == Bytes(SizeZ - 1, 1)
<1>1. b[1] \in OfWidth(IntWidth) /\ b[3] \in OfWidth(IntWidth)
  BY RelayAssumption DEF Block
<1>2. x \in OfWidth(IntWidth) /\ z \in OfWidth(IntWidth)
  BY <1>1, CornerFits, RelayAssumption, BlocksAssumption
<1>3. SetInt(x) = A /\ Signed(A) = x /\ SetInt(z) = C /\ Signed(C) = z
  <2> HIDE DEF x, z
  <2> QED
    BY <1>2, IntsArrive
<1>4. SetShort(0) = B /\ Signed(B) = 0
  BY SetsBytes, SmallNumbers, SignedOfBytes, CodecAssumption
<1>5. /\ SetByte(SizeX - 1) = D /\ Signed(D) = SizeX - 1
      /\ SetByte(SizeY - 1) = E /\ Signed(E) = SizeY - 1
      /\ SetByte(SizeZ - 1) = F /\ Signed(F) = SizeZ - 1
  BY RelayAssumption, BytesArrive
<1>6. Header(ChunkOf(b)) = <<A, B, C, D, E, F>>
  BY <1>3, <1>4, <1>5 DEF Header, ChunkOf
<1> HIDE DEF x, z, A, B, C, D, E, F
<1> DEFINE w == <<A, B, C, D, E, F>>
<1>7. [i \in 1..6 |-> Signed(w[i])] = <<x, 0, z, SizeX - 1, SizeY - 1, SizeZ - 1>>
  BY <1>3, <1>4, <1>5
<1> QED
  BY <1>6, <1>7 DEF HeaderOf, x, z

\* An update tells of the block that was dug.
LEMMA UpdatesTell ==
  ASSUME dug \subseteq Diggable
  PROVE  Told = dug
<1> DEFINE block(fields) == <<Signed(fields[1]), Signed(fields[2]), Signed(fields[3])>>
<1>1. ASSUME NEW d \in dug PROVE block(UpdateBlock(d, 0)) = d
  <2>1. /\ d[1] \in OfWidth(IntWidth) /\ d[2] \in OfWidth(1) /\ d[3] \in OfWidth(IntWidth)
        /\ d = <<d[1], d[2], d[3]>>
    BY RelayAssumption DEF Diggable
  <2>2. /\ Signed(SetInt(d[1])) = d[1] /\ Signed(SetByte(d[2])) = d[2]
        /\ Signed(SetInt(d[3])) = d[3]
    BY <2>1, IntsArrive, BytesArrive
  <2> DEFINE f == UpdateBlock(d, 0)
  <2>3. f[1] = SetInt(d[1]) /\ f[2] = SetByte(d[2]) /\ f[3] = SetInt(d[3])
    BY DEF UpdateBlock
  <2> QED
    BY <2>1, <2>2, <2>3
<1>2. Told = {block(UpdateBlock(d, 0)) : d \in dug}
  BY DEF Told
<1> HIDE DEF block
<1> QED
  BY <1>1, <1>2

\* sendChunk, updateBlock and digBlock: a game that holds a chunk as it was sent,
\* and was told of every dig in it, draws each block as the world that is dug in
\* has it, on both sides of zero.
THEOREM HoldersDrawWhatWasDug == RelaySpec => []DrawnAsDug
<1>1. DugInv /\ DugIsStored => DrawnAsDug
  <2> SUFFICES ASSUME DugInv, DugIsStored, \A d \in dug : d[2] >= 0, NEW b \in Block
               PROVE  LET chunk == ChunkOf(b)
                          header == HeaderOf(chunk)
                          at == Within(b, header)
                          sent == TypeAt(SentWorld, <<chunk, IndexSent(at, header)>>)
                      IN  /\ \A i \in 1..3 : at[i] \in 0..header[i + 3]
                          /\ TypeAt(DigWorld, Place(b)) = IF b \in Told THEN 0 ELSE sent
    BY DEF DrawnAsDug
  <2> DEFINE header == HeaderOf(ChunkOf(b))
             at == Within(b, header)
             index == IndexSent(at, header)
             x == b[1] % SizeX
             y == b[2]
             z == b[3] % SizeZ
  <2>1. header = <<(b[1] \div SizeX) * SizeX, 0, (b[3] \div SizeZ) * SizeZ,
                   SizeX - 1, SizeY - 1, SizeZ - 1>>
    BY HeaderSays
  <2> HIDE DEF header
  <2>2. /\ b[1] \in OfWidth(IntWidth) /\ b[3] \in OfWidth(IntWidth)
        /\ b[1] \in Int /\ b[3] \in Int /\ y \in 0..(SizeY - 1)
    <3>1. b[1] \in Coord /\ b[2] \in Height \cap Nat /\ b[3] \in Coord
      BY DEF Block
    <3>2. b[1] \in Int /\ b[3] \in Int /\ y \in -SizeY..(SizeY - 1) /\ y \in Nat
      BY <3>1, BlocksAssumption
    <3>3. y \in 0..(SizeY - 1)
      <4> HIDE DEF y
      <4> QED
        BY <3>2, BlocksAssumption
    <3> QED
      BY <3>1, <3>2, <3>3, RelayAssumption
  <2>3. SizeX \in Nat \ {0} /\ SizeY \in Nat \ {0} /\ SizeZ \in Nat \ {0}
    BY BlocksAssumption
  <2>4. b[1] - header[1] = x /\ b[3] - header[3] = z
    BY <2>1, <2>2, <2>3, CornerFits, RelayAssumption
  <2>5. at[1] = x /\ at[2] = y /\ at[3] = z
    <3>1. at[1] = b[1] - header[1] /\ at[2] = b[2] - header[2] /\ at[3] = b[3] - header[3]
      BY DEF Within
    <3> QED
      BY <2>1, <2>2, <2>4, <3>1
  <2>6. x \in 0..(SizeX - 1) /\ z \in 0..(SizeZ - 1)
    BY <2>2, <2>3, Division
  <2>7. \A i \in 1..3 : at[i] \in 0..header[i + 3]
    <3> HIDE DEF at, x, y, z
    <3> QED
      BY <2>1, <2>2, <2>5, <2>6
  <2>8. index = Index(x, y, z)
    <3>1. header[5] + 1 = SizeY /\ header[6] + 1 = SizeZ
      BY <2>1, <2>3
    <3>2. index = (x * SizeZ + z) * SizeY + y
      BY <2>5, <3>1 DEF IndexSent
    <3> HIDE DEF index, x, y, z
    <3>3. (x * SizeZ + z) * SizeY = x * (SizeZ * SizeY) + z * SizeY
      <4>1. x \in Int /\ z \in Int
        BY <2>3, <2>6
      <4> QED
        BY <2>3, <4>1
    <3> QED
      BY <3>2, <3>3 DEF Index
  <2>9. Place(b) = <<ChunkOf(b), Index(x, y, z)>>
    BY <2>2, <2>3, OffsetIsRemainder DEF Place
  <2>10. TypeAt(DigWorld, Place(b)) = IF b \in dug THEN 0 ELSE Terrain(b[2])
    BY DEF DugIsStored
  <2>11. TypeAt(SentWorld, <<ChunkOf(b), index>>) = Terrain(b[2])
    <3>1. <<SentWorld, <<ChunkOf(b), index>>>> \notin zeroed
      BY DEF DugInv, SentWorld, DigWorld
    <3>2. index % SizeY = b[2]
      <4>1. Place(b)[2] = index
        BY <2>8, <2>9
      <4> QED
        BY <4>1, BlockExists, HeightOfPlace
    <3> QED
      BY <3>1, <3>2 DEF TypeAt
  <2>12. Told = dug
    BY UpdatesTell DEF DugInv
  <2> QED
    BY <2>7, <2>10, <2>11, <2>12 DEF header
<1>2. RelayIInv => DugInv
  BY DEF RelayIInv
<1> QED
  BY <1>1, <1>2, RelayInvariant, RelayDigsBlocks, DugBlocksOnly, PTL
=============================================================================
