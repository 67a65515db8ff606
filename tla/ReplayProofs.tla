---------------------------- MODULE ReplayProofs ----------------------------
(***************************************************************************)
(* Lemmas about the replay of a ledger.  Replay is a recursive function,   *)
(* so its facts are proved by induction on the rows visited.  The          *)
(* induction rule used is NatSetInduction, about a set instead of a        *)
(* predicate: it follows from the least-element principle of               *)
(* WellFoundedInduction.                                                   *)
(***************************************************************************)
EXTENDS PositionRules, TLAPS, WellFoundedInduction, FiniteSetTheorems, SequenceTheorems

-----------------------------------------------------------------------------
(* Induction over an interval, and over the rows of a sequence.            *)

\* A nonempty set of naturals has a least element.
LEMMA NatMinimum ==
    ASSUME NEW T, T \subseteq Nat, T # {}
    PROVE  \E x \in T : \A y \in T : x <= y
<1>1. \E x \in T : \A y \in T : <<y, x>> \notin OpToRel(<, Nat)
  BY NatLessThanWellFounded, WFMin
<1>2. PICK x \in T : \A y \in T : <<y, x>> \notin OpToRel(<, Nat)
  BY <1>1
<1>3. \A y \in T : <<y, x>> \in Nat \X Nat
  OBVIOUS
<1>4. \A y \in T : ~(y < x)
  BY <1>2, <1>3 DEF OpToRel
<1>5. \A y \in T : y \in Nat
  OBVIOUS
<1>6. \A y \in T : x <= y
  BY <1>4, <1>5, SMT
<1> QED
  BY <1>6

\* A set with 0 that is closed under successor up to N contains 0..N.
LEMMA NatSetInduction ==
    ASSUME NEW N \in Nat, NEW T, 0 \in T,
           \A n \in 0..N : n < N /\ n \in T => n + 1 \in T
    PROVE  \A n \in 0..N : n \in T
<1> DEFINE Missing == {n \in 0..N : n \notin T}
<1>1. SUFFICES ASSUME Missing # {} PROVE FALSE
  OBVIOUS
<1>2. PICK m \in Missing : \A y \in Missing : m <= y
  <2>1. Missing \subseteq Nat
    BY SMT
  <2> QED
    BY <1>1, <2>1, NatMinimum
<1>3. m \in 0..N /\ m \notin T /\ m # 0
  BY <1>2
<1>4. m - 1 \in 0..N /\ m - 1 < N /\ (m - 1) + 1 = m
  BY <1>3, SMT
<1>5. m - 1 \in T
  BY <1>2, <1>4
<1> QED
  BY <1>3, <1>4, <1>5

-----------------------------------------------------------------------------
(* The arithmetic of one row.                                              *)

LEMMA RoundHalfEvenFacts ==
    ASSUME NEW n \in Nat, NEW d \in Nat \ {0}
    PROVE  /\ RoundHalfEven(n, d) \in Nat
           /\ n >= d => RoundHalfEven(n, d) >= 1
<1>1. n \div d \in Nat
  BY SMT
<1>2. n >= d => n \div d >= 1
  BY SMT
<1> QED
  BY <1>1, <1>2, SMT DEF RoundHalfEven

\* The average price of a position stays a positive price.
LEMMA WeightedAverageFacts ==
    ASSUME NEW q \in Nat, NEW a \in Nat, NEW b \in Nat \ {0}, NEW p \in Nat \ {0},
           q > 0 => a > 0
    PROVE  RoundHalfEven(q * a + b * p, q + b) \in Nat \ {0}
<1>1. q * a \in Nat /\ b * p \in Nat /\ q + b \in Nat \ {0}
  BY SMT
<1>2. q * a >= q
  BY SMT
<1>3. b * p >= b
  BY SMT
<1>4. q * a + b * p >= q + b /\ q * a + b * p \in Nat
  BY <1>1, <1>2, <1>3, SMT
<1> QED
  BY <1>1, <1>4, RoundHalfEvenFacts, SMT

\* Rounding does not leave an interval between two integers.
LEMMA RoundBetween ==
    ASSUME NEW n \in Nat, NEW d \in Nat \ {0}, NEW lo \in Nat, NEW hi \in Nat,
           lo * d <= n, n <= hi * d
    PROVE  lo <= RoundHalfEven(n, d) /\ RoundHalfEven(n, d) <= hi
<1> DEFINE floor == n \div d
           rest == n % d
<1>1. floor \in Nat /\ rest \in Nat /\ rest < d /\ n = d * floor + rest
  BY SMT
<1>2. RoundHalfEven(n, d) = IF 2 * rest > d \/ (2 * rest = d /\ floor % 2 = 1)
                            THEN floor + 1 ELSE floor
  BY DEF RoundHalfEven
<1> HIDE DEF floor, rest
<1>3. lo <= floor
  <2>1. lo * d < d * (floor + 1)
    BY <1>1, SMT
  <2>2. lo < floor + 1
    BY <1>1, <2>1, SMT
  <2> QED
    BY <1>1, <2>2, SMT
<1>4. floor <= hi /\ (floor = hi => rest = 0)
  <2>1. d * floor <= hi * d
    BY <1>1, SMT
  <2>2. floor <= hi
    BY <1>1, <2>1, SMT
  <2>3. floor = hi => rest = 0
    BY <1>1, SMT
  <2> QED
    BY <2>2, <2>3
<1> QED
  BY <1>1, <1>2, <1>3, <1>4, SMT

\* A weighted average lies between the two prices it is made of.
LEMMA WeightedBetween ==
    ASSUME NEW q \in Nat, NEW a \in Nat, NEW b \in Nat \ {0}, NEW p \in Nat \ {0},
           NEW lo \in Nat, NEW hi \in Nat,
           lo <= p, p <= hi, q = 0 \/ (lo <= a /\ a <= hi)
    PROVE  /\ lo <= RoundHalfEven(q * a + b * p, q + b)
           /\ RoundHalfEven(q * a + b * p, q + b) <= hi
<1> DEFINE n == q * a + b * p
           d == q + b
<1>1. n \in Nat /\ d \in Nat \ {0}
  BY SMT
<1>2. q * lo <= q * a /\ q * a <= q * hi
  BY SMT
<1>3. b * lo <= b * p /\ b * p <= b * hi
  BY SMT
<1>4. lo * d <= n /\ n <= hi * d
  BY <1>2, <1>3, SMT
<1> HIDE DEF n, d
<1>5. lo <= RoundHalfEven(n, d) /\ RoundHalfEven(n, d) <= hi
  BY <1>1, <1>4, RoundBetween
<1> QED
  BY <1>5 DEF n, d

-----------------------------------------------------------------------------
(* The order of the rows.                                                  *)

\* Trade order is total on the rows of a ledger, so every nonempty set of rows
\* has an earliest one and the CHOOSE of Earliest picks it.
LEMMA EarliestFacts ==
    ASSUME NEW stored \in Seq(Row), NEW S \in SUBSET DOMAIN stored, S # {}
    PROVE  /\ Earliest(stored, S) \in S
           /\ \A j \in S \ {Earliest(stored, S)} : Earlier(stored, Earliest(stored, S), j)
<1> DEFINE L == Len(stored)
           First(T, i) == i \in T /\ \A j \in T \ {i} : Earlier(stored, i, j)
           Done == {n \in 0..L : S \cap 1..n # {} => \E i \in S : First(S \cap 1..n, i)}
<1>1. L \in Nat /\ DOMAIN stored = 1..L
  BY LenProperties
<1>2. \A i \in 1..L : stored[i].traded_at \in Int
  <2>1. \A i \in 1..L : stored[i] \in Row
    BY <1>1, ElementOfSeq
  <2> QED
    BY <2>1 DEF Row
<1>3. 0 \in Done
  BY <1>1, SMT
<1>4. ASSUME NEW n \in 0..L, n < L, n \in Done
      PROVE  n + 1 \in Done
  <2>1. n + 1 \in 0..L /\ n + 1 \in 1..L /\ 1..n \subseteq 1..L
    BY <1>1, <1>4
  <2>2. S \cap 1..(n + 1) \subseteq (S \cap 1..n) \cup {n + 1}
    BY <1>1
  <2>3. S \cap 1..n \subseteq S \cap 1..(n + 1)
    BY <1>1
  <2>4. CASE n + 1 \notin S
    <3>1. S \cap 1..(n + 1) = S \cap 1..n
      BY <2>2, <2>3, <2>4
    <3> QED
      BY <1>4, <2>1, <3>1
  <2>5. CASE n + 1 \in S /\ S \cap 1..n = {}
    <3>1. S \cap 1..(n + 1) = {n + 1}
      BY <2>2, <2>5, <1>1
    <3>2. First(S \cap 1..(n + 1), n + 1)
      BY <3>1
    <3> QED
      BY <2>1, <2>5, <3>2
  <2>6. CASE n + 1 \in S /\ S \cap 1..n # {}
    <3>1. PICK i \in S : First(S \cap 1..n, i)
      BY <1>4, <2>6
    <3>2. i \in 1..n /\ i \in 1..L
      BY <3>1, <2>1
    <3>3. CASE Earlier(stored, i, n + 1)
      <4>1. First(S \cap 1..(n + 1), i)
        BY <3>1, <3>3, <2>2, <2>3
      <4> QED
        BY <2>1, <4>1
    <3>4. CASE ~Earlier(stored, i, n + 1)
      <4>1. stored[n + 1].traded_at < stored[i].traded_at
        BY <3>2, <3>4, <2>1, <1>2, <1>1 DEF Earlier
      <4>2. \A j \in (S \cap 1..n) : Earlier(stored, n + 1, j)
        <5> TAKE j \in S \cap 1..n
        <5>1. j \in 1..L
          BY <2>1
        <5>2. CASE j = i
          BY <4>1, <5>2 DEF Earlier
        <5>3. CASE j # i
          <6>1. stored[i].traded_at <= stored[j].traded_at
            BY <3>1, <5>3, <1>2, <3>2, <5>1 DEF Earlier
          <6> QED
            BY <4>1, <6>1, <1>2, <3>2, <5>1, <2>1 DEF Earlier
        <5> QED
          BY <5>2, <5>3
      <4>3. First(S \cap 1..(n + 1), n + 1)
        BY <4>2, <2>2, <2>6, <1>1
      <4> QED
        BY <2>1, <2>6, <4>3
    <3> QED
      BY <3>3, <3>4
  <2> QED
    BY <2>4, <2>5, <2>6
<1>5. L \in Done
  <2> HIDE DEF Done
  <2>1. \A n \in 0..L : n \in Done
    BY <1>1, <1>3, <1>4, NatSetInduction
  <2> QED
    BY <2>1, <1>1
<1>6. S \cap 1..L = S
  BY <1>1
<1>7. \E i \in S : \A j \in S \ {i} : Earlier(stored, i, j)
  BY <1>5, <1>6
<1> QED
  BY <1>7 DEF Earliest

-----------------------------------------------------------------------------
(* Functions defined by recursion on the rows, and sums.                   *)

\* f starts with base and goes on with the functions of step.
Iterates(f, base, step, L) == f[0] = base /\ \A n \in 1..L : f[n] = step[n][f[n - 1]]

LEMMA IterationExists ==
    ASSUME NEW base, NEW step, NEW L \in Nat
    PROVE  \E f : Iterates(f, base, step, L)
<1> DEFINE Done == {m \in 0..L : \E f : Iterates(f, base, step, m)}
<1>1. 0 \in Done
  <2> DEFINE zero == [n \in 0..0 |-> base]
  <2>1. Iterates(zero, base, step, 0)
    BY DEF Iterates
  <2> QED
    BY <2>1
<1>2. ASSUME NEW m \in 0..L, m < L, m \in Done
      PROVE  m + 1 \in Done
  <2>1. PICK f : Iterates(f, base, step, m)
    BY <1>2
  <2> DEFINE g == [n \in 0..(m + 1) |-> IF n = m + 1 THEN step[n][f[m]] ELSE f[n]]
  <2>2. ASSUME NEW n \in 1..(m + 1)
        PROVE  g[n] = step[n][g[n - 1]]
    <3>1. n - 1 \in 0..m /\ n - 1 \in 0..(m + 1) /\ n - 1 # m + 1
      OBVIOUS
    <3>2. g[n - 1] = f[n - 1]
      BY <3>1
    <3>3. CASE n = m + 1
      BY <3>1, <3>2, <3>3
    <3>4. CASE n # m + 1
      <4>1. n \in 1..m
        BY <3>4
      <4> QED
        BY <2>1, <3>2, <3>4, <4>1 DEF Iterates
    <3> QED
      BY <3>3, <3>4
  <2>3. g[0] = base
    BY <2>1 DEF Iterates
  <2>4. Iterates(g, base, step, m + 1)
    BY <2>2, <2>3 DEF Iterates
  <2> HIDE DEF g
  <2> QED
    BY <1>2, <2>4
<1>3. L \in Done
  <2> HIDE DEF Done
  <2>1. \A m \in 0..L : m \in Done
    BY <1>1, <1>2, NatSetInduction
  <2> QED
    BY <2>1
<1> QED
  BY <1>3

\* s holds the partial sums of the weights w.
IsSum(s, w, L) ==
    /\ s \in [0..L -> Int] /\ s[0] = 0
    /\ \A n \in 1..L : s[n] = s[n - 1] + w[n]

LEMMA SumExists ==
    ASSUME NEW L \in Nat, NEW w \in [1..L -> Int]
    PROVE  \E s : IsSum(s, w, L)
<1> DEFINE step == [n \in 1..L |-> [x \in Int |-> x + w[n]]]
<1>1. PICK f : Iterates(f, 0, step, L)
  <2> HIDE DEF step
  <2> QED
    BY IterationExists
<1> DEFINE Done == {n \in 0..L : f[n] \in Int}
<1>2. ASSUME NEW n \in 1..L, f[n - 1] \in Int
      PROVE  f[n] = f[n - 1] + w[n] /\ f[n] \in Int
  <2>1. f[n] = step[n][f[n - 1]]
    BY <1>1 DEF Iterates
  <2>2. w[n] \in Int /\ step[n] = [x \in Int |-> x + w[n]]
    OBVIOUS
  <2> HIDE DEF step
  <2>3. step[n][f[n - 1]] = f[n - 1] + w[n]
    BY <1>2, <2>2
  <2>4. f[n] = f[n - 1] + w[n]
    BY <2>1, <2>3
  <2>5. \A x, y \in Int : x + y \in Int
    OBVIOUS
  <2>6. f[n - 1] + w[n] \in Int
    BY <1>2, <2>2, <2>5, Zenon
  <2>7. f[n] \in Int
    BY <2>4, <2>6, Zenon
  <2> QED
    BY <2>4, <2>7
<1>3. \A n \in 0..L : f[n] \in Int
  <2>1. 0 \in Done
    BY <1>1 DEF Iterates
  <2>2. ASSUME NEW n \in 0..L, n < L, n \in Done
        PROVE  n + 1 \in Done
    <3>1. n + 1 \in 1..L /\ n + 1 \in 0..L /\ (n + 1) - 1 = n
      BY <2>2
    <3>2. f[(n + 1) - 1] \in Int
      BY <2>2, <3>1
    <3> QED
      BY <3>1, <3>2, <1>2
  <2>3. \A n \in 0..L : n \in Done
    <3> HIDE DEF Done
    <3> QED
      BY <2>1, <2>2, NatSetInduction
  <2> QED
    BY <2>3
<1>4. \A n \in 1..L : n - 1 \in 0..L /\ f[n] = f[n - 1] + w[n]
  BY <1>2, <1>3
<1> DEFINE s == [n \in 0..L |-> f[n]]
<1>5. s \in [0..L -> Int] /\ s[0] = 0
  BY <1>1, <1>3 DEF Iterates
<1>6. \A n \in 1..L : s[n] = s[n - 1] + w[n]
  BY <1>4
<1> HIDE DEF s
<1> QED
  BY <1>5, <1>6 DEF IsSum

\* The weights w and v differ in the one of i, by d.
DifferBy(L, w, v, i, d) ==
    /\ w \in [1..L -> Int] /\ v \in [1..L -> Int] /\ i \in 1..L /\ d \in Int
    /\ v[i] = w[i] + d
    /\ \A j \in 1..L : j # i => v[j] = w[j]

\* A weight that changes by d changes the sum by d.
LEMMA SumChanges ==
    ASSUME NEW L \in Nat, NEW w, NEW v, NEW i, NEW d, DifferBy(L, w, v, i, d),
           NEW s, IsSum(s, w, L), NEW t, IsSum(t, v, L)
    PROVE  t[L] = s[L] + d
<1> USE DEF DifferBy
<1> DEFINE Done == {n \in 0..L : t[n] = IF n < i THEN s[n] ELSE s[n] + d}
<1>1. 0 \in Done
  BY DEF IsSum
<1>2. ASSUME NEW n \in 0..L, n < L, n \in Done
      PROVE  n + 1 \in Done
  <2>1. n + 1 \in 0..L /\ (n + 1) - 1 = n /\ n + 1 \in 1..L
    BY <1>2
  <2>2. t[n + 1] = t[n] + v[n + 1] /\ s[n + 1] = s[n] + w[n + 1]
    BY <2>1 DEF IsSum
  <2>3. t[n] \in Int /\ s[n] \in Int /\ v[n + 1] \in Int /\ w[n + 1] \in Int
    BY <2>1 DEF IsSum
  <2>4. t[n] = IF n < i THEN s[n] ELSE s[n] + d
    BY <1>2
  <2>5. n + 1 # i => v[n + 1] = w[n + 1]
    BY <2>1
  <2>6. t[n + 1] = IF n + 1 < i THEN s[n + 1] ELSE s[n + 1] + d
    BY <2>1, <2>2, <2>3, <2>4, <2>5
  <2> QED
    BY <2>1, <2>6
<1>3. L \in Done
  <2> HIDE DEF Done
  <2>1. \A n \in 0..L : n \in Done
    BY <1>1, <1>2, NatSetInduction
  <2> QED
    BY <2>1
<1> QED
  BY <1>3

LEMMA SumOfNothing ==
    ASSUME NEW L \in Nat, NEW w, \A j \in 1..L : w[j] = 0, NEW s, IsSum(s, w, L)
    PROVE  s[L] = 0
<1> DEFINE Done == {n \in 0..L : s[n] = 0}
<1>1. 0 \in Done
  BY DEF IsSum
<1>2. ASSUME NEW n \in 0..L, n < L, n \in Done
      PROVE  n + 1 \in Done
  <2>1. n + 1 \in 0..L /\ (n + 1) - 1 = n /\ n + 1 \in 1..L
    BY <1>2
  <2>2. s[n + 1] = s[n] + w[n + 1]
    BY <2>1 DEF IsSum
  <2>3. s[n] = 0 /\ w[n + 1] = 0
    BY <1>2, <2>1
  <2> QED
    BY <2>1, <2>2, <2>3
<1>3. L \in Done
  <2> HIDE DEF Done
  <2>1. \A n \in 0..L : n \in Done
    BY <1>1, <1>2, NatSetInduction
  <2> QED
    BY <2>1
<1> QED
  BY <1>3

\* What the rows outside U add to the quantity.
Weights(rows, U) ==
    [j \in 1..Len(rows) |-> IF j \in U THEN 0 ELSE Contribution(rows[j])]

LEMMA WeightsType ==
    ASSUME NEW rows \in Seq(Row), NEW U
    PROVE  /\ Weights(rows, U) \in [1..Len(rows) -> Int]
           /\ \A j \in 1..Len(rows) : Contribution(rows[j]) \in Int
<1>1. \A j \in 1..Len(rows) : rows[j] \in Row
  BY LenProperties, ElementOfSeq
<1>2. \A j \in 1..Len(rows) : Contribution(rows[j]) \in Int
  <2> TAKE j \in 1..Len(rows)
  <2>1. rows[j].quantity \in Nat
    BY <1>1 DEF Row
  <2> QED
    BY <2>1 DEF Contribution, Signed
<1> QED
  BY <1>2 DEF Weights

\* NetQuantity is the sum of what all rows add.
LEMMA NetQuantityIsSum ==
    ASSUME NEW rows \in Seq(Row)
    PROVE  \E s : IsSum(s, Weights(rows, {}), Len(rows)) /\ s[Len(rows)] = NetQuantity(rows)
<1> DEFINE L == Len(rows)
           w == Weights(rows, {})
           f == CHOOSE sum : sum = [n \in 0..L |->
                                IF n = 0 THEN 0 ELSE sum[n - 1] + Contribution(rows[n])]
<1>1. L \in Nat /\ w \in [1..L -> Int] /\ \A j \in 1..L : w[j] = Contribution(rows[j])
  BY LenProperties, WeightsType DEF Weights
<1>2. NetQuantity(rows) = f[L]
  BY DEF NetQuantity
<1> HIDE DEF L, w
<1>3. PICK s : IsSum(s, w, L)
  BY <1>1, SumExists
<1>4. s = [n \in 0..L |-> IF n = 0 THEN 0 ELSE s[n - 1] + Contribution(rows[n])]
  <2>1. ASSUME NEW n \in 0..L
        PROVE  s[n] = IF n = 0 THEN 0 ELSE s[n - 1] + Contribution(rows[n])
    <3>1. n # 0 => n \in 1..L
      BY <1>1
    <3> QED
      BY <1>1, <1>3, <3>1 DEF IsSum
  <2> QED
    BY <1>3, <2>1 DEF IsSum
<1>5. f = [n \in 0..L |-> IF n = 0 THEN 0 ELSE f[n - 1] + Contribution(rows[n])]
  BY <1>4
<1> HIDE DEF f
<1> DEFINE Done == {n \in 0..L : f[n] = s[n]}
<1>6. 0 \in Done
  BY <1>1, <1>3, <1>5 DEF IsSum
<1>7. ASSUME NEW n \in 0..L, n < L, n \in Done
      PROVE  n + 1 \in Done
  <2>1. n + 1 \in 0..L /\ n + 1 # 0 /\ (n + 1) - 1 = n /\ n + 1 \in 1..L
    BY <1>1, <1>7
  <2>2. f[n + 1] = f[n] + Contribution(rows[n + 1])
    BY <1>5, <2>1
  <2>3. s[n + 1] = s[n] + Contribution(rows[n + 1])
    BY <1>1, <1>3, <2>1 DEF IsSum
  <2> QED
    BY <1>7, <2>1, <2>2, <2>3
<1>8. L \in Done
  <2> HIDE DEF Done
  <2>1. \A n \in 0..L : n \in Done
    BY <1>1, <1>6, <1>7, NatSetInduction
  <2> QED
    BY <1>1, <2>1
<1> QED
  BY <1>2, <1>3, <1>8 DEF L, w


\* One more row adds what it contributes.
LEMMA NetQuantityAppend ==
    ASSUME NEW rows \in Seq(Row), NEW row \in Row
    PROVE  NetQuantity(Append(rows, row)) = NetQuantity(rows) + Contribution(row)
<1> DEFINE L == Len(rows)
           more == Append(rows, row)
           w == Weights(rows, {})
           v == Weights(more, {})
<1>1. /\ L \in Nat /\ more \in Seq(Row) /\ Len(more) = L + 1 /\ more[L + 1] = row
      /\ \A j \in 1..L : more[j] = rows[j]
  BY LenProperties, AppendProperties
<1> HIDE DEF more
<1>2. PICK s : IsSum(s, w, L) /\ s[L] = NetQuantity(rows)
  BY NetQuantityIsSum
<1>3. PICK t : IsSum(t, v, L + 1) /\ t[L + 1] = NetQuantity(more)
  <2>1. \E t : IsSum(t, v, Len(more)) /\ t[Len(more)] = NetQuantity(more)
    BY <1>1, NetQuantityIsSum
  <2> QED
    BY <1>1, <2>1
<1>4. v[L + 1] = Contribution(row) /\ \A j \in 1..L : v[j] = w[j]
  BY <1>1 DEF Weights
<1> HIDE DEF w, v, L
<1> DEFINE Done == {n \in 0..L : t[n] = s[n]}
<1>5. 0 \in Done
  BY <1>1, <1>2, <1>3 DEF IsSum
<1>6. ASSUME NEW n \in 0..L, n < L, n \in Done
      PROVE  n + 1 \in Done
  <2>1. n + 1 \in 0..L /\ n + 1 \in 1..L /\ n + 1 \in 1..(L + 1) /\ (n + 1) - 1 = n
    BY <1>1, <1>6
  <2>2. s[n + 1] = s[n] + w[n + 1] /\ t[n + 1] = t[n] + v[n + 1]
    BY <1>2, <1>3, <2>1 DEF IsSum
  <2> QED
    BY <1>4, <1>6, <2>1, <2>2
<1>7. t[L] = s[L]
  <2>1. \A n \in 0..L : n \in Done
    <3> HIDE DEF Done
    <3> QED
      BY <1>1, <1>5, <1>6, NatSetInduction
  <2> QED
    BY <1>1, <2>1
<1>8. t[L + 1] = t[L] + v[L + 1]
  <2>1. L + 1 \in 1..(L + 1) /\ (L + 1) - 1 = L
    BY <1>1
  <2> QED
    BY <1>3, <2>1 DEF IsSum
<1> QED
  BY <1>2, <1>3, <1>4, <1>7, <1>8 DEF more

LEMMA NetQuantityOfNothing == NetQuantity(<<>>) = 0
<1>1. <<>> \in Seq(Row) /\ Len(<<>>) = 0
  OBVIOUS
<1>2. PICK s : IsSum(s, Weights(<<>>, {}), Len(<<>>)) /\ s[Len(<<>>)] = NetQuantity(<<>>)
  BY <1>1, NetQuantityIsSum
<1> QED
  BY <1>1, <1>2 DEF IsSum
-----------------------------------------------------------------------------
(* One iteration of the replay.                                            *)

Rows(L) == {r \in Seq(Row) : Len(r) = L}

Runs(L) == [ledger : Rows(L), unvisited : SUBSET (1..L), visited : Nat,
            quantity : Nat, average : Nat, active : Nat, failed : BOOLEAN]

\* What a replay keeps of a row: all a request entered, and for a voided row
\* everything but its number.
SameTerms(new, old) ==
    /\ new.side = old.side /\ new.type = old.type /\ new.traded_at = old.traded_at
    /\ new.quantity = old.quantity /\ new.unit_price = old.unit_price
    /\ new.key = old.key /\ new.status = old.status
    /\ ~IsActive(old) => new = [old EXCEPT !.sequence_number = new.sequence_number]

SellHasAverage(row) == row.side = "SELL" => row.average_before > 0

\* A voided sell was replayed before it was voided.
VoidedSellsHaveAverage(rows) ==
    \A i \in DOMAIN rows : ~IsActive(rows[i]) => SellHasAverage(rows[i])

\* Replacing one row keeps a sequence of rows one.
LEMMA RowsExcept ==
    ASSUME NEW L \in Nat, NEW r \in Rows(L), NEW i \in 1..L, NEW row \in Row
    PROVE  /\ [r EXCEPT ![i] = row] \in Rows(L)
           /\ [r EXCEPT ![i] = row][i] = row
           /\ \A j \in 1..L : j # i => [r EXCEPT ![i] = row][j] = r[j]
<1>1. r \in [1..L -> Row]
  BY LenProperties DEF Rows
<1>2. [r EXCEPT ![i] = row] \in [1..L -> Row]
  BY <1>1
<1>3. [r EXCEPT ![i] = row] \in Seq(Row) /\ Len([r EXCEPT ![i] = row]) = L
  BY <1>2, SeqDef, LenProperties DEF Rows
<1> QED
  BY <1>1, <1>3 DEF Rows

LEMMA RowInRows ==
    ASSUME NEW L \in Nat, NEW r \in Rows(L)
    PROVE  /\ r \in Seq(Row) /\ Len(r) = L /\ DOMAIN r = 1..L
           /\ \A i \in 1..L : r[i] \in Row
BY LenProperties, ElementOfSeq DEF Rows

\* The columns of a row the replay counts.
LEMMA RecomputedFacts ==
    ASSUME NEW L \in Nat, NEW run \in Runs(L), NEW row \in Row,
           run.quantity > 0 => run.average > 0,
           ~Refuses(run, row), IsActive(row)
    PROVE  LET new == Recomputed(run, row) IN
           /\ new \in Row
           /\ SameTerms(new, row)
           /\ SellHasAverage(new)
           /\ new.sequence_number = run.visited + 1
           /\ new.quantity_before = run.quantity /\ new.average_before = run.average
           /\ new.quantity_after = run.quantity + Signed(row)
           /\ new.average_after = IF row.side = "BUY" THEN WeightedAverage(run, row)
                                  ELSE run.average
           /\ new.quantity_after > 0 => new.average_after > 0
<1> DEFINE new == Recomputed(run, row)
<1>1. /\ run.quantity \in Nat /\ run.average \in Nat /\ run.visited \in Nat
  BY DEF Runs
<1>2. /\ row.side \in {"BUY", "SELL"} /\ row.quantity \in Nat \ {0}
      /\ row.unit_price \in Nat \ {0}
  BY DEF Row
<1>3. row.side = "SELL" => row.quantity <= run.quantity /\ run.average > 0
  BY <1>1, <1>2 DEF Refuses
<1>4. WeightedAverage(run, row) \in Nat \ {0}
  BY <1>1, <1>2, WeightedAverageFacts DEF WeightedAverage
<1> DEFINE after == IF row.side = "BUY" THEN run.quantity + row.quantity
                                        ELSE run.quantity - row.quantity
           average == IF row.side = "BUY" THEN WeightedAverage(run, row) ELSE run.average
           pnl == IF row.side = "BUY" THEN 0 ELSE row.quantity * (row.unit_price - average)
<1>5. after \in Nat /\ average \in Nat /\ pnl \in Int /\ run.visited + 1 \in Nat \ {0}
  BY <1>1, <1>2, <1>3, <1>4
<1>6. new = [row EXCEPT !.sequence_number = run.visited + 1,
                        !.quantity_before = run.quantity, !.quantity_after = after,
                        !.average_before = run.average, !.average_after = average,
                        !.realized_pnl = pnl]
  BY DEF Recomputed
<1>7. after > 0 => average > 0
  BY <1>1, <1>2, <1>3, <1>4
<1>8. /\ after = run.quantity + Signed(row)
      /\ average = IF row.side = "BUY" THEN WeightedAverage(run, row) ELSE run.average
  BY <1>1, <1>2 DEF Signed
<1> HIDE DEF new, after, average, pnl
<1>9. new \in Row
  BY <1>1, <1>5, <1>6 DEF Row
<1>10. /\ new.side = row.side /\ new.type = row.type /\ new.traded_at = row.traded_at
       /\ new.quantity = row.quantity /\ new.unit_price = row.unit_price
       /\ new.key = row.key /\ new.status = row.status
       /\ new.sequence_number = run.visited + 1
       /\ new.quantity_before = run.quantity /\ new.average_before = run.average
       /\ new.quantity_after = after /\ new.average_after = average
  BY <1>6 DEF Row
<1>11. SameTerms(new, row) /\ SellHasAverage(new)
  BY <1>3, <1>10 DEF SameTerms, SellHasAverage
<1> QED
  BY <1>7, <1>8, <1>9, <1>10, <1>11 DEF new

\* The iteration that visits row i and writes new in its place.
Visits(run, out, i, new) ==
    /\ new \in Row
    /\ out.ledger = [run.ledger EXCEPT ![i] = new]
    /\ out.unvisited = run.unvisited \ {i} /\ out.visited = run.visited + 1
    /\ out.failed = FALSE

\* A voided row only gets its number.
Numbers(run, out, i) ==
    /\ ~IsActive(run.ledger[i])
    /\ Visits(run, out, i, [run.ledger[i] EXCEPT !.sequence_number = run.visited + 1])
    /\ out.quantity = run.quantity /\ out.average = run.average
    /\ out.active = run.active

\* An active row is recomputed and moves the position.
Counts(run, out, i) ==
    LET new == Recomputed(run, run.ledger[i]) IN
    /\ IsActive(run.ledger[i]) /\ ~Refuses(run, run.ledger[i])
    /\ Visits(run, out, i, new)
    /\ out.quantity = new.quantity_after /\ out.average = new.average_after
    /\ out.active = run.active + 1

\* Every iteration that finds a row to visit raises, numbers or counts it.
LEMMA ReplayRowStep ==
    ASSUME NEW L \in Nat, NEW stored \in Seq(Row), Len(stored) = L,
           NEW run \in Runs(L), run.failed = FALSE, run.unvisited # {},
           run.quantity > 0 => run.average > 0
    PROVE  LET i == Earliest(stored, run.unvisited)
               out == ReplayRow(stored, run)
           IN  /\ i \in run.unvisited /\ i \in 1..L /\ run.ledger[i] \in Row
               /\ out \in Runs(L)
               /\ \/ /\ IsActive(run.ledger[i]) /\ Refuses(run, run.ledger[i])
                     /\ out = [run EXCEPT !.failed = TRUE]
                  \/ Numbers(run, out, i)
                  \/ Counts(run, out, i)
<1> DEFINE i == Earliest(stored, run.unvisited)
           row == run.ledger[i]
           new == Recomputed(run, row)
           next == [run EXCEPT !.unvisited = @ \ {i}, !.visited = @ + 1]
           out == ReplayRow(stored, run)
<1>1. DOMAIN stored = 1..L
  BY LenProperties
<1>2. /\ run.ledger \in Rows(L) /\ run.unvisited \in SUBSET (1..L)
      /\ run.visited \in Nat /\ run.quantity \in Nat /\ run.average \in Nat
      /\ run.active \in Nat
  BY DEF Runs
<1>3. i \in run.unvisited /\ i \in 1..L
  BY <1>1, <1>2, EarliestFacts
<1>4. row \in Row
  BY <1>2, <1>3, RowInRows
<1>5. /\ next \in Runs(L) /\ next.ledger = run.ledger
      /\ next.unvisited = run.unvisited \ {i} /\ next.visited = run.visited + 1
      /\ next.quantity = run.quantity /\ next.average = run.average
      /\ next.active = run.active /\ next.failed = FALSE
  <2> HIDE DEF i
  <2>1. run.unvisited \ {i} \in SUBSET (1..L) /\ run.visited + 1 \in Nat
    BY <1>2
  <2> QED
    BY <2>1 DEF Runs
<1>6. /\ ~IsActive(row) =>
            out = [next EXCEPT !.ledger[i].sequence_number = next.visited]
      /\ IsActive(row) /\ Refuses(run, row) => out = [run EXCEPT !.failed = TRUE]
      /\ IsActive(row) /\ ~Refuses(run, row) =>
            out = [next EXCEPT !.ledger[i] = new, !.active = @ + 1,
                               !.quantity = new.quantity_after,
                               !.average = new.average_after]
  BY DEF ReplayRow
<1>7. row = run.ledger[i]
  OBVIOUS
<1>8. SUFFICES /\ out \in Runs(L)
               /\ \/ /\ IsActive(row) /\ Refuses(run, row)
                     /\ out = [run EXCEPT !.failed = TRUE]
                  \/ Numbers(run, out, i)
                  \/ Counts(run, out, i)
  BY <1>3, <1>4
<1> HIDE DEF i, row, next, out
<1>9. CASE ~IsActive(row)
  <2> DEFINE numbered == [row EXCEPT !.sequence_number = run.visited + 1]
  <2>1. out = [next EXCEPT !.ledger = [run.ledger EXCEPT ![i] = numbered]]
    <3>1. out = [next EXCEPT !.ledger[i].sequence_number = next.visited]
      BY <1>9, <1>6
    <3> QED
      BY <3>1, <1>5, <1>7
  <2>2. numbered \in Row
    <3>1. run.visited + 1 \in Nat \ {0}
      BY <1>2
    <3> QED
      BY <1>4, <3>1 DEF Row
  <2>3. numbered = [run.ledger[i] EXCEPT !.sequence_number = run.visited + 1]
    BY <1>7
  <2> HIDE DEF numbered
  <2>4. [run.ledger EXCEPT ![i] = numbered] \in Rows(L)
    BY <1>2, <1>3, <2>2, RowsExcept
  <2>5. /\ out \in Runs(L) /\ out.unvisited = run.unvisited \ {i}
        /\ out.ledger = [run.ledger EXCEPT ![i] = numbered]
        /\ out.visited = run.visited + 1 /\ out.failed = FALSE
        /\ out.quantity = run.quantity /\ out.average = run.average
        /\ out.active = run.active
    BY <2>1, <2>4, <1>5 DEF Runs
  <2>6. Numbers(run, out, i)
    BY <1>7, <1>9, <2>2, <2>3, <2>5 DEF Numbers, Visits
  <2> QED
    BY <2>5, <2>6
<1>10. CASE IsActive(row) /\ Refuses(run, row)
  <2>1. out = [run EXCEPT !.failed = TRUE]
    BY <1>6, <1>10
  <2>2. out \in Runs(L)
    BY <2>1 DEF Runs
  <2> QED
    BY <1>10, <2>1, <2>2
<1>11. CASE IsActive(row) /\ ~Refuses(run, row)
  <2>1. out = [next EXCEPT !.ledger = [run.ledger EXCEPT ![i] = new],
                           !.active = run.active + 1,
                           !.quantity = new.quantity_after,
                           !.average = new.average_after]
    <3>1. out = [next EXCEPT !.ledger[i] = new, !.active = @ + 1,
                             !.quantity = new.quantity_after,
                             !.average = new.average_after]
      BY <1>6, <1>11
    <3> QED
      BY <3>1, <1>5
  <2>2. new \in Row
    BY <1>4, <1>11, RecomputedFacts
  <2>3. new = Recomputed(run, run.ledger[i])
    BY <1>7
  <2> HIDE DEF new
  <2>4. [run.ledger EXCEPT ![i] = new] \in Rows(L)
    BY <1>2, <1>3, <2>2, RowsExcept
  <2>5. new.quantity_after \in Nat /\ new.average_after \in Nat /\ run.active + 1 \in Nat
    <3>1. new.quantity_after \in Nat /\ new.average_after \in Nat
      BY <2>2 DEF Row
    <3> QED
      BY <1>2, <3>1
  <2>6. /\ out \in Runs(L) /\ out.unvisited = run.unvisited \ {i}
        /\ out.ledger = [run.ledger EXCEPT ![i] = new]
        /\ out.visited = run.visited + 1 /\ out.failed = FALSE
        /\ out.quantity = new.quantity_after /\ out.average = new.average_after
        /\ out.active = run.active + 1
    BY <2>1, <2>4, <2>5, <1>5 DEF Runs
  <2>7. Counts(run, out, i)
    BY <1>7, <1>11, <2>2, <2>3, <2>6 DEF Counts, Visits
  <2> QED
    BY <2>6, <2>7
<1> QED
  BY <1>9, <1>10, <1>11

-----------------------------------------------------------------------------
(* What the visited rows say, one invariant of the replay after the other. *)

Active(rows, S) == {i \in S : IsActive(rows[i])}

\* The active rows of S numbered before row i.
Below(rows, S, i) ==
    {j \in Active(rows, S) : rows[j].sequence_number < rows[i].sequence_number}

\* The rows of S, in the order of their numbers, end with quantity q and
\* average price a.
EndsWith(rows, S, q, a) ==
    \/ S = {} /\ q = 0 /\ a = 0
    \/ \E m \in S : /\ \A j \in S : rows[j].sequence_number <= rows[m].sequence_number
                    /\ q = rows[m].quantity_after /\ a = rows[m].average_after

\* A buy of S was as cheap as a, and one as dear.
Between(rows, S, a) ==
    /\ \E j \in S : rows[j].side = "BUY" /\ rows[j].unit_price <= a
    /\ \E j \in S : rows[j].side = "BUY" /\ a <= rows[j].unit_price

\* The rows of S are numbered from 1 in a chain of active rows.
Chained(rows, S, n) ==
    /\ \A i \in S : rows[i].sequence_number \in 1..n
    /\ \A k \in 1..n : \E i \in S : rows[i].sequence_number = k
    /\ \A i, j \in S : rows[i].sequence_number = rows[j].sequence_number => i = j
    /\ \A i \in Active(rows, S) :
          /\ EndsWith(rows, Below(rows, S, i), rows[i].quantity_before, rows[i].average_before)
          /\ rows[i].quantity_after = rows[i].quantity_before + Signed(rows[i])
          /\ Between(rows, Below(rows, S, i) \cup {i}, rows[i].average_after)

Visited(L, run) == (1..L) \ run.unvisited

ChainInv(L, n, run) ==
    LET S == Visited(L, run) IN
    /\ Chained(run.ledger, S, n)
    /\ EndsWith(run.ledger, Active(run.ledger, S), run.quantity, run.average)
    /\ run.average > 0 => Between(run.ledger, Active(run.ledger, S), run.average)
    /\ run.active = 0 <=> Active(run.ledger, S) = {}

TermsInv(rows, run) ==
    \A i \in 1..Len(rows) :
        /\ SameTerms(run.ledger[i], rows[i])
        /\ i \notin run.unvisited => SellHasAverage(run.ledger[i])
        /\ i \in run.unvisited => run.ledger[i] = rows[i]

SumInv(rows, run) ==
    \A s : IsSum(s, Weights(rows, run.unvisited), Len(rows)) => s[Len(rows)] = run.quantity

\* What holds after n iterations, unless one of them raised.
RunInv(rows, n, run) ==
    /\ run \in Runs(Len(rows))
    /\ run.failed = FALSE =>
          /\ run.visited = n /\ Cardinality(run.unvisited) = Len(rows) - n
          /\ run.quantity > 0 => run.average > 0
          /\ TermsInv(rows, run)
          /\ ChainInv(Len(rows), n, run)
          /\ SumInv(rows, run)

VisitsIn(L, run, out, i, new) ==
    L \in Nat /\ run \in Runs(L) /\ i \in run.unvisited /\ Visits(run, out, i, new)

\* The rows but one are what they were.
LEMMA VisitsFacts ==
    ASSUME NEW L, NEW run, NEW out, NEW i, NEW new, VisitsIn(L, run, out, i, new)
    PROVE  /\ i \in 1..L /\ i \notin Visited(L, run)
           /\ out.ledger[i] = new
           /\ \A j \in 1..L : j # i => out.ledger[j] = run.ledger[j]
           /\ \A j \in Visited(L, run) : out.ledger[j] = run.ledger[j]
           /\ Visited(L, out) = Visited(L, run) \cup {i}
           /\ \A j \in 1..L : run.ledger[j] \in Row
<1> USE DEF VisitsIn
<1>1. run.ledger \in Rows(L) /\ run.unvisited \in SUBSET (1..L)
  BY DEF Runs
<1>2. out.ledger = [run.ledger EXCEPT ![i] = new] /\ new \in Row
      /\ out.unvisited = run.unvisited \ {i}
  BY DEF Visits
<1>3. /\ out.ledger[i] = new
      /\ \A j \in 1..L : j # i => out.ledger[j] = run.ledger[j]
  BY <1>1, <1>2, RowsExcept
<1>4. \A j \in 1..L : run.ledger[j] \in Row
  BY <1>1, RowInRows
<1> QED
  BY <1>1, <1>2, <1>3, <1>4 DEF Visited

LEMMA TermsStep ==
    ASSUME NEW rows \in Seq(Row), VoidedSellsHaveAverage(rows),
           NEW run \in Runs(Len(rows)), run.quantity > 0 => run.average > 0,
           TermsInv(rows, run), NEW out, NEW i \in run.unvisited,
           Numbers(run, out, i) \/ Counts(run, out, i)
    PROVE  TermsInv(rows, out) /\ (out.quantity > 0 => out.average > 0)
<1> DEFINE L == Len(rows)
           row == run.ledger[i]
<1>1. L \in Nat /\ DOMAIN rows = 1..L
  BY LenProperties
<1>2. PICK new : Visits(run, out, i, new) /\ SameTerms(new, row) /\ SellHasAverage(new)
                 /\ (out.quantity > 0 => out.average > 0)
  <2>1. i \in 1..L /\ row \in Row
    BY <1>1, RowInRows DEF Runs
  <2>2. row = rows[i] /\ rows[i] \in Row
    BY <2>1 DEF TermsInv
  <2>3. CASE Numbers(run, out, i)
    <3> DEFINE new == [row EXCEPT !.sequence_number = run.visited + 1]
    <3>1. /\ new.side = row.side /\ new.type = row.type /\ new.traded_at = row.traded_at
          /\ new.quantity = row.quantity /\ new.unit_price = row.unit_price
          /\ new.key = row.key /\ new.status = row.status
          /\ new.average_before = row.average_before
          /\ new.sequence_number = run.visited + 1
      BY <2>1 DEF Row
    <3>2. new = [row EXCEPT !.sequence_number = new.sequence_number]
      BY <3>1
    <3>3. Visits(run, out, i, new) /\ ~IsActive(row)
          /\ out.quantity = run.quantity /\ out.average = run.average
      BY <2>3 DEF Numbers
    <3>4. SellHasAverage(row)
      BY <1>1, <2>1, <2>2, <3>3 DEF VoidedSellsHaveAverage
    <3> HIDE DEF new, row
    <3>5. SameTerms(new, row)
      BY <3>1, <3>2 DEF SameTerms
    <3>6. SellHasAverage(new)
      BY <3>1, <3>4 DEF SellHasAverage
    <3> QED
      BY <3>3, <3>5, <3>6
  <2>4. CASE Counts(run, out, i)
    <3> DEFINE new == Recomputed(run, row)
    <3>1. /\ IsActive(row) /\ ~Refuses(run, row) /\ Visits(run, out, i, new)
          /\ out.quantity = new.quantity_after /\ out.average = new.average_after
      BY <2>4 DEF Counts
    <3> HIDE DEF row
    <3>2. SameTerms(new, row) /\ SellHasAverage(new)
          /\ (new.quantity_after > 0 => new.average_after > 0)
      BY <1>1, <2>1, <3>1, RecomputedFacts
    <3> HIDE DEF new
    <3> QED
      BY <3>1, <3>2
  <2> QED
    BY <2>3, <2>4
<1>3. /\ i \in 1..L /\ out.ledger[i] = new
      /\ \A j \in 1..L : j # i => out.ledger[j] = run.ledger[j]
  <2>1. VisitsIn(L, run, out, i, new)
    BY <1>1, <1>2 DEF VisitsIn
  <2> QED
    BY <2>1, VisitsFacts
<1>4. out.unvisited = run.unvisited \ {i}
  BY <1>2 DEF Visits
<1>5. ASSUME NEW j \in 1..L
      PROVE  /\ SameTerms(out.ledger[j], rows[j])
             /\ j \notin out.unvisited => SellHasAverage(out.ledger[j])
             /\ j \in out.unvisited => out.ledger[j] = rows[j]
  <2>1. CASE j = i
    <3>1. row = rows[i]
      BY <1>3 DEF TermsInv
    <3> QED
      BY <1>2, <1>3, <1>4, <2>1, <3>1
  <2>2. CASE j # i
    <3>1. out.ledger[j] = run.ledger[j] /\ (j \in out.unvisited <=> j \in run.unvisited)
      BY <1>3, <1>4, <2>2
    <3>2. /\ SameTerms(run.ledger[j], rows[j])
          /\ j \notin run.unvisited => SellHasAverage(run.ledger[j])
          /\ j \in run.unvisited => run.ledger[j] = rows[j]
      BY DEF TermsInv
    <3> QED
      BY <3>1, <3>2
  <2> QED
    BY <2>1, <2>2
<1> QED
  BY <1>2, <1>5 DEF TermsInv

LEMMA SumStep ==
    ASSUME NEW rows \in Seq(Row), NEW run \in Runs(Len(rows)),
           SumInv(rows, run), NEW out, NEW i \in run.unvisited,
           run.ledger[i] = rows[i], run.quantity > 0 => run.average > 0,
           Numbers(run, out, i) \/ Counts(run, out, i)
    PROVE  SumInv(rows, out)
<1> DEFINE L == Len(rows)
           w == Weights(rows, run.unvisited)
           v == Weights(rows, out.unvisited)
           d == Contribution(rows[i])
<1>1. L \in Nat /\ DOMAIN rows = 1..L
  BY LenProperties
<1>2. i \in 1..L /\ run.ledger[i] \in Row /\ run.ledger[i] = rows[i]
  <2>1. i \in 1..L /\ run.ledger[i] \in Row
    BY <1>1, RowInRows DEF Runs
  <2> QED
    BY <2>1
<1>3. out.unvisited = run.unvisited \ {i}
  BY DEF Numbers, Counts, Visits
<1>4. w \in [1..L -> Int] /\ v \in [1..L -> Int] /\ d \in Int
  BY <1>2, WeightsType
<1>5. v[i] = w[i] + d /\ \A j \in 1..L : j # i => v[j] = w[j]
  <2>1. w[i] = 0 /\ v[i] = d
    BY <1>2, <1>3 DEF Weights
  <2>2. \A j \in 1..L : j # i => v[j] = w[j]
    BY <1>3 DEF Weights
  <2> HIDE DEF w, v, d
  <2> QED
    BY <1>4, <2>1, <2>2
<1>6. run.quantity \in Int /\ out.quantity = run.quantity + d
  <2>1. run.quantity \in Int
    BY DEF Runs
  <2>2. CASE Numbers(run, out, i)
    <3>1. d = 0
      BY <1>2, <2>2 DEF Numbers, Contribution
    <3> HIDE DEF d
    <3> QED
      BY <2>1, <2>2, <3>1 DEF Numbers
  <2>3. CASE Counts(run, out, i)
    <3>1. /\ IsActive(rows[i]) /\ ~Refuses(run, rows[i])
          /\ out.quantity = Recomputed(run, rows[i]).quantity_after
      BY <1>2, <2>3 DEF Counts
    <3>2. Recomputed(run, rows[i]).quantity_after = run.quantity + Signed(rows[i])
      BY <1>1, <1>2, <3>1, RecomputedFacts
    <3>3. d = Signed(rows[i])
      BY <3>1 DEF Contribution
    <3> HIDE DEF d
    <3> QED
      BY <2>1, <3>1, <3>2, <3>3
  <2> QED
    BY <2>1, <2>2, <2>3
<1> HIDE DEF w, v, d, L
<1>7. ASSUME NEW t, IsSum(t, v, L)
      PROVE  t[L] = out.quantity
  <2>1. PICK s : IsSum(s, w, L)
    BY <1>1, <1>4, SumExists
  <2>2. s[L] = run.quantity
    BY <2>1 DEF SumInv, L, w
  <2>3. t[L] = s[L] + d
    <3>1. DifferBy(L, w, v, i, d)
      BY <1>2, <1>4, <1>5 DEF L, DifferBy
    <3> QED
      BY <1>1, <1>7, <2>1, <3>1, SumChanges
  <2> QED
    BY <1>6, <2>2, <2>3
<1> QED
  BY <1>7 DEF SumInv, L, v


-----------------------------------------------------------------------------
(* One more row at the end of a chain.                                     *)

\* The rows of q are those of r on S, and row i comes after them.
GoesOn(r, q, S, i, n) ==
    /\ n \in Nat /\ i \notin S /\ Chained(r, S, n)
    /\ \A j \in S : q[j] = r[j]
    /\ q[i].sequence_number = n + 1

LEMMA GoesOnSets ==
    ASSUME NEW r, NEW q, NEW S, NEW i, NEW n, GoesOn(r, q, S, i, n),
           NEW T, T = S \cup {i}
    PROVE  /\ IsActive(q[i]) => Active(q, T) = Active(r, S) \cup {i}
           /\ ~IsActive(q[i]) => Active(q, T) = Active(r, S)
           /\ \A j \in S : Below(q, T, j) = Below(r, S, j)
           /\ Below(q, T, i) = Active(r, S)
<1>2. /\ IsActive(q[i]) => Active(q, T) = Active(r, S) \cup {i}
      /\ ~IsActive(q[i]) => Active(q, T) = Active(r, S)
  BY DEF GoesOn, Active
<1>3. \A j \in S : r[j].sequence_number \in 1..n
  BY DEF GoesOn, Chained
<1>4. n \in Nat /\ ~(n + 1 < n + 1) /\ \A k \in 1..n : k < n + 1 /\ ~(n + 1 < k)
  BY DEF GoesOn
<1>5. ASSUME NEW j \in S
      PROVE  Below(q, T, j) = Below(r, S, j)
  <2>1. q[j] = r[j] /\ ~(q[i].sequence_number < q[j].sequence_number)
    BY <1>3, <1>4 DEF GoesOn
  <2>2. \A k \in Active(r, S) : q[k] = r[k] /\ k # i
    BY DEF GoesOn, Active
  <2> QED
    BY <1>2, <2>1, <2>2 DEF Below
<1>6. Below(q, T, i) = Active(r, S)
  <2>1. \A k \in Active(r, S) : q[k].sequence_number < q[i].sequence_number
    BY <1>3, <1>4 DEF GoesOn, Active
  <2>2. ~(q[i].sequence_number < q[i].sequence_number)
    BY <1>4 DEF GoesOn
  <2> QED
    BY <1>2, <2>1, <2>2 DEF Below
<1> QED
  BY <1>2, <1>5, <1>6

\* What is said of rows that did not change stays said.
LEMMA SameRows ==
    ASSUME NEW r, NEW q, NEW U, \A j \in U : q[j] = r[j]
    PROVE  /\ \A x, y : EndsWith(r, U, x, y) => EndsWith(q, U, x, y)
           /\ \A x : Between(r, U, x) => Between(q, U, x)
<1>1. ASSUME NEW x, NEW y, EndsWith(r, U, x, y)
      PROVE  EndsWith(q, U, x, y)
  BY <1>1, Zenon DEF EndsWith
<1>2. ASSUME NEW x, Between(r, U, x)
      PROVE  Between(q, U, x)
  BY <1>2, Zenon DEF Between
<1> QED
  BY <1>1, <1>2

LEMMA BetweenMore ==
    ASSUME NEW r, NEW U, NEW V, NEW x, Between(r, U, x), U \subseteq V
    PROVE  Between(r, V, x)
BY Zenon DEF Between

\* The numbers stay those of a chain.
LEMMA GoesOnNumbers ==
    ASSUME NEW r, NEW q, NEW S, NEW i, NEW n, GoesOn(r, q, S, i, n)
    PROVE  LET T == S \cup {i} IN
           /\ \A j \in T : q[j].sequence_number \in 1..(n + 1)
           /\ \A k \in 1..(n + 1) : \E j \in T : q[j].sequence_number = k
           /\ \A j, k \in T : q[j].sequence_number = q[k].sequence_number => j = k
<1>1. /\ n \in Nat
      /\ \A j \in S : r[j].sequence_number \in 1..n /\ q[j] = r[j]
      /\ \A k \in 1..n : \E j \in S : r[j].sequence_number = k
      /\ \A j, k \in S : r[j].sequence_number = r[k].sequence_number => j = k
      /\ q[i].sequence_number = n + 1
  BY DEF GoesOn, Chained
<1>2. \A k \in 1..n : k \in 1..(n + 1) /\ k # n + 1
  BY <1>1
<1>3. \A k \in 1..(n + 1) : k = n + 1 \/ k \in 1..n
  BY <1>1
<1>4. n + 1 \in 1..(n + 1)
  BY <1>1
<1>5. \A j \in S \cup {i} : q[j].sequence_number \in 1..(n + 1)
  BY <1>1, <1>2, <1>4
<1>6. \A k \in 1..(n + 1) : \E j \in S \cup {i} : q[j].sequence_number = k
  <2> TAKE k \in 1..(n + 1)
  <2>1. CASE k = n + 1
    BY <1>1, <2>1
  <2>2. CASE k \in 1..n
    <3>1. PICK j \in S : r[j].sequence_number = k
      BY <1>1, <2>2
    <3> QED
      BY <1>1, <3>1
  <2> QED
    BY <1>3, <2>1, <2>2
<1>7. \A j, k \in S \cup {i} : q[j].sequence_number = q[k].sequence_number => j = k
  BY <1>1, <1>2
<1> QED
  BY <1>5, <1>6, <1>7

\* A chain goes on with a row that starts where the chain ended.
LEMMA ChainGoesOn ==
    ASSUME NEW r, NEW q, NEW S, NEW i, NEW n, GoesOn(r, q, S, i, n),
           IsActive(q[i]) =>
              /\ EndsWith(r, Active(r, S), q[i].quantity_before, q[i].average_before)
              /\ q[i].quantity_after = q[i].quantity_before + Signed(q[i])
              /\ Between(q, Active(r, S) \cup {i}, q[i].average_after)
    PROVE  Chained(q, S \cup {i}, n + 1)
<1> DEFINE T == S \cup {i}
<1>1. /\ IsActive(q[i]) => Active(q, T) = Active(r, S) \cup {i}
      /\ ~IsActive(q[i]) => Active(q, T) = Active(r, S)
      /\ \A j \in S : Below(q, T, j) = Below(r, S, j)
      /\ Below(q, T, i) = Active(r, S)
  BY GoesOnSets
<1>2. \A j \in S : q[j] = r[j]
  BY DEF GoesOn
<1>3. ASSUME NEW j \in Active(q, T)
      PROVE  /\ EndsWith(q, Below(q, T, j), q[j].quantity_before, q[j].average_before)
             /\ q[j].quantity_after = q[j].quantity_before + Signed(q[j])
             /\ Between(q, Below(q, T, j) \cup {j}, q[j].average_after)
  <2>1. CASE j \in Active(r, S)
    <3>1. j \in S /\ q[j] = r[j] /\ Below(q, T, j) = Below(r, S, j)
      BY <1>1, <1>2, <2>1 DEF Active
    <3>2. /\ EndsWith(r, Below(r, S, j), q[j].quantity_before, q[j].average_before)
          /\ q[j].quantity_after = q[j].quantity_before + Signed(q[j])
          /\ Between(r, Below(r, S, j) \cup {j}, q[j].average_after)
      BY <2>1, <3>1 DEF GoesOn, Chained
    <3>3. /\ \A k \in Below(r, S, j) : q[k] = r[k]
          /\ \A k \in Below(r, S, j) \cup {j} : q[k] = r[k]
      BY <1>2, <3>1 DEF Below, Active
    <3>4. EndsWith(q, Below(r, S, j), q[j].quantity_before, q[j].average_before)
      BY <3>2, <3>3, SameRows
    <3>5. Between(q, Below(r, S, j) \cup {j}, q[j].average_after)
      BY <3>2, <3>3, SameRows
    <3> QED
      BY <3>1, <3>2, <3>4, <3>5
  <2>2. CASE j = i /\ IsActive(q[i])
    <3>1. \A k \in Active(r, S) : q[k] = r[k]
      BY <1>2 DEF Active
    <3>2. EndsWith(q, Active(r, S), q[i].quantity_before, q[i].average_before)
      BY <2>2, <3>1, SameRows
    <3> QED
      BY <1>1, <2>2, <3>2
  <2> QED
    BY <1>1, <2>1, <2>2
<1>4. /\ \A j \in T : q[j].sequence_number \in 1..(n + 1)
      /\ \A k \in 1..(n + 1) : \E j \in T : q[j].sequence_number = k
      /\ \A j, k \in T : q[j].sequence_number = q[k].sequence_number => j = k
  BY GoesOnNumbers
<1> HIDE DEF T
<1>5. Chained(q, T, n + 1)
  BY <1>3, <1>4, Zenon DEF Chained
<1> QED
  BY <1>5 DEF T

\* The average price after row, if it is not refused.
AverageAfter(run, row) == IF row.side = "BUY" THEN WeightedAverage(run, row) ELSE run.average

\* The average price after a row lies between the prices of the buys up to it.
LEMMA AverageStep ==
    ASSUME NEW run, run.quantity \in Nat, run.average \in Nat, NEW q, NEW U, NEW i,
           run.quantity > 0 => run.average > 0,
           run.average > 0 => Between(q, U, run.average),
           \A j \in U : q[j] \in Row,
           NEW row, row \in Row, ~Refuses(run, row),
           q[i].side = row.side, q[i].unit_price = row.unit_price,
           NEW a, a = AverageAfter(run, row)
    PROVE  Between(q, U \cup {i}, a)
<1> USE DEF AverageAfter
<1>1. run.quantity \in Nat /\ run.average \in Nat
  OBVIOUS
<1>2. /\ row.side \in {"BUY", "SELL"} /\ row.quantity \in Nat \ {0}
      /\ row.unit_price \in Nat \ {0}
  BY DEF Row
<1>3. run.average > 0 => Between(q, U, run.average)
  OBVIOUS
<1>4. CASE row.side = "SELL"
  <2>1. run.average > 0 /\ a = run.average
    BY <1>1, <1>4 DEF Refuses
  <2> QED
    BY <1>3, <2>1, BetweenMore
<1>5. CASE row.side = "BUY"
  <2> DEFINE p == row.unit_price
             Buy(j) == j \in U \cup {i} /\ q[j].side = "BUY" /\ q[j].unit_price \in Nat
  <2>1. Buy(i) /\ q[i].unit_price = p
    BY <1>2, <1>5
  <2>2. \A j \in U : q[j].unit_price \in Nat
    BY DEF Row
  <2>3. PICK lo : Buy(lo) /\ q[lo].unit_price <= p
                  /\ (run.quantity > 0 => q[lo].unit_price <= run.average)
    <3>1. CASE run.quantity > 0
      <4>1. PICK j \in U : q[j].side = "BUY" /\ q[j].unit_price <= run.average
        BY <1>3, <3>1 DEF Between
      <4>2. Buy(j)
        BY <2>2, <4>1
      <4>3. CASE q[j].unit_price <= p
        BY <4>1, <4>2, <4>3
      <4>4. CASE ~(q[j].unit_price <= p)
        <5>1. p <= run.average /\ p <= p
          BY <1>1, <1>2, <2>2, <4>1, <4>4
        <5> QED
          BY <2>1, <5>1
      <4> QED
        BY <4>3, <4>4
    <3>2. CASE ~(run.quantity > 0)
      BY <1>2, <2>1, <3>2
    <3> QED
      BY <3>1, <3>2
  <2>4. PICK hi : Buy(hi) /\ p <= q[hi].unit_price
                  /\ (run.quantity > 0 => run.average <= q[hi].unit_price)
    <3>1. CASE run.quantity > 0
      <4>1. PICK j \in U : q[j].side = "BUY" /\ run.average <= q[j].unit_price
        BY <1>3, <3>1 DEF Between
      <4>2. Buy(j)
        BY <2>2, <4>1
      <4>3. CASE p <= q[j].unit_price
        BY <4>1, <4>2, <4>3
      <4>4. CASE ~(p <= q[j].unit_price)
        <5>1. run.average <= p /\ p <= p
          BY <1>1, <1>2, <2>2, <4>1, <4>4
        <5> QED
          BY <2>1, <5>1
      <4> QED
        BY <4>3, <4>4
    <3>2. CASE ~(run.quantity > 0)
      BY <1>2, <2>1, <3>2
    <3> QED
      BY <3>1, <3>2
  <2>5. run.quantity = 0 \/ (q[lo].unit_price <= run.average
                             /\ run.average <= q[hi].unit_price)
    BY <1>1, <2>3, <2>4
  <2>6. q[lo].unit_price <= a /\ a <= q[hi].unit_price
    <3>1. a = RoundHalfEven(run.quantity * run.average + row.quantity * p,
                            run.quantity + row.quantity)
      BY <1>5 DEF WeightedAverage
    <3> DEFINE l == q[lo].unit_price
               h == q[hi].unit_price
    <3>2. l \in Nat /\ h \in Nat /\ l <= p /\ p <= h
          /\ (run.quantity = 0 \/ (l <= run.average /\ run.average <= h))
      BY <2>3, <2>4, <2>5
    <3> HIDE DEF l, h, p
    <3>3. p \in Nat \ {0}
      BY <1>2 DEF p
    <3>4. /\ l <= RoundHalfEven(run.quantity * run.average + row.quantity * p,
                                run.quantity + row.quantity)
          /\ RoundHalfEven(run.quantity * run.average + row.quantity * p,
                           run.quantity + row.quantity) <= h
      BY <1>1, <1>2, <3>2, <3>3, WeightedBetween, Zenon
    <3>5. l <= a /\ a <= h
      BY <3>1, <3>4, Zenon
    <3> QED
      BY <3>5 DEF l, h
  <2>7. /\ lo \in U \cup {i} /\ q[lo].side = "BUY"
        /\ hi \in U \cup {i} /\ q[hi].side = "BUY"
    BY <2>3, <2>4
  <2> HIDE DEF Buy, p
  <2> QED
    BY <2>6, <2>7, Zenon DEF Between
<1> QED
  BY <1>2, <1>4, <1>5

LEMMA ChainStep ==
    ASSUME NEW L, L \in Nat, NEW run, run \in Runs(L), run.quantity > 0 => run.average > 0,
           NEW n, n \in Nat, run.visited = n, ChainInv(L, n, run),
           NEW out, NEW i, i \in run.unvisited,
           Numbers(run, out, i) \/ Counts(run, out, i)
    PROVE  ChainInv(L, n + 1, out)
<1> DEFINE S == Visited(L, run)
           r == run.ledger
           q == out.ledger
           A == Active(r, S)
<1>1. /\ Chained(r, S, n) /\ EndsWith(r, A, run.quantity, run.average)
      /\ run.average > 0 => Between(r, A, run.average)
      /\ run.active = 0 <=> A = {}
  BY DEF ChainInv
<1>2. run.active \in Nat /\ run.quantity \in Nat /\ run.average \in Nat
  BY DEF Runs
<1>3. /\ i \in 1..L /\ i \notin S
      /\ \A j \in S : q[j] = r[j] /\ r[j] \in Row
      /\ Visited(L, out) = S \cup {i}
      /\ r[i] \in Row
  <2>1. PICK new : VisitsIn(L, run, out, i, new)
    BY DEF Numbers, Counts, VisitsIn
  <2>2. /\ i \in 1..L /\ i \notin S
        /\ \A j \in S : q[j] = r[j]
        /\ Visited(L, out) = S \cup {i}
        /\ \A j \in 1..L : r[j] \in Row
    BY <2>1, VisitsFacts
  <2>3. S \subseteq 1..L
    BY DEF Visited
  <2> QED
    BY <2>2, <2>3
<1>4. \A j \in A : j \in S
  BY DEF Active
<1>5. CASE Numbers(run, out, i)
  <2>1. /\ q[i] = [r[i] EXCEPT !.sequence_number = n + 1] /\ ~IsActive(r[i])
        /\ out.quantity = run.quantity /\ out.average = run.average
        /\ out.active = run.active
    <3>1. VisitsIn(L, run, out, i, [r[i] EXCEPT !.sequence_number = n + 1])
      BY <1>5 DEF Numbers, VisitsIn
    <3> QED
      BY <1>5, <3>1, VisitsFacts DEF Numbers
  <2>2. q[i].sequence_number = n + 1 /\ ~IsActive(q[i])
    BY <1>3, <2>1 DEF Row, IsActive
  <2> HIDE DEF S, r, q
  <2>3. GoesOn(r, q, S, i, n)
    BY <1>1, <1>3, <2>2 DEF GoesOn
  <2>4. Active(q, S \cup {i}) = A
    BY <2>2, <2>3, GoesOnSets DEF A
  <2>5. Chained(q, S \cup {i}, n + 1)
    BY <2>2, <2>3, ChainGoesOn
  <2> HIDE DEF A
  <2>6. \A j \in A : q[j] = r[j]
    BY <1>3, <1>4
  <2>7. EndsWith(q, A, out.quantity, out.average)
    BY <1>1, <2>1, <2>6, SameRows
  <2>8. out.average > 0 => Between(q, A, out.average)
    BY <1>1, <2>1, <2>6, SameRows
  <2> QED
    BY <1>1, <1>3, <2>1, <2>4, <2>5, <2>7, <2>8 DEF ChainInv, q
<1>6. CASE Counts(run, out, i)
  <2> DEFINE new == Recomputed(run, r[i])
  <2>1. /\ q[i] = new /\ IsActive(r[i]) /\ ~Refuses(run, r[i])
        /\ out.quantity = new.quantity_after /\ out.average = new.average_after
        /\ out.active = run.active + 1
    <3>1. VisitsIn(L, run, out, i, new)
      BY <1>6 DEF Counts, VisitsIn
    <3> QED
      BY <1>6, <3>1, VisitsFacts DEF Counts
  <2> HIDE DEF S, r, q
  <2>2. /\ new \in Row /\ SameTerms(new, r[i]) /\ new.sequence_number = n + 1
        /\ new.quantity_before = run.quantity /\ new.average_before = run.average
        /\ new.quantity_after = run.quantity + Signed(r[i])
        /\ new.average_after = IF r[i].side = "BUY" THEN WeightedAverage(run, r[i])
                               ELSE run.average
    BY <1>3, <2>1, RecomputedFacts
  <2>3. /\ new.side = r[i].side /\ new.unit_price = r[i].unit_price
        /\ IsActive(new) /\ Signed(new) = Signed(r[i])
    BY <2>1, <2>2 DEF SameTerms, IsActive, Signed
  <2> HIDE DEF new, A
  <2>4. GoesOn(r, q, S, i, n)
    BY <1>1, <1>3, <2>1, <2>2 DEF GoesOn
  <2>5. Active(q, S \cup {i}) = A \cup {i}
    BY <2>1, <2>3, <2>4, GoesOnSets DEF A
  <2>6. Between(q, A \cup {i}, new.average_after)
    <3>1. \A j \in A : q[j] = r[j] /\ q[j] \in Row
      BY <1>3, <1>4
    <3>2. run.average > 0 => Between(q, A, run.average)
      BY <1>1, <3>1, SameRows
    <3>3. new.average_after = AverageAfter(run, r[i])
      BY <2>2 DEF AverageAfter
    <3>4. r[i] \in Row /\ ~Refuses(run, r[i])
      BY <1>3, <2>1
    <3>5. q[i].side = r[i].side /\ q[i].unit_price = r[i].unit_price
      BY <2>1, <2>3
    <3> QED
      BY <1>2, <3>1, <3>2, <3>3, <3>4, <3>5, AverageStep
  <2>7. Chained(q, S \cup {i}, n + 1)
    <3>1. /\ EndsWith(r, A, new.quantity_before, new.average_before)
          /\ new.quantity_after = new.quantity_before + Signed(new)
      BY <1>1, <2>2, <2>3
    <3> QED
      BY <2>1, <2>3, <2>4, <2>6, <3>1, ChainGoesOn DEF A
  <2>8. EndsWith(q, A \cup {i}, out.quantity, out.average)
    <3>1. \A j \in S \cup {i} : q[j].sequence_number \in 1..(n + 1)
      BY <2>7 DEF Chained
    <3>2. \A j \in A \cup {i} : q[j].sequence_number <= q[i].sequence_number
      BY <1>4, <2>1, <2>2, <3>1
    <3> QED
      BY <2>1, <3>2, Zenon DEF EndsWith
  <2>9. out.active = 0 <=> A \cup {i} = {}
    BY <1>2, <2>1
  <2> QED
    BY <1>3, <2>1, <2>5, <2>6, <2>7, <2>8, <2>9 DEF ChainInv, q
<1> QED
  BY <1>5, <1>6

-----------------------------------------------------------------------------
(* The whole replay.                                                       *)

\* Before the last iteration there is a row to visit.
LEMMA SomeUnvisited ==
    ASSUME NEW rows \in Seq(Row), NEW n, n \in 0..Len(rows), n < Len(rows),
           NEW run, RunInv(rows, n, run), run.failed = FALSE
    PROVE  IsFiniteSet(run.unvisited) /\ run.unvisited # {}
<1> DEFINE L == Len(rows)
<1>1. L \in Nat /\ n \in Nat /\ n < L /\ run.unvisited \in SUBSET (1..L)
      /\ Cardinality(run.unvisited) = L - n
  BY LenProperties DEF RunInv, Runs
<1> HIDE DEF L
<1>2. IsFiniteSet(run.unvisited)
  <2>1. IsFiniteSet(1..L)
    <3>1. 1 \in Int /\ L \in Int
      BY <1>1
    <3> QED
      BY <3>1, FS_Interval, Zenon
  <2> QED
    BY <1>1, <2>1, FS_Subset
<1>3. run.unvisited # {}
  BY <1>1, <1>2, FS_EmptySet
<1> QED
  BY <1>2, <1>3

LEMMA ReplayRowFacts ==
    ASSUME NEW rows \in Seq(Row), NEW stored \in Seq(Row), Len(stored) = Len(rows),
           VoidedSellsHaveAverage(rows),
           NEW n \in 0..Len(rows), n < Len(rows),
           NEW run, RunInv(rows, n, run)
    PROVE  RunInv(rows, n + 1, ReplayRow(stored, run))
<1> DEFINE L == Len(rows)
           i == Earliest(stored, run.unvisited)
           out == ReplayRow(stored, run)
<1>1. L \in Nat /\ n \in Nat /\ run \in Runs(L) /\ run.failed \in BOOLEAN
      /\ run.unvisited \in SUBSET (1..L)
  BY LenProperties DEF RunInv, Runs
<1>2. CASE run.failed = TRUE
  <2>1. out = run
    BY <1>2 DEF ReplayRow
  <2> QED
    BY <1>1, <1>2, <2>1 DEF RunInv
<1>3. CASE run.failed = FALSE
  <2>1. /\ run.visited = n /\ Cardinality(run.unvisited) = L - n
        /\ run.quantity > 0 => run.average > 0
        /\ TermsInv(rows, run) /\ ChainInv(L, n, run) /\ SumInv(rows, run)
    BY <1>3 DEF RunInv
  <2>2. IsFiniteSet(run.unvisited)
    BY <1>3, SomeUnvisited
  <2>3. run.unvisited # {}
    BY <1>3, SomeUnvisited
  <2>4. /\ i \in run.unvisited /\ out \in Runs(L)
        /\ \/ out = [run EXCEPT !.failed = TRUE]
           \/ Numbers(run, out, i)
           \/ Counts(run, out, i)
    BY <1>1, <1>3, <2>1, <2>3, ReplayRowStep
  <2> HIDE DEF i, out
  <2>5. CASE out = [run EXCEPT !.failed = TRUE]
    <3>1. out.failed = TRUE
      BY <1>1, <2>5 DEF Runs
    <3> QED
      BY <2>4, <3>1 DEF RunInv, out
  <2>6. CASE Numbers(run, out, i) \/ Counts(run, out, i)
    <3>1. out.unvisited = run.unvisited \ {i} /\ out.visited = n + 1
      BY <2>1, <2>6 DEF Numbers, Counts, Visits
    <3>2. Cardinality(out.unvisited) = L - (n + 1)
      <4>1. Cardinality(run.unvisited \ {i}) = L - (n + 1)
        <5>1. Cardinality(run.unvisited \ {i}) = Cardinality(run.unvisited) - 1
          BY <2>2, <2>4, FS_RemoveElement
        <5> QED
          BY <1>1, <2>1, <5>1
      <4> QED
        BY <3>1, <4>1
    <3>3. TermsInv(rows, out) /\ (out.quantity > 0 => out.average > 0)
      BY <1>1, <2>1, <2>4, <2>6, TermsStep
    <3>4. ChainInv(L, n + 1, out)
      BY <1>1, <2>1, <2>4, <2>6, ChainStep
    <3>5. SumInv(rows, out)
      <4>1. run.ledger[i] = rows[i]
        BY <1>1, <2>1, <2>4 DEF TermsInv
      <4> QED
        BY <1>1, <2>1, <2>4, <2>6, <4>1, SumStep
    <3> QED
      BY <2>4, <3>1, <3>2, <3>3, <3>4, <3>5 DEF RunInv, out
  <2> QED
    BY <2>4, <2>5, <2>6
<1> QED
  BY <1>1, <1>2, <1>3

LEMMA ReplayStartFacts ==
    ASSUME NEW rows \in Seq(Row), VoidedSellsHaveAverage(rows)
    PROVE  RunInv(rows, 0, ReplayStart(rows))
<1> DEFINE L == Len(rows)
           run == ReplayStart(rows)
<1>1. L \in Nat /\ DOMAIN rows = 1..L
  BY LenProperties
<1>2. \A i \in 1..L : rows[i] \in Row
  BY <1>1, ElementOfSeq
<1>3. /\ run.ledger = rows /\ run.unvisited = 1..L /\ run.visited = 0
      /\ run.quantity = 0 /\ run.average = 0 /\ run.active = 0 /\ run.failed = FALSE
  BY <1>1 DEF ReplayStart
<1>4. run \in Runs(L)
  <2>1. rows \in Rows(L)
    BY DEF Rows
  <2> QED
    BY <1>1, <2>1 DEF ReplayStart, Runs
<1> HIDE DEF run
<1>5. Cardinality(run.unvisited) = L - 0
  <2>1. Cardinality(1..L) = IF 1 > L THEN 0 ELSE L - 1 + 1
    <3>1. 1 \in Int /\ L \in Int
      BY <1>1
    <3> HIDE DEF L
    <3> QED
      BY <3>1, FS_Interval, Zenon
  <2>2. Cardinality(1..L) = L - 0
    BY <1>1, <2>1
  <2> QED
    BY <1>3, <2>2
<1>6. TermsInv(rows, run)
  <2>1. \A i \in 1..L : rows[i] = [rows[i] EXCEPT !.sequence_number = rows[i].sequence_number]
    BY <1>2 DEF Row
  <2>2. \A i \in 1..L : SameTerms(rows[i], rows[i])
    BY <2>1 DEF SameTerms
  <2> QED
    BY <1>3, <2>2 DEF TermsInv
<1>7. ChainInv(L, 0, run)
  <2>1. Visited(L, run) = {} /\ Active(rows, {}) = {}
    BY <1>3 DEF Visited, Active
  <2>2. Chained(rows, {}, 0)
    BY <2>1 DEF Chained
  <2>3. EndsWith(rows, {}, 0, 0)
    BY DEF EndsWith
  <2>4. ~(0 > 0)
    OBVIOUS
  <2> QED
    BY <1>3, <2>1, <2>2, <2>3, <2>4, Zenon DEF ChainInv
<1>8. SumInv(rows, run)
  <2>1. ASSUME NEW s, IsSum(s, Weights(rows, 1..L), L)
        PROVE  s[L] = 0
    <3>1. \A j \in 1..L : Weights(rows, 1..L)[j] = 0
      BY DEF Weights
    <3> QED
      BY <1>1, <2>1, <3>1, SumOfNothing
  <2> QED
    BY <1>3, <2>1 DEF SumInv
<1> QED
  BY <1>3, <1>4, <1>5, <1>6, <1>7, <1>8 DEF RunInv, run

\* The runs of a replay, one after the other.
IsHistory(f, stored, rows) ==
    /\ f[0] = ReplayStart(rows)
    /\ \A n \in 1..Len(rows) : f[n] = ReplayRow(stored, f[n - 1])

\* The function that ReplayIn defines by recursion exists.
LEMMA ReplayRuns ==
    ASSUME NEW rows, NEW stored, NEW L \in Nat
    PROVE  \E run : run = [n \in 0..L |-> IF n = 0 THEN ReplayStart(rows)
                                          ELSE ReplayRow(stored, run[n - 1])]
<1> DEFINE Good(m, run) == run = [n \in 0..m |-> IF n = 0 THEN ReplayStart(rows)
                                                ELSE ReplayRow(stored, run[n - 1])]
           Done == {m \in 0..L : \E run : Good(m, run)}
<1>1. 0 \in Done
  <2> DEFINE zero == [n \in 0..0 |-> ReplayStart(rows)]
  <2>1. zero = [n \in 0..0 |-> IF n = 0 THEN ReplayStart(rows)
                               ELSE ReplayRow(stored, zero[n - 1])]
    OBVIOUS
  <2>2. \E run : Good(0, run)
    BY <2>1
  <2> HIDE DEF Good
  <2> QED
    BY <2>2
<1>2. ASSUME NEW m \in 0..L, m < L, m \in Done
      PROVE  m + 1 \in Done
  <2>1. PICK f : Good(m, f)
    BY <1>2
  <2> DEFINE g == [n \in 0..(m + 1) |-> IF n = m + 1 THEN ReplayRow(stored, f[m]) ELSE f[n]]
  <2>2. ASSUME NEW n \in 0..(m + 1)
        PROVE  g[n] = IF n = 0 THEN ReplayStart(rows) ELSE ReplayRow(stored, g[n - 1])
    <3>1. CASE n = m + 1
      <4>1. n - 1 = m /\ n # 0 /\ m \in 0..(m + 1) /\ m # m + 1
        BY <3>1
      <4>2. g[n - 1] = f[m]
        BY <4>1
      <4> QED
        BY <3>1, <4>1, <4>2
    <3>2. CASE n = 0
      <4>1. n # m + 1 /\ n \in 0..m
        BY <3>2
      <4> QED
        BY <3>2, <4>1, <2>1
    <3>3. CASE n # 0 /\ n # m + 1
      <4>1. n \in 0..m /\ n - 1 \in 0..(m + 1) /\ n - 1 # m + 1
        BY <3>3
      <4>2. g[n] = f[n] /\ g[n - 1] = f[n - 1]
        BY <3>3, <4>1
      <4>3. f[n] = ReplayRow(stored, f[n - 1])
        BY <2>1, <3>3, <4>1
      <4> QED
        BY <3>3, <4>2, <4>3
    <3> QED
      BY <3>1, <3>2, <3>3
  <2>3. Good(m + 1, g)
    <3>1. DOMAIN g = 0..(m + 1) /\ g = [n \in 0..(m + 1) |-> g[n]]
      OBVIOUS
    <3> HIDE DEF g
    <3> QED
      BY <2>2, <3>1
  <2>4. \E run : Good(m + 1, run)
    BY <2>3
  <2> HIDE DEF Good
  <2> QED
    BY <1>2, <2>4
<1>3. L \in Done
  <2> HIDE DEF Done
  <2>1. \A m \in 0..L : m \in Done
    BY <1>1, <1>2, NatSetInduction
  <2> QED
    BY <2>1
<1> QED
  BY <1>3

LEMMA ReplayHistory ==
    ASSUME NEW rows \in Seq(Row), NEW stored
    PROVE  \E f : IsHistory(f, stored, rows) /\ ReplayIn(stored, rows) = f[Len(rows)]
<1> DEFINE L == Len(rows)
           f == CHOOSE run : run = [n \in 0..L |-> IF n = 0 THEN ReplayStart(rows)
                                                   ELSE ReplayRow(stored, run[n - 1])]
<1>1. L \in Nat
  BY LenProperties
<1>2. ReplayIn(stored, rows) = f[L]
  BY DEF ReplayIn
<1>3. f = [n \in 0..L |-> IF n = 0 THEN ReplayStart(rows) ELSE ReplayRow(stored, f[n - 1])]
  BY <1>1, ReplayRuns
<1> HIDE DEF f
<1>4. f[0] = ReplayStart(rows)
  BY <1>1, <1>3
<1>5. \A n \in 1..L : f[n] = ReplayRow(stored, f[n - 1])
  BY <1>1, <1>3
<1> QED
  BY <1>2, <1>4, <1>5 DEF IsHistory

LEMMA HistoryUnique ==
    ASSUME NEW rows \in Seq(Row), NEW stored, NEW f, IsHistory(f, stored, rows),
           NEW g, IsHistory(g, stored, rows)
    PROVE  f[Len(rows)] = g[Len(rows)]
<1> DEFINE L == Len(rows)
           Done == {n \in 0..L : f[n] = g[n]}
<1>1. L \in Nat
  BY LenProperties
<1>2. 0 \in Done
  BY <1>1 DEF IsHistory
<1>3. ASSUME NEW n \in 0..L, n < L, n \in Done
      PROVE  n + 1 \in Done
  <2>1. n + 1 \in 0..L /\ n + 1 \in 1..L /\ (n + 1) - 1 = n
    BY <1>1, <1>3
  <2>2. f[n + 1] = ReplayRow(stored, f[n]) /\ g[n + 1] = ReplayRow(stored, g[n])
    BY <2>1 DEF IsHistory
  <2> QED
    BY <1>3, <2>1, <2>2
<1>4. \A n \in 0..L : n \in Done
  <2> HIDE DEF Done
  <2> QED
    BY <1>1, <1>2, <1>3, NatSetInduction
<1> QED
  BY <1>1, <1>4

LEMMA HistoryFacts ==
    ASSUME NEW rows \in Seq(Row), NEW stored \in Seq(Row), Len(stored) = Len(rows),
           VoidedSellsHaveAverage(rows), NEW f, IsHistory(f, stored, rows)
    PROVE  \A n \in 0..Len(rows) : RunInv(rows, n, f[n])
<1> DEFINE L == Len(rows)
           Done == {n \in 0..L : RunInv(rows, n, f[n])}
<1>1. L \in Nat
  BY LenProperties
<1>2. 0 \in Done
  BY <1>1, ReplayStartFacts DEF IsHistory
<1>3. ASSUME NEW n \in 0..L, n < L, n \in Done
      PROVE  n + 1 \in Done
  <2>1. n + 1 \in 0..L /\ n + 1 \in 1..L /\ (n + 1) - 1 = n
    BY <1>1, <1>3
  <2>2. f[n + 1] = ReplayRow(stored, f[n])
    BY <2>1 DEF IsHistory
  <2>3. RunInv(rows, n + 1, ReplayRow(stored, f[n]))
    BY <1>3, ReplayRowFacts
  <2> QED
    BY <2>1, <2>2, <2>3
<1>4. \A n \in 0..L : n \in Done
  <2> HIDE DEF Done
  <2> QED
    BY <1>1, <1>2, <1>3, NatSetInduction
<1> QED
  BY <1>4

\* A replay that raises as well ends in a run.
LEMMA ReplayEnds ==
    ASSUME NEW rows \in Seq(Row), NEW stored \in Seq(Row), Len(stored) = Len(rows),
           VoidedSellsHaveAverage(rows)
    PROVE  RunInv(rows, Len(rows), ReplayIn(stored, rows))
<1>1. PICK f : IsHistory(f, stored, rows) /\ ReplayIn(stored, rows) = f[Len(rows)]
  BY ReplayHistory
<1>2. \A n \in 0..Len(rows) : RunInv(rows, n, f[n])
  BY <1>1, HistoryFacts
<1>3. Len(rows) \in 0..Len(rows)
  BY LenProperties
<1> QED
  BY <1>1, <1>2, <1>3

\* The rows tell one story, which ends with a quantity and an average price.
Tells(rows, quantity, average) ==
    LET all == DOMAIN rows IN
    /\ Chained(rows, all, Len(rows))
    /\ EndsWith(rows, Active(rows, all), quantity, average)
    /\ quantity = NetQuantity(rows)

\* Rows with the same terms hold the same quantity.
LEMMA SameNetQuantity ==
    ASSUME NEW rows \in Seq(Row), NEW new \in Seq(Row), Len(new) = Len(rows),
           \A i \in 1..Len(rows) : SameTerms(new[i], rows[i])
    PROVE  NetQuantity(new) = NetQuantity(rows)
<1> DEFINE L == Len(rows)
<1>1. \A i \in 1..L : Contribution(new[i]) = Contribution(rows[i])
  BY DEF SameTerms, Contribution, Signed, IsActive
<1>2. Weights(new, {}) = Weights(rows, {})
  BY <1>1 DEF Weights
<1>3. PICK s : IsSum(s, Weights(rows, {}), L) /\ s[L] = NetQuantity(rows)
  BY NetQuantityIsSum
<1>4. PICK t : IsSum(t, Weights(rows, {}), L) /\ t[L] = NetQuantity(new)
  <2>1. \E t : IsSum(t, Weights(new, {}), Len(new)) /\ t[Len(new)] = NetQuantity(new)
    BY NetQuantityIsSum
  <2> QED
    BY <1>2, <2>1
<1>5. L \in Nat /\ Weights(rows, {}) \in [1..L -> Int]
  BY LenProperties, WeightsType
<1> HIDE DEF L
<1> DEFINE w == Weights(rows, {})
           Done == {n \in 0..L : s[n] = t[n]}
<1>6. 0 \in Done
  BY <1>3, <1>4, <1>5 DEF IsSum
<1>7. ASSUME NEW n \in 0..L, n < L, n \in Done
      PROVE  n + 1 \in Done
  <2>1. n + 1 \in 0..L /\ n + 1 \in 1..L /\ (n + 1) - 1 = n
    BY <1>5, <1>7
  <2>2. s[n + 1] = s[n] + w[n + 1] /\ t[n + 1] = t[n] + w[n + 1]
    BY <1>3, <1>4, <2>1 DEF IsSum
  <2> QED
    BY <1>7, <2>1, <2>2
<1>8. \A n \in 0..L : n \in Done
  <2> HIDE DEF Done
  <2> QED
    BY <1>5, <1>6, <1>7, NatSetInduction
<1> QED
  BY <1>3, <1>4, <1>5, <1>8

\* What a replay that did not raise leaves: every row with its terms, every
\* sell with the average price it sold from, and rows that tell one story.
LEMMA ReplayFacts ==
    ASSUME NEW rows \in Seq(Row), NEW stored \in Seq(Row), Len(stored) = Len(rows),
           VoidedSellsHaveAverage(rows), ReplayIn(stored, rows).failed = FALSE
    PROVE  LET run == ReplayIn(stored, rows) IN
           /\ run \in Runs(Len(rows))
           /\ run.quantity > 0 => run.average > 0
           /\ \A i \in 1..Len(rows) :
                 SameTerms(run.ledger[i], rows[i]) /\ SellHasAverage(run.ledger[i])
           /\ Tells(run.ledger, run.quantity, run.average)
           /\ run.active = 0 <=> Active(run.ledger, DOMAIN run.ledger) = {}
<1> DEFINE L == Len(rows)
           run == ReplayIn(stored, rows)
<1>1. L \in Nat
  BY LenProperties
<1>2. RunInv(rows, L, run)
  BY ReplayEnds
<1>3. run.failed = FALSE
  OBVIOUS
<1> HIDE DEF run
<1>4. /\ run \in Runs(L) /\ Cardinality(run.unvisited) = 0
      /\ run.quantity > 0 => run.average > 0
      /\ TermsInv(rows, run) /\ ChainInv(L, L, run) /\ SumInv(rows, run)
  BY <1>1, <1>2, <1>3 DEF RunInv
<1>5. run.unvisited = {}
  <2>1. run.unvisited \subseteq 1..L
    BY <1>4 DEF Runs
  <2>2. IsFiniteSet(1..L)
    BY <1>1, FS_Interval
  <2> QED
    BY <1>4, <2>1, <2>2, FS_Subset, FS_EmptySet
<1>6. /\ run.ledger \in Seq(Row) /\ Len(run.ledger) = L /\ DOMAIN run.ledger = 1..L
  BY <1>1, <1>4, RowInRows DEF Runs
<1>7. \A i \in 1..L : SameTerms(run.ledger[i], rows[i]) /\ SellHasAverage(run.ledger[i])
  BY <1>4, <1>5 DEF TermsInv
<1>8. Visited(L, run) = 1..L
  BY <1>5 DEF Visited
<1>9. run.quantity = NetQuantity(run.ledger)
  <2>1. PICK s : IsSum(s, Weights(rows, {}), L) /\ s[L] = NetQuantity(rows)
    BY NetQuantityIsSum
  <2>2. s[L] = run.quantity
    BY <1>4, <1>5, <2>1 DEF SumInv
  <2>3. NetQuantity(run.ledger) = NetQuantity(rows)
    BY <1>6, <1>7, SameNetQuantity
  <2> QED
    BY <2>1, <2>2, <2>3
<1>10. /\ Tells(run.ledger, run.quantity, run.average)
       /\ run.active = 0 <=> Active(run.ledger, DOMAIN run.ledger) = {}
  BY <1>4, <1>6, <1>8, <1>9 DEF ChainInv, Tells
<1> QED
  BY <1>4, <1>7, <1>10 DEF run

-----------------------------------------------------------------------------
(* A ledger that was replayed is replayed to itself.                       *)

\* What the iterations after run a leave of it, unless one raises.
Later(L, a, b) ==
    b.failed = FALSE =>
        /\ a.failed = FALSE
        /\ b.unvisited \subseteq a.unvisited
        /\ \A j \in 1..L : j \notin a.unvisited => b.ledger[j] = a.ledger[j]

LEMMA LaterStep ==
    ASSUME NEW rows \in Seq(Row), NEW stored \in Seq(Row), Len(stored) = Len(rows),
           NEW n \in 0..Len(rows), n < Len(rows),
           NEW run, RunInv(rows, n, run)
    PROVE  Later(Len(rows), run, ReplayRow(stored, run))
<1> DEFINE L == Len(rows)
           i == Earliest(stored, run.unvisited)
           out == ReplayRow(stored, run)
<1>1. L \in Nat /\ n \in Nat /\ run \in Runs(L) /\ run.failed \in BOOLEAN
      /\ run.unvisited \in SUBSET (1..L)
  BY LenProperties DEF RunInv, Runs
<1>2. CASE run.failed = TRUE
  <2>1. out = run
    BY <1>2 DEF ReplayRow
  <2> QED
    BY <1>2, <2>1 DEF Later
<1>3. CASE run.failed = FALSE
  <2>1. run.unvisited # {} /\ (run.quantity > 0 => run.average > 0)
    <3>1. run.quantity > 0 => run.average > 0
      BY <1>3 DEF RunInv
    <3> QED
      BY <1>3, <3>1, SomeUnvisited
  <2>2. /\ i \in run.unvisited
        /\ \/ out = [run EXCEPT !.failed = TRUE]
           \/ Numbers(run, out, i)
           \/ Counts(run, out, i)
    BY <1>1, <1>3, <2>1, ReplayRowStep
  <2> HIDE DEF i, out
  <2>3. CASE out = [run EXCEPT !.failed = TRUE]
    <3>1. out.failed = TRUE
      BY <1>1, <2>3 DEF Runs
    <3> QED
      BY <3>1 DEF Later, out
  <2>4. CASE Numbers(run, out, i) \/ Counts(run, out, i)
    <3>1. PICK new : Visits(run, out, i, new)
      BY <2>4 DEF Numbers, Counts
    <3>2. \A j \in 1..L : j # i => out.ledger[j] = run.ledger[j]
      <4>1. i \in run.unvisited /\ L \in Nat /\ run \in Runs(L)
        BY <1>1, <2>2
      <4>2. VisitsIn(L, run, out, i, new)
        BY <3>1, <4>1 DEF VisitsIn
      <4> HIDE DEF L
      <4> QED
        BY <4>2, VisitsFacts
    <3>3. out.unvisited = run.unvisited \ {i}
      BY <3>1 DEF Visits
    <3> QED
      BY <1>3, <2>2, <3>2, <3>3 DEF Later, out
  <2> QED
    BY <2>2, <2>3, <2>4
<1> QED
  BY <1>1, <1>2, <1>3

LEMMA HistoryLater ==
    ASSUME NEW rows \in Seq(Row), NEW stored \in Seq(Row), Len(stored) = Len(rows),
           VoidedSellsHaveAverage(rows), NEW f, IsHistory(f, stored, rows)
    PROVE  \A n \in 0..Len(rows) : Later(Len(rows), f[n], f[Len(rows)])
<1> DEFINE L == Len(rows)
           Done == {k \in 0..L : Later(L, f[L - k], f[L])}
<1>1. L \in Nat /\ \A n \in 0..L : RunInv(rows, n, f[n])
  BY LenProperties, HistoryFacts
<1>2. 0 \in Done
  BY <1>1 DEF Later
<1>3. ASSUME NEW k \in 0..L, k < L, k \in Done
      PROVE  k + 1 \in Done
  <2> DEFINE n == L - (k + 1)
  <2>1. /\ n \in 0..L /\ n < L /\ k + 1 \in 0..L /\ n + 1 \in 1..L
        /\ (n + 1) - 1 = n /\ n + 1 = L - k
    BY <1>1, <1>3
  <2> HIDE DEF n
  <2>2. f[n + 1] = ReplayRow(stored, f[n])
    <3>1. f[n + 1] = ReplayRow(stored, f[(n + 1) - 1])
      BY <2>1 DEF IsHistory
    <3> QED
      BY <2>1, <3>1
  <2>3. Later(L, f[n], f[n + 1])
    BY <1>1, <2>1, <2>2, LaterStep
  <2>4. Later(L, f[n + 1], f[L])
    BY <1>3, <2>1
  <2>5. Later(L, f[n], f[L])
    BY <2>3, <2>4 DEF Later
  <2> QED
    BY <2>1, <2>5 DEF n
<1>4. \A k \in 0..L : k \in Done
  <2> HIDE DEF Done
  <2> QED
    BY <1>1, <1>2, <1>3, NatSetInduction
<1>5. ASSUME NEW n \in 0..L
      PROVE  Later(L, f[n], f[L])
  <2>1. L - n \in 0..L /\ L - (L - n) = n
    BY <1>1
  <2>2. L - n \in Done
    BY <1>4, <2>1
  <2> QED
    BY <2>1, <2>2
<1> QED
  BY <1>5

\* Rows with the same trade times are read in the same order.
LEMMA SameEarliest ==
    ASSUME NEW rows \in Seq(Row), NEW again \in Seq(Row), Len(again) = Len(rows),
           \A i \in 1..Len(rows) : again[i].traded_at = rows[i].traded_at,
           NEW S, S \subseteq 1..Len(rows), S # {}
    PROVE  Earliest(again, S) = Earliest(rows, S)
<1> DEFINE i == Earliest(rows, S)
           j == Earliest(again, S)
<1>1. DOMAIN rows = 1..Len(rows) /\ DOMAIN again = 1..Len(rows) /\ Len(rows) \in Nat
  BY LenProperties
<1>2. /\ i \in S /\ \A k \in S \ {i} : Earlier(rows, i, k)
      /\ j \in S /\ \A k \in S \ {j} : Earlier(again, j, k)
  BY <1>1, EarliestFacts
<1>3. i \in 1..Len(rows) /\ j \in 1..Len(rows)
  BY <1>2
<1> HIDE DEF i, j
<1>4. rows[i].traded_at \in Int /\ rows[j].traded_at \in Int
  <2>1. rows[i] \in Row /\ rows[j] \in Row
    BY <1>1, <1>3, ElementOfSeq
  <2> QED
    BY <2>1 DEF Row
<1>5. SUFFICES ASSUME i # j PROVE FALSE
  BY DEF i, j
<1>6. Earlier(rows, i, j) /\ Earlier(again, j, i)
  BY <1>2, <1>5
<1> QED
  BY <1>1, <1>3, <1>4, <1>6 DEF Earlier

\* A row that was recomputed is recomputed to itself.
LEMMA RecomputedAgain ==
    ASSUME NEW row \in Row, NEW run, NEW again, again.quantity = run.quantity,
           again.average = run.average, again.visited = run.visited,
           Recomputed(run, row) \in Row
    PROVE  /\ Recomputed(again, Recomputed(run, row)) = Recomputed(run, row)
           /\ Refuses(again, Recomputed(run, row)) <=> Refuses(run, row)
<1> DEFINE new == Recomputed(run, row)
           after == IF row.side = "BUY" THEN run.quantity + row.quantity
                                        ELSE run.quantity - row.quantity
           average == IF row.side = "BUY" THEN WeightedAverage(run, row) ELSE run.average
           pnl == IF row.side = "BUY" THEN 0 ELSE row.quantity * (row.unit_price - average)
<1>1. new = [row EXCEPT !.sequence_number = run.visited + 1,
                        !.quantity_before = run.quantity, !.quantity_after = after,
                        !.average_before = run.average, !.average_after = average,
                        !.realized_pnl = pnl]
  BY DEF Recomputed
<1>2. /\ new.side = row.side /\ new.quantity = row.quantity
      /\ new.unit_price = row.unit_price
      /\ new.sequence_number = run.visited + 1
      /\ new.quantity_before = run.quantity /\ new.quantity_after = after
      /\ new.average_before = run.average /\ new.average_after = average
      /\ new.realized_pnl = pnl
  BY <1>1 DEF Row
<1> HIDE DEF new
<1>3. WeightedAverage(again, new) = WeightedAverage(run, row)
  BY <1>2 DEF WeightedAverage
<1>4. Refuses(again, new) <=> Refuses(run, row)
  BY <1>2 DEF Refuses
<1>5. Recomputed(again, new) =
        [new EXCEPT !.sequence_number = run.visited + 1,
                    !.quantity_before = run.quantity, !.quantity_after = after,
                    !.average_before = run.average, !.average_after = average,
                    !.realized_pnl = pnl]
  BY <1>2, <1>3 DEF Recomputed
<1> HIDE DEF after, average, pnl
<1>6. new \in Row
  BY DEF new
<1>7. Recomputed(again, new) = new
  <2>1. Recomputed(again, new) =
          [new EXCEPT !.sequence_number = new.sequence_number,
                      !.quantity_before = new.quantity_before,
                      !.quantity_after = new.quantity_after,
                      !.average_before = new.average_before,
                      !.average_after = new.average_after,
                      !.realized_pnl = new.realized_pnl]
    BY <1>2, <1>5
  <2>2. [new EXCEPT !.sequence_number = new.sequence_number] = new
    BY <1>6 DEF Row
  <2>3. [new EXCEPT !.quantity_before = new.quantity_before] = new
    BY <1>6 DEF Row
  <2>4. [new EXCEPT !.quantity_after = new.quantity_after] = new
    BY <1>6 DEF Row
  <2>5. [new EXCEPT !.average_before = new.average_before] = new
    BY <1>6 DEF Row
  <2>6. [new EXCEPT !.average_after = new.average_after] = new
    BY <1>6 DEF Row
  <2>7. [new EXCEPT !.realized_pnl = new.realized_pnl] = new
    BY <1>6 DEF Row
  <2> QED
    BY <2>1, <2>2, <2>3, <2>4, <2>5, <2>6, <2>7, Zenon
<1> QED
  BY <1>4, <1>7 DEF new

\* The rows last are those of out as far as it has come, with the terms of rows.
Completes(last, out, rows) ==
    /\ last \in Seq(Row) /\ Len(last) = Len(rows)
    /\ \A j \in 1..Len(rows) :
          /\ SameTerms(last[j], rows[j])
          /\ j \notin out.unvisited => last[j] = out.ledger[j]

\* Iteration n + 1 turns run into out and does not raise.
Follows(rows, n, run, out) ==
    /\ n \in 0..Len(rows) /\ n < Len(rows)
    /\ RunInv(rows, n, run) /\ run.failed = FALSE
    /\ out = ReplayRow(rows, run) /\ out.failed = FALSE

\* The same iteration on the rows as the whole replay leaves them.
LEMMA AgainStep ==
    ASSUME NEW rows \in Seq(Row), NEW n, NEW run, NEW out, Follows(rows, n, run, out),
           NEW last, Completes(last, out, rows)
    PROVE  ReplayRow(last, [run EXCEPT !.ledger = last]) = [out EXCEPT !.ledger = last]
<1> USE DEF Follows, Completes
<1> DEFINE L == Len(rows)
           i == Earliest(rows, run.unvisited)
           again == [run EXCEPT !.ledger = last]
           result == ReplayRow(last, again)
<1>1. /\ L \in Nat /\ n \in Nat /\ run \in Runs(L) /\ run.unvisited \in SUBSET (1..L)
      /\ run.ledger \in Rows(L)
  BY LenProperties DEF RunInv, Runs
<1>2. /\ run.unvisited # {} /\ (run.quantity > 0 => run.average > 0)
      /\ TermsInv(rows, run)
  <2>1. (run.quantity > 0 => run.average > 0) /\ TermsInv(rows, run)
    BY DEF RunInv
  <2> QED
    BY <2>1, SomeUnvisited
<1>3. /\ i \in run.unvisited /\ i \in 1..L /\ run.ledger[i] \in Row /\ out \in Runs(L)
      /\ Numbers(run, out, i) \/ Counts(run, out, i)
  <2>1. ~(out = [run EXCEPT !.failed = TRUE])
    BY <1>1 DEF Runs
  <2>2. ReplayRow(rows, run) = out
    OBVIOUS
  <2> QED
    BY <1>1, <1>2, <2>1, <2>2, ReplayRowStep
<1>4. /\ again \in Runs(L) /\ again.ledger = last /\ again.unvisited = run.unvisited
      /\ again.visited = run.visited /\ again.quantity = run.quantity
      /\ again.average = run.average /\ again.active = run.active
      /\ again.failed = FALSE
  <2>1. last \in Rows(L)
    BY DEF Rows
  <2> QED
    BY <1>1, <2>1 DEF Runs
<1>5. Earliest(last, again.unvisited) = i
  <2>1. \A j \in 1..L : last[j].traded_at = rows[j].traded_at
    BY DEF SameTerms
  <2>2. Earliest(last, run.unvisited) = i
    BY <1>1, <1>2, <2>1, SameEarliest
  <2> QED
    BY <1>4, <2>2
<1> HIDE DEF i, again
<1>6. /\ result \in Runs(L)
      /\ \/ IsActive(last[i]) /\ Refuses(again, last[i])
         \/ Numbers(again, result, i)
         \/ Counts(again, result, i)
  <2>1. again.unvisited # {} /\ (again.quantity > 0 => again.average > 0)
    BY <1>2, <1>4
  <2> QED
    BY <1>1, <1>4, <1>5, <2>1, ReplayRowStep
<1> HIDE DEF result
<1>7. \E new : Visits(run, out, i, new)
  BY <1>3 DEF Numbers, Counts
<1>8. /\ out.unvisited = run.unvisited \ {i} /\ last[i] = out.ledger[i]
      /\ out.visited = run.visited + 1
  <2>1. out.unvisited = run.unvisited \ {i} /\ out.visited = run.visited + 1
    BY <1>7 DEF Visits
  <2> QED
    BY <1>3, <2>1
<1>9. last[i] \in Row /\ last \in Rows(L) /\ last \in [1..L -> Row]
  <2>1. last \in Rows(L)
    BY DEF Rows
  <2>2. last \in [1..L -> Row]
    BY LenProperties
  <2> QED
    BY <1>3, <2>1, <2>2
<1>10. ASSUME Visits(again, result, i, last[i]), result.quantity = out.quantity,
              result.average = out.average, result.active = out.active
       PROVE  result = [out EXCEPT !.ledger = last]
  <2>1. [last EXCEPT ![i] = last[i]] = last
    BY <1>9
  <2>2. /\ result.ledger = last /\ result.unvisited = out.unvisited
        /\ result.visited = out.visited /\ result.failed = out.failed
    BY <1>4, <1>8, <1>10, <2>1 DEF Visits
  <2> QED
    BY <1>3, <1>6, <1>9, <1>10, <2>2 DEF Runs
<1>11. CASE Numbers(run, out, i)
  <2>1. /\ ~IsActive(run.ledger[i])
        /\ Visits(run, out, i, [run.ledger[i] EXCEPT !.sequence_number = run.visited + 1])
        /\ out.quantity = run.quantity /\ out.average = run.average
        /\ out.active = run.active
    BY <1>11 DEF Numbers
  <2>2. last[i] = [run.ledger[i] EXCEPT !.sequence_number = run.visited + 1]
    <3>1. VisitsIn(L, run, out, i, [run.ledger[i] EXCEPT !.sequence_number = run.visited + 1])
      BY <1>1, <1>3, <2>1 DEF VisitsIn
    <3> QED
      BY <1>8, <3>1, VisitsFacts
  <2>3. /\ ~IsActive(last[i])
        /\ last[i] = [last[i] EXCEPT !.sequence_number = run.visited + 1]
    BY <1>3, <2>1, <2>2 DEF Row, IsActive
  <2>4. Numbers(again, result, i)
    BY <1>4, <1>6, <2>3 DEF Counts
  <2>5. /\ Visits(again, result, i, last[i]) /\ result.quantity = out.quantity
        /\ result.average = out.average /\ result.active = out.active
    BY <1>4, <2>1, <2>3, <2>4 DEF Numbers
  <2> QED
    BY <1>10, <2>5 DEF result, again
<1>12. CASE Counts(run, out, i)
  <2> DEFINE new == Recomputed(run, run.ledger[i])
  <2>1. /\ IsActive(run.ledger[i]) /\ ~Refuses(run, run.ledger[i])
        /\ Visits(run, out, i, new)
        /\ out.quantity = new.quantity_after /\ out.average = new.average_after
        /\ out.active = run.active + 1
    BY <1>12 DEF Counts
  <2>2. last[i] = new /\ new \in Row /\ SameTerms(new, run.ledger[i])
    <3>1. last[i] = new
      <4>1. VisitsIn(L, run, out, i, new)
        BY <1>1, <1>3, <2>1 DEF VisitsIn
      <4> QED
        BY <1>8, <4>1, VisitsFacts
    <3>2. new \in Row /\ SameTerms(new, run.ledger[i])
      BY <1>1, <1>2, <1>3, <2>1, RecomputedFacts
    <3> QED
      BY <3>1, <3>2
  <2>3. /\ Recomputed(again, last[i]) = last[i]
        /\ ~Refuses(again, last[i])
    BY <1>3, <1>4, <2>1, <2>2, RecomputedAgain
  <2>4. IsActive(last[i])
    BY <2>1, <2>2 DEF SameTerms, IsActive
  <2> HIDE DEF new
  <2>5. Counts(again, result, i)
    BY <1>4, <1>6, <2>3, <2>4 DEF Numbers
  <2>6. /\ Visits(again, result, i, last[i]) /\ result.quantity = out.quantity
        /\ result.average = out.average /\ result.active = out.active
    BY <1>4, <2>1, <2>2, <2>3, <2>5 DEF Counts
  <2> QED
    BY <1>10, <2>6 DEF result, again
<1> QED
  BY <1>3, <1>11, <1>12

\* The rows a replay wrote replay to themselves.
LEMMA ReplayAgain ==
    ASSUME NEW rows \in Seq(Row), VoidedSellsHaveAverage(rows), Replay(rows).failed = FALSE
    PROVE  Replay(Replay(rows).ledger) = Replay(rows)
<1> DEFINE L == Len(rows)
           run == Replay(rows)
           last == run.ledger
<1>1. PICK f : IsHistory(f, rows, rows) /\ run = f[L]
  BY ReplayHistory DEF Replay
<1>2. /\ run \in Runs(L)
      /\ \A j \in 1..L : SameTerms(last[j], rows[j])
  BY ReplayFacts DEF Replay
<1>3. run.failed = FALSE
  OBVIOUS
<1> HIDE DEF run
<1>4. /\ L \in Nat /\ DOMAIN rows = 1..L
      /\ last \in Seq(Row) /\ Len(last) = L /\ DOMAIN last = 1..L
  BY <1>2, LenProperties, RowInRows DEF Runs
<1>5. /\ \A n \in 0..L : RunInv(rows, n, f[n])
      /\ \A n \in 0..L : Later(L, f[n], run)
  BY <1>1, HistoryFacts, HistoryLater
<1> HIDE DEF last
<1> DEFINE g == [n \in 0..L |-> [f[n] EXCEPT !.ledger = last]]
<1>6. g[0] = ReplayStart(last)
  <2>1. f[0] = ReplayStart(rows) /\ 0 \in 0..L
    BY <1>1, <1>4 DEF IsHistory
  <2>2. g[0] = [ReplayStart(rows) EXCEPT !.ledger = last]
    BY <2>1
  <2> HIDE DEF g, L
  <2> QED
    BY <1>4, <2>2 DEF ReplayStart
<1>7. ASSUME NEW n \in 1..L
      PROVE  g[n] = ReplayRow(last, g[n - 1])
  <2>1. n - 1 \in 0..L /\ n - 1 < L /\ n \in 0..L /\ f[n] = ReplayRow(rows, f[n - 1])
    BY <1>1, <1>4 DEF IsHistory
  <2>2. f[n - 1].failed = FALSE /\ f[n].failed = FALSE
    BY <1>3, <1>5, <2>1 DEF Later
  <2>3. \A j \in 1..L : j \notin f[n].unvisited => last[j] = f[n].ledger[j]
    BY <1>3, <1>5, <2>1 DEF Later, last
  <2>4. RunInv(rows, n - 1, f[n - 1])
    BY <1>5, <2>1
  <2>5. Completes(last, f[n], rows)
    BY <1>2, <1>4, <2>3 DEF Completes, last
  <2>6. ReplayRow(last, [f[n - 1] EXCEPT !.ledger = last]) = [f[n] EXCEPT !.ledger = last]
    <3> DEFINE a == f[n - 1]
               b == f[n]
    <3>1. Follows(rows, n - 1, a, b) /\ Completes(last, b, rows)
      BY <2>1, <2>2, <2>4, <2>5 DEF Follows
    <3> HIDE DEF a, b, L
    <3>2. ReplayRow(last, [a EXCEPT !.ledger = last]) = [b EXCEPT !.ledger = last]
      BY <3>1, AgainStep
    <3> QED
      BY <3>2 DEF a, b
  <2> QED
    BY <2>1, <2>6
<1>8. IsHistory(g, last, last)
  <2> HIDE DEF g
  <2> QED
    BY <1>4, <1>6, <1>7 DEF IsHistory
<1>9. g[L] = run
  <2>1. g[L] = [run EXCEPT !.ledger = last]
    BY <1>1, <1>4
  <2> QED
    BY <1>2, <2>1 DEF Runs, last
<1> HIDE DEF g
<1>10. PICK h : IsHistory(h, last, last) /\ Replay(last) = h[L]
  BY <1>4, ReplayHistory DEF Replay
<1>11. h[L] = g[L]
  BY <1>4, <1>8, <1>10, HistoryUnique
<1> QED
  BY <1>9, <1>10, <1>11 DEF last, run
-----------------------------------------------------------------------------
(* A ledger whose average never changes, as one that begins with a buy of  *)
(* all that is sold later.  Its replay changes nothing but the numbers.    *)

Ahead(rows, i) == {j \in DOMAIN rows : IsActive(rows[j]) /\ Earlier(rows, j, i)}

\* The columns of row i are those that the replay counts.
FlatRow(rows, price, i) ==
    LET row == rows[i] IN
    /\ \A s : IsSum(s, Weights(rows, {j \in DOMAIN rows : ~Earlier(rows, j, i)}), Len(rows))
                 => s[Len(rows)] = row.quantity_before
    /\ row.quantity_after = row.quantity_before + Signed(row)
    /\ row.average_before = (IF Ahead(rows, i) = {} THEN 0 ELSE price)
    /\ row.average_after = price
    /\ row.side = "BUY" => /\ Ahead(rows, i) = {} /\ row.quantity_before = 0
                           /\ row.unit_price = price /\ row.realized_pnl = 0
    /\ row.side = "SELL" => /\ Ahead(rows, i) # {}
                            /\ row.realized_pnl = row.quantity * (row.unit_price - price)

Flat(rows, price) ==
    /\ rows \in Seq(Row) /\ price \in Nat \ {0}
    /\ \A i \in DOMAIN rows : IsActive(rows[i]) => FlatRow(rows, price, i)

Renumbered(new, old) == new = [old EXCEPT !.sequence_number = new.sequence_number]

\* What holds after n iterations.
FlatRun(rows, price, n, run) ==
    LET L == Len(rows) IN
    /\ run \in Runs(L) /\ run.failed = FALSE
    /\ Cardinality(run.unvisited) = L - n
    /\ \A i \in 1..L : /\ Renumbered(run.ledger[i], rows[i])
                       /\ i \in run.unvisited => run.ledger[i] = rows[i]
    /\ \A i \in Visited(L, run), j \in run.unvisited : Earlier(rows, i, j)
    /\ SumInv(rows, run)
    /\ run.active = 0 <=> \A i \in Visited(L, run) : ~IsActive(rows[i])
    /\ run.average = (IF run.active = 0 THEN 0 ELSE price)
    /\ run.active = 0 => run.quantity = 0

\* No two rows are each earlier than the other.
LEMMA EarlierOneWay ==
    ASSUME NEW rows \in Seq(Row), NEW i \in 1..Len(rows), NEW j \in 1..Len(rows)
    PROVE  ~(Earlier(rows, i, j) /\ Earlier(rows, j, i)) /\ ~Earlier(rows, i, i)
<1>1. Len(rows) \in Nat /\ rows[i] \in Row /\ rows[j] \in Row
  BY LenProperties, ElementOfSeq
<1>2. rows[i].traded_at \in Int /\ rows[j].traded_at \in Int
  BY <1>1 DEF Row
<1> QED
  BY <1>1, <1>2 DEF Earlier

\* A row whose columns are the running values is recomputed to itself.
LEMMA RecomputedFlat ==
    ASSUME NEW row, row \in Row, NEW run, NEW price, price \in Nat \ {0},
           run.quantity \in Nat, run.average \in Nat,
           row.quantity_before = run.quantity, row.average_before = run.average,
           row.quantity_after = row.quantity_before + Signed(row),
           row.average_after = price,
           row.side = "BUY" => row.quantity_before = 0 /\ row.unit_price = price
                               /\ row.realized_pnl = 0,
           row.side = "SELL" => run.average = price
                                /\ row.realized_pnl = row.quantity * (row.unit_price - price)
    PROVE  /\ Recomputed(run, row) = [row EXCEPT !.sequence_number = run.visited + 1]
           /\ ~Refuses(run, row)
<1>1. /\ row.side \in {"BUY", "SELL"} /\ row.quantity \in Nat \ {0}
      /\ row.quantity_after \in Nat /\ row.quantity_before \in Nat
  BY DEF Row
<1> DEFINE after == IF row.side = "BUY" THEN run.quantity + row.quantity
                                        ELSE run.quantity - row.quantity
           average == IF row.side = "BUY" THEN WeightedAverage(run, row) ELSE run.average
           pnl == IF row.side = "BUY" THEN 0 ELSE row.quantity * (row.unit_price - average)
<1>2. after = row.quantity_after
  BY <1>1 DEF Signed
<1>3. average = price
  <2>1. CASE row.side = "BUY"
    <3>1. run.quantity = 0 /\ row.unit_price = price
      BY <2>1
    <3>2. /\ 0 * run.average + row.quantity * price \in Nat
          /\ 0 + row.quantity \in Nat \ {0}
          /\ price * (0 + row.quantity) <= 0 * run.average + row.quantity * price
          /\ 0 * run.average + row.quantity * price <= price * (0 + row.quantity)
      BY <1>1
    <3>3. RoundHalfEven(0 * run.average + row.quantity * price, 0 + row.quantity) \in Nat
      BY <3>2, RoundHalfEvenFacts
    <3>4. RoundHalfEven(0 * run.average + row.quantity * price, 0 + row.quantity) = price
      <4> DEFINE n == 0 * run.average + row.quantity * price
                 d == 0 + row.quantity
      <4>1. n \in Nat /\ d \in Nat \ {0} /\ price * d <= n /\ n <= price * d
        BY <3>2
      <4> HIDE DEF n, d
      <4>2. price <= RoundHalfEven(n, d) /\ RoundHalfEven(n, d) <= price
        BY <4>1, RoundBetween
      <4>3. RoundHalfEven(n, d) \in Nat
        BY <4>1, RoundHalfEvenFacts
      <4> QED
        BY <4>2, <4>3 DEF n, d
    <3> QED
      BY <2>1, <3>1, <3>4 DEF WeightedAverage
  <2>2. CASE row.side # "BUY"
    BY <1>1, <2>2
  <2> QED
    BY <2>1, <2>2
<1>4. pnl = row.realized_pnl
  BY <1>1, <1>3
<1>5. Recomputed(run, row) =
        [row EXCEPT !.sequence_number = run.visited + 1,
                    !.quantity_before = run.quantity, !.quantity_after = after,
                    !.average_before = run.average, !.average_after = average,
                    !.realized_pnl = pnl]
  BY DEF Recomputed
<1> HIDE DEF after, average, pnl
<1>6. Recomputed(run, row) = [row EXCEPT !.sequence_number = run.visited + 1]
  <2> DEFINE r == [row EXCEPT !.sequence_number = run.visited + 1]
  <2>1. Recomputed(run, row) =
          [r EXCEPT !.quantity_before = r.quantity_before,
                    !.quantity_after = r.quantity_after,
                    !.average_before = r.average_before,
                    !.average_after = r.average_after,
                    !.realized_pnl = r.realized_pnl]
    BY <1>2, <1>3, <1>4, <1>5 DEF Row
  <2> QED
    BY <2>1 DEF Row
<1>7. ~Refuses(run, row)
  BY <1>1 DEF Refuses, Signed
<1> QED
  BY <1>6, <1>7

\* What the iterations before it leave is what a row says was held before it.
LEMMA FlatBefore ==
    ASSUME NEW rows, NEW price, Flat(rows, price), NEW n, NEW run, FlatRun(rows, price, n, run),
           NEW i \in run.unvisited, \A j \in run.unvisited \ {i} : Earlier(rows, i, j),
           IsActive(rows[i])
    PROVE  /\ rows[i].quantity_before = run.quantity
           /\ rows[i].average_before = run.average
           /\ rows[i].side = "SELL" => run.average = price
<1> DEFINE L == Len(rows)
<1>1. L \in Nat /\ DOMAIN rows = 1..L /\ rows \in Seq(Row)
  BY LenProperties DEF Flat
<1>2. run.unvisited \in SUBSET (1..L) /\ i \in 1..L
  BY DEF FlatRun, Runs
<1>3. FlatRow(rows, price, i)
  BY <1>1, <1>2 DEF Flat
<1>4. {j \in DOMAIN rows : ~Earlier(rows, j, i)} = run.unvisited
  <2>1. \A j \in 1..L : j \notin run.unvisited => Earlier(rows, j, i)
    BY <1>1 DEF FlatRun, Visited
  <2>2. \A j \in run.unvisited : ~Earlier(rows, j, i)
    BY <1>1, <1>2, EarlierOneWay
  <2> QED
    BY <1>1, <1>2, <2>1, <2>2
<1>5. rows[i].quantity_before = run.quantity
  <2>1. Weights(rows, run.unvisited) \in [1..L -> Int]
    BY <1>1, WeightsType
  <2>2. PICK s : IsSum(s, Weights(rows, run.unvisited), L)
    BY <1>1, <2>1, SumExists
  <2>3. s[L] = run.quantity
    BY <2>2 DEF FlatRun, SumInv
  <2>4. s[L] = rows[i].quantity_before
    BY <1>3, <1>4, <2>2 DEF FlatRow
  <2> QED
    BY <2>3, <2>4
<1>6. Ahead(rows, i) = {} <=> run.active = 0
  <2>1. Ahead(rows, i) = {j \in Visited(L, run) : IsActive(rows[j])}
    BY <1>1, <1>2, <1>4 DEF Ahead, Visited
  <2>2. run.active = 0 <=> \A j \in Visited(L, run) : ~IsActive(rows[j])
    BY DEF FlatRun
  <2> QED
    BY <2>1, <2>2
<1>7. run.average = (IF run.active = 0 THEN 0 ELSE price)
  BY DEF FlatRun
<1> QED
  BY <1>3, <1>5, <1>6, <1>7 DEF FlatRow

\* An iteration keeps FlatRun.
LEMMA FlatStep ==
    ASSUME NEW rows, NEW price, Flat(rows, price), NEW n \in 0..Len(rows), n < Len(rows),
           NEW run, FlatRun(rows, price, n, run)
    PROVE  FlatRun(rows, price, n + 1, ReplayRow(rows, run))
<1> DEFINE L == Len(rows)
           i == Earliest(rows, run.unvisited)
           out == ReplayRow(rows, run)
<1>1. /\ L \in Nat /\ DOMAIN rows = 1..L /\ rows \in Seq(Row) /\ n \in Nat /\ n < L
      /\ price \in Nat \ {0}
  BY LenProperties DEF Flat
<1>2. /\ run \in Runs(L) /\ run.failed = FALSE /\ Cardinality(run.unvisited) = L - n
      /\ run.unvisited \in SUBSET (1..L) /\ run.quantity \in Nat /\ run.average \in Nat
      /\ run.active \in Nat /\ run.visited \in Nat
      /\ run.quantity > 0 => run.average > 0
  <2>1. /\ run.average = (IF run.active = 0 THEN 0 ELSE price)
        /\ run.active = 0 => run.quantity = 0
    BY DEF FlatRun
  <2> QED
    BY <1>1, <2>1 DEF FlatRun, Runs
<1>3. IsFiniteSet(run.unvisited) /\ run.unvisited # {}
  <2> HIDE DEF L
  <2>1. 1 \in Int /\ L \in Int /\ L - n # 0
    BY <1>1
  <2>2. IsFiniteSet(1..L)
    BY <2>1, FS_Interval, Zenon
  <2>3. IsFiniteSet(run.unvisited)
    BY <1>2, <2>2, FS_Subset
  <2> QED
    BY <1>2, <2>1, <2>3, FS_EmptySet
<1>4. \A j \in run.unvisited \ {i} : Earlier(rows, i, j)
  BY <1>1, <1>2, <1>3, EarliestFacts
<1>5. /\ i \in run.unvisited /\ i \in 1..L /\ run.ledger[i] \in Row /\ out \in Runs(L)
      /\ \/ /\ IsActive(run.ledger[i]) /\ Refuses(run, run.ledger[i])
            /\ out = [run EXCEPT !.failed = TRUE]
         \/ Numbers(run, out, i)
         \/ Counts(run, out, i)
  BY <1>1, <1>2, <1>3, ReplayRowStep
<1> HIDE DEF i, out
<1>6. run.ledger[i] = rows[i] /\ rows[i] \in Row
  BY <1>5 DEF FlatRun
<1>7. ASSUME IsActive(rows[i])
      PROVE  /\ Recomputed(run, rows[i]) = [rows[i] EXCEPT !.sequence_number = run.visited + 1]
             /\ ~Refuses(run, rows[i])
  <2>1. /\ rows[i].quantity_before = run.quantity
        /\ rows[i].average_before = run.average
        /\ rows[i].side = "SELL" => run.average = price
    BY <1>4, <1>5, <1>7, FlatBefore
  <2>2. FlatRow(rows, price, i)
    BY <1>1, <1>5, <1>7 DEF Flat
  <2>3. /\ rows[i].quantity_after = rows[i].quantity_before + Signed(rows[i])
        /\ rows[i].average_after = price
        /\ rows[i].side = "BUY" => rows[i].quantity_before = 0 /\ rows[i].unit_price = price
                                   /\ rows[i].realized_pnl = 0
        /\ rows[i].side = "SELL" =>
              rows[i].realized_pnl = rows[i].quantity * (rows[i].unit_price - price)
    BY <2>2 DEF FlatRow
  <2> DEFINE row == rows[i]
  <2>4. row \in Row /\ price \in Nat \ {0} /\ run.quantity \in Nat /\ run.average \in Nat
    BY <1>1, <1>2, <1>6
  <2> HIDE DEF row
  <2> QED
    BY <2>1, <2>3, <2>4, RecomputedFlat DEF row
<1> DEFINE new == [rows[i] EXCEPT !.sequence_number = run.visited + 1]
<1>8. /\ Visits(run, out, i, new)
      /\ IF IsActive(rows[i])
         THEN /\ Counts(run, out, i)
              /\ out.average = rows[i].average_after /\ out.active = run.active + 1
         ELSE /\ Numbers(run, out, i)
              /\ out.average = run.average /\ out.active = run.active
              /\ out.quantity = run.quantity
  <2>1. CASE IsActive(rows[i])
    <3>1. Counts(run, out, i)
      BY <1>5, <1>6, <1>7, <2>1 DEF Numbers
    <3>2. new.average_after = rows[i].average_after
      BY <1>6 DEF Row
    <3> QED
      BY <1>6, <1>7, <2>1, <3>1, <3>2 DEF Counts
  <2>2. CASE ~IsActive(rows[i])
    <3>1. Numbers(run, out, i)
      BY <1>5, <1>6, <2>2 DEF Counts
    <3> QED
      BY <1>6, <2>2, <3>1 DEF Numbers
  <2> QED
    BY <2>1, <2>2
<1> HIDE DEF new
<1>9. /\ i \notin Visited(L, run) /\ out.ledger[i] = new
      /\ \A j \in 1..L : j # i => out.ledger[j] = run.ledger[j]
      /\ Visited(L, out) = Visited(L, run) \cup {i}
      /\ out.unvisited = run.unvisited \ {i}
      /\ out.failed = FALSE
  <2>1. VisitsIn(L, run, out, i, new)
    BY <1>1, <1>2, <1>5, <1>8 DEF VisitsIn
  <2>2. out.unvisited = run.unvisited \ {i} /\ out.failed = FALSE
    BY <1>8 DEF Visits
  <2> QED
    BY <2>1, <2>2, VisitsFacts
<1>10. Cardinality(out.unvisited) = L - (n + 1)
  <2>1. Cardinality(run.unvisited \ {i}) = Cardinality(run.unvisited) - 1
    BY <1>3, <1>5, FS_RemoveElement
  <2> QED
    BY <1>1, <1>2, <1>9, <2>1
<1>11. ASSUME NEW j \in 1..L
       PROVE  /\ Renumbered(out.ledger[j], rows[j])
              /\ j \in out.unvisited => out.ledger[j] = rows[j]
  <2>1. CASE j = i
    <3>1. new.sequence_number = run.visited + 1
      BY <1>6 DEF new, Row
    <3> QED
      BY <1>9, <2>1, <3>1 DEF new, Renumbered
  <2>2. CASE j # i
    BY <1>9, <2>2 DEF FlatRun
  <2> QED
    BY <2>1, <2>2
<1>12. \A j \in Visited(L, out), k \in out.unvisited : Earlier(rows, j, k)
  <2>1. \A j \in Visited(L, run), k \in run.unvisited : Earlier(rows, j, k)
    BY DEF FlatRun
  <2> QED
    BY <1>4, <1>9, <2>1
<1>13. SumInv(rows, out)
  <2>1. SumInv(rows, run)
    BY DEF FlatRun
  <2> QED
    BY <1>1, <1>2, <1>5, <1>6, <1>8, <2>1, SumStep
<1>14. /\ out.active = 0 <=> \A j \in Visited(L, out) : ~IsActive(rows[j])
       /\ out.average = (IF out.active = 0 THEN 0 ELSE price)
       /\ out.active = 0 => out.quantity = 0
  <2>1. /\ run.active = 0 <=> \A j \in Visited(L, run) : ~IsActive(rows[j])
        /\ run.average = (IF run.active = 0 THEN 0 ELSE price)
        /\ run.active = 0 => run.quantity = 0
    BY DEF FlatRun
  <2>2. CASE IsActive(rows[i])
    <3>1. rows[i].average_after = price
      BY <1>1, <1>5, <2>2 DEF Flat, FlatRow
    <3>2. out.active # 0 /\ out.average = price
      BY <1>2, <1>8, <2>2, <3>1
    <3> QED
      BY <1>9, <2>2, <3>2
  <2>3. CASE ~IsActive(rows[i])
    BY <1>8, <1>9, <2>1, <2>3
  <2> QED
    BY <2>2, <2>3
<1> QED
  BY <1>5, <1>9, <1>10, <1>11, <1>12, <1>13, <1>14 DEF FlatRun, out

LEMMA FlatStart ==
    ASSUME NEW rows, NEW price, Flat(rows, price)
    PROVE  FlatRun(rows, price, 0, ReplayStart(rows))
<1> DEFINE L == Len(rows)
           run == ReplayStart(rows)
<1>1. L \in Nat /\ DOMAIN rows = 1..L /\ rows \in Seq(Row)
  BY LenProperties DEF Flat
<1>2. /\ run.ledger = rows /\ run.unvisited = 1..L /\ run.visited = 0
      /\ run.quantity = 0 /\ run.average = 0 /\ run.active = 0 /\ run.failed = FALSE
  BY <1>1 DEF ReplayStart
<1>3. run \in Runs(L)
  <2>1. rows \in Rows(L)
    BY <1>1 DEF Rows
  <2> QED
    BY <1>1, <2>1 DEF ReplayStart, Runs
<1> HIDE DEF run
<1>4. Cardinality(run.unvisited) = L - 0
  <2>1. 1 \in Int /\ L \in Int
    BY <1>1
  <2>2. Cardinality(1..L) = IF 1 > L THEN 0 ELSE L - 1 + 1
    <3> HIDE DEF L
    <3> QED
      BY <2>1, FS_Interval, Zenon
  <2> QED
    BY <1>1, <1>2, <2>2
<1>5. \A i \in 1..L : Renumbered(run.ledger[i], rows[i]) /\ run.ledger[i] = rows[i]
  <2>1. \A i \in 1..L : rows[i] \in Row
    BY <1>1, ElementOfSeq
  <2>2. \A i \in 1..L : rows[i] = [rows[i] EXCEPT !.sequence_number = rows[i].sequence_number]
    BY <2>1 DEF Row
  <2> QED
    BY <1>2, <2>2 DEF Renumbered
<1>6. Visited(L, run) = {}
  BY <1>2 DEF Visited
<1>7. SumInv(rows, run)
  <2>1. ASSUME NEW s, IsSum(s, Weights(rows, 1..L), L)
        PROVE  s[L] = 0
    <3>1. \A j \in 1..L : Weights(rows, 1..L)[j] = 0
      BY DEF Weights
    <3> QED
      BY <1>1, <2>1, <3>1, SumOfNothing
  <2> QED
    BY <1>2, <2>1 DEF SumInv
<1> QED
  BY <1>2, <1>3, <1>4, <1>5, <1>6, <1>7 DEF FlatRun, run

\* A flat ledger replays to what its rows add up to, and nothing of its rows but
\* the numbers changes.
LEMMA FlatReplay ==
    ASSUME NEW rows, NEW price, Flat(rows, price), NEW s,
           IsSum(s, Weights(rows, {}), Len(rows))
    PROVE  LET run == Replay(rows) IN
           /\ run.failed = FALSE /\ run.quantity = s[Len(rows)] /\ run.active \in Nat
           /\ run.active = 0 <=> \A i \in DOMAIN rows : ~IsActive(rows[i])
           /\ run.active # 0 => run.average = price
           /\ \A i \in DOMAIN rows : Renumbered(run.ledger[i], rows[i])
<1> DEFINE L == Len(rows)
<1>1. L \in Nat /\ DOMAIN rows = 1..L /\ rows \in Seq(Row)
  BY LenProperties DEF Flat
<1>2. PICK f : IsHistory(f, rows, rows) /\ Replay(rows) = f[L]
  BY <1>1, ReplayHistory DEF Replay
<1> DEFINE Done == {n \in 0..L : FlatRun(rows, price, n, f[n])}
<1>3. 0 \in Done
  BY <1>1, <1>2, FlatStart DEF IsHistory
<1>4. ASSUME NEW n \in 0..L, n < L, n \in Done
      PROVE  n + 1 \in Done
  <2>1. n + 1 \in 0..L /\ n + 1 \in 1..L /\ (n + 1) - 1 = n
    BY <1>1, <1>4
  <2>2. f[n + 1] = ReplayRow(rows, f[n])
    BY <1>2, <2>1 DEF IsHistory
  <2>3. FlatRun(rows, price, n + 1, ReplayRow(rows, f[n]))
    <3>1. FlatRun(rows, price, n, f[n])
      BY <1>4
    <3> QED
      BY <1>4, <3>1, FlatStep
  <2> QED
    BY <2>1, <2>2, <2>3
<1>5. L \in Done
  <2> HIDE DEF Done
  <2>1. \A n \in 0..L : n \in Done
    BY <1>1, <1>3, <1>4, NatSetInduction
  <2> QED
    BY <1>1, <2>1
<1> DEFINE run == Replay(rows)
<1>6. FlatRun(rows, price, L, run)
  BY <1>2, <1>5
<1> HIDE DEF run, Done
<1>7. run \in Runs(L) /\ Cardinality(run.unvisited) = 0 /\ run.unvisited \in SUBSET (1..L)
  BY <1>1, <1>6 DEF FlatRun, Runs
<1>8. run.unvisited = {}
  <2>1. 1 \in Int /\ L \in Int
    BY <1>1
  <2> HIDE DEF L
  <2>2. IsFiniteSet(1..L)
    BY <2>1, FS_Interval, Zenon
  <2>3. IsFiniteSet(run.unvisited)
    BY <1>7, <2>2, FS_Subset
  <2> QED
    BY <1>7, <2>3, FS_EmptySet
<1>9. Visited(L, run) = DOMAIN rows
  BY <1>1, <1>8 DEF Visited
<1>10. run.quantity = s[L]
  BY <1>6, <1>8 DEF FlatRun, SumInv
<1>11. run.active \in Nat
  BY <1>7 DEF Runs
<1> QED
  BY <1>1, <1>6, <1>9, <1>10, <1>11 DEF FlatRun, run
=============================================================================
