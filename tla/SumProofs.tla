------------------------------ MODULE SumProofs -----------------------------
(***************************************************************************)
(* What the sums, the order and the joining of sequences are worth in a    *)
(* proof: their recursive equations, that they are monotone, and what is   *)
(* added up in either order. And the arithmetic of barriers: stronger      *)
(* controls combine to a barrier that is no lower.                         *)
(***************************************************************************)
EXTENDS Barriers, TailMetrics, WellFoundedInduction, FiniteSetTheorems, SequenceTheorems,
        TLAPS

-----------------------------------------------------------------------------
(* Induction and recursion up to a bound, for sets and functions rather    *)
(* than for operators.                                                     *)

\* A non-empty set of naturals has a least element.
LEMMA LeastNatural ==
  ASSUME NEW T, T \subseteq Nat, T # {}
  PROVE  \E i \in T : \A j \in T : i <= j
<1>1. IsWellFoundedOn(OpToRel(<, Nat), Nat)
  BY NatLessThanWellFounded
<1>2. PICK i \in T : \A j \in T : ~ (<<j, i>> \in OpToRel(<, Nat))
  BY <1>1, WFMin
<1>3. \A j \in T : <<j, i>> \in OpToRel(<, Nat) <=> j < i
  BY DEF OpToRel
<1>4. \A j \in T : ~ (j < i)
  BY <1>2, <1>3
<1> QED BY <1>4

\* A set of naturals that is bounded has a greatest element.
LEMMA GreatestNatural ==
  ASSUME NEW T, T \subseteq Nat, T # {}, NEW b \in Nat, \A i \in T : i <= b
  PROVE  \E i \in T : \A j \in T : j <= i
<1> DEFINE U == {k \in 0..b : b - k \in T}
<1>1. PICK x \in T : TRUE
  OBVIOUS
<1>2. b - x \in U /\ U \subseteq Nat
  BY <1>1
<1>3. PICK k \in U : \A j \in U : k <= j
  <2> HIDE DEF U
  <2> QED BY <1>2, LeastNatural
<1>4. ASSUME NEW j \in T PROVE j <= b - k
  <2>1. b - j \in U
    OBVIOUS
  <2> QED BY <1>3, <2>1
<1> QED BY <1>3, <1>4

LEMMA UpTo ==
  ASSUME NEW n \in Nat, NEW S, 0 \in S, \A i \in 1..n : i - 1 \in S => i \in S
  PROVE  \A i \in 0..n : i \in S
<1> DEFINE T == {i \in 0..n : i \notin S}
<1> SUFFICES ASSUME T # {} PROVE FALSE
  OBVIOUS
<1>1. PICK i \in T : \A j \in T : i <= j
  <2>1. T \subseteq Nat
    OBVIOUS
  <2> HIDE DEF T
  <2> QED BY <2>1, LeastNatural
<1>2. i \in 1..n /\ i - 1 \in 0..n
  BY <1>1
<1>3. i - 1 \in S
  BY <1>1, <1>2
<1> QED BY <1>1, <1>2, <1>3

\* f lists b, step[1][b], step[2][step[1][b]] and so on, n steps far.
Iterates(f, b, n, step) ==
  f = [i \in 0..n |-> IF i = 0 THEN b ELSE step[i][f[i - 1]]]

LEMMA Recursion ==
  ASSUME NEW V, NEW b \in V, NEW n \in Nat, NEW step \in [1..n -> [V -> V]]
  PROVE  /\ \E f : Iterates(f, b, n, step)
         /\ \A f : Iterates(f, b, n, step) => f \in [0..n -> V]
<1> DEFINE Is(f) == Iterates(f, b, n, step)
           Upto(m, f) == f[0] = b /\ \A i \in 1..m : f[i] = step[i][f[i - 1]]
           S == {m \in 0..n : \E f \in [0..m -> V] : Upto(m, f)}
<1>1. 0 \in S
  <2>1. [i \in 0..0 |-> b] \in [0..0 -> V]
    OBVIOUS
  <2>2. Upto(0, [i \in 0..0 |-> b])
    OBVIOUS
  <2>3. \E f \in [0..0 -> V] : Upto(0, f)
    <3> HIDE DEF Upto
    <3> QED BY <2>1, <2>2
  <2> QED BY <2>3
<1>2. ASSUME NEW m \in 1..n, m - 1 \in S PROVE m \in S
  <2>1. PICK f \in [0..(m - 1) -> V] : Upto(m - 1, f)
    BY <1>2
  <2> DEFINE g == [i \in 0..m |-> IF i = m THEN step[m][f[m - 1]] ELSE f[i]]
  <2>2. m - 1 \in 0..(m - 1) /\ step[m] \in [V -> V] /\ f[m - 1] \in V
    BY <1>2
  <2>3. step[m][f[m - 1]] \in V
    BY <2>2
  <2>4. g \in [0..m -> V]
    BY <2>3
  <2>5. g[0] = b /\ \A i \in 1..m : g[i] = step[i][g[i - 1]]
    BY <2>1
  <2>6. \E h \in [0..m -> V] : Upto(m, h)
    <3>1. Upto(m, g)
      BY <2>5
    <3> HIDE DEF Upto, g
    <3> QED BY <2>4, <3>1
  <2> HIDE DEF Upto
  <2> QED BY <2>6
<1>3. n \in S
  <2> HIDE DEF S
  <2>1. \A m \in 0..n : m \in S
    BY <1>1, <1>2, UpTo
  <2> QED BY <2>1
<1>4. PICK f \in [0..n -> V] : Upto(n, f)
  BY <1>3
<1>5. Is(f)
  BY <1>4 DEF Iterates
<1>6. ASSUME NEW h, Is(h) PROVE h \in [0..n -> V]
  <2> DEFINE T == {i \in 0..n : h[i] \in V}
  <2>1. 0 \in T
    BY <1>6 DEF Iterates
  <2>2. ASSUME NEW i \in 1..n, i - 1 \in T PROVE i \in T
    <3>1. h[i] = step[i][h[i - 1]] /\ step[i] \in [V -> V] /\ h[i - 1] \in V
      BY <1>6, <2>2 DEF Iterates
    <3> QED BY <3>1
  <2>3. \A i \in 0..n : i \in T
    <3> HIDE DEF T
    <3> QED BY <2>1, <2>2, UpTo
  <2> QED BY <1>6, <2>3 DEF Iterates
<1> QED BY <1>5, <1>6

-----------------------------------------------------------------------------
(* Folds of sequences.                                                     *)

\* What the library's fold of a sequence computes: over the sets of indices,
\* the greatest one last.
Folds(f, b, n, step) ==
  f = [T \in SUBSET (1..n) |-> IF T = {} THEN b ELSE step[Max(T)][f[T \ {Max(T)}]]]

\* The steps of a set of indices, the others change nothing.
Masked(step, V, n, T) == [i \in 1..n |-> IF i \in T THEN step[i] ELSE [v \in V |-> v]]

\* The greatest index of a set of indices.
LEMMA GreatestIndex ==
  ASSUME NEW n \in Nat, NEW T \in SUBSET (1..n), T # {}
  PROVE  Max(T) \in T /\ Max(T) \in 1..n /\ \A i \in T : i <= Max(T)
<1>1. \E i \in T : \A j \in T : j <= i
  <2>1. T \subseteq Nat /\ \A i \in T : i <= n
    OBVIOUS
  <2> QED BY <2>1, GreatestNatural
<1>2. \E i \in T : \A j \in T : i >= j
  BY <1>1
<1>3. Max(T) \in T /\ \A j \in T : Max(T) >= j
  BY <1>2 DEF Max
<1> QED BY <1>3

\* The sets a fold of the whole sequence passes through.
LEMMA Segments ==
  ASSUME NEW n \in Nat, NEW i \in 1..n
  PROVE  /\ 1..i \in SUBSET (1..n) /\ 1..i # {}
         /\ Max(1..i) = i /\ (1..i) \ {i} = 1..(i - 1)
<1>1. i \in Int /\ 1 <= i /\ i <= n
  OBVIOUS
<1>2. \A j \in 1..i : j \in 1..n
  BY <1>1
<1>3. 1 \in 1..i
  BY <1>1
<1>4. 1..i \in SUBSET (1..n) /\ 1..i # {}
  BY <1>2, <1>3
<1>5. Max(1..i) \in 1..i /\ \A j \in 1..i : j <= Max(1..i)
  BY <1>4, GreatestIndex
<1>6. Max(1..i) = i
  BY <1>1, <1>5
<1>7. (1..i) \ {i} = 1..(i - 1)
  BY <1>1
<1> QED BY <1>4, <1>6, <1>7

LEMMA FoldExists ==
  ASSUME NEW V, NEW b \in V, NEW n \in Nat, NEW step \in [1..n -> [V -> V]]
  PROVE  \E f \in [SUBSET (1..n) -> V] : Folds(f, b, n, step)
<1> DEFINE mask(T) == Masked(step, V, n, T)
           Of(T, g) == g \in [0..n -> V] /\ Iterates(g, b, n, mask(T))
           run == [T \in SUBSET (1..n) |-> CHOOSE g : Of(T, g)]
           f == [T \in SUBSET (1..n) |-> run[T][n]]
\* Leaving the last step out is applying it to what the others yield.
<1>0. ASSUME NEW T \in SUBSET (1..n), T # {}, NEW h, NEW g, Of(T, h), Of(T \ {Max(T)}, g)
      PROVE  h[n] = step[Max(T)][g[n]]
  <2> DEFINE m == Max(T)
             S == {i \in 0..n : h[i] = IF i < m THEN g[i] ELSE step[m][g[i]]}
  <2>1. m \in 1..n /\ m \in T /\ \A i \in T : i <= m
    BY <1>0, GreatestIndex
  <2> HIDE DEF m
  <2>2. h[0] = b /\ g[0] = b
    BY <1>0 DEF Iterates
  <2>3. 0 \in S
    BY <2>1, <2>2
  <2>4. ASSUME NEW i \in 1..n, i - 1 \in S PROVE i \in S
    <3>1. i \in 0..n /\ i - 1 \in 0..n /\ i # 0
      OBVIOUS
    <3>2. h[i] = IF i \in T THEN step[i][h[i - 1]] ELSE h[i - 1]
      <4>1. h[i] = Masked(step, V, n, T)[i][h[i - 1]]
        BY <1>0, <3>1 DEF Iterates, m
      <4>2. h[i - 1] \in V
        BY <1>0, <3>1
      <4> QED BY <4>1, <4>2 DEF Masked
    <3>3. g[i] = IF i \in T \ {m} THEN step[i][g[i - 1]] ELSE g[i - 1]
      <4>1. g[i] = Masked(step, V, n, T \ {m})[i][g[i - 1]]
        BY <1>0, <3>1 DEF Iterates, m
      <4>2. g[i - 1] \in V
        BY <1>0, <3>1
      <4> QED BY <4>1, <4>2 DEF Masked
    <3>4. CASE i < m
      BY <2>1, <2>4, <3>1, <3>2, <3>3, <3>4
    <3>5. CASE i = m
      BY <2>1, <2>4, <3>1, <3>2, <3>3, <3>5
    <3>6. CASE i > m
      <4>1. i \notin T
        BY <2>1, <3>6
      <4> QED BY <2>1, <2>4, <3>1, <3>2, <3>3, <3>6, <4>1
    <3> QED BY <2>1, <3>4, <3>5, <3>6
  <2>5. n \in S
    <3>1. \A i \in 0..n : i \in S
      <4> HIDE DEF S
      <4> QED BY <2>3, <2>4, UpTo
    <3> QED BY <3>1
  <2> QED BY <2>1, <2>5 DEF m
<1>1. ASSUME NEW T \in SUBSET (1..n) PROVE Of(T, run[T])
  <2>1. mask(T) \in [1..n -> [V -> V]]
    BY DEF Masked
  <2>2. \E g : Of(T, g)
    <3> HIDE DEF mask
    <3> QED BY <2>1, Recursion
  <2> HIDE DEF Of
  <2> QED BY <2>2
<1>2. \A T \in SUBSET (1..n) : f[T] = run[T][n]
  OBVIOUS
<1> HIDE DEF run
<1>3. f \in [SUBSET (1..n) -> V]
  BY <1>1
<1>4. ASSUME NEW T \in SUBSET (1..n), T # {}
      PROVE  f[T] = step[Max(T)][f[T \ {Max(T)}]]
  <2> DEFINE U == T \ {Max(T)}
  <2>1. U \in SUBSET (1..n)
    OBVIOUS
  <2>2. Of(T, run[T]) /\ Of(U, run[U])
    BY <1>1, <2>1
  <2>3. run[T][n] = step[Max(T)][run[U][n]]
    <3> HIDE DEF Of
    <3> QED BY <1>0, <1>4, <2>2
  <2>4. f[T] = run[T][n] /\ f[U] = run[U][n]
    BY <1>2, <2>1
  <2> QED BY <2>3, <2>4
<1>5. f[{}] = b
  <2>1. Of({}, run[{}])
    BY <1>1
  <2> DEFINE g == run[{}]
             S == {i \in 0..n : g[i] = b}
  <2>2. 0 \in S
    BY <2>1 DEF Iterates
  <2>3. ASSUME NEW i \in 1..n, i - 1 \in S PROVE i \in S
    <3>1. i \in 0..n /\ i - 1 \in 0..n /\ i # 0
      OBVIOUS
    <3>2. g[i] = mask({})[i][g[i - 1]]
      BY <2>1, <3>1 DEF Iterates
    <3>3. g[i - 1] = b
      BY <2>3
    <3> QED BY <3>1, <3>2, <3>3 DEF Masked
  <2>4. n \in S
    <3>1. \A i \in 0..n : i \in S
      <4> HIDE DEF S
      <4> QED BY <2>2, <2>3, UpTo
    <3> QED BY <3>1
  <2> QED BY <1>2, <2>4
<1>6. f = [T \in SUBSET (1..n) |-> IF T = {} THEN b ELSE step[Max(T)][f[T \ {Max(T)}]]]
  <2>1. f = [T \in SUBSET (1..n) |-> f[T]]
    BY <1>3
  <2>2. \A T \in SUBSET (1..n) : f[T] = IF T = {} THEN b ELSE step[Max(T)][f[T \ {Max(T)}]]
    <3> HIDE DEF f
    <3> QED BY <1>4, <1>5
  <2> HIDE DEF f
  <2> QED BY <2>1, <2>2
<1> HIDE DEF f
<1> QED BY <1>3, <1>6 DEF Folds

\* What the fold of a whole sequence is: the last of its iterates.
FoldsIn(h, V, b, n, step) ==
  /\ h[{}] = b
  /\ \A T \in SUBSET (1..n) : T # {} /\ h[T \ {Max(T)}] \in V =>
       h[T] = step[Max(T)][h[T \ {Max(T)}]]

LEMMA FoldValue ==
  ASSUME NEW V, NEW b \in V, NEW n \in Nat, NEW step \in [1..n -> [V -> V]],
         NEW h, FoldsIn(h, V, b, n, step), NEW p, Iterates(p, b, n, step)
  PROVE  h[1..n] = p[n]
<1> DEFINE S == {i \in 0..n : h[1..i] = p[i] /\ p[i] \in V}
<1>1. p[0] = b /\ \A i \in 1..n : p[i] = step[i][p[i - 1]]
  BY DEF Iterates
<1>2. 0 \in S
  <2>1. 1..0 = {}
    OBVIOUS
  <2> QED BY <1>1, <2>1 DEF FoldsIn
<1>3. ASSUME NEW i \in 1..n, i - 1 \in S PROVE i \in S
  <2>1. 1..i \in SUBSET (1..n) /\ 1..i # {} /\ Max(1..i) = i /\ (1..i) \ {i} = 1..(i - 1)
    BY Segments
  <2>2. h[1..i] = step[i][h[1..(i - 1)]]
    BY <1>3, <2>1 DEF FoldsIn
  <2>3. p[i] = step[i][p[i - 1]] /\ p[i - 1] \in V /\ step[i] \in [V -> V]
    BY <1>1, <1>3
  <2> QED BY <1>3, <2>2, <2>3
<1>4. \A i \in 0..n : i \in S
  <2> HIDE DEF S
  <2> QED BY <1>2, <1>3, UpTo
<1> QED BY <1>4

-----------------------------------------------------------------------------
(* Sums of sequences.                                                      *)

\* What the first i items add up to.
PartialSums(s) ==
  LET sum[i \in 0..Len(s)] == IF i = 0 THEN 0 ELSE sum[i - 1] + s[i] IN sum

\* Arithmetic of one step.
LEMMA AddedStep ==
  ASSUME NEW a \in Int, NEW b \in Int, NEW c \in Int, NEW d \in Int
  PROVE  (a + b) + (c + d) = (a + c) + (b + d)
OBVIOUS

LEMMA ScaledStep ==
  ASSUME NEW c \in Int, NEW d \in Int, NEW x \in Int, NEW y \in Int, NEW v \in Int, NEW w \in Int,
         d * x = c * v, d * y = c * w
  PROVE  d * (x + y) = c * (v + w)
OBVIOUS

\* The recursive equations of the partial sums.
LEMMA PartialSumsStep ==
  ASSUME NEW s \in Seq(Int)
  PROVE  /\ PartialSums(s) \in [0..Len(s) -> Int]
         /\ PartialSums(s)[0] = 0
         /\ \A i \in 1..Len(s) : PartialSums(s)[i] = PartialSums(s)[i - 1] + s[i]
<1> DEFINE n == Len(s)
           step == [i \in 1..n |-> [v \in Int |-> v + s[i]]]
           Is(f) == f = [i \in 0..n |-> IF i = 0 THEN 0 ELSE f[i - 1] + s[i]]
           IsStep(f) == Iterates(f, 0, n, step)
<1>1. n \in Nat /\ \A i \in 1..n : s[i] \in Int
  OBVIOUS
<1>2. step \in [1..n -> [Int -> Int]]
  BY <1>1
<1>3. (\E f : IsStep(f)) /\ (\A f : IsStep(f) => f \in [0..n -> Int])
  <2> HIDE DEF step, n
  <2>1. 0 \in Int
    OBVIOUS
  <2> QED BY <1>1, <1>2, <2>1, Recursion
<1>4. PICK f : IsStep(f)
  BY <1>3
<1>5. f \in [0..n -> Int]
  <2> HIDE DEF IsStep
  <2> QED BY <1>3, <1>4
<1>6. Is(f)
  <2>1. \A i \in 1..n : f[i - 1] \in Int /\ i \in 0..n /\ i # 0
    <3> HIDE DEF step, n
    <3>1. \A i \in 1..n : i - 1 \in 0..n /\ i \in 0..n /\ i # 0
      BY <1>1
    <3> QED BY <1>5, <3>1
  <2>2. \A i \in 1..n : step[i][f[i - 1]] = f[i - 1] + s[i]
    BY <1>1, <2>1
  <2>3. f = [i \in 0..n |-> IF i = 0 THEN 0 ELSE step[i][f[i - 1]]]
    BY <1>4 DEF Iterates
  <2>4. \A i \in 0..n : f[i] = IF i = 0 THEN 0 ELSE f[i - 1] + s[i]
    <3> HIDE DEF step, n
    <3>1. \A i \in 0..n : i # 0 => i \in 1..n
      BY <1>1
    <3>2. \A i \in 0..n : f[i] = IF i = 0 THEN 0 ELSE step[i][f[i - 1]]
      BY <2>3
    <3> QED BY <2>2, <3>1, <3>2
  <2> HIDE DEF step
  <2> QED BY <1>5, <2>4
<1>7. PartialSums(s) = CHOOSE h : Is(h)
  BY DEF PartialSums
<1>8. Is(PartialSums(s))
  BY <1>6, <1>7
<1> DEFINE p == PartialSums(s)
<1> HIDE DEF p
<1>9. p[0] = 0 /\ \A i \in 1..n : p[i] = p[i - 1] + s[i]
  BY <1>1, <1>8 DEF p
<1> DEFINE T == {i \in 0..n : p[i] \in Int}
<1>10. 0 \in T
  BY <1>9
<1>11. ASSUME NEW i \in 1..n, i - 1 \in T PROVE i \in T
  BY <1>1, <1>9, <1>11
<1>12. \A i \in 0..n : i \in T
  <2> HIDE DEF T, n
  <2> QED BY <1>1, <1>10, <1>11, UpTo
<1> QED BY <1>8, <1>9, <1>12 DEF p

LEMMA PartialSumsNext ==
  ASSUME NEW s \in Seq(Int), NEW i \in 1..Len(s)
  PROVE  /\ PartialSums(s)[i] = PartialSums(s)[i - 1] + s[i]
         /\ PartialSums(s)[i - 1] \in Int /\ s[i] \in Int
<1>1. i - 1 \in 0..Len(s) /\ s[i] \in Int
  OBVIOUS
<1> QED BY <1>1, PartialSumsStep

LEMMA PartialSumsType ==
  ASSUME NEW s \in Seq(Int), NEW i \in 0..Len(s)
  PROVE  PartialSums(s)[i] \in Int
BY PartialSumsStep

LEMMA SumIsPartial ==
  ASSUME NEW s \in Seq(Int)
  PROVE  SumOf(s) = PartialSums(s)[Len(s)]
<1> DEFINE n == Len(s)
           p == PartialSums(s)
           step == [i \in 1..n |-> [v \in Int |-> v + s[i]]]
           Is(h) == h = [T \in SUBSET (1..n) |->
                           IF T = {} THEN 0 ELSE h[T \ {Max(T)}] + s[Max(T)]]
           h == CHOOSE h : Is(h)
<1>1. n \in Nat /\ DOMAIN s = 1..n /\ \A i \in 1..n : s[i] \in Int
  OBVIOUS
<1>2. \E f : Is(f)
  <2>1. step \in [1..n -> [Int -> Int]] /\ 0 \in Int
    BY <1>1
  <2>2. PICK f \in [SUBSET (1..n) -> Int] : Folds(f, 0, n, step)
    <3> HIDE DEF n, step
    <3> QED BY <1>1, <2>1, FoldExists
  <2>3. ASSUME NEW T \in SUBSET (1..n)
        PROVE  f[T] = IF T = {} THEN 0 ELSE f[T \ {Max(T)}] + s[Max(T)]
    <3>1. f[T] = IF T = {} THEN 0 ELSE step[Max(T)][f[T \ {Max(T)}]]
      BY <2>2 DEF Folds
    <3>2. T # {} => Max(T) \in 1..n /\ f[T \ {Max(T)}] \in Int
      BY <1>1, GreatestIndex
    <3> QED BY <3>1, <3>2
  <2>4. f = [T \in SUBSET (1..n) |-> f[T]]
    OBVIOUS
  <2> HIDE DEF n
  <2> QED BY <2>3, <2>4
<1>3. Is(h)
  <2> HIDE DEF Is
  <2> QED BY <1>2
<1>4. SumOf(s) = h[1..n]
  BY <1>1 DEF SumOf, FoldLeft, MapThenFoldSet
<1> HIDE DEF h
<1> DEFINE S == {i \in 0..n : h[1..i] = p[i]}
<1>5. 0 \in S
  <2>1. 1..0 = {} /\ {} \in SUBSET (1..n) /\ 0 \in 0..n
    OBVIOUS
  <2>2. h[{}] = 0
    BY <1>3, <2>1
  <2> QED BY <2>1, <2>2, PartialSumsStep
<1>6. ASSUME NEW i \in 1..n, i - 1 \in S PROVE i \in S
  <2>1. 1..i \in SUBSET (1..n) /\ 1..i # {} /\ Max(1..i) = i /\ (1..i) \ {i} = 1..(i - 1)
    <3>1. n \in Nat
      BY <1>1
    <3> HIDE DEF n
    <3> QED BY <3>1, <1>6, Segments
  <2>4. h[1..i] = h[1..(i - 1)] + s[i]
    BY <1>3, <2>1
  <2>5. p[i] = p[i - 1] + s[i] /\ i \in 0..n
    BY PartialSumsNext
  <2> QED BY <1>6, <2>4, <2>5
<1>7. h[1..n] = p[n]
  <2>1. \A i \in 0..n : i \in S
    <3> HIDE DEF S, n
    <3> QED BY <1>1, <1>5, <1>6, UpTo
  <2> QED BY <1>1, <2>1
<1> QED BY <1>4, <1>7

LEMMA SumType ==
  ASSUME NEW s \in Seq(Int)
  PROVE  SumOf(s) \in Int
BY PartialSumsStep, SumIsPartial

LEMMA SumOfNone == SumOf(<< >>) = 0
<1>1. << >> \in Seq(Int) /\ Len(<< >>) = 0
  OBVIOUS
<1> QED BY <1>1, PartialSumsStep, SumIsPartial

\* A longer sum is the shorter one and the item that is new.
LEMMA SumOfAppend ==
  ASSUME NEW s \in Seq(Int), NEW x \in Int
  PROVE  SumOf(Append(s, x)) = SumOf(s) + x
<1> DEFINE t == Append(s, x)
           n == Len(s)
           T == {i \in 0..n : PartialSums(t)[i] = PartialSums(s)[i]}
<1>1. /\ t \in Seq(Int) /\ Len(t) = n + 1 /\ n \in Nat /\ t[n + 1] = x
      /\ \A i \in 1..n : t[i] = s[i]
  OBVIOUS
<1>2. 0 \in T
  <2> HIDE DEF t
  <2> QED BY <1>1, PartialSumsStep
<1>3. ASSUME NEW i \in 1..n, i - 1 \in T PROVE i \in T
  <2>1. PartialSums(s)[i] = PartialSums(s)[i - 1] + s[i]
    BY PartialSumsNext
  <2>2. PartialSums(t)[i] = PartialSums(t)[i - 1] + t[i]
    <3> HIDE DEF t
    <3>1. i \in 1..Len(t)
      BY <1>1
    <3> QED BY <1>1, <3>1, PartialSumsNext
  <2> QED BY <1>1, <1>3, <2>1, <2>2
<1>4. n \in T
  <2>1. \A i \in 0..n : i \in T
    <3> HIDE DEF T, n
    <3> QED BY <1>1, <1>2, <1>3, UpTo
  <2> QED BY <1>1, <2>1
<1>5. PartialSums(t)[n + 1] = PartialSums(t)[n] + x
  <2> HIDE DEF t
  <2>1. n + 1 \in 1..Len(t) /\ (n + 1) - 1 = n
    BY <1>1
  <2> QED BY <1>1, <2>1, PartialSumsStep
<1> QED BY <1>1, <1>4, <1>5, SumIsPartial

\* Sums of the same length are compared item by item.
LEMMA SumMonotone ==
  ASSUME NEW s \in Seq(Int), NEW t \in Seq(Int), Len(s) = Len(t),
         \A i \in 1..Len(s) : s[i] <= t[i]
  PROVE  SumOf(s) <= SumOf(t)
<1> DEFINE n == Len(s)
           T == {i \in 0..n : PartialSums(s)[i] <= PartialSums(t)[i]}
<1>1. n \in Nat /\ Len(t) = n
  OBVIOUS
<1>2. 0 \in T
  BY <1>1, PartialSumsStep
<1>3. ASSUME NEW i \in 1..n, i - 1 \in T PROVE i \in T
  <2>1. PartialSums(s)[i] = PartialSums(s)[i - 1] + s[i]
    BY PartialSumsNext
  <2>2. PartialSums(t)[i] = PartialSums(t)[i - 1] + t[i]
    BY <1>1, PartialSumsNext
  <2>3. /\ PartialSums(s)[i - 1] \in Int /\ PartialSums(t)[i - 1] \in Int
        /\ s[i] \in Int /\ t[i] \in Int /\ s[i] <= t[i]
    BY <1>1, PartialSumsNext
  <2> QED BY <1>3, <2>1, <2>2, <2>3
<1>4. n \in T
  <2>1. \A i \in 0..n : i \in T
    <3> HIDE DEF T, n
    <3> QED BY <1>1, <1>2, <1>3, UpTo
  <2> QED BY <1>1, <2>1
<1> QED BY <1>1, <1>4, SumIsPartial

\* A sum of sums is the sum of their items.
LEMMA SumAdds ==
  ASSUME NEW r \in Seq(Int), NEW s \in Seq(Int), NEW t \in Seq(Int),
         Len(r) = Len(t), Len(s) = Len(t),
         \A i \in 1..Len(t) : t[i] = r[i] + s[i]
  PROVE  SumOf(t) = SumOf(r) + SumOf(s)
<1> DEFINE n == Len(t)
           T == {i \in 0..n : PartialSums(t)[i] = PartialSums(r)[i] + PartialSums(s)[i]}
<1>1. n \in Nat /\ Len(r) = n /\ Len(s) = n
  OBVIOUS
<1>2. 0 \in T
  BY <1>1, PartialSumsStep
<1>3. ASSUME NEW i \in 1..n, i - 1 \in T PROVE i \in T
  <2>1. /\ PartialSums(r)[i] = PartialSums(r)[i - 1] + r[i]
        /\ PartialSums(r)[i - 1] \in Int /\ r[i] \in Int
    BY <1>1, PartialSumsNext
  <2>2. /\ PartialSums(s)[i] = PartialSums(s)[i - 1] + s[i]
        /\ PartialSums(s)[i - 1] \in Int /\ s[i] \in Int
    BY <1>1, PartialSumsNext
  <2>3. PartialSums(t)[i] = PartialSums(t)[i - 1] + t[i]
    BY <1>1, PartialSumsNext
  <2>4. /\ PartialSums(t)[i - 1] = PartialSums(r)[i - 1] + PartialSums(s)[i - 1]
        /\ t[i] = r[i] + s[i] /\ i \in 0..n /\ i \in Int
    BY <1>1, <1>3
  <2>5. PartialSums(t)[i] = PartialSums(r)[i] + PartialSums(s)[i]
    <3> DEFINE a == PartialSums(r)[i - 1]
               b == PartialSums(s)[i - 1]
               x == r[i]
               y == s[i]
    <3>1. /\ a \in Int /\ b \in Int /\ x \in Int /\ y \in Int
          /\ PartialSums(r)[i] = a + x /\ PartialSums(s)[i] = b + y
          /\ PartialSums(t)[i] = (a + b) + (x + y)
      BY <2>1, <2>2, <2>3, <2>4
    <3> HIDE DEF a, b, x, y
    <3>2. (a + b) + (x + y) = (a + x) + (b + y)
      BY <3>1, AddedStep
    <3> QED BY <3>1, <3>2
  <2> QED BY <2>4, <2>5
<1>4. n \in T
  <2>1. \A i \in 0..n : i \in T
    <3> HIDE DEF T, n
    <3> QED BY <1>1, <1>2, <1>3, UpTo
  <2> QED BY <1>1, <2>1
<1> QED BY <1>1, <1>4, SumIsPartial

\* A common factor of the items is a factor of the sum.
LEMMA SumScales ==
  ASSUME NEW c \in Int, NEW d \in Int, NEW s \in Seq(Int), NEW t \in Seq(Int), Len(s) = Len(t),
         \A i \in 1..Len(t) : d * t[i] = c * s[i]
  PROVE  d * SumOf(t) = c * SumOf(s)
<1> DEFINE n == Len(t)
           T == {i \in 0..n : d * PartialSums(t)[i] = c * PartialSums(s)[i]}
<1>1. n \in Nat /\ Len(s) = n
  OBVIOUS
<1>2. 0 \in T
  BY <1>1, PartialSumsStep
<1>3. ASSUME NEW i \in 1..n, i - 1 \in T PROVE i \in T
  <2>1. /\ PartialSums(s)[i] = PartialSums(s)[i - 1] + s[i]
        /\ PartialSums(s)[i - 1] \in Int /\ s[i] \in Int
    BY <1>1, PartialSumsNext
  <2>2. /\ PartialSums(t)[i] = PartialSums(t)[i - 1] + t[i]
        /\ PartialSums(t)[i - 1] \in Int /\ t[i] \in Int
    BY <1>1, PartialSumsNext
  <2>4. /\ d * PartialSums(t)[i - 1] = c * PartialSums(s)[i - 1]
        /\ d * t[i] = c * s[i] /\ i \in 0..n /\ i \in Int
    BY <1>1, <1>3
  <2>5. d * PartialSums(t)[i] = c * PartialSums(s)[i]
    <3> DEFINE a == PartialSums(t)[i - 1]
               b == PartialSums(s)[i - 1]
               x == t[i]
               y == s[i]
    <3>1. /\ a \in Int /\ b \in Int /\ x \in Int /\ y \in Int
          /\ d * a = c * b /\ d * x = c * y
          /\ PartialSums(t)[i] = a + x /\ PartialSums(s)[i] = b + y
      BY <2>1, <2>2, <2>4
    <3> HIDE DEF a, b, x, y
    <3>2. d * (a + x) = c * (b + y)
      BY <3>1, ScaledStep
    <3> QED BY <3>1, <3>2
  <2> QED BY <2>4, <2>5
<1>4. n \in T
  <2>1. \A i \in 0..n : i \in T
    <3> HIDE DEF T, n
    <3> QED BY <1>1, <1>2, <1>3, UpTo
  <2> QED BY <1>1, <2>1
<1> QED BY <1>1, <1>4, SumIsPartial

\* What one item has more, the sum has more.
LEMMA SumOfChanged ==
  ASSUME NEW s \in Seq(Int), NEW t \in Seq(Int), Len(s) = Len(t), NEW k \in 1..Len(t), NEW x \in Int,
         t[k] = s[k] + x, \A i \in 1..Len(t) : i # k => t[i] = s[i]
  PROVE  SumOf(t) = SumOf(s) + x
<1> DEFINE n == Len(t)
           more(i) == IF i < k THEN 0 ELSE x
           T == {i \in 0..n : PartialSums(t)[i] = PartialSums(s)[i] + more(i)}
<1>1. n \in Nat /\ Len(s) = n
  OBVIOUS
<1>2. 0 \in T
  BY <1>1, PartialSumsStep
<1>3. ASSUME NEW i \in 1..n, i - 1 \in T PROVE i \in T
  <2>1. /\ PartialSums(s)[i] = PartialSums(s)[i - 1] + s[i]
        /\ PartialSums(s)[i - 1] \in Int /\ s[i] \in Int
    BY <1>1, PartialSumsNext
  <2>2. PartialSums(t)[i] = PartialSums(t)[i - 1] + t[i]
    BY <1>1, PartialSumsNext
  <2>3. /\ PartialSums(t)[i - 1] = PartialSums(s)[i - 1] + more(i - 1) /\ i \in 0..n /\ i \in Int /\ k \in Int
        /\ t[i] = IF i = k THEN s[i] + x ELSE s[i]
    BY <1>1, <1>3
  <2>4. PartialSums(t)[i] = PartialSums(s)[i] + more(i)
    <3>1. CASE i = k
      <4>1. more(i - 1) = 0 /\ more(i) = x
        BY <2>3, <3>1
      <4> QED BY <2>1, <2>2, <2>3, <3>1, <4>1
    <3>2. CASE i # k
      <4>1. more(i - 1) = more(i) /\ more(i) \in Int
        BY <2>3, <3>2
      <4> HIDE DEF more, T
      <4> QED BY <2>1, <2>2, <2>3, <3>2, <4>1
    <3> QED BY <3>1, <3>2
  <2> QED BY <2>3, <2>4
<1>4. n \in T
  <2>1. \A i \in 0..n : i \in T
    <3> HIDE DEF T, n
    <3> QED BY <1>1, <1>2, <1>3, UpTo
  <2> QED BY <1>1, <2>1
<1> QED BY <1>1, <1>4, SumIsPartial

-----------------------------------------------------------------------------
(* Sums of functions.                                                      *)

\* A finite set in some order: every element once.
LEMMA Listing ==
  ASSUME NEW S, IsFiniteSet(S)
  PROVE  LET keys == SetToSeq(S) IN
           /\ Cardinality(S) \in Nat
           /\ keys \in [1..Cardinality(S) -> S]
           /\ \A i, j \in 1..Cardinality(S) : keys[i] = keys[j] => i = j
           /\ \A x \in S : \E i \in 1..Cardinality(S) : keys[i] = x
<1> DEFINE n == Cardinality(S)
           keys == SetToSeq(S)
<1>1. n \in Nat /\ ExistsBijection(1..n, S)
  BY FS_CardinalityType
<1>2. \E f \in [1..n -> S] : IsInjective(f)
  BY <1>1 DEF ExistsBijection, Bijection, Injection
<1>3. keys \in [1..n -> S] /\ IsInjective(keys)
  BY <1>2 DEF SetToSeq
<1>4. keys \in Injection(1..n, S)
  BY <1>3 DEF Injection
<1>5. Cardinality(1..n) = n
  BY <1>1, FS_Interval
<1>6. keys \in Surjection(1..n, S)
  BY <1>4, <1>5, FS_Injection
<1>7. \A x \in S : \E i \in 1..n : keys[i] = x
  BY <1>6 DEF Surjection
<1> HIDE DEF keys
<1> QED BY <1>1, <1>3, <1>7 DEF IsInjective, keys

\* What is added up for a function of integers.
Addends(f) == [i \in 1..Cardinality(DOMAIN f) |-> f[SetToSeq(DOMAIN f)[i]]]

\* The sum of a function, whatever order the library chooses its keys in, is
\* that of its values listed in one.
LEMMA SumOverListed ==
  ASSUME NEW S, IsFiniteSet(S), NEW f \in [S -> Int]
  PROVE  SumOver(f) = SumOf(Addends(f))
<1> DEFINE n == Cardinality(S)
           keys == SetToSeq(S)
           only(T) == [i \in 1..n |-> IF keys[i] \in T THEN f[keys[i]] ELSE 0]
           sum == [T \in SUBSET S |-> SumOf(only(T))]
           Is(h) == h = [T \in SUBSET S |->
                           IF T = {} THEN 0
                           ELSE f[CHOOSE x \in T : TRUE] + h[T \ {CHOOSE x \in T : TRUE}]]
           h == CHOOSE h : Is(h)
<1>1. /\ n \in Nat /\ keys \in [1..n -> S]
      /\ \A i, j \in 1..n : keys[i] = keys[j] => i = j
      /\ \A x \in S : \E i \in 1..n : keys[i] = x
  BY Listing
<1> HIDE DEF n, keys
<1>2. ASSUME NEW T \in SUBSET S
      PROVE  only(T) \in Seq(Int) /\ Len(only(T)) = n /\ SumOf(only(T)) \in Int
  <2>1. only(T) \in Seq(Int) /\ Len(only(T)) = n
    BY <1>1
  <2> HIDE DEF only
  <2> QED BY <2>1, SumType
<1>3. ASSUME NEW T \in SUBSET S, NEW x \in T
      PROVE  SumOf(only(T)) = SumOf(only(T \ {x})) + f[x]
  <2> DEFINE s == only(T \ {x})
             t == only(T)
  <2>1. PICK k \in 1..n : keys[k] = x
    BY <1>1
  <2>2. /\ s \in Seq(Int) /\ t \in Seq(Int) /\ Len(s) = Len(t) /\ Len(t) = n
        /\ f[x] \in Int
    BY <1>2
  <2>3. t[k] = f[x] /\ s[k] = 0
    BY <1>1, <2>1
  <2>4. ASSUME NEW i \in 1..n, i # k PROVE t[i] = s[i]
    <3>1. keys[i] # x
      BY <1>1, <2>1, <2>4
    <3> QED BY <3>1
  <2>5. t[k] = s[k] + f[x]
    BY <2>2, <2>3
  <2>6. k \in 1..Len(t) /\ \A i \in 1..Len(t) : i # k => t[i] = s[i]
    <3> HIDE DEF s, t
    <3> QED BY <2>1, <2>2, <2>4
  <2>7. SumOf(t) = SumOf(s) + f[x]
    <3> HIDE DEF s, t
    <3> QED BY <2>2, <2>5, <2>6, SumOfChanged, Zenon
  <2> QED BY <2>7
<1>4. SumOf(only({})) = 0
  <2> DEFINE t == only({})
  <2>1. t \in Seq(Int) /\ Len(t) = n /\ \A i \in 1..n : 0 * t[i] = 0 * t[i] /\ 1 * t[i] = 0 * t[i]
    BY <1>1, <1>2
  <2>2. 1 * SumOf(t) = 0 * SumOf(t)
    <3> HIDE DEF t
    <3> QED BY <2>1, SumScales
  <2>3. SumOf(t) \in Int
    <3>1. {} \in SUBSET S
      OBVIOUS
    <3> QED BY <1>2, <3>1
  <2> HIDE DEF t
  <2>4. SumOf(t) = 0
    BY <2>2, <2>3
  <2> QED BY <2>4 DEF t
<1> HIDE DEF only
<1>5. \A T \in SUBSET S : sum[T] = SumOf(only(T)) /\ sum[T] \in Int
  BY <1>2
<1>6. \E g : Is(g)
  <2>1. ASSUME NEW T \in SUBSET S
        PROVE  sum[T] = IF T = {} THEN 0
                        ELSE f[CHOOSE x \in T : TRUE] + sum[T \ {CHOOSE x \in T : TRUE}]
    <3> DEFINE x == CHOOSE x \in T : TRUE
    <3>1. CASE T = {}
      BY <1>4, <1>5, <3>1
    <3>2. CASE T # {}
      <4>1. x \in T
        BY <3>2
      <4> HIDE DEF x
      <4>2. SumOf(only(T)) = SumOf(only(T \ {x})) + f[x]
        BY <1>3, <4>1
      <4>3. T \ {x} \in SUBSET S /\ f[x] \in Int
        BY <4>1
      <4>4. sum[T] = sum[T \ {x}] + f[x] /\ sum[T \ {x}] \in Int
        BY <1>5, <4>2, <4>3
      <4>5. sum[T] = f[x] + sum[T \ {x}]
        <5> HIDE DEF sum
        <5> QED BY <4>3, <4>4
      <4> QED BY <3>2, <4>5 DEF x
    <3> QED BY <3>1, <3>2
  <2>2. sum = [T \in SUBSET S |-> sum[T]]
    OBVIOUS
  <2> HIDE DEF sum
  <2>3. Is(sum)
    BY <2>1, <2>2
  <2> QED BY <2>3
<1>7. Is(h)
  <2> HIDE DEF Is
  <2> QED BY <1>6
<1>8. SumOver(f) = h[S]
  BY DEF SumOver, MapThenSumSet, MapThenFoldSet
<1> HIDE DEF h, sum
<1>9. \A T \in SUBSET S : IsFiniteSet(T) /\ Cardinality(T) \in 0..n
  BY FS_Subset, FS_CardinalityType DEF n
<1> DEFINE K == {k \in 0..n : \A T \in SUBSET S : Cardinality(T) = k => h[T] = sum[T]}
<1>10. 0 \in K
  <2>1. \A T \in SUBSET S : Cardinality(T) = 0 => T = {}
    BY <1>9, FS_EmptySet
  <2>2. h[{}] = 0 /\ sum[{}] = 0
    BY <1>4, <1>5, <1>7
  <2>3. \A T \in SUBSET S : Cardinality(T) = 0 => h[T] = sum[T]
    BY <2>1, <2>2
  <2>4. 0 \in 0..n
    BY <1>1
  <2> QED BY <2>3, <2>4
<1>11. ASSUME NEW k \in 1..n, k - 1 \in K PROVE k \in K
  <2> SUFFICES ASSUME NEW T \in SUBSET S, Cardinality(T) = k PROVE h[T] = sum[T]
    OBVIOUS
  <2> DEFINE x == CHOOSE x \in T : TRUE
  <2>1. T # {}
    BY FS_EmptySet
  <2>2. x \in T
    BY <2>1
  <2>3. h[T] = f[x] + h[T \ {x}]
    BY <1>7, <2>1
  <2> HIDE DEF x
  <2>4. T \ {x} \in SUBSET S /\ f[x] \in Int
    BY <2>2
  <2>5. Cardinality(T \ {x}) = k - 1
    BY <1>9, <2>2, FS_RemoveElement
  <2>6. h[T \ {x}] = sum[T \ {x}]
    BY <1>11, <2>4, <2>5
  <2>7. sum[T] = sum[T \ {x}] + f[x] /\ sum[T \ {x}] \in Int
    BY <1>3, <1>5, <2>2, <2>4
  <2> QED BY <2>3, <2>4, <2>6, <2>7
<1>12. h[S] = sum[S]
  <2>1. \A k \in 0..n : k \in K
    <3> HIDE DEF K
    <3> QED BY <1>1, <1>10, <1>11, UpTo
  <2>2. n \in 0..n /\ S \in SUBSET S /\ Cardinality(S) = n
    BY <1>1 DEF n
  <2> QED BY <2>1, <2>2
<1>13. only(S) = Addends(f)
  <2>1. DOMAIN f = S /\ \A i \in 1..n : keys[i] \in S
    BY <1>1
  <2>2. only(S) = [i \in 1..n |-> f[keys[i]]]
    BY <2>1 DEF only
  <2> QED BY <2>1, <2>2 DEF Addends, n, keys
<1> QED BY <1>5, <1>8, <1>12, <1>13

LEMMA SumOverAddends ==
  ASSUME NEW S, IsFiniteSet(S), NEW f \in [S -> Int]
  PROVE  /\ SumOver(f) = SumOf(Addends(f))
         /\ Addends(f) \in Seq(Int) /\ Len(Addends(f)) = Cardinality(S) /\ Cardinality(S) \in Nat
         /\ \A i \in 1..Cardinality(S) : SetToSeq(S)[i] \in S /\ Addends(f)[i] = f[SetToSeq(S)[i]]
<1> DEFINE n == Cardinality(S)
           keys == SetToSeq(S)
<1>1. n \in Nat /\ keys \in [1..n -> S]
  BY Listing
<1>2. DOMAIN f = S
  OBVIOUS
<1>3. Addends(f) = [i \in 1..n |-> f[keys[i]]]
  BY <1>2 DEF Addends
<1>5. SumOver(f) = SumOf(Addends(f))
  BY SumOverListed
<1> HIDE DEF n, keys
<1>6. [i \in 1..n |-> f[keys[i]]] \in Seq(Int)
  BY <1>1
<1>7. /\ Addends(f) \in Seq(Int) /\ Len(Addends(f)) = n
      /\ \A i \in 1..n : keys[i] \in S /\ Addends(f)[i] = f[keys[i]]
  BY <1>1, <1>3, <1>6
<1> QED BY <1>1, <1>5, <1>7 DEF n, keys

LEMMA SumOverType ==
  ASSUME NEW S, IsFiniteSet(S), NEW f \in [S -> Int]
  PROVE  SumOver(f) \in Int
BY SumOverAddends, SumType

LEMMA SumOverMonotone ==
  ASSUME NEW S, IsFiniteSet(S), NEW f \in [S -> Int], NEW g \in [S -> Int],
         \A x \in S : f[x] <= g[x]
  PROVE  SumOver(f) <= SumOver(g)
<1>1. \A i \in 1..Cardinality(S) : Addends(f)[i] <= Addends(g)[i]
  BY SumOverAddends
<1>2. /\ Addends(f) \in Seq(Int) /\ Addends(g) \in Seq(Int)
      /\ Len(Addends(f)) = Len(Addends(g)) /\ Len(Addends(f)) = Cardinality(S)
  BY SumOverAddends
<1>3. SumOf(Addends(f)) <= SumOf(Addends(g))
  BY <1>1, <1>2, SumMonotone
<1> QED BY <1>3, SumOverAddends

LEMMA SumOverAdds ==
  ASSUME NEW S, IsFiniteSet(S), NEW f \in [S -> Int], NEW g \in [S -> Int], NEW h \in [S -> Int],
         \A x \in S : h[x] = f[x] + g[x]
  PROVE  SumOver(h) = SumOver(f) + SumOver(g)
<1> DEFINE n == Cardinality(S)
           keys == SetToSeq(S)
           F == Addends(f)
           G == Addends(g)
           H == Addends(h)
<1>1. SumOver(f) = SumOf(F) /\ F \in Seq(Int) /\ Len(F) = n /\ \A i \in 1..n : F[i] = f[keys[i]]
  BY SumOverAddends
<1>2. SumOver(g) = SumOf(G) /\ G \in Seq(Int) /\ Len(G) = n /\ \A i \in 1..n : G[i] = g[keys[i]]
  BY SumOverAddends
<1>3. SumOver(h) = SumOf(H) /\ H \in Seq(Int) /\ Len(H) = n /\ \A i \in 1..n : H[i] = h[keys[i]]
  BY SumOverAddends
<1>4. \A i \in 1..n : keys[i] \in S
  BY Listing
<1> HIDE DEF n, keys, F, G, H
<1>5. \A i \in 1..Len(H) : H[i] = F[i] + G[i]
  BY <1>1, <1>2, <1>3, <1>4
<1>6. Len(F) = Len(H) /\ Len(G) = Len(H)
  BY <1>1, <1>2, <1>3
<1>7. SumOf(H) = SumOf(F) + SumOf(G)
  BY <1>1, <1>2, <1>3, <1>5, <1>6, SumAdds, Zenon
<1> QED BY <1>1, <1>2, <1>3, <1>7

LEMMA SumOverScales ==
  ASSUME NEW c \in Int, NEW d \in Int, NEW S, IsFiniteSet(S), NEW f \in [S -> Int], NEW g \in [S -> Int],
         \A x \in S : d * g[x] = c * f[x]
  PROVE  d * SumOver(g) = c * SumOver(f)
<1> DEFINE n == Cardinality(S)
           keys == SetToSeq(S)
           F == Addends(f)
           G == Addends(g)
<1>1. SumOver(f) = SumOf(F) /\ F \in Seq(Int) /\ Len(F) = n /\ \A i \in 1..n : F[i] = f[keys[i]]
  BY SumOverAddends
<1>2. SumOver(g) = SumOf(G) /\ G \in Seq(Int) /\ Len(G) = n /\ \A i \in 1..n : G[i] = g[keys[i]]
  BY SumOverAddends
<1>3. \A i \in 1..n : keys[i] \in S
  BY Listing
<1> HIDE DEF n, keys, F, G
<1>4. \A i \in 1..Len(G) : d * G[i] = c * F[i]
  BY <1>1, <1>2, <1>3
<1>5. Len(F) = Len(G)
  BY <1>1, <1>2
<1>6. d * SumOf(G) = c * SumOf(F)
  BY <1>1, <1>2, <1>4, <1>5, SumScales, Zenon
<1> QED BY <1>1, <1>2, <1>6

\* More at one key is as much more in all.
LEMMA SumOverChanged ==
  ASSUME NEW S, IsFiniteSet(S), NEW f \in [S -> Int], NEW g \in [S -> Int], NEW k \in S, NEW x \in Int,
         g[k] = f[k] + x, \A j \in S : j # k => g[j] = f[j]
  PROVE  SumOver(g) = SumOver(f) + x
<1> DEFINE n == Cardinality(S)
           keys == SetToSeq(S)
<1>1. PICK i \in 1..n : keys[i] = k
  BY Listing
<1>2. \A j \in 1..n : j # i => keys[j] \in S /\ keys[j] # k
  BY <1>1, Listing
<1>3. Addends(g)[i] = Addends(f)[i] + x
  BY <1>1, SumOverAddends
<1>4. \A j \in 1..n : j # i => Addends(g)[j] = Addends(f)[j]
  BY <1>2, SumOverAddends
<1>5. /\ Addends(f) \in Seq(Int) /\ Addends(g) \in Seq(Int)
      /\ Len(Addends(f)) = Len(Addends(g)) /\ Len(Addends(g)) = n
  BY SumOverAddends
<1>6. SumOf(Addends(g)) = SumOf(Addends(f)) + x
  <2> HIDE DEF n, keys
  <2> QED BY <1>3, <1>4, <1>5, SumOfChanged
<1> QED BY <1>6, SumOverAddends

-----------------------------------------------------------------------------
(* The values of a sequence in descending order.                           *)

LEMMA AtLeastCounts ==
  ASSUME NEW n \in Nat, NEW s, DOMAIN s = 1..n, NEW x
  PROVE  IsFiniteSet(AtLeast(s, x)) /\ AtLeast(s, x) \subseteq 1..n
         /\ Cardinality(AtLeast(s, x)) \in Nat
<1>1. IsFiniteSet(1..n)
  BY FS_Interval
<1>2. AtLeast(s, x) \in SUBSET (1..n)
  BY DEF AtLeast
<1>3. IsFiniteSet(AtLeast(s, x))
  BY <1>1, <1>2, FS_Subset
<1> QED BY <1>2, <1>3, FS_CardinalityType

\* The k-th value of the order is one of the sequence, k items reach it, and
\* no larger value is reached by as many.
LEMMA DescendingValue ==
  ASSUME NEW b \in Nat, NEW n \in Nat, NEW s \in [1..n -> 0..b], NEW k \in 1..n
  PROVE  LET d == Descending(s)[k] IN
           /\ d \in 0..b
           /\ Cardinality(AtLeast(s, d)) >= k
           /\ \A i \in 1..n : Cardinality(AtLeast(s, s[i])) >= k => s[i] <= d
<1> DEFINE V == {s[i] : i \in DOMAIN s}
           T == {x \in V : Cardinality(AtLeast(s, x)) >= k}
           d == Descending(s)[k]
<1>1. V \subseteq Nat /\ V # {} /\ DOMAIN s = 1..n
  OBVIOUS
<1>2. PICK m \in V : \A x \in V : m <= x
  <2> HIDE DEF V
  <2> QED BY <1>1, LeastNatural
<1>3. AtLeast(s, m) = 1..n
  BY <1>2 DEF AtLeast
<1>4. m \in T
  <2>1. Cardinality(1..n) = n
    BY FS_Interval
  <2>2. Cardinality(AtLeast(s, m)) >= k
    BY <1>3, <2>1
  <2> HIDE DEF V
  <2> QED BY <1>2, <2>2
<1>5. \E x \in T : \A y \in T : y <= x
  <2>1. T \subseteq Nat /\ T # {} /\ \A x \in T : x <= b
    BY <1>4
  <2> HIDE DEF T
  <2> QED BY <2>1, GreatestNatural
<1>6. d = Max(T)
  BY <1>1 DEF Descending
<1>7. d \in T /\ \A y \in T : d >= y
  <2>1. \E x \in T : \A y \in T : x >= y
    <3>1. T \subseteq Int
      OBVIOUS
    <3> HIDE DEF T
    <3> QED BY <1>5, <3>1
  <2> HIDE DEF T, d
  <2> QED BY <1>6, <2>1 DEF Max
<1>8. d \in 0..b /\ Cardinality(AtLeast(s, d)) >= k
  <2> HIDE DEF d
  <2> QED BY <1>7
<1>9. ASSUME NEW i \in 1..n, Cardinality(AtLeast(s, s[i])) >= k PROVE s[i] <= d
  <2>1. s[i] \in T
    BY <1>9
  <2> HIDE DEF d, T
  <2> QED BY <1>7, <1>8, <2>1
<1> HIDE DEF d
<1> QED BY <1>8, <1>9 DEF d

\* A sequence that is larger item by item is larger in descending order too.
LEMMA DescendingMonotone ==
  ASSUME NEW b \in Nat, NEW n \in Nat, NEW s \in [1..n -> 0..b], NEW t \in [1..n -> 0..b],
         \A i \in 1..n : s[i] <= t[i], NEW k \in 1..n
  PROVE  Descending(s)[k] <= Descending(t)[k]
<1> DEFINE x == Descending(s)[k]
           T == AtLeast(s, x)
           V == {t[i] : i \in T}
<1>1. x \in 0..b /\ Cardinality(T) >= k
  BY DescendingValue
<1>2. T \subseteq 1..n /\ IsFiniteSet(T) /\ Cardinality(T) \in Nat
  BY AtLeastCounts
<1>3. T # {}
  <2> HIDE DEF T
  <2> QED BY <1>1, <1>2, FS_EmptySet
<1>4. PICK y \in V : \A z \in V : y <= z
  <2>1. V \subseteq Nat /\ V # {}
    <3> HIDE DEF T
    <3>1. \A i \in 1..n : t[i] \in Nat
      OBVIOUS
    <3>2. PICK i \in T : TRUE
      BY <1>3
    <3> QED BY <1>2, <3>1, <3>2
  <2> HIDE DEF V
  <2> QED BY <2>1, LeastNatural
<1>5. PICK j \in T : y = t[j]
  BY <1>4
<1>6. x <= y
  <2>1. j \in 1..n /\ s[j] >= x /\ s[j] <= t[j]
    BY <1>2, <1>5 DEF AtLeast
  <2> HIDE DEF x
  <2> QED BY <1>1, <1>5, <2>1
<1>7. T \in SUBSET AtLeast(t, t[j])
  <2>1. \A i \in T : i \in 1..n /\ t[j] <= t[i]
    <3>1. \A i \in T : t[i] \in V
      OBVIOUS
    <3> HIDE DEF T, V
    <3> QED BY <1>2, <1>4, <1>5, <3>1
  <2> HIDE DEF T
  <2> QED BY <1>2, <1>5, <2>1 DEF AtLeast
<1>8. Cardinality(T) <= Cardinality(AtLeast(t, t[j])) /\ Cardinality(AtLeast(t, t[j])) \in Nat
  <2>1. IsFiniteSet(AtLeast(t, t[j])) /\ Cardinality(AtLeast(t, t[j])) \in Nat
    BY AtLeastCounts
  <2> HIDE DEF T
  <2> QED BY <1>7, <2>1, FS_Subset
<1>9. t[j] <= Descending(t)[k] /\ Descending(t)[k] \in 0..b
  <2>1. j \in 1..n /\ Cardinality(AtLeast(t, t[j])) >= k
    <3> HIDE DEF T
    <3> QED BY <1>1, <1>2, <1>5, <1>8
  <2> QED BY <2>1, DescendingValue
<1> HIDE DEF x
<1>10. y \in Int
  <2>1. j \in 1..n
    BY <1>2, <1>5
  <2> QED BY <1>5, <2>1
<1>11. x <= Descending(t)[k]
  BY <1>1, <1>5, <1>6, <1>9, <1>10
<1> QED BY <1>11 DEF x

-----------------------------------------------------------------------------
(* Sums of functions that are nothing, or something.                       *)

\* Nothing adds up to nothing.
LEMMA SumOverZero ==
  ASSUME NEW S, IsFiniteSet(S), NEW z \in [S -> Int], \A j \in S : z[j] = 0
  PROVE  SumOver(z) = 0
<1>1. \A j \in S : 1 * z[j] = 0 * z[j]
  OBVIOUS
<1>2. 1 * SumOver(z) = 0 * SumOver(z)
  BY <1>1, SumOverScales
<1>3. SumOver(z) \in Int
  BY SumOverType
<1> QED BY <1>2, <1>3

\* Positive items add up to something.
LEMMA SumOverPositive ==
  ASSUME NEW S, IsFiniteSet(S), S # {}, NEW f \in [S -> Nat \ {0}]
  PROVE  SumOver(f) \in Nat \ {0}
<1> PICK k \in S : TRUE
  OBVIOUS
<1> DEFINE g == [j \in S |-> IF j = k THEN 0 ELSE f[j]]
           z == [j \in S |-> 0]
<1>1. f \in [S -> Int] /\ g \in [S -> Int] /\ z \in [S -> Int]
  OBVIOUS
<1>2. SumOver(f) = SumOver(g) + f[k]
  <2>1. f[k] = g[k] + f[k] /\ f[k] \in Int /\ \A j \in S : j # k => f[j] = g[j]
    BY <1>1
  <2> HIDE DEF g
  <2> QED BY <1>1, <2>1, SumOverChanged
<1>3. SumOver(z) <= SumOver(g)
  <2>1. \A j \in S : z[j] <= g[j]
    OBVIOUS
  <2> HIDE DEF z, g
  <2> QED BY <1>1, <2>1, SumOverMonotone
<1>4. SumOver(z) = 0
  <2>1. \A j \in S : z[j] = 0
    OBVIOUS
  <2> HIDE DEF z
  <2> QED BY <1>1, <2>1, SumOverZero
<1>5. SumOver(g) \in Int
  <2> HIDE DEF g
  <2> QED BY <1>1, SumOverType
<1>6. f[k] \in Nat \ {0}
  OBVIOUS
<1> HIDE DEF g, z
<1> QED BY <1>2, <1>3, <1>4, <1>5, <1>6

-----------------------------------------------------------------------------
(* Folds as paths, and sequences joined.                                   *)

\* A fold h of steps over values V, from b.
FoldOver(h, V, b, n, step) ==
  b \in V /\ n \in Nat /\ step \in [1..n -> [V -> V]] /\ FoldsIn(h, V, b, n, step)

FoldPath(p, h, V, b, n, step) ==
  Iterates(p, b, n, step) /\ p \in [0..n -> V] /\ h[1..n] = p[n]

\* The fold of a sequence passes through the values its steps yield.
LEMMA FoldEnds ==
  ASSUME NEW V, NEW b, NEW n, NEW step, NEW h, FoldOver(h, V, b, n, step)
  PROVE  \E p : FoldPath(p, h, V, b, n, step)
<1>1. b \in V /\ n \in Nat /\ step \in [1..n -> [V -> V]] /\ FoldsIn(h, V, b, n, step)
  BY DEF FoldOver
<1>2. PICK p : Iterates(p, b, n, step) /\ p \in [0..n -> V]
  BY <1>1, Recursion
<1>3. h[1..n] = p[n]
  BY <1>1, <1>2, FoldValue
<1> QED BY <1>2, <1>3 DEF FoldPath

\* What joining the first sequences of a list gives.
Joins(p, X, n, ss) ==
  /\ p \in [0..n -> Seq(X)]
  /\ p[0] = << >>
  /\ \A i \in 1..n : p[i] = p[i - 1] \o ss[i]

\* Sequences are joined one after the other.
LEMMA ConcatFold ==
  ASSUME NEW X, NEW n \in Nat, NEW ss \in [1..n -> Seq(X)]
  PROVE  \E p : Joins(p, X, n, ss) /\ Concat(ss) = p[n]
<1> DEFINE V == Seq(X)
           b == << >>
           step == [i \in 1..n |-> [acc \in V |-> acc \o ss[i]]]
           Is(h) == h = [T \in SUBSET (1..n) |->
                           IF T = {} THEN << >> ELSE h[T \ {Max(T)}] \o ss[Max(T)]]
           h == CHOOSE h : Is(h)
<1>1. DOMAIN ss = 1..n /\ b \in V
  OBVIOUS
<1>2. \A i \in 1..n, acc \in V : acc \o ss[i] \in V
  OBVIOUS
<1>3. step \in [1..n -> [V -> V]] /\ \A i \in 1..n, acc \in V : step[i][acc] = acc \o ss[i]
  <2> HIDE DEF V
  <2> QED BY <1>2
<1> HIDE DEF V, step
<1>4. \E f : Is(f)
  <2>1. PICK f \in [SUBSET (1..n) -> V] : Folds(f, << >>, n, step)
    BY <1>1, <1>3, FoldExists
  <2>2. ASSUME NEW T \in SUBSET (1..n)
        PROVE  f[T] = IF T = {} THEN << >> ELSE f[T \ {Max(T)}] \o ss[Max(T)]
    <3>1. f[T] = IF T = {} THEN << >> ELSE step[Max(T)][f[T \ {Max(T)}]]
      BY <2>1 DEF Folds
    <3>2. T # {} => Max(T) \in 1..n /\ f[T \ {Max(T)}] \in V
      BY GreatestIndex
    <3> QED BY <3>1, <3>2, <1>3
  <2>3. f = [T \in SUBSET (1..n) |-> f[T]]
    OBVIOUS
  <2> QED BY <2>2, <2>3
<1>5. Is(h)
  <2> HIDE DEF Is
  <2> QED BY <1>4
<1>6. Concat(ss) = h[1..n]
  BY <1>1 DEF Concat, FoldLeft, MapThenFoldSet
<1>7. h[{}] = << >>
  <2>1. {} \in SUBSET (1..n)
    OBVIOUS
  <2> QED BY <1>5, <2>1
<1> HIDE DEF h
<1>8. \A T \in SUBSET (1..n) : T # {} /\ h[T \ {Max(T)}] \in V =>
        h[T] = step[Max(T)][h[T \ {Max(T)}]]
  <2> SUFFICES ASSUME NEW T \in SUBSET (1..n), T # {}, h[T \ {Max(T)}] \in V
               PROVE  h[T] = step[Max(T)][h[T \ {Max(T)}]]
    OBVIOUS
  <2>1. h[T] = h[T \ {Max(T)}] \o ss[Max(T)]
    BY <1>5
  <2>2. Max(T) \in 1..n
    BY GreatestIndex
  <2> QED BY <1>3, <2>1, <2>2
<1>9. FoldsIn(h, V, b, n, step)
  BY <1>7, <1>8 DEF FoldsIn
<1> HIDE DEF Is, b
<1>a. PICK p : FoldPath(p, h, V, b, n, step)
  <2>1. b \in V /\ step \in [1..n -> [V -> V]]
    BY <1>1, <1>3 DEF b
  <2>2. FoldOver(h, V, b, n, step)
    BY <2>1, <1>9 DEF FoldOver
  <2> QED BY <2>2, FoldEnds
<1>10. Iterates(p, b, n, step) /\ p \in [0..n -> V] /\ h[1..n] = p[n]
  BY <1>a DEF FoldPath
<1>11. p[0] = b /\ \A i \in 1..n : p[i] = step[i][p[i - 1]]
  BY <1>10 DEF Iterates
<1>12. \A i \in 1..n : p[i] = p[i - 1] \o ss[i]
  <2> TAKE i \in 1..n
  <2>1. p[i - 1] \in V
    BY <1>10
  <2> QED BY <1>3, <1>11, <2>1
<1> QED BY <1>6, <1>10, <1>11, <1>12 DEF V, Joins, b

\* Items of a relation, in the same places.
Alike(s, t, R) == Len(s) = Len(t) /\ \A i \in 1..Len(s) : <<s[i], t[i]>> \in R

\* Two joins are alike where what they join is.
LEMMA ConcatAlike ==
  ASSUME NEW X, NEW n \in Nat, NEW ss \in [1..n -> Seq(X)], NEW tt \in [1..n -> Seq(X)],
         NEW R, \A i \in 1..n : Alike(ss[i], tt[i], R)
  PROVE  Concat(ss) \in Seq(X) /\ Concat(tt) \in Seq(X) /\ Alike(Concat(ss), Concat(tt), R)
<1>1. PICK p : Joins(p, X, n, ss) /\ Concat(ss) = p[n]
  BY ConcatFold
<1>2. PICK q : Joins(q, X, n, tt) /\ Concat(tt) = q[n]
  BY ConcatFold
<1> DEFINE S == {i \in 0..n : Alike(p[i], q[i], R)}
<1>3. 0 \in S
  BY <1>1, <1>2 DEF Alike, Joins
<1>4. ASSUME NEW i \in 1..n, i - 1 \in S PROVE i \in S
  <2> DEFINE u == p[i - 1]
             v == q[i - 1]
             x == ss[i]
             y == tt[i]
  <2>1. /\ u \in Seq(X) /\ v \in Seq(X) /\ x \in Seq(X) /\ y \in Seq(X)
        /\ Alike(u, v, R) /\ Alike(x, y, R)
        /\ p[i] = u \o x /\ q[i] = v \o y
    BY <1>1, <1>2, <1>4 DEF Joins
  <2> HIDE DEF u, v, x, y
  <2>2. /\ Len(u \o x) = Len(u) + Len(x) /\ Len(v \o y) = Len(v) + Len(y)
        /\ Len(v) = Len(u) /\ Len(y) = Len(x) /\ Len(u) \in Nat /\ Len(x) \in Nat
    <3>1. Len(v) = Len(u) /\ Len(y) = Len(x)
      BY <2>1 DEF Alike
    <3> QED BY <2>1, <3>1
  <2>3. ASSUME NEW k \in 1..Len(u \o x) PROVE <<(u \o x)[k], (v \o y)[k]>> \in R
    <3>1. CASE k <= Len(u)
      <4>1. (u \o x)[k] = u[k] /\ (v \o y)[k] = v[k] /\ k \in 1..Len(u)
        BY <2>1, <2>2, <3>1 DEF Alike
      <4> QED BY <2>1, <4>1 DEF Alike
    <3>2. CASE ~(k <= Len(u))
      <4> DEFINE j == k - Len(u)
      <4>1. (u \o x)[k] = x[j] /\ (v \o y)[k] = y[j] /\ j \in 1..Len(x)
        BY <2>1, <2>2, <3>2 DEF Alike
      <4> QED BY <2>1, <4>1 DEF Alike
    <3> QED BY <3>1, <3>2
  <2>4. Alike(u \o x, v \o y, R)
    BY <2>2, <2>3 DEF Alike
  <2>5. i \in 0..n
    OBVIOUS
  <2> QED BY <2>1, <2>4, <2>5 DEF Alike
<1>5. n \in S
  <2>1. \A i \in 0..n : i \in S
    <3> HIDE DEF S
    <3> QED BY <1>3, <1>4, UpTo
  <2> QED BY <2>1
<1>6. Alike(p[n], q[n], R)
  BY <1>5
<1> QED BY <1>1, <1>2, <1>6 DEF Joins

\* A join holds items of what it joins.
LEMMA ConcatType ==
  ASSUME NEW X, NEW n \in Nat, NEW ss \in [1..n -> Seq(X)]
  PROVE  Concat(ss) \in Seq(X)
<1>1. PICK p : Joins(p, X, n, ss) /\ Concat(ss) = p[n]
  BY ConcatFold
<1> QED BY <1>1 DEF Joins

\* A product of whole numbers is one.
LEMMA WholeProduct ==
  ASSUME NEW s \in Seq(Int)
  PROVE  ProductOf(s) \in Int
<1> DEFINE n == Len(s)
           V == Int
           b == 1
           step == [i \in 1..n |-> [acc \in V |-> acc * s[i]]]
           Is(h) == h = [T \in SUBSET (1..n) |->
                           IF T = {} THEN 1 ELSE h[T \ {Max(T)}] * s[Max(T)]]
           h == CHOOSE h : Is(h)
<1>1. n \in Nat /\ DOMAIN s = 1..n /\ \A i \in 1..n : s[i] \in Int
  OBVIOUS
<1> HIDE DEF n
<1>2. \A i \in 1..n, acc \in V : acc * s[i] \in V
  BY <1>1
<1>3. step \in [1..n -> [V -> V]] /\ \A i \in 1..n, acc \in V : step[i][acc] = acc * s[i]
  BY <1>2
<1> HIDE DEF step
<1>4. \E f : Is(f)
  <2>1. PICK f \in [SUBSET (1..n) -> V] : Folds(f, b, n, step)
    <3>1. b \in V /\ n \in Nat
      BY <1>1
    <3>2. step \in [1..n -> [V -> V]]
      BY <1>3
    <3> HIDE DEF b, V
    <3> QED BY <3>1, <3>2, FoldExists
  <2>2. ASSUME NEW T \in SUBSET (1..n)
        PROVE  f[T] = IF T = {} THEN 1 ELSE f[T \ {Max(T)}] * s[Max(T)]
    <3>1. f[T] = IF T = {} THEN 1 ELSE step[Max(T)][f[T \ {Max(T)}]]
      BY <2>1 DEF Folds
    <3>2. T # {} => Max(T) \in 1..n /\ f[T \ {Max(T)}] \in V
      BY <1>1, GreatestIndex
    <3> QED BY <3>1, <3>2, <1>3
  <2>3. f = [T \in SUBSET (1..n) |-> f[T]]
    OBVIOUS
  <2> QED BY <2>2, <2>3
<1>5. Is(h)
  <2> HIDE DEF Is
  <2> QED BY <1>4
<1>6. ProductOf(s) = h[1..n]
  BY <1>1 DEF ProductOf, FoldLeft, MapThenFoldSet
<1>7. h[{}] = 1
  <2>1. {} \in SUBSET (1..n)
    OBVIOUS
  <2> QED BY <1>5, <2>1
<1> HIDE DEF h
<1>8. \A T \in SUBSET (1..n) : T # {} /\ h[T \ {Max(T)}] \in V =>
        h[T] = step[Max(T)][h[T \ {Max(T)}]]
  <2> SUFFICES ASSUME NEW T \in SUBSET (1..n), T # {}, h[T \ {Max(T)}] \in V
               PROVE  h[T] = step[Max(T)][h[T \ {Max(T)}]]
    OBVIOUS
  <2>1. h[T] = h[T \ {Max(T)}] * s[Max(T)]
    BY <1>5
  <2>2. Max(T) \in 1..n
    BY <1>1, GreatestIndex
  <2> QED BY <1>3, <2>1, <2>2
<1>9. FoldsIn(h, V, b, n, step)
  BY <1>7, <1>8 DEF FoldsIn
<1> HIDE DEF Is
<1>10. b \in V /\ n \in Nat
  BY <1>1
<1>11. step \in [1..n -> [V -> V]]
  BY <1>3
<1> HIDE DEF b, V
<1>12. \E p : FoldPath(p, h, V, b, n, step)
  <2>1. FoldOver(h, V, b, n, step)
    BY <1>9, <1>10, <1>11 DEF FoldOver
  <2> QED BY <2>1, FoldEnds
<1> QED BY <1>6, <1>10, <1>12 DEF V, FoldPath

-----------------------------------------------------------------------------
(* Cells.                                                                  *)

\* What is not negative does not add up to less than nothing.
LEMMA SumNatural ==
  ASSUME NEW s \in Seq(Nat)
  PROVE  SumOf(s) \in Nat
<1> DEFINE n == Len(s)
           z == [i \in 1..n |-> 0]
<1>1. n \in Nat /\ s \in Seq(Int) /\ \A i \in 1..n : s[i] \in Nat
  OBVIOUS
<1> HIDE DEF n
<1>2. z \in Seq(Int) /\ Len(z) = n /\ \A i \in 1..n : z[i] = 0
  BY <1>1
<1> HIDE DEF z
<1>3. SumOf(z) <= SumOf(s)
  <2>1. Len(z) = Len(s) /\ \A i \in 1..Len(z) : z[i] <= s[i]
    BY <1>1, <1>2 DEF n
  <2> QED BY <1>1, <1>2, <2>1, SumMonotone
<1>4. 1 * SumOf(z) = 0 * SumOf(z)
  <2> DEFINE c == 0
             d == 1
  <2>1. c \in Int /\ d \in Int /\ \A i \in 1..Len(z) : d * z[i] = c * z[i]
    BY <1>2
  <2> HIDE DEF c, d
  <2>2. d * SumOf(z) = c * SumOf(z)
    BY <1>2, <2>1, SumScales
  <2> QED BY <2>2 DEF c, d
<1>5. SumOf(z) \in Int /\ SumOf(s) \in Int
  BY <1>1, <1>2, SumType
<1> QED BY <1>3, <1>4, <1>5

-----------------------------------------------------------------------------
(* Sums of sums, in either order, and by parts.                            *)

\* h is f and g together.
SumsTo(S, f, g, h) ==
  /\ f \in [S -> Int] /\ g \in [S -> Int] /\ h \in [S -> Int]
  /\ \A x \in S : h[x] = f[x] + g[x]

\* A sum of sums of two is the sum of both.
LEMMA SumOverBoth ==
  ASSUME NEW S, IsFiniteSet(S), NEW f, NEW g, NEW h, SumsTo(S, f, g, h)
  PROVE  SumOver(h) = SumOver(f) + SumOver(g)
BY SumOverAdds DEF SumsTo

\* The rows of f are the columns of g, F and G what they have together.
Transposed(S, T, f, g, F, G) ==
  /\ f \in [S -> [T -> Int]] /\ g \in [T -> [S -> Int]]
  /\ \A d \in S, x \in T : g[x][d] = f[d][x]
  /\ F = [d \in S |-> SumOver(f[d])]
  /\ G = [x \in T |-> SumOver(g[x])]

\* A sum of sums may be taken in either order.
LEMMA SumExchange ==
  ASSUME NEW S, IsFiniteSet(S), NEW T, IsFiniteSet(T), NEW f, NEW g, NEW F, NEW G,
         Transposed(S, T, f, g, F, G)
  PROVE  SumOver(F) = SumOver(G)
<1> DEFINE n == Cardinality(S)
           keys == SetToSeq(S)
           part(x) == PartialSums(Addends(g[x]))
           P == PartialSums(Addends(F))
           some(i) == [x \in T |-> part(x)[i]]
           R == {i \in 0..n : SumOver(some(i)) = P[i]}
<1>0. /\ f \in [S -> [T -> Int]] /\ g \in [T -> [S -> Int]]
      /\ \A d \in S, x \in T : g[x][d] = f[d][x]
      /\ F = [d \in S |-> SumOver(f[d])] /\ G = [x \in T |-> SumOver(g[x])]
  BY DEF Transposed
<1>1. F \in [S -> Int] /\ G \in [T -> Int]
  <2>1. \A d \in S : SumOver(f[d]) \in Int
    <3> TAKE d \in S
    <3> DEFINE h == f[d]
    <3>1. h \in [T -> Int]
      BY <1>0
    <3> HIDE DEF h
    <3>2. SumOver(h) \in Int
      BY <3>1, SumOverType
    <3> QED BY <3>2 DEF h
  <2>2. \A x \in T : SumOver(g[x]) \in Int
    <3> TAKE x \in T
    <3> DEFINE h == g[x]
    <3>1. h \in [S -> Int]
      BY <1>0
    <3> HIDE DEF h
    <3>2. SumOver(h) \in Int
      BY <3>1, SumOverType
    <3> QED BY <3>2 DEF h
  <2> QED BY <1>0, <2>1, <2>2
<1>2. n \in Nat /\ \A i \in 1..n : keys[i] \in S
  BY Listing
<1>3. ASSUME NEW h \in [S -> Int]
      PROVE  LET A == PartialSums(Addends(h)) IN
             /\ SumOver(h) = A[n] /\ A[0] = 0
             /\ \A i \in 0..n : A[i] \in Int
             /\ \A i \in 1..n : A[i] = A[i - 1] + h[keys[i]]
  <2> DEFINE s == Addends(h)
  <2>1. SumOver(h) = SumOf(s) /\ s \in Seq(Int) /\ Len(s) = n /\ \A i \in 1..n : s[i] = h[keys[i]]
    BY SumOverAddends
  <2> HIDE DEF s, n
  <2>2. SumOf(s) = PartialSums(s)[n]
    BY <2>1, SumIsPartial
  <2>3. PartialSums(s)[0] = 0 /\ \A i \in 0..n : PartialSums(s)[i] \in Int
    BY <2>1, PartialSumsStep, PartialSumsType
  <2>4. \A i \in 1..n : PartialSums(s)[i] = PartialSums(s)[i - 1] + s[i]
    BY <2>1, PartialSumsNext
  <2> QED BY <2>1, <2>2, <2>3, <2>4 DEF s
<1>4. /\ SumOver(F) = P[n] /\ P[0] = 0 /\ \A i \in 0..n : P[i] \in Int
      /\ \A i \in 1..n : P[i] = P[i - 1] + F[keys[i]]
  BY <1>1, <1>3
<1>5. \A x \in T : /\ G[x] = part(x)[n] /\ part(x)[0] = 0 /\ \A i \in 0..n : part(x)[i] \in Int
                   /\ \A i \in 1..n : part(x)[i] = part(x)[i - 1] + f[keys[i]][x]
  <2> TAKE x \in T
  <2> DEFINE h == g[x]
  <2>1. h \in [S -> Int] /\ G[x] = SumOver(h) /\ \A i \in 1..n : h[keys[i]] = f[keys[i]][x]
    BY <1>0, <1>2
  <2>2. part(x) = PartialSums(Addends(h))
    OBVIOUS
  <2> HIDE DEF h, part, n, keys
  <2> QED BY <1>3, <2>1, <2>2
<1> HIDE DEF part, P, keys
<1>6. 0 \in R
  <2> DEFINE z == some(0)
  <2>1. z \in [T -> Int] /\ \A x \in T : z[x] = 0
    BY <1>5
  <2> HIDE DEF z
  <2>2. SumOver(z) = 0
    BY <2>1, SumOverZero
  <2> QED BY <1>2, <1>4, <2>2 DEF z
<1>7. ASSUME NEW i \in 1..n, i - 1 \in R PROVE i \in R
  <2> DEFINE old == some(i - 1)
             new == some(i)
             d == keys[i]
             h == f[d]
  <2>1. i \in 0..n /\ i - 1 \in 0..n /\ d \in S
    BY <1>2
  <2>2. old \in [T -> Int] /\ new \in [T -> Int] /\ h \in [T -> Int]
    BY <1>0, <1>5, <2>1
  <2>3. \A x \in T : new[x] = old[x] + h[x]
    BY <1>5
  <2>4. SumOver(old) = P[i - 1]
    BY <1>7
  <2>5. F[d] = SumOver(h)
    BY <1>0, <2>1
  <2>6. P[i] = P[i - 1] + F[d]
    BY <1>4
  <2> HIDE DEF old, new, d, h
  <2>7. SumOver(new) = SumOver(old) + SumOver(h)
    <3>1. SumsTo(T, old, h, new)
      BY <2>2, <2>3 DEF SumsTo
    <3> QED BY <3>1, SumOverBoth
  <2>8. SumOver(new) = P[i]
    BY <2>4, <2>5, <2>6, <2>7
  <2> QED BY <2>1, <2>8 DEF new
<1>8. n \in R
  <2>1. \A i \in 0..n : i \in R
    <3> HIDE DEF R, n
    <3> QED BY <1>2, <1>6, <1>7, UpTo
  <2> QED BY <1>2, <2>1
<1>9. some(n) = G
  <2>1. G = [x \in T |-> G[x]]
    BY <1>1
  <2>2. \A x \in T : G[x] = part(x)[n]
    BY <1>5
  <2> QED BY <2>1, <2>2
<1> QED BY <1>4, <1>8, <1>9

\* What the members of a class have together.
Part(v, c, k) == SumOver([e \in DOMAIN v |-> IF c[e] = k THEN v[e] ELSE 0])

\* A part of a sum is a whole number.
LEMMA PartType ==
  ASSUME NEW D, IsFiniteSet(D), NEW v \in [D -> Int], NEW c, NEW k
  PROVE  Part(v, c, k) \in Int
<1> DEFINE f == [e \in DOMAIN v |-> IF c[e] = k THEN v[e] ELSE 0]
<1>1. f \in [D -> Int]
  OBVIOUS
<1> HIDE DEF f
<1>2. SumOver(f) \in Int
  BY <1>1, SumOverType
<1> QED BY <1>2 DEF Part, f

\* The classes have what all have.
LEMMA PartsShare ==
  ASSUME NEW D, IsFiniteSet(D), NEW K, IsFiniteSet(K), NEW v \in [D -> Int],
         NEW c, \A e \in D : c[e] \in K, NEW F, F = [k \in K |-> Part(v, c, k)]
  PROVE  SumOver(F) = SumOver(v)
<1> DEFINE f == [k \in K |-> [e \in D |-> IF c[e] = k THEN v[e] ELSE 0]]
           g == [e \in D |-> [k \in K |-> IF c[e] = k THEN v[e] ELSE 0]]
<1>1. f \in [K -> [D -> Int]] /\ g \in [D -> [K -> Int]]
  OBVIOUS
<1>2. \A k \in K, e \in D : g[e][k] = f[k][e]
  OBVIOUS
<1>3. F = [k \in K |-> SumOver(f[k])]
  BY DEF Part
<1>4. v = [e \in D |-> SumOver(g[e])]
  <2>1. ASSUME NEW e \in D PROVE SumOver(g[e]) = v[e]
    <3> DEFINE h == g[e]
               z == [k \in K |-> 0]
               x == v[e]
               k == c[e]
    <3>1. k \in K /\ x \in Int /\ h \in [K -> Int] /\ z \in [K -> Int]
      OBVIOUS
    <3>2. h[k] = z[k] + x /\ (\A j \in K : j # k => h[j] = z[j]) /\ \A j \in K : z[j] = 0
      OBVIOUS
    <3> HIDE DEF h, z, x, k
    <3>3. SumOver(z) = 0
      BY <3>1, <3>2, SumOverZero
    <3>4. SumOver(h) = SumOver(z) + x
      BY <3>1, <3>2, SumOverChanged
    <3> QED BY <3>1, <3>3, <3>4 DEF h, x
  <2>2. v = [e \in D |-> v[e]]
    OBVIOUS
  <2> QED BY <2>1, <2>2
<1> HIDE DEF f, g
<1>5. f \in [K -> [D -> Int]]
  BY <1>1
<1>6. g \in [D -> [K -> Int]]
  BY <1>1
<1>7. Transposed(K, D, f, g, F, v)
  BY <1>2, <1>3, <1>4, <1>5, <1>6 DEF Transposed
<1> QED BY <1>7, SumExchange

-----------------------------------------------------------------------------
(* The simulation.                                                         *)

\* q is what has been added up of w, key by key.
Accumulates(q, D, w) ==
  /\ w \in [D -> Int]
  /\ \A i \in 0..Cardinality(D) : q[i] \in Int
  /\ \A i \in 1..Cardinality(D) : q[i] = q[i - 1] + w[SetToSeq(D)[i]]

\* What starts somewhere and takes each item in turn ends with the sum of all.
LEMMA Accumulated ==
  ASSUME NEW D, IsFiniteSet(D), NEW w, NEW q, Accumulates(q, D, w)
  PROVE  q[Cardinality(D)] = q[0] + SumOver(w)
<1> DEFINE n == Cardinality(D)
           s == Addends(w)
           A == PartialSums(s)
           R == {i \in 0..n : q[i] = q[0] + A[i]}
<1>1. /\ w \in [D -> Int] /\ (\A i \in 0..n : q[i] \in Int)
      /\ \A i \in 1..n : q[i] = q[i - 1] + w[SetToSeq(D)[i]]
  BY DEF Accumulates
<1>2. /\ n \in Nat /\ SumOver(w) = SumOf(s) /\ s \in Seq(Int) /\ Len(s) = n
      /\ \A i \in 1..n : s[i] = w[SetToSeq(D)[i]]
  BY <1>1, SumOverAddends
<1> HIDE DEF n, s
<1>3. SumOf(s) = A[n] /\ A[0] = 0 /\ \A i \in 0..n : A[i] \in Int
  BY <1>2, SumIsPartial, PartialSumsStep, PartialSumsType
<1>4. \A i \in 1..n : A[i] = A[i - 1] + s[i]
  BY <1>2, PartialSumsNext
<1> HIDE DEF A
<1>5. 0 \in R
  BY <1>1, <1>2, <1>3
<1>6. ASSUME NEW i \in 1..n, i - 1 \in R PROVE i \in R
  <2>1. i \in 0..n /\ i - 1 \in 0..n
    BY <1>2
  <2>2. q[i] = q[i - 1] + s[i] /\ A[i] = A[i - 1] + s[i] /\ q[i - 1] = q[0] + A[i - 1]
    BY <1>1, <1>2, <1>4, <1>6
  <2>3. q[i] \in Int /\ q[i - 1] \in Int /\ A[i] \in Int /\ A[i - 1] \in Int /\ q[0] \in Int
    BY <1>1, <1>2, <1>3, <2>1
  <2>4. s[i] \in Int
    BY <1>2
  <2>5. q[i] = q[0] + A[i]
    BY <2>2, <2>3, <2>4
  <2> QED BY <2>1, <2>5
<1>7. n \in R
  <2>1. \A i \in 0..n : i \in R
    <3> HIDE DEF R
    <3> QED BY <1>2, <1>5, <1>6, UpTo
  <2> QED BY <1>2, <2>1
<1> QED BY <1>2, <1>3, <1>7 DEF n

\* What is not negative does not add up to less than nothing.
LEMMA SumOverNatural ==
  ASSUME NEW S, IsFiniteSet(S), NEW f \in [S -> Nat]
  PROVE  SumOver(f) \in Nat
<1> DEFINE z == [j \in S |-> 0]
<1>1. f \in [S -> Int] /\ z \in [S -> Int]
  OBVIOUS
<1>2. (\A x \in S : z[x] <= f[x]) /\ \A x \in S : z[x] = 0
  OBVIOUS
<1> HIDE DEF z
<1>3. SumOver(z) = 0
  BY <1>1, <1>2, SumOverZero
<1>4. SumOver(z) <= SumOver(f)
  BY <1>1, <1>2, SumOverMonotone
<1>5. SumOver(f) \in Int
  BY <1>1, SumOverType
<1> QED BY <1>3, <1>4, <1>5

\* An item is at most the sum, and the sum is zero when every item is.
LEMMA ItemWithin ==
  ASSUME NEW S, IsFiniteSet(S), NEW f \in [S -> Nat], NEW k \in S
  PROVE  f[k] <= SumOver(f) /\ SumOver(f) \in Nat
<1> DEFINE g == [j \in S |-> IF j = k THEN 0 ELSE f[j]]
           x == f[k]
<1>1. f \in [S -> Int] /\ g \in [S -> Int] /\ g \in [S -> Nat] /\ x \in Nat
  OBVIOUS
<1>2. f[k] = g[k] + x /\ \A j \in S : j # k => f[j] = g[j]
  OBVIOUS
<1> HIDE DEF g, x
<1>3. SumOver(f) = SumOver(g) + x
  BY <1>1, <1>2, SumOverChanged
<1>4. SumOver(g) \in Nat
  BY <1>1, SumOverNatural
<1>5. f[k] = x
  BY DEF x
<1> QED BY <1>1, <1>3, <1>4, <1>5

-----------------------------------------------------------------------------
(* Rankings.                                                               *)

\* The items that come before one, and itself.
Before(s, i) == {j \in DOMAIN s : s[j] < s[i] \/ (s[j] = s[i] /\ j <= i)}

\* Where an index stands in the order of a sequence.
Place(s, i) == Cardinality(Before(s, i))

\* A ranking puts every index where it stands.
LEMMA RankingPlaces ==
  ASSUME NEW n \in Nat, NEW s \in [1..n -> Int]
  PROVE  /\ Ranking(s) \in [1..n -> 1..n]
         /\ \A i \in 1..n : /\ Before(s, i) \subseteq 1..n /\ IsFiniteSet(Before(s, i))
                            /\ Place(s, i) \in 1..n /\ Ranking(s)[Place(s, i)] = i
         /\ \A k \in 1..n : Place(s, Ranking(s)[k]) = k
<1> DEFINE S == DOMAIN s
           place == [i \in S |-> Cardinality(Before(s, i))]
           order == [k \in S |-> CHOOSE i \in S : place[i] = k]
<1>0. S = 1..n
  OBVIOUS
<1>1. IsFiniteSet(S) /\ Cardinality(S) = n
  BY <1>0, FS_Interval
<1>2. Ranking(s) = order
  BY DEF Ranking, Before
<1>3. \A i \in S : /\ Before(s, i) \in SUBSET S /\ IsFiniteSet(Before(s, i)) /\ i \in Before(s, i)
                   /\ place[i] \in S
  <2> TAKE i \in S
  <2>1. Before(s, i) \in SUBSET S /\ i \in Before(s, i)
    BY <1>0 DEF Before
  <2> DEFINE B == Before(s, i)
             c == Cardinality(B)
  <2> HIDE DEF B, S
  <2>2. IsFiniteSet(B) /\ c <= n
    BY <1>1, <2>1, FS_Subset DEF B
  <2>3. c \in Nat /\ c # 0
    BY <2>1, <2>2, FS_CardinalityType, FS_EmptySet DEF B
  <2>4. place[i] = c
    BY DEF B
  <2> HIDE DEF c, place
  <2> QED BY <1>0, <2>1, <2>2, <2>3, <2>4 DEF B
<1>4. ASSUME NEW i \in S, NEW j \in S, place[i] = place[j] PROVE i = j
  <2> DEFINE A == Before(s, i)
             B == Before(s, j)
  <2>1. A \subseteq B \/ B \subseteq A
    BY <1>0 DEF Before
  <2>2. IsFiniteSet(A) /\ IsFiniteSet(B) /\ i \in A /\ j \in B /\ Cardinality(A) = Cardinality(B)
    BY <1>3, <1>4
  <2>3. A = B
    <3> HIDE DEF A, B
    <3>1. CASE A \subseteq B
      BY <2>2, <3>1, FS_Subset
    <3>2. CASE B \subseteq A
      BY <2>2, <3>2, FS_Subset
    <3> QED BY <2>1, <3>1, <3>2
  <2>4. i \in B /\ j \in A
    BY <2>2, <2>3
  <2> QED BY <1>0, <2>4 DEF Before
<1>10. \A i \in S : place[i] = Place(s, i)
  BY DEF Place
<1> HIDE DEF S
<1>5. place \in [S -> S]
  BY <1>3
<1> HIDE DEF place
<1>6. place \in Injection(S, S)
  BY <1>4, <1>5 DEF Injection, IsInjective
<1>7. place \in Surjection(S, S)
  BY <1>1, <1>6, FS_Injection
<1>8. \A k \in S : \E i \in S : place[i] = k
  BY <1>7 DEF Surjection
<1>9. order \in [S -> S] /\ \A k \in S : place[order[k]] = k
  BY <1>8
<1> HIDE DEF order
<1>11. \A i \in S : order[place[i]] = i
  <2> TAKE i \in S
  <2>1. place[i] \in S
    BY <1>5
  <2>2. order[place[i]] \in S /\ place[order[place[i]]] = place[i]
    BY <1>9, <2>1
  <2> QED BY <1>4, <2>2
<1>12. \A i \in S : /\ Before(s, i) \subseteq S /\ IsFiniteSet(Before(s, i))
                    /\ Place(s, i) \in S /\ order[Place(s, i)] = i
  BY <1>3, <1>10, <1>11
<1>13. \A k \in S : Place(s, order[k]) = k
  BY <1>9, <1>10
<1> QED BY <1>0, <1>2, <1>9, <1>12, <1>13

\* A ranking is made of the indices it ranks.
LEMMA RankingType ==
  ASSUME NEW n \in Nat, NEW s \in [1..n -> Int]
  PROVE  Ranking(s) \in [1..n -> 1..n]
BY RankingPlaces

\* The least of some naturals is one of them.
LEMMA LeastIn ==
  ASSUME NEW T, T \subseteq Nat, T # {}
  PROVE  Min(T) \in T
<1>1. PICK i \in T : \A j \in T : i <= j
  BY LeastNatural
<1> QED BY <1>1 DEF Min

-----------------------------------------------------------------------------
(* A sum of a sequence as one of its items, multiples and groups.          *)

\* A function that is another with more at one place.
MoreAt(S, f, g, k, x) ==
  /\ IsFiniteSet(S) /\ f \in [S -> Int] /\ g \in [S -> Int] /\ k \in S /\ x \in Int
  /\ g[k] = f[k] + x /\ \A j \in S : j # k => g[j] = f[j]

\* More at one place is as much more in all.
LEMMA SumOverMore ==
  ASSUME NEW S, NEW f, NEW g, NEW k, NEW x, MoreAt(S, f, g, k, x)
  PROVE  SumOver(g) = SumOver(f) + x
BY SumOverChanged DEF MoreAt

\* A sum of a sequence is the sum of its items.
LEMMA SumOverItems ==
  ASSUME NEW n \in Nat, NEW s \in [1..n -> Int]
  PROVE  SumOf(s) = SumOver(s)
<1> DEFINE part(m) == [i \in 1..n |-> IF i <= m THEN s[i] ELSE 0]
           T == {m \in 0..n : SumOver(part(m)) = PartialSums(s)[m]}
<1>1. s \in Seq(Int) /\ Len(s) = n
  OBVIOUS
<1>2. IsFiniteSet(1..n)
  BY FS_Interval
<1>3. \A m \in 0..n : part(m) \in [1..n -> Int]
  OBVIOUS
<1>4. 0 \in T
  <2>1. \A i \in 1..n : part(0)[i] = 0
    OBVIOUS
  <2>2. part(0) \in [1..n -> Int]
    BY <1>3
  <2> DEFINE z == part(0)
  <2> HIDE DEF z
  <2>3. SumOver(z) = 0
    BY <1>2, <2>1, <2>2, SumOverZero DEF z
  <2>4. PartialSums(s)[0] = 0
    BY <1>1, PartialSumsStep
  <2> QED BY <2>3, <2>4 DEF z
<1>5. ASSUME NEW i \in 1..n, i - 1 \in T PROVE i \in T
  <2> DEFINE f == part(i - 1)
             g == part(i)
             x == s[i]
  <2>1. f \in [1..n -> Int] /\ g \in [1..n -> Int] /\ x \in Int /\ i \in 1..n
    BY <1>3
  <2>2. g[i] = f[i] + x /\ i \in 1..n
    OBVIOUS
  <2>6. \A j \in 1..n : j # i => g[j] = f[j]
    OBVIOUS
  <2>3. SumOver(f) = PartialSums(s)[i - 1]
    BY <1>5
  <2> HIDE DEF f, g, x
  <2> DEFINE S == 1..n
  <2>7. MoreAt(S, f, g, i, x)
    BY <1>2, <2>1, <2>2, <2>6 DEF MoreAt
  <2> HIDE DEF S
  <2>4. SumOver(g) = SumOver(f) + x
    BY <2>7, SumOverMore
  <2>5. PartialSums(s)[i] = PartialSums(s)[i - 1] + s[i]
    BY <1>1, PartialSumsNext
  <2> QED BY <2>3, <2>4, <2>5 DEF g, x
<1> HIDE DEF T
<1>6. n \in T
  <2>1. \A i \in 0..n : i \in T
    BY <1>4, <1>5, UpTo
  <2> QED BY <2>1
<1>7. part(n) = s
  OBVIOUS
<1>8. SumOver(part(n)) = PartialSums(s)[n]
  BY <1>6 DEF T
<1>9. SumOf(s) = PartialSums(s)[n]
  BY <1>1, SumIsPartial
<1> QED BY <1>7, <1>8, <1>9

\* A function that is a multiple of another.
ScaledBy(S, c, f, g) == f \in [S -> Int] /\ g \in [S -> Int] /\ c \in Int /\ \A x \in S : g[x] = c * f[x]

\* The sum of a multiple is the multiple of the sum.
LEMMA SumOverTimes ==
  ASSUME NEW S, IsFiniteSet(S), NEW c, NEW f, NEW g, ScaledBy(S, c, f, g)
  PROVE  SumOver(g) = c * SumOver(f)
<1> DEFINE d == 1
<1>1. f \in [S -> Int] /\ g \in [S -> Int] /\ c \in Int /\ d \in Int
  BY DEF ScaledBy
<1>2. \A x \in S : d * g[x] = c * f[x]
  BY <1>1 DEF ScaledBy
<1> HIDE DEF d
<1>3. d * SumOver(g) = c * SumOver(f)
  BY <1>1, <1>2, SumOverScales
<1>4. SumOver(g) \in Int
  BY <1>1, SumOverType
<1> QED BY <1>3, <1>4 DEF d

\* The items of a sum that are of a group.
Picks(n, v, c, k, s) ==
  n \in Nat /\ v \in [1..n -> Int] /\ s = [i \in 1..n |-> IF c[i] = k THEN v[i] ELSE 0]

\* The sum of the items of a group is a part of the whole.
LEMMA PickedIsPart ==
  ASSUME NEW n, NEW v, NEW c, NEW k, NEW s, Picks(n, v, c, k, s)
  PROVE  SumOf(s) = Part(v, c, k)
<1>0. n \in Nat /\ v \in [1..n -> Int] /\ s = [i \in 1..n |-> IF c[i] = k THEN v[i] ELSE 0]
  BY DEF Picks
<1>1. s \in [1..n -> Int]
  BY <1>0
<1>2. SumOf(s) = SumOver(s)
  BY <1>0, <1>1, SumOverItems
<1>3. s = [e \in DOMAIN v |-> IF c[e] = k THEN v[e] ELSE 0]
  BY <1>0
<1> QED BY <1>2, <1>3 DEF Part

\* The parts of a sum, one for each group.
PartsOf(D, K, v, c, F) ==
  /\ IsFiniteSet(D) /\ IsFiniteSet(K) /\ v \in [D -> Int] /\ \A e \in D : c[e] \in K
  /\ F = [k \in K |-> Part(v, c, k)]

\* The parts of a sum add up to it.
LEMMA PartsAdd ==
  ASSUME NEW D, NEW K, NEW v, NEW c, NEW F, PartsOf(D, K, v, c, F)
  PROVE  SumOver(F) = SumOver(v)
<1>1. /\ IsFiniteSet(D) /\ IsFiniteSet(K) /\ v \in [D -> Int] /\ \A e \in D : c[e] \in K
      /\ F = [k \in K |-> Part(v, c, k)]
  BY DEF PartsOf
<1> QED BY <1>1, PartsShare

-----------------------------------------------------------------------------
(* Rounded down arithmetic is monotone.                                    *)

LEMMA DivMonotone ==
  ASSUME NEW a \in Int, NEW b \in Int, NEW d \in Nat \ {0}, a <= b
  PROVE  a \div d \in Int /\ b \div d \in Int /\ a \div d <= b \div d
OBVIOUS

LEMMA DivNatural ==
  ASSUME NEW a \in Nat, NEW d \in Nat \ {0}
  PROVE  a \div d \in Nat
OBVIOUS

LEMMA MulMonotone ==
  ASSUME NEW a \in Nat, NEW b \in Nat, NEW c \in Nat, NEW d \in Nat, a <= c, b <= d
  PROVE  a * b \in Nat /\ c * d \in Nat /\ a * b <= c * d
OBVIOUS

LEMMA Residue ==
  ASSUME NEW u \in Nat \ {0}, NEW a \in 0..u, NEW s \in 0..u, NEW t \in 0..u, s <= t
  PROVE  s + ((a * (u - s)) \div u) <= t + ((a * (u - t)) \div u)
OBVIOUS

LEMMA BarrierShare ==
  ASSUME NEW u \in Nat \ {0}, NEW a \in 0..u, NEW v \in 0..u
  PROVE  (a * v) \div u \in 0..u /\ (a * v) \div u <= v
OBVIOUS

LEMMA ClipMonotone ==
  ASSUME NEW x \in Int, NEW y \in Int, NEW lo \in Int, NEW hi \in Int, lo <= hi, x <= y
  PROVE  /\ ClipTo(x, lo, hi) \in lo..hi /\ ClipTo(y, lo, hi) \in lo..hi
         /\ ClipTo(x, lo, hi) <= ClipTo(y, lo, hi)
BY DEF ClipTo

LEMMA TimesMonotone ==
  ASSUME NEW x \in Nat, NEW y \in Nat, NEW v \in Nat, NEW w \in Nat, x <= v, y <= w
  PROVE  Times(x, y) \in Nat /\ Times(v, w) \in Nat /\ Times(x, y) <= Times(v, w)
<1>1. x * y \in Nat /\ v * w \in Nat /\ x * y <= v * w
  BY MulMonotone
<1> DEFINE a == x * y
           b == v * w
<1>2. a \in Int /\ b \in Int /\ a \in Nat /\ b \in Nat /\ a <= b
  BY <1>1
<1>3. Unit \in Nat \ {0}
  BY BarrierUnit
<1> HIDE DEF a, b
<1>4. a \div Unit \in Nat /\ b \div Unit \in Nat
  BY <1>2, <1>3, DivNatural
<1>5. a \div Unit <= b \div Unit
  BY <1>2, <1>3, DivMonotone
<1> QED BY <1>4, <1>5 DEF Times, a, b

LEMMA TimesNatural ==
  ASSUME NEW x \in Nat, NEW y \in Nat
  PROVE  Times(x, y) \in Nat
BY TimesMonotone

-----------------------------------------------------------------------------
(* Barriers.                                                               *)

\* A step of the fold: the sum stays below one and grows with what it joins
\* and with what it had, the shares are the same for all values.
Sofar == [sum : 0..Unit, share : 0..Unit]

LEMMA JoinedMonotone ==
  ASSUME NEW p \in Sofar, NEW q \in Sofar, p.sum <= q.sum, p.share = q.share,
         NEW v \in 0..Unit, NEW w \in 0..Unit, v <= w
  PROVE  /\ Joined(p, v) \in Sofar /\ Joined(q, w) \in Sofar
         /\ Joined(p, v).sum <= Joined(q, w).sum /\ Joined(p, v).share = Joined(q, w).share
<1> DEFINE u == Unit
           a == Times(v, p.share)
           b == Times(w, q.share)
<1>1. /\ u \in Nat \ {0} /\ Increment \in 0..u
      /\ p.sum \in 0..u /\ q.sum \in 0..u /\ p.share \in 0..u /\ q.share \in 0..u
  BY BarrierUnit DEF Sofar
<1>2. a \in 0..u /\ b \in 0..u
  BY <1>1, BarrierShare DEF Times
<1>3. a <= b
  <2>1. p.share \in Nat /\ q.share \in Nat /\ p.share <= q.share /\ v \in Nat /\ w \in Nat
    BY <1>1
  <2> QED BY <2>1, TimesMonotone
<1>4. Times(p.share, Increment) \in 0..u
  BY <1>1, BarrierShare DEF Times
<1>5. ASSUME NEW c \in 0..u, NEW s \in 0..u
      PROVE  Times(c, u - s) \in 0..(u - s)
  <2>1. u - s \in 0..u
    BY <1>1
  <2>2. (c * (u - s)) \div u \in 0..u /\ (c * (u - s)) \div u <= u - s
    BY <1>1, <2>1, BarrierShare
  <2> QED BY <1>1, <2>2 DEF Times
<1>6. p.sum + Times(a, u - p.sum) <= q.sum + Times(a, u - q.sum)
  BY <1>1, <1>2, Residue DEF Times
<1>7. Times(a, u - q.sum) <= Times(b, u - q.sum)
  <2> DEFINE r == u - q.sum
  <2>1. r \in Nat /\ r <= r /\ a \in Nat /\ b \in Nat
    BY <1>1, <1>2
  <2> HIDE DEF a, b, r
  <2>2. Times(a, r) <= Times(b, r)
    BY <1>3, <2>1, TimesMonotone
  <2> QED BY <2>2 DEF r
<1>8. /\ Times(a, u - p.sum) \in 0..(u - p.sum) /\ Times(a, u - q.sum) \in 0..(u - q.sum)
      /\ Times(b, u - q.sum) \in 0..(u - q.sum)
  BY <1>1, <1>2, <1>5
<1> DEFINE x == Times(a, u - p.sum)
           y == Times(a, u - q.sum)
           z == Times(b, u - q.sum)
<1>9. Joined(p, v) = [sum |-> p.sum + x, share |-> Times(p.share, Increment)]
  BY DEF Joined
<1>10. Joined(q, w) = [sum |-> q.sum + z, share |-> Times(q.share, Increment)]
  BY DEF Joined
<1>11. p.sum + x <= q.sum + y /\ y <= z /\ x \in 0..(u - p.sum) /\ z \in 0..(u - q.sum) /\ y \in 0..(u - q.sum)
  BY <1>6, <1>7, <1>8
<1> HIDE DEF x, y, z, a, b
<1>12. p.sum + x \in 0..u /\ q.sum + z \in 0..u /\ p.sum + x <= q.sum + z
  BY <1>1, <1>11
<1>13. Joined(p, v) \in Sofar /\ Joined(q, w) \in Sofar
  BY <1>4, <1>9, <1>10, <1>12 DEF Sofar
<1> QED BY <1>9, <1>10, <1>12, <1>13

\* The fold of values is the last of its iterates.
JoinedSteps(s) == [i \in 1..Len(s) |-> [acc \in Sofar |-> Joined(acc, s[i])]]

NoneJoined == [sum |-> 0, share |-> Unit]

LEMMA JoinedFold ==
  ASSUME NEW s \in Seq(0..Unit)
  PROVE  \E p \in [0..Len(s) -> Sofar] :
           /\ p[0] = NoneJoined
           /\ \A i \in 1..Len(s) : p[i] = Joined(p[i - 1], s[i])
           /\ FoldLeft(Joined, NoneJoined, s) = p[Len(s)]
<1> DEFINE n == Len(s)
           b == NoneJoined
           step == JoinedSteps(s)
           Is(h) == h = [T \in SUBSET (1..n) |->
                           IF T = {} THEN b ELSE Joined(h[T \ {Max(T)}], s[Max(T)])]
           h == CHOOSE h : Is(h)
<1>1. n \in Nat /\ DOMAIN s = 1..n /\ \A i \in 1..n : s[i] \in 0..Unit
  <2> DEFINE V == 0..Unit
  <2>1. s \in Seq(V)
    OBVIOUS
  <2> HIDE DEF V
  <2>2. n \in Nat /\ DOMAIN s = 1..n /\ \A i \in 1..n : s[i] \in V
    BY <2>1
  <2> QED BY <2>2 DEF V
<1>2. b \in Sofar
  BY BarrierUnit DEF Sofar, NoneJoined
<1>3. \A i \in 1..n, acc \in Sofar : step[i][acc] = Joined(acc, s[i]) /\ Joined(acc, s[i]) \in Sofar
  <2> TAKE i \in 1..n, acc \in Sofar
  <2>1. s[i] \in 0..Unit /\ s[i] <= s[i] /\ acc.sum <= acc.sum
    BY <1>1, BarrierUnit DEF Sofar
  <2>2. Joined(acc, s[i]) \in Sofar
    BY <2>1, JoinedMonotone
  <2> QED BY <2>2 DEF JoinedSteps
<1>4. step \in [1..n -> [Sofar -> Sofar]]
  <2>1. step = [i \in 1..n |-> [acc \in Sofar |-> Joined(acc, s[i])]]
    BY DEF JoinedSteps
  <2>2. \A i \in 1..n, acc \in Sofar : Joined(acc, s[i]) \in Sofar
    BY <1>3
  <2> QED BY <2>1, <2>2
<1> HIDE DEF b, step
<1>5. \E f : Is(f)
  <2>1. PICK f \in [SUBSET (1..n) -> Sofar] : Folds(f, b, n, step)
    <3>1. n \in Nat
      BY <1>1
    <3> HIDE DEF n
    <3> QED BY <3>1, <1>2, <1>4, FoldExists
  <2>2. ASSUME NEW T \in SUBSET (1..n)
        PROVE  f[T] = IF T = {} THEN b ELSE Joined(f[T \ {Max(T)}], s[Max(T)])
    <3>1. f[T] = IF T = {} THEN b ELSE step[Max(T)][f[T \ {Max(T)}]]
      BY <2>1 DEF Folds
    <3>2. T # {} => Max(T) \in 1..n /\ f[T \ {Max(T)}] \in Sofar
      BY <1>1, GreatestIndex
    <3> QED BY <3>1, <3>2, <1>3
  <2>3. f = [T \in SUBSET (1..n) |-> f[T]]
    OBVIOUS
  <2> HIDE DEF n
  <2> QED BY <2>2, <2>3
<1>6. Is(h)
  <2> HIDE DEF Is
  <2> QED BY <1>5
<1>7. FoldLeft(Joined, NoneJoined, s) = h[1..n]
  BY <1>1 DEF FoldLeft, MapThenFoldSet, b
<1>8. h[{}] = b
  <2>1. {} \in SUBSET (1..n)
    OBVIOUS
  <2> QED BY <1>6, <2>1
<1> HIDE DEF h
<1>9. \A T \in SUBSET (1..n) : T # {} /\ h[T \ {Max(T)}] \in Sofar =>
        h[T] = step[Max(T)][h[T \ {Max(T)}]]
  <2> SUFFICES ASSUME NEW T \in SUBSET (1..n), T # {}, h[T \ {Max(T)}] \in Sofar
               PROVE  h[T] = step[Max(T)][h[T \ {Max(T)}]]
    OBVIOUS
  <2>1. h[T] = Joined(h[T \ {Max(T)}], s[Max(T)])
    BY <1>6
  <2>2. Max(T) \in 1..n
    BY <1>1, GreatestIndex
  <2> QED BY <1>3, <2>1, <2>2
<1>10. n \in Nat
  BY <1>1
<1> HIDE DEF Is
<1>11. FoldsIn(h, Sofar, b, n, step)
  BY <1>8, <1>9 DEF FoldsIn
<1>12. PICK p : Iterates(p, b, n, step) /\ p \in [0..n -> Sofar]
  <2> HIDE DEF n
  <2> QED BY <1>2, <1>4, <1>10, Recursion
<1>13. h[1..n] = p[n]
  <2> HIDE DEF n
  <2> QED BY <1>2, <1>4, <1>10, <1>12, <1>11, FoldValue
<1>14. p[0] = b /\ \A i \in 1..n : p[i] = step[i][p[i - 1]]
  BY <1>10, <1>12 DEF Iterates
<1>15. \A i \in 1..n : p[i] = Joined(p[i - 1], s[i])
  <2> TAKE i \in 1..n
  <2>1. p[i - 1] \in Sofar
    BY <1>10, <1>12
  <2> QED BY <1>3, <1>14, <2>1
<1> QED BY <1>7, <1>12, <1>13, <1>14, <1>15 DEF b

LEMMA DescendingRange ==
  ASSUME NEW n \in Nat, NEW s \in [1..n -> 0..BarrierCap]
  PROVE  /\ Descending(s) \in Seq(0..Unit) /\ Len(Descending(s)) = n
         /\ \A k \in 1..n : Descending(s)[k] \in 0..Unit
<1>1. BarrierCap \in Nat /\ BarrierCap <= Unit /\ Unit \in Nat
  BY BarrierUnit
<1>2. DOMAIN Descending(s) = 1..n
  BY DEF Descending
<1>3. \A k \in 1..n : Descending(s)[k] \in 0..Unit
  <2> TAKE k \in 1..n
  <2>1. Descending(s)[k] \in 0..BarrierCap
    BY <1>1, DescendingValue
  <2> QED BY <1>1, <2>1
<1>4. Descending(s) = [k \in 1..n |-> Descending(s)[k]]
  BY DEF Descending
<1> DEFINE d == Descending(s)
           V == 0..Unit
<1>5. d = [k \in 1..n |-> d[k]] /\ \A k \in 1..n : d[k] \in V
  BY <1>3, <1>4
<1> HIDE DEF d, V
<1>6. d \in [1..n -> V]
  BY <1>5
<1>7. d \in Seq(V) /\ Len(d) = n
  BY <1>6
<1> QED BY <1>3, <1>7 DEF d, V

\* Controls combine to no less when each is no weaker.
LEMMA CombineMonotone ==
  ASSUME NEW n \in Nat, NEW s \in [1..n -> 0..BarrierCap], NEW t \in [1..n -> 0..BarrierCap],
         \A i \in 1..n : s[i] <= t[i]
  PROVE  /\ CombineEffects(s) \in 0..BarrierCap /\ CombineEffects(t) \in 0..BarrierCap
         /\ CombineEffects(s) <= CombineEffects(t)
<1> DEFINE a == Descending(s)
           b == Descending(t)
<1>1. /\ a \in Seq(0..Unit) /\ Len(a) = n /\ \A k \in 1..n : a[k] \in 0..Unit
      /\ b \in Seq(0..Unit) /\ Len(b) = n /\ \A k \in 1..n : b[k] \in 0..Unit
  BY DescendingRange
<1>2. \A k \in 1..n : a[k] <= b[k]
  <2>1. BarrierCap \in Nat
    BY BarrierUnit
  <2> QED BY <2>1, DescendingMonotone
<1> HIDE DEF a, b
<1>3. PICK p \in [0..n -> Sofar] :
        /\ p[0] = NoneJoined
        /\ \A i \in 1..n : p[i] = Joined(p[i - 1], a[i])
        /\ FoldLeft(Joined, NoneJoined, a) = p[n]
  BY <1>1, JoinedFold
<1>4. PICK q \in [0..n -> Sofar] :
        /\ q[0] = NoneJoined
        /\ \A i \in 1..n : q[i] = Joined(q[i - 1], b[i])
        /\ FoldLeft(Joined, NoneJoined, b) = q[n]
  BY <1>1, JoinedFold
<1> DEFINE S == {i \in 0..n : p[i].sum <= q[i].sum /\ p[i].share = q[i].share}
<1>5. 0 \in S
  BY <1>3, <1>4 DEF NoneJoined
<1>6. ASSUME NEW i \in 1..n, i - 1 \in S PROVE i \in S
  <2>1. /\ p[i - 1] \in Sofar /\ q[i - 1] \in Sofar
        /\ p[i - 1].sum <= q[i - 1].sum /\ p[i - 1].share = q[i - 1].share
    BY <1>6
  <2>2. /\ Joined(p[i - 1], a[i]).sum <= Joined(q[i - 1], b[i]).sum
        /\ Joined(p[i - 1], a[i]).share = Joined(q[i - 1], b[i]).share
    BY <1>1, <1>2, <2>1, JoinedMonotone
  <2> QED BY <1>3, <1>4, <2>2
<1>7. n \in S
  <2>1. \A i \in 0..n : i \in S
    <3> HIDE DEF S
    <3> QED BY <1>5, <1>6, UpTo
  <2> QED BY <2>1
<1>8. p[n].sum \in 0..Unit /\ q[n].sum \in 0..Unit /\ p[n].sum <= q[n].sum
  BY <1>7 DEF Sofar
<1>9. /\ CombineEffects(s) = ClipTo(p[n].sum, 0, BarrierCap)
      /\ CombineEffects(t) = ClipTo(q[n].sum, 0, BarrierCap)
  BY <1>3, <1>4 DEF CombineEffects, NoneJoined, a, b
<1>10. p[n].sum \in Int /\ q[n].sum \in Int /\ 0 \in Int /\ BarrierCap \in Int /\ 0 <= BarrierCap
  BY <1>8, BarrierUnit
<1>11. /\ ClipTo(p[n].sum, 0, BarrierCap) \in 0..BarrierCap
       /\ ClipTo(q[n].sum, 0, BarrierCap) \in 0..BarrierCap
       /\ ClipTo(p[n].sum, 0, BarrierCap) <= ClipTo(q[n].sum, 0, BarrierCap)
  BY <1>8, <1>10, ClipMonotone
<1> QED BY <1>9, <1>11

\* The product of a sequence of shares, likewise.
ProductSteps(s) == [i \in 1..Len(s) |-> [acc \in 0..Unit |-> Times(acc, s[i])]]

LEMMA ProductFold ==
  ASSUME NEW s \in Seq(0..Unit)
  PROVE  \E p \in [0..Len(s) -> 0..Unit] :
           /\ p[0] = Unit
           /\ \A i \in 1..Len(s) : p[i] = Times(p[i - 1], s[i])
           /\ Product(s) = p[Len(s)]
<1> DEFINE n == Len(s)
           V == 0..Unit
           step == ProductSteps(s)
           Is(h) == h = [T \in SUBSET (1..n) |->
                           IF T = {} THEN Unit ELSE Times(h[T \ {Max(T)}], s[Max(T)])]
           h == CHOOSE h : Is(h)
<1>1. n \in Nat /\ DOMAIN s = 1..n /\ \A i \in 1..n : s[i] \in V
  <2>1. s \in Seq(V)
    OBVIOUS
  <2> HIDE DEF V
  <2> QED BY <2>1
<1>2. Unit \in V
  BY BarrierUnit
<1>3. \A i \in 1..n, acc \in V : step[i][acc] = Times(acc, s[i]) /\ Times(acc, s[i]) \in V
  <2> TAKE i \in 1..n, acc \in V
  <2>1. s[i] \in 0..Unit /\ acc \in 0..Unit /\ Unit \in Nat \ {0}
    BY <1>1, BarrierUnit
  <2>2. Times(acc, s[i]) \in V
    BY <2>1, BarrierShare DEF Times
  <2> QED BY <2>2 DEF ProductSteps
<1>4. step \in [1..n -> [V -> V]]
  <2>1. step = [i \in 1..n |-> [acc \in V |-> Times(acc, s[i])]]
    BY DEF ProductSteps
  <2>2. \A i \in 1..n, acc \in V : Times(acc, s[i]) \in V
    BY <1>3
  <2> HIDE DEF V, step
  <2> QED BY <2>1, <2>2
<1> HIDE DEF V, step
<1>5. \E f : Is(f)
  <2>1. PICK f \in [SUBSET (1..n) -> V] : Folds(f, Unit, n, step)
    <3>1. n \in Nat
      BY <1>1
    <3> HIDE DEF n
    <3> QED BY <3>1, <1>2, <1>4, FoldExists
  <2>2. ASSUME NEW T \in SUBSET (1..n)
        PROVE  f[T] = IF T = {} THEN Unit ELSE Times(f[T \ {Max(T)}], s[Max(T)])
    <3>1. f[T] = IF T = {} THEN Unit ELSE step[Max(T)][f[T \ {Max(T)}]]
      BY <2>1 DEF Folds
    <3>2. T # {} => Max(T) \in 1..n /\ f[T \ {Max(T)}] \in V
      BY <1>1, GreatestIndex
    <3> QED BY <3>1, <3>2, <1>3
  <2>3. f = [T \in SUBSET (1..n) |-> f[T]]
    OBVIOUS
  <2> HIDE DEF n
  <2> QED BY <2>2, <2>3
<1>6. Is(h)
  <2> HIDE DEF Is
  <2> QED BY <1>5
<1>7. Product(s) = h[1..n]
  BY <1>1 DEF Product, FoldLeft, MapThenFoldSet
<1>8. h[{}] = Unit
  <2>1. {} \in SUBSET (1..n)
    OBVIOUS
  <2> QED BY <1>6, <2>1
<1> HIDE DEF h
<1>9. \A T \in SUBSET (1..n) : T # {} /\ h[T \ {Max(T)}] \in V =>
        h[T] = step[Max(T)][h[T \ {Max(T)}]]
  <2> SUFFICES ASSUME NEW T \in SUBSET (1..n), T # {}, h[T \ {Max(T)}] \in V
               PROVE  h[T] = step[Max(T)][h[T \ {Max(T)}]]
    OBVIOUS
  <2>1. h[T] = Times(h[T \ {Max(T)}], s[Max(T)])
    BY <1>6
  <2>2. Max(T) \in 1..n
    BY <1>1, GreatestIndex
  <2> QED BY <1>3, <2>1, <2>2
<1>10. n \in Nat
  BY <1>1
<1>11. FoldsIn(h, V, Unit, n, step)
  BY <1>8, <1>9 DEF FoldsIn
<1> HIDE DEF Is
<1>a. PICK p : FoldPath(p, h, V, Unit, n, step)
  <2> DEFINE b == Unit
  <2>1. FoldOver(h, V, b, n, step)
    BY <1>2, <1>4, <1>10, <1>11 DEF FoldOver
  <2> HIDE DEF b, n
  <2>2. \E p : FoldPath(p, h, V, b, n, step)
    BY <2>1, FoldEnds
  <2> QED BY <2>2 DEF b
<1>12. p \in [0..n -> V]
  BY <1>a DEF FoldPath
<1>13. h[1..n] = p[n]
  BY <1>a DEF FoldPath
<1>14. p[0] = Unit /\ \A i \in 1..n : p[i] = step[i][p[i - 1]]
  <2>1. Iterates(p, Unit, n, step)
    BY <1>a DEF FoldPath
  <2>2. p = [i \in 0..n |-> IF i = 0 THEN Unit ELSE step[i][p[i - 1]]]
    BY <2>1 DEF Iterates
  <2> HIDE DEF n
  <2>3. p[0] = Unit
    BY <1>10, <2>2
  <2>4. ASSUME NEW i \in 1..n PROVE p[i] = step[i][p[i - 1]]
    BY <1>10, <2>2
  <2> QED BY <2>3, <2>4
<1>15. \A i \in 1..n : p[i] = Times(p[i - 1], s[i])
  <2> TAKE i \in 1..n
  <2>1. p[i - 1] \in V
    BY <1>10, <1>12
  <2> QED BY <1>3, <1>14, <2>1
<1> QED BY <1>7, <1>12, <1>13, <1>14, <1>15 DEF V

LEMMA ProductMonotone ==
  ASSUME NEW n \in Nat, NEW s \in [1..n -> 0..Unit], NEW t \in [1..n -> 0..Unit],
         \A i \in 1..n : s[i] <= t[i]
  PROVE  Product(s) \in 0..Unit /\ Product(t) \in 0..Unit /\ Product(s) <= Product(t)
<1> DEFINE V == 0..Unit
<1>1. s \in Seq(V) /\ t \in Seq(V) /\ Len(s) = n /\ Len(t) = n /\ \A i \in 1..n : s[i] \in V /\ t[i] \in V
  <2>1. s \in [1..n -> V] /\ t \in [1..n -> V]
    OBVIOUS
  <2> HIDE DEF V
  <2> QED BY <2>1
<1>2. PICK p \in [0..n -> V] :
        p[0] = Unit /\ (\A i \in 1..n : p[i] = Times(p[i - 1], s[i])) /\ Product(s) = p[n]
  BY <1>1, ProductFold
<1>3. PICK q \in [0..n -> V] :
        q[0] = Unit /\ (\A i \in 1..n : q[i] = Times(q[i - 1], t[i])) /\ Product(t) = q[n]
  BY <1>1, ProductFold
<1> DEFINE S == {i \in 0..n : p[i] <= q[i]}
<1>4. 0 \in S
  BY <1>2, <1>3, BarrierUnit
<1>5. ASSUME NEW i \in 1..n, i - 1 \in S PROVE i \in S
  <2>1. i - 1 \in 0..n /\ i \in 0..n /\ p[i - 1] <= q[i - 1] /\ s[i] <= t[i]
    BY <1>5
  <2>2. p[i - 1] \in V /\ q[i - 1] \in V /\ s[i] \in V /\ t[i] \in V
    BY <1>1, <1>2, <1>3, <2>1
  <2>3. p[i - 1] \in Nat /\ q[i - 1] \in Nat /\ s[i] \in Nat /\ t[i] \in Nat
    BY <2>2, BarrierUnit
  <2>4. Times(p[i - 1], s[i]) <= Times(q[i - 1], t[i])
    BY <2>1, <2>3, TimesMonotone
  <2> QED BY <1>2, <1>3, <2>1, <2>4
<1>6. n \in S
  <2>1. \A i \in 0..n : i \in S
    <3> HIDE DEF S
    <3> QED BY <1>4, <1>5, UpTo
  <2> QED BY <2>1
<1>7. p[n] \in V /\ q[n] \in V /\ p[n] <= q[n]
  BY <1>2, <1>3, <1>6
<1> QED BY <1>2, <1>3, <1>7

LEMMA GreatestOf ==
  ASSUME NEW b \in Nat, NEW X, X \subseteq 0..b, X # {}
  PROVE  Max(X) \in X /\ Max(X) \in 0..b /\ \A x \in X : x <= Max(X)
<1>1. X \subseteq Nat /\ \A x \in X : x <= b
  OBVIOUS
<1>2. \E x \in X : \A y \in X : y <= x
  BY <1>1, GreatestNatural
<1>3. \E x \in X : \A y \in X : x >= y
  BY <1>1, <1>2
<1>4. Max(X) \in X /\ \A y \in X : Max(X) >= y
  BY <1>3 DEF Max
<1> QED BY <1>1, <1>4

-----------------------------------------------------------------------------
(* The tail of a vector of trials: what components lose in it adds up.     *)

\* The column of a table in a year.
Column(table, y) == [k \in DOMAIN table |-> table[k][y]]

\* The years, or trials, are numbered.
Years(n, Y) == n \in Nat \ {0} /\ Y = 1..n /\ IsFiniteSet(Y)

\* The first trial of the tail, and how much of it is left out.
Cut(n, q) == CutOf(n, q) \div 100

Spared(n, q) == CutOf(n, q) % 100

\* What the trials of the tail lose, in order.
Slice(n, x, order, q) == [j \in 1..(n - Cut(n, q)) |-> x[order[Cut(n, q) + j]]]

\* The tail has a trial.
LEMMA CutWithin ==
  ASSUME NEW n, NEW Y, Years(n, Y), NEW q \in {95, 99}
  PROVE  Cut(n, q) \in 0..(n - 1) /\ Spared(n, q) \in Nat
<1> DEFINE x == q * n
           z == 100 * (n - 1)
           c == CutOf(n, q)
<1>1. n \in Nat \ {0}
  BY DEF Years
<1>2. x \in Nat /\ z \in Nat
  BY <1>1
<1>3. c = Min({x, z})
  BY DEF CutOf
<1>4. z = 100 * (n - 1)
  OBVIOUS
<1> HIDE DEF c, x, z
<1>5. {x, z} \subseteq Nat /\ {x, z} # {}
  BY <1>2
<1>6. PICK i \in {x, z} : \A j \in {x, z} : i <= j
  BY <1>5, LeastNatural
<1>7. c \in {x, z} /\ \A j \in {x, z} : c <= j
  BY <1>3, <1>6 DEF Min
<1>8. c \in Nat /\ c <= 100 * (n - 1)
  BY <1>2, <1>4, <1>7
<1>9. c \div 100 \in 0..(n - 1) /\ c % 100 \in Nat
  BY <1>1, <1>8
<1> QED BY <1>9 DEF Cut, Spared, c

\* The trials of the tail are trials.
Sliced(n, Y, k, z) ==
  /\ n - k \in Nat /\ k + 1 \in Y
  /\ \A j \in 1..(n - k) : k + j \in Y
  /\ z \in [1..(n - k) -> Int]

\* What the trials of the tail lose is a number for each.
LEMMA SliceType ==
  ASSUME NEW n, NEW Y, Years(n, Y), NEW q \in {95, 99}, NEW order \in [Y -> Y], NEW x \in [Y -> Int]
  PROVE  Sliced(n, Y, Cut(n, q), Slice(n, x, order, q))
<1> DEFINE k == Cut(n, q)
<1>1. n \in Nat \ {0} /\ Y = 1..n /\ k \in 0..(n - 1)
  BY CutWithin DEF Years
<1> HIDE DEF k
<1>2. n - k \in Nat /\ k + 1 \in 1..n /\ \A j \in 1..(n - k) : k + j \in 1..n
  BY <1>1
<1>3. \A j \in 1..(n - k) : x[order[k + j]] \in Int
  BY <1>1, <1>2
<1>4. Slice(n, x, order, q) = [j \in 1..(n - k) |-> x[order[k + j]]]
  BY DEF Slice, k
<1>5. Slice(n, x, order, q) \in [1..(n - k) -> Int]
  BY <1>3, <1>4
<1> QED BY <1>1, <1>2, <1>5 DEF Sliced, k

\* What a component loses in the tail, as sums over it.
LEMMA TailIsLinear ==
  ASSUME NEW n, NEW Y, Years(n, Y), NEW q \in {95, 99}, NEW order \in [Y -> Y], NEW x \in [Y -> Int]
  PROVE  TailContribution(x, order, q)
           = 100 * SumOver(Slice(n, x, order, q)) - Spared(n, q) * x[order[Cut(n, q) + 1]]
<1> DEFINE k == Cut(n, q)
           at == [i \in DOMAIN order |-> x[order[i]]]
           s == SubSeq(at, k + 1, n)
           z == Slice(n, x, order, q)
<1>1. n \in Nat \ {0} /\ Y = 1..n /\ k \in 0..(n - 1)
  BY CutWithin DEF Years
<1>2. n - k \in Nat /\ k + 1 \in 1..n /\ (\A j \in 1..(n - k) : k + j \in 1..n) /\ z \in [1..(n - k) -> Int]
  <2>1. Sliced(n, Y, k, z)
    BY SliceType
  <2> HIDE DEF k, z
  <2> QED BY <1>1, <2>1 DEF Sliced
<1>3. z = [j \in 1..(n - k) |-> x[order[k + j]]]
  BY DEF Slice
<1> HIDE DEF z
<1>4. DOMAIN order = 1..n /\ Len(order) = n
  BY <1>1
<1>5. TailContribution(x, order, q) = 100 * SumOf(s) - Spared(n, q) * at[k + 1]
  BY <1>4 DEF TailContribution, Cut, Spared
<1> HIDE DEF k
<1>6. at \in Seq(Int) /\ at = [i \in 1..n |-> x[order[i]]] /\ Len(at) = n
  BY <1>1, <1>4
<1> HIDE DEF at
<1>7. s = [j \in 1..(n - k) |-> at[k + j]]
  <2>1. s = [j \in 1..((n - (k + 1)) + 1) |-> at[((k + 1) + j) - 1]]
    BY <1>1, <1>6
  <2>2. (n - (k + 1)) + 1 = n - k
    BY <1>1
  <2>3. \A j \in 1..(n - k) : ((k + 1) + j) - 1 = k + j
    BY <1>1
  <2> QED BY <2>1, <2>2, <2>3
<1>8. s = z
  <2>1. \A j \in 1..(n - k) : at[k + j] = x[order[k + j]]
    BY <1>2, <1>6
  <2> QED BY <1>3, <1>7, <2>1
<1>9. SumOf(z) = SumOver(z)
  BY <1>2, SumOverItems
<1>10. at[k + 1] = x[order[k + 1]]
  BY <1>2, <1>6
<1> QED BY <1>5, <1>8, <1>9, <1>10 DEF z, k

\* A table's year is a number per row.
LEMMA ColumnOf ==
  ASSUME NEW K, NEW Y, NEW table \in [K -> [Y -> Nat]], NEW y \in Y
  PROVE  /\ Column(table, y) \in [K -> Nat] /\ Column(table, y) \in [K -> Int]
         /\ \A k \in K : Column(table, y)[k] = table[k][y]
BY DEF Column

\* The components' losses of each year add up to the year's.
YearShares(Y, K, losses, annual) ==
  /\ IsFiniteSet(K) /\ losses \in [K -> [Y -> Nat]] /\ annual \in [Y -> Nat]
  /\ \A y \in Y : SumOver(Column(losses, y)) = annual[y]

LEMMA SharesType ==
  ASSUME NEW Y, NEW K, NEW losses, NEW annual, YearShares(Y, K, losses, annual), NEW y \in Y
  PROVE  /\ Column(losses, y) \in [K -> Int] /\ SumOver(Column(losses, y)) = annual[y]
         /\ \A k \in K : Column(losses, y)[k] = losses[k][y]
BY ColumnOf DEF YearShares

\* The averages of the components add up to the average.
LEMMA AveragesShare ==
  ASSUME NEW n, NEW Y, Years(n, Y), NEW K, NEW losses, NEW annual, YearShares(Y, K, losses, annual)
  PROVE  SumOver([k \in K |-> SumOf(losses[k])]) = SumOf(annual)
<1> DEFINE g == [y \in Y |-> Column(losses, y)]
           F == [k \in K |-> SumOver(losses[k])]
           G == [y \in Y |-> SumOver(g[y])]
<1>1. n \in Nat /\ Y = 1..n /\ IsFiniteSet(Y) /\ IsFiniteSet(K)
  BY DEF Years, YearShares
<1>2. losses \in [K -> [Y -> Int]] /\ annual \in [Y -> Int]
  BY DEF YearShares
<1>3. \A y \in Y : Column(losses, y) \in [K -> Int] /\ \A k \in K : Column(losses, y)[k] = losses[k][y]
  BY SharesType
<1>4. g \in [Y -> [K -> Int]] /\ \A k \in K, y \in Y : g[y][k] = losses[k][y]
  <2> DEFINE c(y) == Column(losses, y)
  <2>1. \A y \in Y : c(y) \in [K -> Int] /\ \A k \in K : c(y)[k] = losses[k][y]
    BY <1>3
  <2>2. g = [y \in Y |-> c(y)]
    OBVIOUS
  <2> HIDE DEF c, g
  <2> QED BY <2>1, <2>2
<1>5. G = annual
  <2>1. \A y \in Y : SumOver(g[y]) = annual[y]
    BY DEF YearShares
  <2> HIDE DEF g
  <2> QED BY <1>2, <2>1
<1> HIDE DEF g
<1>6. Transposed(K, Y, losses, g, F, G)
  BY <1>2, <1>4 DEF Transposed
<1> HIDE DEF F, G
<1>7. SumOver(F) = SumOver(annual)
  BY <1>1, <1>5, <1>6, SumExchange
<1>8. SumOf(annual) = SumOver(annual)
  BY <1>1, <1>2, SumOverItems
<1>9. \A k \in K : SumOf(losses[k]) = SumOver(losses[k])
  <2> TAKE k \in K
  <2> DEFINE s == losses[k]
  <2>1. s \in [1..n -> Int]
    BY <1>1, <1>2
  <2> HIDE DEF s
  <2>2. SumOf(s) = SumOver(s)
    BY <1>1, <2>1, SumOverItems
  <2> QED BY <2>2 DEF s
<1>10. F = [k \in K |-> SumOf(losses[k])]
  BY <1>9 DEF F
<1> QED BY <1>7, <1>8, <1>10

\* What the components lose in the trials of the tail adds up.
SlicesAdd(n, K, losses, annual, order, q) ==
  /\ \A k \in K : SumOver(Slice(n, losses[k], order, q)) \in Int
  /\ SumOver([k \in K |-> SumOver(Slice(n, losses[k], order, q))]) = SumOver(Slice(n, annual, order, q))

\* What the components lose in the trials of the tail is what the whole loses there.
LEMMA SlicesShare ==
  ASSUME NEW n, NEW Y, Years(n, Y), NEW K, NEW losses, NEW annual, YearShares(Y, K, losses, annual),
         NEW order \in [Y -> Y], NEW q \in {95, 99}
  PROVE  SlicesAdd(n, K, losses, annual, order, q)
<1> DEFINE m == n - Cut(n, q)
           T == 1..m
           at(j) == order[Cut(n, q) + j]
           f == [k \in K |-> Slice(n, losses[k], order, q)]
           g == [j \in T |-> Column(losses, at(j))]
           F == [k \in K |-> SumOver(f[k])]
           G == [j \in T |-> SumOver(g[j])]
<1>1. IsFiniteSet(K) /\ losses \in [K -> [Y -> Int]] /\ annual \in [Y -> Int]
  BY DEF YearShares
<1>2. m \in Nat /\ \A j \in T : at(j) \in Y
  <2> DEFINE c == Cut(n, q)
             z == Slice(n, annual, order, q)
  <2>1. Sliced(n, Y, c, z)
    BY <1>1, SliceType
  <2> HIDE DEF c, z
  <2>2. n - c \in Nat /\ \A j \in 1..(n - c) : c + j \in Y
    BY <2>1 DEF Sliced
  <2>3. \A j \in 1..(n - c) : order[c + j] \in Y
    BY <2>2
  <2> QED BY <2>2, <2>3 DEF c
<1>3. IsFiniteSet(T)
  BY <1>2, FS_Interval
<1>4. \A k \in K : Slice(n, losses[k], order, q) = [j \in T |-> losses[k][at(j)]]
  BY DEF Slice
<1>5. Slice(n, annual, order, q) = [j \in T |-> annual[at(j)]]
  BY DEF Slice
<1> HIDE DEF T, at
<1>6. f \in [K -> [T -> Int]] /\ \A k \in K, j \in T : f[k][j] = losses[k][at(j)]
  BY <1>1, <1>2, <1>4
<1>7. g \in [T -> [K -> Int]] /\ \A k \in K, j \in T : g[j][k] = losses[k][at(j)]
  <2> DEFINE c(y) == Column(losses, y)
  <2>1. \A y \in Y : c(y) \in [K -> Int] /\ \A k \in K : c(y)[k] = losses[k][y]
    BY SharesType
  <2>2. g = [j \in T |-> c(at(j))]
    OBVIOUS
  <2> HIDE DEF c, g
  <2>3. \A j \in T : c(at(j)) \in [K -> Int] /\ \A k \in K : c(at(j))[k] = losses[k][at(j)]
    BY <1>2, <2>1
  <2> QED BY <2>2, <2>3
<1>8. G = Slice(n, annual, order, q)
  <2>1. \A y \in Y : SumOver(Column(losses, y)) = annual[y]
    BY DEF YearShares
  <2>2. \A j \in T : g[j] = Column(losses, at(j))
    OBVIOUS
  <2> HIDE DEF g
  <2>3. \A j \in T : SumOver(g[j]) = annual[at(j)]
    BY <1>2, <2>1, <2>2
  <2> QED BY <1>5, <2>3
<1>9. \A k \in K : f[k] = Slice(n, losses[k], order, q)
  OBVIOUS
<1> HIDE DEF f, g
<1>10. Transposed(K, T, f, g, F, G)
  BY <1>6, <1>7 DEF Transposed
<1> HIDE DEF G
<1>11. SumOver(F) = SumOver(G)
  BY <1>1, <1>3, <1>10, SumExchange
<1>12. F = [k \in K |-> SumOver(Slice(n, losses[k], order, q))]
  BY <1>9
<1>13. \A k \in K : SumOver(f[k]) \in Int
  <2> TAKE k \in K
  <2> DEFINE s == f[k]
  <2>1. s \in [T -> Int]
    BY <1>6
  <2> HIDE DEF s
  <2>2. SumOver(s) \in Int
    BY <1>3, <2>1, SumOverType
  <2> QED BY <2>2 DEF s
<1> HIDE DEF F
<1> QED BY <1>8, <1>9, <1>11, <1>12, <1>13 DEF SlicesAdd

\* The tails of the components add up to the tail.
TailsAdd(n, K, losses, annual, order, q) ==
  SumOver([k \in K |-> TailContribution(losses[k], order, q)]) = TailContribution(annual, order, q)

\* The tails of the components add up to the tail, the trial at the cut included.
LEMMA TailsShare ==
  ASSUME NEW n, NEW Y, Years(n, Y), NEW K, NEW losses, NEW annual, YearShares(Y, K, losses, annual),
         NEW order \in [Y -> Y], NEW q \in {95, 99}
  PROVE  TailsAdd(n, K, losses, annual, order, q)
<1> DEFINE y == order[Cut(n, q) + 1]
           w == Spared(n, q)
           A == [k \in K |-> SumOver(Slice(n, losses[k], order, q))]
           B == Column(losses, y)
           F == [k \in K |-> TailContribution(losses[k], order, q)]
           A100 == [k \in K |-> 100 * A[k]]
           Bw == [k \in K |-> w * B[k]]
           a == SumOver(Slice(n, annual, order, q))
<1>1. IsFiniteSet(K) /\ losses \in [K -> [Y -> Int]] /\ annual \in [Y -> Int]
  BY DEF YearShares
<1>2. y \in Y
  <2> DEFINE c == Cut(n, q)
             z == Slice(n, annual, order, q)
  <2>1. Sliced(n, Y, c, z)
    BY <1>1, SliceType
  <2> HIDE DEF c, z
  <2>2. c + 1 \in Y
    BY <2>1 DEF Sliced
  <2> QED BY <2>2 DEF c
<1>3. w \in Int
  <2>1. w \in Nat
    BY CutWithin
  <2> HIDE DEF w
  <2> QED BY <2>1
<1>4. SumOver(A) = a /\ A \in [K -> Int]
  <2> DEFINE e(k) == SumOver(Slice(n, losses[k], order, q))
  <2>0. SlicesAdd(n, K, losses, annual, order, q)
    BY SlicesShare
  <2>1. \A k \in K : e(k) \in Int
    BY <2>0 DEF SlicesAdd
  <2>2. A = [k \in K |-> e(k)]
    OBVIOUS
  <2>3. SumOver(A) = a
    BY <2>0 DEF SlicesAdd
  <2> HIDE DEF e, A, a
  <2> QED BY <2>1, <2>2, <2>3
<1>5. \A k \in K : F[k] = 100 * A[k] - w * losses[k][y]
  <2> TAKE k \in K
  <2> DEFINE x == losses[k]
  <2>1. x \in [Y -> Int]
    BY <1>1
  <2> HIDE DEF x
  <2>2. TailContribution(x, order, q) = 100 * SumOver(Slice(n, x, order, q)) - w * x[y]
    BY <2>1, TailIsLinear
  <2> QED BY <2>2 DEF x
<1>6. TailContribution(annual, order, q) = 100 * a - w * annual[y]
  BY <1>1, TailIsLinear
<1> HIDE DEF y, w, a, A
<1>7. B \in [K -> Int] /\ (\A k \in K : B[k] = losses[k][y]) /\ SumOver(B) = annual[y]
  BY <1>2, SharesType DEF YearShares
<1> HIDE DEF B
<1>8. A100 \in [K -> Int] /\ Bw \in [K -> Int] /\ \A k \in K : A100[k] = 100 * A[k] /\ Bw[k] = w * B[k]
  BY <1>3, <1>4, <1>7
<1>9. DOMAIN F = K
  OBVIOUS
<1>10. F = [k \in K |-> F[k]]
  OBVIOUS
<1> HIDE DEF A100, Bw, F
<1>11. \A k \in K : F[k] \in Int /\ A100[k] = F[k] + Bw[k]
  <2> TAKE k \in K
  <2> DEFINE u == A100[k]
             v == Bw[k]
  <2>1. F[k] = u - v
    BY <1>5, <1>7, <1>8
  <2>2. u \in Int /\ v \in Int
    BY <1>8
  <2> HIDE DEF u, v
  <2>3. F[k] \in Int /\ u = F[k] + v
    BY <2>1, <2>2
  <2> QED BY <2>3 DEF u, v
<1>12. F \in [K -> Int]
  BY <1>10, <1>11
<1>13. SumsTo(K, F, Bw, A100)
  BY <1>8, <1>11, <1>12 DEF SumsTo
<1>14. SumOver(A100) = SumOver(F) + SumOver(Bw)
  BY <1>1, <1>13, SumOverBoth
<1> DEFINE h == 100
<1>15. ScaledBy(K, h, A, A100)
  BY <1>4, <1>8 DEF ScaledBy
<1>16. ScaledBy(K, w, B, Bw)
  BY <1>3, <1>7, <1>8 DEF ScaledBy
<1> HIDE DEF h
<1>17. SumOver(A100) = h * SumOver(A) /\ SumOver(Bw) = w * SumOver(B)
  BY <1>1, <1>15, <1>16, SumOverTimes
<1>18. SumOver(F) \in Int /\ SumOver(A100) \in Int /\ SumOver(Bw) \in Int
  BY <1>1, <1>8, <1>12, SumOverType
<1>19. SumOver(F) = 100 * a - w * annual[y]
  <2>1. SumOver(A100) = 100 * a /\ SumOver(Bw) = w * annual[y]
    BY <1>4, <1>7, <1>17 DEF h
  <2> DEFINE u == SumOver(A100)
             v == SumOver(Bw)
             f == SumOver(F)
  <2>2. u = f + v /\ u \in Int /\ v \in Int /\ f \in Int
    BY <1>14, <1>18
  <2> HIDE DEF u, v, f
  <2>3. f = u - v
    BY <2>2
  <2> QED BY <2>1, <2>3 DEF u, v, f
<1> QED BY <1>6, <1>19 DEF F, TailsAdd

\* The tail mean is what the whole loses in the tail.
LEMMA TailOfWhole ==
  ASSUME NEW n, NEW Y, Years(n, Y), NEW annual \in [Y -> Int], NEW q \in {95, 99}
  PROVE  ExpectedShortfall(annual, q)[1] = TailContribution(annual, Order(annual), q)
<1> DEFINE order == Ranking(annual)
           sorted == Ascending(annual)
           at == [i \in DOMAIN order |-> annual[order[i]]]
<1>1. n \in Nat /\ Y = 1..n
  BY DEF Years
<1>2. annual \in [1..n -> Int] /\ Len(annual) = n /\ DOMAIN annual = 1..n
  BY <1>1
<1>3. order \in [1..n -> 1..n]
  BY <1>1, <1>2, RankingType
<1>4. sorted = [k \in DOMAIN annual |-> annual[order[k]]]
  BY DEF Ascending
<1> HIDE DEF order
<1>5. Len(order) = n /\ sorted = at
  BY <1>1, <1>2, <1>3, <1>4
<1> HIDE DEF sorted
<1> DEFINE k == CutOf(n, q) \div 100
           frac == CutOf(n, q) % 100
<1>6. ExpectedShortfall(annual, q)
        = <<100 * SumOf(SubSeq(sorted, k + 1, n)) - frac * sorted[k + 1], 100 * (n - k) - frac>>
  BY <1>2 DEF ExpectedShortfall, sorted
<1>7. TailContribution(annual, order, q) = 100 * SumOf(SubSeq(at, k + 1, n)) - frac * at[k + 1]
  BY <1>5 DEF TailContribution
<1> HIDE DEF at, k, frac
<1> QED BY <1>5, <1>6, <1>7 DEF Order, order

-----------------------------------------------------------------------------
(* The values of a vector in order, and its tail as a weighted sum.        *)

\* Who comes before another comes with all who come before it.
LEMMA BeforeWithin ==
  ASSUME NEW n \in Nat, NEW s \in [1..n -> Int], NEW i \in 1..n, NEW j \in 1..n, s[i] > s[j]
  PROVE  Place(s, j) <= Place(s, i) /\ i # j
<1>1. Before(s, j) \subseteq Before(s, i)
  BY DEF Before
<1>2. IsFiniteSet(Before(s, i))
  BY RankingPlaces
<1> DEFINE A == Before(s, i)
           B == Before(s, j)
<1>3. B \subseteq A /\ IsFiniteSet(A)
  BY <1>1, <1>2
<1> HIDE DEF A, B
<1>4. Cardinality(B) <= Cardinality(A)
  BY <1>3, FS_Subset
<1> QED BY <1>4 DEF Place, A, B

\* A sequence in its order, and what it grows by.
LEMMA AscendingType ==
  ASSUME NEW n \in Nat, NEW s \in [1..n -> Int]
  PROVE  /\ Ascending(s) \in [1..n -> Int]
         /\ \A k \in 1..n : Ascending(s)[k] = s[Ranking(s)[k]] /\ Ranking(s)[k] \in 1..n
         /\ \A k \in 1..n, m \in 1..n : k <= m => Ascending(s)[k] <= Ascending(s)[m]
<1> DEFINE order == Ranking(s)
<1>1. order \in [1..n -> 1..n] /\ \A k \in 1..n : Place(s, order[k]) = k
  BY RankingPlaces
<1>2. Ascending(s) = [k \in 1..n |-> s[order[k]]]
  BY DEF Ascending
<1> HIDE DEF order
<1>3. ASSUME NEW k \in 1..n, NEW m \in 1..n, k <= m PROVE s[order[k]] <= s[order[m]]
  <2> SUFFICES ASSUME s[order[k]] > s[order[m]] PROVE FALSE
    BY <1>1
  <2> DEFINE i == order[k]
             j == order[m]
  <2>1. i \in 1..n /\ j \in 1..n /\ s[i] > s[j] /\ Place(s, i) = k /\ Place(s, j) = m
    BY <1>1
  <2> HIDE DEF i, j
  <2>2. m <= k /\ i # j
    BY <2>1, BeforeWithin
  <2>3. m = k
    BY <1>3, <2>2
  <2> QED BY <2>2, <2>3 DEF i, j
<1> QED BY <1>1, <1>2, <1>3 DEF order

\* Values that are no higher.
NoHigher(n, s, t) ==
  n \in Nat /\ s \in [1..n -> Int] /\ t \in [1..n -> Int] /\ \A i \in 1..n : s[i] <= t[i]

\* They are no higher in their order.
LEMMA AscendingMonotone ==
  ASSUME NEW n, NEW s, NEW t, NoHigher(n, s, t), NEW k \in 1..n
  PROVE  Ascending(s)[k] <= Ascending(t)[k]
<1>0. n \in Nat /\ s \in [1..n -> Int] /\ t \in [1..n -> Int] /\ \A i \in 1..n : s[i] <= t[i]
  BY DEF NoHigher
<1> DEFINE i == Ranking(s)[k]
           j == Ranking(t)[k]
           A == Before(s, i)
           B == Before(t, j)
<1>1. i \in 1..n /\ Place(s, i) = k /\ j \in 1..n /\ Place(t, j) = k
  <2>1. \A m \in 1..n : Place(s, Ranking(s)[m]) = m
    BY <1>0, RankingPlaces
  <2>2. \A m \in 1..n : Place(t, Ranking(t)[m]) = m
    BY <1>0, RankingPlaces
  <2>3. Ranking(s) \in [1..n -> 1..n] /\ Ranking(t) \in [1..n -> 1..n]
    BY <1>0, RankingPlaces
  <2> QED BY <1>0, <2>1, <2>2, <2>3
<1>2. Ascending(s)[k] = s[i] /\ Ascending(t)[k] = t[j]
  <2>1. \A m \in 1..n : Ascending(s)[m] = s[Ranking(s)[m]] /\ Ranking(s)[m] \in 1..n
    BY <1>0, AscendingType
  <2>2. \A m \in 1..n : Ascending(t)[m] = t[Ranking(t)[m]] /\ Ranking(t)[m] \in 1..n
    BY <1>0, AscendingType
  <2> QED BY <2>1, <2>2
<1>3. IsFiniteSet(A) /\ IsFiniteSet(B)
  <2> HIDE DEF i, j
  <2> QED BY <1>0, <1>1, RankingPlaces
<1>4. Cardinality(A) = k /\ Cardinality(B) = k
  BY <1>1 DEF Place
<1> HIDE DEF i, j
<1> SUFFICES ASSUME s[i] > t[j] PROVE FALSE
  BY <1>0, <1>1, <1>2
<1>5. B \subseteq A \ {i}
  <2> SUFFICES ASSUME NEW m \in B PROVE m \in A /\ m # i
    OBVIOUS
  <2>1. m \in 1..n /\ t[m] <= t[j] /\ s[m] <= t[m]
    BY <1>0, <1>1 DEF Before
  <2>2. s[m] < s[i]
    BY <1>0, <1>1, <2>1
  <2> QED BY <1>0, <1>1, <2>1, <2>2 DEF Before
<1>6. i \in A
  BY <1>0, <1>1 DEF Before
<1> HIDE DEF A, B
<1>7. IsFiniteSet(A \ {i}) /\ Cardinality(A \ {i}) = k - 1
  BY <1>3, <1>4, <1>6, FS_RemoveElement
<1>8. Cardinality(B) <= Cardinality(A \ {i})
  BY <1>5, <1>7, FS_Subset
<1> QED BY <1>4, <1>7, <1>8

\* A sequence in its order has the same sum.
LEMMA AscendingSum ==
  ASSUME NEW n \in Nat, NEW s \in [1..n -> Int]
  PROVE  SumOf(Ascending(s)) = SumOf(s)
<1> DEFINE D == 1..n
           order == Ranking(s)
           v == Ascending(s)
           F == [i \in D |-> Part(v, order, i)]
<1>1. order \in [D -> D] /\ v \in [D -> Int] /\ \A k \in D : v[k] = s[order[k]]
  BY RankingPlaces, AscendingType
<1>2. \A i \in D : Place(s, i) \in D /\ order[Place(s, i)] = i
  BY RankingPlaces
<1>2a. \A k \in D : Place(s, order[k]) = k
  BY RankingPlaces
<1>3. IsFiniteSet(D)
  BY FS_Interval
<1> HIDE DEF order, v, D
<1>4. ASSUME NEW i \in D PROVE Part(v, order, i) = s[i]
  <2> DEFINE z == [k \in D |-> 0]
             g == [k \in D |-> IF order[k] = i THEN v[k] ELSE 0]
             p == Place(s, i)
             x == s[i]
  <2>1. p \in D /\ order[p] = i /\ x \in Int
    BY <1>2 DEF D
  <2>2. g \in [D -> Int] /\ z \in [D -> Int] /\ \A k \in D : z[k] = 0
    BY <1>1
  <2>3. g[p] = x
    BY <1>1, <2>1
  <2>4. \A k \in D : k # p => g[k] = 0
    BY <1>2a
  <2>5. Part(v, order, i) = SumOver(g)
    BY <1>1 DEF Part
  <2> HIDE DEF z, g, p, x
  <2>6. x \in Int /\ g[p] = z[p] + x /\ \A k \in D : k # p => g[k] = z[k]
    BY <2>1, <2>2, <2>3, <2>4
  <2>7. MoreAt(D, z, g, p, x)
    BY <1>3, <2>1, <2>2, <2>6 DEF MoreAt
  <2>8. SumOver(g) = SumOver(z) + x
    BY <2>7, SumOverMore
  <2>9. SumOver(z) = 0
    BY <1>3, <2>2, SumOverZero
  <2>10. SumOver(g) = x
    BY <2>1, <2>8, <2>9
  <2> QED BY <2>5, <2>10 DEF x
<1>5. F = s
  BY <1>4 DEF D
<1>6. PartsOf(D, D, v, order, F)
  BY <1>1, <1>3 DEF PartsOf
<1> HIDE DEF F
<1>7. SumOver(F) = SumOver(v)
  BY <1>6, PartsAdd
<1>8. SumOf(v) = SumOver(v) /\ SumOf(s) = SumOver(s)
  <2>1. v \in [1..n -> Int] /\ s \in [1..n -> Int]
    BY <1>1 DEF D
  <2> QED BY <2>1, SumOverItems
<1> QED BY <1>5, <1>7, <1>8 DEF v

\* What a trial counts for in the tail above a cut: nothing below it, in full
\* above, and for the rest at the cut.
Weight(i, c) == IF 100 * i <= c THEN 0 ELSE IF 100 * i >= c + 100 THEN 100 ELSE 100 * i - c

\* The values of a sequence, each by what it counts for.
ByWeight(s, n, c) == [i \in 1..n |-> Weight(i, c) * s[i]]

\* A weight is a percentage.
LEMMA WeightRange ==
  ASSUME NEW i \in Int, NEW c \in Int
  PROVE  Weight(i, c) \in 0..100
BY DEF Weight

\* It is lower above a higher cut.
LEMMA WeightFalls ==
  ASSUME NEW i \in Int, NEW c \in Int, NEW d \in Int, c <= d
  PROVE  Weight(i, d) <= Weight(i, c)
BY DEF Weight

LEMMA ByWeightType ==
  ASSUME NEW n \in Nat, NEW s \in [1..n -> Int], NEW c \in Int
  PROVE  /\ ByWeight(s, n, c) \in [1..n -> Int] /\ ByWeight(s, n, c) \in Seq(Int)
         /\ Len(ByWeight(s, n, c)) = n
         /\ \A i \in 1..n : Weight(i, c) \in 0..100 /\ ByWeight(s, n, c)[i] = Weight(i, c) * s[i]
<1>1. \A i \in 1..n : Weight(i, c) \in 0..100
  BY WeightRange
<1>2. \A i \in 1..n : Weight(i, c) * s[i] \in Int
  <2> TAKE i \in 1..n
  <2> DEFINE u == Weight(i, c)
             v == s[i]
  <2>0. u \in 0..100 /\ v \in Int
    BY <1>1
  <2> HIDE DEF u, v
  <2>1. u \in Int /\ v \in Int
    BY <2>0
  <2>2. u * v \in Int
    BY <2>1
  <2> QED BY <2>2 DEF u, v
<1>3. ByWeight(s, n, c) \in [1..n -> Int]
  BY <1>2 DEF ByWeight
<1>4. ByWeight(s, n, c) \in Seq(Int) /\ Len(ByWeight(s, n, c)) = n
  BY <1>3
<1> QED BY <1>1, <1>3, <1>4 DEF ByWeight

\* A sequence that starts with zeros sums to what follows them.
LEMMA SuffixSum ==
  ASSUME NEW n \in Nat, NEW s \in [1..n -> Int], NEW k \in 0..n
  PROVE  SumOf(SubSeq(s, k + 1, n)) = SumOf([i \in 1..n |-> IF i <= k THEN 0 ELSE s[i]])
<1> DEFINE a == [i \in 1..n |-> IF i <= k THEN 0 ELSE s[i]]
           r == SubSeq(s, k + 1, n)
           m == n - k
           A == PartialSums(a)
           R == PartialSums(r)
           S == {j \in 0..k : A[j] = 0}
           T == {j \in 0..m : A[k + j] = R[j]}
<1>1. a \in [1..n -> Int] /\ a \in Seq(Int) /\ Len(a) = n
  OBVIOUS
<1>2. m \in Nat
  OBVIOUS
<1>3. r = [j \in 1..m |-> s[k + j]]
  <2>1. r = [j \in 1..((n - (k + 1)) + 1) |-> s[((k + 1) + j) - 1]]
    OBVIOUS
  <2>2. (n - (k + 1)) + 1 = m
    OBVIOUS
  <2>3. \A j \in 1..m : ((k + 1) + j) - 1 = k + j
    OBVIOUS
  <2> QED BY <2>1, <2>2, <2>3
<1> HIDE DEF r
<1>4. \A j \in 1..m : k + j \in 1..n /\ s[k + j] \in Int /\ a[k + j] = s[k + j]
  OBVIOUS
<1>5. r \in Seq(Int) /\ Len(r) = m
  <2>1. r \in [1..m -> Int]
    BY <1>3, <1>4
  <2> QED BY <1>2, <2>1
<1>6. A[0] = 0 /\ \A i \in 1..n : A[i] = A[i - 1] + a[i]
  <2> HIDE DEF a
  <2> QED BY <1>1, PartialSumsStep
<1>7. R[0] = 0 /\ \A i \in 1..m : R[i] = R[i - 1] + r[i]
  BY <1>5, PartialSumsStep
<1>8. SumOf(a) = A[n] /\ SumOf(r) = R[m]
  <2> HIDE DEF a
  <2> QED BY <1>1, <1>5, SumIsPartial
<1>9. \A j \in 1..k : a[j] = 0 /\ j \in 1..n
  OBVIOUS
<1> HIDE DEF a, A, R, m
<1>10. \A j \in 0..k : j \in S
  <2>1. 0 \in S
    BY <1>6
  <2>2. ASSUME NEW i \in 1..k, i - 1 \in S PROVE i \in S
    BY <1>6, <1>9, <2>2
  <2>3. k \in Nat
    OBVIOUS
  <2> HIDE DEF S
  <2> QED BY <2>1, <2>2, <2>3, UpTo
<1>11. \A j \in 0..m : j \in T
  <2>1. 0 \in T
    BY <1>2, <1>7, <1>10
  <2>2. ASSUME NEW i \in 1..m, i - 1 \in T PROVE i \in T
    <3>1. k + i \in 1..n /\ (k + i) - 1 = k + (i - 1) /\ a[k + i] = r[i]
      BY <1>2, <1>3, <1>4
    <3>2. A[k + i] = A[k + (i - 1)] + a[k + i] /\ R[i] = R[i - 1] + r[i]
      BY <1>6, <1>7, <3>1
    <3> QED BY <1>2, <2>2, <3>1, <3>2
  <2> HIDE DEF T
  <2> QED BY <1>2, <2>1, <2>2, UpTo
<1>12. A[k + m] = R[m] /\ k + m = n
  BY <1>2, <1>11 DEF m
<1> QED BY <1>8, <1>12 DEF a, r

\* A cut leaves a part of the last trial.
IsCut(n, c) == n \in Nat \ {0} /\ c \in 0..(100 * (n - 1))

LEMMA CutParts ==
  ASSUME NEW n, NEW c, IsCut(n, c)
  PROVE  /\ c \div 100 \in 0..(n - 1) /\ c % 100 \in 0..99
         /\ 100 * (c \div 100) + (c % 100) = c
         /\ c \in Int /\ n \in Nat /\ 100 * n - c \in Nat \ {0}
<1>1. n \in Nat \ {0} /\ c \in Nat /\ c <= 100 * (n - 1)
  BY DEF IsCut
<1>2. c \div 100 \in 0..(n - 1)
  BY <1>1
<1>3. c % 100 \in 0..99
  BY <1>1
<1>4. 100 * (c \div 100) + (c % 100) = c
  BY <1>1
<1>5. c \in Int /\ n \in Nat /\ 100 * n - c \in Nat \ {0}
  BY <1>1
<1> QED BY <1>2, <1>3, <1>4, <1>5, Zenon

\* The sum of the tail, the value at the cut in part, as a sum of all values.
LEMMA TailIsWeighted ==
  ASSUME NEW n, NEW c, IsCut(n, c), NEW s \in [1..n -> Int]
  PROVE  100 * SumOf(SubSeq(s, c \div 100 + 1, n)) - (c % 100) * s[c \div 100 + 1]
           = SumOf(ByWeight(s, n, c))
<1> DEFINE k == c \div 100
           f == c % 100
<1>0. n \in Nat \ {0} /\ k \in 0..(n - 1) /\ f \in 0..99 /\ c = 100 * k + f /\ c \in Int
  BY CutParts DEF IsCut
<1> HIDE DEF k, f
<1> DEFINE a == [i \in 1..n |-> IF i <= k THEN 0 ELSE s[i]]
           b == [i \in 1..n |-> 100 * a[i]]
           w == ByWeight(s, n, c)
           x == -(f * s[k + 1])
<1>1. a \in [1..n -> Int] /\ a \in Seq(Int) /\ Len(a) = n
  BY <1>0
<1>2. SumOf(SubSeq(s, k + 1, n)) = SumOf(a)
  <2>1. n \in Nat /\ k \in 0..n
    BY <1>0
  <2> QED BY <2>1, SuffixSum
<1>3. k + 1 \in 1..n /\ a[k + 1] = s[k + 1] /\ s[k + 1] \in Int
  BY <1>0
<1>5. \A i \in 1..n : i # k + 1 => Weight(i, c) * s[i] = 100 * a[i]
  <2> TAKE i \in 1..n
  <2>1. i <= k => Weight(i, c) = 0
    BY <1>0 DEF Weight
  <2>2. i > k + 1 => Weight(i, c) = 100
    BY <1>0 DEF Weight
  <2>3. s[i] \in Int /\ a[i] = IF i <= k THEN 0 ELSE s[i]
    OBVIOUS
  <2>4. ASSUME i # k + 1 PROVE Weight(i, c) * s[i] = 100 * a[i]
    <3>1. CASE i <= k
      BY <2>1, <2>3, <3>1
    <3>2. CASE i > k + 1
      BY <1>0, <2>2, <2>3, <3>2
    <3> QED BY <1>0, <2>4, <3>1, <3>2
  <2> QED BY <2>4
<1>6. Weight(k + 1, c) = 100 - f
  BY <1>0 DEF Weight
<1> HIDE DEF a
<1>7. b \in Seq(Int) /\ Len(b) = n /\ \A i \in 1..n : b[i] = 100 * a[i]
  <2>1. n \in Nat /\ \A i \in 1..n : a[i] \in Int
    BY <1>0, <1>1
  <2>2. \A i \in 1..n : 100 * a[i] \in Int
    BY <2>1
  <2>3. b \in [1..n -> Int]
    BY <2>2
  <2>4. b \in Seq(Int) /\ Len(b) = n
    <3> HIDE DEF b
    <3> QED BY <2>1, <2>3
  <2> QED BY <2>4
<1>8. w \in Seq(Int) /\ Len(w) = n /\ \A i \in 1..n : w[i] = Weight(i, c) * s[i]
  <2>1. n \in Nat /\ s \in [1..n -> Int]
    BY <1>0
  <2>2. \A i \in 1..n : w[i] = Weight(i, c) * s[i]
    BY DEF ByWeight
  <2>3. w \in Seq(Int) /\ Len(w) = n
    <3> HIDE DEF w
    <3> QED BY <1>0, <2>1, ByWeightType DEF w
  <2> QED BY <2>2, <2>3
<1> HIDE DEF b, w
<1>9. SumOf(b) = 100 * SumOf(a)
  <2> DEFINE h == 100
             D == 1..n
  <2>0. n \in Nat /\ h \in Int
    BY <1>0
  <2>1. a \in [1..n -> Int] /\ b \in [1..n -> Int]
    BY <1>1, <1>7
  <2>2. SumOf(a) = SumOver(a) /\ SumOf(b) = SumOver(b)
    BY <2>0, <2>1, SumOverItems
  <2>3. IsFiniteSet(D)
    BY <2>0, FS_Interval
  <2>4. ScaledBy(D, h, a, b)
    BY <1>7, <2>0, <2>1 DEF ScaledBy
  <2> HIDE DEF h, D
  <2>5. SumOver(b) = h * SumOver(a)
    BY <2>3, <2>4, SumOverTimes
  <2> QED BY <2>2, <2>5 DEF h
<1>10. x \in Int /\ w[k + 1] = b[k + 1] + x
  <2> DEFINE y == s[k + 1]
  <2>1. y \in Int /\ w[k + 1] = (100 - f) * y /\ b[k + 1] = 100 * y
    BY <1>0, <1>3, <1>6, <1>7, <1>8
  <2> HIDE DEF y
  <2>2. (100 - f) * y = 100 * y + (-(f * y)) /\ -(f * y) \in Int
    BY <1>0, <2>1
  <2> QED BY <2>1, <2>2 DEF y
<1>11. \A i \in 1..n : i # k + 1 => w[i] = b[i]
  BY <1>5, <1>7, <1>8
<1> HIDE DEF x
<1>12. SumOf(w) = SumOf(b) + x
  <2> DEFINE j == k + 1
  <2>1. j \in 1..Len(w) /\ w[j] = b[j] + x /\ \A i \in 1..Len(w) : i # j => w[i] = b[i]
    BY <1>3, <1>8, <1>10, <1>11
  <2> HIDE DEF j
  <2> QED BY <1>7, <1>8, <1>10, <2>1, SumOfChanged
<1>13. SumOf(a) \in Int /\ SumOf(b) \in Int
  BY <1>1, <1>7, SumType
<1>14. f * s[k + 1] \in Int
  BY <1>0, <1>3
<1> DEFINE y == f * s[k + 1]
<1>15. y \in Int /\ x = -y
  BY <1>14 DEF x
<1> HIDE DEF y
<1>16. 100 * SumOf(a) - y = SumOf(w)
  BY <1>9, <1>12, <1>13, <1>15
<1> QED BY <1>2, <1>16 DEF w, y, k, f

\* The sum of one value many times.
LEMMA FlatSum ==
  ASSUME NEW n \in Nat, NEW v \in Int
  PROVE  SumOf([i \in 1..n |-> v]) = n * v
<1> DEFINE a == [i \in 1..n |-> v]
           A == PartialSums(a)
           S == {j \in 0..n : A[j] = j * v}
<1>1. a \in Seq(Int) /\ Len(a) = n /\ \A i \in 1..n : a[i] = v
  OBVIOUS
<1> HIDE DEF a
<1>2. A[0] = 0 /\ \A i \in 1..n : A[i] = A[i - 1] + v
  <2>1. A[0] = 0 /\ \A i \in 1..n : A[i] = A[i - 1] + a[i]
    BY <1>1, PartialSumsStep
  <2> QED BY <1>1, <2>1
<1>3. SumOf(a) = A[n]
  BY <1>1, SumIsPartial
<1> HIDE DEF A
<1>4. 0 \in S
  BY <1>2
<1>5. ASSUME NEW i \in 1..n, i - 1 \in S PROVE i \in S
  <2>1. A[i] = (i - 1) * v + v
    BY <1>2, <1>5
  <2>2. (i - 1) * v + v = i * v
    OBVIOUS
  <2> QED BY <2>1, <2>2
<1>6. n \in S
  <2> HIDE DEF S
  <2>1. \A j \in 0..n : j \in S
    BY <1>4, <1>5, UpTo
  <2> QED BY <2>1
<1> QED BY <1>3, <1>6 DEF a

\* The tail of one value many times.
LEMMA FlatTail ==
  ASSUME NEW n, NEW c, IsCut(n, c), NEW v \in Int,
         NEW t, t = [i \in 1..n |-> v]
  PROVE  SumOf(ByWeight(t, n, c)) = (100 * n - c) * v
<1> DEFINE k == c \div 100
           f == c % 100
<1>0. n \in Nat \ {0} /\ k \in 0..(n - 1) /\ f \in 0..99 /\ c = 100 * k + f /\ c \in Int
  BY CutParts DEF IsCut
<1> DEFINE s == [i \in 1..n |-> v]
           m == n - k
           r == [i \in 1..m |-> v]
<1>1. 100 * SumOf(SubSeq(s, k + 1, n)) - f * s[k + 1] = SumOf(ByWeight(s, n, c))
  <2>1. s \in [1..n -> Int]
    OBVIOUS
  <2> HIDE DEF s
  <2> QED BY <2>1, TailIsWeighted
<1> HIDE DEF k, f
<1>2. s[k + 1] = v /\ m \in Nat
  BY <1>0
<1>3. SubSeq(s, k + 1, n) = r
  <2>1. SubSeq(s, k + 1, n) = [j \in 1..((n - (k + 1)) + 1) |-> s[((k + 1) + j) - 1]]
    BY <1>0
  <2>2. (n - (k + 1)) + 1 = m
    BY <1>0
  <2>3. \A j \in 1..m : s[((k + 1) + j) - 1] = v
    BY <1>0
  <2> QED BY <2>1, <2>2, <2>3
<1>4. SumOf(r) = m * v
  <2> HIDE DEF m
  <2> QED BY <1>2, FlatSum
<1>5. 100 * (m * v) - f * v = (100 * n - c) * v
  BY <1>0
<1>6. s = t
  OBVIOUS
<1> HIDE DEF s, r, m
<1> QED BY <1>1, <1>2, <1>3, <1>4, <1>5, <1>6

\* Values that are no higher have no higher tail.
LEMMA TailMonotone ==
  ASSUME NEW n \in Nat, NEW c \in Int, NEW s \in [1..n -> Int], NEW t \in [1..n -> Int],
         \A i \in 1..n : Weight(i, c) = 0 \/ s[i] <= t[i]
  PROVE  /\ SumOf(ByWeight(s, n, c)) \in Int /\ SumOf(ByWeight(t, n, c)) \in Int
         /\ SumOf(ByWeight(s, n, c)) <= SumOf(ByWeight(t, n, c))
<1> DEFINE u == ByWeight(s, n, c)
           w == ByWeight(t, n, c)
<1>1. /\ u \in Seq(Int) /\ Len(u) = n
      /\ \A i \in 1..n : Weight(i, c) \in 0..100 /\ u[i] = Weight(i, c) * s[i]
  BY ByWeightType
<1>2. /\ w \in Seq(Int) /\ Len(w) = n
      /\ \A i \in 1..n : Weight(i, c) \in 0..100 /\ w[i] = Weight(i, c) * t[i]
  BY ByWeightType
<1>3. \A i \in 1..n : u[i] <= w[i]
  <2> TAKE i \in 1..n
  <2> DEFINE x == s[i]
             y == t[i]
             h == Weight(i, c)
  <2>1. h \in 0..100 /\ x \in Int /\ y \in Int /\ (h = 0 \/ x <= y) /\ u[i] = h * x /\ w[i] = h * y
    BY <1>1, <1>2
  <2> HIDE DEF x, y, h, u, w
  <2>2. h * x <= h * y
    <3>1. CASE h = 0
      BY <2>1, <3>1
    <3>2. CASE x <= y
      <4>1. h \in Int /\ h >= 0 /\ y - x >= 0
        BY <2>1, <3>2
      <4>2. h * (y - x) >= 0
        BY <2>1, <4>1
      <4>3. h * (y - x) = h * y - h * x
        BY <2>1
      <4>4. h * y \in Int /\ h * x \in Int
        BY <2>1
      <4> QED BY <4>2, <4>3, <4>4
    <3> QED BY <2>1, <3>1, <3>2
  <2> QED BY <2>1, <2>2
<1> HIDE DEF u, w
<1>4. SumOf(u) \in Int /\ SumOf(w) \in Int
  BY <1>1, <1>2, SumType
<1>5. SumOf(u) <= SumOf(w)
  BY <1>1, <1>2, <1>3, SumMonotone
<1> QED BY <1>4, <1>5 DEF u, w

\* A sequence whose values do not fall.
Rising(n, s) == s \in [1..n -> Int] /\ \A i \in 1..n, j \in 1..n : i <= j => s[i] <= s[j]

\* A tail is worth at least the value at its cut.
LEMMA TailAboveCut ==
  ASSUME NEW n, NEW c, IsCut(n, c), NEW s, Rising(n, s), NEW j \in 1..n, j <= c \div 100 + 1
  PROVE  SumOf(ByWeight(s, n, c)) \in Int /\ (100 * n - c) * s[j] <= SumOf(ByWeight(s, n, c))
<1> DEFINE v == s[j]
           t == [i \in 1..n |-> v]
<1>1. n \in Nat /\ c \in Int /\ c \div 100 \in Int /\ 100 * (c \div 100) <= c
  BY CutParts
<1>2. v \in Int /\ t \in [1..n -> Int] /\ s \in [1..n -> Int]
  BY DEF Rising
<1>3. \A i \in 1..n : Weight(i, c) = 0 \/ t[i] <= s[i]
  <2> TAKE i \in 1..n
  <2>1. CASE j <= i
    BY <2>1 DEF Rising
  <2>2. CASE ~(j <= i)
    <3>1. i <= c \div 100 /\ 100 * i <= c
      BY <1>1, <2>2
    <3> QED BY <3>1 DEF Weight
  <2> QED BY <2>1, <2>2
<1> HIDE DEF t, v
<1>4. /\ SumOf(ByWeight(s, n, c)) \in Int
      /\ SumOf(ByWeight(t, n, c)) <= SumOf(ByWeight(s, n, c))
  BY <1>1, <1>2, <1>3, TailMonotone
<1>5. SumOf(ByWeight(t, n, c)) = (100 * n - c) * v
  <2>1. t = [i \in 1..n |-> v]
    BY DEF t
  <2> QED BY <1>2, <2>1, FlatTail
<1> QED BY <1>4, <1>5 DEF v

\* A product grows with either factor.
LEMMA ProductGrows ==
  ASSUME NEW a \in Nat, NEW x \in Int, NEW y \in Int, x <= y
  PROVE  a * x \in Int /\ a * y \in Int /\ a * x <= a * y
<1>1. y - x >= 0 /\ a >= 0 /\ y - x \in Int /\ a \in Int
  OBVIOUS
<1>2. a * (y - x) >= 0
  BY <1>1
<1>3. a * (y - x) = a * y - a * x /\ a * x \in Int /\ a * y \in Int
  OBVIOUS
<1> QED BY <1>2, <1>3

\* The mean above a cut is at most the mean above a higher one, when what lies
\* between is worth at most v and what lies above at least v.
LEMMA MeanGrows ==
  ASSUME NEW x \in Int, NEW y \in Int, NEW v \in Int, NEW a \in Nat, NEW b \in Nat,
         b <= a, x + b * v <= y + a * v, b * v <= y
  PROVE  x * b <= y * a
<1> DEFINE g == a - b
<1>1. g \in Nat /\ a = b + g
  OBVIOUS
<1> HIDE DEF g
<1>2. a * v = b * v + g * v /\ b * v \in Int /\ g * v \in Int
  BY <1>1
<1>3. x <= y + g * v
  BY <1>2
<1>4. b * x <= b * (y + g * v) /\ b * x \in Int
  BY <1>2, <1>3, ProductGrows
<1>5. g * (b * v) <= g * y /\ g * y \in Int /\ g * (b * v) \in Int
  BY <1>1, <1>2, ProductGrows
<1>6. b * (y + g * v) = b * y + g * (b * v) /\ b * y \in Int
  BY <1>1
<1>7. b * x <= b * y + g * y
  BY <1>4, <1>5, <1>6
<1>8. y * a = b * y + g * y /\ x * b = b * x
  BY <1>1
<1> QED BY <1>7, <1>8

\* A higher cut has a higher mean.
LEMMA TailMeansGrow ==
  ASSUME NEW n, NEW c, NEW d, IsCut(n, c), IsCut(n, d), c <= d, NEW s, Rising(n, s)
  PROVE  SumOf(ByWeight(s, n, c)) * (100 * n - d) <= SumOf(ByWeight(s, n, d)) * (100 * n - c)
<1> DEFINE m == d \div 100 + 1
<1>1. /\ n \in Nat /\ c \in Int /\ d \in Int /\ m \in 1..n
      /\ 100 * m > d
      /\ 100 * n - c \in Nat /\ 100 * n - d \in Nat
  <2> DEFINE k == d \div 100
             f == d % 100
  <2>1. n \in Nat /\ c \in Int /\ 100 * n - c \in Nat
    BY CutParts
  <2>2. d \in Int /\ 100 * n - d \in Nat /\ k \in 0..(n - 1) /\ f \in 0..99 /\ 100 * k + f = d
    BY CutParts
  <2>3. m = k + 1
    OBVIOUS
  <2> HIDE DEF k, f, m
  <2> QED BY <2>1, <2>2, <2>3
<1> DEFINE v == s[m]
           t == [i \in 1..n |-> v]
           wc == ByWeight(s, n, c)
           wd == ByWeight(s, n, d)
           tc == ByWeight(t, n, c)
           td == ByWeight(t, n, d)
           old == [i \in 1..n |-> wc[i] + td[i]]
           new == [i \in 1..n |-> wd[i] + tc[i]]
<1>2. s \in [1..n -> Int] /\ v \in Int /\ t \in [1..n -> Int] /\ \A i \in 1..n : t[i] = v
  BY <1>1 DEF Rising
<1>3. SumOf(wd) \in Int /\ (100 * n - d) * v <= SumOf(wd)
  <2>1. m <= d \div 100 + 1
    BY <1>1
  <2> HIDE DEF m
  <2> QED BY <1>1, <2>1, TailAboveCut
<1>4. SumOf(tc) = (100 * n - c) * v /\ SumOf(td) = (100 * n - d) * v
  <2>1. t = [i \in 1..n |-> v]
    OBVIOUS
  <2> HIDE DEF v, t, tc, td
  <2>2. SumOf(ByWeight(t, n, c)) = (100 * n - c) * v
    BY <1>2, <2>1, FlatTail
  <2>3. SumOf(ByWeight(t, n, d)) = (100 * n - d) * v
    BY <1>2, <2>1, FlatTail
  <2> QED BY <2>2, <2>3 DEF tc, td
<1> HIDE DEF t
<1>5. \A i \in 1..n : /\ wc[i] \in Int /\ wd[i] \in Int /\ tc[i] \in Int /\ td[i] \in Int
                      /\ wc[i] + td[i] <= wd[i] + tc[i]
  <2> TAKE i \in 1..n
  <2> DEFINE x == s[i]
             hc == Weight(i, c)
             hd == Weight(i, d)
  <2>1. x \in Int /\ hc \in 0..100 /\ hd \in 0..100 /\ hd <= hc
    <3>1. i \in Int
      OBVIOUS
    <3> QED BY <1>1, <1>2, <3>1, WeightRange, WeightFalls
  <2>2. wc[i] = hc * x /\ wd[i] = hd * x /\ tc[i] = hc * v /\ td[i] = hd * v
    BY <1>2 DEF ByWeight
  <2>3. hc = hd \/ x <= v
    <3>1. CASE i <= m
      BY <1>1, <3>1 DEF Rising
    <3>2. CASE i > m
      <4>1. 100 * i >= d + 100 /\ 100 * i >= c + 100
        <5> HIDE DEF m
        <5> QED BY <1>1, <3>2
      <4> QED BY <1>1, <4>1 DEF Weight
    <3> HIDE DEF m
    <3> QED BY <1>1, <3>1, <3>2
  <2> HIDE DEF wc, wd, tc, td, x, hc, hd, v
  <2> DEFINE g == hc - hd
  <2>4. g \in Nat /\ hc = hd + g /\ hd \in Int
    BY <2>1
  <2>5. g * x <= g * v /\ g * x \in Int /\ g * v \in Int
    <3>1. CASE x <= v
      <4> HIDE DEF g
      <4> QED BY <1>2, <2>1, <2>4, <3>1, ProductGrows
    <3>2. CASE hc = hd
      <4>1. g = 0
        BY <2>1, <3>2
      <4> HIDE DEF g
      <4> QED BY <1>2, <2>1, <4>1
    <3> QED BY <2>3, <3>1, <3>2
  <2> HIDE DEF g
  <2>6. hc * x = hd * x + g * x /\ hc * v = hd * v + g * v /\ hd * x \in Int /\ hd * v \in Int
    BY <1>2, <2>1, <2>4
  <2> QED BY <2>2, <2>5, <2>6
<1>6. /\ wc \in Seq(Int) /\ Len(wc) = n /\ wd \in Seq(Int) /\ Len(wd) = n
      /\ tc \in Seq(Int) /\ Len(tc) = n /\ td \in Seq(Int) /\ Len(td) = n
  BY <1>1, <1>2, ByWeightType
<1> HIDE DEF wc, wd, tc, td
<1>7. old \in Seq(Int) /\ Len(old) = n /\ new \in Seq(Int) /\ Len(new) = n
  <2>1. old \in [1..n -> Int] /\ new \in [1..n -> Int]
    BY <1>5
  <2> HIDE DEF old, new
  <2> QED BY <1>1, <2>1
<1>8. \A i \in 1..n : old[i] = wc[i] + td[i] /\ new[i] = wd[i] + tc[i] /\ old[i] <= new[i]
  BY <1>5
<1> HIDE DEF old, new, v, m
<1>9. SumOf(old) = SumOf(wc) + SumOf(td)
  <2>1. Len(wc) = Len(old) /\ Len(td) = Len(old) /\ \A i \in 1..Len(old) : old[i] = wc[i] + td[i]
    BY <1>6, <1>7, <1>8
  <2> QED BY <1>6, <1>7, <2>1, SumAdds
<1>10. SumOf(new) = SumOf(wd) + SumOf(tc)
  <2>1. Len(wd) = Len(new) /\ Len(tc) = Len(new) /\ \A i \in 1..Len(new) : new[i] = wd[i] + tc[i]
    BY <1>6, <1>7, <1>8
  <2> QED BY <1>6, <1>7, <2>1, SumAdds
<1>11. SumOf(old) <= SumOf(new)
  BY <1>7, <1>8, SumMonotone
<1>12. SumOf(wc) \in Int
  BY <1>6, SumType
<1> DEFINE x == SumOf(wc)
           y == SumOf(wd)
           a == 100 * n - c
           b == 100 * n - d
<1>13. /\ x \in Int /\ y \in Int /\ a \in Nat /\ b \in Nat /\ b <= a
       /\ x + b * v <= y + a * v /\ b * v <= y
  BY <1>1, <1>3, <1>4, <1>9, <1>10, <1>11, <1>12
<1> HIDE DEF x, y, a, b
<1>14. x * b <= y * a
  BY <1>2, <1>13, MeanGrows
<1> QED BY <1>14 DEF x, y, a, b, wc, wd

-----------------------------------------------------------------------------
(* The quantile and the tail mean.                                         *)

\* Some numbers of trials, one at least.
Trials(n, x) == n \in Nat \ {0} /\ x \in [1..n -> Int]

LEMMA CutIs ==
  ASSUME NEW n \in Nat \ {0}, NEW q \in {95, 99}
  PROVE  /\ IsCut(n, CutOf(n, q))
         /\ CutOf(n, q) = IF q * n <= 100 * (n - 1) THEN q * n ELSE 100 * (n - 1)
<1> DEFINE x == q * n
           z == 100 * (n - 1)
           c == CutOf(n, q)
<1>1. x \in Nat /\ z \in Nat
  OBVIOUS
<1>2. c = Min({x, z})
  BY DEF CutOf
<1> HIDE DEF c, x, z
<1>3. {x, z} \subseteq Nat /\ {x, z} # {}
  BY <1>1
<1>4. PICK i \in {x, z} : \A j \in {x, z} : i <= j
  BY <1>3, LeastNatural
<1>5. c \in {x, z} /\ \A j \in {x, z} : c <= j
  BY <1>2, <1>4 DEF Min
<1>6. c = IF x <= z THEN x ELSE z
  BY <1>1, <1>5
<1>7. c \in Nat /\ c <= z
  BY <1>1, <1>5
<1>8. c \in 0..z
  BY <1>1, <1>7
<1> QED BY <1>6, <1>8 DEF IsCut, x, z, c

\* The cut of the higher level is no lower.
LEMMA CutsGrow ==
  ASSUME NEW n \in Nat \ {0}
  PROVE  CutOf(n, 95) <= CutOf(n, 99)
<1>1. CutOf(n, 95) = IF 95 * n <= 100 * (n - 1) THEN 95 * n ELSE 100 * (n - 1)
  BY CutIs
<1>2. CutOf(n, 99) = IF 99 * n <= 100 * (n - 1) THEN 99 * n ELSE 100 * (n - 1)
  BY CutIs
<1> QED BY <1>1, <1>2

\* The index of a quantile.
QuantileAt(n, q) == 1 + ((q * (n - 1) + 99) \div 100)

\* It is no later than the first trial of the tail.
LEMMA QuantileBeforeCut ==
  ASSUME NEW n \in Nat \ {0}, NEW q \in {95, 99}
  PROVE  QuantileAt(n, q) \in 1..n /\ QuantileAt(n, q) <= CutOf(n, q) \div 100 + 1
<1> DEFINE c == CutOf(n, q)
           j == 1 + ((q * (n - 1) + 99) \div 100)
<1>1. c = IF q * n <= 100 * (n - 1) THEN q * n ELSE 100 * (n - 1)
  BY CutIs
<1> HIDE DEF c
<1>2. j \in 1..n
  <2>1. CASE q = 95
    BY <2>1
  <2>2. CASE q = 99
    BY <2>2
  <2> QED BY <2>1, <2>2
<1>3. j <= c \div 100 + 1
  <2>1. CASE q = 95
    <3>1. CASE 95 * n <= 100 * (n - 1)
      <4> DEFINE a == 95 * n
      <4>1. c = a /\ a \in Nat /\ 95 * (n - 1) + 99 = a + 4 /\ a = 5 * (19 * n) /\ 19 * n \in Nat
        BY <1>1, <2>1, <3>1
      <4> DEFINE e == 19 * n
      <4>2. c = 5 * e /\ e \in Nat /\ 95 * (n - 1) + 99 = 5 * e + 4
        BY <4>1
      <4> HIDE DEF a, e
      <4>3. (5 * e + 4) \div 100 <= (5 * e) \div 100
        BY <4>2
      <4> QED BY <2>1, <4>2, <4>3
    <3>2. CASE ~(95 * n <= 100 * (n - 1))
      BY <1>1, <2>1, <3>2
    <3> QED BY <3>1, <3>2
  <2>2. CASE q = 99
    BY <1>1, <2>2
  <2> QED BY <2>1, <2>2
<1> QED BY <1>2, <1>3 DEF c, QuantileAt

\* The tail mean is what the tail is worth for what it counts.
LEMMA ShortfallIs ==
  ASSUME NEW n, NEW x, Trials(n, x), NEW q \in {95, 99}
  PROVE  /\ Rising(n, Ascending(x)) /\ IsCut(n, CutOf(n, q))
         /\ ExpectedShortfall(x, q)
              = <<SumOf(ByWeight(Ascending(x), n, CutOf(n, q))), 100 * n - CutOf(n, q)>>
<1> DEFINE c == CutOf(n, q)
           s == Ascending(x)
           k == c \div 100
           f == c % 100
<1>1. n \in Nat \ {0} /\ n \in Nat /\ x \in [1..n -> Int] /\ Len(x) = n
  BY DEF Trials
<1>2. IsCut(n, c)
  BY <1>1, CutIs
<1>3. Rising(n, s)
  BY <1>1, AscendingType DEF Rising
<1>4. ExpectedShortfall(x, q)
        = <<100 * SumOf(SubSeq(s, k + 1, n)) - f * s[k + 1], 100 * (n - k) - f>>
  BY <1>1 DEF ExpectedShortfall
<1> HIDE DEF c, s
<1>5. 100 * SumOf(SubSeq(s, k + 1, n)) - f * s[k + 1] = SumOf(ByWeight(s, n, c))
  BY <1>2, <1>3, TailIsWeighted DEF Rising
<1>6. 100 * (n - k) - f = 100 * n - c
  <2>1. k \in 0..(n - 1) /\ f \in 0..99 /\ 100 * k + f = c
    BY <1>2, CutParts
  <2> HIDE DEF k, f
  <2> QED BY <1>1, <2>1
<1> HIDE DEF k, f
<1>7. ExpectedShortfall(x, q) = <<SumOf(ByWeight(s, n, c)), 100 * n - c>>
  BY <1>4, <1>5, <1>6
<1> QED BY <1>2, <1>3, <1>7 DEF c, s

\* The tail mean grows with its level.
LEMMA ShortfallGrows ==
  ASSUME NEW n, NEW x, Trials(n, x)
  PROVE  AtMost(ExpectedShortfall(x, 95), ExpectedShortfall(x, 99))
<1> DEFINE c == CutOf(n, 95)
           d == CutOf(n, 99)
           s == Ascending(x)
           v == SumOf(ByWeight(s, n, c))
           w == SumOf(ByWeight(s, n, d))
<1>1. Rising(n, s) /\ IsCut(n, c) /\ ExpectedShortfall(x, 95) = <<v, 100 * n - c>>
  BY ShortfallIs
<1>2. IsCut(n, d) /\ ExpectedShortfall(x, 99) = <<w, 100 * n - d>>
  BY ShortfallIs
<1>3. c <= d
  BY CutsGrow DEF Trials
<1> HIDE DEF c, d, s
<1>4. v * (100 * n - d) <= w * (100 * n - c)
  BY <1>1, <1>2, <1>3, TailMeansGrow
<1> HIDE DEF v, w
<1> QED BY <1>1, <1>2, <1>4 DEF AtMost

\* It is at least the average.
LEMMA AverageBelowShortfall ==
  ASSUME NEW n, NEW x, Trials(n, x)
  PROVE  AtMost(Average(x), ExpectedShortfall(x, 95))
<1> DEFINE c == CutOf(n, 95)
           s == Ascending(x)
           z == 0
           t == SumOf(ByWeight(s, n, c))
           a == SumOf(x)
<1>1. Rising(n, s) /\ IsCut(n, c) /\ ExpectedShortfall(x, 95) = <<t, 100 * n - c>>
  BY ShortfallIs
<1>2. n \in Nat \ {0} /\ n \in Nat /\ x \in [1..n -> Int] /\ Len(x) = n
  BY DEF Trials
<1>3. SumOf(s) = a /\ Average(x) = <<a, n>>
  BY <1>2, AscendingSum DEF Average
<1>4. IsCut(n, z) /\ z <= c
  BY <1>1 DEF IsCut
<1> HIDE DEF c
<1>5. SumOf(ByWeight(s, n, z)) = 100 * a
  <2>1. s \in [1..n -> Int] /\ s \in Seq(Int) /\ Len(s) = n
    <3> HIDE DEF s
    <3> QED BY <1>1, <1>2 DEF Rising
  <2>2. 100 * SumOf(SubSeq(s, z \div 100 + 1, n)) - (z % 100) * s[z \div 100 + 1]
          = SumOf(ByWeight(s, n, z))
    <3> HIDE DEF s, z
    <3> QED BY <1>4, <2>1, TailIsWeighted
  <2>3. z \div 100 + 1 = 1 /\ z % 100 = 0
    OBVIOUS
  <2> HIDE DEF s, z
  <2>4. 100 * SumOf(SubSeq(s, 1, n)) - 0 * s[1] = SumOf(ByWeight(s, n, z))
    BY <2>2, <2>3
  <2>5. SubSeq(s, 1, n) = s
    BY <1>2, <2>1
  <2>6. s[1] \in Int /\ SumOf(s) \in Int
    BY <1>2, <2>1, SumType
  <2> DEFINE u == s[1]
             r == SumOf(s)
             e == SumOf(ByWeight(s, n, z))
  <2>7. 100 * r - 0 * u = e /\ u \in Int /\ r \in Int
    BY <2>4, <2>5, <2>6
  <2> HIDE DEF u, r, e
  <2>8. e = 100 * r
    BY <2>7
  <2> QED BY <1>3, <2>8 DEF r, e
<1>6. SumOf(ByWeight(s, n, z)) * (100 * n - c) <= t * (100 * n - z)
  <2> HIDE DEF s, z
  <2> QED BY <1>1, <1>4, TailMeansGrow
<1>7. t \in Int
  <2>1. c \in Int
    BY <1>1, CutParts
  <2> HIDE DEF s
  <2>2. ByWeight(s, n, c) \in Seq(Int)
    BY <1>1, <1>2, <2>1, ByWeightType DEF Rising
  <2> QED BY <2>2, SumType
<1>8. a \in Int
  <2>1. x \in Seq(Int)
    BY <1>2
  <2> QED BY <2>1, SumType
<1>9. 100 * n - c \in Int
  BY <1>1, CutParts
<1> DEFINE b == 100 * n - c
<1>10. b \in Int /\ (100 * a) * b <= t * (100 * n)
  BY <1>2, <1>5, <1>6, <1>9
<1> HIDE DEF s, z, t, a, b
<1>11. a * b <= t * n
  <2>1. (100 * a) * b = 100 * (a * b) /\ t * (100 * n) = 100 * (t * n)
    BY <1>2, <1>7, <1>8, <1>10
  <2>2. a * b \in Int /\ t * n \in Int
    BY <1>2, <1>7, <1>8, <1>10
  <2> QED BY <1>10, <2>1, <2>2
<1> QED BY <1>1, <1>3, <1>11 DEF AtMost, b

\* And at least the quantile.
LEMMA QuantileBelowShortfall ==
  ASSUME NEW n, NEW x, Trials(n, x), NEW q \in {95, 99}
  PROVE  AtMost(<<ValueAtRisk(x, q), 1>>, ExpectedShortfall(x, q))
<1> DEFINE c == CutOf(n, q)
           s == Ascending(x)
           t == SumOf(ByWeight(s, n, c))
           j == QuantileAt(n, q)
<1>1. Rising(n, s) /\ IsCut(n, c) /\ ExpectedShortfall(x, q) = <<t, 100 * n - c>>
  BY ShortfallIs
<1>2. n \in Nat \ {0} /\ Len(x) = n
  BY DEF Trials
<1>3. ValueAtRisk(x, q) = s[j]
  BY <1>2 DEF ValueAtRisk, QuantileAt
<1>4. j \in 1..n /\ j <= c \div 100 + 1
  <2>1. \A k \in Nat \ {0}, p \in {95, 99} :
          QuantileAt(k, p) \in 1..k /\ QuantileAt(k, p) <= CutOf(k, p) \div 100 + 1
    BY QuantileBeforeCut
  <2>2. n \in Nat \ {0} /\ q \in {95, 99}
    BY <1>2
  <2> QED BY <2>1, <2>2
<1> HIDE DEF c, s, j
<1>5. t \in Int /\ (100 * n - c) * s[j] <= t
  BY <1>1, <1>4, TailAboveCut
<1>6. s[j] \in Int /\ 100 * n - c \in Int
  <2>1. 100 * n - c \in Nat \ {0}
    BY <1>1, CutParts
  <2>2. s[j] \in Int
    BY <1>1, <1>4 DEF Rising
  <2> QED BY <2>1, <2>2
<1> DEFINE b == 100 * n - c
           v == s[j]
<1> HIDE DEF t
<1>7. v * b <= t * 1
  <2>1. b * v <= t /\ b \in Int /\ v \in Int
    BY <1>5, <1>6
  <2> HIDE DEF b, v
  <2> QED BY <1>5, <2>1
<1> QED BY <1>1, <1>3, <1>7 DEF AtMost

\* Lower losses have a lower tail mean.
LEMMA ShortfallFalls ==
  ASSUME NEW n, NEW x, NEW y, Trials(n, x), Trials(n, y), \A i \in 1..n : x[i] <= y[i],
         NEW q \in {95, 99}
  PROVE  AtMost(ExpectedShortfall(x, q), ExpectedShortfall(y, q))
<1> DEFINE c == CutOf(n, q)
           r == Ascending(x)
           s == Ascending(y)
           v == SumOf(ByWeight(r, n, c))
           w == SumOf(ByWeight(s, n, c))
           b == 100 * n - c
<1>1. Rising(n, r) /\ IsCut(n, c) /\ ExpectedShortfall(x, q) = <<v, b>>
  BY ShortfallIs
<1>2. Rising(n, s) /\ ExpectedShortfall(y, q) = <<w, b>>
  BY ShortfallIs
<1>3. c \in Int /\ n \in Nat /\ b \in Nat
  BY <1>1, CutParts
<1>4. \A i \in 1..n : r[i] <= s[i]
  <2>1. x \in [1..n -> Int] /\ y \in [1..n -> Int] /\ n \in Nat
    BY DEF Trials
  <2>2. \A i \in 1..n : x[i] <= y[i]
    OBVIOUS
  <2> HIDE DEF c, r, s
  <2>3. \A k \in 1..n : Ascending(x)[k] <= Ascending(y)[k]
    <3>1. NoHigher(n, x, y)
      BY <2>1, <2>2 DEF NoHigher
    <3> QED BY <3>1, AscendingMonotone
  <2> QED BY <2>3 DEF r, s
<1> HIDE DEF c, r, s
<1>5. r \in [1..n -> Int] /\ s \in [1..n -> Int]
  BY <1>1, <1>2 DEF Rising
<1>6. v \in Int /\ w \in Int /\ v <= w
  BY <1>3, <1>4, <1>5, TailMonotone
<1> HIDE DEF v, w, b
<1>7. b * v <= b * w
  BY <1>3, <1>6, ProductGrows
<1>8. v * b <= w * b
  BY <1>3, <1>6, <1>7
<1> QED BY <1>1, <1>2, <1>8 DEF AtMost

-----------------------------------------------------------------------------
(* What is shared out over the items of joined sequences.                  *)

\* The sum of a join is the sum of both sums.
LEMMA SumOfJoin ==
  ASSUME NEW s \in Seq(Int), NEW t \in Seq(Int)
  PROVE  SumOf(s \o t) = SumOf(s) + SumOf(t)
<1> DEFINE r == s \o t
           m == Len(s)
           n == Len(t)
           R == PartialSums(r)
           P == PartialSums(s)
           Q == PartialSums(t)
           U == {i \in 0..m : R[i] = P[i]}
           W == {j \in 0..n : R[m + j] = P[m] + Q[j]}
<1>1. /\ m \in Nat /\ n \in Nat /\ r \in Seq(Int) /\ Len(r) = m + n
      /\ \A i \in 1..m : r[i] = s[i]
      /\ \A j \in 1..n : r[m + j] = t[j]
  OBVIOUS
<1> HIDE DEF r
<1>2. R[0] = 0 /\ \A i \in 1..(m + n) : R[i] = R[i - 1] + r[i]
  BY <1>1, PartialSumsStep
<1>3. P[0] = 0 /\ P[m] \in Int /\ \A i \in 1..m : P[i] = P[i - 1] + s[i]
  <2>1. m \in 0..m
    BY <1>1
  <2> QED BY <2>1, PartialSumsStep
<1>4. Q \in [0..n -> Int] /\ Q[0] = 0 /\ \A j \in 1..n : Q[j] = Q[j - 1] + t[j]
  BY PartialSumsStep
<1>5. SumOf(r) = R[m + n] /\ SumOf(s) = P[m] /\ SumOf(t) = Q[n]
  BY <1>1, SumIsPartial
<1>6. \A j \in 1..n : t[j] \in Int
  OBVIOUS
<1> HIDE DEF R, P, Q, m, n
<1>7. R[m] = P[m]
  <2>1. 0 \in U
    BY <1>1, <1>2, <1>3
  <2>2. ASSUME NEW i \in 1..m, i - 1 \in U PROVE i \in U
    <3>1. i \in 1..(m + n)
      BY <1>1
    <3> QED BY <1>1, <1>2, <1>3, <2>2, <3>1
  <2>3. \A i \in 0..m : i \in U
    <3> HIDE DEF U
    <3> QED BY <1>1, <2>1, <2>2, UpTo
  <2> QED BY <1>1, <2>3
<1>8. R[m + n] = P[m] + Q[n]
  <2>1. 0 \in W
    BY <1>1, <1>3, <1>4, <1>7
  <2>2. ASSUME NEW j \in 1..n, j - 1 \in W PROVE j \in W
    <3>1. m + j \in 1..(m + n) /\ (m + j) - 1 = m + (j - 1) /\ j - 1 \in 0..n
      BY <1>1
    <3>2. R[m + j] = R[m + (j - 1)] + t[j]
      BY <1>1, <1>2, <3>1
    <3>3. Q[j - 1] \in Int /\ t[j] \in Int /\ Q[j] = Q[j - 1] + t[j]
      BY <1>4, <1>6, <3>1
    <3>4. R[m + (j - 1)] = P[m] + Q[j - 1]
      BY <2>2
    <3>5. R[m + j] = P[m] + Q[j]
      BY <1>3, <3>2, <3>3, <3>4
    <3> QED BY <3>5
  <2>3. \A j \in 0..n : j \in W
    <3> HIDE DEF W
    <3> QED BY <1>1, <2>1, <2>2, UpTo
  <2> QED BY <1>1, <2>3
<1> QED BY <1>5, <1>8 DEF r

\* What the items of a sequence are worth together.
Worth(v, s) == SumOf([i \in 1..Len(s) |-> v[s[i]]])

\* That is at most t, and short of it by at most one for each item.
Short(v, s, t) == Worth(v, s) \in t - Len(s)..t

LEMMA WorthType ==
  ASSUME NEW X, NEW v \in [X -> Int], NEW s \in Seq(X)
  PROVE  /\ [i \in 1..Len(s) |-> v[s[i]]] \in Seq(Int)
         /\ Len([i \in 1..Len(s) |-> v[s[i]]]) = Len(s)
         /\ Worth(v, s) \in Int
<1> DEFINE n == Len(s)
           a == [i \in 1..n |-> v[s[i]]]
<1>1. n \in Nat /\ \A i \in 1..n : s[i] \in X
  OBVIOUS
<1> HIDE DEF n
<1>2. a \in [1..n -> Int]
  BY <1>1
<1> HIDE DEF a
<1>3. a \in Seq(Int) /\ Len(a) = n
  BY <1>1, <1>2
<1>4. SumOf(a) \in Int
  BY <1>3, SumType
<1> QED BY <1>3, <1>4 DEF Worth, a, n

\* The items of two sequences joined.
LEMMA JoinedItems ==
  ASSUME NEW X, NEW s \in Seq(X), NEW t \in Seq(X)
  PROVE  /\ s \o t \in Seq(X) /\ Len(s) \in Nat /\ Len(t) \in Nat /\ Len(s \o t) = Len(s) + Len(t)
         /\ \A i \in 1..Len(s) : (s \o t)[i] = s[i]
         /\ \A j \in 1..Len(t) : (s \o t)[Len(s) + j] = t[j]
<1>1. s \o t \in Seq(X) /\ Len(s) \in Nat /\ Len(t) \in Nat /\ Len(s \o t) = Len(s) + Len(t)
  OBVIOUS
<1>2. ASSUME NEW i \in 1..Len(s) PROVE (s \o t)[i] = s[i]
  BY <1>1
<1>3. ASSUME NEW j \in 1..Len(t) PROVE (s \o t)[Len(s) + j] = t[j]
  BY <1>1
<1> QED BY <1>1, <1>2, <1>3

LEMMA JoinWorth ==
  ASSUME NEW X, NEW v \in [X -> Int], NEW s \in Seq(X), NEW t \in Seq(X)
  PROVE  Worth(v, s \o t) = Worth(v, s) + Worth(v, t)
<1> DEFINE m == Len(s)
           n == Len(t)
           r == s \o t
           a == [i \in 1..m |-> v[s[i]]]
           b == [i \in 1..n |-> v[t[i]]]
           c == [i \in 1..Len(r) |-> v[r[i]]]
<1>1. /\ m \in Nat /\ n \in Nat /\ r \in Seq(X) /\ Len(r) = m + n
      /\ \A i \in 1..(m + n) : r[i] = IF i <= m THEN s[i] ELSE t[i - m]
  OBVIOUS
<1>2. a \in Seq(Int) /\ Len(a) = m /\ b \in Seq(Int) /\ Len(b) = n
  BY WorthType
<1> HIDE DEF r, m, n
<1>3. c \in Seq(Int) /\ Len(c) = m + n
  BY <1>1, WorthType
<1>4. \A i \in 1..(m + n) : c[i] = IF i <= m THEN a[i] ELSE b[i - m]
  <2> TAKE i \in 1..(m + n)
  <2>1. c[i] = v[r[i]]
    BY <1>1
  <2>2. CASE i <= m
    BY <1>1, <2>1, <2>2
  <2>3. CASE ~(i <= m)
    <3>1. i - m \in 1..n /\ r[i] = t[i - m]
      BY <1>1, <2>3
    <3> QED BY <2>1, <2>3, <3>1
  <2> QED BY <2>2, <2>3
<1> HIDE DEF a, b, c
<1>5. c = a \o b
  <2>1. a \o b \in Seq(Int) /\ Len(a \o b) = m + n
    BY <1>2, JoinedItems
  <2>2. \A i \in 1..(m + n) : (a \o b)[i] = IF i <= m THEN a[i] ELSE b[i - m]
    <3>1. /\ \A i \in 1..m : (a \o b)[i] = a[i]
          /\ \A j \in 1..n : (a \o b)[m + j] = b[j]
      BY <1>2, JoinedItems
    <3> TAKE i \in 1..(m + n)
    <3>2. CASE i <= m
      <4>1. i \in 1..m
        BY <1>1, <3>2
      <4>2. (a \o b)[i] = a[i]
        BY <3>1, <4>1
      <4> QED BY <3>2, <4>2
    <3>3. CASE ~(i <= m)
      <4>1. i - m \in 1..n /\ m + (i - m) = i
        BY <1>1, <3>3
      <4>2. (a \o b)[m + (i - m)] = b[i - m]
        BY <3>1, <4>1
      <4> QED BY <3>3, <4>1, <4>2
    <3> QED BY <3>2, <3>3
  <2>3. \A i \in 1..Len(c) : c[i] = (a \o b)[i]
    BY <1>3, <1>4, <2>2
  <2> QED BY <1>3, <2>1, <2>3, SeqEqual
<1>6. SumOf(a \o b) = SumOf(a) + SumOf(b)
  BY <1>2, SumOfJoin
<1> QED BY <1>5, <1>6 DEF Worth, a, b, c, m, n, r

LEMMA NoneShort ==
  ASSUME NEW X, NEW v \in [X -> Int]
  PROVE  Short(v, << >>, 0)
<1> DEFINE u == << >>
           a == [i \in 1..Len(u) |-> v[u[i]]]
<1>1. u \in Seq(X) /\ Len(u) = 0
  OBVIOUS
<1>2. a \in Seq(Int) /\ Len(a) = 0
  <2> HIDE DEF u
  <2> QED BY <1>1, WorthType
<1> HIDE DEF a
<1>3. a = << >>
  BY <1>2
<1>4. SumOf(a) = 0
  BY <1>3, SumOfNone
<1>5. Worth(v, u) = 0
  BY <1>4 DEF Worth, a
<1> HIDE DEF u
<1>6. Short(v, u, 0)
  BY <1>1, <1>5 DEF Short
<1> QED BY <1>6 DEF u

\* A join is short of the sum of what its parts are short of.
LEMMA ConcatShort ==
  ASSUME NEW X, NEW v \in [X -> Int], NEW n \in Nat, NEW ss \in [1..n -> Seq(X)],
         NEW t \in [1..n -> Int], \A i \in 1..n : Short(v, ss[i], t[i])
  PROVE  Concat(ss) \in Seq(X) /\ Short(v, Concat(ss), SumOf(t))
<1>1. PICK p : Joins(p, X, n, ss) /\ Concat(ss) = p[n]
  BY ConcatFold
<1> DEFINE Q == PartialSums(t)
           S == {i \in 0..n : Short(v, p[i], Q[i])}
<1>2. t \in Seq(Int) /\ Len(t) = n
  OBVIOUS
<1>3. Q[0] = 0 /\ Q \in [0..n -> Int] /\ (\A i \in 1..n : Q[i] = Q[i - 1] + t[i]) /\ SumOf(t) = Q[n]
  BY <1>2, PartialSumsStep, SumIsPartial
<1> HIDE DEF Q
<1>4. 0 \in S
  <2>1. p[0] = << >>
    BY <1>1 DEF Joins
  <2>2. Short(v, << >>, 0)
    BY NoneShort
  <2>3. 0 \in 0..n
    OBVIOUS
  <2> QED BY <1>3, <2>1, <2>2, <2>3
<1>5. ASSUME NEW i \in 1..n, i - 1 \in S PROVE i \in S
  <2> DEFINE u == p[i - 1]
             w == ss[i]
             x == Worth(v, u)
             y == Worth(v, w)
             k == Q[i - 1]
             l == t[i]
  <2>1. u \in Seq(X) /\ w \in Seq(X) /\ p[i] = u \o w /\ i \in 0..n
    <3>1. i - 1 \in 0..n /\ i \in 0..n
      OBVIOUS
    <3>2. p[i - 1] \in Seq(X) /\ p[i] = p[i - 1] \o ss[i]
      BY <1>1, <3>1 DEF Joins
    <3>3. ss[i] \in Seq(X)
      OBVIOUS
    <3> QED BY <3>1, <3>2, <3>3
  <2>2. Short(v, u, k) /\ Short(v, w, l) /\ k \in Int /\ l \in Int /\ Q[i] = k + l
    BY <1>3, <1>5
  <2> HIDE DEF u, w, k, l
  <2>3. Len(u \o w) = Len(u) + Len(w) /\ Len(u) \in Nat /\ Len(w) \in Nat
    BY <2>1
  <2>4. Worth(v, u \o w) = x + y /\ x \in Int /\ y \in Int
    BY <2>1, JoinWorth, WorthType
  <2>5. x \in k - Len(u)..k /\ y \in l - Len(w)..l
    BY <2>2 DEF Short
  <2> HIDE DEF x, y
  <2>6. x + y \in (k + l) - (Len(u) + Len(w))..(k + l)
    BY <2>2, <2>3, <2>4, <2>5
  <2>7. Short(v, u \o w, k + l)
    BY <2>3, <2>4, <2>6 DEF Short
  <2>8. Short(v, p[i], Q[i])
    BY <2>1, <2>2, <2>7
  <2> QED BY <2>1, <2>8
<1>6. n \in S
  <2>1. \A i \in 0..n : i \in S
    <3> HIDE DEF S
    <3> QED BY <1>4, <1>5, UpTo
  <2> QED BY <2>1
<1> QED BY <1>1, <1>3, <1>6 DEF Joins

LEMMA Cancelled ==
  ASSUME NEW c \in Nat \ {0}, NEW x \in Int, NEW y \in Int, c * x <= c * y
  PROVE  x <= y
<1> SUFFICES ASSUME ~(x <= y) PROVE FALSE
  OBVIOUS
<1> DEFINE d == x - y
<1>1. d \in Nat \ {0} /\ x = y + d
  OBVIOUS
<1> HIDE DEF d
<1>2. c * x = c * y + c * d
  BY <1>1
<1>3. c * d > 0 /\ c * d \in Int /\ c * y \in Int
  BY <1>1
<1> QED BY <1>2, <1>3

\* A whole divided by weights, rounded down, is short of at most one for each.
SharedOut(n, whole, w, x) ==
  /\ n \in Nat /\ whole \in Nat /\ w \in [1..n -> Nat] /\ SumOf(w) # 0
  /\ x = [i \in 1..n |-> (whole * w[i]) \div SumOf(w)]

LEMMA SharesAddUp ==
  ASSUME NEW n, NEW whole, NEW w, NEW x, SharedOut(n, whole, w, x)
  PROVE  x \in [1..n -> Nat] /\ SumOf(x) \in whole - n..whole
<1> DEFINE all == SumOf(w)
<1>1. n \in Nat /\ whole \in Nat /\ w \in [1..n -> Nat] /\ all # 0
  BY DEF SharedOut
<1>2. w \in Seq(Nat) /\ w \in Seq(Int) /\ Len(w) = n
  BY <1>1
<1>3. all \in Nat \ {0}
  BY <1>1, <1>2, SumNatural
<1>4. x = [i \in 1..n |-> (whole * w[i]) \div all]
  BY DEF SharedOut
<1> HIDE DEF all
<1> DEFINE p == [i \in 1..n |-> all * x[i]]
           q == [i \in 1..n |-> whole * w[i]]
           r == [i \in 1..n |-> all]
           z == [i \in 1..n |-> (all * x[i]) + all]
<1>5. \A i \in 1..n : /\ w[i] \in Nat /\ whole * w[i] \in Nat /\ x[i] \in Nat /\ all * x[i] \in Nat
                       /\ all * x[i] <= whole * w[i] /\ whole * w[i] <= (all * x[i]) + all
  <2> TAKE i \in 1..n
  <2> DEFINE m == whole * w[i]
             d == m \div all
  <2>1. m \in Nat /\ w[i] \in Nat
    BY <1>1
  <2>2. x[i] = d
    BY <1>4
  <2> HIDE DEF m
  <2>3. d \in Nat /\ all * d <= m /\ m <= (all * d) + all
    BY <1>3, <2>1
  <2> HIDE DEF d
  <2>4. all * d \in Nat
    BY <1>3, <2>3
  <2> QED BY <2>1, <2>2, <2>3, <2>4 DEF m
<1>6. x \in [1..n -> Nat] /\ x \in Seq(Int) /\ Len(x) = n
  <2>1. x = [i \in 1..n |-> x[i]]
    BY <1>4
  <2>2. x \in [1..n -> Nat]
    BY <1>5, <2>1
  <2> QED BY <1>1, <2>2
<1>7. p \in Seq(Int) /\ Len(p) = n /\ q \in Seq(Int) /\ Len(q) = n
  <2>1. p \in [1..n -> Int] /\ q \in [1..n -> Int]
    BY <1>5
  <2> HIDE DEF p, q
  <2> QED BY <1>1, <2>1
<1>8. r \in Seq(Int) /\ Len(r) = n /\ z \in Seq(Int) /\ Len(z) = n
  <2>1. r \in [1..n -> Int] /\ z \in [1..n -> Int]
    BY <1>3, <1>5
  <2> HIDE DEF r, z
  <2> QED BY <1>1, <2>1
<1>9. /\ \A i \in 1..n : 1 * p[i] = all * x[i]
      /\ \A i \in 1..n : 1 * q[i] = whole * w[i]
      /\ \A i \in 1..n : z[i] = p[i] + r[i]
      /\ \A i \in 1..n : p[i] <= q[i]
      /\ \A i \in 1..n : q[i] <= z[i]
  BY <1>5
<1>10. SumOf(r) = n * all
  <2>1. all \in Int
    BY <1>3
  <2> QED BY <1>1, <2>1, FlatSum
<1> HIDE DEF p, q, r, z
<1> DEFINE X == SumOf(x)
           one == 1
<1>11. one * SumOf(p) = all * X
  <2>1. \A i \in 1..Len(p) : one * p[i] = all * x[i]
    BY <1>7, <1>9
  <2>2. one \in Int /\ all \in Int
    BY <1>3
  <2>3. x \in Seq(Int) /\ p \in Seq(Int) /\ Len(x) = Len(p)
    BY <1>6, <1>7
  <2> HIDE DEF one
  <2> QED BY <2>1, <2>2, <2>3, SumScales
<1>12. one * SumOf(q) = whole * all
  <2>1. \A i \in 1..Len(q) : one * q[i] = whole * w[i]
    BY <1>7, <1>9
  <2>2. one \in Int /\ whole \in Int
    BY <1>1
  <2>3. w \in Seq(Int) /\ q \in Seq(Int) /\ Len(w) = Len(q)
    BY <1>2, <1>7
  <2> HIDE DEF one
  <2>4. one * SumOf(q) = whole * SumOf(w)
    BY <2>1, <2>2, <2>3, SumScales
  <2> QED BY <2>4 DEF all
<1>13. SumOf(z) = SumOf(p) + SumOf(r)
  <2>1. \A i \in 1..Len(z) : z[i] = p[i] + r[i]
    BY <1>8, <1>9
  <2>2. p \in Seq(Int) /\ r \in Seq(Int) /\ z \in Seq(Int) /\ Len(p) = Len(z) /\ Len(r) = Len(z)
    BY <1>7, <1>8
  <2> QED BY <2>1, <2>2, SumAdds
<1>14. SumOf(p) <= SumOf(q)
  BY <1>7, <1>9, SumMonotone
<1>15. SumOf(q) <= SumOf(z)
  BY <1>7, <1>8, <1>9, SumMonotone
<1>16. X \in Int /\ SumOf(p) \in Int /\ SumOf(q) \in Int
  BY <1>6, <1>7, SumType
<1> HIDE DEF X
<1>17. SumOf(p) = all * X /\ SumOf(q) = all * whole
  <2>1. one * SumOf(p) = SumOf(p) /\ one * SumOf(q) = SumOf(q)
    BY <1>16
  <2>2. whole * all = all * whole
    BY <1>1, <1>3
  <2> QED BY <1>11, <1>12, <2>1, <2>2
<1>18. X <= whole
  <2>1. all * X <= all * whole
    BY <1>14, <1>17
  <2> QED BY <1>1, <1>3, <1>16, <2>1, Cancelled
<1>19. whole <= X + n
  <2>1. all * whole <= (all * X) + (n * all)
    BY <1>10, <1>13, <1>15, <1>17
  <2>2. (all * X) + (n * all) = all * (X + n)
    BY <1>1, <1>3, <1>16
  <2>3. X + n \in Int
    BY <1>1, <1>16
  <2>4. all * whole <= all * (X + n)
    BY <2>1, <2>2
  <2> DEFINE Y == X + n
  <2> HIDE DEF Y
  <2>5. all * whole <= all * Y /\ Y \in Int
    BY <2>3, <2>4 DEF Y
  <2>6. whole <= Y
    BY <1>1, <1>3, <2>5, Cancelled
  <2> QED BY <2>6 DEF Y
<1>20. X \in whole - n..whole
  BY <1>1, <1>16, <1>18, <1>19
<1> QED BY <1>6, <1>20 DEF X
=============================================================================
