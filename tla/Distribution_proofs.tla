------------------------- MODULE Distribution_proofs -------------------------
(***************************************************************************)
(* Proofs about the reports of Distribution: for every list of whole       *)
(* numbers, of any length, what the loops compute is what the names in the *)
(* report promise.                                                         *)
(*                                                                         *)
(* The loops are recursive functions.  What they compute is shown by       *)
(* induction on the number of turns, with the induction principle stated   *)
(* for a set of turns (Induction), as the negation of which has a least    *)
(* element.                                                                *)
(***************************************************************************)
EXTENDS Distribution, WellFoundedInduction, FiniteSetTheorems, TLAPS

------------------------------------------------------------------------------
(* Induction, and the loops it is used for.                                *)

\* A set of natural numbers that is not empty has a least element.
LEMMA LeastElement ==
    ASSUME NEW S \in SUBSET Nat, S # {}
    PROVE  \E n \in S : \A m \in S : n <= m
  <1> DEFINE R == OpToRel(<, Nat)
  <1>1. IsWellFoundedOn(R, Nat)
    BY NatLessThanWellFounded, Zenon
  <1>2. \A m, n \in Nat : m < n => <<m, n>> \in R
    BY Zenon DEF OpToRel
  <1> HIDE DEF R
  <1>3. PICK n \in S : \A m \in S : ~ (<<m, n>> \in R)
    BY <1>1, WFMin, Zenon
  <1>4. \A m \in S : ~ (m < n)
    BY <1>2, <1>3
  <1> QED
    BY <1>4

\* What holds before the first turn of a loop, and after each turn if it held
\* before it, holds after every turn.
LEMMA Induction ==
    ASSUME NEW N \in Nat, NEW S,
           0 \in S,
           \A n \in 1 .. N : n - 1 \in S => n \in S
    PROVE  0 .. N \subseteq S
  <1> DEFINE T == (0 .. N) \ S
  <1> SUFFICES ASSUME T # {} PROVE FALSE
    OBVIOUS
  <1>1. T \in SUBSET Nat
    OBVIOUS
  <1>2. PICK n \in T : \A m \in T : n <= m
    BY <1>1, LeastElement
  <1>3. n \in 1 .. N
    BY <1>2
  <1>4. n - 1 \notin T
    BY <1>1, <1>2, <1>3
  <1> QED
    BY <1>2, <1>3, <1>4

\* f says what a loop has computed after n turns, for n up to N: it starts from
\* base, and turn n makes turn[n][v] of the value v.
IsLoop(f, N, T, base, turn) ==
    /\ f \in [0 .. N -> T]
    /\ f[0] = base
    /\ \A n \in 1 .. N : f[n] = turn[n][f[n - 1]]

\* There is such a function for every loop.
LEMMA LoopDefined ==
    ASSUME NEW N \in Nat, NEW T, NEW base \in T,
           NEW turn \in [1 .. N -> [T -> T]]
    PROVE  \E f : IsLoop(f, N, T, base, turn)
  <1> DEFINE F == [0 .. N -> T]
             Upto(k, f) == f[0] = base /\ \A n \in 1 .. k : f[n] = turn[n][f[n - 1]]
             S == {k \in 0 .. N : \E f \in F : Upto(k, f)}
  <1>1. 0 \in S
    <2> DEFINE f0 == [n \in 0 .. N |-> base]
    <2>1. f0 \in F /\ f0[0] = base
      OBVIOUS
    <2> HIDE DEF f0, F
    <2>2. Upto(0, f0)
      BY <2>1
    <2> QED
      BY <2>1, <2>2
  <1>2. ASSUME NEW k \in 1 .. N, k - 1 \in S
        PROVE  k \in S
    <2>1. PICK f \in F : Upto(k - 1, f)
      BY <1>2
    <2> DEFINE v == turn[k][f[k - 1]]
               g == [f EXCEPT ![k] = v]
    <2>2. k \in 0 .. N /\ k - 1 \in 0 .. N /\ k # 0 /\ 0 \in 0 .. N
      OBVIOUS
    <2>3. v \in T
      BY <2>1, <2>2
    <2>4. g \in F /\ g[k] = v /\ \A n \in 0 .. N : n # k => g[n] = f[n]
      <3> HIDE DEF v
      <3> QED
        BY <2>1, <2>2, <2>3
    <2> HIDE DEF F, g
    <2>5. g[0] = base
      BY <2>1, <2>2, <2>4
    <2>6. \A n \in 1 .. k : g[n] = turn[n][g[n - 1]]
      <3> SUFFICES ASSUME NEW n \in 1 .. k PROVE g[n] = turn[n][g[n - 1]]
        OBVIOUS
      <3>1. n \in 0 .. N /\ n - 1 \in 0 .. N /\ n - 1 # k
        OBVIOUS
      <3>2. g[n - 1] = f[n - 1]
        BY <2>4, <3>1
      <3>3. CASE n = k
        BY <2>4, <3>2, <3>3
      <3>4. CASE n # k
        <4>1. n \in 1 .. k - 1
          BY <3>4
        <4>2. f[n] = turn[n][f[n - 1]]
          BY <2>1, <4>1
        <4> QED
          BY <2>4, <3>1, <3>2, <3>4, <4>2
      <3> QED
        BY <3>3, <3>4
    <2> QED
      BY <2>2, <2>4, <2>5, <2>6
  <1>3. N \in S
    <2> HIDE DEF S
    <2>1. 0 .. N \subseteq S
      BY <1>1, <1>2, Induction
    <2> QED
      BY <2>1
  <1>4. PICK f \in F : Upto(N, f)
    BY <1>3
  <1>5. IsLoop(f, N, T, base, turn)
    BY <1>4 DEF IsLoop
  <1> QED
    BY <1>5, Zenon

\* std::accumulate: after n elements the sum of the first n.
LEMMA SumLoop ==
    ASSUME NEW s \in Seq(Int)
    PROVE  /\ Len(s) \in Nat
           /\ RunningSum(s) \in [0 .. Len(s) -> Int]
           /\ RunningSum(s)[0] = 0
           /\ \A n \in 1 .. Len(s) : RunningSum(s)[n] = RunningSum(s)[n - 1] + s[n]
  <1> DEFINE N == Len(s)
             turn == [n \in 1 .. N |-> [v \in Int |-> v + s[n]]]
             IsSum(f) == f = [n \in 0 .. N |-> IF n = 0 THEN 0 ELSE f[n - 1] + s[n]]
  <1>1. N \in Nat /\ \A i \in 1 .. N : s[i] \in Int
    OBVIOUS
  <1> HIDE DEF N
  <1>2. turn \in [1 .. N -> [Int -> Int]]
    BY <1>1
  <1>3. PICK f : IsLoop(f, N, Int, 0, turn)
    <2> HIDE DEF turn
    <2>1. 0 \in Int
      OBVIOUS
    <2> QED
      BY <1>1, <1>2, <2>1, LoopDefined, Zenon
  <1>4. IsSum(f)
    <2>1. f \in [0 .. N -> Int] /\ f[0] = 0 /\ \A n \in 1 .. N : f[n] = turn[n][f[n - 1]]
      BY <1>3, Zenon DEF IsLoop
    <2>2. ASSUME NEW n \in 1 .. N PROVE f[n] = f[n - 1] + s[n]
      <3>1. f[n - 1] \in Int
        BY <1>1, <2>1
      <3> QED
        BY <2>1, <3>1
    <2> HIDE DEF turn
    <2>3. \A n \in 0 .. N : f[n] = IF n = 0 THEN 0 ELSE f[n - 1] + s[n]
      BY <1>1, <2>1, <2>2
    <2> QED
      BY <2>1, <2>3, Zenon
  <1>5. IsSum(RunningSum(s))
    <2>1. RunningSum(s) = CHOOSE h : IsSum(h)
      BY Zenon DEF RunningSum, N
    <2> HIDE DEF IsSum
    <2> QED
      BY <1>4, <2>1, Zenon
  <1> DEFINE g == RunningSum(s)
  <1>6. \A n \in 0 .. N : g[n] = IF n = 0 THEN 0 ELSE g[n - 1] + s[n]
    BY <1>5, Zenon
  <1>7. DOMAIN g = 0 .. N
    BY <1>5, Zenon
  <1> HIDE DEF g
  <1>8. g[0] = 0 /\ \A n \in 1 .. N : g[n] = g[n - 1] + s[n]
    BY <1>1, <1>6
  <1>9. \A n \in 0 .. N : g[n] \in Int
    <2> DEFINE S == {n \in 0 .. N : g[n] \in Int}
    <2>1. 0 \in S
      BY <1>1, <1>8
    <2>2. ASSUME NEW n \in 1 .. N, n - 1 \in S PROVE n \in S
      <3>1. g[n] = g[n - 1] + s[n] /\ g[n - 1] \in Int /\ s[n] \in Int
        BY <1>1, <1>8, <2>2
      <3>2. n \in 0 .. N
        BY <1>1
      <3> QED
        BY <3>1, <3>2
    <2> HIDE DEF S
    <2>3. 0 .. N \subseteq S
      BY <1>1, <2>1, <2>2, Induction
    <2> QED
      BY <2>3 DEF S
  <1>10. g \in [0 .. N -> Int]
    <2>1. g = [n \in 0 .. N |-> g[n]]
      BY <1>5, <1>7, Zenon DEF g
    <2> QED
      BY <1>9, <2>1, Zenon
  <1> QED
    BY <1>1, <1>8, <1>10, Zenon DEF N, g
------------------------------------------------------------------------------
(* Sums.                                                                   *)

\* A sum of n values between lo and hi lies between n lo and n hi.
LEMMA SumBetween ==
    ASSUME NEW s \in Seq(Int), NEW lo \in Int, NEW hi \in Int,
           \A i \in 1 .. Len(s) : lo <= s[i] /\ s[i] <= hi
    PROVE  \A n \in 0 .. Len(s) : /\ RunningSum(s)[n] \in Int
                                  /\ lo * n <= RunningSum(s)[n]
                                  /\ RunningSum(s)[n] <= hi * n
  <1> DEFINE N == Len(s)
             g == RunningSum(s)
             S == {n \in 0 .. N : lo * n <= g[n] /\ g[n] <= hi * n}
  <1>1. /\ N \in Nat
        /\ g \in [0 .. N -> Int]
        /\ g[0] = 0
        /\ \A n \in 1 .. N : g[n] = g[n - 1] + s[n]
    BY SumLoop, Zenon
  <1>2. \A n \in 1 .. N : s[n] \in Int /\ lo <= s[n] /\ s[n] <= hi
    OBVIOUS
  <1> HIDE DEF N, g
  <1>3. 0 \in S
    BY <1>1
  <1>4. ASSUME NEW n \in 1 .. N, n - 1 \in S PROVE n \in S
    <2>1. /\ g[n] = g[n - 1] + s[n] /\ g[n - 1] \in Int /\ s[n] \in Int
          /\ n \in 0 .. N /\ n - 1 \in 0 .. N
      BY <1>1, <1>2
    <2>2. lo * (n - 1) <= g[n - 1] /\ g[n - 1] <= hi * (n - 1)
      BY <1>4
    <2>3. lo * n = lo * (n - 1) + lo /\ hi * n = hi * (n - 1) + hi
      BY <1>1
    <2>4. lo * (n - 1) \in Int /\ hi * (n - 1) \in Int
      BY <2>1
    <2> QED
      BY <1>2, <2>1, <2>2, <2>3, <2>4
  <1> HIDE DEF S
  <1>5. 0 .. N \subseteq S
    BY <1>1, <1>3, <1>4, Induction
  <1> QED
    BY <1>1, <1>5 DEF S, N, g

\* A sum of values that are not negative is zero only if each of them is.
LEMMA ZeroSum ==
    ASSUME NEW s \in Seq(Int), \A i \in 1 .. Len(s) : s[i] >= 0, Total(s) = 0
    PROVE  \A i \in 1 .. Len(s) : s[i] = 0
  <1> DEFINE N == Len(s)
             g == RunningSum(s)
             S == {n \in 0 .. N : g[n] >= 0 /\ (g[n] = 0 => \A i \in 1 .. n : s[i] = 0)}
  <1>1. /\ N \in Nat
        /\ g \in [0 .. N -> Int]
        /\ g[0] = 0
        /\ \A n \in 1 .. N : g[n] = g[n - 1] + s[n]
    BY SumLoop, Zenon
  <1>2. \A n \in 1 .. N : s[n] \in Int /\ s[n] >= 0
    OBVIOUS
  <1>3. g[N] = 0
    BY DEF Total
  <1> HIDE DEF N, g
  <1>4. 0 \in S
    BY <1>1
  <1>5. ASSUME NEW n \in 1 .. N, n - 1 \in S PROVE n \in S
    <2>1. /\ g[n] = g[n - 1] + s[n] /\ g[n - 1] \in Int /\ s[n] \in Int /\ s[n] >= 0
          /\ n \in 0 .. N
      BY <1>1, <1>2
    <2>2. g[n - 1] >= 0 /\ (g[n - 1] = 0 => \A i \in 1 .. n - 1 : s[i] = 0)
      BY <1>5
    <2>3. g[n] >= 0 /\ (g[n] = 0 => g[n - 1] = 0 /\ s[n] = 0)
      BY <2>1, <2>2
    <2>4. \A i \in 1 .. n : i \in 1 .. n - 1 \/ i = n
      OBVIOUS
    <2> QED
      BY <2>1, <2>2, <2>3, <2>4
  <1> HIDE DEF S
  <1>6. 0 .. N \subseteq S
    BY <1>1, <1>4, <1>5, Induction
  <1>7. N \in S
    BY <1>1, <1>6
  <1> QED
    BY <1>3, <1>7 DEF S, N

Squares(s) == [i \in 1 .. Len(s) |-> Square(s[i])]

\* Differences from a fixed value, squared and summed: from the sum of the squares and
\* the sum.
LEMMA SumOfDiffs ==
    ASSUME NEW s \in Seq(Int), NEW t \in Seq(Int), NEW a \in Int, NEW b \in Int,
           Len(t) <= Len(s),
           \A i \in 1 .. Len(t) : t[i] = (a * s[i] - b) * (a * s[i] - b)
    PROVE  \A k \in 0 .. Len(t) :
             RunningSum(t)[k] = a * a * RunningSum(Squares(s))[k]
                                  - 2 * a * b * RunningSum(s)[k] + k * b * b
  <1> DEFINE N == Len(t)
             q == Squares(s)
             S(k) == RunningSum(s)[k]
             Q(k) == RunningSum(q)[k]
             D(k) == RunningSum(t)[k]
             K == {k \in 0 .. N : D(k) = a * a * Q(k) - 2 * a * b * S(k) + k * b * b}
  <1>1. /\ q \in Seq(Int) /\ Len(q) = Len(s)
        /\ \A i \in 1 .. Len(s) : q[i] = s[i] * s[i] /\ s[i] \in Int
    BY DEF Squares, Square
  <1>2. N \in Nat /\ 1 .. N \subseteq 1 .. Len(s) /\ 0 .. N \subseteq 0 .. Len(s)
    OBVIOUS
  <1>3. /\ D(0) = 0 /\ S(0) = 0 /\ Q(0) = 0
        /\ \A k \in 0 .. N : D(k) \in Int /\ S(k) \in Int /\ Q(k) \in Int
    <2> HIDE DEF q
    <2> QED
      BY <1>1, <1>2, SumLoop
  <1>4. \A k \in 1 .. N : /\ D(k) = D(k - 1) + t[k]
                          /\ S(k) = S(k - 1) + s[k]
                          /\ Q(k) = Q(k - 1) + q[k]
    <2> HIDE DEF q
    <2> QED
      BY <1>1, <1>2, SumLoop
  <1> HIDE DEF N, q, S, Q, D
  <1>5. 0 \in K
    BY <1>2, <1>3
  <1>6. ASSUME NEW k \in 1 .. N, k - 1 \in K PROVE k \in K
    <2> DEFINE x == s[k]
    <2>1. x \in Int /\ q[k] = x * x /\ t[k] = (a * x - b) * (a * x - b)
      BY <1>1, <1>2 DEF N
    <2> HIDE DEF x
    <2>2. k \in 0 .. N /\ k - 1 \in 0 .. N /\ k \in Int
      BY <1>2
    <2>3. S(k - 1) \in Int /\ Q(k - 1) \in Int
      BY <1>3, <2>2
    <2>4. D(k) = a * a * Q(k - 1) - 2 * a * b * S(k - 1) + (k - 1) * b * b + (a * x - b) * (a * x - b)
      <3>1. D(k) = D(k - 1) + t[k]
        BY <1>4
      <3>2. D(k - 1) = a * a * Q(k - 1) - 2 * a * b * S(k - 1) + (k - 1) * b * b
        BY <1>6
      <3> QED
        BY <2>1, <3>1, <3>2, Zenon
    <2>5. @ = a * a * (Q(k - 1) + x * x) - 2 * a * b * (S(k - 1) + x) + k * b * b
      <3> DEFINE q1 == Q(k - 1)
                 m1 == S(k - 1)
      <3>1. q1 \in Int /\ m1 \in Int /\ x \in Int /\ k \in Int
        BY <2>1, <2>2, <2>3
      <3> HIDE DEF q1, m1
      <3>2. a * a * q1 - 2 * a * b * m1 + (k - 1) * b * b + (a * x - b) * (a * x - b)
              = a * a * (q1 + x * x) - 2 * a * b * (m1 + x) + k * b * b
        BY <3>1
      <3> QED
        BY <3>2, Zenon DEF q1, m1
    <2>6. Q(k - 1) + x * x = Q(k) /\ S(k - 1) + x = S(k)
      BY <1>4, <2>1, Zenon DEF x
    <2>7. D(k) = a * a * Q(k) - 2 * a * b * S(k) + k * b * b
      BY <2>4, <2>5, <2>6, Zenon
    <2> QED
      BY <2>2, <2>7
  <1>7. 0 .. N \subseteq K
    <2> HIDE DEF K
    <2> QED
      BY <1>2, <1>5, <1>6, Induction
  <1> QED
    BY <1>7 DEF N, q, S, Q, D

\* PairDiffs in two steps: the squared differences to the values before s[j], and their
\* sums.
PairsBelow(s, j) == [i \in 1 .. j - 1 |-> Square(s[j] - s[i])]
Pairs(s) == [j \in 1 .. Len(s) |-> Total(PairsBelow(s, j))]

LEMMA PairDiffsIsTotal == ASSUME NEW s PROVE PairDiffs(s) = Total(Pairs(s))
  BY Zenon DEF PairDiffs, Pairs, PairsBelow

\* The sum of the squares and the sum, one value at a time.
LEMMA Moments ==
    ASSUME NEW s \in Seq(Int)
    PROVE  /\ RunningSum(s)[0] = 0 /\ RunningSum(Squares(s))[0] = 0
           /\ \A k \in 0 .. Len(s) :
                RunningSum(s)[k] \in Int /\ RunningSum(Squares(s))[k] \in Int
           /\ \A k \in 1 .. Len(s) :
                /\ s[k] \in Int
                /\ RunningSum(s)[k] = RunningSum(s)[k - 1] + s[k]
                /\ RunningSum(Squares(s))[k] = RunningSum(Squares(s))[k - 1] + s[k] * s[k]
  <1> DEFINE q == Squares(s)
  <1>1. /\ q \in Seq(Int) /\ Len(q) = Len(s)
        /\ \A i \in 1 .. Len(s) : q[i] = s[i] * s[i] /\ s[i] \in Int
    BY DEF Squares, Square
  <1> HIDE DEF q
  <1>2. /\ RunningSum(q)[0] = 0
        /\ \A k \in 0 .. Len(s) : RunningSum(q)[k] \in Int
        /\ \A k \in 1 .. Len(s) : RunningSum(q)[k] = RunningSum(q)[k - 1] + q[k]
    BY <1>1, SumLoop
  <1>3. /\ RunningSum(s)[0] = 0
        /\ \A k \in 0 .. Len(s) : RunningSum(s)[k] \in Int
        /\ \A k \in 1 .. Len(s) : RunningSum(s)[k] = RunningSum(s)[k - 1] + s[k]
    BY SumLoop
  <1> QED
    BY <1>1, <1>2, <1>3 DEF q

\* The squared differences of s[j] to the values before it.
LEMMA BelowSum ==
    ASSUME NEW s \in Seq(Int), NEW j \in 1 .. Len(s)
    PROVE  /\ PairsBelow(s, j) \in Seq(Int)
           /\ Len(PairsBelow(s, j)) = j - 1
           /\ Total(PairsBelow(s, j))
                = RunningSum(Squares(s))[j - 1] - 2 * s[j] * RunningSum(s)[j - 1]
                    + (j - 1) * s[j] * s[j]
  <1> DEFINE p == PairsBelow(s, j)
             x == s[j]
  <1>1. x \in Int /\ j - 1 \in 0 .. Len(s) /\ j - 1 <= Len(s)
    OBVIOUS
  <1>2. /\ p \in Seq(Int) /\ Len(p) = j - 1
        /\ \A i \in 1 .. j - 1 : s[i] \in Int /\ p[i] = (x - s[i]) * (x - s[i])
    BY DEF PairsBelow, Square
  <1> HIDE DEF p, x
  <1>3. \A i \in 1 .. Len(p) : p[i] = (1 * s[i] - x) * (1 * s[i] - x)
    BY <1>1, <1>2
  <1>4. \A k \in 0 .. Len(p) :
          RunningSum(p)[k] = 1 * 1 * RunningSum(Squares(s))[k]
                               - 2 * 1 * x * RunningSum(s)[k] + k * x * x
    <2>1. 1 \in Int /\ Len(p) <= Len(s)
      BY <1>1, <1>2
    <2> QED
      BY <1>1, <1>2, <1>3, <2>1, SumOfDiffs, Zenon
  <1>5. /\ RunningSum(Squares(s))[j - 1] \in Int
        /\ RunningSum(s)[j - 1] \in Int
    BY <1>1, Moments
  <1>6. Total(p) = 1 * 1 * RunningSum(Squares(s))[j - 1]
                     - 2 * 1 * x * RunningSum(s)[j - 1] + (j - 1) * x * x
    BY <1>1, <1>2, <1>4 DEF Total
  <1>7. Total(p) = RunningSum(Squares(s))[j - 1] - 2 * x * RunningSum(s)[j - 1] + (j - 1) * x * x
    BY <1>1, <1>5, <1>6
  <1> QED
    BY <1>2, <1>7 DEF p, x

\* One more value to be paired with all before it.
LEMMA OneMorePair ==
    ASSUME NEW q \in Int, NEW m \in Int, NEW x \in Int, NEW k \in Int
    PROVE  (k - 1) * q - m * m + (q - 2 * x * m + (k - 1) * x * x)
             = k * (q + x * x) - (m + x) * (m + x)
  OBVIOUS

\* All pairs of the first k values: k times the sum of the squares less the square of
\* the sum.
LEMMA PairsSum ==
    ASSUME NEW s \in Seq(Int)
    PROVE  /\ Pairs(s) \in Seq(Int)
           /\ Len(Pairs(s)) = Len(s)
           /\ \A k \in 0 .. Len(s) :
                RunningSum(Pairs(s))[k] = k * RunningSum(Squares(s))[k]
                                            - RunningSum(s)[k] * RunningSum(s)[k]
  <1> DEFINE N == Len(s)
             p == Pairs(s)
             S(k) == RunningSum(s)[k]
             Q(k) == RunningSum(Squares(s))[k]
             P(k) == RunningSum(p)[k]
             K == {k \in 0 .. N : P(k) = k * Q(k) - S(k) * S(k)}
  <1>1. N \in Nat /\ \A k \in 1 .. N : k \in 0 .. N /\ k - 1 \in 0 .. N
    OBVIOUS
  <1>2. /\ S(0) = 0 /\ Q(0) = 0
        /\ \A k \in 0 .. N : S(k) \in Int /\ Q(k) \in Int
        /\ \A k \in 1 .. N : /\ s[k] \in Int
                             /\ S(k) = S(k - 1) + s[k]
                             /\ Q(k) = Q(k - 1) + s[k] * s[k]
    BY Moments, Zenon
  <1>3. \A j \in 1 .. N :
          Total(PairsBelow(s, j)) = Q(j - 1) - 2 * s[j] * S(j - 1) + (j - 1) * s[j] * s[j]
    BY BelowSum
  <1> HIDE DEF N, S, Q
  <1>4. \A j \in 1 .. N : Total(PairsBelow(s, j)) \in Int
    <2> SUFFICES ASSUME NEW j \in 1 .. N PROVE Total(PairsBelow(s, j)) \in Int
      OBVIOUS
    <2> DEFINE x == s[j]
               m == S(j - 1)
               q == Q(j - 1)
    <2>1. x \in Int /\ m \in Int /\ q \in Int /\ j \in Int
      BY <1>1, <1>2
    <2>2. Total(PairsBelow(s, j)) = q - 2 * x * m + (j - 1) * x * x
      BY <1>3
    <2> HIDE DEF x, m, q
    <2> QED
      BY <2>1, <2>2
  <1>5. /\ p \in Seq(Int) /\ Len(p) = N
        /\ \A j \in 1 .. N : p[j] = Q(j - 1) - 2 * s[j] * S(j - 1) + (j - 1) * s[j] * s[j]
    BY <1>1, <1>3, <1>4 DEF Pairs, N
  <1> HIDE DEF p
  <1>6. /\ P(0) = 0
        /\ \A k \in 0 .. N : P(k) \in Int
        /\ \A k \in 1 .. N : P(k) = P(k - 1) + p[k]
    BY <1>5, SumLoop
  <1> HIDE DEF P
  <1>7. 0 \in K
    BY <1>1, <1>2, <1>6
  <1>8. ASSUME NEW k \in 1 .. N, k - 1 \in K PROVE k \in K
    <2> DEFINE x == s[k]
               m == S(k - 1)
               q == Q(k - 1)
    <2>1. x \in Int /\ m \in Int /\ q \in Int /\ k \in Int /\ k \in 0 .. N
      BY <1>1, <1>2
    <2>2. P(k - 1) = (k - 1) * q - m * m
      BY <1>8
    <2>3. p[k] = q - 2 * x * m + (k - 1) * x * x
      BY <1>5
    <2>4. S(k) = m + x /\ Q(k) = q + x * x
      BY <1>2
    <2> HIDE DEF x, m, q
    <2>5. P(k) = (k - 1) * q - m * m + (q - 2 * x * m + (k - 1) * x * x)
      BY <1>6, <2>2, <2>3, Zenon
    <2>6. P(k) = k * (q + x * x) - (m + x) * (m + x)
      BY <2>1, <2>5, OneMorePair
    <2>7. P(k) = k * Q(k) - S(k) * S(k)
      BY <2>4, <2>6, Zenon
    <2> QED
      BY <2>1, <2>7
  <1>9. 0 .. N \subseteq K
    <2> HIDE DEF K
    <2> QED
      BY <1>1, <1>7, <1>8, Induction
  <1> QED
    BY <1>5, <1>9 DEF N, S, Q, P, p

\* The two passes of stdDev() come to the same as comparing all pairs: with the values
\* scaled by their number, the squared differences from the mean are that many times the
\* squared differences of the pairs.
LEMMA DiffsArePairs ==
    ASSUME NEW s \in Seq(Int)
    PROVE  /\ SquaredDiffs(s) \in Int
           /\ PairDiffs(s) \in Int
           /\ SquaredDiffs(s) = Len(s) * PairDiffs(s)
  <1> DEFINE n == Len(s)
             m == Total(s)
             q == Total(Squares(s))
             d == [i \in 1 .. Len(s) |-> Square(Len(s) * s[i] - m)]
  <1>1. n \in Nat /\ n \in 0 .. n /\ Len(Squares(s)) = n
    BY DEF Squares
  <1>2. m \in Int /\ q \in Int
    BY <1>1, Moments DEF Total
  <1>3. PairDiffs(s) = n * q - m * m
    BY <1>1, PairsSum, PairDiffsIsTotal DEF Total
  <1>4. SquaredDiffs(s) = n * n * q - 2 * n * m * m + n * m * m
    <2>1. SquaredDiffs(s) = Total(d)
      BY Zenon DEF SquaredDiffs
    <2> HIDE DEF m
    <2>2. /\ d \in Seq(Int) /\ Len(d) = n
          /\ \A i \in 1 .. Len(d) : d[i] = (n * s[i] - m) * (n * s[i] - m)
      BY <1>2 DEF Square
    <2> HIDE DEF d, n
    <2>3. \A k \in 0 .. Len(d) :
            RunningSum(d)[k] = n * n * RunningSum(Squares(s))[k]
                                 - 2 * n * m * RunningSum(s)[k] + k * m * m
      <3>1. n \in Int /\ m \in Int /\ Len(d) <= Len(s)
        BY <1>1, <1>2, <2>2 DEF n
      <3> QED
        BY <2>2, <3>1, SumOfDiffs, Zenon
    <2>4. Total(d) = n * n * q - 2 * n * m * m + n * m * m
      BY <1>1, <2>2, <2>3 DEF Total, n, m
    <2> QED
      BY <2>1, <2>4
  <1> HIDE DEF n, m, q
  <1>5. n * n * q - 2 * n * m * m + n * m * m = n * (n * q - m * m)
    BY <1>1, <1>2
  <1>6. SquaredDiffs(s) = n * PairDiffs(s)
    BY <1>3, <1>4, <1>5, Zenon
  <1>7. SquaredDiffs(s) \in Int /\ PairDiffs(s) \in Int
    BY <1>1, <1>2, <1>3, <1>4
  <1> QED
    BY <1>6, <1>7 DEF n
------------------------------------------------------------------------------
(* Minimum, maximum and mode.                                              *)

\* min() is one of the values, and none is smaller.
LEMMA MinIsLeast ==
    ASSUME values \in Seq(Int), values # <<>>
    PROVE  /\ MinValue \in Int
           /\ \A i \in 1 .. Len(values) : MinValue <= values[i]
           /\ \E i \in 1 .. Len(values) : values[i] = MinValue
  <1> DEFINE N == Len(values)
             g == RunningMin
             turn == [n \in 1 .. N |-> [v \in Int |-> Smaller(v, values[n])]]
             Turns(f) == f = [n \in 0 .. N |-> IF n = 0 THEN values[1]
                                               ELSE Smaller(f[n - 1], values[n])]
             S == {n \in 0 .. N : /\ g[n] \in Int
                                  /\ \A i \in 1 .. n : g[n] <= values[i]
                                  /\ \E i \in 1 .. N : values[i] = g[n]}
  <1>1. N \in Nat /\ N >= 1 /\ \A i \in 1 .. N : values[i] \in Int
    OBVIOUS
  <1> HIDE DEF N
  <1>2. turn \in [1 .. N -> [Int -> Int]] /\ values[1] \in Int
    BY <1>1 DEF Smaller
  <1>3. PICK f : IsLoop(f, N, Int, values[1], turn)
    <2> HIDE DEF turn
    <2> QED
      BY <1>1, <1>2, LoopDefined
  <1>4. Turns(f)
    <2>1. /\ f \in [0 .. N -> Int] /\ f[0] = values[1]
          /\ \A n \in 1 .. N : f[n] = turn[n][f[n - 1]]
      BY <1>3, Zenon DEF IsLoop
    <2>2. ASSUME NEW n \in 1 .. N PROVE f[n] = Smaller(f[n - 1], values[n])
      <3>1. f[n - 1] \in Int
        BY <1>1, <2>1
      <3> QED
        BY <2>1, <3>1
    <2> HIDE DEF turn
    <2>3. \A n \in 0 .. N : f[n] = IF n = 0 THEN values[1] ELSE Smaller(f[n - 1], values[n])
      BY <1>1, <2>1, <2>2
    <2> QED
      BY <2>1, <2>3, Zenon
  <1>5. Turns(g)
    <2>1. g = CHOOSE h : Turns(h)
      BY Zenon DEF RunningMin, N
    <2> HIDE DEF Turns, g
    <2> QED
      BY <1>4, <2>1, Zenon
  <1>6. \A n \in 0 .. N : g[n] = IF n = 0 THEN values[1] ELSE Smaller(g[n - 1], values[n])
    BY <1>5, Zenon
  <1> HIDE DEF g
  <1>7. 0 \in S
    <2>1. g[0] = values[1]
      BY <1>1, <1>6
    <2> QED
      BY <1>1, <2>1
  <1>8. ASSUME NEW n \in 1 .. N, n - 1 \in S PROVE n \in S
    <2>1. /\ n \in 0 .. N /\ values[n] \in Int
          /\ g[n] = Smaller(g[n - 1], values[n])
      BY <1>1, <1>6
    <2>2. /\ g[n - 1] \in Int
          /\ \A i \in 1 .. n - 1 : g[n - 1] <= values[i]
          /\ \E i \in 1 .. N : values[i] = g[n - 1]
      BY <1>8
    <2>3. /\ g[n] = g[n - 1] \/ g[n] = values[n]
          /\ g[n] <= g[n - 1] /\ g[n] <= values[n]
      BY <2>1, <2>2 DEF Smaller
    <2>4. g[n] \in Int /\ \E i \in 1 .. N : values[i] = g[n]
      BY <2>1, <2>2, <2>3
    <2>5. ASSUME NEW i \in 1 .. n PROVE g[n] <= values[i]
      <3>1. i \in 1 .. n - 1 \/ i = n
        OBVIOUS
      <3>2. values[i] \in Int
        BY <1>1
      <3> QED
        BY <2>2, <2>3, <2>4, <3>1, <3>2
    <2> QED
      BY <2>1, <2>4, <2>5
  <1>9. 0 .. N \subseteq S
    <2> HIDE DEF S
    <2> QED
      BY <1>1, <1>7, <1>8, Induction
  <1>10. N \in S
    BY <1>1, <1>9
  <1> QED
    BY <1>10 DEF N, g, MinValue

\* max() is one of the values, and none is larger.
LEMMA MaxIsLargest ==
    ASSUME values \in Seq(Int), values # <<>>
    PROVE  /\ MaxValue \in Int
           /\ \A i \in 1 .. Len(values) : values[i] <= MaxValue
           /\ \E i \in 1 .. Len(values) : values[i] = MaxValue
  <1> DEFINE N == Len(values)
             g == RunningMax
             turn == [n \in 1 .. N |-> [v \in Int |-> Larger(v, values[n])]]
             Turns(f) == f = [n \in 0 .. N |-> IF n = 0 THEN values[1]
                                               ELSE Larger(f[n - 1], values[n])]
             S == {n \in 0 .. N : /\ g[n] \in Int
                                  /\ \A i \in 1 .. n : values[i] <= g[n]
                                  /\ \E i \in 1 .. N : values[i] = g[n]}
  <1>1. N \in Nat /\ N >= 1 /\ \A i \in 1 .. N : values[i] \in Int
    OBVIOUS
  <1> HIDE DEF N
  <1>2. turn \in [1 .. N -> [Int -> Int]] /\ values[1] \in Int
    BY <1>1 DEF Larger
  <1>3. PICK f : IsLoop(f, N, Int, values[1], turn)
    <2> HIDE DEF turn
    <2> QED
      BY <1>1, <1>2, LoopDefined
  <1>4. Turns(f)
    <2>1. /\ f \in [0 .. N -> Int] /\ f[0] = values[1]
          /\ \A n \in 1 .. N : f[n] = turn[n][f[n - 1]]
      BY <1>3, Zenon DEF IsLoop
    <2>2. ASSUME NEW n \in 1 .. N PROVE f[n] = Larger(f[n - 1], values[n])
      <3>1. f[n - 1] \in Int
        BY <1>1, <2>1
      <3> QED
        BY <2>1, <3>1
    <2> HIDE DEF turn
    <2>3. \A n \in 0 .. N : f[n] = IF n = 0 THEN values[1] ELSE Larger(f[n - 1], values[n])
      BY <1>1, <2>1, <2>2
    <2> QED
      BY <2>1, <2>3, Zenon
  <1>5. Turns(g)
    <2>1. g = CHOOSE h : Turns(h)
      BY Zenon DEF RunningMax, N
    <2> HIDE DEF Turns, g
    <2> QED
      BY <1>4, <2>1, Zenon
  <1>6. \A n \in 0 .. N : g[n] = IF n = 0 THEN values[1] ELSE Larger(g[n - 1], values[n])
    BY <1>5, Zenon
  <1> HIDE DEF g
  <1>7. 0 \in S
    <2>1. g[0] = values[1]
      BY <1>1, <1>6
    <2> QED
      BY <1>1, <2>1
  <1>8. ASSUME NEW n \in 1 .. N, n - 1 \in S PROVE n \in S
    <2>1. /\ n \in 0 .. N /\ values[n] \in Int
          /\ g[n] = Larger(g[n - 1], values[n])
      BY <1>1, <1>6
    <2>2. /\ g[n - 1] \in Int
          /\ \A i \in 1 .. n - 1 : values[i] <= g[n - 1]
          /\ \E i \in 1 .. N : values[i] = g[n - 1]
      BY <1>8
    <2>3. /\ g[n] = g[n - 1] \/ g[n] = values[n]
          /\ g[n - 1] <= g[n] /\ values[n] <= g[n]
      BY <2>1, <2>2 DEF Larger
    <2>4. g[n] \in Int /\ \E i \in 1 .. N : values[i] = g[n]
      BY <2>1, <2>2, <2>3
    <2>5. ASSUME NEW i \in 1 .. n PROVE values[i] <= g[n]
      <3>1. i \in 1 .. n - 1 \/ i = n
        OBVIOUS
      <3>2. values[i] \in Int
        BY <1>1
      <3> QED
        BY <2>2, <2>3, <2>4, <3>1, <3>2
    <2> QED
      BY <2>1, <2>4, <2>5
  <1>9. 0 .. N \subseteq S
    <2> HIDE DEF S
    <2> QED
      BY <1>1, <1>7, <1>8, Induction
  <1>10. N \in S
    BY <1>1, <1>9
  <1> QED
    BY <1>10 DEF N, g, MaxValue

\* Any order of the frequency map is a list of values added that holds each of them.
LEMMA OrderIsComplete ==
    ASSUME values \in Seq(Int), NEW order \in SetToSeqs(ToSet(values))
    PROVE  /\ Len(order) \in Nat
           /\ \A k \in 1 .. Len(order) : order[k] \in ToSet(values)
           /\ \A x \in ToSet(values) : \E k \in 1 .. Len(order) : order[k] = x
  <1> DEFINE V == ToSet(values)
             c == Cardinality(V)
  <1>1. IsFiniteSet(V)
    <2>1. DOMAIN values = 1 .. Len(values) /\ Len(values) \in Nat
      OBVIOUS
    <2>2. IsFiniteSet(DOMAIN values)
      BY <2>1, FS_Interval
    <2>3. values \in Surjection(DOMAIN values, V)
      BY <2>1 DEF Surjection, ToSet
    <2> HIDE DEF V
    <2> QED
      BY <2>2, <2>3, FS_Surjection
  <1>2. c \in Nat
    BY <1>1, FS_CardinalityType
  <1>3. order \in [1 .. c -> V] /\ \A i, j \in 1 .. c : i # j => order[i] # order[j]
    BY Zenon DEF SetToSeqs
  <1> HIDE DEF V, c
  <1>4. order \in Seq(V) /\ Len(order) = c
    BY <1>2, <1>3
  <1>5. order \in Injection(1 .. c, V)
    BY <1>3 DEF Injection, IsInjective
  <1>6. IsFiniteSet(1 .. c) /\ Cardinality(1 .. c) = c
    BY <1>2, FS_Interval
  <1>7. order \in Surjection(1 .. c, V)
    BY <1>1, <1>5, <1>6, FS_Injection DEF c
  <1>8. \A x \in V : \E k \in 1 .. c : order[k] = x
    BY <1>7 DEF Surjection
  <1> QED
    BY <1>2, <1>3, <1>4, <1>8 DEF V

\* How often a value was added is a natural number.
LEMMA CountType ==
    ASSUME values \in Seq(Int), NEW x
    PROVE  Count(x) \in Nat
  <1>1. IsFiniteSet(1 .. Len(values))
    BY FS_Interval
  <1>2. {i \in DOMAIN values : values[i] = x} \in SUBSET (1 .. Len(values))
    OBVIOUS
  <1>3. IsFiniteSet({i \in DOMAIN values : values[i] = x})
    BY <1>1, <1>2, FS_Subset
  <1> QED
    BY <1>3, FS_CardinalityType DEF Count

\* mode() is one of the values, and none was added more often.
LEMMA ModeIsBest ==
    ASSUME values \in Seq(Int), values # <<>>, NEW order \in SetToSeqs(ToSet(values))
    PROVE  /\ Mode(order) \in ToSet(values)
           /\ \A x \in ToSet(values) : Count(x) <= Count(Mode(order))
  <1> DEFINE V == ToSet(values)
             N == Len(order)
             T == [maxCount : Nat, modeValue : V]
             base == [maxCount |-> 0, modeValue |-> values[1]]
             turn == [n \in 1 .. N |-> [v \in T |-> Better(v, order[n])]]
             g == RunningMode(order)
             Turns(f) == f = [n \in 0 .. N |-> IF n = 0 THEN base
                                               ELSE Better(f[n - 1], order[n])]
             S == {n \in 0 .. N : /\ g[n] \in T
                                  /\ g[n].maxCount <= Count(g[n].modeValue)
                                  /\ \A k \in 1 .. n : Count(order[k]) <= g[n].maxCount}
  <1>1. /\ N \in Nat
        /\ \A k \in 1 .. N : order[k] \in V
        /\ \A x \in V : \E k \in 1 .. N : order[k] = x
    BY OrderIsComplete, Zenon
  <1>2. values[1] \in V
    BY DEF ToSet
  <1>3. \A x : Count(x) \in Nat
    BY CountType
  <1> HIDE DEF V, N
  <1>4. base \in T
    BY <1>2
  <1>5. \A v \in T, x \in V : Better(v, x) \in T
    BY <1>3 DEF Better
  <1>6. turn \in [1 .. N -> [T -> T]]
    <2> HIDE DEF T
    <2> QED
      BY <1>1, <1>5
  <1>7. PICK f : IsLoop(f, N, T, base, turn)
    <2> HIDE DEF turn, T, base
    <2> QED
      BY <1>1, <1>4, <1>6, LoopDefined
  <1>8. Turns(f)
    <2> HIDE DEF T, base
    <2>1. /\ f \in [0 .. N -> T] /\ f[0] = base
          /\ \A n \in 1 .. N : f[n] = turn[n][f[n - 1]]
      BY <1>7, Zenon DEF IsLoop
    <2>2. ASSUME NEW n \in 1 .. N PROVE f[n] = Better(f[n - 1], order[n])
      <3>1. f[n - 1] \in T
        BY <1>1, <2>1
      <3> QED
        BY <2>1, <3>1
    <2> HIDE DEF turn
    <2>3. \A n \in 0 .. N : f[n] = IF n = 0 THEN base ELSE Better(f[n - 1], order[n])
      BY <1>1, <2>1, <2>2
    <2> QED
      BY <2>1, <2>3, Zenon
  <1>9. Turns(g)
    <2>1. g = CHOOSE h : Turns(h)
      BY Zenon DEF RunningMode, N
    <2> HIDE DEF Turns, g
    <2> QED
      BY <1>8, <2>1, Zenon
  <1>10. \A n \in 0 .. N : g[n] = IF n = 0 THEN base ELSE Better(g[n - 1], order[n])
    BY <1>9, Zenon
  <1> HIDE DEF g
  <1>11. 0 \in S
    <2>1. g[0] = base
      BY <1>1, <1>10
    <2> QED
      BY <1>1, <1>3, <1>4, <2>1
  <1>12. ASSUME NEW n \in 1 .. N, n - 1 \in S PROVE n \in S
    <2> DEFINE b == g[n - 1]
               x == order[n]
    <2>1. n \in 0 .. N /\ x \in V /\ g[n] = Better(b, x)
      BY <1>1, <1>10
    <2>2. /\ b \in T
          /\ b.maxCount <= Count(b.modeValue)
          /\ \A k \in 1 .. n - 1 : Count(order[k]) <= b.maxCount
      BY <1>12
    <2> HIDE DEF b
    <2>3. g[n] \in T
      BY <1>5, <2>1, <2>2
    <2>4. /\ g[n].maxCount <= Count(g[n].modeValue)
          /\ b.maxCount <= g[n].maxCount
          /\ Count(x) <= g[n].maxCount
      <3> HIDE DEF x
      <3>1. b.maxCount \in Nat /\ Count(x) \in Nat
        BY <1>3, <2>2
      <3>2. CASE Count(x) > b.maxCount
        BY <2>1, <3>1, <3>2 DEF Better
      <3>3. CASE ~ (Count(x) > b.maxCount)
        BY <2>1, <2>2, <3>1, <3>3 DEF Better
      <3> QED
        BY <3>2, <3>3
    <2>5. ASSUME NEW k \in 1 .. n PROVE Count(order[k]) <= g[n].maxCount
      <3>1. b.maxCount \in Nat /\ g[n].maxCount \in Nat /\ Count(order[k]) \in Nat
        BY <1>3, <2>2, <2>3
      <3>2. k \in 1 .. n - 1 \/ k = n
        OBVIOUS
      <3> QED
        BY <2>2, <2>4, <3>1, <3>2
    <2> QED
      BY <2>1, <2>3, <2>4, <2>5
  <1>13. 0 .. N \subseteq S
    <2> HIDE DEF S
    <2> QED
      BY <1>1, <1>11, <1>12, Induction
  <1>14. N \in S
    BY <1>1, <1>13
  <1>15. /\ g[N] \in T
         /\ g[N].maxCount <= Count(g[N].modeValue)
         /\ \A k \in 1 .. N : Count(order[k]) <= g[N].maxCount
    BY <1>14
  <1>16. Mode(order) = g[N].modeValue
    BY Zenon DEF Mode, g, N
  <1>17. ASSUME NEW x \in V PROVE Count(x) <= Count(Mode(order))
    <2>1. PICK k \in 1 .. N : order[k] = x
      BY <1>1
    <2>2. g[N].maxCount \in Nat /\ Count(x) \in Nat /\ Count(Mode(order)) \in Nat
      BY <1>3, <1>15
    <2> QED
      BY <1>15, <1>16, <2>1, <2>2
  <1>18. Mode(order) \in V
    BY <1>15, <1>16
  <1> QED
    BY <1>17, <1>18 DEF V

------------------------------------------------------------------------------
(* The reports.                                                            *)

\* Only whole numbers are added.
ListOfTicks == values \in Seq(Int)

\* addValue appends one of the Ticks: all that is ever reported on is a list of them.
THEOREM ListInvariance == Spec => []ListOfTicks
  <1>1. Init => ListOfTicks
    BY DEF Init, ListOfTicks
  <1>2. ListOfTicks /\ [Next]_values => ListOfTicks'
    BY TicksAssumption DEF ListOfTicks, Next, AddValue
  <1> QED
    BY <1>1, <1>2, PTL DEF Spec

\* The deviation of a list, with the divisor of the code, is its sample deviation.
LEMMA DeviationOf ==
    ASSUME NEW s \in Seq(Int)
    PROVE  SampleVariance([num |-> SquaredDiffs(s),
                           den |-> Square(Len(s)) * (Len(s) - 1)], s)
  <1> DEFINE n == Len(s)
             p == PairDiffs(s)
  <1>1. n \in Nat /\ p \in Int /\ SquaredDiffs(s) = n * p
    BY DiffsArePairs
  <1> HIDE DEF n, p
  <1>2. (n * p) * (n * (n - 1)) = ((n * n) * (n - 1)) * p
    BY <1>1
  <1>3. SquaredDiffs(s) * (n * (n - 1)) = (Square(n) * (n - 1)) * p
    BY <1>1, <1>2, Zenon DEF Square
  <1> QED
    BY <1>3 DEF SampleVariance, n, p

\* stdDev() divides what it has added up by size() - 1: the sample deviation of any
\* list.
THEOREM StdDevIsRight == Spec => []StdDevIsSampleDeviation
  <1>1. ASSUME ListOfTicks PROVE StdDevIsSampleDeviation
    <2>1. values \in Seq(Int) /\ Len(values) \in Nat
      BY <1>1 DEF ListOfTicks
    <2>2. CASE Len(values) < 2
      BY <2>2 DEF StdDevIsSampleDeviation, StdDev
    <2>3. CASE ~ (Len(values) < 2)
      <3>1. StdDev = [num |-> SquaredDiffs(values),
                      den |-> Square(Len(values)) * (Len(values) - 1)]
        BY <2>3, Zenon DEF StdDev
      <3>2. SampleVariance(StdDev, values)
        BY <2>1, <3>1, DeviationOf, Zenon
      <3>3. StdDev.den > 0
        <4> DEFINE n == Len(values)
        <4>1. n \in Nat /\ n >= 2
          BY <2>1, <2>3
        <4> HIDE DEF n
        <4>2. (n * n) * (n - 1) > 0
          <5>1. n * n > 0 /\ n * n \in Int /\ n - 1 > 0 /\ n - 1 \in Int
            BY <4>1
          <5> DEFINE a == n * n
                     b == n - 1
          <5> HIDE DEF a, b
          <5>2. a \in Int /\ b \in Int /\ a > 0 /\ b > 0 => a * b > 0
            OBVIOUS
          <5> QED
            BY <5>1, <5>2 DEF a, b
        <4> QED
          BY <3>1, <4>2 DEF Square, n
      <3> QED
        BY <2>1, <2>3, <3>2, <3>3 DEF StdDevIsSampleDeviation
    <2> QED
      BY <2>2, <2>3
  <1> QED
    BY <1>1, ListInvariance, PTL

\* localJitter() is the same computation on the distances between neighbours.
THEOREM JitterIsRight == Spec => []JitterIsDeviationOfDeltas
  <1>1. ASSUME ListOfTicks, Len(values) >= 3 PROVE SampleVariance(LocalJitter, Diffs)
    <2>1. values \in Seq(Int) /\ Len(values) \in Nat
      BY <1>1 DEF ListOfTicks
    <2>2. Diffs \in Seq(Int)
      <3>1. \A i \in 1 .. Len(values) - 1 : Distance(values[i + 1], values[i]) \in Int
        BY <2>1 DEF Distance
      <3> QED
        BY <2>1, <3>1 DEF Diffs
    <2>3. ~ (Len(values) < 2)
      BY <1>1, <2>1
    <2>4. LocalJitter = [num |-> SquaredDiffs(Diffs),
                         den |-> Square(Len(Diffs)) * (Len(Diffs) - 1)]
      BY <2>3, Zenon DEF LocalJitter
    <2> QED
      BY <2>2, <2>4, DeviationOf, Zenon
  <1>2. ListOfTicks => JitterIsDeviationOfDeltas
    BY <1>1 DEF JitterIsDeviationOfDeltas
  <1> QED
    BY <1>2, ListInvariance, PTL

\* Whatever the order of the hash table, no value was added more often than the mode.
THEOREM ModeIsRight == Spec => []ModeIsMostFrequent
  <1>1. ASSUME ListOfTicks, values # <<>>,
               NEW order \in SetToSeqs(ToSet(values)), NEW i \in DOMAIN values
        PROVE  Count(values[i]) <= Count(Mode(order))
    <2>1. values[i] \in ToSet(values)
      BY DEF ToSet
    <2> QED
      BY <1>1, <2>1, ModeIsBest, Zenon DEF ListOfTicks
  <1>2. ListOfTicks => ModeIsMostFrequent
    BY <1>1 DEF ModeIsMostFrequent
  <1> QED
    BY <1>2, ListInvariance, PTL

\* The square of a difference of two values between lo and hi is at most that of hi - lo.
LEMMA SquareOfDifference ==
    ASSUME NEW a \in Int, NEW b \in Int, NEW lo \in Int, NEW hi \in Int,
           lo <= a, a <= hi, lo <= b, b <= hi
    PROVE  /\ Square(a - b) \in Int
           /\ 0 <= Square(a - b)
           /\ Square(a - b) <= Square(hi - lo)
  <1> DEFINE d == a - b
             r == hi - lo
  <1>1. d \in Int /\ r \in Int /\ r >= 0 /\ d <= r /\ -d <= r
    OBVIOUS
  <1> HIDE DEF d, r
  <1>2. d * d \in Int /\ 0 <= d * d
    BY <1>1
  <1>3. d * d <= r * r
    <2>1. 0 <= (r - d) * (r + d)
      <3> DEFINE u == r - d
                 v == r + d
      <3>1. u \in Int /\ v \in Int /\ 0 <= u /\ 0 <= v
        BY <1>1
      <3> HIDE DEF u, v
      <3>2. 0 <= u * v
        BY <3>1
      <3> QED
        BY <3>2 DEF u, v
    <2>2. (r - d) * (r + d) = r * r - d * d
      BY <1>1
    <2>3. r * r \in Int
      BY <1>1
    <2> QED
      BY <1>2, <2>1, <2>2, <2>3
  <1> QED
    BY <1>2, <1>3 DEF Square, d, r

\* The squared differences from the mean of values between lo and hi are not negative,
\* and none of them can be larger than the distance of the two allows.
LEMMA DeviationBound ==
    ASSUME NEW s \in Seq(Int), NEW lo \in Int, NEW hi \in Int, Len(s) >= 1,
           \A i \in 1 .. Len(s) : lo <= s[i] /\ s[i] <= hi
    PROVE  /\ 0 <= SquaredDiffs(s)
           /\ SquaredDiffs(s) <= Square(hi - lo) * (Square(Len(s)) * (Len(s) - 1))
  <1> DEFINE n == Len(s)
             r == Square(hi - lo)
             w == r * (n - 1)
             p == Pairs(s)
  <1>1. n \in Nat /\ n >= 1 /\ \A i \in 1 .. n : s[i] \in Int
    OBVIOUS
  <1>2. r \in Int /\ 0 <= r
    <2> DEFINE e == hi - lo
    <2>1. e \in Int
      OBVIOUS
    <2> HIDE DEF e
    <2>2. e * e \in Int /\ 0 <= e * e
      BY <2>1
    <2> QED
      BY <2>2 DEF e, Square
  <1>3. \A j \in 1 .. n : \A i \in 1 .. j - 1 :
          0 <= Square(s[j] - s[i]) /\ Square(s[j] - s[i]) <= r
    <2> SUFFICES ASSUME NEW j \in 1 .. n, NEW i \in 1 .. j - 1
                 PROVE  0 <= Square(s[j] - s[i]) /\ Square(s[j] - s[i]) <= r
      OBVIOUS
    <2>1. i \in 1 .. n
      BY <1>1
    <2> QED
      BY <1>1, <2>1, SquareOfDifference
  <1> HIDE DEF n, r
  <1>4. r * (n - 1) \in Int
    BY <1>1, <1>2
  <1>5. ASSUME NEW j \in 1 .. n
        PROVE  0 <= Total(PairsBelow(s, j)) /\ Total(PairsBelow(s, j)) <= w
    <2> DEFINE b == PairsBelow(s, j)
    <2>1. b \in Seq(Int) /\ Len(b) = j - 1
      BY BelowSum DEF n
    <2>2. \A i \in 1 .. Len(b) : 0 <= b[i] /\ b[i] <= r
      BY <1>3, <2>1 DEF PairsBelow
    <2> HIDE DEF b
    <2>3. /\ Total(b) \in Int
          /\ 0 * (j - 1) <= Total(b)
          /\ Total(b) <= r * (j - 1)
      <3>1. j - 1 \in 0 .. Len(b) /\ 0 \in Int
        BY <1>1, <2>1
      <3>2. \A k \in 0 .. Len(b) : /\ RunningSum(b)[k] \in Int
                                   /\ 0 * k <= RunningSum(b)[k]
                                   /\ RunningSum(b)[k] <= r * k
        BY <1>2, <2>1, <2>2, <3>1, SumBetween, Zenon
      <3> QED
        BY <2>1, <3>1, <3>2 DEF Total
    <2>4. r * (j - 1) <= r * (n - 1)
      <3> DEFINE d == n - j
      <3>1. d \in Int /\ 0 <= d /\ n - 1 = (j - 1) + d /\ j - 1 \in Int
        BY <1>1
      <3> HIDE DEF d
      <3>2. 0 <= r * d /\ r * d \in Int /\ r * (j - 1) \in Int
        BY <1>2, <3>1
      <3>3. r * ((j - 1) + d) = r * (j - 1) + r * d
        BY <1>2, <3>1
      <3> QED
        BY <3>1, <3>2, <3>3
    <2>5. 0 <= Total(b)
      BY <1>1, <2>3
    <2>6. r * (j - 1) \in Int
      BY <1>1, <1>2
    <2> QED
      BY <1>4, <2>3, <2>4, <2>5, <2>6 DEF b
  <1>6. p \in Seq(Int) /\ Len(p) = n
    BY PairsSum DEF n
  <1>7. \A j \in 1 .. Len(p) : 0 <= p[j] /\ p[j] <= w
    BY <1>5, <1>6 DEF Pairs, n
  <1> HIDE DEF p, w
  <1>8. /\ Total(p) \in Int
        /\ 0 * n <= Total(p)
        /\ Total(p) <= w * n
    <2>1. w \in Int /\ 0 \in Int /\ n \in 0 .. n
      BY <1>1, <1>4 DEF w
    <2>2. \A k \in 0 .. Len(p) : /\ RunningSum(p)[k] \in Int
                                 /\ 0 * k <= RunningSum(p)[k]
                                 /\ RunningSum(p)[k] <= w * k
      BY <1>6, <1>7, <2>1, SumBetween, Zenon
    <2> QED
      BY <1>6, <2>1, <2>2 DEF Total
  <1>9. SquaredDiffs(s) = n * Total(p)
    BY DiffsArePairs, PairDiffsIsTotal DEF n, p
  <1>10. 0 <= Total(p) /\ w * n \in Int
    BY <1>1, <1>4, <1>8 DEF w
  <1>11. 0 <= n * Total(p) /\ n * Total(p) <= n * (w * n)
    <2> DEFINE x == Total(p)
               y == w * n
               z == y - x
    <2>1. x \in Int /\ y \in Int /\ 0 <= x /\ x <= y
      BY <1>8, <1>10
    <2>2. z \in Int /\ 0 <= z /\ y = x + z
      BY <2>1
    <2> HIDE DEF x, y, z
    <2>3. 0 <= n * x /\ 0 <= n * z /\ n * x \in Int /\ n * z \in Int
      BY <1>1, <2>1, <2>2
    <2>4. n * (x + z) = n * x + n * z
      BY <1>1, <2>1, <2>2
    <2>5. 0 <= n * x /\ n * x <= n * y
      BY <2>2, <2>3, <2>4
    <2> QED
      BY <2>5 DEF x, y
  <1>12. n * ((r * (n - 1)) * n) = r * ((n * n) * (n - 1))
    BY <1>1, <1>2
  <1> QED
    BY <1>9, <1>11, <1>12, Zenon DEF w, n, r, Square

\* No deviation, no two different values.
LEMMA NoDeviation ==
    ASSUME NEW s \in Seq(Int), SquaredDiffs(s) = 0,
           NEW i \in 1 .. Len(s), NEW j \in 1 .. Len(s)
    PROVE  s[i] = s[j]
  <1> DEFINE n == Len(s)
             m == Total(s)
             d == [k \in 1 .. Len(s) |-> Square(Len(s) * s[k] - m)]
  <1>1. n \in Nat /\ n \in 0 .. n /\ n >= 1 /\ s[i] \in Int /\ s[j] \in Int
    OBVIOUS
  <1>2. m \in Int
    BY <1>1, Moments DEF Total
  <1>3. Total(d) = 0
    BY Zenon DEF SquaredDiffs
  <1> HIDE DEF m
  <1>4. /\ d \in Seq(Int) /\ Len(d) = n
        /\ \A k \in 1 .. n : d[k] = (n * s[k] - m) * (n * s[k] - m) /\ s[k] \in Int
    BY <1>2 DEF Square
  <1> HIDE DEF d, n
  <1>5. \A k \in 1 .. Len(d) : d[k] >= 0
    <2> SUFFICES ASSUME NEW k \in 1 .. n PROVE d[k] >= 0
      BY <1>4
    <2> DEFINE e == n * s[k] - m
    <2>1. d[k] = e * e /\ s[k] \in Int
      BY <1>4, Zenon
    <2>2. e \in Int
      <3>1. s[k] \in Int
        BY <2>1
      <3> QED
        BY <1>1, <1>2, <3>1
    <2> HIDE DEF e
    <2> QED
      BY <2>1, <2>2
  <1>6. \A k \in 1 .. Len(d) : d[k] = 0
    BY <1>3, <1>4, <1>5, ZeroSum, Zenon
  <1>7. ASSUME NEW k \in 1 .. n PROVE n * s[k] = m
    <2> DEFINE e == n * s[k] - m
    <2>0. d[k] = e * e
      BY <1>4, Zenon
    <2>1. d[k] = 0
      BY <1>4, <1>6
    <2>2. e \in Int /\ n * s[k] \in Int
      <3>1. s[k] \in Int
        BY <1>4, Zenon
      <3> QED
        BY <1>1, <1>2, <3>1
    <2>3. e = 0
      <3> HIDE DEF e
      <3> QED
        BY <2>0, <2>1, <2>2
    <2> QED
      BY <1>2, <2>2, <2>3
  <1>8. n * s[i] = m /\ n * s[j] = m
    BY <1>7 DEF n
  <1> DEFINE x == s[i]
             y == s[j]
             z == x - y
  <1>9. n * x = n * y /\ x \in Int /\ y \in Int /\ z \in Int /\ x = y + z
    BY <1>1, <1>8
  <1> HIDE DEF x, y, z
  <1>10. n * (y + z) = n * y + n * z
    BY <1>1, <1>9
  <1>11. n * z = 0
    BY <1>1, <1>9, <1>10
  <1>12. z = 0
    BY <1>1, <1>9, <1>11
  <1> QED
    BY <1>9, <1>12 DEF x, y

\* Mean, minimum, maximum, mode and deviation in one report fit together.
THEOREM ReportFitsTogether == Spec => []ReportIsConsistent
  <1>1. ASSUME values \in Seq(Int), values # <<>>
        PROVE  /\ \A order \in SetToSeqs(ToSet(values)) :
                    MinValue <= Mode(order) /\ Mode(order) <= MaxValue
               /\ MinValue * Mean.den <= Mean.num /\ Mean.num <= MaxValue * Mean.den
               /\ StdDev.num <= Square(MaxValue - MinValue) * StdDev.den
               /\ StdDev.num = 0 <=> MinValue = MaxValue
    <2> DEFINE n == Len(values)
               lo == MinValue
               hi == MaxValue
    <2>1. n \in Nat /\ n >= 1 /\ \A i \in 1 .. n : values[i] \in Int
      BY <1>1
    <2>2. /\ lo \in Int /\ hi \in Int
          /\ \A i \in 1 .. n : lo <= values[i] /\ values[i] <= hi
          /\ \E i \in 1 .. n : values[i] = lo
          /\ \E i \in 1 .. n : values[i] = hi
      BY <1>1, MinIsLeast, MaxIsLargest
    <2> HIDE DEF lo, hi
    <2>3. ASSUME NEW order \in SetToSeqs(ToSet(values))
          PROVE  lo <= Mode(order) /\ Mode(order) <= hi
      <3>1. Mode(order) \in ToSet(values)
        BY <1>1, ModeIsBest, Zenon
      <3>2. PICK i \in 1 .. n : values[i] = Mode(order)
        BY <1>1, <3>1 DEF ToSet
      <3> QED
        BY <2>2, <3>2
    <2>4. lo * Mean.den <= Mean.num /\ Mean.num <= hi * Mean.den
      <3>1. n \in 0 .. n
        BY <2>1
      <3>2. lo * n <= Total(values) /\ Total(values) <= hi * n
        BY <1>1, <2>2, <3>1, SumBetween DEF Total
      <3> QED
        BY <3>2, Zenon DEF Mean
    <2>5. /\ StdDev.num <= Square(hi - lo) * StdDev.den
          /\ StdDev.num = 0 <=> lo = hi
      <3>1. CASE n < 2
        <4>1. n = 1
          <5> HIDE DEF n
          <5> QED
            BY <2>1, <3>1
        <4>2. lo = hi
          BY <2>2, <4>1
        <4>3. StdDev = [num |-> 0, den |-> 1]
          BY <3>1, Zenon DEF StdDev
        <4>4. Square(hi - lo) \in Int /\ 0 <= Square(hi - lo)
          BY <2>2, <4>2 DEF Square
        <4> QED
          BY <4>2, <4>3, <4>4
      <3>2. CASE ~ (n < 2)
        <4>1. StdDev = [num |-> SquaredDiffs(values), den |-> Square(n) * (n - 1)]
          BY <3>2, Zenon DEF StdDev
        <4>2. /\ 0 <= SquaredDiffs(values)
              /\ SquaredDiffs(values) <= Square(hi - lo) * (Square(n) * (n - 1))
          BY <1>1, <2>1, <2>2, DeviationBound
        <4>3. ASSUME SquaredDiffs(values) = 0 PROVE lo = hi
          <5>1. PICK i \in 1 .. n : values[i] = lo
            BY <2>2
          <5>2. PICK j \in 1 .. n : values[j] = hi
            BY <2>2
          <5>3. values[i] = values[j]
            BY <1>1, <4>3, NoDeviation
          <5> QED
            BY <5>1, <5>2, <5>3
        <4>4. ASSUME lo = hi PROVE SquaredDiffs(values) = 0
          <5>1. Square(hi - lo) = 0
            BY <2>2, <4>4 DEF Square
          <5>2. Square(n) * (n - 1) \in Int
            BY <2>1 DEF Square
          <5>3. Square(hi - lo) * (Square(n) * (n - 1)) = 0
            BY <5>1, <5>2
          <5>4. SquaredDiffs(values) \in Int
            BY <1>1, DiffsArePairs
          <5> QED
            BY <4>2, <5>3, <5>4
        <4> QED
          BY <4>1, <4>2, <4>3, <4>4
      <3> QED
        BY <3>1, <3>2
    <2> QED
      BY <2>3, <2>4, <2>5 DEF lo, hi
  <1>2. ListOfTicks => ReportIsConsistent
    BY <1>1, Zenon DEF ListOfTicks, ReportIsConsistent
  <1> QED
    BY <1>2, ListInvariance, PTL
==============================================================================
