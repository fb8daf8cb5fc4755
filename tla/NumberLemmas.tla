---------------------------- MODULE NumberLemmas ----------------------------
(***************************************************************************)
(* Lemmas about the natural numbers that several proofs rest on.           *)
(*                                                                         *)
(* Neither the library's induction theorem nor its recursion theorem can   *)
(* be cited (they take an operator as a parameter), so they are proved     *)
(* here in a form that takes sets and functions: from the well-foundedness *)
(* of < on Nat.                                                            *)
(***************************************************************************)
EXTENDS Integers, WellFoundedInduction, TLAPS

-----------------------------------------------------------------------------
(* Induction and recursion on the numbers. *)

(* A set of numbers has a smallest. *)
LEMMA SmallestExists ==
    ASSUME NEW S \in SUBSET Nat, S # {}
    PROVE  \E x \in S : \A y \in S : x <= y
<1>1. \E x \in S : \A y \in S : <<y, x>> \notin OpToRel(<, Nat)
  BY NatLessThanWellFounded, WFMin
<1>2. ASSUME NEW x \in S, NEW y \in S, <<y, x>> \notin OpToRel(<, Nat)
      PROVE  x <= y
  BY <1>2 DEF OpToRel
<1> QED BY <1>1, <1>2

(* A set of numbers that has a bound has a greatest. *)
LEMMA GreatestExists ==
    ASSUME NEW S \in SUBSET Nat, S # {}, NEW N \in Nat, \A x \in S : x <= N
    PROVE  \E x \in S : \A y \in S : y <= x
<1> DEFINE T == {N - x : x \in S}
<1>1. T \in SUBSET Nat /\ T # {}
  <2>1. \A x \in S : x \in Nat /\ N - x \in Nat
    OBVIOUS
  <2> QED BY <2>1
<1>2. PICK z \in T : \A y \in T : z <= y
  <2> HIDE DEF T
  <2> QED BY <1>1, SmallestExists
<1>3. PICK x \in S : z = N - x
  BY <1>2
<1>4. \A y \in S : N - x <= N - y
  BY <1>2, <1>3
<1> QED BY <1>4

(* Induction, over the numbers that have a property. *)
LEMMA Induction ==
    ASSUME NEW P, 0 \in P, \A n \in Nat : n \in P => n + 1 \in P
    PROVE  Nat \subseteq P
<1>1. ASSUME Nat \ P # {}
      PROVE  FALSE
  <2>1. PICK x \in Nat \ P : \A y \in Nat \ P : x <= y
    BY <1>1, SmallestExists
  <2>2. x - 1 \in Nat /\ x - 1 \in P
    BY <2>1
  <2>3. x - 1 + 1 = x
    BY <2>1
  <2> QED BY <2>1, <2>2, <2>3
<1> QED BY <1>1

(* g is f up to n, where f[0] = zero and f[k + 1] = step[k][f[k]]. *)
Approximates(g, n, zero, step) ==
    /\ g[0] = zero
    /\ \A k \in Nat : k < n => g[k + 1] = step[k][g[k]]

(* f is defined on all numbers by these equations. *)
Iterates(f, zero, step) ==
    /\ f[0] = zero
    /\ \A n \in Nat : f[n + 1] = step[n][f[n]]

(* There is such a function: the union of its approximations. *)
LEMMA Recursion ==
    ASSUME NEW S, NEW zero \in S, NEW step \in [Nat -> [S -> S]]
    PROVE  \E f \in [Nat -> S] : Iterates(f, zero, step)
<1> DEFINE Approx(g, n) == g \in [Nat -> S] /\ Approximates(g, n, zero, step)
           P == {n \in Nat : \E g : Approx(g, n)}
<1>1. 0 \in P
  <2>1. Approx([k \in Nat |-> zero], 0)
    BY DEF Approximates
  <2> QED BY <2>1
<1>2. ASSUME NEW n \in Nat, n \in P
      PROVE  n + 1 \in P
  <2>1. PICK g : Approx(g, n)
    BY <1>2
  <2> DEFINE h == [k \in Nat |-> IF k <= n THEN g[k] ELSE step[n][g[n]]]
  <2>2. g[n] \in S /\ step[n][g[n]] \in S /\ \A k \in Nat : g[k] \in S
    BY <2>1
  <2>3. h \in [Nat -> S]
    BY <2>2
  <2>4. h[0] = zero
    BY <2>1 DEF Approximates
  <2>5. ASSUME NEW k \in Nat, k < n + 1
        PROVE  h[k + 1] = step[k][h[k]]
    <3>1. CASE k < n
      BY <2>1, <3>1 DEF Approximates
    <3>2. CASE k = n
      BY <3>2
    <3> QED BY <2>5, <3>1, <3>2
  <2>6. Approx(h, n + 1)
    <3> HIDE DEF h
    <3> QED BY <2>3, <2>4, <2>5 DEF Approximates
  <2> QED BY <2>6
<1>3. Nat \subseteq P
  <2> HIDE DEF P
  <2> QED BY <1>1, <1>2, Induction
<1>4. ASSUME NEW g, NEW h, NEW n \in Nat, NEW m \in Nat, Approx(g, n), Approx(h, m)
      PROVE  \A k \in Nat : k <= n /\ k <= m => g[k] = h[k]
  <2> DEFINE Q == {k \in Nat : k <= n /\ k <= m => g[k] = h[k]}
  <2>1. 0 \in Q
    BY <1>4 DEF Approximates
  <2>2. ASSUME NEW k \in Nat, k \in Q
        PROVE  k + 1 \in Q
    BY <1>4, <2>2 DEF Approximates
  <2>3. Nat \subseteq Q
    <3> HIDE DEF Q
    <3> QED BY <2>1, <2>2, Induction
  <2> QED BY <2>3
<1> DEFINE best(n) == CHOOSE g : Approx(g, n)
           f == [n \in Nat |-> best(n)[n]]
<1>5. \A n \in Nat : Approx(best(n), n)
  <2> TAKE n \in Nat
  <2>1. \E g : Approx(g, n)
    BY <1>3
  <2> HIDE DEF Approx
  <2> QED BY <2>1
<1> HIDE DEF best
<1>6. f \in [Nat -> S]
  BY <1>5
<1>7. f[0] = zero
  BY <1>5 DEF Approximates
<1>8. ASSUME NEW n \in Nat
      PROVE  f[n + 1] = step[n][f[n]]
  <2>1. n + 1 \in Nat /\ n < n + 1 /\ n <= n /\ n <= n + 1
    OBVIOUS
  <2>2. best(n + 1)[n + 1] = step[n][best(n + 1)[n]]
    BY <1>5, <2>1 DEF Approximates
  <2>3. best(n + 1)[n] = best(n)[n]
    BY <1>4, <1>5, <2>1
  <2> QED BY <2>1, <2>2, <2>3
<1> HIDE DEF f
<1> QED BY <1>6, <1>7, <1>8 DEF Iterates

(* The same for the numbers up to N. *)
LEMMA FiniteRecursion ==
    ASSUME NEW S, NEW zero \in S, NEW N \in Nat, NEW step \in [1..N -> [S -> S]]
    PROVE  \E f \in [0..N -> S] :
               f[0] = zero /\ \A k \in 1..N : f[k] = step[k][f[k - 1]]
<1> DEFINE long == [n \in Nat |-> IF n + 1 \in 1..N THEN step[n + 1] ELSE [x \in S |-> x]]
<1>1. long \in [Nat -> [S -> S]]
  OBVIOUS
<1>2. \A n \in Nat : n + 1 \in 1..N => long[n] = step[n + 1]
  OBVIOUS
<1> HIDE DEF long
<1>3. PICK g \in [Nat -> S] : Iterates(g, zero, long)
  BY <1>1, Recursion
<1> DEFINE f == [k \in 0..N |-> g[k]]
<1>4. f \in [0..N -> S] /\ f[0] = zero
  BY <1>3 DEF Iterates
<1>5. ASSUME NEW k \in 1..N
      PROVE  f[k] = step[k][f[k - 1]]
  <2>1. k - 1 \in Nat /\ (k - 1) + 1 = k /\ k \in 0..N /\ k - 1 \in 0..N
    OBVIOUS
  <2>2. g[(k - 1) + 1] = long[k - 1][g[k - 1]]
    BY <1>3, <2>1 DEF Iterates
  <2> QED BY <1>2, <2>1, <2>2
<1> HIDE DEF f
<1> QED BY <1>4, <1>5

(* Induction over the numbers up to N. *)
LEMMA FiniteInduction ==
    ASSUME NEW N \in Nat, NEW P, 0 \in P, \A k \in 1..N : k - 1 \in P => k \in P
    PROVE  0..N \subseteq P
<1> DEFINE Q == {n \in Nat : n <= N => n \in P}
<1>1. 0 \in Q
  OBVIOUS
<1>2. ASSUME NEW n \in Nat, n \in Q
      PROVE  n + 1 \in Q
  <2>1. n + 1 <= N => n + 1 \in 1..N /\ (n + 1) - 1 = n /\ n <= N
    OBVIOUS
  <2> QED BY <1>2, <2>1
<1>3. Nat \subseteq Q
  <2> HIDE DEF Q
  <2> QED BY <1>1, <1>2, Induction
<1> QED BY <1>3

-----------------------------------------------------------------------------
(* Division. *)

LEMMA DivMod ==
    ASSUME NEW n \in Nat, NEW w \in Nat \ {0}
    PROVE  /\ n \div w \in Nat /\ n % w \in 0..(w - 1)
           /\ n = w * (n \div w) + (n % w)
OBVIOUS

(* The quotient and the remainder are the only ones. *)
LEMMA DivUnique ==
    ASSUME NEW w \in Nat \ {0}, NEW q \in Int, NEW r \in 0..(w - 1)
    PROVE  (w * q + r) \div w = q /\ (w * q + r) % w = r
<1> DEFINE n == w * q + r
           d == n \div w
           m == n % w
<1>1. n \in Int
  OBVIOUS
<1>2. d \in Int /\ m \in 0..(w - 1) /\ w * q + r = w * d + m
  BY <1>1
<1> HIDE DEF d, m
<1>3. w * (q - d) = m - r
  BY <1>2
<1>4. q - d < 1
  <2> SUFFICES ASSUME q - d >= 1 PROVE FALSE
    BY <1>2
  <2>1. w * (q - d) >= w * 1
    BY <1>2
  <2> QED BY <1>2, <1>3, <2>1
<1>5. q - d > -1
  <2> SUFFICES ASSUME q - d <= -1 PROVE FALSE
    BY <1>2
  <2>1. w * (q - d) <= w * (-1)
    BY <1>2
  <2> QED BY <1>2, <1>3, <2>1
<1>6. q = d
  BY <1>2, <1>4, <1>5
<1>7. r = m
  BY <1>2, <1>3, <1>6
<1> QED BY <1>6, <1>7 DEF d, m

(* A sum that is divided at once, or its first part before the rest. *)
LEMMA DivSplit ==
    ASSUME NEW m \in Nat, NEW n \in Nat, NEW w \in Nat \ {0}
    PROVE  /\ (m + n) \div w = m \div w + ((m % w) + n) \div w
           /\ (m + n) % w = ((m % w) + n) % w
<1> DEFINE q1 == m \div w
           r1 == m % w
           q2 == (r1 + n) \div w
           r2 == (r1 + n) % w
<1>1. q1 \in Nat /\ r1 \in 0..(w - 1) /\ m = w * q1 + r1
  BY DivMod
<1>2. q2 \in Nat /\ r2 \in 0..(w - 1) /\ r1 + n = w * q2 + r2
  <2>1. r1 + n \in Nat
    BY <1>1
  <2> HIDE DEF r1
  <2> QED BY <2>1, DivMod
<1> HIDE DEF q1, r1, q2, r2
<1> DEFINE q == q1 + q2
<1>3. q \in Int /\ m + n = w * q + r2
  BY <1>1, <1>2
<1>4. (m + n) \div w = q /\ (m + n) % w = r2
  <2> HIDE DEF q
  <2> QED BY <1>2, <1>3, DivUnique
<1>5. q = m \div w + ((m % w) + n) \div w /\ r2 = ((m % w) + n) % w
  BY DEF q1, r1, q2, r2
<1> HIDE DEF q
<1> QED BY <1>4, <1>5

(* A larger number has no smaller quotient. *)
LEMMA DivMonotone ==
    ASSUME NEW m \in Nat, NEW n \in Nat, NEW w \in Nat \ {0}, m <= n
    PROVE  m \div w <= n \div w
<1> DEFINE d == n - m
           e == (m % w) + d
<1>1. d \in Nat /\ n = m + d
  OBVIOUS
<1> HIDE DEF d
<1>2. m \div w \in Nat /\ e \in Nat
  <2>1. m \div w \in Nat /\ m % w \in 0..(w - 1)
    BY DivMod
  <2> QED BY <1>1, <2>1
<1>3. n \div w = m \div w + e \div w
  BY <1>1, DivSplit
<1> HIDE DEF e
<1>4. e \div w \in Nat
  BY <1>2, DivMod
<1> QED BY <1>2, <1>3, <1>4
=============================================================================
