---------------------------- MODULE TimersProofs ----------------------------
(***************************************************************************)
(* What the timers compute, for every width of the counters, every number  *)
(* of timers, every divisor, count and slice.                              *)
(*                                                                         *)
(* The loops of Timers::run are recursive functions on the numbers, so the *)
(* proofs argue by induction on them (NumberLemmas).                       *)
(***************************************************************************)
EXTENDS Timers, NumberLemmas

-----------------------------------------------------------------------------
(* The ticks of an ARM11 timer.  They are the same whatever clocks it has,  *)
(* so these may be any number: only Run11 relates the two.                  *)

Ticking == [load : 0..(W11 - 1), counter : 0..(W11 - 1), clocks : Int, prescalar : Nat,
            int_enabled : BOOLEAN, auto_reload : BOOLEAN, enabled : BOOLEAN,
            int_flag : BOOLEAN]

LEMMA TickType ==
    ASSUME NEW t \in Ticking
    PROVE  TickOrStay(t) \in Ticking
<1> DEFINE counter == (t.counter - 1) % W11
<1>1. counter \in 0..(W11 - 1) /\ 0 \in 0..(W11 - 1)
  BY TimersAssumption DEF Ticking
<1>2. t.clocks - t.prescalar \in Int
  BY DEF Ticking
<1> HIDE DEF counter
<1>3. Tick(t) \in Ticking
  BY <1>1, <1>2 DEF Ticking, Tick, counter
<1> QED BY <1>3 DEF TickOrStay

(* The equations that define Ticked. *)
LEMMA TickedIs ==
    ASSUME NEW t \in Ticking
    PROVE  /\ Ticked(t, 0) = t
           /\ \A n \in Nat : Ticked(t, n) \in Ticking
           /\ \A n \in Nat : Ticked(t, n + 1) = TickOrStay(Ticked(t, n))
<1> DEFINE Is(r) == r = [k \in Nat |-> IF k = 0 THEN t ELSE TickOrStay(r[k - 1])]
           after == CHOOSE r : Is(r)
           step == [k \in Nat |-> [s \in Ticking |-> TickOrStay(s)]]
<1>1. step \in [Nat -> [Ticking -> Ticking]]
  BY TickType
<1>2. \A k \in Nat : \A s \in Ticking : step[k][s] = TickOrStay(s)
  OBVIOUS
<1>3. PICK f \in [Nat -> Ticking] : Iterates(f, t, step)
  <2> HIDE DEF step
  <2> QED BY <1>1, Recursion
<1> HIDE DEF step
<1>4. Is(f)
  <2>1. \A k \in Nat : f[k] = IF k = 0 THEN t ELSE TickOrStay(f[k - 1])
    BY <1>2, <1>3 DEF Iterates
  <2>2. f = [k \in Nat |-> f[k]]
    OBVIOUS
  <2> QED BY <2>1, <2>2
<1>5. Is(after)
  <2> HIDE DEF Is
  <2> QED BY <1>4
<1>6. \A n \in Nat : Ticked(t, n) = after[n]
  BY DEF Ticked
<1> HIDE DEF after
<1>7. after[0] = t /\ \A n \in Nat : after[n + 1] = TickOrStay(after[n])
  BY <1>5
<1> DEFINE Typed == {n \in Nat : after[n] \in Ticking}
<1>8. 0 \in Typed /\ \A n \in Nat : n \in Typed => n + 1 \in Typed
  BY <1>7, TickType
<1>9. Nat \subseteq Typed
  <2> HIDE DEF Typed
  <2> QED BY <1>8, Induction
<1> QED BY <1>6, <1>7, <1>9

(* Ticks follow ticks. *)
LEMMA TicksAdd ==
    ASSUME NEW t \in Ticking, NEW m \in Nat, NEW n \in Nat
    PROVE  Ticked(t, m + n) = Ticked(Ticked(t, m), n)
<1> DEFINE P == {k \in Nat : Ticked(t, m + k) = Ticked(Ticked(t, m), k)}
<1>1. Ticked(t, m) \in Ticking
  BY TickedIs
<1>2. 0 \in P
  BY <1>1, TickedIs
<1>3. ASSUME NEW k \in Nat, k \in P
      PROVE  k + 1 \in P
  <2>1. m + (k + 1) = (m + k) + 1 /\ m + k \in Nat
    OBVIOUS
  <2>2. Ticked(t, (m + k) + 1) = TickOrStay(Ticked(t, m + k))
    BY <2>1, TickedIs
  <2>3. Ticked(Ticked(t, m), k + 1) = TickOrStay(Ticked(Ticked(t, m), k))
    BY <1>1, TickedIs
  <2> QED BY <1>3, <2>1, <2>2, <2>3
<1>4. Nat \subseteq P
  <2> HIDE DEF P
  <2> QED BY <1>2, <1>3, Induction
<1> QED BY <1>4

(* t with more clocks, and with an interrupt if there was one. *)
Later(t, cycles, flag) == [t EXCEPT !.clocks = @ + cycles, !.int_flag = @ \/ flag]

LEMMA LaterType ==
    ASSUME NEW t \in Ticking, NEW cycles \in Int, NEW flag \in BOOLEAN
    PROVE  Later(t, cycles, flag) \in Ticking
<1>1. t.clocks + cycles \in Int
  BY DEF Ticking
<1>2. (t.int_flag \/ flag) \in BOOLEAN
  OBVIOUS
<1> QED BY <1>1, <1>2 DEF Later, Ticking

(* A tick does the same with them as without. *)
LEMMA TickLater ==
    ASSUME NEW t \in Ticking, NEW cycles \in Int, NEW flag \in BOOLEAN
    PROVE  TickOrStay(Later(t, cycles, flag)) = Later(TickOrStay(t), cycles, flag)
<1> DEFINE s == Later(t, cycles, flag)
<1>1. /\ s.counter = t.counter /\ s.enabled = t.enabled /\ s.prescalar = t.prescalar
      /\ s.auto_reload = t.auto_reload /\ s.load = t.load
      /\ s.int_enabled = t.int_enabled /\ s.clocks = t.clocks + cycles
      /\ s.int_flag = (t.int_flag \/ flag)
  BY DEF Later, Ticking
<1>2. (t.clocks + cycles) - t.prescalar = (t.clocks - t.prescalar) + cycles
  BY DEF Ticking
<1>3. CASE ~t.enabled
  BY <1>1, <1>3 DEF TickOrStay
<1>4. CASE t.enabled
  <2> DEFINE counter == (t.counter - 1) % W11
  <2>1. Tick(s) = Later(Tick(t), cycles, flag)
    BY <1>2 DEF Tick, Later, Ticking
  <2> QED BY <1>1, <1>4, <2>1 DEF TickOrStay
<1> QED BY <1>3, <1>4

LEMMA TicksLater ==
    ASSUME NEW t \in Ticking, NEW cycles \in Int, NEW flag \in BOOLEAN, NEW n \in Nat
    PROVE  Ticked(Later(t, cycles, flag), n) = Later(Ticked(t, n), cycles, flag)
<1> DEFINE s == Later(t, cycles, flag)
           P == {k \in Nat : Ticked(s, k) = Later(Ticked(t, k), cycles, flag)}
<1>1. s \in Ticking
  BY LaterType
<1> HIDE DEF s
<1>2. 0 \in P
  <2>1. Ticked(s, 0) = s /\ Ticked(t, 0) = t
    BY <1>1, TickedIs
  <2> QED BY <2>1 DEF s
<1>3. ASSUME NEW k \in Nat, k \in P
      PROVE  k + 1 \in P
  <2>1. Ticked(t, k) \in Ticking /\ Ticked(t, k + 1) = TickOrStay(Ticked(t, k))
    BY TickedIs
  <2>2. Ticked(s, k + 1) = TickOrStay(Ticked(s, k))
    BY <1>1, TickedIs
  <2>3. TickOrStay(Later(Ticked(t, k), cycles, flag))
            = Later(TickOrStay(Ticked(t, k)), cycles, flag)
    BY <2>1, TickLater
  <2> QED BY <1>3, <2>1, <2>2, <2>3
<1>4. Nat \subseteq P
  <2> HIDE DEF P
  <2> QED BY <1>2, <1>3, Induction
<1> QED BY <1>4 DEF s

(* A tick takes its clocks; and a timer that stopped stays as it is. *)
LEMMA TicksTakeClocks ==
    ASSUME NEW t \in Ticking, NEW n \in Nat
    PROVE  /\ Ticked(t, n).prescalar = t.prescalar
           /\ Ticked(t, n).clocks >= t.clocks - t.prescalar * n
           /\ Ticked(t, n).enabled => Ticked(t, n).clocks = t.clocks - t.prescalar * n
<1> DEFINE Takes(k) == /\ Ticked(t, k).prescalar = t.prescalar
                       /\ Ticked(t, k).clocks >= t.clocks - t.prescalar * k
                       /\ Ticked(t, k).enabled =>
                              Ticked(t, k).clocks = t.clocks - t.prescalar * k
           P == {k \in Nat : Takes(k)}
<1>1. 0 \in P
  <2>1. Ticked(t, 0) = t /\ t.clocks - t.prescalar * 0 = t.clocks /\ t.clocks \in Int
    BY TickedIs DEF Ticking
  <2> QED BY <2>1
<1>2. ASSUME NEW k \in Nat, k \in P
      PROVE  k + 1 \in P
  <2> DEFINE s == Ticked(t, k)
             u == Ticked(t, k + 1)
  <2>1. s \in Ticking /\ u = TickOrStay(s)
    BY TickedIs
  <2>2. Takes(k)
    BY <1>2
  <2>3. /\ t.prescalar \in Nat /\ t.clocks \in Int /\ s.clocks \in Int
        /\ t.prescalar * (k + 1) = t.prescalar * k + t.prescalar
        /\ t.prescalar * k \in Int
    <3>1. t.prescalar \in Nat /\ t.clocks \in Int /\ s.clocks \in Int
      BY <2>1 DEF Ticking
    <3>2. \A p \in Nat : p * (k + 1) = p * k + p /\ p * k \in Int
      OBVIOUS
    <3> QED BY <3>1, <3>2
  <2>4. CASE s.enabled
    <3>1. u.prescalar = s.prescalar /\ u.clocks = s.clocks - s.prescalar
      BY <2>1, <2>4 DEF TickOrStay, Tick, Ticking
    <3> HIDE DEF s, u
    <3>2. u.clocks = t.clocks - t.prescalar * (k + 1)
      BY <2>2, <2>3, <2>4, <3>1 DEF s
    <3> QED BY <2>2, <2>3, <3>1, <3>2 DEF s, u
  <2>5. CASE ~s.enabled
    <3>1. u = s
      BY <2>1, <2>5 DEF TickOrStay
    <3> QED BY <2>2, <2>3, <2>5, <3>1
  <2> QED BY <2>4, <2>5
<1>3. Nat \subseteq P
  <2> HIDE DEF P
  <2> QED BY <1>1, <1>2, Induction
<1> QED BY <1>3

LEMMA StoppedStays ==
    ASSUME NEW t \in Ticking, ~t.enabled, NEW n \in Nat
    PROVE  Ticked(t, n) = t
<1> DEFINE P == {k \in Nat : Ticked(t, k) = t}
<1>1. 0 \in P
  BY TickedIs
<1>2. ASSUME NEW k \in Nat, k \in P
      PROVE  k + 1 \in P
  <2>1. Ticked(t, k + 1) = TickOrStay(Ticked(t, k)) /\ Ticked(t, k) = t
    BY <1>2, TickedIs
  <2> QED BY <2>1 DEF TickOrStay
<1>3. Nat \subseteq P
  <2> HIDE DEF P
  <2> QED BY <1>1, <1>2, Induction
<1> QED BY <1>3

(* An interrupt stays until the program takes it. *)
LEMMA FlagStays ==
    ASSUME NEW t \in Ticking, t.int_flag, NEW n \in Nat
    PROVE  Ticked(t, n).int_flag
<1> DEFINE P == {k \in Nat : Ticked(t, k).int_flag}
<1>1. 0 \in P
  BY TickedIs
<1>2. ASSUME NEW k \in Nat, k \in P
      PROVE  k + 1 \in P
  <2>1. Ticked(t, k) \in Ticking /\ Ticked(t, k + 1) = TickOrStay(Ticked(t, k))
    BY TickedIs
  <2>2. ASSUME NEW u \in Ticking, u.int_flag
        PROVE  TickOrStay(u).int_flag
    <3>1. CASE ~u.enabled
      BY <2>2, <3>1 DEF TickOrStay
    <3>2. CASE u.enabled
      BY <2>2, <3>2 DEF TickOrStay, Tick, Ticking
    <3> QED BY <3>1, <3>2
  <2> QED BY <1>2, <2>1, <2>2
<1>3. Nat \subseteq P
  <2> HIDE DEF P
  <2> QED BY <1>1, <1>2, Induction
<1> QED BY <1>3

(* The count at which it interrupts: a count of 0 is a full turn. *)
Due(t) == IF t.counter = 0 THEN W11 ELSE t.counter

(* Until then it counts down. *)
LEMMA Countdown ==
    ASSUME NEW t \in Ticking, t.enabled, NEW n \in Nat, n < Due(t)
    PROVE  /\ Ticked(t, n).enabled
           /\ Ticked(t, n).int_flag = t.int_flag
           /\ Ticked(t, n).counter = IF n = 0 THEN t.counter ELSE Due(t) - n
<1> DEFINE Counts(k) == /\ Ticked(t, k).enabled
                        /\ Ticked(t, k).int_flag = t.int_flag
                        /\ Ticked(t, k).counter = IF k = 0 THEN t.counter ELSE Due(t) - k
           P == {k \in Nat : k < Due(t) => Counts(k)}
<1>1. Due(t) \in 1..W11 /\ t.counter \in 0..(W11 - 1) /\ W11 \in Nat \ {0}
  BY TimersAssumption DEF Due, Ticking
<1>2. 0 \in P
  BY TickedIs
<1>3. ASSUME NEW k \in Nat, k \in P, k + 1 < Due(t)
      PROVE  Counts(k + 1)
  <2> DEFINE s == Ticked(t, k)
  <2>1. s \in Ticking /\ Ticked(t, k + 1) = TickOrStay(s)
    BY TickedIs
  <2>2. k < Due(t) /\ Counts(k)
    BY <1>1, <1>3
  <2>3. (s.counter - 1) % W11 = Due(t) - (k + 1)
    <3>1. CASE k = 0 /\ t.counter = 0
      <4>1. s.counter - 1 = -1 /\ Due(t) - (k + 1) = W11 - 1
        BY <1>1, <2>2, <3>1 DEF Due
      <4>2. (-1) % W11 = W11 - 1
        <5> DEFINE r == W11 - 1
                   q == -1
        <5>1. r \in 0..(W11 - 1) /\ q \in Int /\ W11 * q + r = -1
          BY <1>1
        <5> HIDE DEF r, q
        <5>2. (W11 * q + r) % W11 = r
          BY <1>1, <5>1, DivUnique
        <5> QED BY <5>1, <5>2 DEF r
      <4> QED BY <4>1, <4>2
    <3>2. CASE ~(k = 0 /\ t.counter = 0)
      <4>1. s.counter = Due(t) - k
        <5>1. CASE k = 0
          BY <1>1, <2>2, <3>2, <5>1 DEF Due
        <5>2. CASE k # 0
          BY <2>2, <5>2
        <5> QED BY <5>1, <5>2
      <4>2. s.counter - 1 = Due(t) - (k + 1) /\ s.counter - 1 \in 0..(W11 - 1)
        BY <1>1, <1>3, <4>1
      <4> QED BY <1>1, <4>2
    <3> QED BY <3>1, <3>2
  <2> HIDE DEF s
  <2>4. TickOrStay(s) = Tick(s)
    BY <2>2 DEF TickOrStay, s
  <2>5. (s.counter - 1) % W11 # 0
    BY <1>1, <1>3, <2>3
  <2>6. /\ Tick(s).enabled = s.enabled /\ Tick(s).int_flag = s.int_flag
        /\ Tick(s).counter = (s.counter - 1) % W11
    BY <2>1, <2>5 DEF Tick, Ticking
  <2>7. s.enabled /\ s.int_flag = t.int_flag
    BY <2>2 DEF s
  <2>8. /\ Ticked(t, k + 1).enabled
        /\ Ticked(t, k + 1).int_flag = t.int_flag
        /\ Ticked(t, k + 1).counter = Due(t) - (k + 1)
    BY <2>1, <2>3, <2>4, <2>6, <2>7
  <2> QED BY <2>8
<1>4. Nat \subseteq P
  <2>1. \A k \in Nat : k \in P => k + 1 \in P
    BY <1>3
  <2> HIDE DEF P
  <2> QED BY <1>2, <2>1, Induction
<1> QED BY <1>4

(* Then it interrupts. *)
LEMMA Interrupts ==
    ASSUME NEW t \in Ticking, t.enabled, NEW n \in Nat, n >= Due(t)
    PROVE  Ticked(t, n).int_flag
<1> DEFINE k == Due(t) - 1
           s == Ticked(t, k)
<1>1. Due(t) \in 1..W11 /\ t.counter \in 0..(W11 - 1) /\ W11 \in Nat \ {0}
  BY TimersAssumption DEF Due, Ticking
<1>2. k \in Nat /\ k < Due(t) /\ k + 1 = Due(t) /\ k + 1 \in Nat
  BY <1>1
<1>3. s \in Ticking /\ Ticked(t, k + 1) = TickOrStay(s)
  BY <1>2, TickedIs
<1>4. s.enabled /\ s.counter = IF k = 0 THEN t.counter ELSE 1
  <2>1. s.enabled /\ s.counter = IF k = 0 THEN t.counter ELSE Due(t) - k
    BY <1>2, Countdown
  <2> QED BY <1>1, <2>1
<1>5. (s.counter - 1) % W11 = 0
  <2>1. CASE k = 0 /\ t.counter = 0
    <3>1. W11 = 1
      BY <1>1, <2>1 DEF Due
    <3>2. (0 - 1) % 1 = 0
      OBVIOUS
    <3> QED BY <1>4, <2>1, <3>1, <3>2
  <2>2. CASE ~(k = 0 /\ t.counter = 0)
    <3>1. s.counter = 1
      BY <1>1, <1>4, <2>2 DEF Due
    <3> QED BY <1>1, <3>1
  <2> QED BY <2>1, <2>2
<1> HIDE DEF s
<1>6. TickOrStay(s).int_flag
  BY <1>3, <1>4, <1>5 DEF TickOrStay, Tick, Ticking
<1>7. n = (k + 1) + (n - (k + 1)) /\ n - (k + 1) \in Nat
  BY <1>1
<1>8. Ticked(t, n) = Ticked(Ticked(t, k + 1), n - (k + 1))
  <2> HIDE DEF k
  <2> DEFINE m == k + 1
             d == n - m
  <2>1. m \in Nat /\ d \in Nat /\ n = m + d
    BY <1>2, <1>7
  <2> HIDE DEF m, d
  <2>2. Ticked(t, m + d) = Ticked(Ticked(t, m), d)
    BY <2>1, TicksAdd
  <2> QED BY <2>1, <2>2 DEF m, d
<1>9. Ticked(t, k + 1) \in Ticking
  BY <1>2, TickedIs
<1> QED BY <1>3, <1>6, <1>7, <1>8, <1>9, FlagStays

-----------------------------------------------------------------------------
(* The runs of an ARM11 timer. *)

(* What a timer is when it runs. *)
Runnable11(t) == t \in Timer11 /\ (t.enabled => t.prescalar # 0)

LEMMA RunnableTicks ==
    ASSUME NEW t, Runnable11(t)
    PROVE  /\ t \in Ticking /\ t.clocks \in Nat /\ t.prescalar \in Nat
           /\ t.enabled => t.prescalar \in Nat \ {0}
           /\ t.int_flag \in BOOLEAN /\ t.enabled \in BOOLEAN
           /\ t.counter \in 0..(W11 - 1)
BY DEF Runnable11, Timer11, Ticking

(* The ticks of a run. *)
Quotient(t, cycles) == (t.clocks + cycles) \div t.prescalar

(* A run ticks, and adds the cycles to the clocks. *)
LEMMA Run11Ticks ==
    ASSUME NEW t, Runnable11(t), t.enabled, NEW cycles \in Nat
    PROVE  /\ Quotient(t, cycles) \in Nat
           /\ Run11(t, cycles) = Later(Ticked(t, Quotient(t, cycles)), cycles, FALSE)
<1> DEFINE n == Quotient(t, cycles)
<1>1. t \in Ticking /\ t.clocks + cycles \in Nat /\ t.prescalar \in Nat \ {0}
  BY RunnableTicks
<1>2. n \in Nat
  BY <1>1, DivMod DEF Quotient
<1>3. [t EXCEPT !.clocks = t.clocks + cycles] = Later(t, cycles, FALSE)
  BY <1>1 DEF Later, Ticking
<1>4. Run11(t, cycles) = Ticked([t EXCEPT !.clocks = t.clocks + cycles], n)
  BY DEF Run11, Quotient
<1> HIDE DEF n
<1>5. Ticked(Later(t, cycles, FALSE), n) = Later(Ticked(t, n), cycles, FALSE)
  <2>1. cycles \in Int /\ FALSE \in BOOLEAN
    OBVIOUS
  <2> QED BY <1>1, <1>2, <2>1, TicksLater
<1> QED BY <1>2, <1>3, <1>4, <1>5 DEF n

(* It leaves the clocks that make no tick, and more in a timer that stopped. *)
LEMMA Run11Type ==
    ASSUME NEW t, Runnable11(t), NEW cycles \in Nat
    PROVE  /\ Runnable11(Run11(t, cycles))
           /\ Run11(t, cycles).prescalar = t.prescalar
           /\ t.enabled /\ Run11(t, cycles).enabled =>
                  Run11(t, cycles).clocks = (t.clocks + cycles) % t.prescalar
<1>1. CASE ~t.enabled
  BY <1>1 DEF Run11
<1>2. CASE t.enabled
  <2> DEFINE n == Quotient(t, cycles)
             s == Ticked(t, n)
             r == (t.clocks + cycles) % t.prescalar
  <2>1. /\ t \in Ticking /\ t.clocks \in Nat /\ t.prescalar \in Nat \ {0}
        /\ t.clocks + cycles \in Nat
    BY <1>2, RunnableTicks
  <2>2. n \in Nat /\ Run11(t, cycles) = Later(s, cycles, FALSE)
    BY <1>2, Run11Ticks
  <2>3. r \in Nat /\ t.clocks + cycles = t.prescalar * n + r
    <3>1. \A c \in Nat, p \in Nat \ {0} : c % p \in Nat /\ c = p * (c \div p) + (c % p)
      BY DivMod
    <3> QED BY <2>1, <3>1 DEF Quotient
  <2> HIDE DEF n, r
  <2>4. /\ s \in Ticking /\ s.prescalar = t.prescalar
        /\ s.clocks >= t.clocks - t.prescalar * n
        /\ s.enabled => s.clocks = t.clocks - t.prescalar * n
    BY <2>1, <2>2, TickedIs, TicksTakeClocks
  <2>5. s.clocks \in Int /\ t.prescalar * n \in Int
    BY <2>1, <2>2, <2>4 DEF Ticking
  <2> HIDE DEF s
  <2>6. s.clocks + cycles \in Nat /\ (s.enabled => s.clocks + cycles = r)
    BY <2>1, <2>3, <2>4, <2>5
  <2>7. Later(s, cycles, FALSE) = [s EXCEPT !.clocks = s.clocks + cycles]
    BY <2>4 DEF Later, Ticking
  <2>8. /\ Later(s, cycles, FALSE) \in Timer11
        /\ Later(s, cycles, FALSE).prescalar = t.prescalar
        /\ Later(s, cycles, FALSE).clocks = s.clocks + cycles
        /\ Later(s, cycles, FALSE).enabled = s.enabled
    BY <2>4, <2>6, <2>7 DEF Ticking, Timer11
  <2> QED BY <2>1, <2>2, <2>6, <2>8 DEF Runnable11, r
<1> QED BY <1>1, <1>2

(* Two runs, or one. *)
LEMMA Run11Adds ==
    ASSUME NEW t, Runnable11(t), NEW a \in Nat, NEW b \in Nat
    PROVE  \/ /\ Run11(t, a).enabled
              /\ Run11(Run11(t, a), b) = Run11(t, a + b)
           \/ /\ ~Run11(t, a).enabled /\ ~Run11(t, a + b).enabled
              /\ Run11(Run11(t, a), b) = Run11(t, a)
              /\ [Run11(t, a) EXCEPT !.clocks = Run11(t, a + b).clocks] = Run11(t, a + b)
<1>1. CASE ~t.enabled
  <2>1. t = [t EXCEPT !.clocks = t.clocks]
    BY RunnableTicks DEF Ticking
  <2> QED BY <1>1, <2>1 DEF Run11
<1>2. CASE t.enabled
  <2> DEFINE v == Run11(t, a)
             n == Quotient(t, a)
             m == Quotient(v, b)
             s == Ticked(t, n)
             r == (((t.clocks + a) % t.prescalar) + b) \div t.prescalar
  <2>1. /\ t \in Ticking /\ t.clocks \in Nat /\ t.prescalar \in Nat \ {0}
        /\ t.clocks + a \in Nat /\ a + b \in Nat
    BY <1>2, RunnableTicks
  <2>2. n \in Nat /\ s \in Ticking /\ v = Later(s, a, FALSE)
    <3>1. n \in Nat /\ v = Later(s, a, FALSE)
      BY <1>2, Run11Ticks
    <3> HIDE DEF n
    <3> QED BY <2>1, <3>1, TickedIs
  <2>3. r \in Nat /\ Quotient(t, a + b) = n + r
    <3>1. t.clocks + (a + b) = (t.clocks + a) + b
      BY <2>1
    <3>2. ((t.clocks + a) + b) \div t.prescalar = n + r
      BY <2>1, DivSplit DEF Quotient
    <3>3. ((t.clocks + a) % t.prescalar) + b \in Nat
      <4>1. \A c \in Nat, p \in Nat \ {0} : (c % p) + b \in Nat
        OBVIOUS
      <4> QED BY <2>1, <4>1
    <3>4. r \in Nat
      BY <2>1, <3>3, DivMod
    <3> QED BY <3>1, <3>2, <3>4 DEF Quotient
  <2>4. Run11(t, a + b) = Later(Ticked(s, r), a + b, FALSE)
    <3>1. Run11(t, a + b) = Later(Ticked(t, Quotient(t, a + b)), a + b, FALSE)
      BY <1>2, <2>1, Run11Ticks
    <3> HIDE DEF n, r
    <3>2. Ticked(t, n + r) = Ticked(s, r)
      BY <2>1, <2>2, <2>3, TicksAdd
    <3> QED BY <2>3, <3>1, <3>2
  <2> HIDE DEF r
  <2>5. CASE v.enabled
    <3>1. Runnable11(v) /\ v.clocks = (t.clocks + a) % t.prescalar
          /\ v.prescalar = t.prescalar
      BY <1>2, <2>5, Run11Type
    <3>2. m = r
      BY <3>1 DEF Quotient, r
    <3> HIDE DEF v, m, s
    <3>3. Run11(v, b) = Later(Ticked(v, r), b, FALSE)
      BY <2>5, <3>1, <3>2, Run11Ticks DEF m
    <3>4. Ticked(v, r) = Later(Ticked(s, r), a, FALSE)
      <4>1. a \in Int /\ FALSE \in BOOLEAN
        OBVIOUS
      <4>2. Ticked(Later(s, a, FALSE), r) = Later(Ticked(s, r), a, FALSE)
        BY <2>2, <2>3, <4>1, TicksLater
      <4> QED BY <2>2, <4>2
    <3>5. Ticked(s, r) \in Ticking
      BY <2>2, <2>3, TickedIs
    <3>6. Later(Later(Ticked(s, r), a, FALSE), b, FALSE) = Later(Ticked(s, r), a + b, FALSE)
      <4> DEFINE u == Ticked(s, r)
      <4>1. u \in Ticking /\ (u.clocks + a) + b = u.clocks + (a + b)
        BY <3>5 DEF Ticking
      <4> HIDE DEF u
      <4>2. Later(Later(u, a, FALSE), b, FALSE) = Later(u, a + b, FALSE)
        BY <4>1 DEF Later, Ticking
      <4> QED BY <4>2 DEF u
    <3>7. Run11(v, b) = Run11(t, a + b)
      BY <2>4, <3>3, <3>4, <3>6
    <3> QED BY <2>5, <3>7 DEF v
  <2>6. CASE ~v.enabled
    <3>1. Run11(v, b) = v
      BY <2>6 DEF Run11
    <3> HIDE DEF s
    <3>2. ~s.enabled
      BY <2>2, <2>6 DEF Later, Ticking
    <3>3. Run11(t, a + b) = Later(s, a + b, FALSE)
      BY <2>2, <2>3, <2>4, <3>2, StoppedStays
    <3>4. /\ ~Later(s, a + b, FALSE).enabled
          /\ [Later(s, a, FALSE) EXCEPT !.clocks = Later(s, a + b, FALSE).clocks]
                 = Later(s, a + b, FALSE)
      BY <2>2, <3>2 DEF Later, Ticking
    <3> HIDE DEF v
    <3>5. /\ ~Run11(t, a + b).enabled
          /\ [v EXCEPT !.clocks = Run11(t, a + b).clocks] = Run11(t, a + b)
      BY <2>2, <3>3, <3>4 DEF v
    <3> QED BY <2>6, <3>1, <3>5 DEF v
  <2> QED BY <2>5, <2>6
<1> QED BY <1>1, <1>2

(* An interrupt of before changes nothing else. *)
LEMMA Run11Flag ==
    ASSUME NEW t, Runnable11(t), NEW cycles \in Nat, NEW flag \in BOOLEAN
    PROVE  /\ Runnable11(Later(t, 0, flag))
           /\ Run11(Later(t, 0, flag), cycles) = Later(Run11(t, cycles), 0, flag)
<1> DEFINE s == Later(t, 0, flag)
<1>1. /\ t \in Ticking /\ t.clocks \in Nat /\ t.prescalar \in Nat
      /\ 0 \in Int /\ FALSE \in BOOLEAN /\ cycles \in Int
  BY RunnableTicks
<1>2. /\ s \in Ticking /\ s.clocks = t.clocks /\ s.prescalar = t.prescalar
      /\ s.enabled = t.enabled
  <2>1. s \in Ticking
    BY <1>1, LaterType
  <2>2. t.clocks + 0 = t.clocks
    BY <1>1
  <2> QED BY <1>1, <2>1, <2>2 DEF Later, Ticking
<1> HIDE DEF s
<1>3. Runnable11(s)
  <2>1. t.enabled => t.prescalar # 0
    BY DEF Runnable11
  <2> QED BY <1>1, <1>2, <2>1 DEF Runnable11, Ticking, Timer11
<1>4. CASE ~t.enabled
  BY <1>2, <1>3, <1>4 DEF Run11, s
<1>5. CASE t.enabled
  <2> DEFINE n == Quotient(t, cycles)
  <2>1. n \in Nat /\ Quotient(s, cycles) = n
    BY <1>2, <1>5, Run11Ticks DEF Quotient
  <2>2. Run11(s, cycles) = Later(Ticked(s, n), cycles, FALSE)
    BY <1>2, <1>3, <1>5, <2>1, Run11Ticks
  <2>3. Run11(t, cycles) = Later(Ticked(t, n), cycles, FALSE)
    BY <1>5, Run11Ticks
  <2> HIDE DEF n
  <2>4. Ticked(s, n) = Later(Ticked(t, n), 0, flag) /\ Ticked(t, n) \in Ticking
    BY <1>1, <2>1, TicksLater, TickedIs DEF s
  <2>5. ASSUME NEW u \in Ticking
        PROVE  Later(Later(u, 0, flag), cycles, FALSE) = Later(Later(u, cycles, FALSE), 0, flag)
    <3>1. (u.clocks + 0) + cycles = (u.clocks + cycles) + 0
      BY DEF Ticking
    <3> QED BY <3>1 DEF Later, Ticking
  <2> QED BY <1>3, <2>2, <2>3, <2>4, <2>5 DEF s
<1> QED BY <1>4, <1>5

Cleared(t) == [t EXCEPT !.int_flag = FALSE]

LEMMA ClearedIs ==
    ASSUME NEW t, Runnable11(t)
    PROVE  /\ Runnable11(Cleared(t)) /\ t = Later(Cleared(t), 0, t.int_flag)
           /\ Cleared(t).enabled = t.enabled /\ Cleared(t).prescalar = t.prescalar
           /\ Cleared(t).counter = t.counter /\ Cleared(t).clocks = t.clocks
           /\ ~Cleared(t).int_flag
<1>1. t \in Ticking /\ t.clocks \in Nat /\ t.clocks + 0 = t.clocks
  BY RunnableTicks
<1>2. /\ Cleared(t) \in Timer11
      /\ Cleared(t).enabled = t.enabled /\ Cleared(t).prescalar = t.prescalar
      /\ Cleared(t).counter = t.counter /\ Cleared(t).clocks = t.clocks
      /\ ~Cleared(t).int_flag
  BY DEF Cleared, Timer11, Runnable11
<1>3. t = Later(Cleared(t), 0, t.int_flag)
  BY <1>1 DEF Cleared, Later, Ticking
<1> QED BY <1>2, <1>3 DEF Runnable11

LEMMA FiresIs ==
    ASSUME NEW t, NEW cycles
    PROVE  Fires(t, cycles) = Run11(Cleared(t), cycles).int_flag
BY DEF Fires, Cleared

LEMMA FiresAdds ==
    ASSUME NEW t, Runnable11(t), NEW a \in Nat, NEW b \in Nat
    PROVE  Fires(t, a + b) = (Fires(t, a) \/ Fires(Run11(t, a), b))
<1> DEFINE u == Cleared(t)
           v == Run11(u, a)
           w == Cleared(v)
<1>1. Runnable11(u) /\ t = Later(u, 0, t.int_flag) /\ t.int_flag \in BOOLEAN
  BY ClearedIs, RunnableTicks
<1> HIDE DEF u
<1>2. Runnable11(v)
  BY <1>1, Run11Type
<1>3. Run11(t, a) = Later(v, 0, t.int_flag)
  <2> DEFINE flag == t.int_flag
  <2>1. flag \in BOOLEAN /\ t = Later(u, 0, flag)
    BY <1>1
  <2> HIDE DEF flag
  <2>2. Run11(Later(u, 0, flag), a) = Later(Run11(u, a), 0, flag)
    BY <1>1, <2>1, Run11Flag
  <2> QED BY <2>1, <2>2 DEF flag
<1> HIDE DEF v
<1>4. v \in Ticking /\ v.clocks \in Nat /\ v.clocks + 0 = v.clocks /\ v.int_flag \in BOOLEAN
  BY <1>2, RunnableTicks
<1>5. Cleared(Run11(t, a)) = w
  BY <1>1, <1>3, <1>4 DEF Cleared, Later, Ticking
<1>6. Runnable11(w) /\ v = Later(w, 0, v.int_flag)
  BY <1>2, ClearedIs
<1> HIDE DEF w
<1>7. Run11(v, b) = Later(Run11(w, b), 0, v.int_flag)
  <2> DEFINE flag == v.int_flag
  <2>1. flag \in BOOLEAN /\ v = Later(w, 0, flag)
    BY <1>4, <1>6
  <2> HIDE DEF flag
  <2>2. Run11(Later(w, 0, flag), b) = Later(Run11(w, b), 0, flag)
    BY <1>6, <2>1, Run11Flag
  <2> QED BY <2>1, <2>2 DEF flag
<1>8. Run11(w, b) \in Ticking
  BY <1>6, Run11Type, RunnableTicks
<1>9. Run11(v, b).int_flag = (Run11(w, b).int_flag \/ v.int_flag)
  BY <1>7, <1>8 DEF Later, Ticking
<1>10. Run11(u, a + b).int_flag = Run11(v, b).int_flag
  <2>1. CASE v.enabled
    <3>1. Run11(u, a).enabled
      BY <2>1 DEF v
    <3>2. Run11(Run11(u, a), b) = Run11(u, a + b)
      BY <1>1, <3>1, Run11Adds
    <3> QED BY <3>2 DEF v
  <2>2. CASE ~v.enabled
    <3>1. /\ Run11(v, b) = v
          /\ [v EXCEPT !.clocks = Run11(u, a + b).clocks] = Run11(u, a + b)
      BY <1>1, <2>2, Run11Adds DEF v
    <3>2. [v EXCEPT !.clocks = Run11(u, a + b).clocks].int_flag = v.int_flag
      BY <1>4 DEF Ticking
    <3> QED BY <3>1, <3>2
  <2> QED BY <2>1, <2>2
<1>11. /\ Fires(t, a + b) = Run11(u, a + b).int_flag /\ Fires(t, a) = v.int_flag
       /\ Fires(Run11(t, a), b) = Run11(w, b).int_flag
  BY <1>5, FiresIs DEF u, v
<1> QED BY <1>9, <1>10, <1>11

LEMMA FiresAtDue ==
    ASSUME NEW t, Runnable11(t), NEW cycles \in Nat
    PROVE  Fires(t, cycles) <=> t.enabled /\ Quotient(t, cycles) >= Due(t)
<1> DEFINE u == Cleared(t)
           n == Quotient(u, cycles)
<1>1. /\ Runnable11(u) /\ u.enabled = t.enabled /\ ~u.int_flag
      /\ Quotient(t, cycles) = n /\ Due(t) = Due(u)
  BY ClearedIs DEF Quotient, Due
<1>2. Fires(t, cycles) = Run11(u, cycles).int_flag
  BY FiresIs
<1> HIDE DEF u
<1>3. CASE ~u.enabled
  BY <1>1, <1>2, <1>3 DEF Run11
<1>4. CASE u.enabled
  <2>1. n \in Nat /\ Run11(u, cycles) = Later(Ticked(u, n), cycles, FALSE) /\ u \in Ticking
    BY <1>1, <1>4, Run11Ticks, RunnableTicks
  <2>2. Due(u) \in Nat
    BY <2>1, TimersAssumption DEF Due, Ticking
  <2> HIDE DEF n
  <2>3. Ticked(u, n) \in Ticking
    BY <2>1, TickedIs
  <2>4. Run11(u, cycles).int_flag <=> Ticked(u, n).int_flag
    BY <2>1, <2>3 DEF Later, Ticking
  <2>5. CASE n >= Due(u)
    BY <1>1, <1>2, <1>4, <2>1, <2>4, <2>5, Interrupts
  <2>6. CASE n < Due(u)
    <3>1. ~Ticked(u, n).int_flag
      BY <1>1, <1>4, <2>1, <2>6, Countdown
    <3>2. ~(n >= Due(u))
      BY <2>1, <2>2, <2>6
    <3> QED BY <1>1, <1>2, <2>4, <3>1, <3>2
  <2> QED BY <2>1, <2>2, <2>5, <2>6
<1> QED BY <1>1, <1>3, <1>4

-----------------------------------------------------------------------------
(* The ARM9's timers.  A timer counts its ticks or the overflows of the     *)
(* timer before it, by recursion on the timers.                             *)

Runnable9(timers) ==
    /\ timers \in [Timers9 -> Timer9]
    /\ \A i \in Timers9 : timers[i].enabled => timers[i].prescalar # 0

Chained(timers, i) == timers[i].enabled /\ timers[i].countup /\ i # 0

LEMMA Timer9Is ==
    ASSUME NEW timers, Runnable9(timers), NEW i \in Timers9
    PROVE  /\ timers[i] \in Timer9 /\ i \in Nat
           /\ timers[i].counter \in Nat /\ timers[i].counter < W9
           /\ timers[i].clocks \in Nat /\ timers[i].prescalar \in Nat
           /\ timers[i].enabled => timers[i].prescalar \in Nat \ {0}
           /\ i # 0 => i - 1 \in Timers9
           /\ W9 \in Nat \ {0}
<1>1. timers[i] \in Timer9 /\ (timers[i].enabled => timers[i].prescalar # 0)
  BY DEF Runnable9
<1>2. i \in Nat /\ 0..i \subseteq Timers9 /\ W9 \in Nat \ {0}
  BY TimersAssumption
<1>3. timers[i].counter \in 0..(W9 - 1) /\ timers[i].clocks \in Nat /\ timers[i].prescalar \in Nat
  BY <1>1 DEF Timer9
<1>4. i # 0 => i - 1 \in 0..i
  BY <1>2
<1> QED BY <1>1, <1>2, <1>3, <1>4

LEMMA Ticks9Type ==
    ASSUME NEW timers, Runnable9(timers), NEW i \in Timers9, NEW cycles \in Nat
    PROVE  Ticks9(timers[i], cycles) \in Nat
<1>1. \A c \in Nat, p \in Nat \ {0} : c \div p \in Nat
  BY DivMod
<1>2. timers[i].clocks + cycles \in Nat
  BY Timer9Is
<1> QED BY <1>1, <1>2, Timer9Is DEF Ticks9

(* The equations that define Steps9. *)
LEMMA Steps9Is ==
    ASSUME NEW timers, Runnable9(timers), NEW cycles \in Nat
    PROVE  /\ Steps9(timers, cycles) \in [Timers9 -> Nat]
           /\ \A i \in Timers9 : ~Chained(timers, i) =>
                  Steps9(timers, cycles)[i] = Ticks9(timers[i], cycles)
           /\ \A i \in Timers9 : Chained(timers, i) =>
                  Steps9(timers, cycles)[i]
                      = (timers[i - 1].counter + Steps9(timers, cycles)[i - 1]) \div W9
<1> DEFINE Value(r, i) ==
               IF timers[i].enabled /\ timers[i].countup /\ i # 0
               THEN (timers[i - 1].counter + r[i - 1]) \div W9
               ELSE Ticks9(timers[i], cycles)
           Is(r) == r = [i \in Timers9 |-> Value(r, i)]
           steps == CHOOSE r : Is(r)
           zero == IF 0 \in Timers9 THEN Ticks9(timers[0], cycles) ELSE 0
           step == [k \in Nat |-> [n \in Nat |->
                       IF k + 1 \notin Timers9 THEN 0
                       ELSE IF Chained(timers, k + 1)
                            THEN (timers[k].counter + n) \div W9
                            ELSE Ticks9(timers[k + 1], cycles)]]
<1>1. step \in [Nat -> [Nat -> Nat]]
  <2> SUFFICES ASSUME NEW k \in Nat, NEW n \in Nat, k + 1 \in Timers9
               PROVE  /\ Chained(timers, k + 1) => (timers[k].counter + n) \div W9 \in Nat
                      /\ Ticks9(timers[k + 1], cycles) \in Nat
    OBVIOUS
  <2>1. k \in Timers9
    <3>1. (k + 1) - 1 = k /\ k + 1 # 0
      OBVIOUS
    <3> QED BY <3>1, Timer9Is
  <2>2. timers[k].counter + n \in Nat /\ W9 \in Nat \ {0}
    BY <2>1, Timer9Is
  <2>3. \A c \in Nat, w \in Nat \ {0} : c \div w \in Nat
    BY DivMod
  <2> QED BY <2>2, <2>3, Ticks9Type
<1>2. zero \in Nat
  BY Ticks9Type
<1>3. PICK f \in [Nat -> Nat] : Iterates(f, zero, step)
  <2> HIDE DEF step, zero
  <2> QED BY <1>1, <1>2, Recursion
<1> DEFINE g == [i \in Timers9 |-> f[i]]
<1>4. \A i \in Timers9 : i \in Nat /\ g[i] = Value(g, i)
  <2> TAKE i \in Timers9
  <2>1. i \in Nat
    BY TimersAssumption
  <2>2. CASE i = 0
    <3>1. f[0] = zero
      BY <1>3 DEF Iterates
    <3> QED BY <2>2, <3>1
  <2>3. CASE i # 0
    <3>1. i - 1 \in Nat /\ (i - 1) + 1 = i /\ i - 1 \in Timers9
      BY <2>1, <2>3, Timer9Is
    <3>2. f[(i - 1) + 1] = step[i - 1][f[i - 1]]
      <4> HIDE DEF step, zero
      <4> QED BY <1>3, <3>1 DEF Iterates
    <3>3. step[i - 1][f[i - 1]] = IF Chained(timers, i)
                                  THEN (timers[i - 1].counter + f[i - 1]) \div W9
                                  ELSE Ticks9(timers[i], cycles)
      BY <3>1
    <3>4. g[i] = f[i] /\ g[i - 1] = f[i - 1]
      BY <3>1
    <3> HIDE DEF g, step
    <3> QED BY <2>3, <3>1, <3>2, <3>3, <3>4 DEF Chained
  <2> QED BY <2>1, <2>2, <2>3
<1>5. Is(g)
  <2> HIDE DEF Value
  <2>1. \A i \in Timers9 : g[i] = Value(g, i)
    BY <1>4
  <2>2. g = [i \in Timers9 |-> g[i]]
    OBVIOUS
  <2> HIDE DEF g
  <2> QED BY <2>1, <2>2
<1>6. Is(steps)
  <2> HIDE DEF Is
  <2> QED BY <1>5
<1>7. Steps9(timers, cycles) = steps
  BY DEF Steps9
<1> HIDE DEF steps
<1>8. /\ steps = [i \in Timers9 |-> steps[i]]
      /\ \A i \in Timers9 : ~Chained(timers, i) => steps[i] = Ticks9(timers[i], cycles)
      /\ \A i \in Timers9 : Chained(timers, i) =>
              steps[i] = (timers[i - 1].counter + steps[i - 1]) \div W9
  BY <1>6 DEF Chained
<1> DEFINE Typed == {n \in Nat : n \in Timers9 => steps[n] \in Nat}
<1>9. 0 \in Typed
  BY <1>8, Ticks9Type DEF Chained
<1>10. ASSUME NEW n \in Nat, n \in Typed
       PROVE  n + 1 \in Typed
  <2> SUFFICES ASSUME n + 1 \in Timers9 PROVE steps[n + 1] \in Nat
    OBVIOUS
  <2>1. (n + 1) - 1 = n /\ n \in Timers9
    <3>1. (n + 1) - 1 = n /\ n + 1 # 0
      OBVIOUS
    <3> QED BY <3>1, Timer9Is
  <2>2. timers[n].counter + steps[n] \in Nat /\ W9 \in Nat \ {0}
    BY <1>10, <2>1, Timer9Is
  <2>3. \A c \in Nat, w \in Nat \ {0} : c \div w \in Nat
    BY DivMod
  <2> QED BY <1>8, <2>1, <2>2, <2>3, Ticks9Type
<1>11. Nat \subseteq Typed
  <2> HIDE DEF Typed
  <2> QED BY <1>9, <1>10, Induction
<1>12. \A i \in Timers9 : steps[i] \in Nat
  BY <1>11, TimersAssumption
<1> QED BY <1>7, <1>8, <1>12

(* A run changes the counters and the clocks only. *)
LEMMA Run9Is ==
    ASSUME NEW timers, Runnable9(timers), NEW cycles \in Nat
    PROVE  /\ Runnable9(Run9(timers, cycles))
           /\ \A i \in Timers9 :
                  LET t == timers[i]
                      u == Run9(timers, cycles)[i]
                  IN  /\ u.prescalar = t.prescalar /\ u.countup = t.countup
                      /\ u.overflow_irq = t.overflow_irq /\ u.enabled = t.enabled
                      /\ u.counter = (t.counter + Steps9(timers, cycles)[i]) % W9
                      /\ u.clocks = IF t.enabled /\ ~t.countup
                                    THEN (t.clocks + cycles) % t.prescalar ELSE t.clocks
<1> DEFINE after == Run9(timers, cycles)
<1>1. ASSUME NEW i \in Timers9
      PROVE  LET t == timers[i]
                 u == after[i]
                 counter == (t.counter + Steps9(timers, cycles)[i]) % W9
                 clocks == IF t.enabled /\ ~t.countup
                           THEN (t.clocks + cycles) % t.prescalar ELSE t.clocks
             IN  /\ u \in Timer9
                 /\ u.prescalar = t.prescalar /\ u.countup = t.countup
                 /\ u.overflow_irq = t.overflow_irq /\ u.enabled = t.enabled
                 /\ u.counter = counter /\ u.clocks = clocks
  <2> DEFINE t == timers[i]
             counter == (t.counter + Steps9(timers, cycles)[i]) % W9
             clocks == IF t.enabled /\ ~t.countup
                       THEN (t.clocks + cycles) % t.prescalar ELSE t.clocks
  <2>1. t \in Timer9
    BY Timer9Is
  <2>2. counter \in 0..(W9 - 1)
    <3>1. Steps9(timers, cycles)[i] \in Nat
      BY Steps9Is
    <3>2. t.counter + Steps9(timers, cycles)[i] \in Nat /\ W9 \in Nat \ {0}
      BY <3>1, Timer9Is
    <3>3. \A c \in Nat, w \in Nat \ {0} : c % w \in 0..(w - 1)
      BY DivMod
    <3> QED BY <3>2, <3>3
  <2>3. clocks \in Nat
    <3>1. \A c \in Nat, p \in Nat \ {0} : c % p \in Nat
      OBVIOUS
    <3>2. t.clocks + cycles \in Nat
      BY Timer9Is
    <3> QED BY <3>1, <3>2, Timer9Is
  <2>4. after[i] = [t EXCEPT !.counter = counter, !.clocks = clocks]
    BY DEF Run9
  <2> HIDE DEF counter, clocks, t, after
  <2>5. /\ after[i] \in Timer9
        /\ after[i].prescalar = t.prescalar /\ after[i].countup = t.countup
        /\ after[i].overflow_irq = t.overflow_irq /\ after[i].enabled = t.enabled
        /\ after[i].counter = counter /\ after[i].clocks = clocks
    BY <2>1, <2>2, <2>3, <2>4 DEF Timer9
  <2> QED BY <2>5 DEF t, counter, clocks
<1>2. after = [i \in Timers9 |-> after[i]]
  BY DEF Run9
<1> HIDE DEF after
<1>3. after \in [Timers9 -> Timer9]
  BY <1>1, <1>2
<1>4. \A i \in Timers9 : after[i].enabled => after[i].prescalar # 0
  BY <1>1, Timer9Is
<1> QED BY <1>1, <1>3, <1>4 DEF Runnable9, after

(* What a timer counts in two runs it counts in one. *)
LEMMA Steps9Add ==
    ASSUME NEW timers, Runnable9(timers), NEW a \in Nat, NEW b \in Nat
    PROVE  \A i \in Timers9 :
               Steps9(timers, a + b)[i]
                   = Steps9(timers, a)[i] + Steps9(Run9(timers, a), b)[i]
<1> DEFINE after == Run9(timers, a)
           first == Steps9(timers, a)
           second == Steps9(after, b)
           both == Steps9(timers, a + b)
           Adds(i) == both[i] = first[i] + second[i]
           P == {n \in Nat : n \in Timers9 => Adds(n)}
<1>1. Runnable9(after) /\ a + b \in Nat
  BY Run9Is
<1>2. ASSUME NEW i \in Timers9
      PROVE  /\ Chained(after, i) <=> Chained(timers, i)
             /\ after[i].counter = (timers[i].counter + first[i]) % W9
             /\ first[i] \in Nat /\ second[i] \in Nat /\ both[i] \in Nat
  <2>1. /\ after[i].enabled = timers[i].enabled /\ after[i].countup = timers[i].countup
        /\ after[i].counter = (timers[i].counter + first[i]) % W9
    BY Run9Is
  <2>2. first[i] \in Nat
    BY Steps9Is
  <2>3. both[i] \in Nat
    BY <1>1, Steps9Is
  <2> HIDE DEF after
  <2>4. second[i] \in Nat
    BY <1>1, Steps9Is
  <2> QED BY <2>1, <2>2, <2>3, <2>4 DEF Chained
<1>3. ASSUME NEW i \in Timers9, ~Chained(timers, i)
      PROVE  Adds(i)
  <2> DEFINE t == timers[i]
             u == after[i]
  <2>1. /\ both[i] = Ticks9(t, a + b) /\ first[i] = Ticks9(t, a)
        /\ second[i] = Ticks9(u, b)
    <3>1. both[i] = Ticks9(t, a + b)
      BY <1>1, <1>3, Steps9Is
    <3>2. first[i] = Ticks9(t, a)
      BY <1>3, Steps9Is
    <3>3. ~Chained(after, i)
      BY <1>2, <1>3
    <3> HIDE DEF after
    <3>4. second[i] = Ticks9(u, b)
      BY <1>1, <3>3, Steps9Is
    <3> QED BY <3>1, <3>2, <3>4
  <2>2. /\ u.prescalar = t.prescalar /\ u.countup = t.countup /\ u.enabled = t.enabled
        /\ u.clocks = IF t.enabled /\ ~t.countup
                      THEN (t.clocks + a) % t.prescalar ELSE t.clocks
    BY Run9Is
  <2>3. CASE t.enabled /\ ~t.countup
    <3> DEFINE c == t.clocks + a
    <3>1. c \in Nat /\ t.prescalar \in Nat \ {0} /\ t.clocks + (a + b) = c + b
      BY <2>3, Timer9Is
    <3> HIDE DEF c
    <3>2. (c + b) \div t.prescalar
              = c \div t.prescalar + ((c % t.prescalar) + b) \div t.prescalar
      BY <3>1, DivSplit
    <3>3. /\ Ticks9(t, a + b) = (c + b) \div t.prescalar
          /\ Ticks9(t, a) = c \div t.prescalar
          /\ Ticks9(u, b) = ((c % t.prescalar) + b) \div t.prescalar
      BY <2>2, <2>3, <3>1 DEF Ticks9, c
    <3> QED BY <2>1, <3>2, <3>3
  <2>4. CASE ~(t.enabled /\ ~t.countup)
    <3>1. Ticks9(t, a + b) = 0 /\ Ticks9(t, a) = 0 /\ Ticks9(u, b) = 0
      BY <2>2, <2>4 DEF Ticks9
    <3> QED BY <2>1, <3>1
  <2> QED BY <2>3, <2>4
<1>4. ASSUME NEW i \in Timers9, Chained(timers, i), Adds(i - 1)
      PROVE  Adds(i)
  <2> DEFINE j == i - 1
             c == timers[j].counter + first[j]
  <2>1. j \in Timers9 /\ W9 \in Nat \ {0}
    BY <1>4, Timer9Is DEF Chained
  <2> HIDE DEF j
  <2>2. timers[j].counter \in Nat
    BY <2>1, Timer9Is
  <2>3. /\ first[j] \in Nat /\ second[j] \in Nat /\ both[j] = first[j] + second[j]
        /\ after[j].counter = c % W9
    BY <1>2, <1>4, <2>1 DEF j
  <2>4. both[i] = (timers[j].counter + both[j]) \div W9
    BY <1>1, <1>4, Steps9Is DEF j
  <2>5. first[i] = c \div W9
    BY <1>4, Steps9Is DEF j
  <2>6. second[i] = ((c % W9) + second[j]) \div W9
    <3>1. Chained(after, i)
      BY <1>2, <1>4
    <3> HIDE DEF after
    <3>2. second[i] = (after[j].counter + second[j]) \div W9
      BY <1>1, <3>1, Steps9Is DEF j
    <3> QED BY <2>3, <3>2
  <2>7. c \in Nat /\ timers[j].counter + both[j] = c + second[j]
    BY <2>2, <2>3
  <2> HIDE DEF c, both, first, second
  <2>8. (c + second[j]) \div W9 = c \div W9 + ((c % W9) + second[j]) \div W9
    BY <2>1, <2>3, <2>7, DivSplit
  <2> QED BY <2>4, <2>5, <2>6, <2>7, <2>8
<1>5. 0 \in P
  BY <1>3 DEF Chained
<1>6. ASSUME NEW n \in Nat, n \in P
      PROVE  n + 1 \in P
  <2> SUFFICES ASSUME n + 1 \in Timers9 PROVE Adds(n + 1)
    OBVIOUS
  <2>1. (n + 1) - 1 = n /\ n \in Timers9
    <3>1. (n + 1) - 1 = n /\ n + 1 # 0
      OBVIOUS
    <3> QED BY <3>1, Timer9Is
  <2> HIDE DEF Adds
  <2> QED BY <1>3, <1>4, <1>6, <2>1
<1>7. Nat \subseteq P
  <2> HIDE DEF P
  <2> QED BY <1>5, <1>6, Induction
<1>8. \A i \in Timers9 : Adds(i)
  BY <1>7, TimersAssumption
<1> QED BY <1>8

(* Two runs are one, and interrupt as one. *)
LEMMA Run9Adds ==
    ASSUME NEW timers, Runnable9(timers), NEW a \in Nat, NEW b \in Nat
    PROVE  /\ Run9(Run9(timers, a), b) = Run9(timers, a + b)
           /\ Fired9(timers, a) \union Fired9(Run9(timers, a), b) = Fired9(timers, a + b)
<1> DEFINE after == Run9(timers, a)
           twice == Run9(after, b)
           once == Run9(timers, a + b)
           first == Steps9(timers, a)
           second == Steps9(after, b)
           both == Steps9(timers, a + b)
<1>1. Runnable9(after) /\ a + b \in Nat
  BY Run9Is
<1>2. Runnable9(twice) /\ Runnable9(once)
  <2>1. Runnable9(once)
    BY <1>1, Run9Is
  <2> HIDE DEF after
  <2>2. Runnable9(twice)
    BY <1>1, Run9Is
  <2> QED BY <2>1, <2>2
<1>3. ASSUME NEW i \in Timers9
      PROVE  /\ both[i] = first[i] + second[i] /\ first[i] \in Nat /\ second[i] \in Nat
             /\ timers[i].counter \in Nat /\ timers[i].counter < W9 /\ W9 \in Nat \ {0}
             /\ after[i].counter = (timers[i].counter + first[i]) % W9
             /\ after[i].overflow_irq = timers[i].overflow_irq
  <2>1. both[i] = first[i] + second[i]
    BY Steps9Add
  <2>2. first[i] \in Nat /\ after[i].counter = (timers[i].counter + first[i]) % W9
        /\ after[i].overflow_irq = timers[i].overflow_irq
    BY Steps9Is, Run9Is
  <2> HIDE DEF after
  <2>3. second[i] \in Nat
    BY <1>1, Steps9Is
  <2> QED BY <2>1, <2>2, <2>3, Timer9Is
<1>4. ASSUME NEW i \in Timers9
      PROVE  twice[i] = once[i]
  <2> DEFINE t == timers[i]
             u == after[i]
             v == twice[i]
             w == once[i]
             c == t.counter + first[i]
  <2>1. /\ u.prescalar = t.prescalar /\ u.countup = t.countup
        /\ u.overflow_irq = t.overflow_irq /\ u.enabled = t.enabled
        /\ u.counter = c % W9
        /\ u.clocks = IF t.enabled /\ ~t.countup
                      THEN (t.clocks + a) % t.prescalar ELSE t.clocks
    BY Run9Is
  <2>2. /\ w.prescalar = t.prescalar /\ w.countup = t.countup
        /\ w.overflow_irq = t.overflow_irq /\ w.enabled = t.enabled
        /\ w.counter = (t.counter + both[i]) % W9
        /\ w.clocks = IF t.enabled /\ ~t.countup
                      THEN (t.clocks + (a + b)) % t.prescalar ELSE t.clocks
    BY <1>1, Run9Is
  <2>3. /\ v.prescalar = u.prescalar /\ v.countup = u.countup
        /\ v.overflow_irq = u.overflow_irq /\ v.enabled = u.enabled
        /\ v.counter = (u.counter + second[i]) % W9
        /\ v.clocks = IF u.enabled /\ ~u.countup
                      THEN (u.clocks + b) % u.prescalar ELSE u.clocks
    <3> HIDE DEF after
    <3> QED BY <1>1, Run9Is
  <2>4. v.counter = w.counter
    <3>1. c \in Nat /\ t.counter + both[i] = c + second[i]
      BY <1>3
    <3> HIDE DEF c, second, both
    <3>2. (c + second[i]) % W9 = ((c % W9) + second[i]) % W9
      BY <1>3, <3>1, DivSplit
    <3> QED BY <2>1, <2>2, <2>3, <3>1, <3>2
  <2>5. v.clocks = w.clocks
    <3>1. CASE t.enabled /\ ~t.countup
      <4> DEFINE k == t.clocks + a
      <4>1. k \in Nat /\ t.prescalar \in Nat \ {0} /\ t.clocks + (a + b) = k + b
        BY <3>1, Timer9Is
      <4> HIDE DEF k
      <4>2. (k + b) % t.prescalar = ((k % t.prescalar) + b) % t.prescalar
        BY <4>1, DivSplit
      <4>3. /\ w.clocks = (k + b) % t.prescalar
            /\ v.clocks = ((k % t.prescalar) + b) % t.prescalar
        <5> HIDE DEF t, u, v, w
        <5>1. w.clocks = (k + b) % t.prescalar
          BY <2>2, <3>1, <4>1
        <5>2. u.clocks = k % t.prescalar
          BY <2>1, <3>1 DEF k
        <5> QED BY <2>1, <2>3, <3>1, <5>1, <5>2
      <4> QED BY <4>2, <4>3
    <3>2. CASE ~(t.enabled /\ ~t.countup)
      BY <2>1, <2>2, <2>3, <3>2
    <3> QED BY <3>1, <3>2
  <2>6. v \in Timer9 /\ w \in Timer9
    BY <1>2 DEF Runnable9
  <2> HIDE DEF t, u, v, w
  <2>7. v = w
    BY <2>1, <2>2, <2>3, <2>4, <2>5, <2>6 DEF Timer9
  <2> QED BY <2>7 DEF v, w
<1>5. twice = once
  <2>1. twice = [i \in Timers9 |-> twice[i]] /\ once = [i \in Timers9 |-> once[i]]
    BY DEF Run9
  <2> HIDE DEF twice, once
  <2> QED BY <1>4, <2>1
<1>6. ASSUME NEW i \in Timers9
      PROVE  timers[i].counter + both[i] >= W9
                 <=> \/ timers[i].counter + first[i] >= W9
                     \/ after[i].counter + second[i] >= W9
  <2> DEFINE c == timers[i].counter + first[i]
  <2>1. c \in Nat /\ timers[i].counter + both[i] = c + second[i] /\ W9 \in Nat \ {0}
        /\ after[i].counter = c % W9 /\ second[i] \in Nat
    BY <1>3
  <2> HIDE DEF c, after, both, second
  <2>2. CASE c >= W9
    BY <2>1, <2>2 DEF c
  <2>3. CASE c < W9
    <3>1. c % W9 = c
      BY <2>1, <2>3
    <3> QED BY <2>1, <2>3, <3>1 DEF c
  <2> QED BY <2>1, <2>2, <2>3
<1>7. Fired9(timers, a) \union Fired9(after, b) = Fired9(timers, a + b)
  <2> HIDE DEF after
  <2> QED BY <1>3, <1>6 DEF Fired9
<1> QED BY <1>5, <1>7

-----------------------------------------------------------------------------
(* A chain.  Its wide counter is the sum of its counters, each by the       *)
(* weight of its place.                                                     *)

LEMMA WeightIs ==
    /\ Weight(0) = 1
    /\ \A n \in Nat : Weight(n) \in Nat \ {0} /\ Weight(n + 1) = W9 * Weight(n)
<1> DEFINE Is(r) == r = [i \in Nat |-> IF i = 0 THEN 1 ELSE W9 * r[i - 1]]
           weight == CHOOSE r : Is(r)
           step == [k \in Nat |-> [x \in Nat |-> W9 * x]]
<1>1. step \in [Nat -> [Nat -> Nat]] /\ W9 \in Nat \ {0}
  BY TimersAssumption
<1>2. PICK f \in [Nat -> Nat] : Iterates(f, 1, step)
  <2> HIDE DEF step
  <2> QED BY <1>1, Recursion
<1>3. Is(f)
  <2>1. \A k \in Nat : step[k][f[k]] = W9 * f[k]
    OBVIOUS
  <2> HIDE DEF step
  <2>2. \A k \in Nat : f[k] = IF k = 0 THEN 1 ELSE W9 * f[k - 1]
    BY <1>2, <2>1 DEF Iterates
  <2>3. f = [k \in Nat |-> f[k]]
    OBVIOUS
  <2> QED BY <2>2, <2>3
<1>4. Is(weight)
  <2> HIDE DEF Is
  <2> QED BY <1>3
<1>5. \A n \in Nat : Weight(n) = weight[n]
  BY DEF Weight
<1> HIDE DEF weight
<1>6. weight[0] = 1 /\ \A n \in Nat : weight[n + 1] = W9 * weight[n]
  <2>1. \A n \in Nat : weight[n] = IF n = 0 THEN 1 ELSE W9 * weight[n - 1]
    BY <1>4
  <2>2. \A n \in Nat : n + 1 \in Nat /\ n + 1 # 0 /\ (n + 1) - 1 = n
    OBVIOUS
  <2>3. \A n \in Nat : weight[n + 1] = W9 * weight[n]
    BY <2>1, <2>2
  <2>4. weight[0] = 1
    BY <2>1
  <2> QED BY <2>3, <2>4
<1> DEFINE P == {n \in Nat : weight[n] \in Nat \ {0}}
<1>7. 0 \in P
  BY <1>6
<1>8. ASSUME NEW n \in Nat, n \in P
      PROVE  n + 1 \in P
  <2>1. \A x, y \in Nat \ {0} : x * y \in Nat \ {0}
    OBVIOUS
  <2> QED BY <1>1, <1>6, <1>8, <2>1
<1>9. Nat \subseteq P
  <2> HIDE DEF P
  <2> QED BY <1>7, <1>8, Induction
<1> QED BY <1>5, <1>6, <1>9

(* The equations that define Wide. *)
LEMMA WideIs ==
    ASSUME NEW timers, Runnable9(timers)
    PROVE  /\ \A i \in Timers9 : Wide(timers, i) \in Nat
           /\ 0 \in Timers9 => Wide(timers, 0) = timers[0].counter
           /\ \A i \in Nat : i + 1 \in Timers9 =>
                  Wide(timers, i + 1)
                      = Wide(timers, i) + timers[i + 1].counter * Weight(i + 1)
<1> DEFINE Value(r, i) == IF i = 0 THEN timers[0].counter
                          ELSE r[i - 1] + timers[i].counter * Weight(i)
           Is(r) == r = [i \in Timers9 |-> Value(r, i)]
           wide == CHOOSE r : Is(r)
           zero == IF 0 \in Timers9 THEN timers[0].counter ELSE 0
           step == [k \in Nat |-> [x \in Nat |->
                       IF k + 1 \notin Timers9 THEN 0
                       ELSE x + timers[k + 1].counter * Weight(k + 1)]]
<1>1. \A i \in Timers9 : i \in Nat /\ timers[i].counter * Weight(i) \in Nat
  <2> TAKE i \in Timers9
  <2>1. i \in Nat /\ timers[i].counter \in Nat /\ Weight(i) \in Nat
    BY Timer9Is, WeightIs
  <2>2. \A x, y \in Nat : x * y \in Nat
    OBVIOUS
  <2> QED BY <2>1, <2>2
<1>2. step \in [Nat -> [Nat -> Nat]] /\ zero \in Nat
  BY <1>1, Timer9Is
<1>3. PICK f \in [Nat -> Nat] : Iterates(f, zero, step)
  <2> HIDE DEF step, zero
  <2> QED BY <1>2, Recursion
<1> DEFINE g == [i \in Timers9 |-> f[i]]
<1>4. \A i \in Timers9 : g[i] = Value(g, i)
  <2> TAKE i \in Timers9
  <2>1. CASE i = 0
    <3>1. f[0] = zero
      BY <1>3 DEF Iterates
    <3> QED BY <2>1, <3>1
  <2>2. CASE i # 0
    <3>1. i - 1 \in Nat /\ (i - 1) + 1 = i /\ i - 1 \in Timers9
      BY <1>1, <2>2, Timer9Is
    <3>2. f[(i - 1) + 1] = step[i - 1][f[i - 1]]
      <4> HIDE DEF step, zero
      <4> QED BY <1>3, <3>1 DEF Iterates
    <3>3. step[i - 1][f[i - 1]] = f[i - 1] + timers[i].counter * Weight(i)
      BY <3>1
    <3>4. g[i] = f[i] /\ g[i - 1] = f[i - 1]
      BY <3>1
    <3> HIDE DEF g, step
    <3> QED BY <2>2, <3>1, <3>2, <3>3, <3>4
  <2> QED BY <2>1, <2>2
<1>5. Is(g)
  <2> HIDE DEF Value
  <2>1. g = [i \in Timers9 |-> g[i]]
    OBVIOUS
  <2> HIDE DEF g
  <2> QED BY <1>4, <2>1
<1>6. Is(wide)
  <2> HIDE DEF Is
  <2> QED BY <1>5
<1>7. \A i : Wide(timers, i) = wide[i]
  BY DEF Wide
<1> HIDE DEF wide
<1>8. /\ 0 \in Timers9 => wide[0] = timers[0].counter
      /\ \A i \in Nat : i + 1 \in Timers9 =>
             wide[i + 1] = wide[i] + timers[i + 1].counter * Weight(i + 1)
  <2>1. \A i \in Timers9 : wide[i] = Value(wide, i)
    BY <1>6
  <2>2. \A i \in Nat : (i + 1) - 1 = i /\ i + 1 # 0
    OBVIOUS
  <2> QED BY <2>1, <2>2
<1> DEFINE P == {n \in Nat : n \in Timers9 => wide[n] \in Nat}
<1>9. 0 \in P
  BY <1>8, Timer9Is
<1>10. ASSUME NEW n \in Nat, n \in P
       PROVE  n + 1 \in P
  <2> SUFFICES ASSUME n + 1 \in Timers9 PROVE wide[n + 1] \in Nat
    OBVIOUS
  <2>1. n \in Timers9
    <3>1. (n + 1) - 1 = n /\ n + 1 # 0
      OBVIOUS
    <3> QED BY <3>1, Timer9Is
  <2> QED BY <1>1, <1>8, <1>10, <2>1
<1>11. Nat \subseteq P
  <2> HIDE DEF P
  <2> QED BY <1>9, <1>10, Induction
<1> QED BY <1>1, <1>7, <1>8, <1>11

(* The overflows of a timer. *)
Carry(timers, cycles, i) == (timers[i].counter + Steps9(timers, cycles)[i]) \div W9

(* The wide counter with its ticks is the one after them with its overflow. *)
LEMMA ChainCarries ==
    ASSUME NEW timers, Runnable9(timers), NEW cycles \in Nat, NEW n \in Timers9,
           \A i \in 1..n : Chained(timers, i)
    PROVE  /\ Wide(timers, n) + Ticks9(timers[0], cycles)
                  = Weight(n + 1) * Carry(timers, cycles, n)
                        + Wide(Run9(timers, cycles), n)
           /\ Wide(Run9(timers, cycles), n) < Weight(n + 1)
           /\ Carry(timers, cycles, n) \in Nat
<1> DEFINE after == Run9(timers, cycles)
           steps == Steps9(timers, cycles)
           ticks == Ticks9(timers[0], cycles)
           carry(i) == Carry(timers, cycles, i)
           Carries(i) == /\ Wide(timers, i) + ticks
                                = Weight(i + 1) * carry(i) + Wide(after, i)
                         /\ Wide(after, i) < Weight(i + 1)
                         /\ carry(i) \in Nat
           P == {k \in Nat : k <= n => Carries(k)}
<1>1. Runnable9(after)
  BY Run9Is
<1>2. ASSUME NEW i \in Timers9
      PROVE  /\ carry(i) \in Nat /\ after[i].counter \in Nat /\ after[i].counter < W9
             /\ timers[i].counter \in Nat /\ steps[i] \in Nat /\ W9 \in Nat \ {0}
             /\ timers[i].counter + steps[i] = W9 * carry(i) + after[i].counter
  <2> DEFINE c == timers[i].counter + steps[i]
  <2>1. /\ timers[i].counter \in Nat /\ steps[i] \in Nat /\ W9 \in Nat \ {0}
        /\ after[i].counter = c % W9 /\ carry(i) = c \div W9
    <3>1. steps[i] \in Nat
      BY Steps9Is
    <3>2. after[i].counter = c % W9
      BY Run9Is
    <3> QED BY <3>1, <3>2, Timer9Is DEF Carry
  <2>2. c \in Nat
    BY <2>1
  <2> HIDE DEF c, after, steps, carry
  <2>3. c \div W9 \in Nat /\ c % W9 \in 0..(W9 - 1) /\ c = W9 * (c \div W9) + (c % W9)
    BY <2>1, <2>2, DivMod
  <2> QED BY <2>1, <2>3 DEF c
<1>3. n \in Nat /\ 0 \in Timers9 /\ \A k \in 0..n : k \in Timers9
  BY TimersAssumption
<1>4. 0 \in P
  <2> SUFFICES Carries(0)
    OBVIOUS
  <2>1. 0 \in Timers9
    BY <1>3
  <2>2. Wide(timers, 0) = timers[0].counter
    BY <2>1, WideIs
  <2>3. Wide(after, 0) = after[0].counter
    <3> HIDE DEF after
    <3> QED BY <1>1, <2>1, WideIs
  <2>4. steps[0] = ticks
    <3>1. ~Chained(timers, 0)
      BY DEF Chained
    <3> QED BY <2>1, <3>1, Steps9Is
  <2>5. Weight(0 + 1) = W9
    <3>1. Weight(0 + 1) = W9 * Weight(0) /\ Weight(0) = 1 /\ W9 \in Nat
      BY WeightIs, TimersAssumption
    <3> QED BY <3>1
  <2> HIDE DEF after, steps, ticks, carry
  <2> QED BY <1>2, <2>1, <2>2, <2>3, <2>4, <2>5
<1>5. ASSUME NEW k \in Nat, k \in P, k + 1 <= n
      PROVE  Carries(k + 1)
  <2> DEFINE m == k + 1
             weight == Weight(m)
             c == timers[m].counter
             d == after[m].counter
  <2>1. m \in Timers9 /\ k \in Timers9 /\ k <= n /\ m \in Nat /\ m - 1 = k
    BY <1>3, <1>5
  <2>2. Carries(k)
    BY <1>5, <2>1
  <2>3. Wide(timers, m) = Wide(timers, k) + c * weight /\ Wide(timers, k) \in Nat
    BY <2>1, WideIs
  <2>4. Wide(after, m) = Wide(after, k) + d * weight /\ Wide(after, k) \in Nat
    <3> HIDE DEF after
    <3> QED BY <1>1, <2>1, WideIs
  <2>5. weight \in Nat \ {0} /\ Weight(m + 1) = W9 * weight
    BY <2>1, WeightIs
  <2>6. steps[m] = carry(k)
    <3>1. Chained(timers, m)
      BY <1>5
    <3>2. steps[m] = (timers[m - 1].counter + steps[m - 1]) \div W9
      BY <2>1, <3>1, Steps9Is
    <3> QED BY <2>1, <3>2 DEF Carry
  <2>7. /\ carry(m) \in Nat /\ d \in Nat /\ d < W9 /\ c \in Nat /\ W9 \in Nat \ {0}
        /\ c + carry(k) = W9 * carry(m) + d
    BY <1>2, <2>1, <2>6
  <2>8. ticks \in Nat
    BY <1>3, <1>5, Ticks9Type
  <2>9. Wide(after, k) < weight /\ carry(k) \in Nat
        /\ Wide(timers, k) + ticks = weight * carry(k) + Wide(after, k)
    BY <2>2
  <2> DEFINE x == carry(k)
             y == carry(m)
             u == Wide(timers, k)
             v == Wide(after, k)
  <2> HIDE DEF m, weight, c, d, x, y, u, v, after, steps, ticks
  <2>10. \A p, q, r \in Nat : /\ p * (q + r) = p * q + p * r /\ q * p = p * q
                              /\ p * (q * r) = (q * p) * r /\ p * q \in Nat
    OBVIOUS
  <2>11. (u + c * weight) + ticks = (W9 * weight) * y + (v + d * weight)
    <3>1. weight * (c + x) = weight * (W9 * y + d)
      BY <2>7 DEF x, y
    <3>2. W9 * y \in Nat /\ x \in Nat /\ y \in Nat /\ u \in Nat /\ v \in Nat
      BY <2>3, <2>4, <2>7, <2>9, <2>10 DEF x, y, u, v
    <3>3. weight * (c + x) = c * weight + weight * x
      BY <2>5, <2>7, <2>10, <3>2
    <3>4. weight * (W9 * y + d) = (W9 * weight) * y + d * weight
      <4>1. weight * (W9 * y + d) = weight * (W9 * y) + weight * d
        BY <2>5, <2>7, <2>10, <3>2
      <4>2. weight * (W9 * y) = (W9 * weight) * y /\ weight * d = d * weight
        BY <2>5, <2>7, <2>10, <3>2
      <4> QED BY <4>1, <4>2
    <3>5. u + ticks = weight * x + v
      BY <2>9 DEF x, u, v
    <3> DEFINE A == c * weight
               B == weight * x
               C == (W9 * weight) * y
               D == d * weight
    <3>6. A \in Nat /\ B \in Nat /\ D \in Nat /\ C \in Nat
      BY <2>5, <2>7, <2>10, <3>2
    <3>7. A + B = C + D /\ u + ticks = B + v
      BY <3>1, <3>3, <3>4, <3>5
    <3> HIDE DEF A, B, C, D
    <3>8. (u + A) + ticks = C + (v + D)
      BY <2>8, <3>2, <3>6, <3>7
    <3> QED BY <3>8 DEF A, C, D
  <2>12. v + d * weight < W9 * weight
    <3>1. d + 1 <= W9 /\ d + 1 \in Nat
      BY <2>7
    <3>2. weight * (d + 1) <= weight * W9
      <4>1. \A p, q, r \in Nat : q <= r => p * q <= p * r
        OBVIOUS
      <4> QED BY <2>5, <2>7, <3>1, <4>1
    <3>3. weight * (d + 1) = d * weight + weight /\ weight * W9 = W9 * weight
          /\ d * weight \in Nat /\ W9 * weight \in Nat
      <4>1. weight * (d + 1) = weight * d + weight * 1 /\ weight * 1 = weight
        BY <2>5, <2>7, <2>10
      <4> QED BY <2>5, <2>7, <2>10, <4>1
    <3>4. v \in Nat /\ v < weight /\ weight \in Nat
      BY <2>4, <2>5, <2>9 DEF v
    <3> DEFINE D == d * weight
               W == W9 * weight
    <3> HIDE DEF D, W
    <3>5. D + weight <= W /\ D \in Nat /\ W \in Nat
      BY <3>2, <3>3 DEF D, W
    <3>6. v + D < W
      BY <3>4, <3>5
    <3> QED BY <3>6 DEF D, W
  <2>13. /\ Wide(timers, m) + ticks = Weight(m + 1) * carry(m) + Wide(after, m)
         /\ Wide(after, m) < Weight(m + 1)
         /\ carry(m) \in Nat
    BY <2>3, <2>4, <2>5, <2>7, <2>11, <2>12 DEF u, v, y
  <2> QED BY <2>13 DEF m
<1>6. Nat \subseteq P
  <2>1. ASSUME NEW k \in Nat, k \in P
        PROVE  k + 1 \in P
    <3> HIDE DEF Carries
    <3> QED BY <1>5, <2>1
  <2> HIDE DEF P
  <2> QED BY <1>4, <2>1, Induction
<1> QED BY <1>3, <1>6

-----------------------------------------------------------------------------
(* The timers, as the program and the runs leave them. *)

LEMMA TimersRunnable ==
    ASSUME TypeOK
    PROVE  Runnable9(arm9_timers) /\ \A i \in Timers11 : Runnable11(arm11_timers[i])
BY DEF TypeOK, Runnable9, Runnable11

LEMMA ResetTypes ==
    /\ Reset9 \in Timer9 /\ ~Reset9.enabled
    /\ Reset11 \in Timer11 /\ ~Reset11.enabled
<1>1. 0 \in 0..(W9 - 1) /\ 0 \in 0..(W11 - 1)
  BY TimersAssumption
<1> QED BY <1>1 DEF Reset9, Reset11, Timer9, Timer11

LEMMA InitTypes == Init => TypeOK
BY ResetTypes DEF Init, TypeOK

LEMMA NextTypes == TypeOK /\ [Next]_vars => TypeOK'
<1> SUFFICES ASSUME TypeOK, [Next]_vars PROVE TypeOK'
  OBVIOUS
<1>1. ASSUME NEW cycles11 \in Slices, NEW cycles9 \in Slices, run(cycles11, cycles9)
      PROVE  TypeOK'
  <2>1. cycles9 \in Nat /\ cycles11 \in Nat
    BY TimersAssumption
  <2>2. Runnable9(arm9_timers')
    BY <1>1, <2>1, TimersRunnable, Run9Is DEF run
  <2>3. \A i \in Timers11 : Runnable11(Run11(arm11_timers[i], cycles11))
    BY <2>1, TimersRunnable, Run11Type
  <2>4. arm11_timers' = [i \in Timers11 |-> Run11(arm11_timers[i], cycles11)]
        /\ fired9' \subseteq Timers9 /\ fired11' \subseteq Timers11
    BY <1>1 DEF run, Fired9, Fired11
  <2> QED BY <2>2, <2>3, <2>4 DEF TypeOK, Runnable9, Runnable11
<1>2. ASSUME NEW i \in Timers9, NEW value \in Counts9, set_counter(i, value)
      PROVE  TypeOK'
  <2>1. value \in 0..(W9 - 1)
    BY TimersAssumption
  <2>2. arm9_timers' = [arm9_timers EXCEPT ![i] =
                           [arm9_timers[i] EXCEPT !.counter = value, !.clocks = 0]]
    BY <1>2 DEF set_counter, TypeOK
  <2>3. [arm9_timers[i] EXCEPT !.counter = value, !.clocks = 0] \in Timer9
    BY <2>1 DEF TypeOK, Timer9
  <2>4. /\ [arm9_timers[i] EXCEPT !.counter = value, !.clocks = 0].enabled
                = arm9_timers[i].enabled
        /\ [arm9_timers[i] EXCEPT !.counter = value, !.clocks = 0].prescalar
                = arm9_timers[i].prescalar
    BY DEF TypeOK, Timer9
  <2> QED BY <1>2, <2>2, <2>3, <2>4 DEF set_counter, TypeOK
<1>3. ASSUME NEW i \in Timers9, NEW prescalar \in Prescalars9, NEW countup \in BOOLEAN,
             NEW overflow_irq \in BOOLEAN, NEW enabled \in BOOLEAN,
             set_control(i, prescalar, countup, overflow_irq, enabled)
      PROVE  TypeOK'
  <2> DEFINE timer == [counter |-> arm9_timers[i].counter, clocks |-> 0,
                       prescalar |-> prescalar, countup |-> countup,
                       overflow_irq |-> overflow_irq, enabled |-> enabled]
  <2>1. prescalar \in Nat \ {0}
    BY TimersAssumption
  <2>2. timer \in Timer9 /\ timer.prescalar # 0
    BY <2>1 DEF TypeOK, Timer9
  <2>3. arm9_timers' = [arm9_timers EXCEPT ![i] = timer]
    BY <1>3 DEF set_control, TypeOK
  <2> HIDE DEF timer
  <2> QED BY <1>3, <2>2, <2>3 DEF set_control, TypeOK
<1>4. ASSUME NEW i \in Timers11, NEW timer, Set11(i, timer), Runnable11(timer)
      PROVE  TypeOK'
  BY <1>4 DEF Set11, TypeOK, Runnable11
<1>5. ASSUME NEW i \in Timers11, NEW value \in Counts11,
             arm11_set_load(i, value) \/ arm11_set_counter(i, value)
      PROVE  TypeOK'
  <2>1. value \in 0..(W11 - 1) /\ Runnable11(arm11_timers[i])
    BY TimersAssumption, TimersRunnable
  <2>2. /\ Runnable11([arm11_timers[i] EXCEPT !.load = value, !.counter = value])
        /\ Runnable11([arm11_timers[i] EXCEPT !.counter = value])
    BY <2>1 DEF Runnable11, Timer11
  <2> QED BY <1>4, <1>5, <2>2 DEF arm11_set_load, arm11_set_counter
<1>6. ASSUME NEW i \in Timers11, NEW prescalar \in Prescalars11,
             NEW int_enabled \in BOOLEAN, NEW auto_reload \in BOOLEAN,
             NEW enabled \in BOOLEAN,
             arm11_set_control(i, prescalar, int_enabled, auto_reload, enabled)
      PROVE  TypeOK'
  <2>1. prescalar \in Nat \ {0} /\ Runnable11(arm11_timers[i])
    BY TimersAssumption, TimersRunnable
  <2>2. Runnable11([arm11_timers[i] EXCEPT
                       !.prescalar = prescalar, !.int_enabled = int_enabled,
                       !.auto_reload = auto_reload, !.enabled = enabled])
    BY <2>1 DEF Runnable11, Timer11
  <2> QED BY <1>4, <1>6, <2>2 DEF arm11_set_control
<1>7. ASSUME NEW i \in Timers11, arm11_set_int_status(i)
      PROVE  TypeOK'
  <2>1. Runnable11(arm11_timers[i])
    BY TimersRunnable
  <2>2. Runnable11([arm11_timers[i] EXCEPT !.int_flag = FALSE])
    BY <2>1 DEF Runnable11, Timer11
  <2> QED BY <1>4, <1>7, <2>2 DEF arm11_set_int_status
<1>8. CASE reset
  BY <1>8, ResetTypes DEF reset, TypeOK
<1>9. CASE UNCHANGED vars
  BY <1>9 DEF vars, TypeOK
<1> QED BY <1>1, <1>2, <1>3, <1>5, <1>6, <1>7, <1>8, <1>9 DEF Next

(* The timers keep their types, and one that runs has a divisor: the loops  *)
(* of Timers::run that take its ticks out of its clocks end.                *)
THEOREM TimersTypeOK == Spec => []TypeOK
BY InitTypes, NextTypes, PTL DEF Spec

-----------------------------------------------------------------------------
(* Where the emulator cuts time into slices is invisible to the programs:   *)
(* two runs count and interrupt as one.                                     *)
THEOREM TimersSlicesAreInvisible == Spec => []SlicesAreInvisible
<1>1. TypeOK => SlicesAreInvisible
  <2> SUFFICES ASSUME TypeOK, NEW a \in Slices, NEW b \in Slices
               PROVE  /\ Run9(Run9(arm9_timers, a), b) = Run9(arm9_timers, a + b)
                      /\ Fired9(arm9_timers, a) \union Fired9(Run9(arm9_timers, a), b)
                             = Fired9(arm9_timers, a + b)
                      /\ \A i \in Timers11 :
                             LET t == arm11_timers[i]
                                 once == Run11(t, a + b)
                                 twice == Run11(Run11(t, a), b)
                             IN  /\ [twice EXCEPT !.clocks = once.clocks] = once
                                 /\ once.enabled => twice = once
                                 /\ Fires(t, a + b) = (Fires(t, a) \/ Fires(Run11(t, a), b))
    BY DEF SlicesAreInvisible
  <2>1. a \in Nat /\ b \in Nat /\ a + b \in Nat
    BY TimersAssumption
  <2>2. /\ Run9(Run9(arm9_timers, a), b) = Run9(arm9_timers, a + b)
        /\ Fired9(arm9_timers, a) \union Fired9(Run9(arm9_timers, a), b)
               = Fired9(arm9_timers, a + b)
    BY <2>1, TimersRunnable, Run9Adds
  <2>3. ASSUME NEW i \in Timers11
        PROVE  LET t == arm11_timers[i]
                   once == Run11(t, a + b)
                   twice == Run11(Run11(t, a), b)
               IN  /\ [twice EXCEPT !.clocks = once.clocks] = once
                   /\ once.enabled => twice = once
                   /\ Fires(t, a + b) = (Fires(t, a) \/ Fires(Run11(t, a), b))
    <3> DEFINE t == arm11_timers[i]
               once == Run11(t, a + b)
               twice == Run11(Run11(t, a), b)
    <3>1. Runnable11(t)
      BY TimersRunnable
    <3> HIDE DEF t
    <3>2. Fires(t, a + b) = (Fires(t, a) \/ Fires(Run11(t, a), b))
      BY <2>1, <3>1, FiresAdds
    <3>3. once \in Timer11 /\ once = [once EXCEPT !.clocks = once.clocks]
      <4>1. once \in Timer11
        BY <2>1, <3>1, Run11Type DEF Runnable11
      <4> HIDE DEF once
      <4> QED BY <4>1 DEF Timer11
    <3>4. \/ twice = once
          \/ ~once.enabled /\ [twice EXCEPT !.clocks = once.clocks] = once
      <4> DEFINE first == Run11(t, a)
      <4>1. \/ twice = once
            \/ /\ ~once.enabled /\ twice = first
               /\ [first EXCEPT !.clocks = once.clocks] = once
        BY <2>1, <3>1, Run11Adds
      <4> HIDE DEF first, once, twice
      <4> QED BY <4>1
    <3> HIDE DEF once, twice
    <3>5. [twice EXCEPT !.clocks = once.clocks] = once /\ (once.enabled => twice = once)
      BY <3>3, <3>4
    <3> QED BY <3>2, <3>5 DEF once, twice, t
  <2> QED BY <2>2, <2>3
<1> QED BY <1>1, TimersTypeOK, PTL

(* An ARM11 timer interrupts in the run in which it has ticks enough.       *)
THEOREM TimersFireWhenDue == Spec => []FiresWhenDue
<1>1. TypeOK => FiresWhenDue
  <2> SUFFICES ASSUME TypeOK, NEW i \in Timers11, NEW cycles \in Slices
               PROVE  LET t == arm11_timers[i]
                      IN  Fires(t, cycles) <=>
                              /\ t.enabled
                              /\ (t.clocks + cycles) \div t.prescalar
                                     >= IF t.counter = 0 THEN W11 ELSE t.counter
    BY DEF FiresWhenDue
  <2>1. cycles \in Nat /\ Runnable11(arm11_timers[i])
    BY TimersAssumption, TimersRunnable
  <2>2. Fires(arm11_timers[i], cycles)
            <=> arm11_timers[i].enabled
                /\ Quotient(arm11_timers[i], cycles) >= Due(arm11_timers[i])
    BY <2>1, FiresAtDue
  <2> QED BY <2>2 DEF Quotient, Due
<1> QED BY <1>1, TimersTypeOK, PTL

(* What a core reads of its timer within a slice lies between the counts at *)
(* the two ends of it.                                                      *)
THEOREM TimersReadingsGoDown == Spec => []ReadingsGoDown
<1>1. TypeOK => ReadingsGoDown
  <2> SUFFICES ASSUME TypeOK, NEW i \in Timers11, NEW cycles \in Slices,
                      NEW delta \in 0..cycles,
                      ~Fires(arm11_timers[i], cycles), arm11_timers[i].counter # 0
               PROVE  LET t == arm11_timers[i]
                          reading == arm11_get_counter(t, delta)
                      IN  Run11(t, cycles).counter <= reading /\ reading <= t.counter
    BY DEF ReadingsGoDown
  <2> DEFINE t == arm11_timers[i]
             reading == arm11_get_counter(t, delta)
             n == Quotient(t, cycles)
             m == delta \div t.prescalar
  <2>1. cycles \in Nat /\ Runnable11(t) /\ delta \in Nat /\ delta <= cycles
    BY TimersAssumption, TimersRunnable
  <2>2. /\ t \in Ticking /\ t.counter \in 1..(W11 - 1) /\ Due(t) = t.counter
        /\ t.clocks \in Nat /\ W11 \in Nat \ {0}
    BY <2>1, RunnableTicks, TimersAssumption DEF Due
  <2>3. CASE ~t.enabled
    BY <2>2, <2>3 DEF Run11, arm11_get_counter
  <2>4. CASE t.enabled
    <3>1. t.prescalar \in Nat \ {0} /\ t.clocks + cycles \in Nat /\ delta <= t.clocks + cycles
      BY <2>1, <2>2, <2>4, RunnableTicks
    <3>2. n \in Nat /\ n < t.counter /\ Run11(t, cycles) = Later(Ticked(t, n), cycles, FALSE)
      <4>1. n \in Nat /\ Run11(t, cycles) = Later(Ticked(t, n), cycles, FALSE)
        BY <2>1, <2>4, Run11Ticks
      <4>2. ~(n >= Due(t))
        BY <2>1, <2>4, FiresAtDue
      <4> HIDE DEF n, t
      <4> QED BY <2>2, <4>1, <4>2
    <3>3. m \in Nat /\ m <= n
      <4> DEFINE c == t.clocks + cycles
                 p == t.prescalar
      <4>1. c \in Nat /\ p \in Nat \ {0} /\ delta <= c
        BY <3>1
      <4> HIDE DEF c, p
      <4>2. delta \div p <= c \div p /\ delta \div p \in Nat
        BY <2>1, <4>1, DivMonotone, DivMod
      <4> QED BY <4>2 DEF c, p, Quotient
    <3>4. Run11(t, cycles).counter = t.counter - n
      <4> HIDE DEF n, t
      <4>1. Ticked(t, n) \in Ticking
        BY <2>2, <3>2, TickedIs
      <4>2. Ticked(t, n).counter = IF n = 0 THEN t.counter ELSE Due(t) - n
        BY <2>2, <2>4, <3>2, Countdown
      <4>3. Later(Ticked(t, n), cycles, FALSE).counter = Ticked(t, n).counter
        BY <4>1 DEF Later, Ticking
      <4>4. Run11(t, cycles).counter = IF n = 0 THEN t.counter ELSE t.counter - n
        BY <2>2, <3>2, <4>2, <4>3
      <4>5. t.counter \in Int /\ (n = 0 => t.counter - n = t.counter)
        BY <2>2
      <4> QED BY <4>4, <4>5
    <3>5. reading = t.counter - m
      <4>1. reading = (t.counter - m) % W11
        BY <2>4 DEF arm11_get_counter
      <4> HIDE DEF m, n, t, reading
      <4>2. t.counter - m \in 0..(W11 - 1)
        BY <2>2, <3>2, <3>3
      <4> QED BY <2>2, <4>1, <4>2
    <3> HIDE DEF m, n, t, reading
    <3>6. Run11(t, cycles).counter <= reading /\ reading <= t.counter
      <4> DEFINE c == t.counter
      <4>1. c \in Int /\ Run11(t, cycles).counter = c - n /\ reading = c - m
        BY <2>2, <3>4, <3>5
      <4> HIDE DEF c
      <4>2. c - n <= c - m /\ c - m <= c
        BY <3>2, <3>3, <4>1
      <4> QED BY <4>1, <4>2 DEF c
    <3> QED BY <3>6 DEF reading, t
  <2> QED BY <2>3, <2>4
<1> QED BY <1>1, TimersTypeOK, PTL

(* A chain of ARM9 timers counts as one wide counter. *)
THEOREM TimersChainIsOneCounter == Spec => []ChainIsOneCounter
<1>1. TypeOK => ChainIsOneCounter
  <2> SUFFICES ASSUME TypeOK, NEW cycles \in Slices, NEW n \in Timers9,
                      \A i \in 1..n : Linked(i)
               PROVE  Wide(Run9(arm9_timers, cycles), n)
                          = (Wide(arm9_timers, n) + Ticks9(arm9_timers[0], cycles))
                                % Weight(n + 1)
    BY DEF ChainIsOneCounter
  <2> DEFINE after == Run9(arm9_timers, cycles)
             weight == Weight(n + 1)
             carry == Carry(arm9_timers, cycles, n)
             rest == Wide(after, n)
  <2>1. cycles \in Nat /\ Runnable9(arm9_timers) /\ n \in Nat /\ n + 1 \in Nat
    BY TimersAssumption, TimersRunnable
  <2>2. \A i \in 1..n : Chained(arm9_timers, i)
    BY DEF Linked, Chained
  <2>3. /\ Wide(arm9_timers, n) + Ticks9(arm9_timers[0], cycles) = weight * carry + rest
        /\ rest < weight /\ carry \in Nat
    BY <2>1, <2>2, ChainCarries
  <2>4. rest \in Nat
    <3>1. Runnable9(after)
      BY <2>1, Run9Is
    <3> HIDE DEF after
    <3> QED BY <3>1, WideIs
  <2>5. weight \in Nat \ {0}
    BY <2>1, WeightIs
  <2> HIDE DEF weight, carry, rest
  <2>6. rest \in 0..(weight - 1) /\ carry \in Int
    BY <2>3, <2>4, <2>5
  <2>7. (weight * carry + rest) % weight = rest
    BY <2>5, <2>6, DivUnique
  <2> QED BY <2>3, <2>7 DEF rest, weight
<1> QED BY <1>1, TimersTypeOK, PTL
=============================================================================
