--------------------------- MODULE Monitors_proofs ---------------------------
(***************************************************************************)
(* The monitors of node_client that run one after the other in one thread: *)
(* the CPU usage for floats of any precision, any number of CPUs and any   *)
(* interleaving with the timer; the memory report for any layout of the    *)
(* file; the rates of any disks; and the composition that the runs check.  *)
(* The load and the soft interrupts are in PageMonitors_proofs.            *)
(***************************************************************************)
EXTENDS MCMonitors, PageMonitors_proofs, WellFoundedInduction, SequenceTheorems

-----------------------------------------------------------------------------
(* Least numbers, and induction over a set of numbers. *)

\* A set of natural numbers that is not empty has a least element.
LEMMA LeastNat ==
  ASSUME NEW T, T \subseteq Nat, T # {}
  PROVE  \E x \in T : \A y \in T : x <= y
  <1>1. PICK x \in T : \A y \in T : ~(<<y, x>> \in OpToRel(<, Nat))
    BY WFMin, NatLessThanWellFounded, Zenon
  <1>2. \A y \in T : <<y, x>> \in OpToRel(<, Nat) <=> y < x
    BY Zenon DEF OpToRel
  <1>3. \A y \in T : ~(y < x)
    BY <1>1, <1>2, Zenon
  <1>4. x \in Nat /\ \A y \in T : y \in Nat
    OBVIOUS
  <1>5. \A y \in T : x <= y
    BY <1>3, <1>4
  <1>. QED BY <1>5

\* Induction, for membership in a set.
LEMMA NatSetInduction ==
  ASSUME NEW S, 0 \in S, \A n \in Nat : n \in S => n + 1 \in S
  PROVE  \A n \in Nat : n \in S
  <1> SUFFICES ASSUME Nat \ S # {} PROVE FALSE
    OBVIOUS
  <1>1. PICK x \in Nat \ S : \A y \in Nat \ S : x <= y
    BY LeastNat
  <1>2. x # 0 /\ x - 1 \in Nat
    BY <1>1
  <1>3. x - 1 \in S
    BY <1>1, <1>2
  <1>. QED BY <1>2, <1>3, <1>1

\* What division by a variable gives.
LEMMA DivMod ==
  ASSUME NEW x \in Nat, NEW u \in Nat \ {0}
  PROVE  /\ x \div u \in Nat /\ x % u \in Nat /\ x % u < u
         /\ x = (x \div u) * u + (x % u)
  OBVIOUS

LEMMA TimesMonotone ==
  ASSUME NEW a \in Nat, NEW b \in Nat, NEW u \in Nat, a <= b
  PROVE  a * u <= b * u
  OBVIOUS

\* What ulp[n] should be, from its lower neighbours.
UlpOf(f, n) == IF n < MaxExact THEN 1 ELSE 2 * f[n \div 2]

\* The distances there are: 1 and its doubles.
Spacings == {u \in Nat \ {0} : \A S \in SUBSET Nat : 1 \in S /\ (\A v \in S : 2 * v \in S) => u \in S}

LEMMA Spacing ==
  /\ 1 \in Spacings
  /\ \A u \in Spacings : 2 * u \in Spacings
  /\ \A u \in Spacings : u = 1 \/ \E v \in Spacings : u = 2 * v
  <1>1. 1 \in Spacings
    BY DEF Spacings
  <1>2. ASSUME NEW u \in Spacings PROVE 2 * u \in Spacings
    BY DEF Spacings
  <1>3. ASSUME NEW u \in Spacings PROVE u = 1 \/ \E v \in Spacings : u = 2 * v
    <2> DEFINE S == {w \in Spacings : w = 1 \/ \E v \in Spacings : w = 2 * v}
    <2>1. S \in SUBSET Nat /\ 1 \in S /\ (\A v \in S : 2 * v \in S)
      BY <1>1, <1>2 DEF Spacings
    <2>2. u \in S
      BY <2>1 DEF Spacings
    <2>. QED BY <2>2
  <1>. QED BY <1>1, <1>2, <1>3

\* The spacings are unbounded.
LEMMA SpacingAbove == \A n \in Nat : \E u \in Spacings : n < u * MaxExact
  <1> DEFINE S == {n \in Nat : \E u \in Spacings : n < u}
  <1>1. 0 \in S
    BY Spacing
  <1>2. \A n \in Nat : n \in S => n + 1 \in S
    <2> SUFFICES ASSUME NEW n \in Nat, NEW u \in Spacings, n < u
                 PROVE  \E w \in Spacings : n + 1 < w
      OBVIOUS
    <2>1. 2 * u \in Spacings /\ u \in Nat
      BY Spacing DEF Spacings
    <2>2. n + 1 < 2 * u
      BY <2>1
    <2>. QED BY <2>1, <2>2
  <1>3. \A n \in Nat : n \in S
    <2> HIDE DEF S
    <2>. QED BY <1>1, <1>2, NatSetInduction
  <1> SUFFICES ASSUME NEW n \in Nat, NEW u \in Spacings, n < u
               PROVE  n < u * MaxExact
    BY <1>3
  <1>4. u \in Nat /\ 1 <= MaxExact /\ MaxExact \in Nat
    BY MaxExactAssumption DEF Spacings
  <1>5. u * 1 <= u * MaxExact
    BY <1>4
  <1>. QED BY <1>4, <1>5

\* The recursive definition has a solution: the least spacing at which n is
\* below MaxExact spacings.
LEMMA UlpEquation == ulp = [n \in Nat |-> UlpOf(ulp, n)]
  <1> DEFINE Above(n) == {u \in Spacings : n < u * MaxExact}
             F == [n \in Nat |-> CHOOSE u \in Above(n) : \A v \in Above(n) : u <= v]
  <1>1. ASSUME NEW n \in Nat
        PROVE  F[n] \in Above(n) /\ \A v \in Above(n) : F[n] <= v
    <2>1. Above(n) \subseteq Nat /\ Above(n) # {}
      BY SpacingAbove DEF Spacings
    <2>2. \E u \in Above(n) : \A v \in Above(n) : u <= v
      BY <2>1, LeastNat
    <2>. QED BY <2>2
  <1>2. F = [n \in Nat |-> UlpOf(F, n)]
    <2> SUFFICES ASSUME NEW n \in Nat PROVE F[n] = UlpOf(F, n)
      OBVIOUS
    <2> DEFINE w == F[n]
               h == F[n \div 2]
    <2>0. MaxExact \in Nat \ {0}
      BY MaxExactAssumption
    <2>1. w \in Spacings /\ w \in Nat \ {0} /\ n < w * MaxExact
          /\ \A v \in Spacings : n < v * MaxExact => w <= v
      BY <1>1 DEF Spacings
    <2>2. /\ n \div 2 \in Nat
          /\ h \in Spacings /\ h \in Nat \ {0} /\ n \div 2 < h * MaxExact
          /\ \A v \in Spacings : n \div 2 < v * MaxExact => h <= v
      <3>1. n \div 2 \in Nat
        OBVIOUS
      <3>2. h \in Above(n \div 2) /\ \A v \in Above(n \div 2) : h <= v
        BY <1>1, <3>1, Zenon
      <3>. QED BY <3>1, <3>2 DEF Spacings
    <2> HIDE DEF w, h, F
    <2>3. CASE n < MaxExact
      <3>1. n < 1 * MaxExact
        BY <2>0, <2>3
      <3>. QED BY <2>1, <2>3, <3>1, Spacing DEF UlpOf, w
    <2>4. CASE ~(n < MaxExact)
      <3>1. w # 1
        BY <2>0, <2>1, <2>4
      <3>2. PICK v \in Spacings : w = 2 * v
        BY <2>1, <3>1, Spacing
      <3>3. v \in Nat /\ v * MaxExact \in Nat /\ h * MaxExact \in Nat
        BY <2>0, <2>2 DEF Spacings
      <3>4. n \div 2 < v * MaxExact
        <4>1. n < 2 * (v * MaxExact)
          BY <2>0, <2>1, <3>2, <3>3
        <4>. QED BY <4>1, <3>3
      <3>5. n < (2 * h) * MaxExact
        <4>1. n < 2 * (h * MaxExact)
          BY <2>2, <3>3
        <4>. QED BY <4>1, <2>2, <2>0
      <3>6. h <= v
        BY <2>2, <3>4
      <3>7. w <= 2 * h
        BY <2>1, <2>2, <3>5, Spacing
      <3>8. w = 2 * h
        BY <2>2, <3>2, <3>3, <3>6, <3>7
      <3>. QED BY <2>4, <3>8 DEF UlpOf, w, h
    <2>. QED BY <2>3, <2>4
  <1> HIDE DEF F
  <1>3. \E f : f = [n \in Nat |-> UlpOf(f, n)]
    BY <1>2, Zenon
  <1>4. ulp = CHOOSE f : f = [n \in Nat |-> UlpOf(f, n)]
    BY Zenon DEF ulp, UlpOf
  <1>. QED BY <1>3, <1>4, Zenon

LEMMA UlpRecursion == \A n \in Nat : ulp[n] = IF n < MaxExact THEN 1 ELSE 2 * ulp[n \div 2]
  BY UlpEquation DEF UlpOf

\* n lies in the upper half of the floats that are ulp[n] apart, or below the
\* first power of two at which they get coarser.
LEMMA UlpBounds ==
  \A n \in Nat : /\ ulp[n] \in Nat \ {0}
                 /\ n < ulp[n] * MaxExact
                 /\ ulp[n] = 1 \/ \E w \in Nat \ {0} : ulp[n] = 2 * w /\ w * MaxExact <= n
  <1> DEFINE Good(n) == /\ ulp[n] \in Nat \ {0}
                        /\ n < ulp[n] * MaxExact
                        /\ ulp[n] = 1 \/ \E w \in Nat \ {0} : ulp[n] = 2 * w /\ w * MaxExact <= n
             Bad == {n \in Nat : ~Good(n)}
  <1> SUFFICES ASSUME Bad # {} PROVE FALSE
    OBVIOUS
  <1>1. PICK n \in Bad : \A m \in Bad : n <= m
    BY LeastNat
  <1>2. n \in Nat /\ ~Good(n) /\ \A m \in Nat : m < n => Good(m)
    BY <1>1
  <1>3. CASE n < MaxExact
    BY <1>2, <1>3, UlpRecursion, MaxExactAssumption
  <1>4. CASE ~(n < MaxExact)
    <2>1. MaxExact \in Nat \ {0} /\ n \div 2 \in Nat /\ n \div 2 < n
          /\ 2 * (n \div 2) <= n /\ n <= 2 * (n \div 2) + 1
      BY <1>2, <1>4, MaxExactAssumption
    <2> DEFINE h == ulp[n \div 2]
    <2>2. ulp[n] = 2 * h
      BY <1>2, <1>4, UlpRecursion
    <2>3. /\ h \in Nat \ {0} /\ n \div 2 < h * MaxExact
          /\ h = 1 \/ \E w \in Nat \ {0} : h = 2 * w /\ w * MaxExact <= n \div 2
      BY <1>2, <2>1
    <2> HIDE DEF h
    <2>4. h * MaxExact \in Nat /\ (2 * h) * MaxExact = 2 * (h * MaxExact)
      BY <2>1, <2>3
    <2>5. n < ulp[n] * MaxExact
      BY <1>2, <2>1, <2>2, <2>3, <2>4
    <2>6. h * MaxExact <= n
      <3>1. CASE h = 1
        BY <3>1, <1>2, <1>4, <2>1
      <3>2. ASSUME NEW w \in Nat \ {0}, h = 2 * w, w * MaxExact <= n \div 2
            PROVE  h * MaxExact <= n
        <4>1. w * MaxExact \in Nat /\ h * MaxExact = 2 * (w * MaxExact)
          BY <2>1, <3>2
        <4>. QED BY <4>1, <3>2, <2>1, <1>2
      <3>. QED BY <2>3, <3>1, <3>2
    <2>. QED BY <1>2, <2>2, <2>3, <2>5, <2>6
  <1>. QED BY <1>3, <1>4

\* Floats get coarser by a factor of two at least, or not at all.
LEMMA UlpMonotone ==
  \A y \in Nat : \A x \in 0..y : ulp[x] = ulp[y] \/ 2 * ulp[x] <= ulp[y]
  <1> DEFINE Good(y) == \A x \in 0..y : ulp[x] = ulp[y] \/ 2 * ulp[x] <= ulp[y]
             Bad == {y \in Nat : ~Good(y)}
  <1> SUFFICES ASSUME Bad # {} PROVE FALSE
    OBVIOUS
  <1>1. PICK y \in Bad : \A m \in Bad : y <= m
    BY LeastNat
  <1>2. y \in Nat /\ \A m \in Nat : m < y => Good(m)
    BY <1>1
  <1>3. PICK x \in 0..y : ~(ulp[x] = ulp[y] \/ 2 * ulp[x] <= ulp[y])
    BY <1>1
  <1>4. MaxExact \in Nat \ {0} /\ x \in Nat /\ y \div 2 \in Nat /\ x \div 2 \in 0 .. y \div 2
    BY <1>2, MaxExactAssumption
  <1>5. /\ ulp[x] = IF x < MaxExact THEN 1 ELSE 2 * ulp[x \div 2]
        /\ ulp[y] = IF y < MaxExact THEN 1 ELSE 2 * ulp[y \div 2]
    BY <1>2, <1>4, UlpRecursion
  <1>6. ulp[x \div 2] \in Nat \ {0} /\ ulp[y \div 2] \in Nat \ {0}
    BY <1>4, UlpBounds
  <1>7. ~(y < MaxExact)
    BY <1>2, <1>3, <1>4, <1>5
  <1>8. Good(y \div 2)
    BY <1>2, <1>4, <1>7
  <1>9. ulp[x \div 2] = ulp[y \div 2] \/ 2 * ulp[x \div 2] <= ulp[y \div 2]
    BY <1>4, <1>8
  <1>. QED BY <1>3, <1>4, <1>5, <1>6, <1>7, <1>9

\* Float(x) is a multiple of the spacing at x, at most half of it away from x.
LEMMA Rounded ==
  ASSUME NEW x \in Nat
  PROVE  \E q \in Nat : /\ Float(x) = q * ulp[x]
                        /\ 2 * x <= 2 * (q * ulp[x]) + ulp[x]
                        /\ 2 * (q * ulp[x]) <= 2 * x + ulp[x]
  <1> DEFINE u == ulp[x]
             q == x \div u
             r == x % u
  <1>1. u \in Nat \ {0}
    BY UlpBounds
  <1>2. Float(x) = IF 2 * r > u \/ (2 * r = u /\ q % 2 = 1) THEN (q + 1) * u ELSE q * u
    BY DEF Float
  <1> HIDE DEF u
  <1>3. q \in Nat /\ r \in Nat /\ r < u /\ x = q * u + r
    BY <1>1, DivMod
  <1> HIDE DEF q, r
  <1>4. q * u \in Nat /\ (q + 1) * u = q * u + u
    BY <1>1, <1>3
  <1>5. CASE Float(x) = q * u /\ 2 * r <= u
    BY <1>1, <1>3, <1>4, <1>5 DEF u
  <1>6. CASE Float(x) = (q + 1) * u /\ 2 * r >= u
    <2>1. q + 1 \in Nat /\ 2 * x <= 2 * ((q + 1) * u) + u /\ 2 * ((q + 1) * u) <= 2 * x + u
      BY <1>1, <1>3, <1>4, <1>6
    <2>. QED BY <1>6, <2>1 DEF u
  <1>. QED BY <1>1, <1>2, <1>3, <1>5, <1>6

\* A count up to 2^24 is a float.
LEMMA FloatExact == ASSUME NEW x \in Nat, x <= MaxExact PROVE Float(x) = x
  <1>1. MaxExact \in Nat \ {0} /\ MaxExact % 2 = 0
    BY MaxExactAssumption
  <1>2. CASE x < MaxExact
    <2>1. ulp[x] = 1 /\ x \div 1 = x /\ x % 1 = 0
      BY <1>2, UlpRecursion
    <2>. QED BY <2>1 DEF Float
  <1>3. CASE x = MaxExact
    <2>1. x \div 2 < MaxExact /\ x \div 2 \in Nat /\ x % 2 = 0 /\ (x \div 2) * 2 = x
      BY <1>1, <1>3
    <2>2. ulp[x] = 2
      BY <1>1, <1>3, <2>1, UlpRecursion
    <2>. QED BY <2>1, <2>2 DEF Float
  <1>. QED BY <1>1, <1>2, <1>3

\* Rounding keeps the order of the counts.
LEMMA FloatMonotone ==
  ASSUME NEW x \in Nat, NEW y \in Nat, x <= y
  PROVE  Float(x) \in Nat /\ Float(x) <= Float(y)
  <1> DEFINE u == ulp[x]
             v == ulp[y]
  <1>1. PICK p \in Nat : Float(x) = p * u /\ 2 * x <= 2 * (p * u) + u /\ 2 * (p * u) <= 2 * x + u
    BY Rounded
  <1>2. PICK q \in Nat : Float(y) = q * v /\ 2 * y <= 2 * (q * v) + v /\ 2 * (q * v) <= 2 * y + v
    BY Rounded
  <1>3. u = v \/ 2 * u <= v
    BY UlpMonotone
  <1>4. u \in Nat \ {0} /\ v \in Nat \ {0} /\ x < u * MaxExact
        /\ (v = 1 \/ \E w \in Nat \ {0} : v = 2 * w /\ w * MaxExact <= y)
    BY UlpBounds
  <1> HIDE DEF u, v
  <1> DEFINE a == p * u
             b == q * v
  <1>5. a \in Nat /\ b \in Nat
    BY <1>4
  <1>6. /\ Float(x) = a /\ 2 * x <= 2 * a + u /\ 2 * a <= 2 * x + u
        /\ Float(y) = b /\ 2 * y <= 2 * b + v /\ 2 * b <= 2 * y + v
    BY <1>1, <1>2
  <1>7. CASE x = y
    <2>1. Float(x) = Float(y)
      BY <1>7
    <2> HIDE DEF a, b
    <2>. QED BY <2>1, <1>5, <1>6
  <1>8. CASE x < y /\ u = v
    <2>1. CASE p <= q
      <3>1. a <= b
        BY <1>4, <1>8, <2>1, TimesMonotone
      <3> HIDE DEF a, b
      <3>. QED BY <3>1, <1>5, <1>6
    <2>2. CASE q + 1 <= p
      <3>1. b + u <= a
        <4>1. (q + 1) * u <= p * u
          BY <1>4, <2>2, TimesMonotone
        <4>. QED BY <4>1, <1>4, <1>8
      <3> HIDE DEF a, b
      <3>. QED BY <1>4, <1>5, <1>6, <1>8, <3>1
    <2>. QED BY <2>1, <2>2
  <1>9. CASE 2 * u <= v
    <2>1. PICK w \in Nat \ {0} : v = 2 * w /\ w * MaxExact <= y
      BY <1>4, <1>9
    <2>2. PICK m \in Nat : MaxExact = 2 * m
      <3>1. MaxExact \in Nat /\ MaxExact % 2 = 0
        BY MaxExactAssumption
      <3>2. MaxExact = 2 * (MaxExact \div 2) /\ MaxExact \div 2 \in Nat
        BY <3>1
      <3>. QED BY <3>2
    \* The boundary between x and y is a float.
    <2> DEFINE B == w * MaxExact
    <2>3. B \in Nat /\ m * v = B
      BY <2>1, <2>2
    <2>4. u * MaxExact <= B
      BY <1>4, <1>9, <2>1, <2>2, TimesMonotone
    <2>5. a <= B
      <3>1. CASE p <= MaxExact
        <4>1. p * u <= MaxExact * u
          BY <1>4, <2>2, <3>1, TimesMonotone
        <4>2. MaxExact * u = u * MaxExact /\ MaxExact * u \in Nat
          BY <1>4, <2>2
        <4>3. a <= MaxExact * u
          BY <4>1
        <4> HIDE DEF a, B
        <4>. QED BY <1>5, <2>3, <2>4, <4>2, <4>3
      <3>2. CASE MaxExact + 1 <= p
        <4>1. (MaxExact + 1) * u <= p * u
          BY <1>4, <2>2, <3>2, TimesMonotone
        <4>2. (MaxExact + 1) * u = u * MaxExact + u /\ u * MaxExact \in Nat
          BY <1>4, <2>2
        <4> DEFINE c == u * MaxExact
        <4>3. c + u <= a /\ x < c /\ c \in Nat
          BY <1>4, <4>1, <4>2
        <4> HIDE DEF a, B, c
        <4>. QED BY <1>4, <1>5, <1>6, <4>3
      <3>. QED BY <2>2, <3>1, <3>2
    <2>6. B <= b
      <3>1. CASE m <= q
        <4>1. m * v <= q * v
          BY <1>4, <2>2, <3>1, TimesMonotone
        <4>. QED BY <2>3, <4>1
      <3>2. CASE q + 1 <= m
        <4>1. (q + 1) * v <= m * v
          BY <1>4, <2>2, <3>2, TimesMonotone
        <4>2. (q + 1) * v = q * v + v
          BY <1>4
        <4>3. b + v <= B /\ B <= y
          BY <2>1, <2>3, <4>1, <4>2
        <4> HIDE DEF a, b, B
        <4>. QED BY <1>4, <1>5, <1>6, <2>3, <4>3
      <3>. QED BY <2>2, <3>1, <3>2
    <2> HIDE DEF a, b, B
    <2>. QED BY <1>5, <1>6, <2>3, <2>5, <2>6
  <1>. QED BY <1>3, <1>7, <1>8, <1>9

LEMMA FloatNat == ASSUME NEW x \in Nat PROVE Float(x) \in Nat
  BY FloatMonotone

-----------------------------------------------------------------------------
(* What the sums of a whole record lose to rounding. *)

LEMMA UlpOrder ==
  ASSUME NEW x \in Nat, NEW y \in Nat, x <= y
  PROVE  ulp[x] \in Nat \ {0} /\ ulp[x] <= ulp[y]
  <1>1. ulp[x] \in Nat \ {0} /\ ulp[y] \in Nat \ {0}
    BY UlpBounds
  <1>2. ulp[x] = ulp[y] \/ 2 * ulp[x] <= ulp[y]
    BY UlpMonotone
  <1>. QED BY <1>1, <1>2

\* Rounding does not lead to where floats are closer together.
LEMMA UlpOfFloat ==
  ASSUME NEW x \in Nat
  PROVE  Float(x) \in Nat /\ ulp[x] <= ulp[Float(x)]
  <1> DEFINE u == ulp[x]
             v == ulp[Float(x)]
  <1>1. PICK q \in Nat : Float(x) = q * u /\ 2 * x <= 2 * (q * u) + u /\ 2 * (q * u) <= 2 * x + u
    BY Rounded
  <1>2. Float(x) \in Nat
    BY FloatNat
  <1>3. u \in Nat \ {0} /\ (u = 1 \/ \E w \in Nat \ {0} : u = 2 * w /\ w * MaxExact <= x)
    BY UlpBounds
  <1>4. v \in Nat \ {0} /\ Float(x) < v * MaxExact
    BY <1>2, UlpBounds
  <1>5. CASE u = 1
    <2> HIDE DEF u, v
    <2>. QED BY <1>2, <1>4, <1>5 DEF u, v
  <1>6. CASE x <= Float(x)
    BY <1>2, <1>6, UlpOrder
  <1>7. CASE Float(x) < x /\ u # 1
    <2>1. v = u \/ 2 * v <= u
      BY <1>2, <1>7, UlpMonotone
    <2> HIDE DEF u, v
    <2>2. PICK w \in Nat \ {0} : u = 2 * w /\ w * MaxExact <= x
      BY <1>3, <1>7
    <2>3. PICK m \in Nat : MaxExact = 2 * m
      <3>1. MaxExact \in Nat /\ MaxExact % 2 = 0
        BY MaxExactAssumption
      <3>2. MaxExact = 2 * (MaxExact \div 2) /\ MaxExact \div 2 \in Nat
        BY <3>1
      <3>. QED BY <3>2
    <2>4. m * u = w * MaxExact /\ m * u \in Nat /\ q * u \in Nat
      BY <1>3, <2>2, <2>3
    \* The power of two below x is a float.
    <2>5. w * MaxExact <= Float(x)
      <3>1. CASE m <= q
        BY <1>1, <1>3, <2>3, <2>4, <3>1, TimesMonotone
      <3>2. CASE q + 1 <= m
        <4>1. (q + 1) * u <= m * u /\ (q + 1) * u = q * u + u
          BY <1>3, <2>3, <3>2, TimesMonotone
        <4> DEFINE a == q * u
                   b == m * u
        <4>2. /\ a \in Nat /\ b \in Nat /\ a + u <= b /\ b <= x
              /\ 2 * x <= 2 * a + u
          BY <1>1, <2>2, <2>4, <4>1
        <4> HIDE DEF a, b
        <4>. QED BY <1>3, <4>2
      <3>. QED BY <2>3, <3>1, <3>2
    <2>6. CASE 2 * v <= u
      <3>1. v <= w /\ MaxExact \in Nat
        BY <1>4, <2>2, <2>3, <2>6
      <3>2. v * MaxExact <= w * MaxExact
        BY <1>4, <3>1, TimesMonotone
      <3>3. v * MaxExact \in Nat /\ w * MaxExact \in Nat
        BY <1>4, <2>3, <2>4
      <3>. QED BY <1>2, <1>4, <2>5, <3>2, <3>3
    <2>7. CASE v = u
      <3>1. u <= v
        BY <1>3, <2>7
      <3>. QED BY <1>2, <3>1 DEF u, v
    <2>. QED BY <2>1, <2>6, <2>7
  <1>8. Float(x) < x \/ x <= Float(x)
    BY <1>2
  <1>. QED BY <1>2, <1>5, <1>6, <1>7, <1>8

\* One rounded addition, in terms of a distance between floats that is no
\* smaller than that at its result.
LEMMA PlusError ==
  ASSUME NEW x \in Nat, NEW y \in Nat, NEW U \in Nat, ulp[Plus(x, y)] <= U
  PROVE  /\ Plus(x, y) \in Nat /\ ulp[x] <= U
         /\ 2 * (x + y) <= 2 * Plus(x, y) + U
         /\ 2 * Plus(x, y) <= 2 * (x + y) + U
  <1>1. Plus(x, y) = Float(x + y) /\ Float(x + y) \in Nat /\ ulp[x + y] <= ulp[Float(x + y)]
    BY UlpOfFloat DEF Plus
  <1>2. ulp[x] <= ulp[x + y] /\ ulp[x] \in Nat /\ ulp[x + y] \in Nat /\ ulp[Float(x + y)] \in Nat
    BY <1>1, UlpOrder, UlpBounds
  <1>3. PICK q \in Nat : /\ Float(x + y) = q * ulp[x + y]
                         /\ 2 * (x + y) <= 2 * (q * ulp[x + y]) + ulp[x + y]
                         /\ 2 * (q * ulp[x + y]) <= 2 * (x + y) + ulp[x + y]
    BY Rounded
  <1>. QED BY <1>1, <1>2, <1>3

LEMMA PlusMonotone ==
  ASSUME NEW x \in Nat, NEW y \in Nat, NEW a \in Nat, NEW b \in Nat, x <= a, y <= b
  PROVE  Plus(x, y) \in Nat /\ Plus(x, y) <= Plus(a, b)
  BY FloatMonotone DEF Plus

Record == [user : Nat, nice : Nat, system : Nat, idle : Nat, io_wait : Nat, irq : Nat,
           soft_irq : Nat, steal : Nat]

\* The sum of eight counters is rounded seven times.
LEMMA AllTimeError ==
  ASSUME NEW r \in Record, NEW U \in Nat, ulp[AllTime(r)] <= U
  PROVE  LET exact == r.user + r.system + r.idle + r.nice + r.io_wait + r.irq + r.soft_irq + r.steal
         IN  /\ AllTime(r) \in Nat
             /\ 2 * exact <= 2 * AllTime(r) + 7 * U
             /\ 2 * AllTime(r) <= 2 * exact + 7 * U
  <1> DEFINE t2 == Plus(r.user, r.system)
             t3 == Plus(t2, r.idle)
             t4 == Plus(t3, r.nice)
             t5 == Plus(t4, r.io_wait)
             t6 == Plus(t5, r.irq)
             t7 == Plus(t6, r.soft_irq)
             t8 == Plus(t7, r.steal)
  <1>0. /\ r.user \in Nat /\ r.nice \in Nat /\ r.system \in Nat /\ r.idle \in Nat
        /\ r.io_wait \in Nat /\ r.irq \in Nat /\ r.soft_irq \in Nat /\ r.steal \in Nat
    BY DEF Record
  <1>1. AllTime(r) = t8
    BY DEF AllTime
  <1> HIDE DEF t8
  <1>2. t2 \in Nat /\ t3 \in Nat /\ t4 \in Nat /\ t5 \in Nat /\ t6 \in Nat /\ t7 \in Nat
    BY <1>0, FloatNat DEF Plus
  <1> HIDE DEF t7
  <1>8. /\ t8 \in Nat /\ ulp[t7] <= U
        /\ 2 * (t7 + r.steal) <= 2 * t8 + U /\ 2 * t8 <= 2 * (t7 + r.steal) + U
    BY <1>0, <1>1, <1>2, PlusError DEF t8
  <1> HIDE DEF t6
  <1>7. /\ ulp[t6] <= U
        /\ 2 * (t6 + r.soft_irq) <= 2 * t7 + U /\ 2 * t7 <= 2 * (t6 + r.soft_irq) + U
    BY <1>0, <1>2, <1>8, PlusError DEF t7
  <1> HIDE DEF t5
  <1>6. /\ ulp[t5] <= U
        /\ 2 * (t5 + r.irq) <= 2 * t6 + U /\ 2 * t6 <= 2 * (t5 + r.irq) + U
    BY <1>0, <1>2, <1>7, PlusError DEF t6
  <1> HIDE DEF t4
  <1>5. /\ ulp[t4] <= U
        /\ 2 * (t4 + r.io_wait) <= 2 * t5 + U /\ 2 * t5 <= 2 * (t4 + r.io_wait) + U
    BY <1>0, <1>2, <1>6, PlusError DEF t5
  <1> HIDE DEF t3
  <1>4. /\ ulp[t3] <= U
        /\ 2 * (t3 + r.nice) <= 2 * t4 + U /\ 2 * t4 <= 2 * (t3 + r.nice) + U
    BY <1>0, <1>2, <1>5, PlusError DEF t4
  <1> HIDE DEF t2
  <1>3. /\ ulp[t2] <= U
        /\ 2 * (t2 + r.idle) <= 2 * t3 + U /\ 2 * t3 <= 2 * (t2 + r.idle) + U
    BY <1>0, <1>2, <1>4, PlusError DEF t3
  <1>9. /\ 2 * (r.user + r.system) <= 2 * t2 + U /\ 2 * t2 <= 2 * (r.user + r.system) + U
    BY <1>0, <1>2, <1>3, PlusError DEF t2
  <1>. QED BY <1>0, <1>1, <1>2, <1>3, <1>4, <1>5, <1>6, <1>7, <1>8, <1>9

\* The sum of the six busy counters is rounded five times.
LEMMA UsedTimeError ==
  ASSUME NEW r \in Record, NEW U \in Nat, ulp[UsedTime(r)] <= U
  PROVE  LET exact == r.user + r.system + r.nice + r.irq + r.soft_irq + r.steal
         IN  /\ UsedTime(r) \in Nat
             /\ 2 * exact <= 2 * UsedTime(r) + 5 * U
             /\ 2 * UsedTime(r) <= 2 * exact + 5 * U
  <1> DEFINE b2 == Plus(r.user, r.system)
             b3 == Plus(b2, r.nice)
             b4 == Plus(b3, r.irq)
             b5 == Plus(b4, r.soft_irq)
             b6 == Plus(b5, r.steal)
  <1>0. /\ r.user \in Nat /\ r.nice \in Nat /\ r.system \in Nat
        /\ r.irq \in Nat /\ r.soft_irq \in Nat /\ r.steal \in Nat
    BY DEF Record
  <1>1. UsedTime(r) = b6
    BY DEF UsedTime
  <1> HIDE DEF b6
  <1>2. b2 \in Nat /\ b3 \in Nat /\ b4 \in Nat /\ b5 \in Nat
    BY <1>0, FloatNat DEF Plus
  <1> HIDE DEF b5
  <1>6. /\ b6 \in Nat /\ ulp[b5] <= U
        /\ 2 * (b5 + r.steal) <= 2 * b6 + U /\ 2 * b6 <= 2 * (b5 + r.steal) + U
    BY <1>0, <1>1, <1>2, PlusError DEF b6
  <1> HIDE DEF b4
  <1>5. /\ ulp[b4] <= U
        /\ 2 * (b4 + r.soft_irq) <= 2 * b5 + U /\ 2 * b5 <= 2 * (b4 + r.soft_irq) + U
    BY <1>0, <1>2, <1>6, PlusError DEF b5
  <1> HIDE DEF b3
  <1>4. /\ ulp[b3] <= U
        /\ 2 * (b3 + r.irq) <= 2 * b4 + U /\ 2 * b4 <= 2 * (b3 + r.irq) + U
    BY <1>0, <1>2, <1>5, PlusError DEF b4
  <1> HIDE DEF b2
  <1>3. /\ ulp[b2] <= U
        /\ 2 * (b2 + r.nice) <= 2 * b3 + U /\ 2 * b3 <= 2 * (b2 + r.nice) + U
    BY <1>0, <1>2, <1>4, PlusError DEF b3
  <1>7. /\ 2 * (r.user + r.system) <= 2 * b2 + U /\ 2 * b2 <= 2 * (r.user + r.system) + U
    BY <1>0, <1>2, <1>3, PlusError DEF b2
  <1>. QED BY <1>0, <1>1, <1>2, <1>3, <1>4, <1>5, <1>6, <1>7

\* The sums grow with the counters.
LEMMA SumsMonotone ==
  ASSUME NEW r \in Record, NEW s \in Record, \A f \in DOMAIN r : r[f] <= s[f]
  PROVE  /\ AllTime(r) \in Nat /\ UsedTime(r) \in Nat
         /\ AllTime(s) \in Nat /\ UsedTime(s) \in Nat
         /\ AllTime(r) <= AllTime(s) /\ UsedTime(r) <= UsedTime(s)
  <1>1. /\ r.user \in Nat /\ r.nice \in Nat /\ r.system \in Nat /\ r.idle \in Nat
        /\ r.io_wait \in Nat /\ r.irq \in Nat /\ r.soft_irq \in Nat /\ r.steal \in Nat
        /\ s.user \in Nat /\ s.nice \in Nat /\ s.system \in Nat /\ s.idle \in Nat
        /\ s.io_wait \in Nat /\ s.irq \in Nat /\ s.soft_irq \in Nat /\ s.steal \in Nat
    BY DEF Record
  <1>2. /\ r.user <= s.user /\ r.nice <= s.nice /\ r.system <= s.system /\ r.idle <= s.idle
        /\ r.io_wait <= s.io_wait /\ r.irq <= s.irq /\ r.soft_irq <= s.soft_irq
        /\ r.steal <= s.steal
    BY DEF Record
  <1>3. \A x, y \in Nat : Plus(x, y) \in Nat
    BY FloatNat DEF Plus
  <1>4. \A x, y, a, b \in Nat : x <= a /\ y <= b => Plus(x, y) <= Plus(a, b)
    BY PlusMonotone
  <1>5. AllTime(r) \in Nat /\ AllTime(s) \in Nat /\ AllTime(r) <= AllTime(s)
    <2> DEFINE part(t) == Plus(Plus(Plus(t.user, t.system), t.idle), t.nice)
    <2>1. part(r) \in Nat /\ part(s) \in Nat /\ part(r) <= part(s)
      BY <1>1, <1>2, <1>3, <1>4
    <2>2. /\ AllTime(r) = Plus(Plus(Plus(Plus(part(r), r.io_wait), r.irq), r.soft_irq), r.steal)
          /\ AllTime(s) = Plus(Plus(Plus(Plus(part(s), s.io_wait), s.irq), s.soft_irq), s.steal)
      BY DEF AllTime
    <2> DEFINE most(t) == Plus(Plus(part(t), t.io_wait), t.irq)
    <2> HIDE DEF part
    <2>3. most(r) \in Nat /\ most(s) \in Nat /\ most(r) <= most(s)
      BY <1>1, <1>2, <1>3, <1>4, <2>1
    <2>4. /\ AllTime(r) = Plus(Plus(most(r), r.soft_irq), r.steal)
          /\ AllTime(s) = Plus(Plus(most(s), s.soft_irq), s.steal)
      BY <2>2
    <2> DEFINE seven(t) == Plus(most(t), t.soft_irq)
    <2> HIDE DEF most
    <2>5. seven(r) \in Nat /\ seven(s) \in Nat /\ seven(r) <= seven(s)
      BY <1>1, <1>2, <1>3, <1>4, <2>3
    <2>6. AllTime(r) = Plus(seven(r), r.steal) /\ AllTime(s) = Plus(seven(s), s.steal)
      BY <2>4
    <2> HIDE DEF seven
    <2>7. /\ Plus(seven(r), r.steal) \in Nat /\ Plus(seven(s), s.steal) \in Nat
          /\ Plus(seven(r), r.steal) <= Plus(seven(s), s.steal)
      BY <1>1, <1>2, <1>3, <1>4, <2>5
    <2>. QED BY <2>6, <2>7
  <1>6. UsedTime(r) \in Nat /\ UsedTime(s) \in Nat /\ UsedTime(r) <= UsedTime(s)
    BY <1>1, <1>2, <1>3, <1>4 DEF UsedTime
  <1>. QED BY <1>5, <1>6

\* The cpu_percent of two records, the later of which no tick tore, as the code
\* computes it from all counters: the busy time exceeds the total time by no
\* more than one distance between floats per addition, seven of the total and
\* five of the busy time.
THEOREM ShareOfAllCounters ==
  ASSUME NEW r \in Record, NEW s \in Record, \A f \in DOMAIN r : r[f] <= s[f]
  PROVE  UsedTime(s) - UsedTime(r)
           <= AllTime(s) - AllTime(r) + 7 * ulp[AllTime(s)] + 5 * ulp[UsedTime(s)]
  <1> DEFINE U == ulp[AllTime(s)]
             V == ulp[UsedTime(s)]
             all(t) == t.user + t.system + t.idle + t.nice + t.io_wait + t.irq + t.soft_irq + t.steal
             used(t) == t.user + t.system + t.nice + t.irq + t.soft_irq + t.steal
  <1>1. /\ AllTime(r) \in Nat /\ UsedTime(r) \in Nat
        /\ AllTime(s) \in Nat /\ UsedTime(s) \in Nat
        /\ AllTime(r) <= AllTime(s) /\ UsedTime(r) <= UsedTime(s)
    BY SumsMonotone
  <1>2. U \in Nat /\ V \in Nat /\ ulp[AllTime(r)] <= U /\ ulp[UsedTime(r)] <= V
    BY <1>1, UlpOrder
  <1> HIDE DEF U, V
  <1>3. 2 * all(s) <= 2 * AllTime(s) + 7 * U
    BY <1>1, <1>2, AllTimeError DEF U
  <1>4. 2 * AllTime(r) <= 2 * all(r) + 7 * U
    BY <1>1, <1>2, AllTimeError
  <1>5. 2 * UsedTime(s) <= 2 * used(s) + 5 * V
    BY <1>1, <1>2, UsedTimeError DEF V
  <1>6. 2 * used(r) <= 2 * UsedTime(r) + 5 * V
    BY <1>1, <1>2, UsedTimeError
  <1>7. /\ all(r) \in Nat /\ all(s) \in Nat /\ used(r) \in Nat /\ used(s) \in Nat
        /\ used(s) - used(r) <= all(s) - all(r)
    <2>1. /\ r.user \in Nat /\ r.nice \in Nat /\ r.system \in Nat /\ r.idle \in Nat
          /\ r.io_wait \in Nat /\ r.irq \in Nat /\ r.soft_irq \in Nat /\ r.steal \in Nat
          /\ s.user \in Nat /\ s.nice \in Nat /\ s.system \in Nat /\ s.idle \in Nat
          /\ s.io_wait \in Nat /\ s.irq \in Nat /\ s.soft_irq \in Nat /\ s.steal \in Nat
      BY DEF Record
    <2>2. r.idle <= s.idle /\ r.io_wait <= s.io_wait
      BY DEF Record
    <2>. QED BY <2>1, <2>2
  <1> HIDE DEF all, used
  <1>8. UsedTime(s) - UsedTime(r) <= AllTime(s) - AllTime(r) + 7 * U + 5 * V
    BY <1>1, <1>2, <1>3, <1>4, <1>5, <1>6, <1>7
  <1>. QED BY <1>8 DEF U, V

-----------------------------------------------------------------------------
(* The CPU usage. *)

CpuRecord == [cpu_name : Cpus \cup {NoName}, user : Nat, idle : Nat]

\* The page is of the CPU it is for, and not ahead of the kernel.
CpuPageInv ==
  \A c \in Cpus : /\ page[c].cpu_name \in {c, NoName}
                  /\ page[c].user <= Float(kcpustat[c].user)
                  /\ page[c].idle <= Float(kcpustat[c].idle)

\* The name that was looked up can only be that of the record.
CpuKeyInv ==
  /\ pc \notin {"closed", "test", "find"} => key \in {i, NoName}
  /\ pc \in {"total_user", "find", "closed", "test"} => total = NotRead
  /\ pc \in {"total_idle", "busy"} => total # NotRead

\* The previous sample of a CPU is not ahead of what is read of it now.
PreviousInv ==
  (pc = "total_user" \/ total # NotRead) /\ key \notin stale \cup {NoName} =>
    /\ pc \in {"total_user", "total_idle", "busy", "key"} =>
         old.user <= page[i].user /\ old.idle <= page[i].idle
    /\ pc = "total_idle" => old.user <= total
    /\ pc \in {"busy", "key"} => Sum(old) <= total
    /\ pc = "key" => old.user <= busy

\* What was read is still there unless the timer wrote to the record.
UnrewrittenInv ==
  total # NotRead /\ ~rewritten =>
    /\ pc = "total_idle" => total = page[i].user
    /\ pc \in {"busy", "key", "copy_user", "copy_idle"} => total = Float(page[i].user + page[i].idle)
    /\ pc = "key" => busy = page[i].user
    /\ pc = "copy_idle" => copy.user = page[i].user

CopyInv == pc = "copy_idle" => copy.user <= page[i].user

CpuInv == TypeOK /\ CpuPageInv /\ CpuKeyInv /\ PreviousInv /\ UnrewrittenInv /\ CopyInv /\ SamplesOfTheirCpu

LEMMA FloatZero == Float(0) = 0
  BY FloatExact, MaxExactAssumption

LEMMA CpuInvInit == Init => CpuInv
  <1> SUFFICES ASSUME Init PROVE CpuInv
    OBVIOUS
  <1>0. kcpustat \in [Cpus -> Sample]
    BY BootedAssumption DEF Init
  <1> USE DEF Init, NoName, NotRead, Zero, NewPage, TickStart
  <1>1. 0 \in Cpus /\ NumCpu \in Nat /\ Booted \in [Cpus -> Sample]
    BY NumCpuAssumption, BootedAssumption DEF Cpus
  <1>2. TypeOK
    <2>1. kcpustat \in [Cpus -> Sample] /\ Zero \in Sample
      BY <1>0 DEF Sample
    <2>2. page \in [Cpus -> [cpu_name : Cpus \cup {NoName}, user : Nat, idle : Nat]]
      OBVIOUS
    <2>3. tick \in [cpu : Cpus, field : Fields \cup {"cpu_name"}]
      BY <1>1
    <2>4. /\ online \in (SUBSET Cpus) \ {{}}
          /\ i \in 0 .. NumCpu /\ (pc \notin {"closed", "test"} => i \in Cpus)
          /\ key \in Cpus \cup {NoName} /\ old \in Sample /\ copy \in Sample
      BY <1>1, <2>1
    <2>5. /\ DOMAIN cpu_stat_map_ \subseteq Cpus \cup {NoName}
          /\ \A n \in DOMAIN cpu_stat_map_ : cpu_stat_map_[n] \in Sample
      OBVIOUS
    <2>6. /\ pc \in {"closed", "test", "find", "total_user", "total_idle", "busy", "key",
                     "copy_user", "copy_idle"}
          /\ total \in Nat \cup {NotRead} /\ busy \in Nat
          /\ rewritten \in BOOLEAN /\ stale \subseteq Cpus
      OBVIOUS
    <2>. QED BY <2>1, <2>2, <2>3, <2>4, <2>5, <2>6 DEF TypeOK
  <1>3. CpuPageInv
    <2>1. \A c \in Cpus : Float(Booted[c].user) \in Nat /\ Float(Booted[c].idle) \in Nat
      BY <1>1, FloatNat DEF Sample
    <2>. QED BY <2>1 DEF CpuPageInv
  <1>. QED BY <1>2, <1>3 DEF CpuInv, CpuKeyInv, PreviousInv, UnrewrittenInv, CopyInv, SamplesOfTheirCpu

-----------------------------------------------------------------------------
\* A step of the environment that leaves the counters of the page where they
\* are or ahead, marks what it rewrites, and does not touch the reader.
LEMMA CpuPageGrows ==
  ASSUME CpuInv, TypeOK', CpuPageInv', UNCHANGED readerVars, stale' = stale,
         \A c \in Cpus : page[c].user <= page'[c].user /\ page[c].idle <= page'[c].idle,
         ~rewritten' /\ total # NotRead =>
           ~rewritten /\ (pc \notin {"closed", "test"} =>
                            page'[i].user = page[i].user /\ page'[i].idle = page[i].idle)
  PROVE  CpuInv'
  <1> USE DEF readerVars
  <1>1. /\ CpuKeyInv'
        /\ pc \notin {"closed", "test"} => i \in Cpus
        /\ \A c \in Cpus : /\ page[c].user \in Nat /\ page[c].idle \in Nat
                           /\ page'[c].user \in Nat /\ page'[c].idle \in Nat
        /\ old \in Sample /\ copy \in Sample
        /\ DOMAIN cpu_stat_map_ \subseteq Cpus \cup {NoName}
        /\ \A n \in DOMAIN cpu_stat_map_ : cpu_stat_map_[n] \in Sample
    BY DEF CpuInv, CpuKeyInv, TypeOK
  <1>2. PreviousInv'
    BY <1>1 DEF CpuInv, PreviousInv, Sample, Sum
  <1>3. UnrewrittenInv'
    BY <1>1 DEF CpuInv, UnrewrittenInv
  <1>4. CopyInv'
    BY <1>1 DEF CpuInv, CopyInv, Sample
  <1>5. SamplesOfTheirCpu'
    BY <1>1 DEF CpuInv, SamplesOfTheirCpu, Sample
  <1>. QED BY <1>1, <1>2, <1>3, <1>4, <1>5 DEF CpuInv

LEMMA CpuKernelInv ==
  ASSUME CpuInv, Reload \/ \E c \in Cpus : Account(c) \/ Hotplug(c)
  PROVE  CpuInv'
  <1>0. TypeOK /\ CpuPageInv
    BY DEF CpuInv
  <1>1. ASSUME NEW c \in Cpus, Account(c) PROVE CpuInv'
    <2>1. PICK f \in Fields : kcpustat' = [kcpustat EXCEPT ![c][f] = @ + 1]
      BY <1>1 DEF Account
    <2>2. UNCHANGED <<online, page, tick, readerVars, rewritten, stale>>
      BY <1>1 DEF Account
    <2>3. /\ kcpustat' \in [Cpus -> Sample]
          /\ \A d \in Cpus : /\ kcpustat[d].user <= kcpustat'[d].user
                             /\ kcpustat[d].idle <= kcpustat'[d].idle
      BY <1>0, <2>1 DEF TypeOK, Sample, Fields
    <2>4. TypeOK'
      BY <1>0, <2>2, <2>3 DEF TypeOK, readerVars
    <2>5. CpuPageInv'
      <3> SUFFICES ASSUME NEW d \in Cpus
                   PROVE  /\ page[d].cpu_name \in {d, NoName}
                          /\ page[d].user <= Float(kcpustat'[d].user)
                          /\ page[d].idle <= Float(kcpustat'[d].idle)
        BY <2>2 DEF CpuPageInv
      <3>1. /\ page[d].user \in Nat /\ page[d].idle \in Nat
            /\ kcpustat[d].user \in Nat /\ kcpustat[d].idle \in Nat
            /\ kcpustat'[d].user \in Nat /\ kcpustat'[d].idle \in Nat
        BY <1>0, <2>3 DEF TypeOK, Sample
      <3>2. /\ Float(kcpustat[d].user) <= Float(kcpustat'[d].user)
            /\ Float(kcpustat[d].idle) <= Float(kcpustat'[d].idle)
        BY <2>3, <3>1, FloatMonotone
      <3>3. /\ Float(kcpustat[d].user) \in Nat /\ Float(kcpustat'[d].user) \in Nat
            /\ Float(kcpustat[d].idle) \in Nat /\ Float(kcpustat'[d].idle) \in Nat
        BY <3>1, FloatNat
      <3>. QED BY <1>0, <3>1, <3>2, <3>3 DEF CpuPageInv
    <2>6. \A d \in Cpus : page[d].user \in Nat /\ page[d].idle \in Nat
      BY <1>0 DEF TypeOK
    <2>. QED BY <2>2, <2>4, <2>5, <2>6, CpuPageGrows
  <1>2. ASSUME NEW c \in Cpus, Hotplug(c) PROVE CpuInv'
    <2>1. /\ online' \in (SUBSET Cpus) \ {{}}
          /\ UNCHANGED <<kcpustat, page, tick, readerVars, rewritten, stale>>
      BY <1>0, <1>2 DEF Hotplug, TypeOK
    <2>2. TypeOK' /\ CpuPageInv'
      BY <1>0, <2>1 DEF TypeOK, CpuPageInv, readerVars
    <2>3. \A d \in Cpus : page[d].user \in Nat /\ page[d].idle \in Nat
      BY <1>0 DEF TypeOK
    <2>. QED BY <2>1, <2>2, <2>3, CpuPageGrows
  <1>3. CASE Reload
    <2>1. /\ pc = "closed" /\ page' = NewPage /\ stale' = Cpus
          /\ UNCHANGED <<kernelVars, tick, readerVars, rewritten>>
      BY <1>3 DEF Reload
    <2>2. TypeOK'
      BY <1>0, <2>1 DEF TypeOK, readerVars, kernelVars, NewPage
    <2>3. CpuPageInv'
      <3> SUFFICES ASSUME NEW d \in Cpus
                   PROVE  0 <= Float(kcpustat[d].user) /\ 0 <= Float(kcpustat[d].idle)
        BY <2>1 DEF CpuPageInv, NewPage, kernelVars
      <3>1. kcpustat[d].user \in Nat /\ kcpustat[d].idle \in Nat
        BY <1>0 DEF TypeOK, Sample
      <3>. QED BY <3>1, FloatNat
    <2>4. SamplesOfTheirCpu'
      BY <1>0, <2>1 DEF SamplesOfTheirCpu, TypeOK, readerVars
    <2>. QED BY <2>1, <2>2, <2>3, <2>4
             DEF CpuInv, CpuKeyInv, PreviousInv, UnrewrittenInv, CopyInv, readerVars
  <1>. QED BY <1>1, <1>2, <1>3

LEMMA CpuTimerInv == ASSUME CpuInv, Timer PROVE CpuInv'
  <1>0. TypeOK /\ CpuPageInv
    BY DEF CpuInv
  <1>1. /\ tick.cpu \in Cpus /\ tick.field \in Fields \cup {"cpu_name"}
        /\ page \in [Cpus -> CpuRecord]
        /\ \A c \in Cpus : page[c].user \in Nat /\ page[c].idle \in Nat
        /\ NextCpu \in [cpu : Cpus, field : Fields \cup {"cpu_name"}]
    BY <1>0, NumCpuAssumption, SMTT(30) DEF TypeOK, CpuRecord, NextCpu, Cpus
  <1>2. CASE TimerName
    <2>1. PICK name \in {tick.cpu, NoName} : Write("cpu_name", name)
      BY <1>2 DEF TimerName
    <2>2. /\ tick' \in [cpu : Cpus, field : Fields \cup {"cpu_name"}]
          /\ UNCHANGED <<kernelVars, readerVars, stale>>
      BY <1>0, <1>1, <1>2 DEF TimerName, TypeOK, Fields
    <2>3. /\ page' \in [Cpus -> CpuRecord]
          /\ \A c \in Cpus : /\ page'[c].cpu_name \in {c, NoName}
                             /\ page'[c].user = page[c].user /\ page'[c].idle = page[c].idle
      BY <1>0, <1>1, <2>1 DEF Write, CpuPageInv, CpuRecord
    <2>4. TypeOK' /\ CpuPageInv' /\ (~rewritten' => ~rewritten)
      BY <1>0, <2>1, <2>2, <2>3 DEF TypeOK, CpuPageInv, Write, readerVars, kernelVars, CpuRecord
    <2>5. pc \notin {"closed", "test"} => i \in Cpus
      BY <1>0 DEF TypeOK
    <2>. QED BY <1>1, <2>2, <2>3, <2>4, <2>5, CpuPageGrows
  <1>3. CASE TimerCounter
    <2> DEFINE c == tick.cpu
               f == tick.field
               count == Float(kcpustat[c][f])
    <2>1. f \in Fields /\ Write(f, count) /\ UNCHANGED <<kernelVars, readerVars, stale>>
      BY <1>3 DEF TimerCounter
    <2>2. tick' \in [cpu : Cpus, field : Fields \cup {"cpu_name"}]
      BY <1>0, <1>1, <1>3 DEF TimerCounter, TypeOK, Fields
    <2>3. count \in Nat /\ page[c][f] <= count
      BY <1>0, <1>1, <2>1, FloatNat DEF TypeOK, CpuPageInv, Fields, Sample
    <2>4. /\ page' \in [Cpus -> CpuRecord]
          /\ \A d \in Cpus :
               /\ page'[d].cpu_name = page[d].cpu_name
               /\ page'[d].user = IF d = c /\ f = "user" THEN count ELSE page[d].user
               /\ page'[d].idle = IF d = c /\ f = "idle" THEN count ELSE page[d].idle
      <3> HIDE DEF count
      <3>. QED BY <1>1, <2>1, <2>3 DEF Write, CpuRecord, Fields
    <2>5. TypeOK'
      BY <1>0, <2>1, <2>2, <2>4 DEF TypeOK, Write, readerVars, kernelVars, CpuRecord
    <2>6. CpuPageInv'
      BY <1>0, <1>1, <2>1, <2>3, <2>4 DEF TypeOK, CpuPageInv, kernelVars, Fields, Sample
    <2>7. /\ \A d \in Cpus : page[d].user <= page'[d].user /\ page[d].idle <= page'[d].idle
          /\ ~rewritten' /\ total # NotRead =>
               ~rewritten /\ (pc \notin {"closed", "test"} =>
                                page'[i].user = page[i].user /\ page'[i].idle = page[i].idle)
      <3>1. pc \notin {"closed", "test"} => i \in Cpus
        BY <1>0 DEF TypeOK
      <3>2. (f = "user" => page[c].user <= count) /\ (f = "idle" => page[c].idle <= count)
        BY <2>3
      <3>3. ~rewritten' /\ total # NotRead => ~rewritten /\ c # i
        BY <2>1 DEF Write
      <3> HIDE DEF count
      <3>4. \A d \in Cpus : page[d].user <= page'[d].user /\ page[d].idle <= page'[d].idle
        BY <1>1, <2>3, <2>4, <3>2
      <3>. QED BY <2>4, <3>1, <3>3, <3>4
    <2>. QED BY <2>1, <2>5, <2>6, <2>7, CpuPageGrows
  <1>. QED BY <1>2, <1>3 DEF Timer

-----------------------------------------------------------------------------
LEMMA CpuReaderInv == ASSUME CpuInv, UpdateOnce PROVE CpuInv'
  <1>0. TypeOK /\ CpuPageInv
    BY DEF CpuInv
  <1> USE DEF CpuInv, CpuPageInv, CpuKeyInv, PreviousInv, UnrewrittenInv, CopyInv, unread, kernelVars
  <1>1. /\ pc \notin {"closed", "test"} =>
             /\ i \in Cpus /\ page[i].cpu_name \in {i, NoName}
             /\ page[i].user \in Nat /\ page[i].idle \in Nat
        /\ \A c \in Cpus : c # NoName
        /\ old \in Sample /\ copy \in Sample /\ i \in 0..NumCpu /\ NotRead \notin Nat
    BY <1>0 DEF TypeOK, Cpus, NoName, NotRead
  <1>2. CASE Open
    BY <1>0, <1>2, NumCpuAssumption DEF Open, TypeOK, SamplesOfTheirCpu
  <1>3. CASE Test
    <2>1. TypeOK'
      <3>1. pc' \in {"closed", "find"} /\ (pc' = "find" => i # NumCpu)
        BY <1>3 DEF Test
      <3>2. pc' = "find" => i' \in Cpus
        BY <1>1, <1>3, <3>1, NumCpuAssumption DEF Test, Cpus
      <3>3. i' \in 0 .. NumCpu
        BY <1>1, <1>3, NumCpuAssumption DEF Test
      <3>. QED BY <1>0, <1>3, <3>1, <3>2, <3>3 DEF Test, TypeOK
    <2>. QED BY <1>3, <2>1 DEF Test, SamplesOfTheirCpu
  <1>4. CASE Find
    <2>1. TypeOK'
      BY <1>0, <1>1, <1>4 DEF Find, TypeOK
    <2>2. CpuKeyInv'
      BY <1>1, <1>4 DEF Find
    <2>3. PreviousInv'
      BY <1>1, <1>4 DEF Find, SamplesOfTheirCpu
    <2>. QED BY <1>4, <2>1, <2>2, <2>3 DEF Find, SamplesOfTheirCpu
  <1>5. CASE ReadTotalUser
    <2>1. TypeOK'
      BY <1>0, <1>1, <1>5 DEF ReadTotalUser, TypeOK
    <2>. QED BY <1>1, <1>5, <2>1 DEF ReadTotalUser, SamplesOfTheirCpu
  <1>6. CASE ReadTotalIdle
    <2>0. total \in Nat /\ total' = Float(total + page[i].idle) /\ total' \in Nat
      <3>1. total \in Nat
        BY <1>0, <1>6 DEF ReadTotalIdle, TypeOK
      <3>. QED BY <1>1, <1>6, <3>1, FloatNat DEF ReadTotalIdle
    <2>1. TypeOK'
      BY <1>0, <1>1, <1>6, <2>0 DEF ReadTotalIdle, TypeOK
    <2>2. ASSUME key \notin stale \cup {NoName} PROVE Sum(old) <= total'
      <3>1. /\ old.user + old.idle <= total + page[i].idle
            /\ old.user + old.idle \in Nat /\ total + page[i].idle \in Nat
        BY <1>1, <1>6, <2>0, <2>2 DEF ReadTotalIdle, Sample
      <3>. QED BY <2>0, <3>1, FloatMonotone DEF Sum
    <2>. QED BY <1>1, <1>6, <2>0, <2>1, <2>2 DEF ReadTotalIdle, SamplesOfTheirCpu
  <1>7. CASE ReadBusy
    <2>1. TypeOK'
      BY <1>0, <1>1, <1>7 DEF ReadBusy, TypeOK
    <2>. QED BY <1>1, <1>7, <2>1 DEF ReadBusy, SamplesOfTheirCpu
  <1>8. CASE ReadKey
    <2>0. old' \in Sample /\ busy' \in Nat
      BY <1>8 DEF ReadKey, Zero, Sample
    <2>1. TypeOK'
      BY <1>0, <1>1, <1>8, <2>0 DEF ReadKey, TypeOK
    <2>. QED BY <1>1, <1>8, <2>1 DEF ReadKey, SamplesOfTheirCpu
  <1>9. CASE CopyUser
    <2>0. copy' = [copy EXCEPT !.user = page[i].user] /\ copy' \in Sample /\ copy'.user = page[i].user
      BY <1>1, <1>9 DEF CopyUser, Sample
    <2>1. TypeOK'
      BY <1>0, <1>1, <1>9, <2>0 DEF CopyUser, TypeOK
    <2>. QED BY <1>1, <1>9, <2>0, <2>1 DEF CopyUser, SamplesOfTheirCpu
  <1>10. CASE CopyIdle
    <2> DEFINE sample == [copy EXCEPT !.idle = page[i].idle]
    <2>1. /\ sample \in Sample /\ sample.user = copy.user /\ sample.idle = page[i].idle
          /\ copy.user <= page[i].user
      BY <1>1, <1>10 DEF CopyIdle, Sample
    <2>2. /\ cpu_stat_map_' = Kept(sample) /\ stale' = stale \ {key} /\ i' = i + 1 /\ pc' = "test"
          /\ key' = NoName /\ total' = NotRead /\ copy' = Zero
          /\ rewritten' = FALSE /\ UNCHANGED <<kernelVars, page, tick, old, busy>>
      BY <1>10 DEF CopyIdle
    <2> HIDE DEF sample
    <2>3. /\ DOMAIN cpu_stat_map_' = DOMAIN cpu_stat_map_ \cup {key}
          /\ \A n \in DOMAIN cpu_stat_map_' :
               cpu_stat_map_'[n] = IF n = key THEN sample ELSE cpu_stat_map_[n]
      BY <2>2 DEF Kept
    <2>4. key \in {i, NoName} /\ i \in Cpus
      BY <1>1, <1>10 DEF CopyIdle
    <2>5. TypeOK'
      <3>1. i' \in 0..NumCpu
        BY <2>2, <2>4, NumCpuAssumption DEF Cpus
      <3>. QED BY <1>0, <2>1, <2>2, <2>3, <2>4, <3>1 DEF TypeOK, Zero, Sample
    <2>6. SamplesOfTheirCpu'
      BY <1>0, <1>1, <2>1, <2>2, <2>3, <2>4 DEF SamplesOfTheirCpu, TypeOK, Sample
    <2>. QED BY <1>0, <2>2, <2>5, <2>6
  <1>. QED BY <1>2, <1>3, <1>4, <1>5, <1>6, <1>7, <1>8, <1>9, <1>10 DEF UpdateOnce

LEMMA CpuInvPreserved == CpuInv /\ [Next]_vars => CpuInv'
  <1>1. CpuInv /\ UNCHANGED vars => CpuInv'
    BY DEF vars, kernelVars, readerVars, CpuInv, TypeOK, CpuPageInv, CpuKeyInv, PreviousInv, UnrewrittenInv,
           CopyInv, SamplesOfTheirCpu
  <1>. QED BY <1>1, CpuKernelInv, CpuTimerInv, CpuReaderInv DEF Next

\* The inductive invariant of the page, its timer and its reader: the counters of
\* the page only grow while the module stays, and never pass the kernel's; every
\* value that UpdateOnce holds is of the record it is at, and behind the page.
THEOREM CpuInvariant == Spec => []CpuInv
  BY CpuInvInit, CpuInvPreserved, PTL DEF Spec

\* All variables of the CPU monitor keep their types, for floats of any precision.
THEOREM CpuTypes == Spec => []TypeOK
  <1>1. CpuInv => TypeOK
    BY DEF CpuInv
  <1>. QED BY <1>1, CpuInvariant, PTL

\* For any number of CPUs, any hotplug and any interleaving with the timer: a
\* sample is kept under the name of the record it was read from, or none.
THEOREM CpuSamplesOfTheirCpu == Spec => []SamplesOfTheirCpu
  <1>1. CpuInv => SamplesOfTheirCpu
    BY DEF CpuInv
  <1>. QED BY <1>1, CpuInvariant, PTL

\* For floats of any precision and any torn read: no time in a report is negative
\* but in the first sample after a reload.  Rounding is monotone, and a sum of
\* two counters is rounded once.
THEOREM TimesGoForward == Spec => []TimesDoNotRunBackwards
  <1>1. CpuInv => TimesDoNotRunBackwards
    <2> SUFFICES ASSUME CpuInv, Reporting, key \notin stale \cup {NoName}
                 PROVE  /\ BusyTime >= 0 /\ TotalTime >= 0
                        /\ \A f \in Fields : TimeOf(f) >= 0
      BY DEF TimesDoNotRunBackwards
    <2>1. /\ busy \in Nat /\ total \in Nat /\ old.user \in Nat /\ old.user + old.idle \in Nat
          /\ old.user <= busy /\ Sum(old) <= total
      BY DEF CpuInv, PreviousInv, TypeOK, Sample, Reporting
    <2>2. Sum(old) \in Nat
      BY <2>1, FloatNat DEF Sum
    <2>3. /\ page[i].user \in Nat /\ page[i].idle \in Nat
          /\ old.user \in Nat /\ old.idle \in Nat
          /\ old.user <= page[i].user /\ old.idle <= page[i].idle
      BY DEF CpuInv, PreviousInv, TypeOK, Sample, Reporting
    <2>4. \A f \in Fields : TimeOf(f) >= 0
      BY <2>3 DEF TimeOf, Fields
    <2>. QED BY <2>1, <2>2, <2>4 DEF BusyTime, TotalTime
  <1>. QED BY <1>1, CpuInvariant, PTL

\* A rounded sum is off by half the distance between floats at most, and not
\* at all while it is exact.
LEMMA RoundingError ==
  ASSUME NEW x \in Nat
  PROVE  /\ Float(x) \in Nat /\ Rounding(x) \in Nat
         /\ 2 * x <= 2 * Float(x) + Rounding(x)
         /\ 2 * Float(x) <= 2 * x + Rounding(x)
  <1>1. Float(x) \in Nat /\ ulp[x] \in Nat /\ MaxExact \in Nat
    BY FloatNat, UlpBounds, MaxExactAssumption
  <1>2. CASE x <= MaxExact
    BY <1>1, <1>2, FloatExact DEF Rounding
  <1>3. CASE ~(x <= MaxExact)
    <2>1. PICK q \in Nat : /\ Float(x) = q * ulp[x]
                           /\ 2 * x <= 2 * (q * ulp[x]) + ulp[x]
                           /\ 2 * (q * ulp[x]) <= 2 * x + ulp[x]
      BY Rounded
    <2>2. Rounding(x) = ulp[x]
      BY <1>3 DEF Rounding
    <2>. QED BY <1>1, <2>1, <2>2
  <1>. QED BY <1>1, <1>2, <1>3

\* Larger sums are rounded no more finely.
LEMMA RoundingMonotone ==
  ASSUME NEW x \in Nat, NEW y \in Nat, x <= y
  PROVE  Rounding(x) <= Rounding(y)
  <1>1. ulp[x] \in Nat /\ ulp[y] \in Nat /\ MaxExact \in Nat
    BY UlpBounds, MaxExactAssumption
  <1>2. ulp[x] = ulp[y] \/ 2 * ulp[x] <= ulp[y]
    BY UlpMonotone
  <1>. QED BY <1>1, <1>2 DEF Rounding

\* A sample that no tick tore is a share of the time, whatever the counts: the
\* busy time of the interval, and that of each counter, is part of the total
\* time, up to the one distance between floats that two rounded sums can lose.
THEOREM ShareOfTheTime == Spec => []ShareUnlessRewritten
  <1>1. CpuInv => ShareUnlessRewritten
    <2> DEFINE sumNew == page[i].user + page[i].idle
               sumOld == old.user + old.idle
    <2> SUFFICES ASSUME CpuInv, Reporting, key \notin stale \cup {NoName}, ~rewritten
                 PROVE  /\ BusyTime <= TotalTime + Rounding(sumNew)
                        /\ \A f \in Fields : TimeOf(f) <= TotalTime + Rounding(sumNew)
      BY DEF ShareUnlessRewritten
    <2>1. /\ page[i].user \in Nat /\ page[i].idle \in Nat
          /\ old.user \in Nat /\ old.idle \in Nat
      BY DEF CpuInv, TypeOK, Sample, Reporting
    <2>2. old.user <= page[i].user /\ old.idle <= page[i].idle
      BY DEF CpuInv, PreviousInv, Reporting
    <2>3. busy = page[i].user /\ TotalTime = Float(sumNew) - Float(sumOld)
      <3>1. busy = page[i].user /\ total = Float(sumNew)
        BY DEF CpuInv, UnrewrittenInv, Reporting
      <3>. QED BY <3>1 DEF TotalTime, Sum
    <2>4. /\ Float(sumNew) \in Nat /\ Rounding(sumNew) \in Nat
          /\ 2 * sumNew <= 2 * Float(sumNew) + Rounding(sumNew)
      <3>1. sumNew \in Nat
        BY <2>1
      <3> HIDE DEF sumNew
      <3>. QED BY <3>1, RoundingError
    <2>5. /\ Float(sumOld) \in Nat /\ Rounding(sumOld) \in Nat
          /\ 2 * Float(sumOld) <= 2 * sumOld + Rounding(sumOld)
      <3>1. sumOld \in Nat
        BY <2>1
      <3> HIDE DEF sumOld
      <3>. QED BY <3>1, RoundingError
    <2>6. Rounding(sumOld) <= Rounding(sumNew)
      BY <2>1, <2>2, RoundingMonotone
    <2>7. sumNew - sumOld <= TotalTime + Rounding(sumNew)
      BY <2>1, <2>3, <2>4, <2>5, <2>6
    <2>8. /\ TotalTime + Rounding(sumNew) \in Int
          /\ page[i].user - old.user <= sumNew - sumOld
          /\ page[i].idle - old.idle <= sumNew - sumOld
      BY <2>1, <2>2, <2>3, <2>4, <2>5
    <2> HIDE DEF sumNew, sumOld
    <2>9. \A f \in Fields : TimeOf(f) <= TotalTime + Rounding(sumNew)
      <3>1. sumNew - sumOld \in Int
        BY <2>1 DEF sumNew, sumOld
      <3>. QED BY <2>1, <2>7, <2>8, <3>1 DEF TimeOf, Fields
    <2>10. BusyTime = TimeOf("user") /\ "user" \in Fields
      BY <2>3 DEF BusyTime, TimeOf, Fields
    <2>. QED BY <2>9, <2>10
  <1>. QED BY <1>1, CpuInvariant, PTL

\* Without a tick in between, the sample that is kept is the one reported.
THEOREM IntervalsMeet == Spec => IntervalsAdjoin
  <1>1. CpuInv /\ [Next]_vars
          => [pc = "copy_idle" /\ pc' = "test" /\ total # NotRead /\ ~rewritten
              => key \in DOMAIN cpu_stat_map_' /\ Sum(cpu_stat_map_'[key]) = total]_vars
    <2> SUFFICES ASSUME CpuInv, Next, pc = "copy_idle", pc' = "test", total # NotRead, ~rewritten
                 PROVE  key \in DOMAIN cpu_stat_map_' /\ Sum(cpu_stat_map_'[key]) = total
      OBVIOUS
    <2>1. CopyIdle
      BY DEF Next, UpdateOnce, Timer, TimerName, TimerCounter, Reload, Account, Hotplug, Open, Test,
             Find, ReadTotalUser, ReadTotalIdle, ReadBusy, ReadKey, CopyUser, readerVars
    <2> DEFINE sample == [copy EXCEPT !.idle = page[i].idle]
    <2>2. sample.user = copy.user /\ sample.idle = page[i].idle
      BY DEF CpuInv, TypeOK, Sample
    <2>3. cpu_stat_map_' = Kept(sample)
      BY <2>1 DEF CopyIdle
    <2> HIDE DEF sample
    <2>4. key \in DOMAIN cpu_stat_map_' /\ cpu_stat_map_'[key] = sample
      BY <2>3 DEF Kept
    <2>5. copy.user = page[i].user /\ total = Float(page[i].user + page[i].idle)
      BY DEF CpuInv, UnrewrittenInv
    <2>. QED BY <2>2, <2>4, <2>5 DEF Sum
  <1>. QED BY <1>1, CpuInvariant, PTL DEF Spec, IntervalsAdjoin

-----------------------------------------------------------------------------
(* The memory. *)

Keys == {"MemTotal:", "MemFree:", "MemAvailable:", "Slab:"}

\* A line names its field with the value it had when the text was written.
LinesInv ==
  \A n \in 1 .. Len(mem_text) :
    mem_text[n][1] \in DOMAIN FieldOf => mem_text[n][2] = mem_shown[FieldOf[mem_text[n][1]]]

\* A field that the kernel shows is in the struct, or in a line still to be read.
StructInv ==
  \A k \in DOMAIN FieldOf : Shows(k) =>
    \/ mem_info[FieldOf[k]] = mem_shown[FieldOf[k]]
    \/ \E n \in 1 .. Len(mem_text) : mem_text[n][1] = k

DetailInv ==
  /\ \A k \in DOMAIN FieldOf : Shows(k) => mem_detail[FieldOf[k]] = mem_shown[FieldOf[k]]
  /\ mem_detail.used = mem_detail.total - mem_detail.avail

MemInv ==
  /\ MemTypeOK
  /\ mem_text \in Seq(Keys \X Int)
  /\ mem_shown # NoValues => mem_shown \in Values
  /\ mem_shown # NoValues /\ mem_pc = "read" => LinesInv /\ StructInv
  /\ mem_shown # NoValues /\ mem_pc = "done" => DetailInv

LEMMA Fields3 ==
  /\ FieldOf \in [{"MemTotal:", "MemFree:", "MemAvailable:"} -> MenInfo]
  /\ FieldOf["MemTotal:"] = "total" /\ FieldOf["MemAvailable:"] = "avail"
  BY DEF FieldOf, MenInfo

LEMMA ValuesAreFields == \A v \in Values : v \in [MenInfo -> Int] /\ v # NoValues
  BY MemSizeAssumption DEF Values, MenInfo, NoValues

LEMMA MemInvInit == MemInit => MemInv
  <1> SUFFICES ASSUME MemInit PROVE MemInv
    OBVIOUS
  <1>1. Len(<<>>) = 0 /\ Len(layout) \in Nat
    BY LayoutsAssumption DEF MemInit
  <1>2. meminfo \in Values
    BY MemSizeAssumption DEF MemInit, Values
  <1>. QED BY <1>1, <1>2 DEF MemInit, MemInv, MemTypeOK

LEMMA MemInvPreserved == MemInv /\ [MemNext]_memVars => MemInv'
  <1> SUFFICES ASSUME MemInv, [MemNext]_memVars PROVE MemInv'
    OBVIOUS
  <1>0. layout \in Seq(Keys) /\ meminfo \in Values /\ mem_datas = <<>>
    BY LayoutsAssumption DEF MemInv, MemTypeOK, Keys
  <1>1. CASE UNCHANGED memVars
    BY <1>1 DEF memVars, MemInv, MemTypeOK, LinesInv, StructInv, DetailInv, Shows
  <1>2. CASE MemChanges
    BY <1>2 DEF MemChanges, MemInv, MemTypeOK, LinesInv, StructInv, DetailInv, Shows
  <1>3. CASE MemOpen
    <2>1. Text \in Seq(Keys \X Int) /\ Len(Text) = Len(layout)
          /\ \A n \in 1 .. Len(layout) : Text[n][1] = layout[n]
                 /\ (layout[n] \in DOMAIN FieldOf => Text[n][2] = meminfo[FieldOf[layout[n]]])
      <3> DEFINE value(n) == IF layout[n] = "Slab:" THEN 0 ELSE meminfo[FieldOf[layout[n]]]
      <3>1. \A n \in 1 .. Len(layout) : layout[n] \in Keys /\ value(n) \in Int
            /\ (layout[n] \in DOMAIN FieldOf => layout[n] # "Slab:")
        BY <1>0, Fields3, ValuesAreFields DEF Keys
      <3>2. Text = [n \in 1 .. Len(layout) |-> <<layout[n], value(n)>>]
        BY <1>0 DEF Text
      <3>3. \A n \in 1 .. Len(layout) : layout[n] \in DOMAIN FieldOf => value(n) = meminfo[FieldOf[layout[n]]]
        BY <3>1
      <3> HIDE DEF value
      <3>4. Len(layout) \in Nat
        BY <1>0
      <3>. QED BY <3>1, <3>2, <3>3, <3>4
    <2>2. mem_info' \in [MenInfo -> Int] /\ UNCHANGED <<layout, meminfo, mem_datas, mem_detail>>
          /\ mem_pc' = "read"
      BY <1>3, MemSizeAssumption DEF MemOpen
    <2>3. CASE mem_text' = Text /\ mem_shown' = meminfo
      <3>1. LinesInv'
        BY <2>1, <2>3 DEF LinesInv
      <3>2. StructInv'
        <4>1. \A k \in DOMAIN FieldOf : Shows(k)' => \E n \in 1 .. Len(layout) : Text[n][1] = k
          BY <1>0, <2>1, <2>2 DEF Shows
        <4>. QED BY <2>1, <2>3, <4>1 DEF StructInv
      <3>3. MemTypeOK'
        BY <1>0, <2>1, <2>2, <2>3 DEF MemInv, MemTypeOK
      <3>. QED BY <1>0, <2>1, <2>2, <2>3, <3>1, <3>2, <3>3 DEF MemInv
    <2>4. CASE mem_text' = <<>> /\ mem_shown' = NoValues
      <3>1. Len(mem_text') <= Len(layout) /\ mem_text' \in Seq(Keys \X Int)
        BY <1>0, <2>4
      <3>. QED BY <1>0, <2>2, <2>4, <3>1 DEF MemInv, MemTypeOK
    <2>. QED BY <1>3, <2>3, <2>4 DEF MemOpen
  <1>4. CASE MemLine
    <2>0. mem_pc = "read" /\ mem_text # <<>> /\ mem_info \in [MenInfo -> Int]
          /\ mem_text \in Seq(Keys \X Int)
      BY <1>4 DEF MemLine, MemInv, MemTypeOK
    <2>1. PICK k \in Keys, v \in Int : Head(mem_text) = <<k, v>> /\ mem_text[1] = <<k, v>>
      <3>1. Head(mem_text) \in Keys \X Int
        BY <2>0, HeadTailProperties
      <3>2. Head(mem_text) = mem_text[1]
        BY <2>0
      <3>. QED BY <3>1, <3>2
    <2>2. ReadLine[1] = k /\ ReadLine[2] = v
      BY <1>0, <2>1 DEF ReadLine
    <2>3. /\ mem_info' = IF k \in DOMAIN FieldOf THEN [mem_info EXCEPT ![FieldOf[k]] = v] ELSE mem_info
          /\ mem_datas' = <<>> /\ mem_text' = Tail(mem_text)
          /\ UNCHANGED <<layout, meminfo, mem_pc, mem_detail, mem_shown>>
      BY <1>4, <2>2 DEF MemLine, Cleared
    <2>4. /\ mem_text' \in Seq(Keys \X Int) /\ Len(mem_text') = Len(mem_text) - 1
          /\ \A n \in 1 .. Len(mem_text') : mem_text'[n] = mem_text[n + 1]
      BY <2>0, <2>3, HeadTailProperties
    <2>5. /\ mem_info' \in [MenInfo -> Int]
          /\ \A f \in MenInfo : mem_info'[f] = IF k \in DOMAIN FieldOf /\ f = FieldOf[k] THEN v ELSE mem_info[f]
      BY <2>0, <2>3, Fields3
    <2>6. Len(mem_text) \in Nat /\ Len(layout) \in Nat
      BY <1>0, <2>0
    <2>7. MemTypeOK'
      BY <2>3, <2>4, <2>5, <2>6 DEF MemInv, MemTypeOK
    <2>8. ASSUME mem_shown # NoValues PROVE LinesInv' /\ StructInv'
      <3>0. LinesInv /\ StructInv
        BY <2>0, <2>8 DEF MemInv
      <3>1. LinesInv'
        <4> SUFFICES ASSUME NEW n \in 1 .. Len(mem_text'), mem_text'[n][1] \in DOMAIN FieldOf
                     PROVE  mem_text'[n][2] = mem_shown[FieldOf[mem_text'[n][1]]]
          BY <2>3 DEF LinesInv
        <4>1. n + 1 \in 1 .. Len(mem_text) /\ mem_text'[n] = mem_text[n + 1]
          BY <2>4, <2>6
        <4>. QED BY <3>0, <4>1 DEF LinesInv
      <3>2. k \in DOMAIN FieldOf => v = mem_shown[FieldOf[k]]
        <4>1. 1 \in 1 .. Len(mem_text)
          BY <2>0
        <4>. QED BY <2>1, <3>0, <4>1 DEF LinesInv
      <3>3. StructInv'
        <4> SUFFICES ASSUME NEW m \in DOMAIN FieldOf, Shows(m),
                            mem_info'[FieldOf[m]] # mem_shown[FieldOf[m]]
                     PROVE  \E n \in 1 .. Len(mem_text') : mem_text'[n][1] = m
          BY <2>3 DEF StructInv, Shows
        <4>1. FieldOf[m] \in MenInfo
          BY Fields3
        <4>2. ~(k \in DOMAIN FieldOf /\ FieldOf[m] = FieldOf[k]) /\ m # k
          BY <2>5, <3>2, <4>1
        <4>3. mem_info[FieldOf[m]] # mem_shown[FieldOf[m]]
          BY <2>5, <4>1, <4>2
        <4>4. PICK n \in 1 .. Len(mem_text) : mem_text[n][1] = m
          BY <3>0, <4>3 DEF StructInv
        <4>5. n # 1
          BY <2>1, <4>2, <4>4
        <4>6. n - 1 \in 1 .. Len(mem_text') /\ mem_text'[n - 1] = mem_text[n]
          BY <2>4, <2>6, <4>4, <4>5
        <4>. QED BY <4>4, <4>6
      <3>. QED BY <3>1, <3>3
    <2>. QED BY <2>0, <2>3, <2>4, <2>7, <2>8 DEF MemInv
  <1>5. CASE MemReport
    <2>1. /\ mem_pc = "read" /\ mem_pc' = "done" /\ mem_text = <<>>
          /\ mem_detail' = [f \in MenInfo \cup {"used"} |->
                              IF f = "used" THEN mem_info.total - mem_info.avail ELSE mem_info[f]]
          /\ UNCHANGED <<layout, meminfo, mem_text, mem_datas, mem_info, mem_shown>>
      BY <1>5 DEF MemReport
    <2>2. \A f \in MenInfo : mem_detail'[f] = mem_info[f]
      BY <2>1 DEF MenInfo
    <2>3. mem_detail'.used = mem_detail'.total - mem_detail'.avail
      BY <2>1 DEF MenInfo
    <2>4. mem_shown # NoValues => DetailInv'
      BY <2>1, <2>2, <2>3, Fields3 DEF MemInv, StructInv, DetailInv, Shows
    <2>. QED BY <2>1, <2>4 DEF MemInv, MemTypeOK
  <1>6. CASE MemReturn
    <2>1. Len(<<>>) = 0 /\ Len(layout) \in Nat
      BY <1>0
    <2>. QED BY <1>6, <2>1 DEF MemReturn, MemInv, MemTypeOK
  <1>. QED BY <1>1, <1>2, <1>3, <1>4, <1>5, <1>6 DEF MemNext

\* The inductive invariant of a read of /proc/meminfo.
THEOREM MemInvariant == MemSpec => []MemInv
  BY MemInvInit, MemInvPreserved, PTL DEF MemSpec

\* For any layout of the file and any content of the stack: every field that the
\* kernel shows is reported with the value of this read.
THEOREM ReportedAsShown == MemSpec => []ShownFieldsAreReported
  <1>1. MemInv => ShownFieldsAreReported
    <2> SUFFICES ASSUME MemInv, mem_pc = "done", mem_shown # NoValues
                 PROVE  /\ \A k \in DOMAIN FieldOf : Shows(k) =>
                              mem_detail[FieldOf[k]] = mem_shown[FieldOf[k]]
                        /\ Shows("MemTotal:") /\ Shows("MemAvailable:") =>
                              mem_detail.used \in 0 .. mem_detail.total
      BY DEF ShownFieldsAreReported
    <2>1. DetailInv /\ mem_shown \in Values
      BY DEF MemInv
    <2>2. ASSUME Shows("MemTotal:"), Shows("MemAvailable:")
          PROVE  mem_detail.used \in 0 .. mem_detail.total
      <3>1. mem_detail.total = mem_shown.total /\ mem_detail.avail = mem_shown.avail
        BY <2>1, <2>2, Fields3 DEF DetailInv
      <3>2. mem_shown.total = MemSize /\ mem_shown.avail \in 0..MemSize /\ MemSize \in Nat
        BY <2>1, MemSizeAssumption DEF Values
      <3>. QED BY <2>1, <3>1, <3>2 DEF DetailInv
    <2>. QED BY <2>1, <2>2 DEF DetailInv
  <1>. QED BY <1>1, MemInvariant, PTL

\* All variables of the memory monitor keep their types.
THEOREM MemTypes == MemSpec => []MemTypeOK
  <1>1. MemInv => MemTypeOK
    BY DEF MemInv
  <1>. QED BY <1>1, MemInvariant, PTL

-----------------------------------------------------------------------------
(* The disks. *)

USE DisksAssumption, DiskBoundsAssumption, NoOverflowAssumption

Since == [reads : Nat, slept : Nat, restarted : BOOLEAN, stepped : BOOLEAN, back : BOOLEAN]

DiskTypes ==
  /\ requests \in [Disks -> [reads : Nat, writes : Nat]]
  /\ \A d \in Disks : requests[d].reads + requests[d].writes <= MaxRequests[d]
  /\ unread_disks \subseteq Disks /\ attached_disks \subseteq Disks
  /\ clock \in Nat /\ now \in Nat
  /\ since \in [Disks -> Since]
  /\ DOMAIN last_samples = DOMAIN last_time /\ DOMAIN last_time \subseteq Disks
  /\ \A d \in DOMAIN last_time :
       /\ last_time[d] \in Nat
       /\ last_samples[d].reads \in Nat
       /\ last_samples[d].sectors_read = last_samples[d].reads

\* Where the clock is against the time kept with the last sample of a disk.
TimeInv ==
  /\ unread_disks # {} => now = clock
  /\ \A d \in DOMAIN last_time :
       /\ ~since[d].back => last_time[d] <= clock
       /\ ~since[d].back /\ d \in unread_disks => last_time[d] < clock
       /\ ~since[d].stepped => last_time[d] + since[d].slept = clock

\* What a disk has read since its last sample.
ReadsInv ==
  \A d \in DOMAIN last_time : ~since[d].restarted =>
    requests[d].reads = last_samples[d].reads + since[d].reads

DiskInv == DiskTypes /\ TimeInv /\ ReadsInv

-----------------------------------------------------------------------------
LEMMA SmallMod == ASSUME NEW x \in Nat, NEW w \in Nat, x < w PROVE x % w = x
  OBVIOUS

\* What UpdateOnce makes of a line has the reads of the disk in two fields.
LEMMA ParsedReads ==
  ASSUME DiskTypes, NEW d \in Disks
  PROVE  LET curr == Parse(Line(d)) IN
         curr.reads = requests[d].reads /\ curr.sectors_read = requests[d].reads
  <1>1. "reads" \in SampleNames /\ "sectors_read" \in SampleNames
    <2>1. DiskSample[1] = "reads" /\ DiskSample[3] = "sectors_read"
      BY DEF DiskSample
    <2>. QED BY <2>1 DEF SampleNames
  <1>2. (CHOOSE n \in 1..9 : DiskSample[n] = "reads") = 1
    BY DEF DiskSample
  <1>3. (CHOOSE n \in 1..9 : DiskSample[n] = "sectors_read") = 3
    BY DEF DiskSample
  <1>4. Line(d)[1] = requests[d].reads /\ Line(d)[3] = requests[d].reads
    BY DEF Line
  <1>. QED BY <1>1, <1>2, <1>3, <1>4 DEF Parse

\* The history of a disk stays one when the clock is set or the program sleeps.
LEMMA SetTyped ==
  ASSUME NEW s \in Since, NEW b
  PROVE  LET t == [s EXCEPT !.slept = 0, !.stepped = TRUE, !.back = @ \/ b] IN
         /\ t \in Since /\ t.stepped
         /\ ~t.back => ~s.back /\ ~b
         /\ t.restarted = s.restarted /\ t.reads = s.reads
  BY DEF Since

LEMMA SleptTyped == ASSUME NEW s \in Since PROVE [s EXCEPT !.slept = @ + 1] \in Since
  BY DEF Since

LEMMA DiskInvInit == DiskInit => DiskInv
  BY DEF DiskInit, DiskInv, DiskTypes, TimeInv, ReadsInv, NoRequests, NoEntry, Nothing, Since

LEMMA HostInv ==
  ASSUME DiskInv, \/ \E d \in Disks : \/ Request(d, "reads") \/ Request(d, "writes")
                                      \/ Detach(d) \/ Attach(d)
                  \/ StepClock
  PROVE  DiskInv'
  <1> USE DEF DiskInv
  <1>1. ASSUME NEW d \in Disks, NEW kind \in {"reads", "writes"}, Request(d, kind) PROVE DiskInv'
    <2>1. /\ requests' = [requests EXCEPT ![d][kind] = @ + 1]
          /\ since' = IF kind = "reads" /\ ~since[d].restarted
                        THEN [since EXCEPT ![d].reads = @ + 1] ELSE since
          /\ requests[d].reads + requests[d].writes < MaxRequests[d]
          /\ UNCHANGED <<attached_disks, clock, now, unread_disks, last_samples, last_time, disk_info>>
      BY <1>1 DEF Request
    <2>2. \A e \in Disks :
            /\ requests'[e].reads = IF e = d /\ kind = "reads" THEN requests[e].reads + 1 ELSE requests[e].reads
            /\ requests'[e].writes = IF e = d /\ kind = "writes" THEN requests[e].writes + 1 ELSE requests[e].writes
            /\ since'[e].slept = since[e].slept /\ since'[e].back = since[e].back
            /\ since'[e].stepped = since[e].stepped /\ since'[e].restarted = since[e].restarted
            /\ since'[e].reads = IF e = d /\ kind = "reads" /\ ~since[d].restarted
                                   THEN since[e].reads + 1 ELSE since[e].reads
      BY <2>1 DEF DiskTypes, Since
    <2>3. requests' \in [Disks -> [reads : Nat, writes : Nat]] /\ since' \in [Disks -> Since]
      BY <2>1 DEF DiskTypes, Since
    <2>4. DiskTypes'
      BY <2>1, <2>2, <2>3 DEF DiskTypes
    <2>5. TimeInv'
      BY <2>1, <2>2 DEF DiskTypes, TimeInv
    <2>6. ReadsInv'
      <3> SUFFICES ASSUME NEW e \in DOMAIN last_time, ~since'[e].restarted
                   PROVE  requests'[e].reads = last_samples[e].reads + since'[e].reads
        BY <2>1 DEF ReadsInv
      <3>1. e \in Disks /\ requests[e].reads \in Nat /\ since[e].reads \in Nat
            /\ last_samples[e].reads \in Nat /\ since[e].restarted = since'[e].restarted
        BY <2>2 DEF DiskTypes, Since
      <3>. QED BY <2>2, <3>1 DEF ReadsInv
    <2>. QED BY <2>4, <2>5, <2>6
  <1>2. ASSUME NEW d \in Disks, Detach(d) PROVE DiskInv'
    BY <1>2 DEF Detach, DiskTypes, TimeInv, ReadsInv
  <1>3. ASSUME NEW d \in Disks, Attach(d) PROVE DiskInv'
    <2> USE <1>3 DEF Attach, NoRequests
    <2>1. \A e \in Disks :
            /\ requests'[e].reads = IF e = d THEN 0 ELSE requests[e].reads
            /\ requests'[e].writes = IF e = d THEN 0 ELSE requests[e].writes
            /\ since'[e].slept = since[e].slept /\ since'[e].back = since[e].back
            /\ since'[e].stepped = since[e].stepped
            /\ since'[e].restarted = (e = d \/ since[e].restarted)
            /\ since'[e].reads = IF e = d THEN 0 ELSE since[e].reads
      BY ZenonT(30) DEF DiskTypes, Since
    <2>2. requests' \in [Disks -> [reads : Nat, writes : Nat]] /\ since' \in [Disks -> Since]
      BY ZenonT(30) DEF DiskTypes, Since
    <2>3. DiskTypes'
      BY <2>1, <2>2 DEF DiskTypes
    <2>4. TimeInv' /\ ReadsInv'
      BY <2>1 DEF DiskTypes, TimeInv, ReadsInv
    <2>. QED BY <2>3, <2>4
  <1>4. CASE StepClock
    <2> DEFINE Set(e) == [since[e] EXCEPT !.slept = 0, !.stepped = TRUE,
                                          !.back = @ \/ clock' < clock]
    <2>a. /\ unread_disks = {} /\ clock' \in 1..MaxClock
          /\ since' = [e \in Disks |-> Set(e)]
          /\ UNCHANGED <<requests, attached_disks, now, unread_disks, last_samples, last_time, disk_info>>
      BY <1>4, Zenon DEF StepClock
    <2>b. \A e \in Disks : /\ Set(e) \in Since /\ Set(e).stepped
                           /\ ~Set(e).back => ~since[e].back /\ ~(clock' < clock)
                           /\ Set(e).restarted = since[e].restarted /\ Set(e).reads = since[e].reads
      <3> SUFFICES ASSUME NEW e \in Disks
                   PROVE  /\ Set(e) \in Since /\ Set(e).stepped
                          /\ ~Set(e).back => ~since[e].back /\ ~(clock' < clock)
                          /\ Set(e).restarted = since[e].restarted /\ Set(e).reads = since[e].reads
        OBVIOUS
      <3>1. since[e] \in Since
        BY DEF DiskTypes
      <3>. QED BY <3>1, SetTyped, ZenonT(30)
    <2> HIDE DEF Set
    <2>0. clock' \in Nat /\ clock \in Nat
      BY <2>a DEF DiskTypes
    <2>1. \A e \in Disks :
            /\ since'[e].stepped
            /\ ~since'[e].back => ~since[e].back /\ clock <= clock'
            /\ since'[e].restarted = since[e].restarted /\ since'[e].reads = since[e].reads
      BY <2>a, <2>b, <2>0
    <2>2. since' \in [Disks -> Since]
      BY <2>a, <2>b
    <2>3. DiskTypes'
      BY <2>a, <2>0, <2>2 DEF DiskTypes
    <2>4. TimeInv'
      <3> SUFFICES ASSUME NEW e \in DOMAIN last_time
                   PROVE  ~since'[e].back => last_time[e] <= clock'
        BY <2>a, <2>1, <2>3 DEF DiskTypes, TimeInv
      <3>1. e \in Disks /\ last_time[e] \in Nat
        BY <2>a DEF DiskTypes
      <3>. QED BY <2>0, <2>1, <3>1 DEF TimeInv
    <2>5. ReadsInv'
      BY <2>a, <2>1 DEF DiskTypes, ReadsInv
    <2>. QED BY <2>3, <2>4, <2>5
  <1>. QED BY <1>1, <1>2, <1>3, <1>4

LEMMA UpdateInv ==
  ASSUME DiskInv, DiskNow \/ \E d \in Disks : DiskLine(d) \/ SkipLine(d)
  PROVE  DiskInv'
  <1> USE DEF DiskInv
  <1>1. CASE DiskNow
    <2> USE <1>1 DEF DiskNow
    <2>1. \A e \in Disks :
            /\ since'[e].slept = IF since[e].stepped THEN since[e].slept ELSE since[e].slept + 1
            /\ since'[e].stepped = since[e].stepped /\ since'[e].back = since[e].back
            /\ since'[e].restarted = since[e].restarted /\ since'[e].reads = since[e].reads
      BY DEF DiskTypes, Since
    <2>2. since' \in [Disks -> Since]
      <3>1. \A e \in Disks : [since[e] EXCEPT !.slept = @ + 1] \in Since
        BY SleptTyped DEF DiskTypes
      <3>. QED BY <3>1 DEF DiskTypes
    <2>3. DiskTypes'
      BY <2>2 DEF DiskTypes
    <2>4. TimeInv'
      <3> SUFFICES ASSUME NEW e \in DOMAIN last_time
                   PROVE  /\ ~since'[e].back => last_time[e] < clock' /\ last_time[e] <= clock'
                          /\ ~since'[e].stepped => last_time[e] + since'[e].slept = clock'
        BY <2>3 DEF DiskTypes, TimeInv
      <3>1. e \in Disks /\ last_time[e] \in Nat /\ clock \in Nat /\ since[e].slept \in Nat
        BY DEF DiskTypes, Since
      <3>. QED BY <2>1, <3>1 DEF TimeInv
    <2>5. ReadsInv'
      BY <2>1 DEF DiskTypes, ReadsInv
    <2>. QED BY <2>3, <2>4, <2>5
  <1>2. ASSUME NEW d \in Disks, DiskLine(d) PROVE DiskInv'
    <2> DEFINE curr == Parse(Line(d))
    <2>1. /\ d \in unread_disks /\ unread_disks' = unread_disks \ {d}
          /\ last_samples' = Stored(last_samples, d, curr) /\ last_time' = Stored(last_time, d, now)
          /\ since' = [since EXCEPT ![d] = Nothing]
          /\ UNCHANGED <<requests, attached_disks, clock, now>>
      BY <1>2 DEF DiskLine, SampleKept, TimeKept, diskKernel
    <2>2. curr.reads = requests[d].reads /\ curr.sectors_read = requests[d].reads
      BY ParsedReads
    <2> HIDE DEF curr
    <2>3. /\ DOMAIN last_samples' = DOMAIN last_samples \cup {d}
          /\ DOMAIN last_time' = DOMAIN last_time \cup {d}
          /\ \A e \in DOMAIN last_time' :
               /\ last_samples'[e] = IF e = d THEN curr ELSE last_samples[e]
               /\ last_time'[e] = IF e = d THEN now ELSE last_time[e]
      BY <2>1 DEF Stored, DiskTypes
    <2>4. since' \in [Disks -> Since] /\ since'[d] = Nothing
          /\ \A e \in Disks \ {d} : since'[e] = since[e]
      BY <2>1 DEF DiskTypes, Since, Nothing
    <2>5. now = clock /\ requests[d].reads \in Nat
      BY <2>1 DEF TimeInv, DiskTypes
    <2>6. DiskTypes'
      BY <2>1, <2>2, <2>3, <2>4, <2>5 DEF DiskTypes
    <2>7. TimeInv'
      BY <2>1, <2>3, <2>4, <2>5 DEF TimeInv, DiskTypes, Nothing
    <2>8. ReadsInv'
      BY <2>1, <2>2, <2>3, <2>4, <2>5 DEF ReadsInv, DiskTypes, Nothing
    <2>. QED BY <2>6, <2>7, <2>8
  <1>3. ASSUME NEW d \in Disks, SkipLine(d) PROVE DiskInv'
    BY <1>3 DEF SkipLine, diskKernel, DiskTypes, TimeInv, ReadsInv
  <1>. QED BY <1>1, <1>2, <1>3

LEMMA DiskInvPreserved == DiskInv /\ [DiskNext]_diskVars => DiskInv'
  <1>1. DiskInv /\ UNCHANGED diskVars => DiskInv'
    BY DEF diskVars, diskKernel, DiskInv, DiskTypes, TimeInv, ReadsInv
  <1>. QED BY <1>1, HostInv, UpdateInv DEF DiskNext

\* The inductive invariant that the theorems about the rates rest on: the kept
\* time against the clock, and the kept counters against those of the disk.
THEOREM DiskInvariant == DiskSpec => []DiskInv
  BY DiskInvInit, DiskInvPreserved, PTL DEF DiskSpec

-----------------------------------------------------------------------------
\* A line that is reported is read by UpdateOnce in this step.
LEMMA ReportedByLine ==
  ASSUME DiskNext, NEW d \in Disks, Reported(d)
  PROVE  DiskLine(d)
  BY DEF DiskNext, Reported, Request, Detach, Attach, StepClock, DiskNow, DiskLine, SkipLine,
         diskKernel

LEMMA EntryOfLine ==
  ASSUME NEW d \in Disks, DiskLine(d)
  PROVE  /\ disk_info'[d].dt = IF Comparable(d) THEN now - LastTime(d) ELSE 0
         /\ Comparable(d) => disk_info'[d].rates = Differences(Parse(Line(d)), last_samples[d])
  <1> DEFINE entry ==
        [counters |-> Parse(Line(d)),
         rates |-> IF Comparable(d) THEN Differences(Parse(Line(d)), last_samples[d])
                                    ELSE [f \in SampleNames |-> 0],
         dt |-> IF Comparable(d) THEN now - LastTime(d) ELSE 0,
         behind |-> requests[d]]
  <1>1. disk_info' = Stored(disk_info, d, entry)
    BY DEF DiskLine
  <1> HIDE DEF entry
  <1>2. disk_info'[d] = entry
    BY <1>1 DEF Stored
  <1>. QED BY <1>2 DEF entry

\* For any disks and any steps of the clock: only the first line of a disk, or
\* the first one after the clock was set back, has no rates.
THEOREM RatesMissOneRound == DiskSpec => OneRoundPerStepBack
  <1>1. DiskInv /\ [DiskNext]_diskVars
          => [\A d \in Disks : Reported(d) /\ disk_info'[d].dt = 0 =>
                d \notin DOMAIN last_samples \/ since[d].back]_diskVars
    <2> SUFFICES ASSUME DiskInv, DiskNext, NEW d \in Disks, Reported(d), disk_info'[d].dt = 0,
                        d \in DOMAIN last_samples, ~since[d].back
                 PROVE  FALSE
      OBVIOUS
    <2>1. disk_info'[d].dt = IF Comparable(d) THEN now - LastTime(d) ELSE 0
      BY EntryOfLine, ReportedByLine
    <2>2. d \in DOMAIN last_time /\ d \in unread_disks /\ last_time[d] \in Nat /\ now \in Nat
      BY DEF DiskInv, DiskTypes, Reported
    <2>3. last_time[d] < now
      BY <2>2 DEF DiskInv, TimeInv
    <2>. QED BY <2>1, <2>2, <2>3 DEF Comparable, LastTime
  <1>. QED BY <1>1, DiskInvariant, PTL DEF DiskSpec, OneRoundPerStepBack

\* For any disks, any requests below 2^64 and any steps of the clock: a rate is
\* over a positive time, the time slept if the clock was left alone, and counts
\* what the disk has read since its previous line.
THEOREM RatesCountTheirInterval == DiskSpec => RatesAreOfTheirInterval
  <1>1. DiskInv /\ [DiskNext]_diskVars
          => [\A d \in Disks : Reported(d) /\ disk_info'[d].dt # 0 =>
                /\ disk_info'[d].dt > 0
                /\ ~since[d].restarted => /\ disk_info'[d].rates.reads = since[d].reads
                                          /\ disk_info'[d].rates.sectors_read = since[d].reads
                /\ ~since[d].stepped => disk_info'[d].dt = since[d].slept]_diskVars
    <2> SUFFICES ASSUME DiskInv, DiskNext, NEW d \in Disks, Reported(d), disk_info'[d].dt # 0
                 PROVE  /\ disk_info'[d].dt > 0
                        /\ ~since[d].restarted => /\ disk_info'[d].rates.reads = since[d].reads
                                                  /\ disk_info'[d].rates.sectors_read = since[d].reads
                        /\ ~since[d].stepped => disk_info'[d].dt = since[d].slept
      OBVIOUS
    <2> DEFINE curr == Parse(Line(d))
    <2>1. /\ Comparable(d)
          /\ disk_info'[d].dt = now - LastTime(d)
          /\ disk_info'[d].rates = Differences(curr, last_samples[d])
      <3>1. DiskLine(d)
        BY ReportedByLine
      <3>2. disk_info'[d].dt # 0 => Comparable(d)
        BY <3>1, EntryOfLine
      <3>. QED BY <3>1, <3>2, EntryOfLine
    <2>2. /\ d \in DOMAIN last_time /\ d \in unread_disks
          /\ LastTime(d) = last_time[d] /\ last_time[d] \in Nat /\ now \in Nat
          /\ last_samples[d].reads \in Nat /\ last_samples[d].sectors_read = last_samples[d].reads
          /\ since[d].reads \in Nat /\ since[d].slept \in Nat
          /\ requests[d].reads \in Nat /\ requests[d].reads <= MaxRequests[d] /\ MaxRequests[d] \in Nat
      BY <2>1 DEF DiskInv, DiskTypes, Reported, Comparable, LastTime, Since
    <2>3. disk_info'[d].dt > 0
      BY <2>1, <2>2 DEF Comparable
    <2>4. ASSUME ~since[d].stepped PROVE disk_info'[d].dt = since[d].slept
      BY <2>1, <2>2, <2>4 DEF DiskInv, TimeInv
    <2>5. ASSUME ~since[d].restarted
          PROVE  /\ disk_info'[d].rates.reads = since[d].reads
                 /\ disk_info'[d].rates.sectors_read = since[d].reads
      <3>1. curr.reads = requests[d].reads /\ curr.sectors_read = requests[d].reads
        BY ParsedReads DEF DiskInv
      <3> HIDE DEF curr
      <3>2. curr.reads - last_samples[d].reads = since[d].reads /\ since[d].reads < DiskWrap
        BY <2>2, <2>5, <3>1 DEF DiskInv, ReadsInv
      <3>3. "reads" \in SampleNames /\ "sectors_read" \in SampleNames
        <4>1. DiskSample[1] = "reads" /\ DiskSample[3] = "sectors_read"
          BY DEF DiskSample
        <4>. QED BY <4>1 DEF SampleNames
      <3>4. since[d].reads % DiskWrap = since[d].reads
        BY <2>2, <3>2, SmallMod
      <3>. QED BY <2>1, <2>2, <3>1, <3>2, <3>3, <3>4 DEF Differences, DiskMinus
    <2>. QED BY <2>3, <2>4, <2>5
  <1>. QED BY <1>1, DiskInvariant, PTL DEF DiskSpec, RatesAreOfTheirInterval

-----------------------------------------------------------------------------
\* A line that is parsed holds natural numbers in every field.
LEMMA ParsedTypes ==
  ASSUME NEW d \in Disks, requests[d] \in [reads : Nat, writes : Nat]
  PROVE  Parse(Line(d)) \in [SampleNames -> Nat]
  <1>1. \A n \in 1..9 : Line(d)[n] \in Nat
    BY DEF Line
  <1>2. \A f \in SampleNames : (CHOOSE n \in 1..9 : DiskSample[n] = f) \in 1..9
    BY DEF SampleNames
  <1>. QED BY <1>1, <1>2 DEF Parse

LEMMA DifferencesTypes ==
  ASSUME NEW curr \in [SampleNames -> Nat], NEW last \in [SampleNames -> Nat]
  PROVE  Differences(curr, last) \in [SampleNames -> 0 .. DiskWrap - 1]
  <1>1. \A x, y \in Nat : DiskMinus(x, y) \in 0 .. DiskWrap - 1
    BY DEF DiskMinus
  <1>. QED BY <1>1 DEF Differences

\* A line that UpdateOnce reads keeps the types of the samples and the report.
LEMMA LineTypes ==
  ASSUME DiskInv, DiskTypeOK, NEW d \in Disks, DiskLine(d)
  PROVE  DiskTypeOK'
  <1> USE DEF DiskTypeOK
  <1> DEFINE curr == Parse(Line(d))
             rates == IF Comparable(d) THEN Differences(curr, last_samples[d])
                                       ELSE [f \in SampleNames |-> 0]
             entry == [counters |-> curr, rates |-> rates,
                       dt |-> IF Comparable(d) THEN now - LastTime(d) ELSE 0,
                       behind |-> requests[d]]
  <1>1. /\ d \in unread_disks /\ d \notin Virtual /\ unread_disks' = unread_disks \ {d}
        /\ disk_info' = Stored(disk_info, d, entry)
        /\ last_samples' = Stored(last_samples, d, curr) /\ last_time' = Stored(last_time, d, now)
        /\ UNCHANGED <<requests, attached_disks, clock, now>>
    BY DEF DiskLine, SampleKept, TimeKept, diskKernel
  <1>2. curr \in [SampleNames -> Nat]
    BY ParsedTypes
  <1> HIDE DEF curr
  <1>3. rates \in [SampleNames -> 0 .. DiskWrap - 1]
    <2>1. CASE Comparable(d)
      <3>1. last_samples[d] \in [SampleNames -> Nat]
        BY <2>1 DEF Comparable
      <3>. QED BY <1>2, <2>1, <3>1, DifferencesTypes
    <2>2. CASE ~Comparable(d)
      BY <2>2
    <2>. QED BY <2>1, <2>2
  <1>4. entry.rates = rates
    OBVIOUS
  <1> HIDE DEF rates, entry
  <1>5. /\ DOMAIN disk_info' = DOMAIN disk_info \cup {d}
        /\ \A e \in DOMAIN disk_info' : disk_info'[e] = IF e = d THEN entry ELSE disk_info[e]
        /\ DOMAIN last_samples' = DOMAIN last_samples \cup {d}
        /\ \A e \in DOMAIN last_samples' : last_samples'[e] = IF e = d THEN curr ELSE last_samples[e]
        /\ DOMAIN last_time' = DOMAIN last_time \cup {d}
        /\ \A e \in DOMAIN last_time' : last_time'[e] = IF e = d THEN now ELSE last_time[e]
    BY <1>1 DEF Stored
  <1>6. now \in 1..MaxClock
    BY <1>1 DEF DiskInv, TimeInv
  <1>7. \A e \in DOMAIN disk_info' : disk_info'[e].rates \in [SampleNames -> 0 .. DiskWrap - 1]
    BY <1>3, <1>4, <1>5
  <1>8. \A e \in DOMAIN last_samples' : last_samples'[e] \in [SampleNames -> Nat] /\ last_time'[e] \in 1..MaxClock
    BY <1>2, <1>5, <1>6
  <1>. QED BY <1>1, <1>5, <1>7, <1>8

\* All variables of the disk monitor keep their types: only disks that are not
\* virtual are sampled, and a rate is a u64.
THEOREM DiskTypesHold == DiskSpec => []DiskTypeOK
  <1>1. DiskInit => DiskTypeOK
    BY DEF DiskInit, DiskTypeOK, NoRequests, NoEntry
  <1>2. DiskInv /\ DiskInv' /\ DiskTypeOK /\ [DiskNext]_diskVars => DiskTypeOK'
    <2> SUFFICES ASSUME DiskInv, DiskInv', DiskTypeOK, [DiskNext]_diskVars PROVE DiskTypeOK'
      OBVIOUS
    <2>0. requests' \in [Disks -> [reads : Nat, writes : Nat]]
      BY DEF DiskInv, DiskTypes
    <2>1. CASE UNCHANGED diskVars
      BY <2>1 DEF diskVars, diskKernel, DiskTypeOK
    <2>2. ASSUME NEW d \in Disks,
                 Request(d, "reads") \/ Request(d, "writes") \/ Detach(d) \/ Attach(d) \/ SkipLine(d)
          PROVE  DiskTypeOK'
      BY <2>0, <2>2 DEF Request, Detach, Attach, SkipLine, diskKernel, DiskTypeOK
    <2>3. CASE StepClock
      <3>1. /\ clock' \in 1..MaxClock
            /\ UNCHANGED <<requests, attached_disks, now, unread_disks, last_samples, last_time, disk_info>>
        BY <2>3, Zenon DEF StepClock
      <3>. QED BY <2>0, <3>1 DEF DiskTypeOK
    <2>4. CASE DiskNow
      <3>1. /\ clock < MaxClock /\ clock' = clock + 1 /\ now' = clock + 1
            /\ unread_disks' = attached_disks /\ disk_info' = NoEntry
            /\ UNCHANGED <<requests, attached_disks, last_samples, last_time>>
        BY <2>4, Zenon DEF DiskNow
      <3>2. clock' \in 1..MaxClock /\ now' \in 0..MaxClock
        BY <3>1 DEF DiskTypeOK
      <3>. QED BY <2>0, <3>1, <3>2 DEF DiskTypeOK, NoEntry
    <2>. QED BY <2>1, <2>2, <2>3, <2>4, LineTypes DEF DiskNext
  <1>. QED BY <1>1, <1>2, DiskInvariant, DiskInvPreserved, PTL DEF DiskSpec

-----------------------------------------------------------------------------
(* The five monitors. *)

LEMMA MonitorsSteps ==
  [MonitorsNext]_monitorsVars =>
    /\ [Next]_vars /\ [LoadNext]_loadVars /\ [SoftIrqNext]_softirqVars
    /\ [DiskNext]_diskVars /\ [MemNext]_memVars
  <1> SUFFICES ASSUME [MonitorsNext]_monitorsVars
               PROVE  /\ [Next]_vars /\ [LoadNext]_loadVars /\ [SoftIrqNext]_softirqVars
                      /\ [DiskNext]_diskVars /\ [MemNext]_memVars
    OBVIOUS
  <1>1. CASE UNCHANGED monitorsVars
    BY <1>1, Zenon DEF monitorsVars
  <1>2. CASE MonitorsNext
    BY <1>2, Zenon DEF MonitorsNext
  <1>. QED BY <1>1, <1>2

\* Whichever monitor a behaviour of the composition runs, it is a behaviour of
\* each of them: what is proved of one monitor alone holds in the composition.
THEOREM MonitorsRunEach ==
  MonitorsSpec => Spec /\ LoadSpec /\ SoftIrqSpec /\ DiskSpec /\ MemSpec
  <1>1. MonitorsInit => Init /\ LoadInit /\ SoftIrqInit /\ DiskInit /\ MemInit
    BY DEF MonitorsInit
  <1>. QED BY <1>1, MonitorsSteps, PTL DEF MonitorsSpec, Spec, LoadSpec, SoftIrqSpec, DiskSpec, MemSpec

\* All variables of all five monitors keep their types.
THEOREM MonitorsTypesHold == MonitorsSpec => []MonitorsTypeOK
  BY MonitorsRunEach, CpuTypes, LoadTypes, SoftIrqTypesHold, DiskTypesHold, MemTypes, PTL
     DEF MonitorsTypeOK

\* What each monitor guarantees by itself it guarantees among the others.
THEOREM MonitorsAreSafe ==
  MonitorsSpec =>
    /\ [](TimesDoNotRunBackwards /\ ShareUnlessRewritten /\ SamplesOfTheirCpu)
    /\ [](LoadsAreFresh /\ SoftIrqPageOutlivesUsers /\ CpusBeforeAGapAreReported)
    /\ []ShownFieldsAreReported
    /\ IntervalsAdjoin /\ CountersGoBackOnlyByReload
    /\ RatesAreOfTheirInterval /\ OneRoundPerStepBack
  BY MonitorsRunEach, TimesGoForward, ShareOfTheTime, CpuSamplesOfTheirCpu, IntervalsMeet,
     LoadsStayFresh, SoftIrqPageIsThere, ReportsEndAtAGap, CountersGrowInReports,
     ReportedAsShown, RatesCountTheirInterval, RatesMissOneRound, PTL
=============================================================================
