-------------------------- MODULE OrderSizingProofs --------------------------
(***************************************************************************)
(* What the arithmetic of OrderSizing promises for every intent, policy    *)
(* and fill.  A sum is a recursive function; a fact about all its values   *)
(* is proved by refuting a least counterexample, which the well-founded    *)
(* order of the naturals provides.                                         *)
(***************************************************************************)
EXTENDS OrderSizing, WellFoundedInduction, TLAPS

\* A set of naturals that is not empty has a least element.
LEMMA LeastNatural ==
  ASSUME NEW T \in SUBSET Nat, T # {}
  PROVE  \E x \in T : \A y \in T : ~(y < x)
  <1>1. \E x \in T : \A y \in T : ~(<< y, x >> \in OpToRel(<, Nat))
    BY NatLessThanWellFounded, WFMin
  <1> QED BY <1>1 DEF OpToRel

\* The n terms of a sum.
Terms(n) == [1 .. n -> Int]

\* g holds the partial sums of f up to n.
Summing(f, n, g) ==
  g = [k \in 0 .. n |-> IF k = 0 THEN 0 ELSE g[k - 1] + f[k]]

\* The same, unfolded.
PartialSumsAre(f, n, g) ==
  /\ g \in [0 .. n -> Int]
  /\ g[0] = 0
  /\ \A k \in 1 .. n : g[k] = g[k - 1] + f[k]

\* Partial sums exist.
LEMMA PartialSums ==
  ASSUME NEW n \in Nat, NEW f \in Terms(n)
  PROVE  \E g : Summing(f, n, g)
  <1> DEFINE T == { m \in 0 .. n : ~ \E g : Summing(f, m, g) }
  <1>1. SUFFICES ASSUME ~ \E g : Summing(f, n, g) PROVE FALSE
    OBVIOUS
  <1>2. T # {}
    <2>1. n \in 0 .. n
      OBVIOUS
    <2> QED BY <2>1, <1>1, Zenon
  <1>3. PICK x \in T : \A y \in T : ~(y < x)
    <2>1. T \in SUBSET Nat
      OBVIOUS
    <2> HIDE DEF T
    <2> QED BY <2>1, <1>2, LeastNatural
  <1>4. CASE x = 0
    <2>1. Summing(f, 0, [k \in 0 .. 0 |-> 0])
      BY DEF Summing
    <2> QED BY <2>1, <1>3, <1>4
  <1>5. CASE x > 0
    <2>1. x \in 1 .. n /\ x - 1 \in 0 .. n /\ ~(x - 1 \in T)
      BY <1>3, <1>5
    <2>2. PICK g : Summing(f, x - 1, g)
      BY <2>1
    <2> DEFINE h == [k \in 0 .. x |-> IF k = x THEN g[x - 1] + f[x] ELSE g[k]]
    <2>3. \A k \in 0 .. x - 1 :
            g[k] = IF k = 0 THEN 0 ELSE g[k - 1] + f[k]
      BY <2>2 DEF Summing
    <2>4. h = [k \in 0 .. x |-> IF k = 0 THEN 0 ELSE h[k - 1] + f[k]]
      <3>1. ASSUME NEW k \in 0 .. x
            PROVE  h[k] = IF k = 0 THEN 0 ELSE h[k - 1] + f[k]
        <4>1. CASE k = x
          BY <2>1, <4>1
        <4>2. CASE k # x /\ k # 0
          <5>1. k \in 0 .. x - 1 /\ k - 1 \in 0 .. x /\ k - 1 # x
            BY <2>1, <4>2
          <5> QED BY <5>1, <4>2, <2>3
        <4>3. CASE k # x /\ k = 0
          <5>1. k \in 0 .. x - 1
            BY <2>1, <4>3
          <5> QED BY <5>1, <4>3, <2>3
        <4> QED BY <4>1, <4>2, <4>3
      <3> QED BY <3>1
    <2>5. Summing(f, x, h)
      BY <2>4 DEF Summing
    <2> QED BY <2>5, <1>3
  <1> QED BY <1>3, <1>4, <1>5

\* Total is the last of the partial sums.
LEMMA TotalIsLast ==
  ASSUME NEW n \in Nat, NEW f \in Terms(n)
  PROVE  \E g : Total(f, n) = g[n] /\ PartialSumsAre(f, n, g)
  <1> DEFINE h == CHOOSE g : Summing(f, n, g)
  <1>1. Summing(f, n, h)
    BY PartialSums
  <1>2. Total(f, n) = h[n]
    BY Zenon DEF Total, Summing
  <1> HIDE DEF h
  <1>3. /\ DOMAIN h = 0 .. n
        /\ \A k \in 0 .. n : h[k] = IF k = 0 THEN 0 ELSE h[k - 1] + f[k]
    BY <1>1 DEF Summing
  <1>4. \A k \in 0 .. n : h[k] \in Int
    <2>0. \A k \in 1 .. n : f[k] \in Int
      BY DEF Terms
    <2> DEFINE T == { k \in 0 .. n : h[k] \notin Int }
    <2>1. SUFFICES ASSUME T # {} PROVE FALSE
      OBVIOUS
    <2>2. PICK x \in T : \A y \in T : ~(y < x)
      <3>1. T \in SUBSET Nat
        OBVIOUS
      <3> HIDE DEF T
      <3> QED BY <3>1, <2>1, LeastNatural
    <2>3. x # 0
      BY <1>3, <2>2
    <2>4. x \in 1 .. n /\ x - 1 \in 0 .. n /\ h[x - 1] \in Int
      BY <2>2, <2>3
    <2> QED BY <2>0, <2>2, <2>3, <2>4, <1>3
  <1>5. h = [k \in 0 .. n |-> h[k]]
    BY <1>1 DEF Summing
  <1>6. h \in [0 .. n -> Int]
    BY <1>4, <1>5
  <1>7. h[0] = 0 /\ \A k \in 1 .. n : h[k] = h[k - 1] + f[k]
    BY <1>3
  <1> QED BY <1>2, <1>6, <1>7 DEF PartialSumsAre

\* Term by term, a times f is at most c times p.
Within(a, f, c, p, n) == \A k \in 1 .. n : a * f[k] <= c * p[k]

\* What relates every term relates the totals.
LEMMA ScaledTotals ==
  ASSUME NEW n \in Nat, NEW f \in Terms(n), NEW p \in Terms(n),
         NEW a \in Int, NEW c \in Int,
         Within(a, f, c, p, n)
  PROVE  /\ Total(f, n) \in Int /\ Total(p, n) \in Int
         /\ a * Total(f, n) <= c * Total(p, n)
  <1>1. PICK g : Total(f, n) = g[n] /\ PartialSumsAre(f, n, g)
    BY TotalIsLast
  <1>2. PICK h : Total(p, n) = h[n] /\ PartialSumsAre(p, n, h)
    BY TotalIsLast
  <1>3. \A k \in 0 .. n : a * g[k] <= c * h[k]
    <2> DEFINE T == { k \in 0 .. n : ~(a * g[k] <= c * h[k]) }
    <2>1. SUFFICES ASSUME T # {} PROVE FALSE
      OBVIOUS
    <2>2. PICK x \in T : \A y \in T : ~(y < x)
      <3>1. T \in SUBSET Nat
        OBVIOUS
      <3> HIDE DEF T
      <3> QED BY <3>1, <2>1, LeastNatural
    <2>3. x # 0
      BY <1>1, <1>2, <2>2 DEF PartialSumsAre
    <2>4. x \in 1 .. n /\ x - 1 \in 0 .. n /\ a * g[x - 1] <= c * h[x - 1]
      BY <2>2, <2>3
    <2>5. /\ g[x] = g[x - 1] + f[x] /\ h[x] = h[x - 1] + p[x]
          /\ {g[x - 1], f[x], h[x - 1], p[x]} \subseteq Int
      BY <2>4, <1>1, <1>2 DEF PartialSumsAre, Terms
    <2>6. a * f[x] <= c * p[x]
      BY <2>4 DEF Within
    <2>7. \A u, v, w, z \in Int : a * u <= c * w /\ a * v <= c * z
                                    => a * (u + v) <= c * (w + z)
      BY ONLY a \in Int, c \in Int
    <2>8. a * g[x] <= c * h[x]
      BY <2>4, <2>5, <2>6, <2>7
    <2> QED BY <2>8, <2>2
  <1>4. n \in 0 .. n /\ g[n] \in Int /\ h[n] \in Int
    BY <1>1, <1>2 DEF PartialSumsAre
  <1> QED BY <1>1, <1>2, <1>3, <1>4

-----------------------------------------------------------------------------
LEMMA TypedFields ==
  ASSUME NEW i, Typed(i)
  PROVE  /\ i.notional \in Int /\ i.reference \in Int /\ i.risk \in Int
         /\ i.stop \in Int /\ i.slippage \in Nat /\ i.targets \in Seq(Target)
         /\ i.side \in { "long", "short" }
  BY DEF Typed

\* What the targets of an intent sell of a fill, rounded toward zero.
Sold(i, fill) ==
  Total([k \in DOMAIN i.targets |-> LegLots(i, fill, k)], Len(i.targets))

\* establish_protection rounds the share of every target toward zero: of a
\* valid intent's fill the targets together sell no more than there is.  The
\* shares must not overflow the sixteen bits validate sums them in; a fill of
\* nothing needs no valid intent.
THEOREM TargetsShareAFill ==
  ASSUME NEW i, Typed(i), NEW fill \in Nat,
         TargetsValid(i) \/ fill = 0, PartsTotal(i) < Words
  PROVE  Sold(i, fill) <= fill
  <1> DEFINE n == Len(i.targets)
             p == [k \in DOMAIN i.targets |-> i.targets[k].pct]
             f == [k \in DOMAIN i.targets |-> LegLots(i, fill, k)]
  <1>1. /\ n \in Nat /\ DOMAIN i.targets = 1 .. n
        /\ \A k \in 1 .. n : i.targets[k].pct \in 0 .. 255
    <2>1. i.targets \in Seq(Target)
      BY TypedFields
    <2>2. \A q \in Target : q.pct \in 0 .. 255
      BY DEF Target
    <2>3. n \in Nat /\ DOMAIN i.targets = 1 .. n
      BY <2>1
    <2>4. \A k \in 1 .. n : i.targets[k] \in Target
      BY <2>1
    <2> QED BY <2>2, <2>3, <2>4
  <1>2. ASSUME NEW k \in 1 .. n
        PROVE  /\ p[k] \in 0 .. 255 /\ f[k] \in Int
               /\ 100 * f[k] <= fill * p[k]
    <2> DEFINE q == i.targets[k].pct
    <2>1. p[k] = q /\ f[k] = (fill * q) \div 100 /\ q \in 0 .. 255
      BY <1>1 DEF LegLots
    <2> HIDE DEF p, f, n, q
    <2>2. fill * q \in Nat
      BY <2>1
    <2>3. \A x \in Nat : x \div 100 \in Int /\ 100 * (x \div 100) <= x
      BY ONLY TRUE
    <2>4. (fill * q) \div 100 \in Int /\ 100 * ((fill * q) \div 100) <= fill * q
      BY <2>2, <2>3
    <2> QED BY <2>1, <2>4
  <1>3. p \in Terms(n) /\ f \in Terms(n)
    <2>1. p = [k \in 1 .. n |-> p[k]] /\ f = [k \in 1 .. n |-> f[k]]
      BY <1>1
    <2> HIDE DEF p, f, n
    <2>2. \A k \in 1 .. n : p[k] \in Int /\ f[k] \in Int
      BY <1>2
    <2> QED BY <2>1, <2>2 DEF Terms
  <1>4. Sold(i, fill) = Total(f, n) /\ PartsTotal(i) = Total(p, n)
    BY DEF Sold, PartsTotal
  <1> HIDE DEF n, p, f
  <1>5. Within(100, f, fill, p, n)
    BY <1>2 DEF Within
  <1>6. Within(0, f, 1, p, n)
    BY <1>2 DEF Within
  <1>7. /\ Total(f, n) \in Int /\ Total(p, n) \in Int
        /\ 100 * Total(f, n) <= fill * Total(p, n)
    BY <1>1, <1>3, <1>5, ScaledTotals
  <1>8. 0 * Total(f, n) <= 1 * Total(p, n)
    BY <1>1, <1>3, <1>6, ScaledTotals
  <1>9. 0 <= Total(p, n)
    BY <1>7, <1>8
  <1>10. CASE fill = 0
    BY <1>4, <1>7, <1>10
  <1>11. CASE TargetsValid(i)
    <2>1. Total(p, n) % Words = 100
      BY <1>4, <1>11 DEF TargetsValid
    <2>2. Words \in Nat
      BY SMT DEF Words
    <2>3. Total(p, n) = 100
      BY <2>1, <2>2, <1>4, <1>7, <1>9
    <2> QED BY <2>3, <1>4, <1>7
  <1> QED BY <1>10, <1>11

-----------------------------------------------------------------------------
LEMMA LeastOfTwo ==
  ASSUME NEW a \in Int, NEW b \in Int
  PROVE  /\ Min({a, b}) \in Int
         /\ \A x \in Int : x <= Min({a, b}) <=> x <= a /\ x <= b
  <1>1. \E m \in {a, b} : \A y \in {a, b} : m <= y
    <2>1. CASE a <= b
      BY <2>1
    <2>2. CASE b <= a
      BY <2>2
    <2> QED BY <2>1, <2>2
  <1>2. /\ Min({a, b}) \in {a, b}
        /\ \A y \in {a, b} : Min({a, b}) <= y
    BY <1>1 DEF Min
  <1> QED BY <1>2

LEMMA LeastOfThree ==
  ASSUME NEW a \in Int, NEW b \in Int, NEW c \in Int
  PROVE  /\ Min({a, b, c}) \in Int
         /\ \A x \in Int : x <= Min({a, b, c}) <=> x <= a /\ x <= b /\ x <= c
  <1>1. \E m \in {a, b, c} : \A y \in {a, b, c} : m <= y
    <2>1. CASE a <= b /\ a <= c
      BY <2>1
    <2>2. CASE b <= a /\ b <= c
      BY <2>2
    <2>3. CASE c <= a /\ c <= b
      BY <2>3
    <2> QED BY <2>1, <2>2, <2>3
  <1>2. /\ Min({a, b, c}) \in {a, b, c}
        /\ \A y \in {a, b, c} : Min({a, b, c}) <= y
    BY <1>1 DEF Min
  <1> QED BY <1>2

\* A larger factor, a larger product.
LEMMA Scaled ==
  ASSUME NEW a \in Int, NEW b \in Int, NEW c \in Nat, a <= b
  PROVE  a * c \in Int /\ b * c \in Int /\ a * c <= b * c
  OBVIOUS

LEMMA ValidAmounts ==
  ASSUME NEW i, Typed(i), Valid(i)
  PROVE  /\ Distance(i) \in Nat /\ Distance(i) > 0
         /\ i.reference \in Nat /\ i.reference > 0
         /\ i.notional \in Int /\ i.risk \in Int /\ i.slippage \in Nat
  <1>1. /\ i.notional \in Int /\ i.reference \in Int /\ i.risk \in Int
        /\ i.stop \in Int /\ i.slippage \in Nat
    BY TypedFields
  <1>2. i.reference > 0 /\ Worse(i.side, i.stop, i.reference)
    BY DEF Valid, ExitDirectionValid
  <1> QED BY <1>1, <1>2 DEF Distance, Away, Worse

\* evaluate_admission approves the greatest amount within the ceilings of the
\* intent and of the policy: what is within all of them is within it, and the
\* reverse.
THEOREM ApprovedIsGreatest ==
  ASSUME NEW i, Typed(i), Valid(i), NEW l, LimitsTyped(l)
  PROVE  /\ Approved(i, l) \in Int /\ RiskCap(i, l) \in Int
         /\ \A amount \in Int :
              amount <= Approved(i, l) <=>
                /\ amount <= i.notional * Distance(i)
                /\ amount <= l.max * Distance(i)
                /\ amount <= i.risk * i.reference
                /\ amount <= l.risk * i.reference
         /\ Approved(i, l) <= RiskCap(i, l) * i.reference
  <1> DEFINE d == Distance(i)
             r == i.reference
             cap == RiskCap(i, l)
  <1>1. d \in Nat /\ r \in Nat /\ i.notional \in Int /\ i.risk \in Int
    BY ValidAmounts
  <1>2. l.max \in Int /\ l.risk \in Int
    BY DEF LimitsTyped
  <1>3. cap = i.risk \/ cap = l.risk
    <2>1. \A a, b \in Int : Min({a, b}) = a \/ Min({a, b}) = b
      <3>1. SUFFICES ASSUME NEW a \in Int, NEW b \in Int
                     PROVE  Min({a, b}) = a \/ Min({a, b}) = b
        OBVIOUS
      <3>2. CASE a <= b
        <4>1. a \in {a, b} /\ \A y \in {a, b} : a <= y
          BY <3>2
        <4> QED BY <4>1 DEF Min
      <3>3. CASE b <= a
        <4>1. b \in {a, b} /\ \A y \in {a, b} : b <= y
          BY <3>3
        <4> QED BY <4>1 DEF Min
      <3> QED BY <3>2, <3>3
    <2> QED BY <2>1, <1>1, <1>2 DEF RiskCap
  <1>4. cap \in Int /\ cap <= i.risk /\ cap <= l.risk
    BY <1>1, <1>2, <1>3, LeastOfTwo DEF RiskCap
  <1>5. Approved(i, l) = Min({ i.notional * d, l.max * d, cap * r })
    BY DEF Approved
  <1> HIDE DEF d, r, cap
  <1>6. i.notional * d \in Int /\ l.max * d \in Int /\ cap * r \in Int
    BY <1>1, <1>2, <1>4
  <1>7. cap * r <= i.risk * r /\ cap * r <= l.risk * r
    BY <1>1, <1>2, <1>4, Scaled
  <1>8. /\ Approved(i, l) \in Int
        /\ \A x \in Int :
             x <= Approved(i, l) <=>
               x <= i.notional * d /\ x <= l.max * d /\ x <= cap * r
    BY <1>5, <1>6, LeastOfThree
  <1>9. i.risk * r \in Int /\ l.risk * r \in Int
    BY <1>1, <1>2
  <1>10. \A x \in Int : x <= cap * r <=> x <= i.risk * r /\ x <= l.risk * r
    BY <1>3, <1>6, <1>7, <1>9
  <1> QED BY <1>4, <1>6, <1>8, <1>10 DEF d, r, cap

\* The entry, rounded one way or the other, is less than one lot above the
\* amount it was sized from.
LEMMA EntryIsWithinALot ==
  ASSUME NEW i, Typed(i), Valid(i), NEW q \in Nat, NEW n \in EntryLots(i, q)
  PROVE  n \in Nat /\ n * (Distance(i) * i.reference)
                        < q + Distance(i) * i.reference
  <1> DEFINE e == Distance(i) * i.reference
  <1>1. e \in Nat /\ e > 0
    BY ValidAmounts
  <1>2. n = q \div e \/ n = (q + e - 1) \div e
    BY DEF EntryLots
  <1> HIDE DEF e
  <1>3. \A x \in Nat : x \div e \in Nat /\ (x \div e) * e <= x
    BY ONLY <1>1
  <1>4. q + e - 1 \in Nat
    BY <1>1
  <1>5. n \in Nat /\ n * e < q + e
    BY <1>1, <1>2, <1>3, <1>4
  <1> QED BY <1>5 DEF e
=============================================================================
