--------------------------- MODULE TradingProofs ---------------------------
(***************************************************************************)
(* Theorems of modules Sizing and Trading, for any symbols, strategies,    *)
(* prices and percentages, and any number of entries and faults.           *)
(*                                                                         *)
(* The worth of a set of positions is a fold over it, in an order nobody   *)
(* fixed. What the theorems need of it is proved here by induction over    *)
(* subsets: of the sets for which a claim fails, one is smallest.          *)
(***************************************************************************)
EXTENDS Trading, FiniteSetTheorems, WellFoundedInduction, TLAPS

-----------------------------------------------------------------------------
(***************************************************************************)
(* Sizing                                                                  *)
(***************************************************************************)

LEMMA RoundedDown ==
    ASSUME NEW a \in Nat, NEW b \in Nat \ {0}
    PROVE  a \div b \in Nat /\ (a \div b) * b <= a
OBVIOUS

LEMMA FewerStepsCostLess ==
    ASSUME NEW q \in Nat, NEW n \in Nat, q <= n, NEW c \in Nat
    PROVE  q * c <= n * c
OBVIOUS

\* What an accepted request is about.
LEMMA AcceptedIsSound ==
    ASSUME NEW r \in Requests, Accepted(r)
    PROVE  /\ r.entry \in Nat \ {0} /\ r.stop \in Nat \ {0} /\ r.equity \in Nat \ {0}
           /\ r.free \in Nat /\ r.deployed \in Nat /\ r.multiplier \in Nat
           /\ Gap(r.entry, r.stop) \in Nat \ {0}
           /\ ~NoHeadroom(r) /\ r.open < MaxConcurrent
<1>1. ~InvalidLevels(r) /\ ~(r.open >= MaxConcurrent) /\ ~(r.free <= 0) /\ ~NoHeadroom(r)
  BY DEF Accepted, Reason
<1>2. /\ r.entry \in Nat /\ r.stop \in Nat /\ r.equity \in Int /\ r.free \in Int /\ r.deployed \in Nat
      /\ r.multiplier \in 1..100 /\ r.open \in Nat /\ r.side \in {"LONG", "SHORT"}
  BY DEF Requests
<1>3. /\ r.entry # 0 /\ r.stop # 0 /\ r.equity > 0
      /\ r.side = "LONG" => r.stop < r.entry
      /\ r.side = "SHORT" => r.stop > r.entry
  BY <1>1, <1>2 DEF InvalidLevels
<1>4. Gap(r.entry, r.stop) \in Nat \ {0}
  BY <1>2, <1>3 DEF Gap
<1> QED
  BY <1>1, <1>2, <1>3, <1>4, SizingAssumption

LEMMA ProductIsNat == \A a, b \in Nat : a * b \in Nat
OBVIOUS

\* Each bound is a number of steps that costs no more than what it bounds.
LEMMA BoundsHold ==
    ASSUME NEW r \in Requests, Accepted(r)
    PROVE  /\ ByRisk(r) \in Nat
           /\ ByRisk(r) * (10000 * Gap(r.entry, r.stop)) <= r.equity * RiskPct * r.multiplier
           /\ ByPosition(r) \in Nat /\ ByPosition(r) * (100 * r.entry) <= r.equity * PositionPct
           /\ ByCash(r) \in Nat /\ ByCash(r) * r.entry <= r.free
           /\ ByHeadroom(r) \in Nat
           /\ ByHeadroom(r) * (100 * r.entry) <= r.equity * DeployedPct - 100 * r.deployed
<1>1. /\ r.entry \in Nat \ {0} /\ r.equity \in Nat /\ r.free \in Nat /\ r.deployed \in Nat
      /\ r.multiplier \in Nat /\ Gap(r.entry, r.stop) \in Nat \ {0} /\ ~NoHeadroom(r)
  BY AcceptedIsSound
<1>2. RiskPct \in Nat /\ PositionPct \in Nat /\ DeployedPct \in Nat
  BY SizingAssumption
<1>3. 10000 * Gap(r.entry, r.stop) \in Nat \ {0} /\ 100 * r.entry \in Nat \ {0}
  BY <1>1
<1>4. /\ r.equity * RiskPct \in Nat /\ r.equity * RiskPct * r.multiplier \in Nat
      /\ r.equity * PositionPct \in Nat /\ r.equity * DeployedPct \in Nat
  BY <1>1, <1>2, ProductIsNat
<1>5. r.equity * DeployedPct - 100 * r.deployed \in Nat
  BY <1>1, <1>4 DEF NoHeadroom
<1>6. /\ ByRisk(r) \in Nat
      /\ ByRisk(r) * (10000 * Gap(r.entry, r.stop)) <= r.equity * RiskPct * r.multiplier
  BY <1>3, <1>4, RoundedDown DEF ByRisk
<1>7. ByPosition(r) \in Nat /\ ByPosition(r) * (100 * r.entry) <= r.equity * PositionPct
  BY <1>3, <1>4, RoundedDown DEF ByPosition
<1>8. ByCash(r) \in Nat /\ ByCash(r) * r.entry <= r.free
  BY <1>1, RoundedDown DEF ByCash
<1>9. /\ ByHeadroom(r) \in Nat
      /\ ByHeadroom(r) * (100 * r.entry) <= r.equity * DeployedPct - 100 * r.deployed
  BY <1>3, <1>5, RoundedDown DEF ByHeadroom
<1> QED
  BY <1>6, <1>7, <1>8, <1>9

\* The quantity is the least of the four.
LEMMA QuantityIsLeast ==
    ASSUME NEW r \in Requests, Accepted(r)
    PROVE  /\ Quantity(r) \in Nat \ {0}
           /\ Quantity(r) <= ByRisk(r) /\ Quantity(r) <= ByPosition(r)
           /\ Quantity(r) <= ByCash(r) /\ Quantity(r) <= ByHeadroom(r)
<1>1. ByRisk(r) \in Nat /\ ByPosition(r) \in Nat /\ ByCash(r) \in Nat /\ ByHeadroom(r) \in Nat
  BY BoundsHold
<1>2. Quantity(r) # 0
  BY DEF Accepted, Reason
<1> QED
  BY <1>1, <1>2 DEF Quantity, Least

\* RISK-01 to RISK-04 and RISK-09: an accepted size is at least the exchange's minimum, and at
\* its entry price stays within the position cap, the free cash and what is left
\* to deploy; if its stop is hit it loses no more than the risk budget.
THEOREM SizedWithinBounds ==
    ASSUME NEW r \in Requests, Accepted(r)
    PROVE  /\ Quantity(r) \in Nat \ {0} /\ Quantity(r) >= MinQty
           /\ Quantity(r) * (100 * r.entry) <= r.equity * PositionPct
           /\ Quantity(r) * r.entry <= r.free
           /\ Quantity(r) * (100 * r.entry) + 100 * r.deployed <= r.equity * DeployedPct
           /\ Quantity(r) * (10000 * Gap(r.entry, r.stop)) <= r.equity * RiskPct * r.multiplier
<1> DEFINE q == Quantity(r)
           lot == 100 * r.entry
           loss == 10000 * Gap(r.entry, r.stop)
<1>1. q \in Nat \ {0} /\ q <= ByRisk(r) /\ q <= ByPosition(r) /\ q <= ByCash(r) /\ q <= ByHeadroom(r)
  BY QuantityIsLeast
<1>2. /\ ByRisk(r) \in Nat /\ ByRisk(r) * loss <= r.equity * RiskPct * r.multiplier
      /\ ByPosition(r) \in Nat /\ ByPosition(r) * lot <= r.equity * PositionPct
      /\ ByCash(r) \in Nat /\ ByCash(r) * r.entry <= r.free
      /\ ByHeadroom(r) \in Nat /\ ByHeadroom(r) * lot <= r.equity * DeployedPct - 100 * r.deployed
  BY BoundsHold
<1>3. /\ r.entry \in Nat /\ lot \in Nat /\ loss \in Nat /\ r.equity \in Nat /\ r.free \in Nat
      /\ r.deployed \in Nat /\ r.multiplier \in Nat
  BY AcceptedIsSound
<1>4. q >= MinQty
  <2>1. ~(q < MinQty)
    BY DEF Accepted, Reason
  <2> QED
    BY <1>1, <2>1, SizingAssumption
<1>5. /\ r.equity * RiskPct \in Nat /\ r.equity * RiskPct * r.multiplier \in Nat
      /\ r.equity * PositionPct \in Nat /\ r.equity * DeployedPct \in Nat
  BY <1>3, SizingAssumption, ProductIsNat
<1> HIDE DEF q, lot, loss
<1>6. /\ q * loss <= ByRisk(r) * loss /\ q * lot <= ByPosition(r) * lot
      /\ q * r.entry <= ByCash(r) * r.entry /\ q * lot <= ByHeadroom(r) * lot
  BY <1>1, <1>2, <1>3, FewerStepsCostLess
<1>7. /\ q * loss \in Nat /\ ByRisk(r) * loss \in Nat /\ q * lot \in Nat /\ ByPosition(r) * lot \in Nat
      /\ q * r.entry \in Nat /\ ByCash(r) * r.entry \in Nat /\ ByHeadroom(r) * lot \in Nat
  BY <1>1, <1>2, <1>3, ProductIsNat
<1>8. /\ q * loss <= r.equity * RiskPct * r.multiplier
      /\ q * lot <= r.equity * PositionPct /\ q * r.entry <= r.free
  BY <1>2, <1>3, <1>5, <1>6, <1>7
<1>9. q * lot + 100 * r.deployed <= r.equity * DeployedPct
  BY <1>2, <1>3, <1>5, <1>6, <1>7
<1> QED
  BY <1>1, <1>4, <1>8, <1>9 DEF q, lot, loss

-----------------------------------------------------------------------------
(***************************************************************************)
(* Sums over a set                                                         *)
(***************************************************************************)

\* A set of numbers that is not empty has a least one.
LEMMA LeastNumber ==
    ASSUME NEW T \in SUBSET Nat, T # {}
    PROVE  \E m \in T : \A n \in T : m <= n
<1> DEFINE Below == {ss \in Nat \X Nat : ss[1] < ss[2]}
<1>1. IsWellFoundedOn(Below, Nat)
  BY NatLessThanWellFounded DEF OpToRel
<1>2. PICK m \in T : \A n \in T : ~(<<n, m>> \in Below)
  <2> HIDE DEF Below
  <2> QED
    BY <1>1, WFMin
<1>3. ASSUME NEW n \in T PROVE m <= n
  <2>1. <<n, m>> \notin Below /\ n \in Nat /\ m \in Nat
    BY <1>2
  <2> QED
    BY <2>1
<1> QED
  BY <1>3

\* Of some subsets of a finite set one is smallest.
LEMMA SmallestSubset ==
    ASSUME NEW U, IsFiniteSet(U), NEW B \in SUBSET SUBSET U, B # {}
    PROVE  \E S \in B : \A R \in B : ~(R \subseteq S /\ R # S)
<1> DEFINE T == {Cardinality(S) : S \in B}
<1>1. \A S \in B : IsFiniteSet(S) /\ Cardinality(S) \in Nat
  BY FS_Subset, FS_CardinalityType
<1>2. PICK m \in T : \A n \in T : m <= n
  <2>1. T \in SUBSET Nat /\ T # {}
    BY <1>1
  <2> HIDE DEF T
  <2> QED
    BY <2>1, LeastNumber
<1>3. PICK S \in B : m = Cardinality(S)
  OBVIOUS
<1>4. ASSUME NEW R \in B, R \subseteq S, R # S PROVE FALSE
  <2>1. Cardinality(R) <= Cardinality(S) /\ Cardinality(R) # Cardinality(S)
    BY <1>1, <1>4, FS_Subset
  <2>2. Cardinality(S) <= Cardinality(R)
    BY <1>2, <1>3
  <2> QED
    BY <2>1, <2>2, <1>1
<1> QED
  BY <1>1, <1>4

\* The element that a fold takes first.
AnyOf(T) == CHOOSE x \in T : TRUE

\* total is the sum of v over every subset of U.
Summing(total, v, U) ==
    total = [T \in SUBSET U |-> IF T = {} THEN 0 ELSE v[AnyOf(T)] + total[T \ {AnyOf(T)}]]

LEMMA AnyIsMember == \A T : T # {} => AnyOf(T) \in T
BY DEF AnyOf

LEMMA SumIsNat ==
    ASSUME NEW U, IsFiniteSet(U), NEW v, \A x \in U : v[x] \in Nat, NEW total, Summing(total, v, U)
    PROVE  \A T \in SUBSET U : total[T] \in Nat
<1> DEFINE B == {T \in SUBSET U : total[T] \notin Nat}
<1> SUFFICES ASSUME B # {} PROVE FALSE
  OBVIOUS
<1>1. PICK S \in B : \A R \in B : ~(R \subseteq S /\ R # S)
  <2> HIDE DEF B
  <2>1. B \in SUBSET SUBSET U
    BY DEF B
  <2> QED
    BY <2>1, SmallestSubset
<1>2. total[S] = IF S = {} THEN 0 ELSE v[AnyOf(S)] + total[S \ {AnyOf(S)}]
  BY DEF Summing
<1>3. CASE S = {}
  BY <1>2, <1>3
<1>4. CASE S # {}
  <2>1. AnyOf(S) \in S
    BY <1>4, AnyIsMember
  <2>2. total[S \ {AnyOf(S)}] \in Nat
    BY <1>1, <2>1
  <2> QED
    BY <1>2, <1>4, <2>1, <2>2
<1> QED
  BY <1>3, <1>4

\* The sum over a set is the same in any larger one.
LEMMA SumIsOne ==
    ASSUME NEW U, IsFiniteSet(U), NEW V, NEW v, NEW w, NEW sum, NEW total,
           Summing(sum, v, U), Summing(total, w, V)
    PROVE  \A T \in SUBSET (U \cap V) : (\A x \in T : v[x] = w[x]) => sum[T] = total[T]
<1> DEFINE B == {T \in SUBSET (U \cap V) : (\A x \in T : v[x] = w[x]) /\ sum[T] # total[T]}
<1> SUFFICES ASSUME B # {} PROVE FALSE
  OBVIOUS
<1>1. PICK S \in B : \A R \in B : ~(R \subseteq S /\ R # S)
  <2> HIDE DEF B
  <2>1. B \in SUBSET SUBSET U
    BY DEF B
  <2> QED
    BY <2>1, SmallestSubset
<1>2. S \in SUBSET U /\ S \in SUBSET V
  OBVIOUS
<1>3. /\ sum[S] = IF S = {} THEN 0 ELSE v[AnyOf(S)] + sum[S \ {AnyOf(S)}]
      /\ total[S] = IF S = {} THEN 0 ELSE w[AnyOf(S)] + total[S \ {AnyOf(S)}]
  BY <1>2 DEF Summing
<1>4. CASE S = {}
  BY <1>3, <1>4
<1>5. CASE S # {}
  <2>1. AnyOf(S) \in S
    BY <1>5, AnyIsMember
  <2> DEFINE R == S \ {AnyOf(S)}
  <2>2. R \in SUBSET (U \cap V) /\ R \subseteq S /\ R # S /\ \A x \in R : v[x] = w[x]
    BY <2>1
  <2>3. sum[R] = total[R]
    BY <1>1, <2>2
  <2> QED
    BY <1>3, <1>5, <2>1, <2>3
<1> QED
  BY <1>4, <1>5

\* There are such sums: those over the sets of at most n elements give those of n + 1.
LEMMA SumExists ==
    ASSUME NEW U, IsFiniteSet(U), NEW v
    PROVE  \E total : Summing(total, v, U)
<1> DEFINE Small(n) == {T \in SUBSET U : Cardinality(T) <= n}
           Partial(g, n) ==
               g = [T \in Small(n) |-> IF T = {} THEN 0 ELSE v[AnyOf(T)] + g[T \ {AnyOf(T)}]]
           B == {n \in Nat : ~\E g : Partial(g, n)}
<1>1. \A T \in SUBSET U : /\ Cardinality(T) \in Nat
                          /\ T # {} => /\ Cardinality(T \ {AnyOf(T)}) = Cardinality(T) - 1
                                       /\ T \ {AnyOf(T)} \in SUBSET U
                          /\ T = {} <=> Cardinality(T) = 0
  BY AnyIsMember, FS_Subset, FS_CardinalityType, FS_RemoveElement, FS_EmptySet
<1>2. B = {}
  <2> SUFFICES ASSUME B # {} PROVE FALSE
    OBVIOUS
  <2>1. PICK n \in B : \A m \in B : n <= m
    <3>1. B \in SUBSET Nat
      OBVIOUS
    <3> HIDE DEF B
    <3> QED
      BY <3>1, LeastNumber
  <2>2. CASE n = 0
    <3> DEFINE g == [T \in Small(0) |-> 0]
    <3>1. \A T \in Small(0) : T = {}
      <4> SUFFICES ASSUME NEW T \in SUBSET U, Cardinality(T) <= 0 PROVE T = {}
        OBVIOUS
      <4>1. Cardinality(T) \in Nat
        BY <1>1
      <4>2. Cardinality(T) = 0
        BY <4>1
      <4> QED
        BY <1>1, <4>2
    <3>2. Partial(g, 0)
      BY <3>1
    <3> QED
      BY <2>2, <3>2
  <2>3. CASE n # 0
    <3>1. n \in Nat /\ n - 1 \in Nat /\ n - 1 \notin B
      <4>1. n \in Nat
        OBVIOUS
      <4> HIDE DEF B
      <4> QED
        BY <2>1, <2>3, <4>1
    <3>2. PICK g : Partial(g, n - 1)
      BY <3>1
    <3> DEFINE h == [T \in Small(n) |-> IF T = {} THEN 0 ELSE v[AnyOf(T)] + g[T \ {AnyOf(T)}]]
    <3>3. \A T \in Small(n - 1) : T \in Small(n) /\ h[T] = g[T]
      <4> SUFFICES ASSUME NEW T \in Small(n - 1) PROVE T \in Small(n) /\ h[T] = g[T]
        OBVIOUS
      <4>1. T \in Small(n)
        <5>1. T \in SUBSET U /\ Cardinality(T) <= n - 1
          OBVIOUS
        <5>2. Cardinality(T) \in Nat
          BY <1>1, <5>1
        <5>3. Cardinality(T) <= n
          BY <3>1, <5>1, <5>2
        <5> QED
          BY <5>1, <5>3
      <4>2. g[T] = IF T = {} THEN 0 ELSE v[AnyOf(T)] + g[T \ {AnyOf(T)}]
        BY <3>2
      <4> QED
        BY <4>1, <4>2
    <3>4. \A T \in Small(n) : T # {} => T \ {AnyOf(T)} \in Small(n - 1)
      BY <1>1, <3>1
    <3>5. Partial(h, n)
      <4>1. \A T \in Small(n) : T # {} => h[T \ {AnyOf(T)}] = g[T \ {AnyOf(T)}]
        BY <3>3, <3>4
      <4> HIDE DEF Small
      <4> QED
        BY <4>1
    <3> HIDE DEF Partial, h
    <3> QED
      BY <3>5
  <2> QED
    BY <2>2, <2>3
<1>3. PICK g : Partial(g, Cardinality(U))
  BY <1>1, <1>2
<1>4. Small(Cardinality(U)) = SUBSET U
  BY FS_Subset
<1>5. Summing(g, v, U)
  BY <1>3, <1>4 DEF Summing
<1> QED
  BY <1>5

\* One element more, whatever the order the elements are taken in.
LEMMA SumAdds ==
    ASSUME NEW U, IsFiniteSet(U), NEW v, \A x \in U : v[x] \in Nat, NEW total, Summing(total, v, U)
    PROVE  \A T \in SUBSET U : \A x \in T : total[T] = v[x] + total[T \ {x}]
<1> DEFINE B == {T \in SUBSET U : \E x \in T : total[T] # v[x] + total[T \ {x}]}
<1> SUFFICES ASSUME B # {} PROVE FALSE
  OBVIOUS
<1>1. PICK S \in B : \A R \in B : ~(R \subseteq S /\ R # S)
  <2> HIDE DEF B
  <2>1. B \in SUBSET SUBSET U
    BY DEF B
  <2> QED
    BY <2>1, SmallestSubset
<1>2. PICK x \in S : total[S] # v[x] + total[S \ {x}]
  OBVIOUS
<1> DEFINE y == AnyOf(S)
<1>3. y \in S
  BY AnyIsMember
<1>4. total[S] = v[y] + total[S \ {y}]
  BY DEF Summing
<1>5. x # y
  BY <1>2, <1>4
<1>6. total[S \ {y}] = v[x] + total[(S \ {y}) \ {x}]
  <2>1. S \ {y} \notin B /\ x \in S \ {y} /\ S \ {y} \in SUBSET U
    BY <1>1, <1>3, <1>5
  <2> HIDE DEF y
  <2> QED
    BY <2>1
<1>7. total[S \ {x}] = v[y] + total[(S \ {x}) \ {y}]
  <2>1. S \ {x} \notin B /\ y \in S \ {x} /\ S \ {x} \in SUBSET U
    BY <1>1, <1>3, <1>5
  <2> HIDE DEF y
  <2> QED
    BY <2>1
<1>8. (S \ {y}) \ {x} = (S \ {x}) \ {y}
  OBVIOUS
<1>9. v[x] \in Nat /\ v[y] \in Nat /\ total[(S \ {x}) \ {y}] \in Nat
  BY <1>3, SumIsNat
<1> DEFINE rest == total[(S \ {x}) \ {y}]
<1>10. total[S] = v[y] + (v[x] + rest) /\ total[S \ {x}] = v[y] + rest
  BY <1>4, <1>6, <1>7, <1>8
<1> HIDE DEF y, rest, B
<1> QED
  BY <1>2, <1>9, <1>10 DEF rest

\* What Marked sums over, and the summands.
MarkedSet(quantity, price) == {s \in OpenWith(quantity) : price[s] # None}
MarkedEach(quantity, price) == [s \in MarkedSet(quantity, price) |-> quantity[s] * price[s]]

\* Marked is such a sum.
LEMMA MarkedIsSum ==
    ASSUME NEW q, NEW p
    PROVE  \E total : /\ Summing(total, MarkedEach(q, p), MarkedSet(q, p))
                      /\ Marked(q, p) = total[MarkedSet(q, p)]
<1> DEFINE S == MarkedSet(q, p)
           v == MarkedEach(q, p)
           Sums(total) == total = [T \in SUBSET S |->
               IF T = {} THEN 0 ELSE q[AnyOf(T)] * p[AnyOf(T)] + total[T \ {AnyOf(T)}]]
<1>1. IsFiniteSet(S)
  BY TradingAssumption, FS_Subset DEF MarkedSet, OpenWith
<1>2. \A total : Sums(total) <=> Summing(total, v, S)
  <2>1. \A T \in SUBSET S : T # {} => v[AnyOf(T)] = q[AnyOf(T)] * p[AnyOf(T)]
    BY AnyIsMember DEF MarkedEach
  <2> HIDE DEF S, v
  <2> QED
    BY <2>1 DEF Summing
<1>3. \E total : Sums(total)
  BY <1>1, <1>2, SumExists
<1>4. Sums(CHOOSE total : Sums(total))
  BY <1>3
<1>5. Marked(q, p) = (CHOOSE total : Sums(total))[S]
  BY DEF Marked, MapThenSumSet, MapThenFoldSet, AnyOf, MarkedSet
<1> HIDE DEF Sums
<1> QED
  BY <1>2, <1>4, <1>5

\* Whole quantities at whole prices are worth a whole sum.
LEMMA MarkedIsNat ==
    ASSUME NEW q \in [Symbols -> Nat], NEW p \in [Symbols -> Nat \cup {None}]
    PROVE  Marked(q, p) \in Nat
<1> DEFINE S == MarkedSet(q, p)
           v == MarkedEach(q, p)
<1>1. IsFiniteSet(S)
  BY TradingAssumption, FS_Subset DEF MarkedSet, OpenWith
<1>2. \A s \in S : v[s] \in Nat
  <2> SUFFICES ASSUME NEW s \in S PROVE v[s] \in Nat
    OBVIOUS
  <2>1. q[s] \in Nat /\ p[s] \in Nat /\ v[s] = q[s] * p[s]
    BY DEF MarkedSet, MarkedEach, OpenWith
  <2> QED
    BY <2>1, ProductIsNat
<1>3. PICK total : Summing(total, v, S) /\ Marked(q, p) = total[S]
  BY MarkedIsSum
<1> HIDE DEF S, v
<1>4. total[S] \in Nat
  BY <1>1, <1>2, <1>3, SumIsNat
<1> QED
  BY <1>3, <1>4

\* A position more adds its own worth.
LEMMA MarkedAdds ==
    ASSUME NEW q \in [Symbols -> Nat], NEW p \in [Symbols -> Nat \cup {None}],
           NEW r \in [Symbols -> Nat], NEW s \in Symbols, q[s] = 0, r[s] # 0, p[s] # None,
           \A x \in Symbols : x # s => r[x] = q[x]
    PROVE  Marked(r, p) = Marked(q, p) + r[s] * p[s]
<1> DEFINE S == MarkedSet(q, p)
           v == MarkedEach(q, p)
           T == MarkedSet(r, p)
           w == MarkedEach(r, p)
<1>1. IsFiniteSet(S) /\ IsFiniteSet(T)
  BY TradingAssumption, FS_Subset DEF MarkedSet, OpenWith
<1>2. T = S \cup {s} /\ s \notin S
  BY DEF MarkedSet, OpenWith
<1>3. \A x \in S : v[x] = w[x]
  BY <1>2 DEF MarkedEach, MarkedSet, OpenWith
<1>4. \A x \in T : w[x] \in Nat
  <2> SUFFICES ASSUME NEW x \in T PROVE w[x] \in Nat
    OBVIOUS
  <2>1. r[x] \in Nat /\ p[x] \in Nat /\ w[x] = r[x] * p[x]
    BY DEF MarkedSet, MarkedEach, OpenWith
  <2> QED
    BY <2>1, ProductIsNat
<1>5. w[s] = r[s] * p[s]
  BY <1>2 DEF MarkedEach
<1>6. PICK sum : Summing(sum, v, S) /\ Marked(q, p) = sum[S]
  BY MarkedIsSum
<1>7. PICK total : Summing(total, w, T) /\ Marked(r, p) = total[T]
  BY MarkedIsSum
<1> HIDE DEF S, v, T, w
<1>8. total[T] = w[s] + total[T \ {s}]
  BY <1>1, <1>2, <1>4, <1>7, SumAdds
<1>9. T \ {s} = S /\ S \in SUBSET (S \cap T)
  BY <1>2
<1>10. sum[S] = total[S]
  BY <1>1, <1>3, <1>6, <1>7, <1>9, SumIsOne
<1>11. w[s] \in Nat /\ total[S] \in Nat
  BY <1>1, <1>2, <1>4, <1>7, SumIsNat
<1>12. Marked(r, p) = w[s] + sum[S]
  BY <1>7, <1>8, <1>9, <1>10
<1>13. w[s] + sum[S] = sum[S] + w[s]
  BY <1>10, <1>11
<1> QED
  BY <1>5, <1>6, <1>12, <1>13

LEMMA OpenIsFinite ==
    ASSUME NEW S \in SUBSET Symbols
    PROVE  IsFiniteSet(S) /\ Cardinality(S) \in Nat
BY TradingAssumption, FS_Subset, FS_CardinalityType

\* What a signal asks to have sized is a request that sizing is defined for.
LEMMA RequestIsSized ==
    ASSUME TypeOK, NEW s, NEW t, NEW gap, NEW m \in Multipliers, Signal(s, t, gap)
    PROVE  /\ Request(s, gap, m) \in Requests
           /\ s \in Symbols /\ view[s] \in Nat \ {0} /\ view[s] # None
<1>1. s \in Symbols /\ view[s] # None /\ gap \in StopGaps /\ gap < view[s]
  BY DEF Signal, Observed
<1>2. view[s] \in Nat \ {0} /\ view[s] - gap \in Nat
  <2>1. view[s] \in Nat \ {0} /\ gap \in Nat
    BY <1>1, TradingAssumption DEF TypeOK
  <2> QED
    BY <1>1, <2>1
<1>3. Cardinality(carried.open) \in Nat
  BY OpenIsFinite DEF TypeOK
<1>4. m \in 1..100
  BY TradingAssumption
<1> QED
  BY <1>1, <1>2, <1>3, <1>4 DEF Request, Requests, TypeOK

-----------------------------------------------------------------------------
(***************************************************************************)
(* The ledger and the exchange. What is sold of a position is no longer    *)
(* held, and what a purchase bought is held before a position records it.  *)
(* That is the whole difference between them, except for symbols whose     *)
(* purchases went unrecorded: of those the exchange holds more. The types  *)
(* rest on it: what an exit or a reversal sells is there to be sold.       *)
(***************************************************************************)

Pending(s) == IF purchase.symbol = s THEN purchase.bought ELSE 0

Accounted(s) ==
    /\ sold[s] <= position[s]
    /\ position[s] + Pending(s) <= held[s] + sold[s]
    /\ s \notin unrecorded => position[s] + Pending(s) = held[s] + sold[s]

StockInv == \A s \in Symbols : Accounted(s)

\* An entry is on a symbol without a position, and within the caps with all there is.
PurchaseInv ==
    /\ pc # "bought" => purchase = NoPurchase
    /\ pc = "bought" =>
          /\ purchase.symbol \in Symbols /\ position[purchase.symbol] = 0
          /\ <<purchase.symbol, purchase.strategy>> \in todo
          /\ view[purchase.symbol] \in Prices
          /\ purchase.bought * view[purchase.symbol] <= purchase.notional
          /\ purchase.notional <= carried.free
          /\ 100 * purchase.notional <= acct.equity * PositionPct
          /\ 100 * purchase.notional + 100 * carried.deployed <= acct.equity * DeployedPct
          /\ Cardinality(carried.open) < MaxConcurrent

\* open_symbols is what the ledger has open.
OpenInv == pc \in {"limits", "entries", "bought"} => carried.open = Open

BaseInv == TypeOK /\ StockInv /\ PurchaseInv /\ OpenInv

\* The parts of TypeOK.
StockOK ==
    /\ cash \in Nat /\ held \in [Symbols -> Nat] /\ sold \in [Symbols -> Nat]
    /\ position \in [Symbols -> Nat] /\ protected \subseteq Open
ViewOK ==
    /\ view \in [Symbols -> Prices \cup {None}]
    /\ acct \in [equity : Nat, peak : Nat, day : Nat, complete : BOOLEAN]
CarriedOK ==
    /\ carried \in [free : Nat, deployed : Nat, open : SUBSET Symbols, entered : SUBSET Symbols]
    /\ todo \subseteq (Symbols \cup {Unknown}) \X (Strategies \cup {None})
    /\ purchase \in [symbol : Symbols \cup {None}, strategy : Strategies \cup {None},
                     bought : Nat, notional : Nat]
ResultOK ==
    result \in [cause : Causes \cup {"NONE"}, halted : BOOLEAN, suspended : BOOLEAN,
                decided : SUBSET (Symbols \cup {Unknown}), done : BOOLEAN]
RestOK ==
    /\ snap \in [any : BOOLEAN, peak : Nat, today : BOOLEAN, day : Nat] /\ (snap.today => snap.any)
    /\ armed \in BOOLEAN /\ live \subseteq Strategies
    /\ pc \in {"idle", "value", "limits", "entries", "bought", "close"}
    /\ entries \in 0..MaxEntries /\ faults \in 0..MaxFaults
HistoryOK ==
    /\ truth \in [any : BOOLEAN, now : Nat, best : Nat, day : Nat]
    /\ unsettled \in BOOLEAN /\ unrecorded \subseteq Symbols

LEMMA TypeParts ==
    TypeOK <=> StockOK /\ ViewOK /\ CarriedOK /\ ResultOK /\ RestOK /\ HistoryOK
BY DEF TypeOK, StockOK, ViewOK, CarriedOK, ResultOK, RestOK, HistoryOK

LEMMA TypePartsNext ==
    ASSUME StockOK', ViewOK', CarriedOK', ResultOK', RestOK', HistoryOK'
    PROVE  TypeOK'
BY DEF TypeOK, StockOK, ViewOK, CarriedOK, ResultOK, RestOK, HistoryOK

LEMMA ForgetTypes == Forget => (ViewOK /\ CarriedOK /\ purchase = NoPurchase)'
BY DEF Forget, NoAccount, NothingCarried, NoPurchase, ViewOK, CarriedOK

LEMMA NoResultTypes == result' = NoResult => ResultOK'
BY DEF NoResult, ResultOK, Causes

LEMMA FaultsCounted ==
    ASSUME faults \in 0..MaxFaults, NEW fault \in BOOLEAN, Counted(fault)
    PROVE  faults' \in 0..MaxFaults
BY TradingAssumption DEF Counted

LEMMA InitBase == Init => BaseInv
<1> SUFFICES ASSUME Init PROVE BaseInv
  OBVIOUS
<1>1. StockOK
  BY TradingAssumption DEF Init, StockOK, Open, OpenWith
<1>2. ViewOK /\ CarriedOK /\ ResultOK
  BY DEF Init, NoAccount, NothingCarried, NoPurchase, NoResult, Causes, ViewOK, CarriedOK, ResultOK
<1>3. entries \in 0..MaxEntries /\ faults \in 0..MaxFaults
  BY TradingAssumption DEF Init
<1>4. RestOK /\ HistoryOK
  BY <1>3 DEF Init, NoTruth, RestOK, HistoryOK
<1>5. StockInv /\ PurchaseInv /\ OpenInv
  BY DEF Init, NoPurchase, StockInv, Accounted, Pending, PurchaseInv, OpenInv
<1> QED
  BY <1>1, <1>2, <1>4, <1>5, TypeParts DEF BaseInv

\* Steps that touch neither stocks nor a purchase.
LEMMA StocksKept ==
    ASSUME StockInv, UNCHANGED <<held, sold, position, unrecorded, purchase>>
    PROVE  StockInv'
BY DEF StockInv, Accounted, Pending

\* The purchase as it is when a step begins, in numbers.
LEMMA StockNumbers ==
    ASSUME TypeOK, NEW s \in Symbols
    PROVE  held[s] \in Nat /\ sold[s] \in Nat /\ position[s] \in Nat /\ Pending(s) \in Nat
BY DEF TypeOK, Pending

LEMMA ExitFillsBase ==
    ASSUME BaseInv, NEW s \in Symbols, ExitFills(s)
    PROVE  BaseInv'
<1>1. PICK steps \in 1..position[s] - sold[s], price \in Prices :
          /\ cash' = cash + steps * price
          /\ held' = [held EXCEPT ![s] = @ - steps] /\ sold' = [sold EXCEPT ![s] = @ + steps]
          /\ Counted(sold[s] + steps < position[s])
  BY DEF ExitFills
<1>2. /\ UNCHANGED <<ledger, snap, armed, live, pc, memory, result, entries, truth, unrecorded>>
      /\ unsettled' \in BOOLEAN
  BY DEF ExitFills, BaseInv, TypeOK
<1>3. /\ held[s] \in Nat /\ sold[s] \in Nat /\ position[s] \in Nat /\ Pending(s) \in Nat
      /\ steps \in Nat /\ price \in Nat /\ cash \in Nat
  BY StockNumbers, TradingAssumption DEF BaseInv, TypeOK
<1>4. Accounted(s) /\ steps <= position[s] - sold[s]
  BY DEF BaseInv, StockInv
<1>5. held[s] - steps \in Nat /\ sold[s] + steps \in Nat /\ sold[s] + steps <= position[s]
  BY <1>3, <1>4 DEF Accounted
<1>6. cash' \in Nat
  <2>1. steps * price \in Nat
    BY <1>3, ProductIsNat
  <2> QED
    BY <1>1, <1>3, <2>1
<1>7. StockOK'
  BY <1>1, <1>2, <1>5, <1>6 DEF BaseInv, TypeOK, StockOK, ledger, Open, OpenWith
<1>8. ViewOK' /\ CarriedOK' /\ ResultOK'
  BY <1>2 DEF BaseInv, TypeOK, ViewOK, CarriedOK, ResultOK, memory
<1>9. RestOK' /\ HistoryOK'
  <2>1. faults' \in 0..MaxFaults
    BY <1>1, <1>3, TradingAssumption DEF Counted, BaseInv, TypeOK
  <2> QED
    BY <1>2, <2>1 DEF BaseInv, TypeOK, RestOK, HistoryOK
<1>10. StockInv'
  <2> SUFFICES ASSUME NEW x \in Symbols PROVE Accounted(x)'
    BY DEF StockInv
  <2>1. Accounted(x)
    BY DEF BaseInv, StockInv
  <2>2. Pending(x)' = Pending(x) /\ position'[x] = position[x] /\ unrecorded' = unrecorded
    BY <1>2 DEF Pending, memory, ledger
  <2>3. CASE x = s
    <3>1. held'[s] = held[s] - steps /\ sold'[s] = sold[s] + steps
      BY <1>1 DEF BaseInv, TypeOK
    <3> QED
      BY <1>3, <1>5, <2>1, <2>2, <2>3, <3>1 DEF Accounted
  <2>4. CASE x # s
    <3>1. held'[x] = held[x] /\ sold'[x] = sold[x]
      BY <1>1, <2>4 DEF BaseInv, TypeOK
    <3> QED
      BY <2>1, <2>2, <3>1 DEF Accounted
  <2> QED
    BY <2>3, <2>4
<1>11. PurchaseInv' /\ OpenInv'
  BY <1>2 DEF memory, ledger, BaseInv, PurchaseInv, OpenInv, Open, OpenWith
<1> QED
  BY <1>7, <1>8, <1>9, <1>10, <1>11, TypePartsNext DEF BaseInv

LEMMA OutsideBase ==
    ASSUME BaseInv, OperatorFlips \/ NewDay
    PROVE  BaseInv'
<1> USE DEF OperatorFlips, NewDay, memory, history, exchange, ledger, bounds
<1>1. StockOK' /\ ViewOK' /\ CarriedOK' /\ ResultOK' /\ HistoryOK'
  BY DEF BaseInv, TypeOK, StockOK, ViewOK, CarriedOK, ResultOK, HistoryOK, Open, OpenWith
<1>2. RestOK'
  <2>1. snap' \in [any : BOOLEAN, peak : Nat, today : BOOLEAN, day : Nat] /\ (snap'.today => snap'.any)
    <3>1. snap \in [any : BOOLEAN, peak : Nat, today : BOOLEAN, day : Nat] /\ (snap.today => snap.any)
      BY DEF BaseInv, TypeOK
    <3>2. snap' = snap \/ snap' = [snap EXCEPT !.today = FALSE, !.day = 0]
      OBVIOUS
    <3> HIDE DEF OperatorFlips, NewDay
    <3>3. CASE snap' = snap
      BY <3>1, <3>3
    <3>4. CASE snap' = [snap EXCEPT !.today = FALSE, !.day = 0]
      BY <3>1, <3>4
    <3> QED
      BY <3>2, <3>3, <3>4
  <2> QED
    BY <2>1 DEF BaseInv, TypeOK, RestOK
<1>3. StockInv'
  BY StocksKept DEF BaseInv
<1>4. PurchaseInv' /\ OpenInv'
  BY DEF BaseInv, PurchaseInv, OpenInv, Open, OpenWith
<1> QED
  BY <1>1, <1>2, <1>3, <1>4, TypePartsNext DEF BaseInv

\* A purchase that is forgotten has gone unrecorded if it bought anything.
LEMMA PurchaseLost ==
    ASSUME BaseInv, pc = "bought" \/ purchase = NoPurchase, UNCHANGED <<held, sold, position>>,
           unrecorded' = unrecorded \cup Astray(purchase.bought), purchase' = NoPurchase
    PROVE  StockInv' /\ unrecorded' \subseteq Symbols
<1>1. unrecorded' \subseteq Symbols
  BY DEF Astray, NoPurchase, BaseInv, PurchaseInv, TypeOK
<1>2. StockInv'
  <2> SUFFICES ASSUME NEW x \in Symbols PROVE Accounted(x)'
    BY DEF StockInv
  <2>1. Accounted(x) /\ Pending(x)' = 0
    BY DEF BaseInv, StockInv, Pending, NoPurchase
  <2>2. held[x] \in Nat /\ sold[x] \in Nat /\ position[x] \in Nat /\ Pending(x) \in Nat
    BY StockNumbers DEF BaseInv
  <2>3. x \notin unrecorded' => x \notin unrecorded /\ Pending(x) = 0
    BY DEF Astray, Pending
  <2> QED
    BY <2>1, <2>2, <2>3 DEF Accounted
<1> QED
  BY <1>1, <1>2

LEMMA TickFailsBase ==
    ASSUME BaseInv, TickFails
    PROVE  BaseInv'
<1> USE DEF TickFails
<1>1. ViewOK' /\ CarriedOK' /\ ResultOK' /\ purchase' = NoPurchase
  BY ForgetTypes, NoResultTypes
<1>2. StockInv' /\ unrecorded' \subseteq Symbols
  BY <1>1, PurchaseLost DEF exchange, ledger, BaseInv, PurchaseInv
<1>3. StockOK'
  BY DEF exchange, ledger, BaseInv, TypeOK, StockOK, Open, OpenWith
<1>4. RestOK' /\ HistoryOK'
  BY <1>2, FaultsCounted DEF BaseInv, TypeOK, RestOK, HistoryOK
<1>5. PurchaseInv' /\ OpenInv'
  BY <1>1 DEF PurchaseInv, OpenInv
<1> QED
  BY <1>1, <1>2, <1>3, <1>4, <1>5, TypePartsNext DEF BaseInv

\* Positions that are closed had been sold.
LEMMA CloseAllKeeps ==
    ASSUME BaseInv, pc = "idle", NEW closing \in SUBSET Closable, CloseAll(closing),
           NEW dropped \in SUBSET Symbols, closing \subseteq dropped,
           UNCHANGED <<cash, held, unrecorded>>, purchase' = NoPurchase, protected' = protected \ dropped
    PROVE  StockInv' /\ StockOK'
<1>1. /\ position' = [s \in Symbols |-> IF s \in closing THEN 0 ELSE position[s]]
      /\ sold' = [s \in Symbols |-> IF s \in closing THEN 0 ELSE sold[s]]
  BY DEF CloseAll
<1>2. StockOK'
  <2>1. \A s \in Open : s \notin closing => s \in Open'
    BY <1>1 DEF Open, OpenWith
  <2>2. protected' \subseteq Open'
    BY <2>1 DEF BaseInv, TypeOK
  <2>3. position' \in [Symbols -> Nat] /\ sold' \in [Symbols -> Nat]
    BY <1>1 DEF BaseInv, TypeOK
  <2> QED
    BY <2>2, <2>3 DEF BaseInv, TypeOK, StockOK
<1>3. StockInv'
  <2> SUFFICES ASSUME NEW x \in Symbols PROVE Accounted(x)'
    BY DEF StockInv
  <2>1. Accounted(x) /\ Pending(x)' = 0 /\ Pending(x) = 0
    BY DEF BaseInv, StockInv, PurchaseInv, Pending, NoPurchase
  <2>2. held[x] \in Nat /\ sold[x] \in Nat /\ position[x] \in Nat
    BY StockNumbers DEF BaseInv
  <2>3. CASE x \in closing
    <3>1. position'[x] = 0 /\ sold'[x] = 0 /\ sold[x] = position[x]
      BY <1>1, <2>3 DEF Closable
    <3> QED
      BY <2>1, <2>2, <3>1 DEF Accounted
  <2>4. CASE x \notin closing
    <3>1. position'[x] = position[x] /\ sold'[x] = sold[x]
      BY <1>1, <2>4
    <3> QED
      BY <2>1, <3>1 DEF Accounted
  <2> QED
    BY <2>3, <2>4
<1> QED
  BY <1>2, <1>3

LEMMA ClosableAreSymbols == Closable \subseteq Symbols
BY TradingAssumption DEF Closable

LEMMA IngestBase ==
    ASSUME BaseInv, Ingest \/ IngestDies
    PROVE  BaseInv'
<1>1. /\ Forget /\ result' = NoResult /\ pc = "idle" /\ pc' \in {"idle", "value"}
      /\ UNCHANGED <<cash, held, snap, armed, live, entries, truth, unrecorded>>
      /\ unsettled' \in BOOLEAN
  BY DEF Ingest, IngestDies, history, BaseInv, TypeOK
<1>2. PICK closing \in SUBSET Closable, dropped \in SUBSET Symbols, fault \in BOOLEAN :
          CloseAll(closing) /\ closing \subseteq dropped /\ protected' = protected \ dropped
              /\ Counted(fault)
  <2>1. CASE Ingest
    BY <2>1, ClosableAreSymbols DEF Ingest
  <2>2. CASE IngestDies
    <3>1. PICK closing \in SUBSET Closable : \E last \in Closable \ closing :
              CloseAll(closing) /\ protected' = protected \ (closing \cup {last})
      BY <2>2 DEF IngestDies
    <3>2. PICK last \in Closable \ closing : protected' = protected \ (closing \cup {last})
      BY <3>1
    <3>3. closing \cup {last} \in SUBSET Symbols /\ closing \subseteq closing \cup {last}
      BY ClosableAreSymbols
    <3> QED
      BY <2>2, <3>1, <3>2, <3>3 DEF IngestDies
  <2> QED
    BY <2>1, <2>2
<1>3. ViewOK' /\ CarriedOK' /\ ResultOK' /\ purchase' = NoPurchase
  BY <1>1, ForgetTypes, NoResultTypes
<1>4. StockInv' /\ StockOK'
  BY <1>1, <1>2, <1>3, CloseAllKeeps
<1>5. RestOK' /\ HistoryOK'
  BY <1>1, <1>2, FaultsCounted DEF BaseInv, TypeOK, RestOK, HistoryOK
<1>6. PurchaseInv' /\ OpenInv'
  BY <1>1, <1>3 DEF PurchaseInv, OpenInv
<1> QED
  BY <1>3, <1>4, <1>5, <1>6, TypePartsNext DEF BaseInv

\* The account is valued in whole numbers.
LEMMA ValueBase ==
    ASSUME BaseInv, Value
    PROVE  BaseInv'
<1>1. view' \in [Symbols -> Prices \cup {None}] /\ view' \in [Symbols -> Nat \cup {None}]
  BY TradingAssumption DEF Value
<1>2. Marked(position, view') \in Nat /\ Marked(held, view') \in Nat
  BY <1>1, MarkedIsNat DEF BaseInv, TypeOK
<1>3. acct' \in [equity : Nat, peak : Nat, day : Nat, complete : BOOLEAN]
  BY <1>2 DEF Value, Account, Greater, Complete, BaseInv, TypeOK
<1>4. CarriedOK'
  BY <1>2 DEF Value, Open, OpenWith, BaseInv, TypeOK, CarriedOK
<1>5. snap' \in [any : BOOLEAN, peak : Nat, today : BOOLEAN, day : Nat] /\ (snap'.today => snap'.any)
  BY <1>3 DEF Value, Recorded, BaseInv, TypeOK
<1>6. HistoryOK'
  <2>1. Worth(view') \in Nat
    BY <1>2 DEF Worth, BaseInv, TypeOK
  <2>2. Witnessed(Worth(view')) \in [any : BOOLEAN, now : Nat, best : Nat, day : Nat]
    BY <2>1 DEF Witnessed, Greater, BaseInv, TypeOK
  <2> QED
    BY <2>2 DEF Value, NoTruth, BaseInv, TypeOK, HistoryOK
<1>7. StockOK' /\ ResultOK' /\ RestOK'
  BY <1>5 DEF Value, exchange, ledger, bounds, BaseInv, TypeOK, StockOK, ResultOK, RestOK, Open, OpenWith
<1>8. StockInv'
  BY StocksKept DEF Value, exchange, ledger, BaseInv
<1>9. PurchaseInv' /\ OpenInv'
  BY DEF Value, ledger, BaseInv, PurchaseInv, OpenInv, Open, OpenWith
<1> QED
  BY <1>1, <1>3, <1>4, <1>6, <1>7, <1>8, <1>9, TypePartsNext DEF BaseInv, ViewOK

LEMMA TasksTypes ==
    ASSUME TypeOK
    PROVE  Tasks \subseteq (Symbols \cup {Unknown}) \X (Strategies \cup {None})
BY TradingAssumption DEF Tasks, TypeOK

LEMMA LimitsBase ==
    ASSUME BaseInv, Limits
    PROVE  BaseInv'
<1>1. /\ Cause \in Causes \cup {"NONE"} /\ Suspends \in BOOLEAN /\ armed' \in BOOLEAN
      /\ UNCHANGED <<exchange, ledger, snap, live, bounds, history>> /\ pc = "limits"
  BY DEF Limits, Cause, Breach, Causes, Suspends, BaseInv, TypeOK
<1>2. StockOK' /\ HistoryOK'
  BY <1>1 DEF exchange, ledger, history, BaseInv, TypeOK, StockOK, HistoryOK, Open, OpenWith
<1>3. purchase = NoPurchase /\ carried.open = Open
  BY <1>1 DEF BaseInv, PurchaseInv, OpenInv
<1>4. CASE armed' \/ Suspends
  <2>1. ViewOK' /\ CarriedOK' /\ purchase' = NoPurchase /\ pc' = "close"
    BY <1>4, ForgetTypes DEF Limits
  <2>2. ResultOK'
    <3>1. Configured \subseteq Symbols \cup {Unknown}
      BY TradingAssumption
    <3>2. result' = [result EXCEPT !.cause = Cause, !.halted = armed', !.suspended = Suspends,
                                   !.decided = Configured]
      BY <1>4 DEF Limits
    <3> QED
      BY <1>1, <3>1, <3>2 DEF BaseInv, TypeOK, ResultOK
  <2>3. RestOK'
    BY <1>1, <2>1 DEF bounds, BaseInv, TypeOK, RestOK
  <2>4. StockInv'
    BY <1>1, <1>3, <2>1, StocksKept DEF exchange, ledger, history, BaseInv
  <2>5. PurchaseInv' /\ OpenInv'
    BY <2>1 DEF PurchaseInv, OpenInv
  <2> QED
    BY <1>2, <2>1, <2>2, <2>3, <2>4, <2>5, TypePartsNext DEF BaseInv
<1>5. CASE ~(armed' \/ Suspends)
  <2>1. todo' = Tasks /\ pc' = "entries" /\ UNCHANGED <<view, acct, carried, purchase, result>>
    BY <1>5 DEF Limits
  <2>2. ViewOK' /\ CarriedOK' /\ ResultOK'
    BY <2>1, TasksTypes DEF BaseInv, TypeOK, ViewOK, CarriedOK, ResultOK
  <2>3. RestOK'
    BY <1>1, <2>1 DEF bounds, BaseInv, TypeOK, RestOK
  <2>4. StockInv'
    BY <1>1, <2>1, StocksKept DEF exchange, ledger, history, BaseInv
  <2>5. PurchaseInv' /\ OpenInv'
    BY <1>1, <1>3, <2>1 DEF ledger, PurchaseInv, OpenInv, Open, OpenWith
  <2> QED
    BY <1>2, <2>2, <2>3, <2>4, <2>5, TypePartsNext DEF BaseInv
<1> QED
  BY <1>4, <1>5

LEMMA CloseBase ==
    ASSUME BaseInv, Close
    PROVE  BaseInv'
<1>1. ViewOK' /\ CarriedOK' /\ purchase' = NoPurchase /\ pc' = "idle" /\ pc = "close"
  BY ForgetTypes DEF Close
<1>2. StockOK' /\ ResultOK' /\ RestOK' /\ HistoryOK'
  BY <1>1 DEF Close, exchange, ledger, bounds, history, BaseInv, TypeOK, StockOK, ResultOK, RestOK,
     HistoryOK, Open, OpenWith
<1>3. StockInv'
  BY <1>1, StocksKept DEF Close, exchange, ledger, history, BaseInv, PurchaseInv
<1>4. PurchaseInv' /\ OpenInv'
  BY <1>1 DEF PurchaseInv, OpenInv
<1> QED
  BY <1>1, <1>2, <1>3, <1>4, TypePartsNext DEF BaseInv

\* What every step of the loop leaves alone.
LoopKeeps == UNCHANGED <<snap, live, view, acct, truth, unsettled>>

LEMMA DecidedTypes ==
    ASSUME TypeOK, NEW s \in Symbols \cup {Unknown}, result' = DecidedOn(s)
    PROVE  ResultOK'
BY DEF DecidedOn, TypeOK, ResultOK

LEMMA BreakOffTypes ==
    ASSUME TypeOK, NEW s, BreakOff(s)
    PROVE  ResultOK' /\ todo' = {} /\ pc' = "close"
<1>1. {x[1] : x \in todo} \subseteq Symbols \cup {Unknown}
  BY DEF TypeOK
<1> QED
  BY <1>1 DEF BreakOff, TypeOK, ResultOK

LEMMA GoOnTypes ==
    ASSUME NEW task, GoOn(task)
    PROVE  todo' \subseteq todo /\ pc' \in {"entries", "close"}
BY DEF GoOn

\* A task is a pair.
LEMMA TaskIsPair ==
    ASSUME TypeOK, NEW task \in todo
    PROVE  task = <<task[1], task[2]>> /\ task[1] \in Symbols \cup {Unknown}
BY DEF TypeOK

\* A task that is passed by, or that ends the loop, only adds outcomes.
LEMMA PassedBase ==
    ASSUME BaseInv, pc = "entries", LoopKeeps, NEW task \in todo,
           \/ PassOver(task[1], task[2]) \/ FindStale(task[1], task[2]) \/ Decline(task[1], task[2])
           \/ Reject(task[1], task[2]) \/ Halt(task[1], task[2])
    PROVE  BaseInv'
<1> DEFINE s == task[1]
<1>1. /\ UNCHANGED <<exchange, ledger, carried, purchase, bounds, unrecorded>>
      /\ armed' \in BOOLEAN
      /\ \/ result' = DecidedOn(s) /\ GoOn(<<task[1], task[2]>>)
         \/ BreakOff(s)
  BY DEF PassOver, FindStale, Decline, Reject, Halt, BaseInv, TypeOK
<1>2. s \in Symbols \cup {Unknown}
  BY TaskIsPair DEF BaseInv
<1>3. ResultOK' /\ todo' \subseteq todo /\ pc' \in {"entries", "close"}
  BY <1>1, <1>2, DecidedTypes, BreakOffTypes, GoOnTypes DEF BaseInv
<1>4. StockOK' /\ ViewOK' /\ CarriedOK' /\ HistoryOK'
  BY <1>1, <1>3 DEF LoopKeeps, exchange, ledger, BaseInv, TypeOK, StockOK, ViewOK, CarriedOK,
     HistoryOK, Open, OpenWith
<1>5. RestOK'
  BY <1>1, <1>3 DEF LoopKeeps, bounds, BaseInv, TypeOK, RestOK
<1>6. StockInv'
  BY <1>1, StocksKept DEF exchange, ledger, BaseInv
<1>7. PurchaseInv' /\ OpenInv'
  BY <1>1, <1>3 DEF ledger, BaseInv, PurchaseInv, OpenInv, Open, OpenWith
<1> QED
  BY <1>3, <1>4, <1>5, <1>6, <1>7, TypePartsNext DEF BaseInv

\* What an entry is sized to cost is within the caps, and it pays no more.
LEMMA Sent ==
    ASSUME BaseInv, pc = "entries", NEW s, NEW t, Send(s, t)
    PROVE  /\ s \in Symbols /\ view[s] \in Prices /\ s \notin carried.open
           /\ position[s] = 0 /\ ~armed /\ entries < MaxEntries
           /\ purchase'.symbol = s /\ purchase'.strategy = t
           /\ purchase'.bought \in Nat /\ purchase'.notional \in Nat
           /\ purchase' = [symbol |-> s, strategy |-> t, bought |-> purchase'.bought,
                           notional |-> purchase'.notional]
           /\ purchase'.bought * view[s] <= purchase'.notional
           /\ cash' \in Nat
           /\ held' \in [Symbols -> Nat] /\ held'[s] = held[s] + purchase'.bought
           /\ \A x \in Symbols : x # s => held'[x] = held[x]
           /\ purchase'.notional <= carried.free
           /\ 100 * purchase'.notional <= acct.equity * PositionPct
           /\ 100 * purchase'.notional + 100 * carried.deployed <= acct.equity * DeployedPct
           /\ Cardinality(carried.open) < MaxConcurrent
           /\ faults' \in 0..MaxFaults
<1>1. PICK gap \in StopGaps, m \in Multipliers :
          LET r == Request(s, gap, m) IN
          /\ Signal(s, t, gap) /\ Accepted(r)
          /\ \E bought \in 0..Quantity(r) :
                /\ bought * view[s] <= cash
                /\ cash' = cash - bought * view[s]
                /\ held' = [held EXCEPT ![s] = @ + bought]
                /\ Counted(bought \notin {0, Quantity(r)})
                /\ purchase' = [symbol |-> s, strategy |-> t, bought |-> bought,
                                notional |-> Quantity(r) * view[s]]
  BY DEF Send
<1> DEFINE r == Request(s, gap, m)
           q == Quantity(r)
<1>2. PICK bought \in 0..q :
          /\ bought * view[s] <= cash
          /\ cash' = cash - bought * view[s]
          /\ held' = [held EXCEPT ![s] = @ + bought]
          /\ Counted(bought \notin {0, q})
          /\ purchase' = [symbol |-> s, strategy |-> t, bought |-> bought, notional |-> q * view[s]]
  BY <1>1
<1>3. /\ r \in Requests /\ s \in Symbols /\ view[s] \in Nat \ {0} /\ view[s] # None
      /\ r.entry = view[s] /\ r.free = carried.free /\ r.equity = acct.equity
      /\ r.deployed = carried.deployed /\ r.open = Cardinality(carried.open)
  BY <1>1, RequestIsSized DEF Request, BaseInv
<1>4. /\ q \in Nat \ {0} /\ q * view[s] <= carried.free
      /\ q * (100 * view[s]) <= acct.equity * PositionPct
      /\ q * (100 * view[s]) + 100 * carried.deployed <= acct.equity * DeployedPct
  <2> HIDE DEF r
  <2> QED
    BY <1>1, <1>3, SizedWithinBounds DEF r
<1>5. s \notin carried.open /\ view[s] \in Prices /\ entries < MaxEntries /\ ~armed
  BY <1>1, <1>3 DEF Signal, Send, BaseInv, TypeOK
<1>6. position[s] = 0
  BY <1>3, <1>5 DEF BaseInv, OpenInv, Open, OpenWith
<1>7. Cardinality(carried.open) < MaxConcurrent
  <2>1. ~(r.open >= MaxConcurrent)
    BY <1>1 DEF Accepted, Reason
  <2>2. Cardinality(carried.open) \in Nat
    BY OpenIsFinite DEF BaseInv, TypeOK
  <2> HIDE DEF r
  <2> QED
    BY <1>3, <2>1, <2>2, SizingAssumption
<1>8. faults' \in 0..MaxFaults
  BY <1>2, TradingAssumption DEF Counted, BaseInv, TypeOK
<1> HIDE DEF r, q
<1>9. bought \in Nat /\ bought * view[s] \in Nat /\ q * view[s] \in Nat /\ cash \in Nat
  BY <1>3, <1>4, ProductIsNat DEF BaseInv, TypeOK
<1>10. bought * view[s] <= q * view[s]
  BY <1>3, <1>4, FewerStepsCostLess
<1>11. q * (100 * view[s]) = 100 * (q * view[s])
  BY <1>3, <1>4
<1>12. cash' \in Nat
  BY <1>2, <1>9
<1>13. /\ held' \in [Symbols -> Nat] /\ held'[s] = held[s] + bought
       /\ \A x \in Symbols : x # s => held'[x] = held[x]
  BY <1>2, <1>3, <1>9 DEF BaseInv, TypeOK
<1>14. purchase'.symbol = s /\ purchase'.strategy = t /\ purchase'.bought = bought
       /\ purchase'.notional = q * view[s]
  BY <1>2
<1> QED
  BY <1>2, <1>3, <1>4, <1>5, <1>6, <1>7, <1>8, <1>9, <1>10, <1>11, <1>12, <1>13, <1>14

LEMMA SendBase ==
    ASSUME BaseInv, pc = "entries", LoopKeeps, NEW task \in todo, Send(task[1], task[2])
    PROVE  BaseInv'
<1> DEFINE s == task[1]
           t == task[2]
<1>1. /\ s \in Symbols /\ view[s] \in Prices /\ position[s] = 0 /\ entries < MaxEntries
      /\ purchase'.symbol = s /\ purchase'.strategy = t
      /\ purchase'.bought \in Nat /\ purchase'.notional \in Nat
      /\ purchase' = [symbol |-> s, strategy |-> t, bought |-> purchase'.bought,
                      notional |-> purchase'.notional]
      /\ cash' \in Nat
      /\ held' \in [Symbols -> Nat] /\ held'[s] = held[s] + purchase'.bought
      /\ \A x \in Symbols : x # s => held'[x] = held[x]
      /\ faults' \in 0..MaxFaults
  BY Sent
<1>2. /\ purchase'.bought * view[s] <= purchase'.notional
      /\ purchase'.notional <= carried.free
      /\ 100 * purchase'.notional <= acct.equity * PositionPct
      /\ 100 * purchase'.notional + 100 * carried.deployed <= acct.equity * DeployedPct
      /\ Cardinality(carried.open) < MaxConcurrent
  BY Sent
<1>3. /\ entries' = entries + 1 /\ pc' = "bought"
      /\ UNCHANGED <<sold, ledger, armed, carried, todo, result, unrecorded>>
  BY DEF Send
<1>4. task = <<s, t>> /\ t \in Strategies \cup {None}
  BY DEF BaseInv, TypeOK
<1> HIDE DEF s, t
<1>5. StockOK' /\ ViewOK' /\ ResultOK' /\ HistoryOK'
  BY <1>1, <1>3 DEF LoopKeeps, ledger, BaseInv, TypeOK, StockOK, ViewOK, ResultOK, HistoryOK, Open, OpenWith
<1>6. CarriedOK'
  <2>1. purchase' \in [symbol : Symbols \cup {None}, strategy : Strategies \cup {None},
                       bought : Nat, notional : Nat]
    BY <1>1, <1>4
  <2> QED
    BY <1>3, <2>1 DEF BaseInv, TypeOK, CarriedOK
<1>7. RestOK'
  <2>1. entries' \in 0..MaxEntries
    BY <1>1, <1>3, TradingAssumption DEF BaseInv, TypeOK
  <2> QED
    BY <1>1, <1>3, <2>1 DEF LoopKeeps, BaseInv, TypeOK, RestOK
<1>8. StockInv'
  <2> SUFFICES ASSUME NEW x \in Symbols PROVE Accounted(x)'
    BY DEF StockInv
  <2>1. Accounted(x) /\ Pending(x) = 0
    BY DEF BaseInv, StockInv, PurchaseInv, Pending, NoPurchase
  <2>2. held[x] \in Nat /\ sold[x] \in Nat /\ position[x] \in Nat
    BY StockNumbers DEF BaseInv
  <2>3. sold' = sold /\ position' = position /\ unrecorded' = unrecorded
    BY <1>3 DEF ledger
  <2>4. CASE x = s
    <3>1. Pending(x)' = purchase'.bought /\ held'[x] = held[x] + purchase'.bought
      BY <1>1, <2>4 DEF Pending
    <3> QED
      BY <1>1, <2>1, <2>2, <2>3, <3>1 DEF Accounted
  <2>5. CASE x # s
    <3>1. Pending(x)' = 0 /\ held'[x] = held[x]
      BY <1>1, <2>5 DEF Pending
    <3> QED
      BY <2>1, <2>3, <3>1 DEF Accounted
  <2> QED
    BY <2>4, <2>5
<1>9. PurchaseInv'
  <2>1. /\ view' = view /\ acct' = acct /\ carried' = carried /\ todo' = todo /\ position' = position
    BY <1>3 DEF LoopKeeps, ledger
  <2> QED
    BY <1>1, <1>2, <1>3, <1>4, <2>1 DEF PurchaseInv
<1>10. OpenInv'
  BY <1>3 DEF ledger, BaseInv, OpenInv, Open, OpenWith
<1> QED
  BY <1>5, <1>6, <1>7, <1>8, <1>9, <1>10, TypePartsNext DEF BaseInv

LEMMA EntriesBase ==
    ASSUME BaseInv, Entries
    PROVE  BaseInv'
<1>1. pc = "entries" /\ LoopKeeps
  BY DEF Entries, LoopKeeps
<1>2. PICK task \in todo :
          \/ PassOver(task[1], task[2]) \/ FindStale(task[1], task[2]) \/ Decline(task[1], task[2])
          \/ Reject(task[1], task[2]) \/ Halt(task[1], task[2]) \/ Send(task[1], task[2])
  BY DEF Entries
<1>3. CASE Send(task[1], task[2])
  BY <1>1, <1>3, SendBase
<1>4. CASE ~Send(task[1], task[2])
  BY <1>1, <1>2, <1>4, PassedBase
<1> QED
  BY <1>3, <1>4

-----------------------------------------------------------------------------
(***************************************************************************)
(* From the answer to the entry on                                         *)
(***************************************************************************)

LEMMA Bought ==
    ASSUME BaseInv, pc = "bought"
    PROVE  /\ purchase.symbol \in Symbols /\ purchase.bought \in Nat /\ purchase.notional \in Nat
           /\ position[purchase.symbol] = 0 /\ sold[purchase.symbol] = 0
           /\ purchase.symbol \notin Open /\ carried.open = Open
           /\ held[purchase.symbol] \in Nat /\ purchase.bought <= held[purchase.symbol]
           /\ purchase.symbol \notin unrecorded => held[purchase.symbol] = purchase.bought
           /\ view[purchase.symbol] \in Nat \ {0} /\ view[purchase.symbol] # None
           /\ <<purchase.symbol, purchase.strategy>> \in todo
<1> DEFINE s == purchase.symbol
<1>1. /\ s \in Symbols /\ position[s] = 0 /\ view[s] \in Nat \ {0} /\ view[s] # None
      /\ <<s, purchase.strategy>> \in todo
  BY TradingAssumption DEF BaseInv, PurchaseInv
<1>2. Accounted(s) /\ Pending(s) = purchase.bought
  BY <1>1 DEF BaseInv, StockInv, Pending
<1>3. held[s] \in Nat /\ sold[s] \in Nat /\ purchase.bought \in Nat /\ purchase.notional \in Nat
  BY <1>1 DEF BaseInv, TypeOK
<1>4. s \notin Open /\ carried.open = Open
  BY <1>1 DEF BaseInv, OpenInv, Open, OpenWith
<1> HIDE DEF s
<1>5. /\ sold[s] = 0 /\ purchase.bought <= held[s]
      /\ s \notin unrecorded => held[s] = purchase.bought
  BY <1>1, <1>2, <1>3 DEF Accounted
<1> QED
  BY <1>1, <1>3, <1>4, <1>5 DEF s

\* The position is opened for what was bought, some of which may be sold already.
LEMMA PositionOpened ==
    ASSUME BaseInv, pc = "bought", purchase.bought # 0, NEW resting \in BOOLEAN, OpenPosition(resting),
           NEW steps \in 0..purchase.bought,
           held' \in [Symbols -> Nat], sold' \in [Symbols -> Nat], cash' \in Nat,
           held'[purchase.symbol] = held[purchase.symbol] - steps, sold'[purchase.symbol] = steps,
           \A x \in Symbols : x # purchase.symbol => held'[x] = held[x] /\ sold'[x] = sold[x],
           unrecorded' = unrecorded, purchase' = NoPurchase
    PROVE  /\ StockInv' /\ StockOK' /\ Open' = Open \cup {purchase.symbol}
           /\ position' \in [Symbols -> Nat] /\ position'[purchase.symbol] = purchase.bought
           /\ \A x \in Symbols : x # purchase.symbol => position'[x] = position[x]
<1> DEFINE s == purchase.symbol
<1>1. /\ s \in Symbols /\ purchase.bought \in Nat /\ position[s] = 0 /\ sold[s] = 0
      /\ held[s] \in Nat /\ purchase.bought <= held[s]
      /\ s \notin unrecorded => held[s] = purchase.bought
  BY Bought
<1>2. /\ position' = [position EXCEPT ![s] = purchase.bought]
      /\ protected' \subseteq protected \cup {s}
  BY DEF OpenPosition
<1>3. /\ position' \in [Symbols -> Nat] /\ position'[s] = purchase.bought
      /\ \A x \in Symbols : x # s => position'[x] = position[x]
  BY <1>1, <1>2 DEF BaseInv, TypeOK
<1>4. Open' = Open \cup {s}
  BY <1>1, <1>3 DEF Open, OpenWith
<1>5. StockOK'
  BY <1>2, <1>3, <1>4 DEF BaseInv, TypeOK, StockOK
<1>6. StockInv'
  <2> SUFFICES ASSUME NEW x \in Symbols PROVE Accounted(x)'
    BY DEF StockInv
  <2>1. Pending(x)' = 0
    BY DEF Pending, NoPurchase
  <2>2. CASE x = s
    <3>1. held'[x] = held[s] - steps /\ sold'[x] = steps /\ position'[x] = purchase.bought
      BY <1>3, <2>2
    <3> HIDE DEF s
    <3> QED
      BY <1>1, <2>1, <2>2, <3>1 DEF Accounted
  <2>3. CASE x # s
    <3>1. Accounted(x) /\ Pending(x) = 0
      BY <2>3 DEF BaseInv, StockInv, Pending
    <3>2. held'[x] = held[x] /\ sold'[x] = sold[x] /\ position'[x] = position[x]
      BY <1>3, <2>3
    <3> QED
      BY <2>1, <3>1, <3>2 DEF Accounted
  <2> QED
    BY <2>2, <2>3
<1> QED
  BY <1>3, <1>4, <1>5, <1>6

LEMMA Reversed ==
    ASSUME BaseInv, pc = "bought", NEW steps \in 0..purchase.bought, Reversal(steps)
    PROVE  /\ cash' \in Nat /\ held' \in [Symbols -> Nat]
           /\ held'[purchase.symbol] = held[purchase.symbol] - steps
           /\ \A x \in Symbols : x # purchase.symbol => held'[x] = held[x]
<1> DEFINE s == purchase.symbol
<1>1. /\ s \in Symbols /\ purchase.bought \in Nat /\ held[s] \in Nat /\ purchase.bought <= held[s]
      /\ view[s] \in Nat
  BY Bought
<1>2. steps \in Nat /\ held[s] - steps \in Nat
  BY <1>1
<1>3. steps * view[s] \in Nat
  BY <1>1, <1>2, ProductIsNat
<1>4. cash' = cash + steps * view[s] /\ held' = [held EXCEPT ![s] = @ - steps]
  BY DEF Reversal
<1> HIDE DEF s
<1>5. cash' \in Nat
  BY <1>3, <1>4 DEF BaseInv, TypeOK
<1>6. /\ held' \in [Symbols -> Nat] /\ held'[s] = held[s] - steps
      /\ \A x \in Symbols : x # s => held'[x] = held[x]
  BY <1>1, <1>2, <1>4 DEF BaseInv, TypeOK
<1> QED
  BY <1>5, <1>6 DEF s

\* What Bracket leaves alone.
BracketKeeps == UNCHANGED <<snap, armed, live, entries, truth, unsettled>>

\* The loop goes on after an entry, with the purchase gone.
LEMMA WentOn ==
    ASSUME BaseInv, pc = "bought", BracketKeeps, UNCHANGED <<view, acct>>, purchase' = NoPurchase,
           pc' \in {"entries", "close"}, todo' \subseteq todo, ResultOK', StockOK', StockInv',
           carried' \in [free : Nat, deployed : Nat, open : SUBSET Symbols, entered : SUBSET Symbols],
           pc' = "entries" => carried'.open = Open',
           faults' \in 0..MaxFaults, unrecorded' \subseteq Symbols
    PROVE  BaseInv'
<1>1. ViewOK' /\ CarriedOK'
  BY DEF NoPurchase, BaseInv, TypeOK, ViewOK, CarriedOK
<1>2. RestOK' /\ HistoryOK'
  BY DEF BracketKeeps, BaseInv, TypeOK, RestOK, HistoryOK
<1>3. PurchaseInv' /\ OpenInv'
  BY DEF PurchaseInv, OpenInv
<1> QED
  BY <1>1, <1>2, <1>3, TypePartsNext DEF BaseInv

LEMMA NotAnsweredBase ==
    ASSUME BaseInv, pc = "bought", BracketKeeps, NotAnswered, purchase' = NoPurchase,
           UNCHANGED <<view, acct>>
    PROVE  BaseInv'
<1>1. /\ result' = DecidedOn(purchase.symbol)
      /\ unrecorded' = unrecorded \cup Astray(purchase.bought)
      /\ Counted(purchase.bought # 0)
      /\ GoOn(<<purchase.symbol, purchase.strategy>>)
      /\ UNCHANGED <<exchange, ledger, carried>>
  BY DEF NotAnswered
<1>2. StockInv' /\ unrecorded' \subseteq Symbols
  BY <1>1, PurchaseLost DEF exchange, ledger
<1>3. StockOK'
  BY <1>1 DEF exchange, ledger, BaseInv, TypeOK, StockOK, Open, OpenWith
<1>4. purchase.symbol \in Symbols /\ carried.open = Open
  BY Bought
<1>5. ResultOK' /\ pc' \in {"entries", "close"} /\ todo' \subseteq todo
  BY <1>1, <1>4, DecidedTypes, GoOnTypes DEF BaseInv
<1>6. faults' \in 0..MaxFaults
  BY <1>1, TradingAssumption DEF Counted, BaseInv, TypeOK
<1>7. carried' = carried /\ Open' = Open
  BY <1>1 DEF ledger, Open, OpenWith
<1>8. carried' \in [free : Nat, deployed : Nat, open : SUBSET Symbols, entered : SUBSET Symbols]
  BY <1>7 DEF BaseInv, TypeOK
<1> QED
  BY <1>2, <1>3, <1>4, <1>5, <1>6, <1>7, <1>8, WentOn

LEMMA EnterBase ==
    ASSUME BaseInv, pc = "bought", BracketKeeps, Enter, purchase' = NoPurchase, UNCHANGED <<view, acct>>
    PROVE  BaseInv'
<1>1. /\ purchase.bought # 0 /\ OpenPosition(TRUE)
      /\ carried' = Spent(purchase.symbol, purchase.notional)
      /\ result' = DecidedOn(purchase.symbol)
      /\ GoOn(<<purchase.symbol, purchase.strategy>>)
      /\ UNCHANGED <<exchange, faults, unrecorded>>
  BY DEF Enter
<1>2. /\ purchase.symbol \in Symbols /\ carried.open = Open /\ purchase.bought \in Nat
      /\ held[purchase.symbol] \in Nat /\ sold[purchase.symbol] = 0 /\ purchase.notional \in Nat
  BY Bought
<1>3. StockInv' /\ StockOK' /\ Open' = Open \cup {purchase.symbol}
  <2>1. /\ held' = held /\ sold' = sold /\ cash' = cash /\ 0 \in 0..purchase.bought
        /\ held[purchase.symbol] = held[purchase.symbol] - 0
    BY <1>1, <1>2 DEF exchange
  <2>2. held' \in [Symbols -> Nat] /\ sold' \in [Symbols -> Nat] /\ cash' \in Nat
    BY <2>1 DEF BaseInv, TypeOK
  <2> QED
    BY <1>1, <1>2, <2>1, <2>2, PositionOpened
<1>4. ResultOK' /\ pc' \in {"entries", "close"} /\ todo' \subseteq todo
  BY <1>1, <1>2, DecidedTypes, GoOnTypes DEF BaseInv
<1>5. /\ carried' \in [free : Nat, deployed : Nat, open : SUBSET Symbols, entered : SUBSET Symbols]
      /\ carried'.open = Open'
  <2>1. carried.free - purchase.notional \in Nat /\ carried.deployed + purchase.notional \in Nat
    BY <1>2 DEF BaseInv, TypeOK, PurchaseInv
  <2>2. carried.open \in SUBSET Symbols /\ carried.entered \in SUBSET Symbols
    BY DEF BaseInv, TypeOK
  <2> QED
    BY <1>1, <1>2, <1>3, <2>1, <2>2 DEF Spent
<1>6. faults' \in 0..MaxFaults /\ unrecorded' \subseteq Symbols
  BY <1>1 DEF BaseInv, TypeOK
<1> QED
  BY <1>3, <1>4, <1>5, <1>6, WentOn

LEMMA ReverseBase ==
    ASSUME BaseInv, pc = "bought", BracketKeeps, Reverse, purchase' = NoPurchase, UNCHANGED <<view, acct>>
    PROVE  BaseInv'
<1>1. PICK steps \in 0..purchase.bought :
          /\ Reversal(steps)
          /\ unrecorded' = unrecorded \cup Astray(purchase.bought - steps)
          /\ Counted(steps # purchase.bought)
  BY DEF Reverse
<1>2. /\ result' = DecidedOn(purchase.symbol)
      /\ GoOn(<<purchase.symbol, purchase.strategy>>)
      /\ UNCHANGED <<sold, ledger, carried>>
  BY DEF Reverse
<1>3. /\ purchase.symbol \in Symbols /\ purchase.bought \in Nat /\ carried.open = Open
      /\ position[purchase.symbol] = 0 /\ sold[purchase.symbol] = 0 /\ held[purchase.symbol] \in Nat
      /\ purchase.bought <= held[purchase.symbol]
      /\ purchase.symbol \notin unrecorded => held[purchase.symbol] = purchase.bought
  BY Bought
<1>4. /\ cash' \in Nat /\ held' \in [Symbols -> Nat]
      /\ held'[purchase.symbol] = held[purchase.symbol] - steps
      /\ \A x \in Symbols : x # purchase.symbol => held'[x] = held[x]
  BY <1>1, Reversed
<1>5. StockOK' /\ Open' = Open
  BY <1>2, <1>4 DEF ledger, BaseInv, TypeOK, StockOK, Open, OpenWith
<1>6. StockInv'
  <2> SUFFICES ASSUME NEW x \in Symbols PROVE Accounted(x)'
    BY DEF StockInv
  <2>1. Pending(x)' = 0 /\ position'[x] = position[x] /\ sold'[x] = sold[x]
    BY <1>2 DEF Pending, NoPurchase, ledger
  <2>2. CASE x = purchase.symbol
    <3>1. held'[x] = held[x] - steps
      BY <1>4, <2>2
    <3>2. x \notin unrecorded' => x \notin unrecorded /\ purchase.bought - steps = 0
      BY <1>1, <2>2 DEF Astray
    <3>3. /\ position[x] = 0 /\ sold[x] = 0 /\ held[x] \in Nat /\ purchase.bought <= held[x]
          /\ purchase.bought \in Nat /\ steps \in Nat /\ steps <= purchase.bought
          /\ x \notin unrecorded => held[x] = purchase.bought
      BY <1>3, <2>2
    <3>4. position'[x] = 0 /\ sold'[x] = 0 /\ 0 <= held'[x] /\ (x \notin unrecorded' => held'[x] = 0)
      BY <2>1, <3>1, <3>2, <3>3
    <3>5. held'[x] \in Nat
      BY <1>4
    <3> HIDE <3>1, <3>2, <3>3
    <3> QED
      BY <2>1, <3>4, <3>5 DEF Accounted
  <2>3. CASE x # purchase.symbol
    <3>1. Accounted(x) /\ Pending(x) = 0
      BY <2>3 DEF BaseInv, StockInv, Pending
    <3>2. held'[x] = held[x] /\ (x \notin unrecorded' => x \notin unrecorded)
      BY <1>1, <1>4, <2>3
    <3> QED
      BY <2>1, <3>1, <3>2 DEF Accounted
  <2> QED
    BY <2>2, <2>3
<1>7. ResultOK' /\ pc' \in {"entries", "close"} /\ todo' \subseteq todo
  BY <1>2, <1>3, DecidedTypes, GoOnTypes DEF BaseInv
<1>8. faults' \in 0..MaxFaults /\ unrecorded' \subseteq Symbols
  <2>1. faults' \in 0..MaxFaults
    BY <1>1, TradingAssumption DEF Counted, BaseInv, TypeOK
  <2>2. unrecorded' \subseteq Symbols
    BY <1>1, <1>3 DEF Astray, BaseInv, TypeOK
  <2> QED
    BY <2>1, <2>2
<1>9. carried' \in [free : Nat, deployed : Nat, open : SUBSET Symbols, entered : SUBSET Symbols]
  BY <1>2 DEF BaseInv, TypeOK
<1> QED
  BY <1>2, <1>3, <1>5, <1>6, <1>7, <1>8, <1>9, WentOn

LEMMA BlockReversalBase ==
    ASSUME BaseInv, pc = "bought", BracketKeeps, BlockReversal, purchase' = NoPurchase,
           UNCHANGED <<view, acct>>
    PROVE  BaseInv'
<1>1. PICK resting \in BOOLEAN : OpenPosition(resting)
  BY DEF BlockReversal
<1>2. /\ purchase.bought # 0 /\ BreakOff(purchase.symbol)
      /\ UNCHANGED <<exchange, carried, faults, unrecorded>>
  BY DEF BlockReversal
<1>3. /\ purchase.symbol \in Symbols /\ purchase.bought \in Nat
      /\ held[purchase.symbol] \in Nat /\ sold[purchase.symbol] = 0
  BY Bought
<1>4. StockInv' /\ StockOK'
  <2>1. /\ held' = held /\ sold' = sold /\ cash' = cash /\ 0 \in 0..purchase.bought
        /\ held[purchase.symbol] = held[purchase.symbol] - 0
    BY <1>2, <1>3 DEF exchange
  <2>2. held' \in [Symbols -> Nat] /\ sold' \in [Symbols -> Nat] /\ cash' \in Nat
    BY <2>1 DEF BaseInv, TypeOK
  <2> QED
    BY <1>1, <1>2, <1>3, <2>1, <2>2, PositionOpened
<1>5. ResultOK' /\ pc' = "close" /\ todo' = {}
  BY <1>2, BreakOffTypes DEF BaseInv
<1>6. /\ carried' \in [free : Nat, deployed : Nat, open : SUBSET Symbols, entered : SUBSET Symbols]
      /\ faults' \in 0..MaxFaults /\ unrecorded' \subseteq Symbols
  BY <1>2 DEF BaseInv, TypeOK
<1> QED
  BY <1>4, <1>5, <1>6, WentOn

LEMMA LeaveOpenBase ==
    ASSUME BaseInv, pc = "bought", BracketKeeps, LeaveOpen
    PROVE  BaseInv'
<1>1. /\ purchase.bought # 0 /\ Counted(TRUE) /\ Forget /\ result' = NoResult /\ pc' = "idle"
      /\ UNCHANGED unrecorded
  BY DEF LeaveOpen
<1>2. ViewOK' /\ CarriedOK' /\ ResultOK' /\ purchase' = NoPurchase
  BY <1>1, ForgetTypes, NoResultTypes
<1>3. /\ purchase.symbol \in Symbols /\ purchase.bought \in Nat
      /\ held[purchase.symbol] \in Nat /\ sold[purchase.symbol] = 0
  BY Bought
<1>4. StockInv' /\ StockOK'
  <2>1. CASE OpenPosition(TRUE) /\ UNCHANGED exchange
    <3>1. /\ held' = held /\ sold' = sold /\ cash' = cash /\ 0 \in 0..purchase.bought
          /\ held[purchase.symbol] = held[purchase.symbol] - 0
      BY <1>3, <2>1 DEF exchange
    <3>2. held' \in [Symbols -> Nat] /\ sold' \in [Symbols -> Nat] /\ cash' \in Nat
      BY <3>1 DEF BaseInv, TypeOK
    <3> QED
      BY <1>1, <1>2, <1>3, <2>1, <3>1, <3>2, PositionOpened
  <2>2. CASE /\ OpenPosition(FALSE)
             /\ \E steps \in 0..purchase.bought :
                   Reversal(steps) /\ sold' = [sold EXCEPT ![purchase.symbol] = steps]
    <3>1. PICK steps \in 0..purchase.bought :
              Reversal(steps) /\ sold' = [sold EXCEPT ![purchase.symbol] = steps]
      BY <2>2
    <3>2. /\ cash' \in Nat /\ held' \in [Symbols -> Nat]
          /\ held'[purchase.symbol] = held[purchase.symbol] - steps
          /\ \A x \in Symbols : x # purchase.symbol => held'[x] = held[x]
      BY <3>1, Reversed
    <3>3. /\ sold' \in [Symbols -> Nat] /\ sold'[purchase.symbol] = steps
          /\ \A x \in Symbols : x # purchase.symbol => sold'[x] = sold[x]
      BY <1>3, <3>1 DEF BaseInv, TypeOK
    <3> QED
      BY <1>1, <1>2, <2>2, <3>2, <3>3, PositionOpened
  <2> QED
    BY <2>1, <2>2 DEF LeaveOpen
<1>5. RestOK' /\ HistoryOK'
  <2>1. faults' \in 0..MaxFaults
    BY <1>1, TradingAssumption DEF Counted, BaseInv, TypeOK
  <2> QED
    BY <1>1, <2>1 DEF BracketKeeps, BaseInv, TypeOK, RestOK, HistoryOK
<1>6. PurchaseInv' /\ OpenInv'
  BY <1>1, <1>2 DEF PurchaseInv, OpenInv
<1> QED
  BY <1>2, <1>4, <1>5, <1>6, TypePartsNext DEF BaseInv

LEMMA BracketBase ==
    ASSUME BaseInv, Bracket
    PROVE  BaseInv'
<1>1. pc = "bought" /\ BracketKeeps
  BY DEF Bracket, BracketKeeps
<1>2. CASE LeaveOpen
  BY <1>1, <1>2, LeaveOpenBase
<1>3. CASE (NotAnswered \/ Enter \/ Reverse \/ BlockReversal) /\ purchase' = NoPurchase
           /\ UNCHANGED <<view, acct>>
  BY <1>1, <1>3, NotAnsweredBase, EnterBase, ReverseBase, BlockReversalBase
<1> QED
  BY <1>2, <1>3 DEF Bracket

LEMMA BaseStep ==
    ASSUME BaseInv, [Next]_vars
    PROVE  BaseInv'
<1>1. ASSUME NEW s \in Symbols, ExitFills(s) PROVE BaseInv'
  BY <1>1, ExitFillsBase
<1>2. CASE OperatorFlips \/ NewDay
  BY <1>2, OutsideBase
<1>3. CASE TickFails
  BY <1>3, TickFailsBase
<1>4. CASE Ingest \/ IngestDies
  BY <1>4, IngestBase
<1>5. CASE Value
  BY <1>5, ValueBase
<1>6. CASE Limits
  BY <1>6, LimitsBase
<1>7. CASE Entries
  BY <1>7, EntriesBase
<1>8. CASE Bracket
  BY <1>8, BracketBase
<1>9. CASE Close
  BY <1>9, CloseBase
<1>10. CASE UNCHANGED vars
  <2> USE <1>10 DEF vars, exchange, ledger, memory, bounds, history
  <2>1. TypeOK'
    BY DEF BaseInv, TypeOK, Open, OpenWith
  <2>2. StockInv'
    BY StocksKept DEF BaseInv
  <2>3. PurchaseInv' /\ OpenInv'
    BY DEF BaseInv, PurchaseInv, OpenInv, Open, OpenWith
  <2> QED
    BY <2>1, <2>2, <2>3 DEF BaseInv
<1> QED
  BY <1>1, <1>2, <1>3, <1>4, <1>5, <1>6, <1>7, <1>8, <1>9, <1>10 DEF Next, Tick, Environment

THEOREM BaseAlways == Spec => []BaseInv
  BY InitBase, BaseStep, PTL DEF Spec

\* Every variable keeps its type: in particular no entry spends more than there
\* is, whatever exits fill, and no balance or valuation falls below nothing.
THEOREM TradingTypeCorrect == Spec => []TypeOK
  BY BaseAlways, PTL DEF BaseInv

-----------------------------------------------------------------------------
(***************************************************************************)
(* The limits. While ledger and exchange have not come apart, what the     *)
(* snapshots remember is what the account was worth, what the tick valued  *)
(* is what it was worth when it was valued, and its verdict is the one     *)
(* that worth deserves.                                                    *)
(***************************************************************************)

TrueCause == Breach(truth.now, truth.best, truth.day)

TruthInv ==
    /\ pc = "value" /\ ~unsettled => \A s \in Symbols : sold[s] = 0
    /\ Settled =>
          /\ snap.any = truth.any
          /\ snap.any => snap.peak = truth.best
          /\ snap.today => snap.day = truth.day
          /\ pc = "limits" /\ acct.complete =>
                acct.equity = truth.now /\ acct.peak = truth.best /\ acct.day = truth.day

\* The verdict on what the account was worth.
Judged ==
    IF result.suspended THEN result.cause = "NONE"
    ELSE result.cause = TrueCause /\ (TrueCause # "NONE" => result.halted)

ResultInv ==
    /\ pc # "close" /\ ~result.done => result.cause = "NONE"
    /\ pc \in {"value", "limits", "entries", "bought"} => ~result.done /\ ~result.suspended
    /\ result.done => pc = "idle"
    /\ pc \in {"entries", "bought"} => acct.complete /\ (Settled => TrueCause = "NONE")
    /\ Settled /\ (pc = "close" \/ result.done) => Judged
    /\ pc \in {"entries", "bought"} =>
          Configured \subseteq result.decided \cup {task[1] : task \in todo}
    /\ pc = "close" \/ result.done => Configured \subseteq result.decided

\* Prices, and with them positions, are of configured symbols only.
FetchedInv ==
    \A s \in Symbols : (position[s] # 0 => s \in Configured) /\ (view[s] # None => s \in Configured)

Inv == TruthInv /\ ResultInv /\ FetchedInv

LEMMA InitInv == Init => Inv
<1> SUFFICES ASSUME Init PROVE Inv
  OBVIOUS
<1> USE DEF Init, NoAccount, NoResult, NoTruth
<1>1. TruthInv
  BY DEF TruthInv
<1>2. ResultInv
  BY DEF ResultInv
<1>3. FetchedInv
  BY DEF FetchedInv
<1> QED
  BY <1>1, <1>2, <1>3 DEF Inv

\* Once they have come apart they stay so.
LEMMA NeverResettled ==
    ASSUME BaseInv, [Next]_vars
    PROVE  (unsettled => unsettled') /\ unrecorded \subseteq unrecorded' /\ (Settled' => Settled)
<1>1. unsettled => unsettled'
  <2>1. unsettled' = unsettled \/ unsettled'
    BY DEF Next, Tick, Environment, ExitFills, OperatorFlips, NewDay, TickFails, Ingest, IngestDies,
       Value, Limits, Entries, Bracket, Close, history, vars, BaseInv, TypeOK
  <2> QED
    BY <2>1
<1>2. unrecorded \subseteq unrecorded'
  BY DEF Next, Tick, Environment, ExitFills, OperatorFlips, NewDay, TickFails, Ingest, IngestDies,
     Value, Limits, Entries, PassOver, FindStale, Decline, Reject, Halt, Send, Bracket, NotAnswered,
     Enter, Reverse, BlockReversal, LeaveOpen, Close, history, vars
<1>3. Settled' => Settled
  BY <1>1, <1>2 DEF Settled
<1> QED
  BY <1>1, <1>2, <1>3

\* With nothing sold and nothing unrecorded, the ledger is the exchange.
LEMMA LedgerIsExchange ==
    ASSUME BaseInv, TruthInv, Settled, pc = "value"
    PROVE  position = held
<1>1. ASSUME NEW s \in Symbols PROVE position[s] = held[s]
  <2>1. Accounted(s) /\ s \notin unrecorded /\ sold[s] = 0 /\ Pending(s) = 0
    BY DEF BaseInv, StockInv, PurchaseInv, TruthInv, Settled, Pending, NoPurchase
  <2>2. position[s] \in Nat /\ held[s] \in Nat
    BY StockNumbers DEF BaseInv
  <2> QED
    BY <2>1, <2>2 DEF Accounted
<1> QED
  BY <1>1 DEF BaseInv, TypeOK

\* Then what is valued is what it is worth.
LEMMA ValueTruth ==
    ASSUME BaseInv, TruthInv, Value
    PROVE  TruthInv'
<1>1. acct' = Account(view') /\ acct'.complete = Complete(view') /\ acct'.complete \in BOOLEAN
  BY DEF Value, Account, Complete
<1>2. pc = "value" /\ pc' = "limits" /\ unsettled' = unsettled /\ unrecorded' = unrecorded
  BY DEF Value
<1> SUFFICES ASSUME Settled
             PROVE  /\ snap'.any = truth'.any
                    /\ snap'.any => snap'.peak = truth'.best
                    /\ snap'.today => snap'.day = truth'.day
                    /\ acct'.complete =>
                          /\ acct'.equity = truth'.now /\ acct'.peak = truth'.best
                          /\ acct'.day = truth'.day
  BY <1>2 DEF TruthInv, Settled
<1>3. position = held
  BY <1>2, LedgerIsExchange
<1>4. /\ snap.any = truth.any
      /\ snap.any => snap.peak = truth.best
      /\ snap.today => snap.day = truth.day
      /\ snap.any \in BOOLEAN /\ snap.today \in BOOLEAN
  BY DEF TruthInv, BaseInv, TypeOK
<1>5. Complete(view') <=> \A s \in OpenWith(held) : view'[s] # None
  BY <1>3 DEF Complete, Open
<1>6. CASE Complete(view')
  <2>1. truth' = Witnessed(Worth(view')) /\ snap' = Recorded(acct')
    BY <1>1, <1>5, <1>6 DEF Value
  <2>2. acct'.equity = Worth(view')
    BY <1>1, <1>3 DEF Account, Worth
  <2>3. acct'.peak = IF snap.any THEN Greater(Worth(view'), snap.peak) ELSE Worth(view')
    BY <1>1, <1>3 DEF Account, Worth
  <2>4. acct'.day = IF NewToday THEN Worth(view') ELSE snap.day
    BY <1>1, <1>3 DEF Account, Worth
  <2>5. /\ truth'.any = TRUE /\ truth'.now = Worth(view')
        /\ truth'.best = IF truth.any THEN Greater(Worth(view'), truth.best) ELSE Worth(view')
        /\ truth'.day = IF NewToday THEN Worth(view') ELSE truth.day
    BY <2>1 DEF Witnessed
  <2>6. snap'.any = TRUE /\ snap'.peak = acct'.peak /\ snap'.day = acct'.day
    BY <2>1 DEF Recorded
  <2>7. acct'.peak = truth'.best
    BY <1>4, <2>3, <2>5
  <2>8. acct'.day = truth'.day
    BY <1>4, <2>4, <2>5 DEF NewToday
  <2> QED
    BY <2>2, <2>5, <2>6, <2>7, <2>8
<1>7. CASE ~Complete(view')
  <2>1. snap' = snap /\ truth' = truth /\ ~acct'.complete
    BY <1>1, <1>5, <1>7 DEF Value
  <2> QED
    BY <1>4, <2>1
<1> QED
  BY <1>6, <1>7

LEMMA TruthStep ==
    ASSUME BaseInv, TruthInv, [Next]_vars
    PROVE  TruthInv'
<1>1. (unsettled => unsettled') /\ (Settled' => Settled)
  BY NeverResettled
<1>2. CASE Value
  BY <1>2, ValueTruth
<1>3. CASE Ingest
  <2>1. /\ pc' = "value" /\ UNCHANGED <<snap, truth>>
        /\ unsettled' = (unsettled \/ \E s \in Symbols : sold'[s] # 0)
    BY <1>3 DEF Ingest
  <2> QED
    BY <1>1, <2>1 DEF TruthInv
<1>4. CASE \E s \in Symbols : ExitFills(s)
  <2>1. /\ UNCHANGED <<snap, truth, pc, acct>>
        /\ unsettled' = (unsettled \/ pc = "value")
    BY <1>4 DEF ExitFills, memory
  <2> QED
    BY <1>1, <2>1 DEF TruthInv
<1>5. CASE NewDay
  <2>1. /\ pc' = pc /\ pc = "idle" /\ truth' = truth
        /\ snap'.any = snap.any /\ snap'.peak = snap.peak /\ snap'.today = FALSE
    BY <1>5 DEF NewDay, history, BaseInv, TypeOK
  <2> QED
    BY <1>1, <2>1 DEF TruthInv
<1>6. CASE UNCHANGED <<snap, truth>> /\ pc' \notin {"value", "limits"}
  BY <1>1, <1>6 DEF TruthInv
<1>7. CASE UNCHANGED <<snap, truth, sold, pc, acct>>
  BY <1>1, <1>7 DEF TruthInv
<1>8. \/ Value \/ Ingest \/ NewDay \/ \E s \in Symbols : ExitFills(s)
      \/ UNCHANGED <<snap, truth>> /\ pc' \notin {"value", "limits"}
      \/ UNCHANGED <<snap, truth, sold, pc, acct>>
  <2>1. CASE OperatorFlips \/ UNCHANGED vars
    BY <2>1 DEF OperatorFlips, exchange, memory, history, vars
  <2>2. CASE TickFails \/ IngestDies \/ Limits \/ Close
    BY <2>2 DEF TickFails, IngestDies, Limits, Close, history
  <2>3. CASE Entries
    BY <2>3 DEF Entries, PassOver, FindStale, Decline, Reject, Halt, Send, GoOn, BreakOff
  <2>4. CASE Bracket
    BY <2>4 DEF Bracket, NotAnswered, Enter, Reverse, BlockReversal, LeaveOpen, GoOn, BreakOff
  <2> QED
    BY <2>1, <2>2, <2>3, <2>4 DEF Next, Tick, Environment
<1> QED
  BY <1>2, <1>3, <1>4, <1>5, <1>6, <1>7, <1>8

LEMMA FetchedStep ==
    ASSUME BaseInv, FetchedInv, [Next]_vars
    PROVE  FetchedInv'
<1>1. CASE Value
  BY <1>1 DEF Value, ledger, Fetched, FetchedInv
<1>2. CASE Ingest \/ IngestDies
  <2>1. \A s \in Symbols : view'[s] = None /\ (position'[s] # 0 => position[s] # 0)
    BY <1>2 DEF Ingest, IngestDies, CloseAll, Forget
  <2> QED
    BY <2>1 DEF FetchedInv
<1>3. CASE UNCHANGED position /\ (view' = view \/ \A s \in Symbols : view'[s] = None)
  BY <1>3 DEF FetchedInv
<1>4. CASE /\ pc = "bought" /\ \E resting \in BOOLEAN : OpenPosition(resting)
           /\ view' = view \/ \A s \in Symbols : view'[s] = None
  <2>1. position' = [position EXCEPT ![purchase.symbol] = purchase.bought]
    BY <1>4 DEF OpenPosition
  <2>2. purchase.symbol \in Configured
    BY <1>4, Bought DEF FetchedInv
  <2>3. \A s \in Symbols : position'[s] # 0 => s \in Configured
    BY <2>1, <2>2 DEF FetchedInv, BaseInv, TypeOK
  <2> QED
    BY <1>4, <2>3 DEF FetchedInv
<1>5. \/ Value \/ Ingest \/ IngestDies
      \/ UNCHANGED position /\ (view' = view \/ \A s \in Symbols : view'[s] = None)
      \/ /\ pc = "bought" /\ \E resting \in BOOLEAN : OpenPosition(resting)
         /\ view' = view \/ \A s \in Symbols : view'[s] = None
  <2>1. CASE OperatorFlips \/ NewDay \/ UNCHANGED vars \/ \E s \in Symbols : ExitFills(s)
    BY <2>1 DEF OperatorFlips, NewDay, ExitFills, ledger, memory, vars
  <2>2. CASE TickFails \/ Limits \/ Close
    BY <2>2 DEF TickFails, Limits, Close, Forget, ledger
  <2>3. CASE Entries
    BY <2>3 DEF Entries, PassOver, FindStale, Decline, Reject, Halt, Send, ledger
  <2>4. CASE Bracket
    BY <2>4 DEF Bracket, NotAnswered, Enter, Reverse, BlockReversal, LeaveOpen, Forget, ledger
  <2> QED
    BY <2>1, <2>2, <2>3, <2>4 DEF Next, Tick, Environment
<1> QED
  BY <1>1, <1>2, <1>3, <1>4, <1>5

-----------------------------------------------------------------------------
(***************************************************************************)
(* The verdict of the tick, and its outcomes                               *)
(***************************************************************************)

\* Nothing happens to what the result is about.
LEMMA ResultKept ==
    ASSUME ResultInv, Settled' => Settled, UNCHANGED <<pc, acct, result, truth, todo>>
    PROVE  ResultInv'
BY DEF ResultInv, Judged, TrueCause

\* A tick that ended without one.
LEMMA ResultDropped ==
    ASSUME result' = NoResult, pc' \in {"idle", "value"}
    PROVE  ResultInv'
BY DEF NoResult, ResultInv

LEMMA LoopContinued ==
    ASSUME TypeOK, ResultInv, Settled' => Settled, pc \in {"entries", "bought"},
           UNCHANGED <<acct, truth>>,
           NEW task \in todo, GoOn(task), result' = DecidedOn(task[1])
    PROVE  ResultInv'
<1>1. /\ result'.cause = result.cause /\ result'.done = result.done /\ result'.suspended = result.suspended
      /\ result'.decided = result.decided \cup {task[1]}
  BY DEF DecidedOn, TypeOK
<1>2. TrueCause' = TrueCause
  BY DEF TrueCause
<1>3. Configured \subseteq result'.decided \cup {x[1] : x \in todo'}
  <2>1. Configured \subseteq result.decided \cup {x[1] : x \in todo}
    BY DEF ResultInv
  <2>2. todo \subseteq todo' \cup {task}
    BY DEF GoOn
  <2> QED
    BY <1>1, <2>1, <2>2
<1>4. result.cause = "NONE" /\ ~result.done /\ ~result.suspended
  BY DEF ResultInv
<1>5. CASE todo = {task}
  <2>1. pc' = "close" /\ todo' = {}
    BY <1>5 DEF GoOn
  <2>2. Settled' => TrueCause' = "NONE"
    BY <1>2 DEF ResultInv
  <2> QED
    BY <1>1, <1>3, <1>4, <2>1, <2>2 DEF ResultInv, Judged
<1>6. CASE todo # {task}
  BY <1>1, <1>2, <1>3, <1>4, <1>6 DEF GoOn, ResultInv
<1> QED
  BY <1>5, <1>6

LEMMA LoopBroken ==
    ASSUME TypeOK, ResultInv, Settled' => Settled, pc \in {"entries", "bought"}, truth' = truth,
           NEW s, BreakOff(s)
    PROVE  ResultInv'
<1>1. /\ result'.cause = result.cause /\ result'.done = result.done /\ result'.suspended = result.suspended
      /\ result'.decided = result.decided \cup {x[1] : x \in todo} /\ pc' = "close"
  BY DEF BreakOff, TypeOK
<1>2. TrueCause' = TrueCause
  BY DEF TrueCause
<1> QED
  BY <1>1, <1>2 DEF ResultInv, Judged

\* Every configured symbol is a task, with a strategy or without.
LEMMA ConfiguredHaveTasks == Configured \subseteq {task[1] : task \in Tasks}
<1> SUFFICES ASSUME NEW s \in Configured PROVE \E task \in Tasks : task[1] = s
  OBVIOUS
<1>1. CASE \E t \in live : SymbolOf[t] = s
  <2>1. PICK t \in live : SymbolOf[t] = s
    BY <1>1
  <2>2. <<SymbolOf[t], t>> \in Tasks
    BY DEF Tasks
  <2> QED
    BY <2>1, <2>2
<1>2. CASE \A t \in live : SymbolOf[t] # s
  <2>1. <<s, None>> \in Tasks
    BY <1>2 DEF Tasks
  <2> QED
    BY <2>1
<1> QED
  BY <1>1, <1>2

LEMMA LimitsResult ==
    ASSUME BaseInv, TruthInv, ResultInv, Limits
    PROVE  ResultInv'
<1>1. pc = "limits" /\ result.cause = "NONE" /\ ~result.done /\ ~result.suspended
  BY DEF Limits, ResultInv
<1>2. Settled' = Settled /\ TrueCause' = TrueCause
  BY DEF Limits, history, Settled, TrueCause
<1>3. Settled /\ acct.complete => Cause = TrueCause
  BY <1>1 DEF TruthInv, Cause, TrueCause
<1>4. ~acct.complete => Cause = "NONE"
  BY DEF Cause
<1>5. Cause # "NONE" => armed'
  BY DEF Limits
<1>6. CASE armed' \/ Suspends
  <2>1. /\ result'.cause = Cause /\ result'.halted = armed' /\ result'.decided = Configured
        /\ result'.suspended = Suspends /\ result'.done = result.done /\ pc' = "close"
    BY <1>6 DEF Limits, BaseInv, TypeOK
  <2>2. Settled' => Judged'
    BY <1>2, <1>3, <1>4, <1>5, <2>1 DEF Judged, Suspends
  <2> QED
    BY <1>1, <2>1, <2>2 DEF ResultInv
<1>7. CASE ~(armed' \/ Suspends)
  <2>1. result' = result /\ acct' = acct /\ pc' = "entries" /\ todo' = Tasks
    BY <1>7 DEF Limits
  <2>2. acct.complete /\ Cause = "NONE"
    BY <1>5, <1>7 DEF Suspends
  <2>3. Settled' => TrueCause' = "NONE"
    BY <1>2, <1>3, <2>2
  <2> QED
    BY <1>1, <2>1, <2>2, <2>3, ConfiguredHaveTasks DEF ResultInv
<1> QED
  BY <1>6, <1>7

LEMMA ResultStep ==
    ASSUME BaseInv, TruthInv, ResultInv, [Next]_vars
    PROVE  ResultInv'
<1>1. Settled' => Settled
  BY NeverResettled
<1>2. CASE OperatorFlips \/ NewDay \/ UNCHANGED vars \/ \E s \in Symbols : ExitFills(s)
  BY <1>1, <1>2, ResultKept DEF OperatorFlips, NewDay, ExitFills, memory, history, vars
<1>3. CASE TickFails \/ Ingest \/ IngestDies \/ (Bracket /\ LeaveOpen)
  BY <1>3, ResultDropped DEF TickFails, Ingest, IngestDies, LeaveOpen
<1>4. CASE Value
  BY <1>4 DEF Value, ResultInv
<1>5. CASE Limits
  BY <1>5, LimitsResult
<1>6. CASE Entries
  <2>1. pc = "entries" /\ UNCHANGED <<acct, truth>>
    BY <1>6 DEF Entries
  <2>2. PICK task \in todo :
            \/ PassOver(task[1], task[2]) \/ FindStale(task[1], task[2]) \/ Decline(task[1], task[2])
            \/ Reject(task[1], task[2]) \/ Halt(task[1], task[2]) \/ Send(task[1], task[2])
    BY <1>6 DEF Entries
  <2>3. task = <<task[1], task[2]>>
    BY TaskIsPair DEF BaseInv
  <2>4. CASE PassOver(task[1], task[2]) \/ Decline(task[1], task[2]) \/ Reject(task[1], task[2])
    <3>1. GoOn(task) /\ result' = DecidedOn(task[1])
      BY <2>3, <2>4 DEF PassOver, Decline, Reject
    <3> QED
      BY <1>1, <2>1, <3>1, LoopContinued DEF BaseInv
  <2>5. CASE FindStale(task[1], task[2]) \/ Halt(task[1], task[2])
    <3>1. BreakOff(task[1])
      BY <2>5 DEF FindStale, Halt
    <3> QED
      BY <1>1, <2>1, <3>1, LoopBroken DEF BaseInv
  <2>6. CASE Send(task[1], task[2])
    <3>1. pc' = "bought" /\ UNCHANGED <<todo, result>>
      BY <2>6 DEF Send
    <3> QED
      BY <1>1, <2>1, <3>1 DEF ResultInv, TrueCause
  <2> QED
    BY <2>2, <2>4, <2>5, <2>6
<1>7. CASE Bracket /\ ~LeaveOpen
  <2>1. /\ pc = "bought" /\ UNCHANGED <<acct, truth>>
        /\ NotAnswered \/ Enter \/ Reverse \/ BlockReversal
    BY <1>7 DEF Bracket
  <2> DEFINE task == <<purchase.symbol, purchase.strategy>>
  <2>2. task \in todo /\ task[1] = purchase.symbol
    BY <2>1, Bought
  <2>3. CASE NotAnswered \/ Enter \/ Reverse
    <3>1. GoOn(task) /\ result' = DecidedOn(task[1])
      BY <2>3 DEF NotAnswered, Enter, Reverse
    <3> HIDE DEF task
    <3> QED
      BY <1>1, <2>1, <2>2, <3>1, LoopContinued DEF BaseInv
  <2>4. CASE BlockReversal
    <3>1. BreakOff(purchase.symbol)
      BY <2>4 DEF BlockReversal
    <3> QED
      BY <1>1, <2>1, <3>1, LoopBroken DEF BaseInv
  <2> QED
    BY <2>1, <2>3, <2>4
<1>8. CASE Close
  <2>1. /\ pc = "close" /\ pc' = "idle" /\ truth' = truth
        /\ result'.cause = result.cause /\ result'.halted = result.halted
        /\ result'.suspended = result.suspended /\ result'.decided = result.decided
        /\ result'.done = TRUE
    BY <1>8 DEF Close, history, BaseInv, TypeOK
  <2> QED
    BY <1>1, <2>1 DEF ResultInv, Judged, TrueCause
<1> QED
  BY <1>2, <1>3, <1>4, <1>5, <1>6, <1>7, <1>8 DEF Next, Tick, Environment

THEOREM InvAlways == Spec => []Inv
<1>1. BaseInv /\ Inv /\ [Next]_vars => Inv'
  BY TruthStep, ResultStep, FetchedStep DEF Inv
<1> QED
  BY <1>1, InitInv, BaseAlways, PTL DEF Spec

-----------------------------------------------------------------------------
(***************************************************************************)
(* The theorems                                                            *)
(***************************************************************************)

\* While nothing came between ledger and exchange, a tick is halted for a loss
\* exactly if the account really had it, with the cause the code ranks first.
THEOREM LimitsAreExactAlways == Spec => []LimitsAreExact
<1>1. Inv => LimitsAreExact
  <2> SUFFICES ASSUME Inv, Settled PROVE HaltIsReal /\ RealLossHalts
    BY DEF LimitsAreExact
  <2>1. /\ result.cause # "NONE" => Judged
        /\ result.done => Judged
    BY DEF Inv, ResultInv
  <2>2. HaltIsReal
    BY <2>1 DEF Judged, TrueCause, Breach, HaltIsReal, RealDrawdown, RealDailyLoss
  <2>3. RealLossHalts
    BY <2>1 DEF Judged, TrueCause, Breach, RealLossHalts, RealDrawdown, RealDailyLoss
  <2> QED
    BY <2>2, <2>3
<1> QED
  BY <1>1, InvAlways, PTL

\* No position is open whose symbol no tick asks candles for.
THEOREM PositionsAreFetchedAlways == Spec => []PositionsAreFetched
<1>1. Inv => PositionsAreFetched
  BY DEF Inv, FetchedInv, PositionsAreFetched, Open, OpenWith, Fetched
<1> QED
  BY <1>1, InvAlways, PTL

\* Wherever the tick stopped, every configured symbol has its outcome.
THEOREM EverySymbolDecidedAlways == Spec => []EverySymbolDecided
<1>1. Inv => EverySymbolDecided
  BY DEF Inv, ResultInv, EverySymbolDecided
<1> QED
  BY <1>1, InvAlways, PTL

\* The purchase of a step is an entry's.
LEMMA OnlyEntriesBuy ==
    ASSUME BaseInv, Next, NEW s \in Symbols, held'[s] > held[s]
    PROVE  pc = "entries" /\ \E task \in todo : Send(task[1], task[2]) /\ task[1] = s
<1>1. held \in [Symbols -> Nat]
  BY DEF BaseInv, TypeOK
<1>2. held' # held
  BY <1>1
<1>3. CASE \E x \in Symbols : ExitFills(x)
  <2>1. PICK x \in Symbols : ExitFills(x)
    BY <1>3
  <2>2. PICK steps \in 1..position[x] - sold[x] : held' = [held EXCEPT ![x] = @ - steps]
    BY <2>1 DEF ExitFills
  <2>3. steps \in Nat
    BY StockNumbers DEF BaseInv
  <2> QED
    BY <1>1, <2>2, <2>3
<1>4. CASE Entries
  <2>1. PICK task \in todo : Send(task[1], task[2])
    BY <1>2, <1>4 DEF Entries, PassOver, FindStale, Decline, Reject, Halt, exchange
  <2>2. pc = "entries"
    BY <1>4 DEF Entries
  <2>3. \A x \in Symbols : x # task[1] => held'[x] = held[x]
    BY <2>1, <2>2, Sent
  <2> QED
    BY <1>1, <2>1, <2>2, <2>3
<1>5. CASE Bracket
  <2>1. pc = "bought"
    BY <1>5 DEF Bracket
  <2>2. PICK steps \in 0..purchase.bought : Reversal(steps)
    BY <1>2, <1>5 DEF Bracket, NotAnswered, Enter, Reverse, BlockReversal, LeaveOpen, exchange
  <2>3. /\ held'[purchase.symbol] = held[purchase.symbol] - steps
        /\ \A x \in Symbols : x # purchase.symbol => held'[x] = held[x]
    BY <2>1, <2>2, Reversed
  <2>4. steps \in Nat /\ purchase.symbol \in Symbols
    BY <2>1, Bought
  <2> QED
    BY <1>1, <2>3, <2>4
<1>6. CASE OperatorFlips \/ NewDay \/ TickFails \/ Ingest \/ IngestDies \/ Value \/ Limits \/ Close
  BY <1>2, <1>6 DEF OperatorFlips, NewDay, TickFails, Ingest, IngestDies, Value, Limits, Close, exchange
<1> QED
  BY <1>3, <1>4, <1>5, <1>6 DEF Next, Tick, Environment

\* Nothing is bought in a tick that could not value the account, nor on a symbol
\* with an open position; nor on one the exchange holds anything of, unless a
\* purchase of it went unrecorded before.
THEOREM EntersOnlyValuedAlways == Spec => EntersOnlyValued
<1> DEFINE Allowed ==
        \A s \in Symbols :
            held'[s] > held[s] =>
                acct.complete /\ position[s] = 0 /\ (held[s] = 0 \/ s \in unrecorded)
<1>1. BaseInv /\ Inv /\ [Next]_vars => [Allowed]_vars
  <2> SUFFICES ASSUME BaseInv, Inv, Next, NEW s \in Symbols, held'[s] > held[s]
               PROVE  acct.complete /\ position[s] = 0 /\ (held[s] = 0 \/ s \in unrecorded)
    OBVIOUS
  <2>1. PICK task \in todo : Send(task[1], task[2]) /\ task[1] = s
    BY OnlyEntriesBuy
  <2>2. pc = "entries"
    BY OnlyEntriesBuy
  <2>3. acct.complete
    BY <2>2 DEF Inv, ResultInv
  <2>4. position[s] = 0
    BY <2>1, <2>2, Sent
  <2>5. held[s] = 0 \/ s \in unrecorded
    <3>1. Accounted(s) /\ Pending(s) = 0
      BY <2>2 DEF BaseInv, StockInv, PurchaseInv, Pending, NoPurchase
    <3>2. held[s] \in Nat /\ sold[s] \in Nat
      BY StockNumbers DEF BaseInv
    <3> QED
      BY <2>4, <3>1, <3>2 DEF Accounted
  <2> QED
    BY <2>3, <2>4, <2>5
<1>2. Spec => [][Allowed]_vars
  BY <1>1, BaseAlways, InvAlways, PTL DEF Spec
<1> QED
  BY <1>2 DEF EntersOnlyValued

-----------------------------------------------------------------------------
(***************************************************************************)
(* The caps                                                                *)
(***************************************************************************)

\* What the loop carries as deployed is at least what the positions are worth at
\* the prices of the tick, so that the next size is held against all of them: an
\* entry counts for what it was sized to cost, also if it bought less.
CapsInv ==
    /\ carried.entered # {} => pc \in {"entries", "bought", "close"}
    /\ pc \in {"limits", "entries", "bought"} => Marked(position, view) <= carried.deployed
    /\ CapsHold

\* One position more, within the caps.
LEMMA OpenedWithinCaps ==
    ASSUME BaseInv, CapsInv, pc = "bought", purchase.bought # 0, UNCHANGED <<view, acct>>,
           position' = [position EXCEPT ![purchase.symbol] = purchase.bought],
           carried'.entered \subseteq carried.entered \cup {purchase.symbol}
    PROVE  /\ Marked(position', view') <= carried.deployed + purchase.notional
           /\ CapsHold'
<1> DEFINE s == purchase.symbol
           cost == purchase.bought * view[s]
<1>1. /\ s \in Symbols /\ purchase.bought \in Nat \ {0} /\ purchase.notional \in Nat
      /\ position[s] = 0 /\ s \notin Open /\ carried.open = Open
      /\ view[s] \in Nat \ {0} /\ view[s] # None
  BY Bought
<1>2. /\ cost <= purchase.notional
      /\ 100 * purchase.notional <= acct.equity * PositionPct
      /\ 100 * purchase.notional + 100 * carried.deployed <= acct.equity * DeployedPct
      /\ Cardinality(carried.open) < MaxConcurrent
  BY DEF BaseInv, PurchaseInv
<1>3. /\ position \in [Symbols -> Nat] /\ view \in [Symbols -> Nat \cup {None}]
      /\ carried.deployed \in Nat /\ acct.equity \in Nat /\ carried.entered \subseteq Symbols
  BY TradingAssumption DEF BaseInv, TypeOK
<1>4. cost \in Nat /\ acct.equity * PositionPct \in Nat /\ acct.equity * DeployedPct \in Nat
  BY <1>1, <1>3, SizingAssumption, ProductIsNat
<1>5. /\ position' \in [Symbols -> Nat] /\ position'[s] = purchase.bought
      /\ \A x \in Symbols : x # s => position'[x] = position[x]
  BY <1>1, <1>3
<1> HIDE DEF s
<1>6. Marked(position', view') = Marked(position, view) + cost
  <2>1. position'[s] # 0 /\ s \in Symbols /\ position[s] = 0 /\ view[s] # None
    BY <1>1, <1>5
  <2>2. Marked(position', view) = Marked(position, view) + position'[s] * view[s]
    <3>1. ASSUME NEW r \in [Symbols -> Nat], r[s] # 0, \A x \in Symbols : x # s => r[x] = position[x]
          PROVE  Marked(r, view) = Marked(position, view) + r[s] * view[s]
      BY <1>3, <2>1, <3>1, MarkedAdds
    <3> QED
      BY <1>5, <2>1, <3>1
  <2> QED
    BY <1>5, <2>2 DEF cost
<1>7. Marked(position, view) \in Nat /\ Marked(position, view) <= carried.deployed
  BY <1>3, MarkedIsNat DEF CapsInv
<1> HIDE DEF cost
<1>8. Marked(position', view') <= carried.deployed + purchase.notional
  BY <1>1, <1>2, <1>3, <1>4, <1>6, <1>7
<1>9. 100 * Marked(position', view') <= acct.equity * DeployedPct
  <2> DEFINE sum == Marked(position', view')
  <2>1. sum \in Nat /\ sum <= carried.deployed + purchase.notional
    BY <1>4, <1>6, <1>7, <1>8
  <2> HIDE DEF sum
  <2>2. 100 * sum <= 100 * purchase.notional + 100 * carried.deployed
    BY <1>1, <1>3, <2>1
  <2> QED
    BY <1>1, <1>2, <1>3, <1>4, <2>1, <2>2 DEF sum
<1>10. \A x \in carried'.entered : 100 * position'[x] * view[x] <= acct.equity * PositionPct
  <2> SUFFICES ASSUME NEW x \in carried'.entered
               PROVE  100 * position'[x] * view[x] <= acct.equity * PositionPct
    OBVIOUS
  <2>1. CASE x = s
    <3>1. 100 * position'[x] * view[x] = 100 * cost
      BY <1>1, <1>5, <2>1 DEF cost
    <3> QED
      BY <1>1, <1>2, <1>4, <3>1
  <2>2. CASE x # s
    <3>1. x \in carried.entered /\ x \in Symbols /\ position'[x] = position[x]
      BY <1>3, <1>5, <2>2 DEF s
    <3> QED
      BY <3>1 DEF CapsInv, CapsHold
  <2> QED
    BY <2>1, <2>2
<1>11. Cardinality(Open') <= MaxConcurrent
  <2>1. Open' = Open \cup {s}
    BY <1>1, <1>5 DEF Open, OpenWith
  <2>2. Open \in SUBSET Symbols
    BY DEF Open, OpenWith
  <2>3. Cardinality(Open \cup {s}) = Cardinality(Open) + 1
    BY <1>1, <2>2, OpenIsFinite, FS_AddElement
  <2>4. Cardinality(Open) \in Nat
    BY <2>2, OpenIsFinite
  <2> QED
    BY <1>1, <1>2, <2>1, <2>3, <2>4, SizingAssumption
<1>12. CapsHold'
  BY <1>9, <1>10, <1>11 DEF CapsHold
<1> QED
  BY <1>8, <1>12

LEMMA NothingLeft == Forget => carried'.entered = {}
BY DEF Forget, NothingCarried

LEMMA BracketCaps ==
    ASSUME BaseInv, CapsInv, Bracket
    PROVE  CapsInv'
<1>1. pc = "bought"
  BY DEF Bracket
<1>2. CASE LeaveOpen
  <2>1. carried'.entered = {} /\ pc' = "idle"
    BY <1>2 DEF LeaveOpen, Forget, NothingCarried
  <2> QED
    BY <2>1 DEF CapsInv, CapsHold
<1>3. CASE (NotAnswered \/ Reverse) /\ UNCHANGED <<view, acct>>
  <2>1. UNCHANGED <<position, view, acct, carried>> /\ pc' \in {"entries", "close"}
    BY <1>3 DEF NotAnswered, Reverse, GoOn, ledger
  <2> QED
    BY <1>1, <2>1 DEF CapsInv, CapsHold, Open, OpenWith
<1>4. CASE Enter /\ UNCHANGED <<view, acct>>
  <2>1. /\ purchase.bought # 0
        /\ position' = [position EXCEPT ![purchase.symbol] = purchase.bought]
        /\ carried' = Spent(purchase.symbol, purchase.notional) /\ pc' \in {"entries", "close"}
    BY <1>4 DEF Enter, OpenPosition, GoOn
  <2>2. /\ carried'.entered = carried.entered \cup {purchase.symbol}
        /\ carried'.deployed = carried.deployed + purchase.notional
    BY <2>1 DEF Spent
  <2>3. Marked(position', view') <= carried'.deployed /\ CapsHold'
    BY <1>1, <1>4, <2>1, <2>2, OpenedWithinCaps
  <2> QED
    BY <2>1, <2>3 DEF CapsInv
<1>5. CASE BlockReversal /\ UNCHANGED <<view, acct>>
  <2>1. /\ purchase.bought # 0 /\ carried' = carried /\ pc' = "close"
        /\ position' = [position EXCEPT ![purchase.symbol] = purchase.bought]
    BY <1>5 DEF BlockReversal, OpenPosition, BreakOff
  <2>2. CapsHold'
    BY <1>1, <1>5, <2>1, OpenedWithinCaps
  <2> QED
    BY <2>1, <2>2 DEF CapsInv
<1> QED
  BY <1>2, <1>3, <1>4, <1>5 DEF Bracket

\* No other step opens a position while there are entries to hold against it.
LEMMA CapsStep ==
    ASSUME BaseInv, CapsInv, [Next]_vars
    PROVE  CapsInv'
<1>1. CASE Bracket
  BY <1>1, BracketCaps
<1>2. CASE Value
  <2>1. /\ carried'.entered = {} /\ carried'.deployed = Marked(position, view')
        /\ position' = position /\ pc' = "limits"
    BY <1>2 DEF Value, ledger
  <2>2. Marked(position', view') \in Nat
    <3>1. view' \in [Symbols -> Nat \cup {None}]
      BY <1>2, TradingAssumption DEF Value
    <3> QED
      BY <2>1, <3>1, MarkedIsNat DEF BaseInv, TypeOK
  <2> QED
    BY <2>1, <2>2 DEF CapsInv, CapsHold
<1>3. CASE carried'.entered = {} /\ pc' \notin {"limits", "entries", "bought"}
  BY <1>3 DEF CapsInv, CapsHold
<1>4. CASE /\ UNCHANGED <<position, view, acct, carried>>
           /\ pc' = pc \/ (pc' \in {"entries", "bought", "close"} /\ pc \in {"limits", "entries"})
  BY <1>4 DEF CapsInv, CapsHold, Open, OpenWith
<1>5. \/ Bracket \/ Value
      \/ carried'.entered = {} /\ pc' \notin {"limits", "entries", "bought"}
      \/ /\ UNCHANGED <<position, view, acct, carried>>
         /\ pc' = pc \/ (pc' \in {"entries", "bought", "close"} /\ pc \in {"limits", "entries"})
  <2>1. CASE OperatorFlips \/ NewDay \/ UNCHANGED vars \/ \E s \in Symbols : ExitFills(s)
    BY <2>1 DEF OperatorFlips, NewDay, ExitFills, ledger, memory, vars
  <2>2. CASE TickFails \/ Ingest \/ IngestDies \/ Close
    <3>1. Forget /\ pc' \in {"idle", "value"}
      BY <2>2 DEF TickFails, Ingest, IngestDies, Close
    <3> QED
      BY <3>1, NothingLeft
  <2>3. CASE Limits
    BY <2>3, NothingLeft DEF Limits, ledger
  <2>4. CASE Entries
    BY <2>4 DEF Entries, PassOver, FindStale, Decline, Reject, Halt, Send, GoOn, BreakOff, ledger
  <2> QED
    BY <2>1, <2>2, <2>3, <2>4 DEF Next, Tick, Environment
<1> QED
  BY <1>1, <1>2, <1>3, <1>4, <1>5

\* RISK-04: however many entries a tick makes, in whatever order and however much of
\* each executes, the ledger's positions at the tick's prices are within the
\* deployment cap, each new one within the position cap, and no more than max_concurrent.
THEOREM CapsHoldAlways == Spec => []CapsHold
<1>1. Init => CapsInv
  BY DEF Init, NothingCarried, CapsInv, CapsHold
<1>2. BaseInv /\ CapsInv /\ [Next]_vars => CapsInv'
  BY CapsStep
<1>3. CapsInv => CapsHold
  BY DEF CapsInv
<1> QED
  BY <1>1, <1>2, <1>3, BaseAlways, PTL DEF Spec
=============================================================================
