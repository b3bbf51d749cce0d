---------------------------- MODULE ReplayProofs ----------------------------
(***************************************************************************)
(* Theorems of module Replay, for any number of bars, any candles, every   *)
(* valid specification and every setting of fees, slippage and sizing.     *)
(***************************************************************************)
EXTENDS Replay, WellFoundedInduction, TLAPS

-----------------------------------------------------------------------------
(* Recursive functions. That one with such values exists is shown by       *)
(* extending shorter ones: were there a first length without one, the one  *)
(* before it would give it.                                                *)

\* Of some natural numbers one is least.
LEMMA LeastNumber ==
    ASSUME NEW T \in SUBSET Nat, T # {}
    PROVE  \E m \in T : \A n \in T : m <= n
<1> DEFINE Below == {ss \in Nat \X Nat : ss[1] < ss[2]}
<1>1. IsWellFoundedOn(Below, Nat)
  BY NatLessThanWellFounded DEF OpToRel
<1>2. PICK m \in T : \A n \in T : ~(<<n, m>> \in Below)
  <2> HIDE DEF Below
  <2> QED
    BY <1>1, WFMin
<1>3. ASSUME NEW n \in T PROVE m <= n
  <2>1. <<n, m>> \notin Below /\ n \in Nat /\ m \in Nat
    BY <1>2
  <2> QED
    BY <2>1
<1> QED
  BY <1>3

\* Of some numbers from a up one is least.
LEMMA LeastFrom ==
    ASSUME NEW a \in Int, NEW T, \A t \in T : t \in Int /\ a <= t, T # {}
    PROVE  \E m \in T : \A n \in T : m <= n
<1> DEFINE Shifted == {t - a : t \in T}
<1>1. Shifted \in SUBSET Nat /\ Shifted # {}
  <2>1. \A t \in T : t - a \in Nat
    OBVIOUS
  <2> QED
    BY <2>1
<1>2. PICK k \in Shifted : \A n \in Shifted : k <= n
  <2> HIDE DEF Shifted
  <2> QED
    BY <1>1, LeastNumber
<1>3. PICK m \in T : k = m - a
  OBVIOUS
<1>4. ASSUME NEW n \in T PROVE m <= n
  <2>1. k <= n - a
    BY <1>2
  <2> QED
    BY <2>1, <1>3
<1> QED
  BY <1>4

\* f begins at a with base, and each later value is made from the one before it.
Recursive(f, a, b, base, next) ==
    f = [i \in a..b |-> IF i = a THEN base ELSE next[<<i, f[i - 1]>>]]

LEMMA RecursionIsTyped ==
    ASSUME NEW S, NEW a \in Int, NEW b \in Int, NEW base \in S,
           NEW next \in [(a..b) \X S -> S], NEW f, Recursive(f, a, b, base, next)
    PROVE  f \in [a..b -> S]
<1> DEFINE T == {i \in a..b : f[i] \notin S}
<1>1. \A i \in a..b : f[i] = IF i = a THEN base ELSE next[<<i, f[i - 1]>>]
  BY DEF Recursive
<1>2. T = {}
  <2> SUFFICES ASSUME T # {} PROVE FALSE
    OBVIOUS
  <2>1. PICK m \in T : \A n \in T : m <= n
    <3>1. \A t \in T : t \in Int /\ a <= t
      OBVIOUS
    <3> HIDE DEF T
    <3> QED
      BY <3>1, LeastFrom
  <2>2. m # a /\ m \in a..b
    BY <1>1
  <2>3. m - 1 \in a..b /\ m - 1 \notin T
    <3>1. m - 1 \in a..b /\ ~(m <= m - 1)
      BY <2>2
    <3> HIDE DEF T
    <3> QED
      BY <2>1, <3>1
  <2>4. f[m - 1] \in S
    BY <2>3
  <2> QED
    BY <1>1, <2>2, <2>4
<1> QED
  BY <1>2 DEF Recursive

LEMMA RecursionExists ==
    ASSUME NEW S, NEW a \in Int, NEW b \in Int, NEW base \in S,
           NEW next \in [(a..b) \X S -> S]
    PROVE  \E f : Recursive(f, a, b, base, next)
<1> DEFINE T == {n \in a - 1..b : ~\E f : Recursive(f, a, n, base, next)}
<1>1. CASE b < a
  <2>1. Recursive([i \in a..b |-> base], a, b, base, next)
    BY <1>1 DEF Recursive
  <2> QED
    BY <2>1
<1>2. CASE a <= b /\ T # {}
  <2>1. PICK m \in T : \A n \in T : m <= n
    <3>1. \A t \in T : t \in Int /\ a - 1 <= t
      OBVIOUS
    <3> HIDE DEF T
    <3> QED
      BY <1>2, <3>1, LeastFrom
  <2>2. m # a - 1
    <3>1. Recursive([i \in a..a - 1 |-> base], a, a - 1, base, next)
      BY DEF Recursive
    <3> QED
      BY <3>1
  <2>3. m \in a..b /\ m - 1 \in a - 1..b /\ m - 1 \notin T
    <3>1. m \in a..b /\ m - 1 \in a - 1..b /\ ~(m <= m - 1)
      BY <2>2
    <3> HIDE DEF T
    <3> QED
      BY <2>1, <3>1
  <2>4. PICK f : Recursive(f, a, m - 1, base, next)
    BY <2>3
  <2> DEFINE g == [i \in a..m |-> IF i = a THEN base ELSE next[<<i, f[i - 1]>>]]
  <2>5. \A i \in a..m - 1 : g[i] = f[i]
    <3>1. \A i \in a..m - 1 : i \in a..m
      BY <2>3
    <3> QED
      BY <2>4, <3>1 DEF Recursive
  <2>6. Recursive(g, a, m, base, next)
    <3>1. \A i \in a..m : i # a => i - 1 \in a..m - 1
      BY <2>3
    <3>2. \A i \in a..m : i # a => g[i - 1] = f[i - 1]
      BY <2>5, <3>1
    <3> QED
      BY <3>2 DEF Recursive
  <2> QED
    BY <2>6
<1>3. CASE a <= b /\ T = {}
  <2>1. b \in a - 1..b
    BY <1>3
  <2> QED
    BY <1>3, <2>1
<1> QED
  BY <1>1, <1>2, <1>3

\* Two that begin alike and go on alike are alike as far as both go.
LEMMA RecursionIsOne ==
    ASSUME NEW a \in Int, NEW b \in Int, NEW c \in Int, NEW d \in Int, NEW base, NEW f, NEW g, NEW next, NEW other,
           Recursive(f, a, b, base, next), Recursive(g, a, c, base, other), d <= b, d <= c,
           \A i \in a + 1..d : next[<<i, f[i - 1]>>] = other[<<i, f[i - 1]>>]
    PROVE  \A i \in a..d : f[i] = g[i]
<1> DEFINE T == {i \in a..d : f[i] # g[i]}
<1> SUFFICES ASSUME T # {} PROVE FALSE
  OBVIOUS
<1>1. /\ \A i \in a..b : f[i] = IF i = a THEN base ELSE next[<<i, f[i - 1]>>]
      /\ \A i \in a..c : g[i] = IF i = a THEN base ELSE other[<<i, g[i - 1]>>]
  BY DEF Recursive
<1>2. PICK m \in T : \A n \in T : m <= n
  <2>1. \A t \in T : t \in Int /\ a <= t
    OBVIOUS
  <2> HIDE DEF T
  <2> QED
    BY <2>1, LeastFrom
<1>3. m \in a..d /\ m \in a..b /\ m \in a..c
  OBVIOUS
<1>4. m # a
  BY <1>1, <1>3
<1>5. m - 1 \in a..d /\ m - 1 \notin T
  <2>1. m - 1 \in a..d /\ ~(m <= m - 1)
    BY <1>3, <1>4
  <2> HIDE DEF T
  <2> QED
    BY <1>2, <2>1
<1>6. f[m - 1] = g[m - 1]
  BY <1>5
<1>7. m \in a + 1..d
  BY <1>3, <1>4
<1> QED
  BY <1>1, <1>3, <1>4, <1>6, <1>7

-----------------------------------------------------------------------------
(* Sums, and the greatest and the least of some numbers.                   *)

\* sum is the sum of the first i values, for i up to n.
SumUpTo(sum, values, n) == sum = [i \in 0..n |-> IF i = 0 THEN 0 ELSE sum[i - 1] + values[i]]

Adder(values, n) == [p \in (0..n) \X Int |-> IF p[1] = 0 THEN 0 ELSE p[2] + values[p[1]]]

LEMMA AdderIsTyped ==
    ASSUME NEW n \in Nat, NEW values, \A i \in 1..n : values[i] \in Int
    PROVE  Adder(values, n) \in [(0..n) \X Int -> Int]
<1> SUFFICES ASSUME NEW p \in (0..n) \X Int
             PROVE  (IF p[1] = 0 THEN 0 ELSE p[2] + values[p[1]]) \in Int
  BY DEF Adder
<1>1. p[1] # 0 => values[p[1]] \in Int
  OBVIOUS
<1> QED
  BY <1>1

LEMMA SumIsRecursive ==
    ASSUME NEW n \in Nat, NEW values, \A i \in 1..n : values[i] \in Int, NEW sum
    PROVE  Recursive(sum, 0, n, 0, Adder(values, n)) <=> SumUpTo(sum, values, n)
<1>1. Adder(values, n) \in [(0..n) \X Int -> Int]
  BY AdderIsTyped
<1>2. ASSUME sum \in [0..n -> Int]
      PROVE  Recursive(sum, 0, n, 0, Adder(values, n)) <=> SumUpTo(sum, values, n)
  <2>1. \A i \in 0..n : i # 0 => Adder(values, n)[<<i, sum[i - 1]>>] = sum[i - 1] + values[i]
    BY <1>2 DEF Adder
  <2> QED
    BY <2>1 DEF Recursive, SumUpTo
<1>3. ASSUME Recursive(sum, 0, n, 0, Adder(values, n))  PROVE sum \in [0..n -> Int]
  <2>1. 0 \in Int /\ n \in Int
    OBVIOUS
  <2> QED
    BY <1>1, <1>3, <2>1, RecursionIsTyped
<1>4. ASSUME SumUpTo(sum, values, n)  PROVE sum \in [0..n -> Int]
  <2> DEFINE T == {i \in 0..n : sum[i] \notin Int}
  <2>1. \A i \in 0..n : sum[i] = IF i = 0 THEN 0 ELSE sum[i - 1] + values[i]
    BY <1>4 DEF SumUpTo
  <2>2. T = {}
    <3> SUFFICES ASSUME T # {} PROVE FALSE
      OBVIOUS
    <3>1. PICK m \in T : \A k \in T : m <= k
      <4>1. T \in SUBSET Nat
        OBVIOUS
      <4> HIDE DEF T
      <4> QED
        BY <4>1, LeastNumber
    <3>2. m # 0 /\ m \in 0..n /\ m - 1 \in 0..n
      BY <2>1
    <3>3. m - 1 \notin T
      <4>1. ~(m <= m - 1)
        BY <3>2
      <4> HIDE DEF T
      <4> QED
        BY <3>1, <4>1
    <3>4. sum[m - 1] \in Int /\ values[m] \in Int
      BY <3>2, <3>3
    <3> QED
      BY <2>1, <3>2, <3>4
  <2> QED
    BY <1>4, <2>2 DEF SumUpTo
<1> QED
  BY <1>2, <1>3, <1>4

LEMMA TotalIsSum ==
    ASSUME NEW n \in Nat, NEW values, \A i \in 1..n : values[i] \in Int
    PROVE  \E sum \in [0..n -> Int] : SumUpTo(sum, values, n) /\ Total(values, n) = sum[n]
<1> DEFINE chosen == CHOOSE sum : SumUpTo(sum, values, n)
<1>1. Adder(values, n) \in [(0..n) \X Int -> Int]
  BY AdderIsTyped
<1>2. \E sum : Recursive(sum, 0, n, 0, Adder(values, n))
  <2>1. 0 \in Int /\ n \in Int
    OBVIOUS
  <2> QED
    BY <1>1, <2>1, RecursionExists
<1>3. SumUpTo(chosen, values, n)
  BY <1>2, SumIsRecursive
<1>4. chosen \in [0..n -> Int]
  <2>1. 0 \in Int /\ n \in Int
    OBVIOUS
  <2>2. Recursive(chosen, 0, n, 0, Adder(values, n))
    BY <1>3, SumIsRecursive
  <2> QED
    BY <1>1, <2>1, <2>2, RecursionIsTyped
<1>5. Total(values, n) = chosen[n]
  BY DEF Total, SumUpTo
<1> QED
  BY <1>3, <1>4, <1>5

\* As far as the values are the same, so are the sums.
LEMMA SumsAgree ==
    ASSUME NEW n \in Nat, NEW m \in Nat, n <= m, NEW values, \A i \in 1..m : values[i] \in Int,
           NEW sum, SumUpTo(sum, values, n), NEW total, SumUpTo(total, values, m)
    PROVE  sum[n] = total[n]
<1>1. /\ \A i \in 1..n : values[i] \in Int
      /\ Recursive(sum, 0, n, 0, Adder(values, n))
      /\ Recursive(total, 0, m, 0, Adder(values, m))
  <2>1. \A i \in 1..n : values[i] \in Int
    OBVIOUS
  <2> QED
    BY <2>1, SumIsRecursive
<1>2. sum \in [0..n -> Int]
  <2>1. 0 \in Int /\ n \in Int
    OBVIOUS
  <2>2. Adder(values, n) \in [(0..n) \X Int -> Int]
    BY <1>1, AdderIsTyped
  <2> QED
    BY <1>1, <2>1, <2>2, RecursionIsTyped
<1>3. \A i \in 0 + 1..n : Adder(values, n)[<<i, sum[i - 1]>>] = Adder(values, m)[<<i, sum[i - 1]>>]
  BY <1>2 DEF Adder
<1>4. \A i \in 0..n : sum[i] = total[i]
  BY <1>1, <1>3, RecursionIsOne
<1> QED
  BY <1>4

LEMMA TotalIsInt ==
    ASSUME NEW n \in Nat, NEW values, \A i \in 1..n : values[i] \in Int
    PROVE  Total(values, n) \in Int
BY TotalIsSum

LEMMA TotalOfNone == ASSUME NEW values  PROVE Total(values, 0) = 0
<1>1. PICK sum \in [0..0 -> Int] : SumUpTo(sum, values, 0) /\ Total(values, 0) = sum[0]
  <2>1. 0 \in Nat /\ \A i \in 1..0 : values[i] \in Int
    OBVIOUS
  <2> QED
    BY <2>1, TotalIsSum
<1> QED
  BY <1>1 DEF SumUpTo

\* The total depends on the first n values alone.
LEMMA TotalAgrees ==
    ASSUME NEW n \in Nat, NEW values, NEW others,
           \A i \in 1..n : others[i] \in Int /\ values[i] = others[i]
    PROVE  Total(values, n) = Total(others, n)
<1>1. /\ \A i \in 1..n : values[i] \in Int
      /\ \A i \in 1..n : others[i] \in Int
      /\ n <= n
  OBVIOUS
<1>2. PICK sum \in [0..n -> Int] : SumUpTo(sum, values, n) /\ Total(values, n) = sum[n]
  BY <1>1, TotalIsSum
<1>3. PICK total \in [0..n -> Int] : SumUpTo(total, others, n) /\ Total(others, n) = total[n]
  BY <1>1, TotalIsSum
<1>4. SumUpTo(sum, others, n)
  BY <1>2 DEF SumUpTo
<1>5. sum[n] = total[n]
  BY <1>1, <1>3, <1>4, SumsAgree, SMTT(30)
<1> QED
  BY <1>2, <1>3, <1>5

LEMMA TotalOfMore ==
    ASSUME NEW n \in Nat, NEW values, \A i \in 1..n + 1 : values[i] \in Int
    PROVE  Total(values, n + 1) = Total(values, n) + values[n + 1]
<1>1. /\ n + 1 \in Nat /\ n <= n + 1
      /\ \A i \in 1..n : values[i] \in Int
  OBVIOUS
<1>2. PICK sum \in [0..n -> Int] : SumUpTo(sum, values, n) /\ Total(values, n) = sum[n]
  BY <1>1, TotalIsSum
<1>3. PICK total \in [0..n + 1 -> Int] : SumUpTo(total, values, n + 1) /\ Total(values, n + 1) = total[n + 1]
  BY <1>1, TotalIsSum
<1>4. sum[n] = total[n]
  BY <1>1, <1>2, <1>3, SumsAgree, SMTT(30)
<1>5. total[n + 1] = total[n] + values[n + 1]
  BY <1>3 DEF SumUpTo
<1> QED
  BY <1>2, <1>3, <1>4, <1>5

LEMMA MinIsLeast ==
    ASSUME NEW T \in SUBSET Nat, T # {}
    PROVE  Min(T) \in T /\ \A n \in T : Min(T) <= n
BY LeastNumber DEF Min

LEMMA MaxOfTwo ==
    ASSUME NEW a \in Int, NEW b \in Int
    PROVE  Max({a, b}) = IF a >= b THEN a ELSE b
<1>1. CASE a >= b
  BY <1>1 DEF Max
<1>2. CASE ~(a >= b)
  BY <1>2 DEF Max
<1> QED
  BY <1>1, <1>2

LEMMA OneMoreIsExtreme ==
    ASSUME NEW T \in SUBSET Int, NEW v \in Int, \E x, y \in T : \A z \in T : x >= z /\ y <= z
    PROVE  \E x, y \in T \cup {v} : \A z \in T \cup {v} : x >= z /\ y <= z
<1>1. PICK x \in T, y \in T : \A z \in T : x >= z /\ y <= z
  OBVIOUS
<1>2. x \in Int /\ y \in Int /\ \A z \in T : z \in Int
  OBVIOUS
<1>3. \E g \in T \cup {v} : \A z \in T \cup {v} : g >= z
  <2>1. CASE v >= x
    <3>1. \A z \in T : v >= z
      BY <1>1, <1>2, <2>1
    <3> QED
      BY <3>1
  <2>2. CASE x >= v
    BY <1>1, <1>2, <2>2
  <2> QED
    BY <1>2, <2>1, <2>2
<1>4. \E g \in T \cup {v} : \A z \in T \cup {v} : g <= z
  <2>1. CASE v <= y
    <3>1. \A z \in T : v <= z
      BY <1>1, <1>2, <2>1
    <3> QED
      BY <3>1
  <2>2. CASE y <= v
    BY <1>1, <1>2, <2>2
  <2> QED
    BY <1>2, <2>1, <2>2
<1> QED
  BY <1>3, <1>4

\* Some values at the numbers from a to b: one of them is greatest, one is least.
LEMMA SomeAreExtreme ==
    ASSUME NEW a \in Int, NEW b \in Int, a <= b, NEW h, \A i \in a..b : h[i] \in Int
    PROVE  /\ Max({h[i] : i \in a..b}) \in Int
           /\ Min({h[i] : i \in a..b}) \in Int
<1> DEFINE Image(n) == {h[i] : i \in a..n}
           T == {n \in a..b : ~\E x, y \in Image(n) : \A z \in Image(n) : x >= z /\ y <= z}
<1>1. T = {}
  <2> SUFFICES ASSUME T # {} PROVE FALSE
    OBVIOUS
  <2>1. PICK m \in T : \A n \in T : m <= n
    <3>1. \A t \in T : t \in Int /\ a <= t
      OBVIOUS
    <3> HIDE DEF T
    <3> QED
      BY <3>1, LeastFrom
  <2>2. m \in a..b /\ h[m] \in Int
    OBVIOUS
  <2>3. m # a
    OBVIOUS
  <2>4. m - 1 \in a..b /\ m - 1 \notin T
    <3>1. m - 1 \in a..b /\ ~(m <= m - 1)
      BY <2>2, <2>3
    <3> HIDE DEF T
    <3> QED
      BY <2>1, <3>1
  <2>5. \E x, y \in Image(m - 1) : \A z \in Image(m - 1) : x >= z /\ y <= z
    BY <2>4
  <2>6. Image(m) = Image(m - 1) \cup {h[m]}
    <3>1. \A i : i \in a..m <=> i \in a..m - 1 \/ i = m
      BY <2>2
    <3> QED
      BY <3>1
  <2>7. Image(m - 1) \in SUBSET Int
    BY <2>2
  <2>8. \E x, y \in Image(m - 1) \cup {h[m]} : \A z \in Image(m - 1) \cup {h[m]} : x >= z /\ y <= z
    BY <2>2, <2>5, <2>7, OneMoreIsExtreme
  <2> QED
    BY <2>6, <2>8
<1>2. PICK x, y \in Image(b) : \A z \in Image(b) : x >= z /\ y <= z
  <2>1. b \in a..b
    OBVIOUS
  <2> QED
    BY <1>1, <2>1
<1>3. Max(Image(b)) \in Image(b) /\ Min(Image(b)) \in Image(b)
  BY <1>2 DEF Max, Min
<1> QED
  BY <1>3

-----------------------------------------------------------------------------
(* The indicators: a number or Unknown at every bar.                       *)

Number == Int \cup {Unknown}

LEMMA CandleTypes ==
    /\ Candles \subseteq [open : Nat, high : Nat, low : Nat, close : Nat, volume : Nat]
    /\ \A k \in Candles : k.low <= k.high
BY ReplayAssumption

LEMMA SpecIsValid == \A s \in Specs : ValidSpec(s)
BY ReplayAssumption

LEMMA PriceTypes ==
    ASSUME NEW series \in Seq(Candles), NEW field \in PriceFields
    PROVE  /\ PriceSeries(series, field) \in Seq(Nat)
           /\ Len(PriceSeries(series, field)) = Len(series)
           /\ \A i \in 1..Len(series) : series[i][field] \in Nat
<1>1. \A k \in Candles : k[field] \in Nat
  BY CandleTypes DEF PriceFields
<1>2. \A i \in 1..Len(series) : series[i] \in Candles
  OBVIOUS
<1>3. \A i \in 1..Len(series) : series[i][field] \in Nat
  BY <1>1, <1>2
<1>4. PriceSeries(series, field) \in [1..Len(series) -> Nat]
  <2>1. \A i \in 1..Len(series) : 100 * series[i][field] \in Nat
    BY <1>3
  <2> QED
    BY <2>1 DEF PriceSeries
<1> QED
  BY <1>3, <1>4

LEMMA SmaTypes ==
    ASSUME NEW values \in Seq(Nat), NEW period \in Nat \ {0}
    PROVE  Sma(values, period) \in [1..Len(values) -> Number]
<1> DEFINE moved == [i \in DOMAIN values |->
                        values[i] - (IF i > period THEN values[i - period] ELSE 0)]
<1>1. \A i \in 1..Len(values) : moved[i] \in Int
  <2> SUFFICES ASSUME NEW i \in 1..Len(values)
               PROVE  values[i] - (IF i > period THEN values[i - period] ELSE 0) \in Int
    OBVIOUS
  <2>1. i > period => i - period \in 1..Len(values)
    OBVIOUS
  <2>2. i > period => values[i - period] \in Int
    BY <2>1
  <2> QED
    BY <2>2
<1>2. ASSUME NEW i \in 1..Len(values)  PROVE Total(moved, i) \div period \in Int
  <2>1. i \in Nat /\ \A j \in 1..i : moved[j] \in Int
    BY <1>1
  <2> HIDE DEF moved
  <2>2. Total(moved, i) \in Int
    BY <2>1, TotalIsInt
  <2> QED
    BY <2>2
<1> QED
  BY <1>2 DEF Sma, Number

LEMMA TotalIsNat ==
    ASSUME NEW n \in Nat, NEW values, \A i \in 1..n : values[i] \in Nat
    PROVE  Total(values, n) \in Nat
<1> DEFINE T == {k \in 0..n : Total(values, k) \notin Nat}
<1> SUFFICES ASSUME T # {} PROVE FALSE
  OBVIOUS
<1>1. PICK m \in T : \A k \in T : m <= k
  <2>1. T \in SUBSET Nat
    OBVIOUS
  <2> HIDE DEF T
  <2> QED
    BY <2>1, LeastNumber
<1>2. m \in 1..n
  BY TotalOfNone
<1>3. m - 1 \in 0..n /\ m - 1 \notin T
  <2>1. m - 1 \in 0..n /\ ~(m <= m - 1)
    BY <1>2
  <2> HIDE DEF T
  <2> QED
    BY <1>1, <2>1
<1>4. Total(values, m - 1) \in Nat
  BY <1>3
<1>5. Total(values, (m - 1) + 1) = Total(values, m - 1) + values[(m - 1) + 1]
  <2>1. m - 1 \in Nat /\ \A i \in 1..(m - 1) + 1 : values[i] \in Int
    BY <1>2
  <2> QED
    BY <2>1, TotalOfMore
<1>6. (m - 1) + 1 = m
  BY <1>2
<1>7. Total(values, m) \in Nat
  BY <1>2, <1>4, <1>5, <1>6
<1> QED
  BY <1>7

\* A step towards a value that is not negative leaves a number that is not.
LEMMA StepIsNat ==
    ASSUME NEW x \in Nat, NEW v \in Nat, NEW w \in Nat, NEW t \in Nat \ {0}, w <= t
    PROVE  x + (w * (v - x)) \div t \in Nat
<1> DEFINE P == w * (v - x)
           D == P \div t
<1>1. P \in Int /\ D \in Int /\ P < D * t + t
  <2>1. P \in Int
    OBVIOUS
  <2> HIDE DEF P
  <2> QED
    BY <2>1
<1>2. P >= - (t * x)
  <2>1. w * v \in Nat /\ w * x \in Nat /\ t * x \in Nat /\ w * x <= t * x
    OBVIOUS
  <2>2. P = w * v - w * x
    OBVIOUS
  <2> QED
    BY <2>1, <2>2
<1>3. CASE D < - x
  <2>1. D + 1 + x \in Int /\ D + 1 + x <= 0
    BY <1>1, <1>3
  <2>2. (D + 1 + x) * t <= 0
    <3> DEFINE e == D + 1 + x
    <3>1. e \in Int /\ e <= 0
      BY <2>1
    <3>2. \A y \in Int : y <= 0 => y * t <= 0
      OBVIOUS
    <3> QED
      BY <3>1, <3>2
  <2>3. (D + 1 + x) * t = D * t + t + t * x
    BY <1>1
  <2> QED
    BY <1>1, <1>2, <2>2, <2>3
<1>4. CASE D >= - x
  BY <1>1, <1>4
<1> QED
  BY <1>1, <1>3, <1>4

LEMMA SmoothedTypes ==
    ASSUME NEW values \in Seq(Nat), NEW period \in Nat \ {0},
           NEW weight \in Nat, NEW total \in Nat \ {0}, weight <= total
    PROVE  /\ Smoothed(values, period, weight, total) \in [1..Len(values) -> Number]
           /\ \A i \in period..Len(values) : Smoothed(values, period, weight, total)[i] \in Nat
           /\ \A i \in 1..Len(values) : i < period => Smoothed(values, period, weight, total)[i] = Unknown
           /\ \A i \in period..Len(values) :
                 Smoothed(values, period, weight, total)[i] =
                     IF i = period THEN Total(values, period) \div period
                     ELSE Smoothed(values, period, weight, total)[i - 1]
                            + (weight * (values[i] - Smoothed(values, period, weight, total)[i - 1])) \div total
<1> DEFINE n == Len(values)
           base == Total(values, period) \div period
           Smooth(f) == f = [i \in period..n |->
                               IF i = period THEN base
                               ELSE f[i - 1] + (weight * (values[i] - f[i - 1])) \div total]
           chosen == CHOOSE f : Smooth(f)
           next == [p \in (period..n) \X Nat |->
                       IF p[1] = period THEN 0 ELSE p[2] + (weight * (values[p[1]] - p[2])) \div total]
<1>1. Smoothed(values, period, weight, total)
        = [i \in DOMAIN values |-> IF i < period THEN Unknown ELSE chosen[i]]
  BY DEF Smoothed
<1>2. CASE n < period
  <2>1. \A i \in 1..n : i < period
    BY <1>2
  <2>2. \A i \in period..n : FALSE
    BY <1>2
  <2> QED
    BY <1>1, <2>1, <2>2 DEF Number
<1>3. CASE period <= n
  <2>1. base \in Nat
    <3>1. \A i \in 1..period : values[i] \in Nat
      BY <1>3
    <3>2. Total(values, period) \in Nat
      BY <3>1, TotalIsNat
    <3> QED
      BY <3>2
  <2>2. next \in [(period..n) \X Nat -> Nat]
    <3> SUFFICES ASSUME NEW p \in (period..n) \X Nat, p[1] # period
                 PROVE  p[2] + (weight * (values[p[1]] - p[2])) \div total \in Nat
      OBVIOUS
    <3>1. p[2] \in Nat /\ values[p[1]] \in Nat
      OBVIOUS
    <3> QED
      BY <3>1, StepIsNat
  <2>3. ASSUME NEW f \in [period..n -> Nat]
        PROVE  Recursive(f, period, n, base, next) <=> Smooth(f)
    <3>1. ASSUME NEW i \in period..n, i # period
          PROVE  next[<<i, f[i - 1]>>] = f[i - 1] + (weight * (values[i] - f[i - 1])) \div total
      <4>1. n \in Nat /\ i - 1 \in period..n
        BY <3>1
      <4>2. <<i, f[i - 1]>> \in (period..n) \X Nat
        BY <4>1
      <4> QED
        BY <3>1, <4>2
    <3> HIDE DEF base, next
    <3> QED
      BY <3>1 DEF Recursive
  <2>4. \E f : Smooth(f)
    <3>1. period \in Int /\ n \in Int
      OBVIOUS
    <3>2. PICK f : Recursive(f, period, n, base, next)
      <4> HIDE DEF base, next
      <4> QED
        BY <2>1, <2>2, <3>1, RecursionExists
    <3>3. f \in [period..n -> Nat]
      <4> HIDE DEF base, next
      <4> QED
        BY <2>1, <2>2, <3>1, <3>2, RecursionIsTyped
    <3> QED
      BY <2>3, <3>2, <3>3
  <2>5. Smooth(chosen)
    BY <2>4
  <2>6. \A i \in period..n : chosen[i] \in Nat
    <3> DEFINE T == {i \in period..n : chosen[i] \notin Nat}
    <3> HIDE DEF base, chosen
    <3>1. \A i \in period..n :
              chosen[i] = IF i = period THEN base
                          ELSE chosen[i - 1] + (weight * (values[i] - chosen[i - 1])) \div total
      BY <2>5
    <3> SUFFICES ASSUME T # {} PROVE FALSE
      OBVIOUS
    <3>2. PICK m \in T : \A k \in T : m <= k
      <4>1. T \in SUBSET Nat
        OBVIOUS
      <4> HIDE DEF T
      <4> QED
        BY <4>1, LeastNumber
    <3>3. m \in period..n /\ m # period
      BY <2>1, <3>1
    <3>4. m - 1 \in period..n /\ m - 1 \notin T
      <4>1. m - 1 \in period..n /\ ~(m <= m - 1)
        BY <3>3
      <4> HIDE DEF T
      <4> QED
        BY <3>2, <4>1
    <3>5. chosen[m - 1] \in Nat /\ values[m] \in Nat
      BY <3>3, <3>4
    <3>6. chosen[m - 1] + (weight * (values[m] - chosen[m - 1])) \div total \in Nat
      BY <3>5, StepIsNat
    <3>7. chosen[m] = chosen[m - 1] + (weight * (values[m] - chosen[m - 1])) \div total
      BY <3>1, <3>3
    <3>8. chosen[m] \in Nat
      BY <3>6, <3>7
    <3> QED
      BY <3>8
  <2>7. \A i \in period..n :
            chosen[i] = IF i = period THEN base
                        ELSE chosen[i - 1] + (weight * (values[i] - chosen[i - 1])) \div total
    <3> HIDE DEF base, chosen
    <3> QED
      BY <2>5
  <2> HIDE DEF chosen
  <2> DEFINE all == Smoothed(values, period, weight, total)
  <2>8. all \in [1..n -> Number] /\ \A i \in 1..n : i < period => all[i] = Unknown
    BY <1>1, <2>6 DEF Number
  <2>9. \A i \in period..n : all[i] = chosen[i] /\ (i # period => all[i - 1] = chosen[i - 1])
    <3>1. \A i \in period..n : i \in 1..n /\ ~(i < period) /\ (i # period => i - 1 \in 1..n /\ ~(i - 1 < period))
      OBVIOUS
    <3> QED
      BY <1>1, <3>1
  <2> HIDE DEF all, base, Smooth
  <2>10. \A i \in period..n :
             all[i] = IF i = period THEN base ELSE all[i - 1] + (weight * (values[i] - all[i - 1])) \div total
    BY <2>7, <2>9
  <2> QED
    BY <2>6, <2>8, <2>9, <2>10 DEF all, base
<1> QED
  BY <1>2, <1>3

LEMMA WilderTypes ==
    ASSUME NEW values \in Seq(Nat), NEW period \in Nat \ {0}
    PROVE  /\ Wilder(values, period) \in [1..Len(values) -> Number]
           /\ \A i \in period..Len(values) : Wilder(values, period)[i] \in Nat
<1>1. 1 \in Nat /\ 1 <= period
  OBVIOUS
<1> QED
  BY <1>1, SmoothedTypes DEF Wilder

LEMMA EmaTypes ==
    ASSUME NEW values \in Seq(Nat), NEW period \in Nat \ {0}
    PROVE  Ema(values, period) \in [1..Len(values) -> Number]
<1>1. 2 \in Nat /\ period + 1 \in Nat \ {0} /\ 2 <= period + 1
  OBVIOUS
<1> QED
  BY <1>1, SmoothedTypes DEF Ema

LEMMA RsiTypes ==
    ASSUME NEW values \in Seq(Nat), values # <<>>, NEW period \in Nat \ {0}
    PROVE  Rsi(values, period) \in [1..Len(values) -> Number]
<1> DEFINE change == [i \in 1..Len(values) - 1 |-> values[i + 1] - values[i]]
           ups == [i \in DOMAIN change |-> Max({change[i], 0})]
           downs == [i \in DOMAIN change |-> Max({-change[i], 0})]
           gained == Wilder(ups, period)
           lost == Wilder(downs, period)
           strength(i) == IF lost[i] = 0 THEN 10000 ELSE (10000 * gained[i]) \div (gained[i] + lost[i])
           n == Len(values) - 1
<1>1. n \in Nat
  OBVIOUS
<1>2. \A i \in 1..n : change[i] \in Int
  OBVIOUS
<1>3. ups \in [1..n -> Nat] /\ downs \in [1..n -> Nat]
  <2>1. ASSUME NEW i \in 1..n  PROVE Max({change[i], 0}) \in Nat /\ Max({-change[i], 0}) \in Nat
    <3> DEFINE c == change[i]
    <3>1. c \in Int /\ -c \in Int
      BY <1>2
    <3> HIDE DEF c
    <3>2. Max({c, 0}) \in Nat /\ Max({-c, 0}) \in Nat
      BY <3>1, MaxOfTwo
    <3> QED
      BY <3>2 DEF c
  <2> QED
    BY <2>1
<1>4. ups \in Seq(Nat) /\ downs \in Seq(Nat) /\ Len(ups) = n /\ Len(downs) = n
  <2> HIDE DEF ups, downs, n
  <2> QED
    BY <1>1, <1>3
<1>5. \A i \in period..n : gained[i] \in Nat /\ lost[i] \in Nat
  <2> HIDE DEF ups, downs, n
  <2> QED
    BY <1>4, WilderTypes
<1>6. ASSUME NEW i \in 1..Len(values), ~(i <= period)  PROVE strength(i - 1) \in Int
  <2>1. i - 1 \in period..n
    BY <1>6
  <2>2. gained[i - 1] \in Nat /\ lost[i - 1] \in Nat
    BY <1>5, <2>1
  <2> HIDE DEF gained, lost
  <2> QED
    BY <2>2
<1> HIDE DEF gained, lost
<1>7. Rsi(values, period) = [i \in DOMAIN values |-> IF i <= period THEN Unknown ELSE strength(i - 1)]
  BY DEF Rsi, gained, lost
<1> HIDE DEF strength
<1> QED
  BY <1>6, <1>7 DEF Number

LEMMA MinOfTwo ==
    ASSUME NEW a \in Int, NEW b \in Int
    PROVE  Min({a, b}) = IF a <= b THEN a ELSE b
<1>1. CASE a <= b
  BY <1>1 DEF Min
<1>2. CASE ~(a <= b)
  BY <1>2 DEF Min
<1> QED
  BY <1>1, <1>2

LEMMA TrueRangeTypes ==
    ASSUME NEW series \in Seq(Candles)
    PROVE  TrueRange(series) \in [1..Len(series) -> Nat]
<1> DEFINE last(i) == IF i = 1 THEN series[i].low ELSE series[i - 1].close
           range(i) == 100 * (Max({series[i].high, last(i)}) - Min({series[i].low, last(i)}))
<1>1. ASSUME NEW i \in 1..Len(series)  PROVE range(i) \in Nat
  <2> DEFINE p == last(i)
             h == series[i].high
             l == series[i].low
  <2>1. series[i] \in Candles /\ (i # 1 => series[i - 1] \in Candles)
    OBVIOUS
  <2>2. p \in Nat /\ h \in Nat /\ l \in Nat /\ l <= h
    BY <2>1, CandleTypes
  <2> HIDE DEF p, h, l
  <2>3. Max({h, p}) - Min({l, p}) \in Nat
    BY <2>2, MaxOfTwo, MinOfTwo
  <2>4. 100 * (Max({h, p}) - Min({l, p})) \in Nat
    BY <2>3
  <2> QED
    BY <2>4 DEF p, h, l
<1>2. TrueRange(series) = [i \in DOMAIN series |-> range(i)]
  BY DEF TrueRange
<1> HIDE DEF range
<1> QED
  BY <1>1, <1>2

LEMMA RollingTypes ==
    ASSUME NEW series \in Seq(Candles), NEW period \in Nat \ {0}
    PROVE  /\ RollingHigh(series, period) \in [1..Len(series) -> Number]
           /\ RollingLow(series, period) \in [1..Len(series) -> Number]
<1> DEFINE top(i) == 100 * Max({series[j].high : j \in i - period + 1..i})
           bottom(i) == 100 * Min({series[j].low : j \in i - period + 1..i})
<1>1. ASSUME NEW i \in 1..Len(series), ~(i < period)  PROVE top(i) \in Int /\ bottom(i) \in Int
  <2> DEFINE a == i - period + 1
             highs == [j \in 1..Len(series) |-> series[j].high]
             lows == [j \in 1..Len(series) |-> series[j].low]
  <2>1. a \in Int /\ i \in Int /\ a <= i /\ \A j \in a..i : j \in 1..Len(series)
    BY <1>1
  <2>2. \A j \in 1..Len(series) : highs[j] \in Int /\ lows[j] \in Int
    <3>1. \A j \in 1..Len(series) : series[j] \in Candles
      OBVIOUS
    <3>2. \A k \in Candles : k.high \in Int /\ k.low \in Int
      BY CandleTypes
    <3> QED
      BY <3>1, <3>2
  <2>3. /\ {series[j].high : j \in a..i} = {highs[j] : j \in a..i}
        /\ {series[j].low : j \in a..i} = {lows[j] : j \in a..i}
    BY <2>1
  <2>4. \A j \in a..i : highs[j] \in Int /\ lows[j] \in Int
    BY <2>1, <2>2
  <2>5. Max({highs[j] : j \in a..i}) \in Int /\ Min({lows[j] : j \in a..i}) \in Int
    <3> HIDE DEF a, highs, lows
    <3> QED
      BY <2>1, <2>4, SomeAreExtreme
  <2>6. Max({series[j].high : j \in a..i}) \in Int /\ Min({series[j].low : j \in a..i}) \in Int
    BY <2>3, <2>5
  <2>7. \A x \in Int : 100 * x \in Int
    OBVIOUS
  <2> QED
    BY <2>6, <2>7
<1>2. RollingHigh(series, period) = [i \in DOMAIN series |-> IF i < period THEN Unknown ELSE top(i)]
  BY DEF RollingHigh
<1>3. RollingLow(series, period) = [i \in DOMAIN series |-> IF i < period THEN Unknown ELSE bottom(i)]
  BY DEF RollingLow
<1> HIDE DEF top, bottom
<1> QED
  BY <1>1, <1>2, <1>3 DEF Number

LEMMA ComputeTypes ==
    ASSUME NEW series \in Seq(Candles), series # <<>>,
           NEW indicator, indicator.name \in IndicatorNames, indicator.period \in Nat \ {0}
    PROVE  Compute(indicator, series) \in [1..Len(series) -> Number]
<1> DEFINE period == indicator.period
           closes == PriceSeries(series, "close")
           volumes == PriceSeries(series, "volume")
<1>1. /\ closes \in Seq(Nat) /\ Len(closes) = Len(series)
      /\ volumes \in Seq(Nat) /\ Len(volumes) = Len(series)
  BY PriceTypes DEF PriceFields
<1>2. closes # <<>>
  BY <1>1
<1>3. TrueRange(series) \in Seq(Nat) /\ Len(TrueRange(series)) = Len(series)
  <2>1. TrueRange(series) \in [1..Len(series) -> Nat] /\ Len(series) \in Nat
    BY TrueRangeTypes
  <2> QED
    BY <2>1
<1> HIDE DEF closes, volumes
<1>4. CASE indicator.name = "sma"
  BY <1>1, <1>4, SmaTypes DEF Compute, closes
<1>5. CASE indicator.name = "ema"
  BY <1>1, <1>5, EmaTypes DEF Compute, closes
<1>6. CASE indicator.name = "rsi"
  BY <1>1, <1>2, <1>6, RsiTypes DEF Compute, closes
<1>7. CASE indicator.name = "atr"
  BY <1>3, <1>7, WilderTypes DEF Compute, Atr
<1>8. CASE indicator.name = "rolling_high"
  BY <1>8, RollingTypes DEF Compute
<1>9. CASE indicator.name = "rolling_low"
  BY <1>9, RollingTypes DEF Compute
<1>10. CASE indicator.name = "volume_sma"
  BY <1>1, <1>10, SmaTypes DEF Compute, volumes
<1>11. CASE indicator.name = "true_range"
  BY <1>11, TrueRangeTypes DEF Compute, Number
<1> QED
  BY <1>4, <1>5, <1>6, <1>7, <1>8, <1>9, <1>10, <1>11 DEF IndicatorNames, SmoothedNames

-----------------------------------------------------------------------------
(* evaluate: at most two signals at a bar, each of that bar.               *)

SignalsOf(i) == [bar : {i}, side : Sides, reference : Nat, stop : Nat, target : Nat]

LEMMA LevelTypes ==
    ASSUME NEW reference \in Nat, NEW distance \in Number, NEW above
    PROVE  LevelAt(reference, distance, above) \in Nat \cup {Unknown}
<1>1. CASE distance = Unknown
  BY <1>1 DEF LevelAt
<1>2. CASE distance # Unknown
  <2>1. distance \in Int
    BY <1>2 DEF Number
  <2> QED
    BY <1>2, <2>1 DEF LevelAt
<1> QED
  BY <1>1, <1>2

LEMMA DistanceTypes ==
    ASSUME NEW level, NEW computed, NEW n \in Nat, NEW i \in 1..n, NEW reference \in Nat, NEW risk \in Int,
           level.kind \in {"percent", "risk_multiple", "atr_multiple"},
           ValidLevel(level, DOMAIN computed), \A id \in DOMAIN computed : computed[id] \in [1..n -> Number]
    PROVE  Distance(level, reference, risk, i, computed) \in Number
<1>1. level.value \in Nat
  BY DEF ValidLevel
<1>2. CASE level.kind = "percent"
  <2>1. (reference * level.value) \div 100 \in Int
    BY <1>1
  <2> QED
    BY <1>2, <2>1 DEF Distance, Number
<1>3. CASE level.kind = "risk_multiple"
  <2>1. risk * level.value \in Int
    BY <1>1
  <2> QED
    BY <1>3, <2>1 DEF Distance, Number
<1>4. CASE level.kind = "atr_multiple"
  <2> DEFINE value == computed[level.ref][i]
  <2>1. value \in Number
    BY <1>4 DEF ValidLevel
  <2>2. Distance(level, reference, risk, i, computed) = IF value = Unknown THEN Unknown ELSE value * level.value
    BY <1>4 DEF Distance
  <2> HIDE DEF value
  <2>3. value # Unknown => value * level.value \in Int
    BY <1>1, <2>1 DEF Number
  <2> QED
    BY <2>2, <2>3 DEF Number
<1> QED
  BY <1>2, <1>3, <1>4

\* What a rule asks for at bar i, and whether all of it is so.
StopBy(s, rule, i, series, computed) == StopPrice(s, rule.side, 100 * series[i].close, i, computed)

TargetBy(s, rule, i, series, computed) ==
    TargetPrice(s, rule.side, 100 * series[i].close, StopBy(s, rule, i, series, computed), i, computed)

SignalBy(s, rule, i, series, computed) ==
    [bar |-> i, side |-> rule.side, reference |-> 100 * series[i].close,
     stop |-> StopBy(s, rule, i, series, computed), target |-> TargetBy(s, rule, i, series, computed)]

Fires(s, rule, i, series, computed) ==
    /\ \A c \in rule.conditions : Holds(c, i, series, computed)
    /\ StopBy(s, rule, i, series, computed) # Unknown
    /\ TargetBy(s, rule, i, series, computed) # Unknown

LEMMA OneOrTwo ==
    ASSUME NEW T, NEW a \in T, NEW b \in T
    PROVE  /\ <<a>> # <<>> /\ <<a>>[1] = a /\ Append(<<>>, a) = <<a>>
           /\ Append(<<a>>, b) # <<>> /\ Append(<<a>>, b)[1] = a
OBVIOUS

LEMMA SignalsAtTypes ==
    ASSUME NEW s \in Specs, NEW series \in Seq(Candles), NEW i \in 1..Len(series), NEW computed,
           DOMAIN computed = DOMAIN s.indicators,
           \A id \in DOMAIN computed : computed[id] \in [1..Len(series) -> Number]
    PROVE  /\ SignalsAt(s, i, series, computed) \in Seq(SignalsOf(i))
           /\ Len(SignalsAt(s, i, series, computed)) <= 2
           /\ SignalsAt(s, i, series, computed) = <<>>
                 <=> \A k \in 1..Len(s.entries) : ~Fires(s, s.entries[k], i, series, computed)
           /\ SignalsAt(s, i, series, computed) # <<>> =>
                 SignalsAt(s, i, series, computed)[1]
                     = SignalBy(s, s.entries[IF Fires(s, s.entries[1], i, series, computed) THEN 1 ELSE 2],
                                i, series, computed)
<1> DEFINE reference == 100 * series[i].close
           stop(rule) == StopPrice(s, rule.side, reference, i, computed)
           target(rule) == TargetPrice(s, rule.side, reference, stop(rule), i, computed)
           signal(rule) == [bar |-> i, side |-> rule.side, reference |-> reference,
                            stop |-> stop(rule), target |-> target(rule)]
           fires(rule) == /\ \A c \in rule.conditions : Holds(c, i, series, computed)
                          /\ stop(rule) # Unknown
                          /\ target(rule) # Unknown
           n == Len(s.entries)
           Fired(f) == f = [k \in 0..n |->
                               IF k = 0 THEN <<>>
                               ELSE IF fires(s.entries[k]) THEN Append(f[k - 1], signal(s.entries[k]))
                               ELSE f[k - 1]]
           chosen == CHOOSE f : Fired(f)
<1>1. ValidSpec(s)
  BY SpecIsValid
<1>2. n \in 1..2 /\ \A k \in 1..n : s.entries[k].side \in Sides
  <2>1. Len(s.entries) \in 1..2 /\ \A k \in DOMAIN s.entries : s.entries[k].side \in Sides
    BY <1>1 DEF ValidSpec
  <2> QED
    BY <2>1
<1>3. SignalsAt(s, i, series, computed) = chosen[n]
  BY DEF SignalsAt
<1>4. reference \in Nat
  <2>1. series[i] \in Candles
    OBVIOUS
  <2>2. series[i].close \in Nat
    BY <2>1, CandleTypes
  <2> QED
    BY <2>2
<1>5. ASSUME NEW k \in 1..n, fires(s.entries[k])  PROVE signal(s.entries[k]) \in SignalsOf(i)
  <2> DEFINE rule == s.entries[k]
  <2>1. /\ s.stop.kind \in {"percent", "risk_multiple", "atr_multiple"}
        /\ s.target.kind \in {"percent", "risk_multiple", "atr_multiple"}
        /\ ValidLevel(s.stop, DOMAIN computed) /\ ValidLevel(s.target, DOMAIN computed)
    BY <1>1 DEF ValidSpec
  <2>2. Len(series) \in Nat /\ 0 \in Int
    OBVIOUS
  <2>3. stop(rule) # Unknown /\ target(rule) # Unknown
    BY <1>5
  <2>4. stop(rule) \in Nat
    <3> HIDE DEF reference
    <3>1. Distance(s.stop, reference, 0, i, computed) \in Number
      BY <1>4, <2>1, <2>2, DistanceTypes
    <3> QED
      BY <1>4, <2>3, <3>1, LevelTypes DEF StopPrice
  <2>5. target(rule) \in Nat
    <3> DEFINE st == stop(rule)
               risk == IF st > reference THEN st - reference ELSE reference - st
    <3>1. target(rule) = LevelAt(reference, Distance(s.target, reference, risk, i, computed), rule.side = "LONG")
      BY DEF TargetPrice
    <3>2. st \in Nat
      BY <2>4
    <3> HIDE DEF reference, st
    <3>3. risk \in Int
      BY <1>4, <3>2
    <3> HIDE DEF risk, rule
    <3>4. Distance(s.target, reference, risk, i, computed) \in Number
      BY <1>4, <2>1, <2>2, <3>3, DistanceTypes
    <3>5. LevelAt(reference, Distance(s.target, reference, risk, i, computed), rule.side = "LONG")
            \in Nat \cup {Unknown}
      BY <1>4, <3>4, LevelTypes
    <3> HIDE DEF target
    <3> QED
      BY <2>3, <3>1, <3>5
  <2> HIDE DEF stop, target, reference
  <2> QED
    BY <1>2, <1>4, <2>4, <2>5 DEF SignalsOf
<1> HIDE DEF signal, fires
<1> DEFINE S == Seq(SignalsOf(i))
           next == [p \in (0..n) \X S |->
                       IF p[1] = 0 THEN <<>>
                       ELSE IF fires(s.entries[p[1]]) THEN Append(p[2], signal(s.entries[p[1]]))
                       ELSE p[2]]
<1>6. next \in [(0..n) \X S -> S]
  <2> SUFFICES ASSUME NEW p \in (0..n) \X S, p[1] # 0
               PROVE  fires(s.entries[p[1]]) => Append(p[2], signal(s.entries[p[1]])) \in S
    OBVIOUS
  <2>1. p[1] \in 1..n
    BY <1>2
  <2> QED
    BY <1>5, <2>1
<1>7. \E f : Fired(f)
  <2>1. 0 \in Int /\ n \in Int /\ <<>> \in S
    BY <1>2
  <2>2. PICK f : Recursive(f, 0, n, <<>>, next)
    <3> HIDE DEF next, S, n
    <3> QED
      BY <1>6, <2>1, RecursionExists
  <2>3. f \in [0..n -> S]
    <3> HIDE DEF next, S, n
    <3> QED
      BY <1>6, <2>1, <2>2, RecursionIsTyped
  <2>4. ASSUME NEW k \in 0..n, k # 0
        PROVE  next[<<k, f[k - 1]>>] =
                   IF fires(s.entries[k]) THEN Append(f[k - 1], signal(s.entries[k])) ELSE f[k - 1]
    <3>1. k - 1 \in 0..n
      BY <1>2, <2>4
    <3>2. f[k - 1] \in S
      BY <2>3, <3>1
    <3> HIDE DEF S
    <3> QED
      BY <2>4, <3>2
  <2>5. Fired(f)
    <3> HIDE DEF next, S
    <3> QED
      BY <2>2, <2>4 DEF Recursive
  <2> QED
    BY <2>5
<1>8. Fired(chosen)
  BY <1>7
<1>9. \A k \in 0..n : chosen[k] = IF k = 0 THEN <<>>
                                  ELSE IF fires(s.entries[k]) THEN Append(chosen[k - 1], signal(s.entries[k]))
                                  ELSE chosen[k - 1]
  <2> HIDE DEF chosen
  <2> QED
    BY <1>8
<1> HIDE DEF chosen, Fired, n
<1>10. chosen[0] = <<>> /\ chosen[0] \in S /\ Len(chosen[0]) = 0
  <2>1. 0 \in 0..n
    BY <1>2
  <2>2. chosen[0] = <<>>
    BY <1>9, <2>1, Zenon
  <2>3. <<>> \in S /\ Len(<<>>) = 0
    OBVIOUS
  <2> QED
    BY <2>2, <2>3, Zenon
<1>11. /\ chosen[1] \in S /\ Len(chosen[1]) <= 1
       /\ chosen[1] = IF fires(s.entries[1]) THEN <<signal(s.entries[1])>> ELSE <<>>
  <2>1. 1 \in 0..n /\ 1 \in 1..n /\ 1 - 1 = 0
    BY <1>2
  <2>2. chosen[1] = IF fires(s.entries[1]) THEN Append(chosen[0], signal(s.entries[1])) ELSE chosen[0]
    BY <1>9, <2>1
  <2> QED
    BY <1>5, <1>10, <2>1, <2>2
<1>12. n = 2 => /\ chosen[2] \in S /\ Len(chosen[2]) <= 2
                /\ chosen[2] = IF fires(s.entries[2]) THEN Append(chosen[1], signal(s.entries[2])) ELSE chosen[1]
  <2> SUFFICES ASSUME n = 2
               PROVE  /\ chosen[2] \in S /\ Len(chosen[2]) <= 2
                      /\ chosen[2] = IF fires(s.entries[2]) THEN Append(chosen[1], signal(s.entries[2])) ELSE chosen[1]
    OBVIOUS
  <2>1. 2 \in 0..n /\ 2 \in 1..n /\ 2 - 1 = 1
    OBVIOUS
  <2>2. chosen[2] = IF fires(s.entries[2]) THEN Append(chosen[1], signal(s.entries[2])) ELSE chosen[1]
    BY <1>9, <2>1
  <2> QED
    BY <1>5, <1>11, <2>1, <2>2
<1>13. /\ chosen[n] \in S /\ Len(chosen[n]) <= 2
       /\ chosen[n] = <<>> <=> \A k \in 1..n : ~fires(s.entries[k])
       /\ chosen[n] # <<>> => chosen[n][1] = signal(s.entries[IF fires(s.entries[1]) THEN 1 ELSE 2])
  <2>1. CASE n = 1
    <3> DEFINE one == signal(s.entries[1])
    <3>1. 1 \in 1..n /\ \A k \in 1..n : k = 1
      BY <2>1
    <3>2. chosen[n] = IF fires(s.entries[1]) THEN <<one>> ELSE <<>>
      BY <1>11, <2>1
    <3>3. fires(s.entries[1]) => <<one>> # <<>> /\ <<one>>[1] = one
      <4>1. fires(s.entries[1]) => one \in SignalsOf(i)
        BY <1>5, <3>1
      <4> HIDE DEF one
      <4> QED
        BY <4>1, OneOrTwo
    <3> HIDE DEF one, S
    <3>4. chosen[n] \in S /\ Len(chosen[n]) <= 2
      <4>1. chosen[1] \in S /\ Len(chosen[1]) <= 1 /\ Len(chosen[1]) \in Nat
        BY <1>11 DEF S
      <4> QED
        BY <2>1, <4>1
    <3>5. /\ chosen[n] = <<>> <=> \A k \in 1..n : ~fires(s.entries[k])
          /\ chosen[n] # <<>> => chosen[n][1] = one /\ fires(s.entries[1])
      BY <3>1, <3>2, <3>3
    <3> QED
      BY <3>4, <3>5 DEF one
  <2>2. CASE n = 2
    <3>1. \A k \in 1..n : k = 1 \/ k = 2
      BY <2>2
    <3>2. 1 \in 1..n /\ 2 \in 1..n
      BY <2>2
    <3> DEFINE one == signal(s.entries[1])  two == signal(s.entries[2])
    <3>3. fires(s.entries[2]) => two \in SignalsOf(i)
      BY <1>5, <3>2
    <3>4. CASE fires(s.entries[1])
      <4>1. chosen[1] = <<one>> /\ one \in SignalsOf(i)
        BY <1>5, <1>11, <3>2, <3>4
      <4>2. chosen[n] # <<>> /\ chosen[n][1] = one
        <5>1. chosen[n] = IF fires(s.entries[2]) THEN Append(<<one>>, two) ELSE <<one>>
          BY <1>12, <2>2, <4>1
        <5> HIDE DEF one, two
        <5>2. fires(s.entries[2]) => Append(<<one>>, two) # <<>> /\ Append(<<one>>, two)[1] = one
          BY <3>3, <4>1, OneOrTwo
        <5>3. <<one>> # <<>> /\ <<one>>[1] = one
          BY <4>1, OneOrTwo
        <5> QED
          BY <5>1, <5>2, <5>3
      <4> QED
        BY <1>12, <2>2, <3>2, <3>4, <4>2
    <3>5. CASE ~fires(s.entries[1])
      <4>1. chosen[1] = <<>>
        BY <1>11, <3>5
      <4>2. chosen[n] = IF fires(s.entries[2]) THEN <<two>> ELSE <<>>
        <5>1. chosen[n] = IF fires(s.entries[2]) THEN Append(<<>>, two) ELSE <<>>
          BY <1>12, <2>2, <4>1
        <5> HIDE DEF two
        <5> QED
          BY <3>3, <5>1, OneOrTwo
      <4>3. fires(s.entries[2]) => chosen[n] # <<>> /\ chosen[n][1] = two
        BY <4>2
      <4> QED
        BY <1>12, <2>2, <3>1, <3>2, <3>5, <4>2, <4>3
    <3> QED
      BY <3>4, <3>5
  <2> QED
    BY <1>2, <2>1, <2>2
<1>14. \A rule : /\ fires(rule) <=> Fires(s, rule, i, series, computed)
                /\ signal(rule) = SignalBy(s, rule, i, series, computed)
  BY DEF fires, signal, Fires, SignalBy, StopBy, TargetBy
<1> HIDE DEF S
<1> QED
  BY <1>3, <1>13, <1>14 DEF n, S

LEMMA EvaluateTypes ==
    ASSUME NEW s \in Specs, NEW series \in Seq(Candles), series # <<>>
    PROVE  /\ Evaluate(s, series) = [i \in 1..Len(series) |-> Evaluate(s, series)[i]]
           /\ \A i \in 1..Len(series) : /\ Evaluate(s, series)[i] \in Seq(SignalsOf(i))
                                        /\ Len(Evaluate(s, series)[i]) <= 2
<1> DEFINE computed == Computed(s, series)
<1>1. /\ DOMAIN computed = DOMAIN s.indicators
      /\ \A id \in DOMAIN computed : computed[id] \in [1..Len(series) -> Number]
  <2>1. \A id \in DOMAIN s.indicators : /\ s.indicators[id].name \in IndicatorNames
                                        /\ s.indicators[id].period \in Nat \ {0}
    BY SpecIsValid, EvaluatorAssumption DEF ValidSpec
  <2> QED
    BY <2>1, ComputeTypes DEF Computed
<1>2. Evaluate(s, series) = [i \in DOMAIN series |-> SignalsAt(s, i, series, computed)]
  BY DEF Evaluate
<1> HIDE DEF computed
<1> QED
  BY <1>1, <1>2, SignalsAtTypes

-----------------------------------------------------------------------------
(* Type correctness.                                                       *)

LEMMA ConstantTypes ==
    /\ N \in Nat \ {0, 1} /\ History \in Nat \ {0} /\ FeePct \in 0..99 /\ SlipPct \in 0..99
    /\ StartEquity \in Nat \ {0}
    /\ None \notin Signals /\ None \notin Positions
BY ReplayAssumption, NoneAssumption

LEMMA BarTypes ==
    ASSUME TypeOK
    PROVE  /\ bars \in Seq(Candles) /\ Len(bars) = N /\ bars # <<>>
           /\ \A i \in Index : bars[i] \in [open : Nat, high : Nat, low : Nat, close : Nat, volume : Nat]
           /\ spec \in Specs /\ spec.maxBars \in Nat \ {0}
<1>1. bars \in [1..N -> Candles] /\ spec \in Specs
  BY DEF TypeOK, Index
<1>2. \A i \in Index : bars[i] \in [open : Nat, high : Nat, low : Nat, close : Nat, volume : Nat]
  <2>1. \A i \in Index : bars[i] \in Candles
    BY <1>1 DEF Index
  <2> QED
    BY <2>1, CandleTypes
<1>3. N \in Nat /\ N > 1
  BY ConstantTypes
<1>4. bars \in Seq(Candles) /\ Len(bars) = N /\ bars # <<>>
  BY <1>1, <1>3
<1>5. spec.maxBars \in Nat \ {0}
  BY <1>1, SpecIsValid DEF ValidSpec
<1> QED
  BY <1>1, <1>2, <1>4, <1>5

LEMMA PriceIsNat ==
    ASSUME NEW price \in Nat, NEW side, NEW entering
    PROVE  FillPrice(price, side, entering) \in Nat
<1>1. 100 + SlipPct \in Nat /\ 100 - SlipPct \in Nat
  BY ConstantTypes
<1>2. price * (100 + SlipPct) \in Nat /\ price * (100 - SlipPct) \in Nat
  <2> DEFINE a == 100 + SlipPct
             b == 100 - SlipPct
  <2>1. a \in Nat /\ b \in Nat
    BY <1>1
  <2> HIDE DEF a, b
  <2>2. price * a \in Nat /\ price * b \in Nat
    BY <2>1
  <2> QED
    BY <2>2 DEF a, b
<1> QED
  BY <1>2 DEF FillPrice

LEMMA FeeIsNat ==
    ASSUME NEW notional \in Nat
    PROVE  Fee(notional) \in Nat
<1>1. FeePct \in Nat
  BY ConstantTypes
<1>2. notional * FeePct \in Nat
  BY <1>1
<1> QED
  BY <1>2 DEF Fee

LEMMA GrossIsInt ==
    ASSUME NEW side, NEW quantity \in Nat, NEW from \in Nat, NEW to \in Nat
    PROVE  Gross(side, quantity, from, to) \in Int
<1>1. (to - from) * quantity \in Int /\ (from - to) * quantity \in Int
  OBVIOUS
<1> QED
  BY <1>1 DEF Gross

\* A quotient of numbers that are not negative is not negative.
LEMMA QuotientIsNat ==
    ASSUME NEW a \in Nat, NEW b \in Nat \ {0}
    PROVE  a \div b \in Nat
OBVIOUS

LEMMA ProductIsNat == \A a, b \in Nat : a * b \in Nat /\ (a # 0 /\ b # 0 => a * b # 0)
OBVIOUS

LEMMA QuantityTypes ==
    ASSUME NEW r \in Requests, Accepted(r)
    PROVE  Quantity(r) \in Nat \ {0}
<1>1. ~InvalidLevels(r) /\ ~(r.free <= 0) /\ ~NoHeadroom(r) /\ Quantity(r) # 0
  BY DEF Accepted, Reason
<1>2. /\ r.entry \in Nat /\ r.stop \in Nat /\ r.equity \in Int /\ r.free \in Int /\ r.deployed \in Nat
      /\ r.multiplier \in 1..100 /\ r.side \in {"LONG", "SHORT"}
  BY DEF Requests
<1>3. /\ r.entry \in Nat \ {0} /\ r.equity \in Nat /\ r.free \in Nat /\ r.multiplier \in Nat
      /\ Gap(r.entry, r.stop) \in Nat \ {0}
  BY <1>1, <1>2 DEF InvalidLevels, Gap
<1>4. RiskPct \in Nat /\ PositionPct \in Nat /\ DeployedPct \in Nat
  BY SizingAssumption
<1>5. ByRisk(r) \in Nat
  <2> DEFINE a == r.equity * RiskPct * r.multiplier
             b == 10000 * Gap(r.entry, r.stop)
  <2>1. a \in Nat
    BY <1>3, <1>4, ProductIsNat
  <2>2. b \in Nat \ {0}
    BY <1>3
  <2> HIDE DEF a, b
  <2>3. a \div b \in Nat
    BY <2>1, <2>2, QuotientIsNat
  <2> QED
    BY <2>3 DEF ByRisk, a, b
<1>6. ByPosition(r) \in Nat
  <2> DEFINE a == r.equity * PositionPct
             b == 100 * r.entry
  <2>1. a \in Nat
    BY <1>3, <1>4, ProductIsNat
  <2>2. b \in Nat \ {0}
    BY <1>3
  <2> HIDE DEF a, b
  <2>3. a \div b \in Nat
    BY <2>1, <2>2, QuotientIsNat
  <2> QED
    BY <2>3 DEF ByPosition, a, b
<1>7. ByCash(r) \in Nat
  BY <1>3, QuotientIsNat DEF ByCash
<1>8. ByHeadroom(r) \in Nat
  <2> DEFINE a == r.equity * DeployedPct - 100 * r.deployed
             b == 100 * r.entry
  <2>1. a \in Nat
    <3>1. r.equity * DeployedPct \in Nat /\ 100 * r.deployed \in Nat
      BY <1>2, <1>3, <1>4, ProductIsNat
    <3>2. ~(r.equity * DeployedPct <= 100 * r.deployed)
      BY <1>1 DEF NoHeadroom
    <3> QED
      BY <3>1, <3>2
  <2>2. b \in Nat \ {0}
    BY <1>3
  <2> HIDE DEF a, b
  <2>3. a \div b \in Nat
    BY <2>1, <2>2, QuotientIsNat
  <2> QED
    BY <2>3 DEF ByHeadroom, a, b
<1> QED
  BY <1>1, <1>5, <1>6, <1>7, <1>8 DEF Quantity, Least

LEMMA SizedTypes ==
    ASSUME NEW signal \in Signals, NEW entry \in Nat, NEW money \in Int, Accepted(Sized(signal, entry, money))
    PROVE  Quantity(Sized(signal, entry, money)) \in Nat \ {0}
<1>1. signal.stop \in Nat /\ signal.side \in {"LONG", "SHORT"}
  BY DEF Signals, Sides
<1>2. Sized(signal, entry, money) \in Requests
  BY <1>1 DEF Sized, Requests
<1> QED
  BY <1>2, QuantityTypes

LEMMA FirstTypes ==
    ASSUME TypeOK, NEW i \in Index
    PROVE  /\ FirstAt(i) = None \/ FirstAt(i) \in Signals
           /\ LastAt(i) = None \/ LastAt(i) \in Signals
           /\ signals[i] # <<>> => FirstAt(i) = signals[i][1] /\ 1 \in DOMAIN signals[i]
           /\ signals[i] # <<>> => LastAt(i) = signals[i][Len(signals[i])]
<1>1. signals[i] \in Seq(Signals)
  BY DEF TypeOK
<1>2. CASE signals[i] = <<>>
  BY <1>2 DEF FirstAt, LastAt
<1>3. CASE signals[i] # <<>>
  <2>1. Len(signals[i]) \in Nat \ {0}
    BY <1>1, <1>3
  <2>2. signals[i][1] \in Signals /\ signals[i][Len(signals[i])] \in Signals /\ 1 \in DOMAIN signals[i]
    BY <1>1, <2>1
  <2>3. Head(signals[i]) = signals[i][1]
    BY <1>1, <1>3
  <2> QED
    BY <1>3, <2>2, <2>3 DEF FirstAt, LastAt, Last
<1> QED
  BY <1>2, <1>3

LEMMA ClosedTypes ==
    ASSUME TypeOK, NEW p \in Positions, NEW i \in Index,
           NEW reason \in {"STOP", "TARGET", "TIME", "END_OF_DATA"}
    PROVE  /\ Closed(p, i, reason) \in Trades
           /\ Net(Closed(p, i, reason)) \in Int /\ Charged(Closed(p, i, reason)) \in Int
<1> DEFINE exit == CASE reason = "STOP" -> p.signal.stop
                     [] reason = "TARGET" -> p.signal.target
                     [] OTHER -> FillPrice(bars[i].close, p.signal.side, FALSE)
           t == Closed(p, i, reason)
<1>1. /\ p.entry \in Index /\ p.signal \in Signals /\ p.price \in Nat /\ p.quantity \in Nat /\ p.fee \in Nat
  BY DEF Positions
<1>2. p.signal.side \in Sides /\ p.signal.stop \in Nat /\ p.signal.target \in Nat
  BY <1>1 DEF Signals
<1>3. FillPrice(bars[i].close, p.signal.side, FALSE) \in Nat
  BY BarTypes, PriceIsNat
<1>4. exit \in Nat
  <2>1. CASE reason = "STOP"
    BY <1>2, <2>1
  <2>2. CASE reason = "TARGET"
    BY <1>2, <2>2
  <2>3. CASE reason \notin {"STOP", "TARGET"}
    BY <1>3, <2>3
  <2> QED
    BY <2>1, <2>2, <2>3
<1>5. t = [entry |-> p.entry, exit |-> i, side |-> p.signal.side, reason |-> reason,
           gross |-> Gross(p.signal.side, p.quantity, p.price, exit),
           entryFee |-> p.fee, exitFee |-> Fee(exit * p.quantity)]
  BY DEF Closed
<1> HIDE DEF exit
<1>6. exit * p.quantity \in Nat
  BY <1>1, <1>4, ProductIsNat
<1>7. Gross(p.signal.side, p.quantity, p.price, exit) \in Int /\ Fee(exit * p.quantity) \in Nat
  BY <1>1, <1>4, <1>6, GrossIsInt, FeeIsNat
<1>8. t \in Trades
  BY <1>1, <1>2, <1>5, <1>7 DEF Trades
<1> HIDE DEF t
<1>9. Net(t) \in Int /\ Charged(t) \in Int
  BY <1>8 DEF Trades, Net, Charged
<1> QED
  BY <1>8, <1>9 DEF t

LEMMA ActionableTypes ==
    ASSUME TypeOK, NEW i \in Index
    PROVE  Actionable(i) \in Signals \cup {None}
<1> DEFINE a == Max({1, i - History + 1})
           w == SubSeq(bars, a, i)
           all == Evaluate(spec, w)
           n == Len(w)
<1>1. i \in 1..N /\ N \in Nat /\ History \in Nat \ {0}
  BY ConstantTypes DEF Index
<1>2. a \in 1..i
  <2>1. i - History + 1 \in Int /\ i - History + 1 <= i /\ 1 \in Int
    BY <1>1
  <2>2. a = IF 1 >= i - History + 1 THEN 1 ELSE i - History + 1
    BY <2>1, MaxOfTwo
  <2> QED
    BY <1>1, <2>1, <2>2
<1> HIDE DEF a
<1>3. w \in Seq(Candles) /\ n = i - a + 1 /\ n \in 1..N /\ w # <<>>
  <2>1. bars \in Seq(Candles) /\ Len(bars) = N
    BY BarTypes
  <2>2. w \in Seq(Candles) /\ Len(w) = i - a + 1
    BY <1>1, <1>2, <2>1
  <2>3. i - a + 1 \in 1..N
    BY <1>1, <1>2
  <2>4. Len(w) \in 1..N
    BY <2>2, <2>3
  <2> HIDE DEF w
  <2>5. w # <<>>
    BY <2>4
  <2> QED
    BY <2>2, <2>4, <2>5
<1>4. Actionable(i) = LET latest == Last(all) IN IF latest = <<>> THEN None ELSE [Head(latest) EXCEPT !.bar = i]
  BY DEF Actionable, Window, a
<1> HIDE DEF w, n
<1>5. all[n] \in Seq(SignalsOf(n)) /\ all = [j \in 1..n |-> all[j]]
  BY <1>3, EvaluateTypes, BarTypes DEF n
<1>6. Last(all) = all[n]
  <2> HIDE DEF all
  <2>1. Len(all) = n
    BY <1>3, <1>5
  <2> QED
    BY <2>1 DEF Last
<1> HIDE DEF all
<1>7. CASE all[n] = <<>>
  BY <1>4, <1>6, <1>7
<1>8. CASE all[n] # <<>>
  <2> DEFINE first == Head(all[n])
  <2>1. first \in SignalsOf(n)
    BY <1>5, <1>8
  <2>2. [first EXCEPT !.bar = i] \in Signals
    BY <2>1 DEF SignalsOf, Signals
  <2> QED
    BY <1>4, <1>6, <1>8, <2>2
<1> QED
  BY <1>7, <1>8

LEMMA EvaluatedTypes ==
    ASSUME TypeOK
    PROVE  /\ Evaluate(spec, bars) \in [Index -> Seq(Signals)]
           /\ \A i \in Index : /\ Len(Evaluate(spec, bars)[i]) <= 2
                               /\ \A k \in DOMAIN Evaluate(spec, bars)[i] : Evaluate(spec, bars)[i][k].bar = i
<1> DEFINE all == Evaluate(spec, bars)
<1>1. all = [i \in Index |-> all[i]] /\ \A i \in Index : all[i] \in Seq(SignalsOf(i)) /\ Len(all[i]) <= 2
  BY BarTypes, EvaluateTypes DEF Index
<1>2. \A i \in Index : Seq(SignalsOf(i)) \subseteq Seq(Signals)
  <2>1. \A i \in Index : SignalsOf(i) \subseteq Signals
    BY DEF SignalsOf, Signals
  <2> QED
    BY <2>1
<1> HIDE DEF all
<1>4. all \in [Index -> Seq(Signals)]
  BY <1>1, <1>2
<1>5. \A i \in Index : \A k \in DOMAIN all[i] : all[i][k].bar = i
  <2> SUFFICES ASSUME NEW i \in Index, NEW k \in DOMAIN all[i] PROVE all[i][k].bar = i
    OBVIOUS
  <2>1. all[i][k] \in SignalsOf(i)
    BY <1>1
  <2> QED
    BY <2>1 DEF SignalsOf
<1> QED
  BY <1>1, <1>4, <1>5 DEF all

LEMMA OpenedTypes ==
    ASSUME TypeOK, index \in Index
    PROVE  Opened(index) = None \/ Opened(index) \in Positions
<1> DEFINE price == FillPrice(bars[index].open, pending.side, TRUE)
           request == Sized(pending, price, equity)
           q == Quantity(request)
<1>1. CASE position # None \/ pending = None \/ ~Accepted(request)
  BY <1>1 DEF Opened, TypeOK
<1>2. CASE ~(position # None \/ pending = None) /\ Accepted(request)
  <2>1. pending \in Signals /\ equity \in Int
    BY <1>2 DEF TypeOK
  <2>2. price \in Nat
    BY BarTypes, PriceIsNat
  <2>3. q \in Nat \ {0}
    <3> HIDE DEF price
    <3> QED
      BY <1>2, <2>1, <2>2, SizedTypes
  <2>4. Opened(index) = [entry |-> index, signal |-> pending, price |-> price, quantity |-> q, fee |-> Fee(q * price)]
    BY <1>2 DEF Opened
  <2> HIDE DEF q, price, request
  <2>5. Fee(q * price) \in Nat
    BY <2>2, <2>3, ProductIsNat, FeeIsNat
  <2> QED
    BY <2>1, <2>2, <2>3, <2>4, <2>5 DEF Positions
<1> QED
  BY <1>1, <1>2

LEMMA LiveTickTypes ==
    ASSUME TypeOK, LiveTick
    PROVE  TypeOK'
<1>1. Len(acted) + 1 \in Index
  BY ConstantTypes DEF LiveTick, TypeOK, Index
<1>2. acted' \in Seq(Signals \cup {None})
  BY <1>1, ActionableTypes DEF LiveTick, TypeOK
<1> QED
  BY <1>2 DEF LiveTick, TypeOK, engine, verifier, Index

LEMMA EvaluateAllTypes ==
    ASSUME TypeOK, EvaluateAll
    PROVE  TypeOK'
BY EvaluatedTypes DEF EvaluateAll, TypeOK, Stages, engine, verifier, Index

LEMMA EngineBarTypes ==
    ASSUME TypeOK, EngineBar
    PROVE  TypeOK'
<1> DEFINE p == Opened(index)
           paid == IF p # None /\ position = None THEN equity - p.fee ELSE equity
           reason == IF p = None THEN "NONE" ELSE ExitReason(p, index)
           trade == Closed(p, index, reason)
<1>1. index \in Index /\ index' \in 1..N + 1
  BY ConstantTypes DEF EngineBar, TypeOK, Index
<1>2. p = None \/ p \in Positions
  BY <1>1, OpenedTypes
<1>3. /\ equity' = IF reason = "NONE" THEN paid ELSE paid + Charged(trade)
      /\ trades' = IF reason = "NONE" THEN trades ELSE Append(trades, trade)
      /\ position' = IF reason = "NONE" THEN p ELSE None
      /\ pending' = IF position' = None THEN FirstAt(index) ELSE None
      /\ curve' = Append(curve, equity')
  BY DEF EngineBar
<1>4. reason \in {"NONE", "STOP", "TARGET", "TIME"} /\ (reason # "NONE" => p # None)
  BY DEF ExitReason
<1>5. reason # "NONE" => trade \in Trades /\ Charged(trade) \in Int
  <2> HIDE DEF p, reason
  <2> QED
    BY <1>1, <1>2, <1>4, ClosedTypes
<1>6. equity \in Int /\ trades \in Seq(Trades) /\ curve \in Seq(Int)
  BY DEF TypeOK
<1> HIDE DEF p, reason, trade
<1>7. paid \in Int
  <2>1. p # None => p.fee \in Int
    BY <1>2 DEF Positions
  <2> QED
    BY <1>6, <2>1
<1> HIDE DEF paid
<1>8. equity' \in Int /\ trades' \in Seq(Trades)
  BY <1>3, <1>5, <1>6, <1>7
<1>9. curve' \in Seq(Int)
  BY <1>3, <1>6, <1>8
<1>10. position' = None \/ position' \in Positions
  BY <1>2, <1>3
<1>11. pending' = None \/ pending' \in Signals
  BY <1>1, <1>3, FirstTypes
<1> QED
  BY <1>1, <1>8, <1>9, <1>10, <1>11 DEF EngineBar, TypeOK, input, verifier, Index

LEMMA EngineEndTypes ==
    ASSUME TypeOK, EngineEnd
    PROVE  TypeOK'
<1>1. N \in Index /\ N \in Nat
  BY ConstantTypes DEF Index
<1>2. CASE position = None
  BY <1>2 DEF EngineEnd, TypeOK, Stages, input, verifier, Index
<1>3. CASE position # None
  <2> DEFINE trade == Closed(position, N, "END_OF_DATA")
  <2>1. position \in Positions
    BY <1>3 DEF TypeOK
  <2>2. trade \in Trades /\ Charged(trade) \in Int
    BY <1>1, <2>1, ClosedTypes
  <2>3. equity' = equity + Charged(trade) /\ trades' = Append(trades, trade) /\ curve' = [curve EXCEPT ![N] = equity']
    BY <1>3 DEF EngineEnd
  <2> HIDE DEF trade
  <2>4. equity' \in Int /\ trades' \in Seq(Trades)
    BY <2>2, <2>3 DEF TypeOK
  <2>5. curve' \in Seq(Int)
    <3>1. PICK n \in Nat : curve \in [1..n -> Int]
      BY DEF TypeOK
    <3>2. [curve EXCEPT ![N] = equity'] \in [1..n -> Int]
      BY <2>4, <3>1
    <3> QED
      BY <2>3, <3>1, <3>2
  <2> QED
    BY <2>4, <2>5 DEF EngineEnd, TypeOK, Stages, input, verifier, Index
<1> QED
  BY <1>2, <1>3

LEMMA EndsTypes ==
    ASSUME NEW signal, NEW entry \in Index
    PROVE  /\ Ends(signal, entry) \subseteq entry + 1..N
           /\ Ends(signal, entry) # {} => /\ Min(Ends(signal, entry)) \in Ends(signal, entry)
                                          /\ \A i \in Ends(signal, entry) : Min(Ends(signal, entry)) <= i
           /\ ScanForExit(signal, entry).bar \in entry..N
<1>1. Ends(signal, entry) \subseteq entry + 1..N
  BY DEF Ends
<1>2. entry \in Nat /\ N \in Nat /\ entry <= N
  BY ConstantTypes DEF Index
<1>3. ASSUME Ends(signal, entry) # {}
      PROVE  /\ Min(Ends(signal, entry)) \in Ends(signal, entry)
             /\ \A i \in Ends(signal, entry) : Min(Ends(signal, entry)) <= i
  <2>1. Ends(signal, entry) \in SUBSET Nat
    BY <1>1, <1>2
  <2> QED
    BY <1>3, <2>1, MinIsLeast
<1>4. ScanForExit(signal, entry).bar \in entry..N
  <2>1. CASE Ends(signal, entry) = {}
    BY <1>2, <2>1 DEF ScanForExit
  <2>2. CASE Ends(signal, entry) # {}
    <3>1. ScanForExit(signal, entry).bar = Min(Ends(signal, entry))
      BY <2>2 DEF ScanForExit
    <3> QED
      BY <1>1, <1>2, <1>3, <2>2, <3>1
  <2> QED
    BY <2>1, <2>2
<1> QED
  BY <1>1, <1>3, <1>4

LEMMA ScannedPriceIsNat ==
    ASSUME TypeOK, NEW signal \in Signals, NEW entry \in Index
    PROVE  ScanForExit(signal, entry).price \in Nat
<1>1. CASE Ends(signal, entry) = {}
  <2>1. N \in Index
    BY ConstantTypes DEF Index
  <2>2. 100 * bars[N].close \in Nat
    BY <2>1, BarTypes
  <2> QED
    BY <1>1, <2>2 DEF ScanForExit
<1>2. CASE Ends(signal, entry) # {}
  <2> DEFINE i == Min(Ends(signal, entry))
  <2>1. i \in Index
    BY <1>2, EndsTypes, ConstantTypes DEF Index
  <2>2. FillPrice(bars[i].close, signal.side, FALSE) \in Nat
    BY <2>1, BarTypes, PriceIsNat
  <2>3. signal.stop \in Nat /\ signal.target \in Nat
    BY DEF Signals
  <2>4. ScanForExit(signal, entry).price
          = IF Stopped(signal, i) THEN signal.stop
            ELSE IF Targeted(signal, i) THEN signal.target
            ELSE FillPrice(bars[i].close, signal.side, FALSE)
    BY <1>2 DEF ScanForExit
  <2> QED
    BY <2>2, <2>3, <2>4
<1> QED
  BY <1>1, <1>2

LEMMA VerifierStepTypes ==
    ASSUME TypeOK, VerifierStep
    PROVE  TypeOK'
<1> DEFINE signal == LastAt(cursor)
           entry == FillPrice(bars[cursor + 1].open, signal.side, TRUE)
           request == Sized(signal, entry, balance)
           exit == ScanForExit(signal, cursor + 1)
           quantity == Quantity(request)
           earned == Gross(signal.side, quantity, entry, exit.price)
                       - Fee(quantity * entry) - Fee(exit.price * quantity)
<1>1. cursor \in Index /\ cursor + 1 \in Index
  BY ConstantTypes DEF VerifierStep, TypeOK, Index
<1>2. CASE signal = None \/ ~Accepted(request)
  <2>1. cursor' = cursor + 1 /\ UNCHANGED <<found, balance>>
    BY <1>2 DEF VerifierStep, AfterRefusal
  <2> QED
    BY <1>1, <2>1 DEF VerifierStep, TypeOK, Stages, input, engine, Index
<1>3. CASE ~(signal = None \/ ~Accepted(request))
  <2>1. signal \in Signals
    BY <1>1, <1>3, FirstTypes
  <2>2. /\ cursor' = exit.bar
        /\ found' = Append(found, <<cursor + 1, exit.bar>>)
        /\ balance' = balance + Gross(signal.side, quantity, entry, exit.price)
                               - Fee(quantity * entry) - Fee(exit.price * quantity)
    BY <1>3 DEF VerifierStep, AfterExit
  <2>3. exit.bar \in Index
    BY <1>1, EndsTypes, ConstantTypes DEF Index
  <2>4. exit.price \in Nat
    BY <1>1, <2>1, ScannedPriceIsNat
  <2>5. entry \in Nat
    BY <1>1, BarTypes, PriceIsNat
  <2>6. balance \in Int
    BY DEF TypeOK
  <2>7. quantity \in Nat
    <3> HIDE DEF entry, signal
    <3> QED
      BY <1>3, <2>1, <2>5, <2>6, SizedTypes
  <2> HIDE DEF exit, entry, quantity, signal
  <2>8. quantity * entry \in Nat /\ exit.price * quantity \in Nat
    BY <2>4, <2>5, <2>7, ProductIsNat
  <2>9. /\ Gross(signal.side, quantity, entry, exit.price) \in Int
        /\ Fee(quantity * entry) \in Nat /\ Fee(exit.price * quantity) \in Nat
    BY <2>4, <2>5, <2>7, <2>8, GrossIsInt, FeeIsNat
  <2>10. balance' \in Int
    BY <2>2, <2>6, <2>9
  <2>11. found' \in Seq(Index \X Index) /\ cursor' \in Index
    BY <1>1, <2>2, <2>3 DEF TypeOK
  <2> QED
    BY <2>10, <2>11 DEF VerifierStep, TypeOK, Stages, input, engine, Index
<1> QED
  BY <1>2, <1>3

LEMMA TypeStep == TypeOK /\ [Next]_vars => TypeOK'
<1> SUFFICES ASSUME TypeOK, [Next]_vars  PROVE TypeOK'
  OBVIOUS
<1>1. CASE VerifierEnd
  BY <1>1 DEF VerifierEnd, TypeOK, Stages, input, engine, verifier, Index
<1>2. CASE Compare
  BY <1>2 DEF Compare, TypeOK, Stages, input, engine, verifier, Index
<1>3. CASE Select
  <2>1. outcome' \in {"VERIFIED", "REJECTED"}
    BY <1>3 DEF Select
  <2> QED
    BY <1>3, <2>1 DEF Select, TypeOK, Stages, input, engine, verifier, Index
<1>4. CASE UNCHANGED vars
  BY <1>4 DEF TypeOK, vars, input, engine, verifier, Index
<1> QED
  BY <1>1, <1>2, <1>3, <1>4, LiveTickTypes, EvaluateAllTypes, EngineBarTypes, EngineEndTypes, VerifierStepTypes
     DEF Next, Engine, Verifier

LEMMA InitTypes == Init => TypeOK
<1>1. N \in Nat /\ N > 1 /\ StartEquity \in Int
  BY ConstantTypes
<1> QED
  BY <1>1 DEF Init, TypeOK, Stages, Index

\* Whatever the candles and the rules, every value of the replay has its type:
\* a filled position has a quantity of at least one step, a trade whole fees
\* and bars of the sample (engine.run_backtest, vector_engine.run_verifier).
THEOREM ReplayTypeCorrect == Spec => []TypeOK
BY InitTypes, TypeStep, PTL DEF Spec

-----------------------------------------------------------------------------
(* What the engine has done up to a bar. Each trade is determined by the   *)
(* input, the equity before it and how it ended; in between, and since     *)
(* the last one, no entry that was possible was left out.                  *)

\* The signal before bar e is taken at the open of e with money m.
Taken(e, m) ==
    /\ FirstAt(e - 1) # None
    /\ Accepted(Sized(FirstAt(e - 1), FillPrice(bars[e].open, FirstAt(e - 1).side, TRUE), m))

\* The position it becomes.
Bought(e, m) ==
    LET signal == FirstAt(e - 1)
        price == FillPrice(bars[e].open, signal.side, TRUE)
        quantity == Quantity(Sized(signal, price, m))
    IN [entry |-> e, signal |-> signal, price |-> price, quantity |-> quantity, fee |-> Fee(quantity * price)]

\* The net results of the trades ts, and the equity that the first k of them leave.
Nets(ts) == [j \in DOMAIN ts |-> Net(ts[j])]
Worth(ts, k) == StartEquity + Total(Nets(ts), k)

\* After k trades, the last bar at which there can be no entry.
After(ts, k) == IF k = 0 THEN 1 ELSE ts[k].exit

\* After k of the trades the next entry possible is the one at e.
Waited(ts, k, e) == After(ts, k) < e /\ \A d \in After(ts, k) + 1..e - 1 : ~Taken(d, Worth(ts, k))

\* A trade of a signal, entered at e, ends at bar i, at the first that ends it.
EndsAt(signal, e, i, reason) ==
    IF reason = "END_OF_DATA" THEN i = N /\ Ends(signal, e) = {}
    ELSE /\ i \in Ends(signal, e) /\ \A j \in Ends(signal, e) : i <= j
         /\ reason = IF Stopped(signal, i) THEN "STOP" ELSE IF Targeted(signal, i) THEN "TARGET" ELSE "TIME"

\* The k-th of the trades.
Fits(ts, k) ==
    LET t == ts[k]  money == Worth(ts, k - 1) IN
    /\ t.entry \in 2..N /\ Waited(ts, k - 1, t.entry) /\ Taken(t.entry, money)
    /\ t = Closed(Bought(t.entry, money), t.exit, t.reason)
    /\ EndsAt(FirstAt(t.entry - 1), t.entry, t.exit, t.reason)

Bars == <<bars, spec, signals>>

LEMMA InputKept ==
    ASSUME UNCHANGED Bars
    PROVE  /\ \A i : FirstAt(i)' = FirstAt(i) /\ LastAt(i)' = LastAt(i)
           /\ \A e, m : (Taken(e, m)' <=> Taken(e, m)) /\ Bought(e, m)' = Bought(e, m)
           /\ \A signal, i : (Stopped(signal, i)' <=> Stopped(signal, i)) /\ (Targeted(signal, i)' <=> Targeted(signal, i))
           /\ \A signal, e : Ends(signal, e)' = Ends(signal, e)
           /\ \A ts, k : Fits(ts, k)' <=> Fits(ts, k)
<1> USE DEF Bars
<1>1. \A i : FirstAt(i)' = FirstAt(i) /\ LastAt(i)' = LastAt(i)
  BY DEF FirstAt, LastAt
<1>2. \A e, m : (Taken(e, m)' <=> Taken(e, m)) /\ Bought(e, m)' = Bought(e, m)
  BY <1>1 DEF Taken, Bought
<1>3. \A signal, i : (Stopped(signal, i)' <=> Stopped(signal, i)) /\ (Targeted(signal, i)' <=> Targeted(signal, i))
  BY DEF Stopped, Targeted
<1>4. \A signal, e : Ends(signal, e)' = Ends(signal, e)
  BY <1>3 DEF Ends
<1>5. \A signal, e, i, reason : EndsAt(signal, e, i, reason)' <=> EndsAt(signal, e, i, reason)
  BY <1>3, <1>4 DEF EndsAt
<1>6. \A p, i, reason : Closed(p, i, reason)' = Closed(p, i, reason)
  BY DEF Closed
<1>7. \A ts, k, e : Waited(ts, k, e)' <=> Waited(ts, k, e)
  BY <1>2 DEF Waited
<1>8. \A ts, k : Fits(ts, k)' <=> Fits(ts, k)
  BY <1>1, <1>2, <1>5, <1>6, <1>7 DEF Fits
<1> QED
  BY <1>1, <1>2, <1>3, <1>4, <1>8

LEMMA WorthTypes ==
    ASSUME NEW ts \in Seq(Trades), NEW k \in 0..Len(ts)
    PROVE  /\ Worth(ts, k) \in Int
           /\ \A j \in 1..Len(ts) : Nets(ts)[j] \in Int
<1>1. \A j \in 1..Len(ts) : Nets(ts)[j] \in Int
  <2>1. \A t \in Trades : Net(t) \in Int
    BY DEF Trades, Net
  <2>2. \A j \in 1..Len(ts) : ts[j] \in Trades
    OBVIOUS
  <2> QED
    BY <2>1, <2>2 DEF Nets
<1>2. k \in Nat /\ \A j \in 1..k : Nets(ts)[j] \in Int
  BY <1>1
<1>3. Total(Nets(ts), k) \in Int
  BY <1>2, TotalIsInt
<1> QED
  BY <1>1, <1>3, ConstantTypes DEF Worth

\* A trade more changes nothing of the ones before it.
LEMMA OneTradeMore ==
    ASSUME NEW ts \in Seq(Trades), NEW t \in Trades, NEW more, more = Append(ts, t)
    PROVE  /\ more \in Seq(Trades) /\ Len(more) = Len(ts) + 1 /\ more[Len(ts) + 1] = t
           /\ \A k \in 1..Len(ts) : more[k] = ts[k]
           /\ \A k \in 0..Len(ts) : Worth(more, k) = Worth(ts, k) /\ After(more, k) = After(ts, k)
           /\ Worth(more, Len(ts) + 1) = Worth(ts, Len(ts)) + Net(t)
<1>1. /\ more \in Seq(Trades) /\ Len(more) = Len(ts) + 1 /\ more[Len(ts) + 1] = t
      /\ \A k \in 1..Len(ts) : more[k] = ts[k]
  OBVIOUS
<1>2. ASSUME NEW k \in 0..Len(ts)  PROVE Worth(more, k) = Worth(ts, k) /\ After(more, k) = After(ts, k)
  <2>1. k \in Nat /\ \A j \in 1..k : Nets(ts)[j] \in Int /\ Nets(more)[j] = Nets(ts)[j]
    <3>1. \A j \in 1..k : j \in 1..Len(ts) /\ j \in 1..Len(more) /\ more[j] = ts[j]
      BY <1>1
    <3> QED
      BY <3>1, WorthTypes DEF Nets
  <2>2. Total(Nets(more), k) = Total(Nets(ts), k)
    BY <2>1, TotalAgrees
  <2>3. After(more, k) = After(ts, k)
    BY <1>1 DEF After
  <2> QED
    BY <2>2, <2>3 DEF Worth
<1>3. Worth(more, Len(ts) + 1) = Worth(ts, Len(ts)) + Net(t)
  <2> DEFINE n == Len(ts)
  <2>1. n \in Nat /\ n \in 0..Len(ts) /\ n + 1 = Len(more) /\ n + 1 \in 0..Len(more) /\ n + 1 \in DOMAIN more
    BY <1>1
  <2>2. \A j \in 1..n + 1 : Nets(more)[j] \in Int
    BY <1>1, <2>1, WorthTypes
  <2>3. Total(Nets(more), n + 1) = Total(Nets(more), n) + Nets(more)[n + 1]
    BY <2>1, <2>2, TotalOfMore
  <2>4. Nets(more)[n + 1] = Net(t)
    BY <1>1, <2>1 DEF Nets
  <2>5. Worth(more, n) = Worth(ts, n) /\ Worth(more, n) \in Int
    BY <1>1, <1>2, <2>1, WorthTypes
  <2>6. Total(Nets(more), n) \in Int /\ Net(t) \in Int /\ StartEquity \in Int
    <3>1. \A j \in 1..n : Nets(more)[j] \in Int
      BY <2>2
    <3> QED
      BY <2>1, <2>2, <2>4, <3>1, TotalIsInt, ConstantTypes
  <2> HIDE DEF n
  <2>7. Worth(more, n + 1) = Worth(ts, n) + Net(t)
    BY <2>3, <2>4, <2>5, <2>6 DEF Worth
  <2> QED
    BY <2>7 DEF n
<1> QED
  BY <1>1, <1>2, <1>3

LEMMA FitsKept ==
    ASSUME NEW ts \in Seq(Trades), NEW t \in Trades, NEW more, more = Append(ts, t),
           NEW k \in 1..Len(ts), Fits(ts, k)
    PROVE  Fits(more, k)
<1>1. k \in 1..Len(ts) /\ k - 1 \in 0..Len(ts) /\ more = Append(ts, t)
  OBVIOUS
<1>2. \A j \in 1..Len(ts) : more[j] = ts[j]
  BY <1>1, OneTradeMore
<1>3. \A j \in 0..Len(ts) : Worth(more, j) = Worth(ts, j) /\ After(more, j) = After(ts, j)
  BY <1>1, OneTradeMore
<1>4. more[k] = ts[k] /\ Worth(more, k - 1) = Worth(ts, k - 1) /\ After(more, k - 1) = After(ts, k - 1)
  BY <1>1, <1>2, <1>3
<1> QED
  BY <1>4 DEF Fits, Waited

\* Nothing is open: the signal of the last bar waits for the next, no entry was possible.
Waiting ==
    /\ position = None
    /\ pending = IF index = 1 THEN None ELSE FirstAt(index - 1)
    /\ equity = Worth(trades, Len(trades))
    /\ \A e \in After(trades, Len(trades)) + 1..index - 1 : ~Taken(e, equity)

\* A position is open: it was entered at the first bar possible, and no bar has ended it.
Holding ==
    LET n == Len(trades)  e == position.entry IN
    /\ position # None /\ pending = None /\ e \in 2..index - 1
    /\ Waited(trades, n, e) /\ Taken(e, Worth(trades, n))
    /\ position = Bought(e, Worth(trades, n)) /\ equity = Worth(trades, n) - position.fee
    /\ \A i \in 1..index - 1 : i \notin Ends(position.signal, e)

Replaying ==
    /\ \A k \in 1..Len(trades) : trades[k].reason # "END_OF_DATA" /\ trades[k].exit < index
    /\ Len(curve) = index - 1 /\ (index > 1 => curve[index - 1] = equity)
    /\ Waiting \/ Holding

Ended ==
    LET n == Len(trades) IN
    /\ index = N + 1 /\ Len(curve) = N /\ curve[N] = equity /\ equity = Worth(trades, n)
    /\ \A e \in After(trades, n) + 1..N : ~Taken(e, equity)

EngineInv ==
    /\ \A k \in 1..Len(trades) : Fits(trades, k) /\ (trades[k].reason = "END_OF_DATA" => k = Len(trades))
    /\ pc = "live" => trades = <<>> /\ index = 1 /\ position = None
    /\ IF pc \in {"live", "engine"} THEN Replaying ELSE Ended

LEMMA BoughtTypes ==
    ASSUME TypeOK, NEW e \in 2..N, NEW m \in Int, Taken(e, m)
    PROVE  /\ Bought(e, m) \in Positions /\ Bought(e, m) # None
           /\ Bought(e, m).entry = e /\ Bought(e, m).signal = FirstAt(e - 1)
           /\ FirstAt(e - 1) \in Signals
<1> DEFINE signal == FirstAt(e - 1)
           price == FillPrice(bars[e].open, signal.side, TRUE)
           request == Sized(signal, price, m)
           q == Quantity(request)
<1>1. e \in Index /\ e - 1 \in Index
  BY ConstantTypes DEF Index
<1>2. signal \in Signals /\ Accepted(request)
  BY <1>1, FirstTypes DEF Taken
<1>3. price \in Nat
  <2>1. bars[e].open \in Nat
    BY <1>1, BarTypes
  <2> QED
    BY <2>1, PriceIsNat
<1> HIDE DEF signal, price
<1>4. q \in Nat \ {0}
  BY <1>2, <1>3, SizedTypes
<1> HIDE DEF request, q
<1>5. Fee(q * price) \in Nat
  <2>1. q * price \in Nat
    BY <1>3, <1>4, ProductIsNat
  <2> QED
    BY <2>1, FeeIsNat
<1>6. Bought(e, m) = [entry |-> e, signal |-> signal, price |-> price, quantity |-> q, fee |-> Fee(q * price)]
  BY DEF Bought, signal, price, request, q
<1>7. Bought(e, m) \in Positions
  BY <1>1, <1>2, <1>3, <1>4, <1>5, <1>6 DEF Positions
<1> QED
  BY <1>2, <1>6, <1>7, ConstantTypes DEF signal

LEMMA OpenedIs ==
    ASSUME TypeOK, index \in 2..N, position = None, pending = FirstAt(index - 1)
    PROVE  Opened(index) = IF Taken(index, equity) THEN Bought(index, equity) ELSE None
BY DEF Opened, Taken, Bought

LEMMA ExitIs ==
    ASSUME TypeOK, NEW p \in Positions, NEW i \in Index, p.entry < i
    PROVE  /\ ExitReason(p, i) = "NONE" <=> i \notin Ends(p.signal, p.entry)
           /\ i \in Ends(p.signal, p.entry) =>
                 /\ ExitReason(p, i) \in {"STOP", "TARGET", "TIME"}
                 /\ ExitReason(p, i) = IF Stopped(p.signal, i) THEN "STOP"
                                       ELSE IF Targeted(p.signal, i) THEN "TARGET" ELSE "TIME"
<1>1. p.entry \in Nat /\ i \in p.entry + 1..N /\ i # p.entry
  BY ConstantTypes DEF Positions, Index
<1> QED
  BY <1>1 DEF ExitReason, Ends

LEMMA TradeFits ==
    ASSUME TypeOK, Holding, NEW i \in Index, NEW reason \in {"STOP", "TARGET", "TIME", "END_OF_DATA"},
           EndsAt(position.signal, position.entry, i, reason)
    PROVE  LET t == Closed(position, i, reason) IN
           /\ t \in Trades /\ t.exit = i /\ t.reason = reason
           /\ Fits(Append(trades, t), Len(trades) + 1)
           /\ Worth(Append(trades, t), Len(trades) + 1) = equity + Charged(t)
<1> DEFINE n == Len(trades)  e == position.entry  money == Worth(trades, n)
           t == Closed(position, i, reason)  more == Append(trades, t)
<1>1. /\ trades \in Seq(Trades) /\ n \in Nat /\ n \in 0..Len(trades) /\ money \in Int /\ n + 1 - 1 = n
  <2>1. trades \in Seq(Trades) /\ n \in Nat /\ n \in 0..Len(trades)
    BY DEF TypeOK
  <2> QED
    BY <2>1, WorthTypes
<1>2. e \in 2..N /\ Taken(e, money) /\ Waited(trades, n, e) /\ position = Bought(e, money) /\ equity = money - position.fee
  BY ConstantTypes DEF Holding, TypeOK
<1>3. position \in Positions /\ position.signal = FirstAt(e - 1)
  BY <1>1, <1>2, BoughtTypes
<1>4. t \in Trades /\ Net(t) \in Int /\ Charged(t) \in Int
  BY <1>3, ClosedTypes
<1>5. t.exit = i /\ t.reason = reason /\ t.entry = e /\ t.entryFee = position.fee
  BY DEF Closed
<1> HIDE DEF t
<1>6. /\ more[n + 1] = t /\ Worth(more, n) = money /\ After(more, n) = After(trades, n)
      /\ Worth(more, n + 1) = money + Net(t)
  <2>1. more = Append(trades, t)
    OBVIOUS
  <2>2. more[n + 1] = t
    BY <1>1, <1>4, <2>1, OneTradeMore
  <2>3. \A j \in 0..Len(trades) : Worth(more, j) = Worth(trades, j) /\ After(more, j) = After(trades, j)
    BY <1>1, <1>4, <2>1, OneTradeMore
  <2>4. Worth(more, n + 1) = money + Net(t)
    BY <1>1, <1>4, <2>1, OneTradeMore
  <2> QED
    BY <1>1, <2>2, <2>3, <2>4
<1> HIDE DEF n, money, more
<1>7. Waited(more, n, e)
  BY <1>2, <1>6 DEF Waited, money
<1>8. Fits(more, n + 1)
  BY <1>1, <1>2, <1>3, <1>5, <1>6, <1>7 DEF Fits, t
<1>9. Worth(more, n + 1) = equity + Charged(t)
  <2>1. t.gross \in Int /\ t.entryFee \in Int /\ t.exitFee \in Int /\ Net(t) = t.gross - t.entryFee - t.exitFee
        /\ Charged(t) = t.gross - t.exitFee
    BY <1>4 DEF Net, Charged, Trades
  <2> QED
    BY <1>1, <1>2, <1>5, <1>6, <2>1
<1> QED
  BY <1>4, <1>5, <1>8, <1>9 DEF n, more, t

LEMMA LongerCurve ==
    ASSUME NEW c \in Seq(Int), NEW x \in Int, NEW d, d = Append(c, x), NEW n \in Int, Len(c) = n - 1
    PROVE  Len(d) = n /\ d[n] = x
<1>1. Append(c, x)[Len(c) + 1] = x
  OBVIOUS
<1> QED
  BY <1>1

\* The engine at a bar: nothing happens, a signal is taken, a position goes on, or it ends.
LEMMA EngineBarKeeps ==
    ASSUME TypeOK, EngineInv, EngineBar, TypeOK'
    PROVE  EngineInv'
<1> DEFINE p == Opened(index)
           paid == IF p # None /\ position = None THEN equity - p.fee ELSE equity
           reason == IF p = None THEN "NONE" ELSE ExitReason(p, index)
           trade == Closed(p, index, reason)
           n == Len(trades)
<1>1. /\ pc = "engine" /\ pc' = "engine" /\ index \in Index /\ index' = index + 1 /\ UNCHANGED Bars
      /\ equity' = (IF reason = "NONE" THEN paid ELSE paid + Charged(trade))
      /\ trades' = (IF reason = "NONE" THEN trades ELSE Append(trades, trade))
      /\ position' = (IF reason = "NONE" THEN p ELSE None)
      /\ pending' = (IF position' = None THEN FirstAt(index) ELSE None)
      /\ curve' = Append(curve, equity')
  <2>1. pc = "engine" /\ index \in 1..N + 1 /\ index <= N /\ N \in Nat
    BY ConstantTypes DEF EngineBar, TypeOK
  <2>2. index \in Index
    BY <2>1 DEF Index
  <2> QED
    BY <2>1, <2>2 DEF EngineBar, Bars, input
<1>2. /\ trades \in Seq(Trades) /\ n \in Nat /\ n \in 0..Len(trades) /\ equity \in Int /\ curve \in Seq(Int)
      /\ index \in Nat /\ index >= 1 /\ index <= N /\ N \in Nat
  BY <1>1, ConstantTypes DEF TypeOK, Index
<1>3. Replaying /\ \A k \in 1..n : Fits(trades, k) /\ trades[k].reason # "END_OF_DATA" /\ trades[k].exit < index
  BY <1>1 DEF EngineInv, Replaying
<1>4. \A k \in 1..n : trades[k].exit \in Nat /\ trades[k].exit >= 1
  <2>1. \A k \in 1..n : trades[k] \in Trades
    BY <1>2
  <2>2. \A t \in Trades : t.exit \in Nat /\ t.exit >= 1
    BY ConstantTypes DEF Trades, Index
  <2> QED
    BY <2>1, <2>2
<1>5. Len(curve') = index' - 1 /\ curve'[index' - 1] = equity'
  <2>1. equity' \in Int /\ Len(curve) = index - 1
    BY <1>3 DEF TypeOK, Replaying
  <2>2. Len(curve') = index /\ curve'[index] = equity'
    BY <1>1, <1>2, <2>1, LongerCurve
  <2> QED
    BY <1>1, <1>2, <2>2
<1>6. /\ \A k : FirstAt(k)' = FirstAt(k)
      /\ \A e, m : (Taken(e, m)' <=> Taken(e, m)) /\ Bought(e, m)' = Bought(e, m)
      /\ \A signal, e : Ends(signal, e)' = Ends(signal, e)
      /\ \A ts, k : Fits(ts, k)' <=> Fits(ts, k)
      /\ \A ts, k, e : Waited(ts, k, e)' <=> Waited(ts, k, e)
  <2>1. UNCHANGED Bars
    BY <1>1
  <2> QED
    BY <2>1, InputKept DEF Waited
<1>7. ASSUME trades' = trades, Waiting' \/ Holding'
      PROVE  EngineInv'
  <2>1. \A k \in 1..n : Fits(trades, k)'
    BY <1>3, <1>6, <1>7
  <2>2. \A k \in 1..n : trades'[k].reason # "END_OF_DATA" /\ trades'[k].exit < index'
    BY <1>1, <1>2, <1>3, <1>4, <1>7
  <2>3. Len(trades') = n
    BY <1>7
  <2> QED
    BY <1>1, <1>5, <1>7, <2>1, <2>2, <2>3 DEF EngineInv, Replaying
<1>8. CASE position = None /\ p = None
  <2>1. Waiting
    BY <1>3, <1>8 DEF Replaying, Holding
  <2>2. trades' = trades /\ equity' = equity /\ position' = None /\ pending' = FirstAt(index)
    BY <1>1, <1>8
  <2>3. \A e \in After(trades, n) + 1..index : ~Taken(e, equity)
    <3>1. CASE index = 1
      <4>1. After(trades, n) \in Nat /\ After(trades, n) >= 1
        BY <1>2, <1>4 DEF After
      <4> QED
        BY <3>1, <4>1
    <3>2. CASE index # 1
      <4>1. index \in 2..N /\ pending = FirstAt(index - 1)
        BY <1>2, <2>1, <3>2 DEF Waiting
      <4>2. ~Taken(index, equity)
        <5>1. p = IF Taken(index, equity) THEN Bought(index, equity) ELSE None
          BY <1>8, <4>1, OpenedIs
        <5>2. Taken(index, equity) => Bought(index, equity) # None
          BY <1>2, <4>1, BoughtTypes
        <5> QED
          BY <1>8, <5>1, <5>2
      <4>3. After(trades, n) \in Int
        BY <1>2, <1>4 DEF After
      <4>4. ASSUME NEW e \in After(trades, n) + 1..index, e # index  PROVE ~Taken(e, equity)
        <5>1. e \in After(trades, n) + 1..index - 1
          BY <1>2, <4>3, <4>4
        <5> QED
          BY <2>1, <5>1 DEF Waiting
      <4> QED
        BY <4>2, <4>4
    <3> QED
      BY <3>1, <3>2
  <2>4. Waiting'
    <3>1. index' - 1 = index /\ index' # 1
      BY <1>1, <1>2
    <3>2. Worth(trades, Len(trades))' = Worth(trades, n) /\ After(trades, Len(trades))' = After(trades, n)
      BY <2>2 DEF Worth, After, Nets
    <3>3. FirstAt(index - 1)' = FirstAt(index)
      BY <1>1, <3>1 DEF FirstAt, Bars
    <3> QED
      BY <1>6, <2>1, <2>2, <2>3, <3>1, <3>2, <3>3 DEF Waiting
  <2> QED
    BY <1>7, <2>2, <2>4
<1>9. CASE position = None /\ p # None
  <2>1. Waiting
    BY <1>3, <1>9 DEF Replaying, Holding
  <2>2. pending # None
    BY <1>9 DEF Opened
  <2>3. index \in 2..N /\ pending = FirstAt(index - 1)
    BY <1>2, <2>1, <2>2 DEF Waiting
  <2>4. p = (IF Taken(index, equity) THEN Bought(index, equity) ELSE None)
    BY <1>9, <2>3, OpenedIs
  <2>5. Taken(index, equity) /\ p = Bought(index, equity)
    BY <1>9, <2>4
  <2>6. p \in Positions /\ p.entry = index
    BY <1>2, <2>3, <2>5, BoughtTypes
  <2> HIDE DEF p
  <2>7. reason = "NONE"
    BY <2>6, <1>9 DEF ExitReason
  <2>8. trades' = trades /\ equity' = equity - p.fee /\ position' = p /\ pending' = None
    BY <1>1, <1>9, <2>7
  <2>9. Waited(trades, n, index)
    <3>1. After(trades, n) < index
      BY <1>2, <1>3, <2>3 DEF After
    <3> QED
      BY <2>1, <3>1 DEF Waited, Waiting
  <2>10. Holding'
    <3>1. Worth(trades, Len(trades))' = Worth(trades, n) /\ equity = Worth(trades, n)
      BY <2>1, <2>8 DEF Worth, Nets, Waiting
    <3>2. position'.entry = index /\ position'.entry \in 2..index' - 1
      BY <1>1, <1>2, <2>3, <2>6, <2>8
    <3>3. \A i \in 1..index' - 1 : i \notin Ends(position.signal, position.entry)'
      <4>1. Ends(position.signal, position.entry)' = Ends(p.signal, index)
        BY <1>6, <2>8, <3>2
      <4>2. Ends(p.signal, index) \subseteq index + 1..N
        BY <1>1, EndsTypes
      <4> QED
        BY <1>1, <1>2, <4>1, <4>2
    <3>4. Waited(trades, Len(trades), position.entry)' /\ Taken(position.entry, Worth(trades, Len(trades)))'
          /\ Bought(position.entry, Worth(trades, Len(trades)))' = p
      BY <1>6, <2>5, <2>8, <2>9, <3>1, <3>2
    <3> QED
      BY <1>9, <2>8, <3>1, <3>2, <3>3, <3>4 DEF Holding
  <2> QED
    BY <1>7, <2>8, <2>10
<1>10. ASSUME position # None
       PROVE  /\ p = position /\ paid = equity /\ position \in Positions /\ Holding
              /\ position.entry \in Index /\ position.entry < index
              /\ position.entry \in 2..index - 1
  <2>1. p = position /\ paid = equity /\ position \in Positions
    BY <1>10 DEF Opened, TypeOK
  <2>2. Holding
    BY <1>3, <1>10 DEF Replaying, Waiting
  <2> QED
    BY <1>2, <2>1, <2>2 DEF Holding, Positions
<1>11. CASE position # None /\ index \notin Ends(position.signal, position.entry)
  <2>1. reason = "NONE"
    BY <1>1, <1>10, <1>11, ExitIs
  <2>2. trades' = trades /\ equity' = equity /\ position' = position /\ pending' = None
    BY <1>1, <1>10, <1>11, <2>1
  <2>3. Worth(trades, Len(trades))' = Worth(trades, n)
    BY <2>2 DEF Worth, Nets
  <2>4. position'.entry = position.entry /\ position'.entry \in 2..index' - 1
    BY <1>1, <1>2, <1>10, <1>11, <2>2
  <2>5. \A i \in 1..index' - 1 : i \notin Ends(position.signal, position.entry)'
    <3>1. Ends(position.signal, position.entry)' = Ends(position.signal, position.entry)
      BY <1>6, <2>2
    <3>2. \A i \in 1..index - 1 : i \notin Ends(position.signal, position.entry)
      BY <1>10, <1>11 DEF Holding
    <3> QED
      BY <1>1, <1>2, <1>11, <3>1, <3>2
  <2>6. Waited(trades, Len(trades), position.entry)' /\ Taken(position.entry, Worth(trades, Len(trades)))'
        /\ Bought(position.entry, Worth(trades, Len(trades)))' = Bought(position.entry, Worth(trades, n))
    BY <1>6, <1>10, <1>11, <2>2, <2>3 DEF Holding
  <2>7. position = Bought(position.entry, Worth(trades, n)) /\ equity = Worth(trades, n) - position.fee
    BY <1>10, <1>11 DEF Holding
  <2>8. Holding'
    BY <1>11, <2>2, <2>3, <2>4, <2>5, <2>6, <2>7 DEF Holding
  <2> QED
    BY <1>7, <2>2, <2>8
<1>12. CASE position # None /\ index \in Ends(position.signal, position.entry)
  <2>1. /\ reason \in {"STOP", "TARGET", "TIME"}
        /\ reason = IF Stopped(position.signal, index) THEN "STOP"
                    ELSE IF Targeted(position.signal, index) THEN "TARGET" ELSE "TIME"
    <3>1. p = position /\ position \in Positions /\ position.entry < index
      BY <1>10, <1>12
    <3>2. reason = ExitReason(position, index)
      BY <3>1, <1>12
    <3> QED
      BY <1>1, <1>12, <3>1, <3>2, ExitIs
  <2> HIDE DEF reason
  <2>2. trade = Closed(position, index, reason)
    BY <1>10, <1>12
  <2> HIDE DEF trade
  <2>3. /\ trades' = Append(trades, trade) /\ equity' = equity + Charged(trade)
        /\ position' = None /\ pending' = FirstAt(index)
    BY <1>1, <1>10, <1>12, <2>1
  <2>4. EndsAt(position.signal, position.entry, index, reason)
    <3>1. Ends(position.signal, position.entry) \subseteq position.entry + 1..N
      BY <1>10, <1>12, EndsTypes
    <3>2. \A i \in 1..index - 1 : i \notin Ends(position.signal, position.entry)
      BY <1>10, <1>12 DEF Holding
    <3>3. \A j \in Ends(position.signal, position.entry) : index <= j
      BY <1>2, <1>10, <1>12, <3>1, <3>2
    <3> QED
      BY <1>12, <2>1, <3>3 DEF EndsAt
  <2>5. /\ trade \in Trades /\ Fits(trades', n + 1)
        /\ Worth(trades', n + 1) = equity + Charged(trade)
        /\ trade.exit = index /\ trade.reason = reason
    <3>1. Holding /\ reason \in {"STOP", "TARGET", "TIME", "END_OF_DATA"}
      BY <1>2, <1>10, <1>12, <2>1
    <3>2. LET t == Closed(position, index, reason) IN
          /\ t \in Trades /\ t.exit = index /\ t.reason = reason
          /\ Fits(Append(trades, t), n + 1)
          /\ Worth(Append(trades, t), n + 1) = equity + Charged(t)
      BY <1>1, <2>4, <3>1, TradeFits
    <3> QED
      BY <2>2, <2>3, <3>2
  <2>6. Len(trades') = n + 1 /\ trades'[n + 1] = trade /\ \A k \in 1..n : trades'[k] = trades[k]
    BY <1>2, <2>3, <2>5, OneTradeMore
  <2>7. \A k \in 1..n : Fits(trades', k)
    BY <1>2, <1>3, <2>3, <2>5, FitsKept
  <2>8. \A k \in 1..Len(trades') : Fits(trades, k)' /\ trades'[k].reason # "END_OF_DATA" /\ trades'[k].exit < index'
    <3>1. \A k \in 1..Len(trades') : k = n + 1 \/ k \in 1..n
      BY <1>2, <2>6
    <3>2. trades'[n + 1].reason # "END_OF_DATA" /\ trades'[n + 1].exit < index' /\ Fits(trades', n + 1)
      BY <1>1, <1>2, <2>1, <2>5, <2>6
    <3>3. \A k \in 1..n : Fits(trades', k) /\ trades'[k].reason # "END_OF_DATA" /\ trades'[k].exit < index'
      BY <1>1, <1>2, <1>3, <1>4, <2>6, <2>7
    <3>4. \A k \in 1..Len(trades') : Fits(trades', k) /\ trades'[k].reason # "END_OF_DATA" /\ trades'[k].exit < index'
      BY <3>1, <3>2, <3>3
    <3> QED
      BY <1>6, <3>4
  <2>9. Waiting'
    <3>1. Worth(trades, Len(trades))' = equity' /\ After(trades, Len(trades))' = index
      <4>1. Worth(trades, Len(trades))' = Worth(trades', Len(trades')) /\ After(trades, Len(trades))' = After(trades', Len(trades'))
        BY DEF Worth, Nets, After
      <4>2. After(trades', n + 1) = index
        BY <1>2, <2>5, <2>6 DEF After
      <4> QED
        BY <2>3, <2>5, <2>6, <4>1, <4>2
    <3>2. index' - 1 = index /\ index' # 1
      BY <1>1, <1>2
    <3>3. FirstAt(index - 1)' = FirstAt(index)
      BY <1>1, <3>2 DEF FirstAt, Bars
    <3>4. \A e \in After(trades, Len(trades))' + 1..index' - 1 : FALSE
      BY <1>2, <3>1, <3>2
    <3> QED
      BY <2>3, <3>1, <3>2, <3>3, <3>4 DEF Waiting
  <2> QED
    BY <1>1, <1>5, <2>8, <2>9 DEF EngineInv, Replaying
<1> QED
  BY <1>8, <1>9, <1>11, <1>12

\* The engine at the end of the data.
LEMMA EngineEndKeeps ==
    ASSUME TypeOK, EngineInv, EngineEnd
    PROVE  EngineInv'
<1> DEFINE n == Len(trades)
<1>1. /\ pc = "engine" /\ pc' = "verifier" /\ index = N + 1 /\ index' = index /\ UNCHANGED Bars
      /\ N \in Nat /\ N >= 2 /\ N \in Index
  <2>1. N \in Nat /\ N >= 2 /\ N \in Index
    BY ConstantTypes DEF Index
  <2> QED
    BY <2>1 DEF EngineEnd, TypeOK, Bars, input
<1>2. /\ trades \in Seq(Trades) /\ n \in Nat /\ n \in 0..Len(trades) /\ equity \in Int /\ curve \in Seq(Int)
  BY DEF TypeOK
<1>3. /\ Replaying /\ \A k \in 1..n : Fits(trades, k) /\ trades[k].reason # "END_OF_DATA"
      /\ Len(curve) = N /\ curve[N] = equity
  BY <1>1 DEF EngineInv, Replaying
<1>4. /\ \A e, m : (Taken(e, m)' <=> Taken(e, m))
      /\ \A ts, k : Fits(ts, k)' <=> Fits(ts, k)
  BY <1>1, InputKept
<1>5. CASE position = None
  <2>1. trades' = trades /\ equity' = equity /\ curve' = curve
    BY <1>5 DEF EngineEnd
  <2>2. Waiting
    BY <1>3, <1>5 DEF Replaying, Holding
  <2>3. Worth(trades, Len(trades))' = Worth(trades, n) /\ After(trades, Len(trades))' = After(trades, n)
    BY <2>1 DEF Worth, After, Nets
  <2>4. Ended'
    BY <1>1, <1>3, <1>4, <2>1, <2>2, <2>3 DEF Ended, Waiting
  <2>5. \A k \in 1..n : Fits(trades, k)'
    BY <1>3, <1>4, <2>1
  <2> QED
    BY <1>1, <1>3, <2>1, <2>4, <2>5 DEF EngineInv
<1>6. CASE position # None
  <2> DEFINE t == Closed(position, N, "END_OF_DATA")
  <2>1. trades' = Append(trades, t) /\ equity' = equity + Charged(t) /\ curve' = [curve EXCEPT ![N] = equity']
    BY <1>6 DEF EngineEnd
  <2>2. Holding /\ position \in Positions /\ position.entry \in Index
    BY <1>3, <1>6 DEF Replaying, Waiting, TypeOK, Positions
  <2>3. EndsAt(position.signal, position.entry, N, "END_OF_DATA")
    <3>1. Ends(position.signal, position.entry) \subseteq position.entry + 1..N
      BY <2>2, EndsTypes
    <3>2. \A i \in 1..N : i \notin Ends(position.signal, position.entry)
      BY <1>1, <2>2 DEF Holding
    <3>3. position.entry + 1..N \subseteq 1..N
      BY <1>1, <2>2 DEF Index
    <3> QED
      BY <3>1, <3>2, <3>3 DEF EndsAt
  <2>4. /\ t \in Trades /\ t.exit = N /\ Charged(t) \in Int
        /\ Fits(trades', n + 1) /\ Worth(trades', n + 1) = equity'
    <3>1. LET tt == Closed(position, N, "END_OF_DATA") IN
          /\ tt \in Trades /\ tt.exit = N
          /\ Fits(Append(trades, tt), n + 1)
          /\ Worth(Append(trades, tt), n + 1) = equity + Charged(tt)
      BY <1>1, <2>2, <2>3, TradeFits
    <3>2. Charged(t) \in Int
      BY <1>1, <2>2, ClosedTypes
    <3> QED
      BY <2>1, <3>1, <3>2
  <2> HIDE DEF t
  <2>5. Len(trades') = n + 1 /\ trades'[n + 1] = t /\ \A k \in 1..n : trades'[k] = trades[k]
    BY <1>2, <2>1, <2>4, OneTradeMore
  <2>6. \A k \in 1..n : Fits(trades', k)
    BY <1>2, <1>3, <2>1, <2>4, FitsKept
  <2>7. \A k \in 1..Len(trades') : Fits(trades, k)' /\ (trades'[k].reason = "END_OF_DATA" => k = Len(trades'))
    <3>1. \A k \in 1..Len(trades') : k = n + 1 \/ k \in 1..n
      BY <1>2, <2>5
    <3>2. \A k \in 1..n : Fits(trades', k) /\ trades'[k].reason # "END_OF_DATA"
      BY <1>3, <2>5, <2>6
    <3>3. \A k \in 1..Len(trades') : Fits(trades', k) /\ (trades'[k].reason = "END_OF_DATA" => k = Len(trades'))
      BY <2>4, <2>5, <3>1, <3>2
    <3> QED
      BY <1>4, <3>3
  <2>8. Len(curve') = N /\ curve'[N] = equity'
    BY <1>1, <1>2, <1>3, <2>1, <2>4
  <2>9. Ended'
    <3>1. Worth(trades, Len(trades))' = equity' /\ After(trades, Len(trades))' = N
      <4>1. /\ Worth(trades, Len(trades))' = Worth(trades', Len(trades'))
            /\ After(trades, Len(trades))' = After(trades', Len(trades'))
        BY DEF Worth, Nets, After
      <4>2. After(trades', n + 1) = N
        BY <1>2, <2>4, <2>5 DEF After
      <4> QED
        BY <2>4, <2>5, <4>1, <4>2
    <3>2. \A e \in After(trades, Len(trades))' + 1..N : FALSE
      BY <1>1, <3>1
    <3> QED
      BY <1>1, <2>8, <3>1, <3>2 DEF Ended
  <2> QED
    BY <1>1, <2>7, <2>9 DEF EngineInv
<1> QED
  BY <1>5, <1>6

LEMMA TotalOfNoTrade == Worth(<<>>, 0) = StartEquity
<1>1. Total(Nets(<<>>), 0) = 0
  BY TotalOfNone
<1> QED
  BY <1>1, ConstantTypes DEF Worth

\* Before the first bar.
Unstarted ==
    /\ trades = <<>> /\ index = 1 /\ position = None /\ pending = None /\ curve = <<>>
    /\ equity = StartEquity /\ pc \in {"live", "engine"}

LEMMA UnstartedIsSound == Unstarted => EngineInv
<1> SUFFICES ASSUME Unstarted PROVE EngineInv
  OBVIOUS
<1>1. Worth(trades, Len(trades)) = StartEquity /\ After(trades, Len(trades)) = 1
  BY TotalOfNoTrade DEF After, Unstarted
<1>2. Waiting
  BY <1>1 DEF Waiting, Unstarted
<1>3. Replaying
  BY <1>2 DEF Replaying, Unstarted
<1> QED
  BY <1>3 DEF EngineInv, Unstarted

\* Where the engine does not move and reads what it read, all that was so is so.
LEMMA EngineAtRest ==
    ASSUME EngineInv, UNCHANGED <<Bars, engine>>,
           pc' \in {"live", "engine"} <=> pc \in {"live", "engine"}, pc' = "live" => pc = "live"
    PROVE  EngineInv'
<1>1. UNCHANGED Bars /\ trades' = trades /\ index' = index /\ position' = position /\ pending' = pending
      /\ curve' = curve /\ equity' = equity
  BY DEF engine
<1>2. /\ \A k : FirstAt(k)' = FirstAt(k)
      /\ \A e, m : (Taken(e, m)' <=> Taken(e, m)) /\ Bought(e, m)' = Bought(e, m)
      /\ \A signal, e : Ends(signal, e)' = Ends(signal, e)
      /\ \A ts, k : Fits(ts, k)' <=> Fits(ts, k)
      /\ \A ts, k, e : Waited(ts, k, e)' <=> Waited(ts, k, e)
  BY <1>1, InputKept DEF Waited
<1>3. Worth(trades, Len(trades))' = Worth(trades, Len(trades)) /\ After(trades, Len(trades))' = After(trades, Len(trades))
  BY <1>1 DEF Worth, After, Nets
<1>4. FirstAt(index - 1)' = FirstAt(index - 1)
  BY <1>1 DEF FirstAt, Bars
<1>5. Waiting => Waiting'
  BY <1>1, <1>2, <1>3, <1>4 DEF Waiting
<1>6. Holding => Holding'
  BY <1>1, <1>2, <1>3 DEF Holding
<1>7. Replaying => Replaying'
  BY <1>1, <1>5, <1>6 DEF Replaying
<1>8. Ended => Ended'
  BY <1>1, <1>2, <1>3 DEF Ended
<1>9. \A k \in 1..Len(trades) : Fits(trades, k)' <=> Fits(trades, k)
  BY <1>1, <1>2
<1> QED
  BY <1>1, <1>7, <1>8, <1>9 DEF EngineInv

LEMMA EngineStep == TypeOK /\ EngineInv /\ [Next]_vars => EngineInv'
<1> SUFFICES ASSUME TypeOK, EngineInv, [Next]_vars  PROVE EngineInv'
  OBVIOUS
<1>1. TypeOK'
  BY TypeStep
<1>2. CASE EngineBar
  BY <1>1, <1>2, EngineBarKeeps
<1>3. CASE EngineEnd
  BY <1>3, EngineEndKeeps
<1>4. CASE EvaluateAll
  <2>1. pc = "live" /\ pc' = "engine" /\ UNCHANGED engine
    BY <1>4 DEF EvaluateAll
  <2>2. trades = <<>> /\ index = 1 /\ position = None /\ Waiting /\ curve = <<>>
    <3>1. trades = <<>> /\ index = 1 /\ position = None /\ Replaying /\ curve \in Seq(Int)
      BY <2>1 DEF EngineInv, TypeOK
    <3> QED
      BY <3>1 DEF Replaying, Holding
  <2>3. pending = None /\ equity = StartEquity
    BY <2>2, TotalOfNoTrade DEF Waiting
  <2>4. Unstarted'
    BY <2>1, <2>2, <2>3 DEF Unstarted, engine
  <2> QED
    BY <2>4, UnstartedIsSound, PTL
<1>5. CASE LiveTick
  BY <1>5, EngineAtRest DEF LiveTick, Bars
<1>6. CASE VerifierStep
  BY <1>6, EngineAtRest DEF VerifierStep, Bars, input
<1>7. CASE VerifierEnd
  BY <1>7, EngineAtRest DEF VerifierEnd, Bars, input
<1>8. CASE Compare
  BY <1>8, EngineAtRest DEF Compare, Bars, input
<1>9. CASE Select
  BY <1>9, EngineAtRest DEF Select, Bars, input
<1>10. CASE UNCHANGED vars
  BY <1>10, EngineAtRest DEF vars, Bars, input
<1> QED
  BY <1>2, <1>3, <1>4, <1>5, <1>6, <1>7, <1>8, <1>9, <1>10 DEF Next, Engine, Verifier

LEMMA EngineStart == Init => EngineInv
<1>1. Init => Unstarted
  BY DEF Init, Unstarted
<1> QED
  BY <1>1, UnstartedIsSound

LEMMA EngineAlways == Spec => [](TypeOK /\ EngineInv)
BY InitTypes, TypeStep, EngineStart, EngineStep, PTL DEF Spec

\* A bar has two signals at most, and each is of that bar.
SignalsInv ==
    \A i \in Index : Len(signals[i]) <= 2 /\ \A k \in DOMAIN signals[i] : signals[i][k].bar = i

LEMMA SignalsStep == TypeOK /\ SignalsInv /\ [Next]_vars => SignalsInv'
<1> SUFFICES ASSUME TypeOK, SignalsInv, [Next]_vars  PROVE SignalsInv'
  OBVIOUS
<1>1. CASE EvaluateAll
  <2>1. signals' = Evaluate(spec, bars)
    BY <1>1 DEF EvaluateAll
  <2> QED
    BY <2>1, EvaluatedTypes DEF SignalsInv, Index
<1>2. CASE UNCHANGED signals
  BY <1>2 DEF SignalsInv, Index
<1> QED
  BY <1>1, <1>2 DEF Next, Engine, Verifier, LiveTick, EngineBar, EngineEnd, VerifierStep, VerifierEnd, Compare, Select, vars, input

LEMMA SignalsStart == Init => SignalsInv
BY DEF Init, SignalsInv, Index

\* A trade is the one of the first signal of the bar before its entry.
LEMMA TradeIsOf ==
    ASSUME TypeOK, NEW k \in 1..Len(trades), Fits(trades, k)
    PROVE  LET t == trades[k]  s == FirstAt(t.entry - 1) IN
           /\ t \in Trades /\ t.entry \in 2..N /\ t.entry \in Index /\ t.entry - 1 \in Index /\ t.exit \in Index
           /\ s \in Signals /\ s = signals[t.entry - 1][1] /\ 1 \in DOMAIN signals[t.entry - 1]
           /\ SignalOf(t) = s
           /\ EndsAt(s, t.entry, t.exit, t.reason)
<1> DEFINE t == trades[k]  e == t.entry  s == FirstAt(e - 1)  money == Worth(trades, k - 1)
<1>1. t \in Trades /\ trades \in Seq(Trades) /\ k - 1 \in 0..Len(trades)
  BY DEF TypeOK
<1>2. /\ e \in 2..N /\ Taken(e, money) /\ t = Closed(Bought(e, money), t.exit, t.reason)
      /\ EndsAt(s, e, t.exit, t.reason)
  BY DEF Fits
<1>3. money \in Int
  BY <1>1, WorthTypes
<1> HIDE DEF money
<1>4. Bought(e, money).signal = s /\ s \in Signals
  BY <1>2, <1>3, BoughtTypes
<1>5. t.side = s.side
  BY <1>2, <1>4 DEF Closed
<1>6. e \in Index /\ e - 1 \in Index /\ t.exit \in Index
  <2>1. t.exit \in Index
    BY <1>1 DEF Trades
  <2>2. e \in 2..N
    BY <1>2
  <2> HIDE DEF e
  <2>3. e \in Index /\ e - 1 \in Index
    BY <2>2, ConstantTypes DEF Index
  <2> QED
    BY <2>1, <2>3
<1>7. s = signals[e - 1][1] /\ 1 \in DOMAIN signals[e - 1] /\ signals[e - 1] \in Seq(Signals)
  <2>1. signals[e - 1] \in Seq(Signals)
    BY <1>6 DEF TypeOK
  <2>2. signals[e - 1] # <<>>
    BY <1>4, ConstantTypes DEF FirstAt
  <2> QED
    BY <1>6, <2>1, <2>2, FirstTypes
<1> DEFINE before == signals[e - 1]
           mine == {j \in DOMAIN before : before[j].side = t.side}
<1>8. 1 \in mine /\ \A j \in mine : j \in Int /\ 1 <= j
  BY <1>5, <1>7
<1>9. Min(mine) = 1
  <2> HIDE DEF mine
  <2>1. mine # {}
    BY <1>8
  <2>2. Min(mine) \in mine /\ \A j \in mine : Min(mine) <= j
    BY <1>8, <2>1, MinIsLeast
  <2> QED
    BY <1>8, <2>2
<1>10. SignalOf(t) = s
  <2>1. SignalOf(t) = IF mine = {} THEN None ELSE before[Min(mine)]
    BY DEF SignalOf
  <2> QED
    BY <1>7, <1>8, <1>9, <2>1
<1> QED
  BY <1>1, <1>2, <1>4, <1>6, <1>7, <1>10

\* The bar a trade ends at is the first that ends it.
LEMMA EndIsMin ==
    ASSUME NEW s, NEW e \in Index, NEW i, NEW reason, EndsAt(s, e, i, reason), reason # "END_OF_DATA"
    PROVE  /\ Ends(s, e) # {} /\ Min(Ends(s, e)) = i /\ i \in e + 1..N
           /\ \A j \in e + 1..i - 1 : ~Stopped(s, j)
           /\ reason = IF Stopped(s, i) THEN "STOP" ELSE IF Targeted(s, i) THEN "TARGET" ELSE "TIME"
<1>1. Ends(s, e) \subseteq e + 1..N /\ e \in Nat /\ N \in Nat
  BY EndsTypes, ConstantTypes DEF Index
<1>2. /\ i \in Ends(s, e) /\ \A j \in Ends(s, e) : i <= j
      /\ reason = IF Stopped(s, i) THEN "STOP" ELSE IF Targeted(s, i) THEN "TARGET" ELSE "TIME"
  BY DEF EndsAt
<1>3. Min(Ends(s, e)) \in Ends(s, e) /\ Min(Ends(s, e)) <= i
  BY <1>2, EndsTypes
<1>4. Min(Ends(s, e)) = i
  BY <1>1, <1>2, <1>3
<1>5. ASSUME NEW j \in e + 1..i - 1, Stopped(s, j)  PROVE FALSE
  <2>1. j \in e + 1..N /\ ~(i <= j)
    BY <1>1, <1>2
  <2>2. j \in Ends(s, e)
    BY <1>5, <2>1 DEF Ends
  <2> QED
    BY <1>2, <2>1, <2>2
<1> QED
  BY <1>1, <1>2, <1>4, <1>5

LEMMA OrderFollows == TypeOK /\ EngineInv => TradesInOrder
<1> SUFFICES ASSUME TypeOK, EngineInv, NEW k \in DOMAIN trades
             PROVE  /\ trades[k].entry > 1 /\ SignalOf(trades[k]) # None
                    /\ trades[k].exit > trades[k].entry \/ trades[k].reason = "END_OF_DATA"
                    /\ k < Len(trades) => trades[k].exit < trades[k + 1].entry
  BY DEF TradesInOrder
<1> DEFINE t == trades[k]  s == FirstAt(t.entry - 1)
<1>1. k \in 1..Len(trades) /\ trades \in Seq(Trades) /\ \A j \in 1..Len(trades) : Fits(trades, j)
  BY DEF TypeOK, EngineInv
<1>2. /\ t.entry \in 2..N /\ t.entry \in Index /\ s \in Signals /\ SignalOf(t) = s
      /\ EndsAt(s, t.entry, t.exit, t.reason)
  BY <1>1, TradeIsOf
<1>3. t.exit > t.entry \/ t.reason = "END_OF_DATA"
  <2>1. t.reason # "END_OF_DATA" => t.exit \in t.entry + 1..N
    BY <1>2, EndIsMin
  <2> DEFINE a == t.entry  b == t.exit
  <2>2. a \in 2..N /\ (t.reason # "END_OF_DATA" => b \in a + 1..N)
    BY <1>2, <2>1
  <2> HIDE DEF a, b
  <2>3. b > a \/ t.reason = "END_OF_DATA"
    BY <2>2, ConstantTypes
  <2> QED
    BY <2>3 DEF a, b
<1>4. k < Len(trades) => t.exit < trades[k + 1].entry
  <2>1. \A m : Fits(trades, m) => Waited(trades, m - 1, trades[m].entry)
    BY DEF Fits
  <2>2. k < Len(trades) => Waited(trades, k + 1 - 1, trades[k + 1].entry)
    BY <1>1, <2>1
  <2>3. k + 1 - 1 = k /\ After(trades, k) = t.exit
    BY <1>1 DEF After
  <2> QED
    BY <2>1, <2>2, <2>3 DEF Waited
<1>5. t.entry > 1
  BY <1>2
<1> QED
  BY <1>2, <1>3, <1>4, <1>5, ConstantTypes

LEMMA StopFollows == TypeOK /\ EngineInv => StopFirst
<1> SUFFICES ASSUME TypeOK, EngineInv, NEW k \in DOMAIN trades, trades[k].reason # "STOP",
                    NEW i \in trades[k].entry + 1..trades[k].exit
             PROVE  ~Stopped(SignalOf(trades[k]), i)
  BY DEF StopFirst
<1> DEFINE t == trades[k]  e == t.entry  x == t.exit  s == FirstAt(e - 1)
<1>1. k \in 1..Len(trades) /\ Fits(trades, k)
  BY DEF TypeOK, EngineInv
<1>2. /\ e \in 2..N /\ e \in Index /\ x \in Index /\ SignalOf(t) = s
      /\ EndsAt(s, e, x, t.reason) /\ t.reason # "STOP" /\ i \in e + 1..x
  BY <1>1, TradeIsOf
<1> HIDE DEF e, x, s
<1>3. CASE t.reason = "END_OF_DATA"
  <2>1. x = N /\ Ends(s, e) = {}
    BY <1>2, <1>3 DEF EndsAt
  <2> QED
    BY <1>2, <2>1 DEF Ends, s
<1>4. CASE t.reason # "END_OF_DATA"
  <2>1. x \in e + 1..N /\ ~Stopped(s, x) /\ \A j \in e + 1..x - 1 : ~Stopped(s, j)
    BY <1>2, <1>4, EndIsMin
  <2>2. i = x \/ i \in e + 1..x - 1
    BY <1>2, ConstantTypes DEF Index
  <2> QED
    BY <1>2, <2>1, <2>2
<1> QED
  BY <1>3, <1>4

LEMMA EquityFollows == TypeOK /\ EngineInv => EquityIsExplained
BY DEF EngineInv, EquityIsExplained, Replayed, Ended, Worth, Nets, NetOf

\* Whatever the candles, the rules and the costs: the trades of a backtest follow each
\* other, each on a signal of its side; none that wins touched its stop; and the equity
\* is what the trades explain, to the last fee (engine.run_backtest, _resolve_exit, _close).
THEOREM BacktestIsSoundAlways == Spec => []BacktestIsSound
BY EngineAlways, OrderFollows, StopFollows, EquityFollows, PTL DEF BacktestIsSound

LEMMA PaperFollows == TypeOK /\ EngineInv /\ SignalsInv => PaperIsNotFlattering
<1> SUFFICES ASSUME TypeOK, EngineInv, SignalsInv, NEW k \in DOMAIN trades
             PROVE  LET t == trades[k]  paper == Paper(SignalOf(t)) IN
                    /\ t.reason = "STOP" => paper = [bar |-> t.exit, outcome |-> "LOSS"]
                    /\ t.reason = "TARGET" => paper = [bar |-> t.exit, outcome |-> "WIN"]
                    /\ t.reason = "TIME" => paper.bar = t.exit
                    /\ t.reason = "END_OF_DATA" => paper.outcome = "OPEN"
  BY DEF PaperIsNotFlattering
<1> DEFINE t == trades[k]  e == t.entry  x == t.exit  s == FirstAt(e - 1)
<1>1. k \in 1..Len(trades) /\ Fits(trades, k)
  BY DEF TypeOK, EngineInv
<1>2. /\ e \in 2..N /\ e \in Index /\ x \in Index /\ SignalOf(t) = s
      /\ EndsAt(s, e, x, t.reason) /\ s = signals[e - 1][1] /\ 1 \in DOMAIN signals[e - 1] /\ e - 1 \in Index
  BY <1>1, TradeIsOf
<1>3. s.bar + 1 = e
  <2>1. s.bar = e - 1
    BY <1>2 DEF SignalsInv
  <2> HIDE DEF e, s
  <2> QED
    BY <1>2, <2>1
<1> HIDE DEF e, x, s
<1>4. CASE t.reason = "END_OF_DATA"
  <2>1. Ends(s, e) = {}
    BY <1>2, <1>4 DEF EndsAt
  <2>2. Paper(s).outcome = "OPEN"
    BY <1>3, <2>1 DEF Paper
  <2> QED
    BY <1>2, <1>4, <2>2
<1>5. CASE t.reason # "END_OF_DATA"
  <2>1. /\ Ends(s, e) # {} /\ Min(Ends(s, e)) = x
        /\ t.reason = IF Stopped(s, x) THEN "STOP" ELSE IF Targeted(s, x) THEN "TARGET" ELSE "TIME"
    BY <1>2, <1>5, EndIsMin
  <2> DEFINE gained == Targeted(s, x) \/ Gross(s.side, 1, bars[e].open, bars[x].close) > 0
  <2>2. Paper(s) = [bar |-> x, outcome |-> IF ~Stopped(s, x) /\ gained THEN "WIN" ELSE "LOSS"]
    BY <1>3, <2>1 DEF Paper
  <2> HIDE DEF gained
  <2>3. /\ t.reason = "STOP" => Paper(s) = [bar |-> x, outcome |-> "LOSS"]
        /\ t.reason = "TIME" => Paper(s).bar = x
    BY <2>1, <2>2
  <2>4. t.reason = "TARGET" => Paper(s) = [bar |-> x, outcome |-> "WIN"]
    BY <2>1, <2>2 DEF gained
  <2> QED
    BY <1>2, <1>5, <2>3, <2>4 DEF x
<1> QED
  BY <1>4, <1>5

\* Whatever the candles, the rules and the costs, the paper trade of a trade that the
\* backtest took ends at the same bar and to the same side (incubation._resolve).
THEOREM PaperIsNotFlatteringAlways == Spec => []PaperIsNotFlattering
BY EngineAlways, SignalsStart, SignalsStep, PaperFollows, TypeStep, InitTypes, PTL DEF Spec

-----------------------------------------------------------------------------
(* The verifier follows the engine's trades one by one.                    *)

\* The last of k trades was open when the data ended.
EndedOpen(k) == k > 0 /\ trades[k].reason = "END_OF_DATA"

\* What the verifier has found so far are the engine's first trades, at their money;
\* it has not passed the entry of the next one.
Follows ==
    LET m == Len(found) IN
    /\ m <= Len(trades) /\ \A k \in 1..m : found[k] = <<trades[k].entry, trades[k].exit>>
    /\ IF EndedOpen(m) THEN balance >= Worth(trades, m) ELSE balance = Worth(trades, m)
    /\ After(trades, m) <= cursor
    /\ m < Len(trades) => cursor < trades[m + 1].entry

VerifierInv ==
    /\ pc \in {"live", "engine"} => found = <<>> /\ cursor = 1 /\ balance = StartEquity
    /\ Replayed => cursor >= N
    /\ pc \notin {"live", "engine"} /\ ~Doubled => Follows

LEMMA OneSignal ==
    ASSUME TypeOK, SignalsInv, ~Doubled, NEW i \in Index
    PROVE  LastAt(i) = FirstAt(i)
<1>1. signals[i] \in Seq(Signals) /\ Len(signals[i]) <= 2 /\ Len(signals[i]) # 2
  BY DEF TypeOK, SignalsInv, Doubled
<1>2. signals[i] # <<>> => Len(signals[i]) = 1
  <2> DEFINE own == signals[i]
  <2>1. own \in Seq(Signals) /\ Len(own) <= 2 /\ Len(own) # 2
    BY <1>1
  <2> HIDE DEF own
  <2>2. ASSUME own # <<>>  PROVE Len(own) = 1
    <3> DEFINE n == Len(own)
    <3>1. n \in Nat \ {0}
      BY <2>1, <2>2
    <3>2. n <= 2 /\ n # 2
      BY <2>1
    <3> HIDE DEF n
    <3>3. n = 1
      BY <3>1, <3>2
    <3> QED
      BY <3>3 DEF n
  <2> QED
    BY <2>2 DEF own
<1>3. signals[i] = <<>> => LastAt(i) = FirstAt(i)
  BY DEF LastAt, FirstAt
<1> QED
  BY <1>2, <1>3, FirstTypes

\* What the verifier closes at.
ClosingPrice(s, i, reason) ==
    CASE reason = "STOP" -> s.stop
      [] reason = "TARGET" -> s.target
      [] reason = "END_OF_DATA" -> 100 * bars[N].close
      [] OTHER -> FillPrice(bars[i].close, s.side, FALSE)

\* A trade ends where the verifier's scan ends it, and at its price unless the data ended.
LEMMA ScanAgrees ==
    ASSUME NEW s, NEW e \in Index, NEW i, NEW reason, EndsAt(s, e, i, reason)
    PROVE  /\ ScanForExit(s, e).bar = i
           /\ ScanForExit(s, e).price = ClosingPrice(s, i, reason)
<1>1. CASE reason = "END_OF_DATA"
  <2>1. i = N /\ Ends(s, e) = {}
    BY <1>1 DEF EndsAt
  <2> QED
    BY <1>1, <2>1 DEF ScanForExit, ClosingPrice
<1>2. CASE reason # "END_OF_DATA"
  <2>1. /\ Ends(s, e) # {} /\ Min(Ends(s, e)) = i
        /\ reason = IF Stopped(s, i) THEN "STOP" ELSE IF Targeted(s, i) THEN "TARGET" ELSE "TIME"
    BY <1>2, EndIsMin
  <2>2. ScanForExit(s, e) = [bar |-> i, price |-> IF Stopped(s, i) THEN s.stop
                                                  ELSE IF Targeted(s, i) THEN s.target
                                                  ELSE FillPrice(bars[i].close, s.side, FALSE)]
    BY <2>1 DEF ScanForExit
  <2>3. CASE Stopped(s, i)
    BY <2>1, <2>2, <2>3 DEF ClosingPrice
  <2>4. CASE ~Stopped(s, i) /\ Targeted(s, i)
    BY <2>1, <2>2, <2>4 DEF ClosingPrice
  <2>5. CASE ~Stopped(s, i) /\ ~Targeted(s, i)
    BY <2>1, <2>2, <2>5 DEF ClosingPrice
  <2> QED
    BY <2>3, <2>4, <2>5
<1> QED
  BY <1>1, <1>2

\* A greater notional has a greater fee, but not by more than it is greater.
LEMMA FeeGrows ==
    ASSUME NEW a \in Nat, NEW b \in Nat, b <= a
    PROVE  Fee(b) <= Fee(a) /\ Fee(a) - Fee(b) <= a - b
<1> DEFINE f == FeePct  d == a - b  u == b * f  v == d * f
<1>1. f \in Nat /\ f <= 100 /\ d \in Nat /\ a = b + d
  BY ConstantTypes
<1> HIDE DEF f, d
<1>2. u \in Nat /\ v \in Nat /\ a * f = u + v /\ v <= 100 * d
  <2>1. u \in Nat /\ v \in Nat
    BY <1>1
  <2>2. a * f = u + v
    BY <1>1
  <2>3. v <= 100 * d
    <3>1. (100 - f) * d >= 0 /\ (100 - f) * d = 100 * d - v
      BY <1>1
    <3> QED
      BY <1>1, <2>1, <3>1
  <2> QED
    BY <2>1, <2>2, <2>3
<1> HIDE DEF u, v
<1>3. u \div 100 <= (u + v) \div 100 /\ (u + v) \div 100 <= u \div 100 + d
  BY <1>1, <1>2
<1>4. Fee(b) = u \div 100 /\ Fee(a) = (u + v) \div 100
  BY <1>2 DEF Fee, u, f
<1>5. u \div 100 \in Nat /\ (u + v) \div 100 \in Nat
  BY <1>2
<1>6. Fee(b) <= Fee(a) /\ Fee(a) - Fee(b) <= d
  BY <1>1, <1>3, <1>4, <1>5
<1> QED
  BY <1>6 DEF d

\* What is closed at the last close pays no less than with slippage.
LEMMA PaysNoLess ==
    ASSUME NEW side, NEW q \in Nat, NEW from \in Nat, NEW c \in Nat
    PROVE  LET full == 100 * c  slipped == FillPrice(c, side, FALSE) IN
           Gross(side, q, from, full) - Fee(full * q) >= Gross(side, q, from, slipped) - Fee(slipped * q)
<1> DEFINE full == 100 * c  slipped == FillPrice(c, side, FALSE)
           a == full * q  b == slipped * q  g == from * q
<1>1. full \in Nat /\ slipped \in Nat
  <2>1. full \in Nat
    OBVIOUS
  <2>2. slipped \in Nat
    BY PriceIsNat
  <2> QED
    BY <2>1, <2>2
<1>2. IF side = "LONG" THEN slipped <= full ELSE full <= slipped
  <2> DEFINE z == SlipPct
  <2>1. z \in Nat /\ z <= 99
    BY ConstantTypes
  <2>2. c * z >= 0 /\ c * (100 - z) = full - c * z /\ c * (100 + z) = full + c * z /\ c * z \in Nat
    BY <2>1
  <2>3. slipped = IF side = "LONG" THEN c * (100 - z) ELSE c * (100 + z)
    BY DEF FillPrice
  <2> HIDE DEF z, full, slipped
  <2> QED
    BY <1>1, <2>2, <2>3
<1> HIDE DEF full, slipped
<1>3. /\ a \in Nat /\ b \in Nat /\ g \in Nat
      /\ (full - from) * q = a - g /\ (from - full) * q = g - a
      /\ (slipped - from) * q = b - g /\ (from - slipped) * q = g - b
  BY <1>1
<1>4. IF side = "LONG" THEN b <= a ELSE a <= b
  <2>1. slipped <= full => (full - slipped) * q >= 0 /\ (full - slipped) * q = a - b
    BY <1>1
  <2>2. full <= slipped => (slipped - full) * q >= 0 /\ (slipped - full) * q = b - a
    BY <1>1
  <2> QED
    BY <1>2, <1>3, <2>1, <2>2
<1>5. Gross(side, q, from, full) = (IF side = "LONG" THEN a - g ELSE g - a)
      /\ Gross(side, q, from, slipped) = (IF side = "LONG" THEN b - g ELSE g - b)
  BY <1>3 DEF Gross
<1> HIDE DEF a, b, g
<1>6. Fee(a) \in Nat /\ Fee(b) \in Nat
  BY <1>3, FeeIsNat
<1>7. CASE side = "LONG"
  <2>1. Fee(a) - Fee(b) <= a - b
    BY <1>3, <1>4, <1>7, FeeGrows
  <2>2. Gross(side, q, from, full) - Fee(a) >= Gross(side, q, from, slipped) - Fee(b)
    BY <1>3, <1>5, <1>6, <1>7, <2>1
  <2> QED
    BY <2>2 DEF a, b, full, slipped
<1>8. CASE side # "LONG"
  <2>1. Fee(a) <= Fee(b)
    BY <1>3, <1>4, <1>8, FeeGrows
  <2>2. Gross(side, q, from, full) - Fee(a) >= Gross(side, q, from, slipped) - Fee(b)
    BY <1>3, <1>4, <1>5, <1>6, <1>8, <2>1
  <2> QED
    BY <2>2 DEF a, b, full, slipped
<1> QED
  BY <1>7, <1>8

LEMMA WorthOfMore ==
    ASSUME NEW ts \in Seq(Trades), NEW k \in 1..Len(ts)
    PROVE  Worth(ts, k) = Worth(ts, k - 1) + Net(ts[k]) /\ Net(ts[k]) \in Int
<1> DEFINE n == k - 1
<1>1. n \in Nat /\ n + 1 = k /\ \A j \in 1..n + 1 : Nets(ts)[j] \in Int
  <2>1. \A j \in 1..Len(ts) : Nets(ts)[j] \in Int
    <3>1. 0 \in 0..Len(ts)
      OBVIOUS
    <3> QED
      BY <3>1, WorthTypes
  <2> QED
    BY <2>1
<1>2. Nets(ts)[k] = Net(ts[k]) /\ Net(ts[k]) \in Int
  <2>1. k \in DOMAIN ts /\ Nets(ts)[k] \in Int
    BY <1>1
  <2> QED
    BY <2>1 DEF Nets
<1> HIDE DEF n
<1>3. Total(Nets(ts), n + 1) = Total(Nets(ts), n) + Nets(ts)[n + 1]
  BY <1>1, TotalOfMore
<1>4. Total(Nets(ts), n) \in Int
  <2>1. \A j \in 1..n : Nets(ts)[j] \in Int
    BY <1>1
  <2> QED
    BY <1>1, <2>1, TotalIsInt
<1>5. Worth(ts, n + 1) = Worth(ts, n) + Net(ts[k])
  BY <1>1, <1>2, <1>3, <1>4, ConstantTypes DEF Worth
<1> QED
  BY <1>1, <1>2, <1>5 DEF n

\* What the verifier's arithmetic makes of the engine's k-th trade.
LEMMA Settled ==
    ASSUME TypeOK, NEW k \in 1..Len(trades), Fits(trades, k), NEW e, e = trades[k].entry
    PROVE  LET t == trades[k]
               money == Worth(trades, k - 1)
               s == FirstAt(e - 1)
               price == FillPrice(bars[e].open, s.side, TRUE)
               q == Quantity(Sized(s, price, money))
               exit == ScanForExit(s, e)
               after == money + Gross(s.side, q, price, exit.price) - Fee(q * price) - Fee(exit.price * q)
           IN  /\ exit.bar = t.exit
               /\ IF t.reason = "END_OF_DATA" THEN after >= Worth(trades, k) ELSE after = Worth(trades, k)
<1> DEFINE t == trades[k]
           money == Worth(trades, k - 1)
           s == FirstAt(e - 1)
           price == FillPrice(bars[e].open, s.side, TRUE)
           q == Quantity(Sized(s, price, money))
           exit == ScanForExit(s, e)
           slipped == FillPrice(bars[t.exit].close, s.side, FALSE)
           paid == CASE t.reason = "STOP" -> s.stop
                     [] t.reason = "TARGET" -> s.target
                     [] OTHER -> slipped
           entryFee == Fee(q * price)
<1>1. /\ t \in Trades /\ e \in 2..N /\ e \in Index /\ t.exit \in Index /\ s \in Signals
      /\ EndsAt(s, e, t.exit, t.reason)
  BY TradeIsOf
<1>2. Taken(e, money) /\ t = Closed(Bought(e, money), t.exit, t.reason)
  BY DEF Fits
<1>3. /\ Worth(trades, k) = money + Net(t) /\ money \in Int /\ Net(t) \in Int
  <2>1. trades \in Seq(Trades) /\ k - 1 \in 0..Len(trades)
    BY DEF TypeOK
  <2> QED
    BY <2>1, WorthOfMore, WorthTypes
<1>4. Bought(e, money) \in Positions
  BY <1>1, <1>2, <1>3, BoughtTypes
<1>5. Bought(e, money) = [entry |-> e, signal |-> s, price |-> price, quantity |-> q, fee |-> entryFee]
  BY DEF Bought
<1> DEFINE p == Bought(e, money)
<1>6. /\ price \in Nat /\ q \in Nat /\ entryFee \in Nat
      /\ p.entry = e /\ p.signal = s /\ p.price = price /\ p.quantity = q /\ p.fee = entryFee
  <2>1. p.price \in Nat /\ p.quantity \in Nat /\ p.fee \in Nat
    BY <1>4 DEF Positions
  <2> HIDE DEF s, price, q, entryFee
  <2>2. p.entry = e /\ p.signal = s /\ p.price = price /\ p.quantity = q /\ p.fee = entryFee
    BY <1>5
  <2> QED
    BY <2>1, <2>2
<1>7. slipped \in Nat /\ bars[t.exit].close \in Nat
  <2>1. bars[t.exit].close \in Nat
    BY <1>1, BarTypes
  <2> QED
    BY <2>1, PriceIsNat
<1> HIDE DEF money, price, q, entryFee, slipped, p, t, s
<1>8. /\ t.gross = Gross(s.side, q, price, paid) /\ t.entryFee = entryFee /\ t.exitFee = Fee(paid * q)
  <2>1. t = Closed(p, t.exit, t.reason)
    BY <1>2 DEF p
  <2>2. Closed(p, t.exit, t.reason) =
            [entry |-> p.entry, exit |-> t.exit, side |-> p.signal.side, reason |-> t.reason,
             gross |-> Gross(p.signal.side, p.quantity, p.price, paid),
             entryFee |-> p.fee, exitFee |-> Fee(paid * p.quantity)]
    BY <1>6 DEF Closed, slipped
  <2> QED
    BY <1>6, <2>1, <2>2
<1> DEFINE x == t.exit  r == t.reason
<1>16. e \in Index /\ EndsAt(s, e, x, r)
  BY <1>1
<1> HIDE DEF x, r
<1>17. ScanForExit(s, e).bar = x /\ ScanForExit(s, e).price = ClosingPrice(s, x, r)
  BY <1>16, ScanAgrees
<1>9. exit.bar = t.exit
  BY <1>17 DEF x
<1>15. exit.price = CASE t.reason = "STOP" -> s.stop
                     [] t.reason = "TARGET" -> s.target
                     [] t.reason = "END_OF_DATA" -> 100 * bars[N].close
                     [] OTHER -> slipped
  BY <1>17 DEF slipped, x, r, ClosingPrice
<1>10. paid \in Nat
  BY <1>1, <1>7 DEF Signals
<1> HIDE DEF exit, paid
<1>11. Gross(s.side, q, price, paid) \in Int /\ Fee(paid * q) \in Int
  <2>1. paid * q \in Nat
    BY <1>6, <1>10, ProductIsNat
  <2>2. Fee(paid * q) \in Int
    BY <2>1, FeeIsNat
  <2>3. Gross(s.side, q, price, paid) \in Int
    BY <1>6, <1>10, GrossIsInt
  <2> QED
    BY <2>2, <2>3
<1>12. Net(t) = Gross(s.side, q, price, paid) - entryFee - Fee(paid * q)
  BY <1>8 DEF Net
<1>13. CASE t.reason # "END_OF_DATA"
  <2>1. exit.price = paid
    BY <1>1, <1>15, <1>13 DEF paid, Trades
  <2>2. money + Gross(s.side, q, price, paid) - entryFee - Fee(paid * q) = Worth(trades, k)
    BY <1>3, <1>6, <1>11, <1>12
  <2> QED
    BY <1>9, <1>13, <2>1, <2>2 DEF t, s, exit, money, price, q, entryFee
<1>14. CASE t.reason = "END_OF_DATA"
  <2>1. t.exit = N
    BY <1>1, <1>14 DEF EndsAt
  <2> DEFINE c == bars[N].close  full == 100 * c
  <2>2. exit.price = full /\ paid = FillPrice(c, s.side, FALSE) /\ c \in Nat
    BY <1>7, <1>15, <1>14, <2>1 DEF paid, slipped
  <2> HIDE DEF c
  <2>3. Gross(s.side, q, price, full) - Fee(full * q) >= Gross(s.side, q, price, paid) - Fee(paid * q)
    <3>1. FillPrice(c, s.side, FALSE) = paid
      BY <2>2
    <3> HIDE DEF paid
    <3>2. LET slid == FillPrice(c, s.side, FALSE) IN
          Gross(s.side, q, price, 100 * c) - Fee((100 * c) * q) >= Gross(s.side, q, price, slid) - Fee(slid * q)
      BY <1>6, <2>2, PaysNoLess
    <3> QED
      BY <3>1, <3>2
  <2>4. full \in Nat /\ full * q \in Nat
    BY <1>6, <2>2
  <2> HIDE DEF full
  <2>5. Gross(s.side, q, price, full) \in Int /\ Fee(full * q) \in Int
    <3>1. Gross(s.side, q, price, full) \in Int
      BY <1>6, <2>4, GrossIsInt
    <3> QED
      BY <2>4, <3>1, FeeIsNat
  <2>6. money + Gross(s.side, q, price, full) - entryFee - Fee(full * q) >= Worth(trades, k)
    BY <1>3, <1>6, <1>11, <1>12, <2>3, <2>5
  <2> QED
    BY <1>9, <1>14, <2>2, <2>6 DEF t, s, exit, money, price, q, entryFee
<1> QED
  BY <1>13, <1>14

\* The next entry of the verifier is the one of the engine's next trade.
LEMMA NextTrade ==
    ASSUME TypeOK, EngineInv, Ended, Follows, cursor < N, NEW m, m = Len(found), NEW e, e = cursor + 1
    PROVE  /\ m \in 0..Len(trades) /\ ~EndedOpen(m) /\ balance = Worth(trades, m)
           /\ ~Taken(e, balance) => (m < Len(trades) => e < trades[m + 1].entry)
           /\ Taken(e, balance) => m < Len(trades) /\ trades[m + 1].entry = e
<1> DEFINE n == Len(trades)
<1>1. /\ m \in 0..n /\ n \in Nat /\ N \in Nat /\ cursor \in Nat /\ e \in Nat /\ e <= N
      /\ \A k \in 1..n : Fits(trades, k)
  <2>1. N \in Nat /\ cursor \in 1..N
    BY ConstantTypes DEF TypeOK, Index
  <2>2. cursor \in Nat /\ e \in Nat /\ e <= N
    BY <2>1
  <2>3. m \in Nat /\ n \in Nat /\ m <= n
    BY DEF Follows, TypeOK
  <2> QED
    BY <2>1, <2>2, <2>3 DEF EngineInv
<1>2. ~EndedOpen(m)
  <2>1. SUFFICES ASSUME EndedOpen(m) PROVE FALSE
    OBVIOUS
  <2>2. m \in 1..n /\ Fits(trades, m)
    BY <1>1, <2>1 DEF EndedOpen
  <2>3. trades[m].exit = N
    BY <2>1, <2>2 DEF EndedOpen, Fits, EndsAt
  <2>4. After(trades, m) = N
    BY <2>2, <2>3 DEF After
  <2> QED
    BY <1>1, <2>4 DEF Follows
<1>3. balance = Worth(trades, m) /\ After(trades, m) <= cursor /\ (m < n => cursor < trades[m + 1].entry)
  BY <1>2 DEF Follows
<1>4. After(trades, m) \in Nat
  <2>1. \A t \in Trades : t.exit \in Nat
    BY DEF Trades, Index
  <2>2. m # 0 => trades[m] \in Trades
    BY <1>1 DEF TypeOK
  <2> QED
    BY <2>1, <2>2 DEF After
<1>5. CASE m < n
  <2> DEFINE x == trades[m + 1].entry
  <2>1. m + 1 \in 1..n /\ m + 1 - 1 = m
    BY <1>1, <1>5
  <2>2. x \in 2..N /\ Waited(trades, m, x) /\ Taken(x, Worth(trades, m))
    <3>1. \A k \in 1..n : trades[k].entry \in 2..N /\ Waited(trades, k - 1, trades[k].entry)
                          /\ Taken(trades[k].entry, Worth(trades, k - 1))
      BY <1>1 DEF Fits
    <3> QED
      BY <2>1, <3>1
  <2>3. cursor < x
    BY <1>3, <1>5
  <2> HIDE DEF x
  <2>4. ~Taken(e, balance) => e < x
    BY <1>1, <1>3, <2>2, <2>3
  <2>5. Taken(e, balance) => x = e
    BY <1>1, <1>3, <1>4, <2>2, <2>3 DEF Waited
  <2> QED
    BY <1>1, <1>2, <1>3, <1>5, <2>4, <2>5 DEF x
<1>6. CASE ~(m < n)
  <2>1. m = n
    BY <1>1, <1>6
  <2>2. e \in After(trades, n) + 1..N
    BY <1>1, <1>3, <1>4, <2>1
  <2>3. ~Taken(e, balance)
    BY <1>3, <2>1, <2>2 DEF Ended
  <2> QED
    BY <1>1, <1>2, <1>3, <1>6, <2>3
<1> QED
  BY <1>5, <1>6

\* Follows says nothing that changes while the trades and the verifier stay.
LEMMA FollowsKept ==
    ASSUME Follows, UNCHANGED <<trades, found, balance, cursor>>
    PROVE  Follows'
<1>1. \A k : Worth(trades, k)' = Worth(trades, k) /\ After(trades, k)' = After(trades, k)
             /\ (EndedOpen(k)' <=> EndedOpen(k))
  BY DEF Worth, Nets, After, EndedOpen
<1> QED
  BY <1>1 DEF Follows

\* When the engine has ended, the verifier is before its first trade.
AtFirst == found = <<>> /\ cursor = 1 /\ balance = StartEquity

LEMMA FollowsAtFirst == TypeOK /\ EngineInv /\ AtFirst => Follows
<1> SUFFICES ASSUME TypeOK, EngineInv, AtFirst  PROVE Follows
  OBVIOUS
<1> USE DEF AtFirst
<1>1. Len(found) = 0 /\ ~EndedOpen(0) /\ After(trades, 0) = 1
  BY DEF EndedOpen, After
<1>2. Worth(trades, 0) = StartEquity
  <2>1. Total(Nets(trades), 0) = 0
    BY TotalOfNone
  <2> QED
    BY <2>1, ConstantTypes DEF Worth
<1>3. 0 < Len(trades) => 1 < trades[1].entry
  <2>1. 0 < Len(trades) => 1 \in 1..Len(trades)
    BY DEF TypeOK
  <2>2. 0 < Len(trades) => trades[1].entry \in 2..N
    BY <2>1 DEF EngineInv, Fits
  <2> QED
    BY <2>2
<1>4. 0 <= Len(trades)
  BY DEF TypeOK
<1> QED
  BY <1>1, <1>2, <1>3, <1>4 DEF Follows

LEMMA VerifierStepFollows ==
    ASSUME TypeOK, EngineInv, SignalsInv, VerifierStep, ~Doubled, Follows
    PROVE  Follows'
<1> DEFINE signal == LastAt(cursor)
           entry == FillPrice(bars[cursor + 1].open, signal.side, TRUE)
           request == Sized(signal, entry, balance)
           exit == ScanForExit(signal, cursor + 1)
           quantity == Quantity(request)
           paid == balance + Gross(signal.side, quantity, entry, exit.price)
                           - Fee(quantity * entry) - Fee(exit.price * quantity)
           m == Len(found)
           e == cursor + 1
<1>1. /\ pc = "verifier" /\ cursor < N /\ cursor \in Index /\ cursor \in Nat /\ e \in Index /\ e - 1 = cursor
      /\ trades' = trades /\ found \in Seq(Index \X Index)
  <2>1. cursor \in 1..N /\ cursor < N /\ N \in Nat
    BY ConstantTypes DEF VerifierStep, TypeOK, Index
  <2> QED
    BY <2>1 DEF VerifierStep, TypeOK, Index, engine
<1>2. /\ IF signal = None THEN cursor' = cursor + 1 /\ found' = found /\ balance' = balance
         ELSE IF ~Accepted(request) THEN cursor' = cursor + 1 /\ found' = found /\ balance' = balance
         ELSE cursor' = exit.bar /\ found' = Append(found, <<e, exit.bar>>) /\ balance' = paid
  BY DEF VerifierStep, AfterRefusal, AfterExit
<1>3. signal = FirstAt(e - 1)
  BY <1>1, OneSignal
<1>4. Taken(e, balance) <=> signal # None /\ Accepted(request)
  BY <1>3 DEF Taken
<1>5. Ended
  BY <1>1 DEF EngineInv
<1>6. /\ m \in 0..Len(trades) /\ ~EndedOpen(m) /\ balance = Worth(trades, m)
      /\ ~Taken(e, balance) => (m < Len(trades) => e < trades[m + 1].entry)
      /\ Taken(e, balance) => m < Len(trades) /\ trades[m + 1].entry = e
  BY <1>1, <1>5, NextTrade
<1>7. \A k : Worth(trades, k)' = Worth(trades, k) /\ After(trades, k)' = After(trades, k)
             /\ (EndedOpen(k)' <=> EndedOpen(k))
  BY <1>1 DEF Worth, Nets, After, EndedOpen
<1> HIDE DEF e
<1>8. CASE ~Taken(e, balance)
  <2>1. cursor' = e /\ found' = found /\ balance' = balance
    BY <1>2, <1>4, <1>8 DEF e
  <2>2. After(trades, m) <= e
    <3>1. After(trades, m) <= cursor
      BY DEF Follows
    <3>2. After(trades, m) \in Int
      <4>1. \A t \in Trades : t.exit \in Int
        BY DEF Trades, Index
      <4>2. m # 0 => trades[m] \in Trades
        BY <1>6 DEF TypeOK
      <4> QED
        BY <4>1, <4>2 DEF After
    <3> QED
      BY <1>1, <3>1, <3>2 DEF e
  <2> QED
    BY <1>1, <1>6, <1>7, <1>8, <2>1, <2>2 DEF Follows
<1>9. CASE Taken(e, balance)
  <2> DEFINE k == m + 1  t == trades[k]
  <2>1. cursor' = exit.bar /\ found' = Append(found, <<e, exit.bar>>) /\ balance' = paid
    BY <1>2, <1>4, <1>9
  <2>2. k \in 1..Len(trades) /\ Fits(trades, k) /\ t.entry = e /\ k - 1 = m
    <3>1. k \in 1..Len(trades) /\ t.entry = e /\ k - 1 = m
      BY <1>6, <1>9
    <3> QED
      BY <3>1 DEF EngineInv
  <2>3. /\ exit.bar = t.exit
        /\ IF t.reason = "END_OF_DATA" THEN paid >= Worth(trades, k) ELSE paid = Worth(trades, k)
    <3> HIDE DEF k, m
    <3>1. Worth(trades, k - 1) = balance
      BY <1>6, <2>2
    <3>2. e = trades[k].entry /\ e = cursor + 1
      BY <2>2 DEF e
    <3>3. LET money == Worth(trades, k - 1)
              s == FirstAt(e - 1)
              price == FillPrice(bars[e].open, s.side, TRUE)
              q == Quantity(Sized(s, price, money))
              ended == ScanForExit(s, e)
              after == money + Gross(s.side, q, price, ended.price) - Fee(q * price) - Fee(ended.price * q)
          IN  /\ ended.bar = t.exit
              /\ IF t.reason = "END_OF_DATA" THEN after >= Worth(trades, k) ELSE after = Worth(trades, k)
      BY <2>2, <3>2, Settled
    <3> QED
      BY <1>3, <3>1, <3>2, <3>3
  <2> HIDE DEF exit, paid
  <2>4. Len(found') = k /\ \A j \in 1..k : found'[j] = <<trades[j].entry, trades[j].exit>>
    <3> DEFINE pair == <<e, exit.bar>>
    <3>1. found \in Seq(Index \X Index) /\ m \in Nat /\ pair = <<t.entry, t.exit>>
      BY <1>1, <2>2, <2>3
    <3>2. \A j \in 1..m : found[j] = <<trades[j].entry, trades[j].exit>>
      BY DEF Follows
    <3> HIDE DEF pair
    <3>3. Len(found') = m + 1 /\ found'[m + 1] = pair /\ \A j \in 1..m : found'[j] = found[j]
      BY <2>1, <3>1 DEF pair
    <3>4. \A j \in 1..k : j = m + 1 \/ j \in 1..m
      BY <3>1
    <3> QED
      BY <3>1, <3>2, <3>3, <3>4
  <2>5. EndedOpen(k) <=> t.reason = "END_OF_DATA"
    BY <2>2 DEF EndedOpen
  <2>6. After(trades, k) = t.exit
    BY <2>2 DEF After
  <2>7. t.exit \in Int
    <3>1. t \in Trades
      BY <2>2 DEF TypeOK
    <3> QED
      BY <3>1 DEF Trades, Index
  <2>8. k < Len(trades) => t.exit < trades[k + 1].entry
    <3>1. \A j \in 1..Len(trades) : After(trades, j - 1) < trades[j].entry
      BY DEF EngineInv, Fits, Waited
    <3>2. k < Len(trades) => k + 1 \in 1..Len(trades) /\ k + 1 - 1 = k
      BY <2>2
    <3> QED
      BY <2>6, <3>1, <3>2
  <2> HIDE DEF k, t, m
  <2>9. Len(found') <= Len(trades)'
    BY <1>1, <2>2, <2>4
  <2>10. IF EndedOpen(Len(found))' THEN balance' >= Worth(trades, Len(found))' ELSE balance' = Worth(trades, Len(found))'
    BY <1>7, <2>1, <2>3, <2>4, <2>5
  <2>11. After(trades, Len(found))' <= cursor'
    BY <1>7, <2>1, <2>3, <2>4, <2>6, <2>7
  <2>12. Len(found') < Len(trades)' => cursor' < trades'[Len(found') + 1].entry
    BY <1>1, <2>1, <2>3, <2>4, <2>8
  <2> QED
    BY <1>1, <2>4, <2>9, <2>10, <2>11, <2>12 DEF Follows
<1> QED
  BY <1>8, <1>9

LEMMA VerifierInvStep == TypeOK /\ EngineInv /\ SignalsInv /\ VerifierInv /\ [Next]_vars => VerifierInv'
<1> SUFFICES ASSUME TypeOK, EngineInv, SignalsInv, VerifierInv, [Next]_vars  PROVE VerifierInv'
  OBVIOUS
<1>1. TypeOK' /\ EngineInv' /\ SignalsInv'
  BY TypeStep, EngineStep, SignalsStep
<1>2. ASSUME UNCHANGED <<signals, trades, verifier>>, pc \notin {"live", "engine"}, pc' \notin {"live", "engine"},
             Replayed' => cursor >= N
      PROVE  VerifierInv'
  <2>1. Doubled' <=> Doubled
    BY <1>2 DEF Doubled, Index
  <2>2. ~Doubled => Follows'
    BY <1>2, FollowsKept DEF VerifierInv, verifier
  <2> QED
    BY <1>2, <2>1, <2>2 DEF VerifierInv, verifier
<1>3. ASSUME UNCHANGED verifier, pc \in {"live", "engine"}, pc' \in {"live", "engine"}
      PROVE  VerifierInv'
  BY <1>3 DEF VerifierInv, verifier, Replayed
<1>4. CASE LiveTick \/ EvaluateAll \/ EngineBar
  <2>1. UNCHANGED verifier /\ pc \in {"live", "engine"} /\ pc' \in {"live", "engine"}
    BY <1>4 DEF LiveTick, EvaluateAll, EngineBar
  <2> QED
    BY <1>3, <2>1
<1>5. CASE EngineEnd
  <2>1. found' = <<>> /\ cursor' = 1 /\ balance' = StartEquity /\ pc' = "verifier"
    BY <1>5 DEF EngineEnd, VerifierInv, verifier
  <2>2. AtFirst'
    BY <2>1 DEF AtFirst
  <2>3. Follows'
    BY <1>1, <2>2, FollowsAtFirst, PTL
  <2> QED
    BY <2>1, <2>3 DEF VerifierInv, Replayed
<1>6. CASE VerifierStep
  <2>1. pc = "verifier" /\ pc' = "verifier" /\ signals' = signals
    BY <1>6 DEF VerifierStep, input
  <2>2. ~Doubled => Follows'
    BY <1>6, <2>1, VerifierStepFollows DEF VerifierInv
  <2>3. Doubled' <=> Doubled
    BY <2>1 DEF Doubled, Index
  <2> QED
    BY <2>1, <2>2, <2>3 DEF VerifierInv, Replayed
<1>7. CASE VerifierEnd
  BY <1>2, <1>7 DEF VerifierEnd, input, engine
<1>8. CASE Compare \/ Select
  <2>1. /\ UNCHANGED <<signals, trades, verifier>> /\ pc \notin {"live", "engine"} /\ pc' \notin {"live", "engine"}
        /\ Replayed
    BY <1>8 DEF Compare, Select, input, engine, Replayed
  <2> QED
    BY <1>2, <2>1 DEF VerifierInv
<1>9. CASE UNCHANGED vars
  <2>1. UNCHANGED <<signals, trades, verifier, pc>>
    BY <1>9 DEF vars, input, engine
  <2> QED
    BY <1>2, <1>3, <2>1 DEF VerifierInv, Replayed
<1> QED
  BY <1>4, <1>5, <1>6, <1>7, <1>8, <1>9 DEF Next, Engine, Verifier

LEMMA VerifierStart == Init => VerifierInv
BY DEF Init, VerifierInv, Replayed

LEMMA AgreementFollows == TypeOK /\ EngineInv /\ VerifierInv => EnginesAgree
<1> SUFFICES ASSUME TypeOK, EngineInv, VerifierInv, Replayed, ~Doubled
             PROVE  /\ found = [k \in DOMAIN trades |-> <<trades[k].entry, trades[k].exit>>]
                    /\ IF OpenAtEnd THEN equity <= balance ELSE equity = balance
  BY DEF EnginesAgree
<1> DEFINE n == Len(trades)  m == Len(found)
<1>1. pc \notin {"live", "engine"}
  BY DEF Replayed
<1>2. Follows /\ Ended /\ cursor >= N /\ cursor \in 1..N
  BY <1>1 DEF VerifierInv, EngineInv, TypeOK, Index
<1>3. n \in Nat /\ m \in Nat /\ found \in Seq(Index \X Index) /\ trades \in Seq(Trades)
  BY DEF TypeOK
<1>4. m = n
  <2>1. m < n => m + 1 \in 1..n
    BY <1>3
  <2>2. m < n => trades[m + 1].entry \in 2..N
    BY <2>1 DEF EngineInv, Fits
  <2>3. m <= n /\ (m < n => cursor < trades[m + 1].entry)
    BY <1>2 DEF Follows
  <2> QED
    BY <1>2, <1>3, <2>2, <2>3, ConstantTypes
<1>5. found = [k \in DOMAIN trades |-> <<trades[k].entry, trades[k].exit>>]
  <2>1. \A k \in 1..m : found[k] = <<trades[k].entry, trades[k].exit>>
    BY <1>2 DEF Follows
  <2>2. DOMAIN found = 1..m /\ DOMAIN trades = 1..n /\ found = [k \in 1..m |-> found[k]]
    BY <1>3
  <2> QED
    BY <1>4, <2>1, <2>2
<1>6. EndedOpen(n) <=> OpenAtEnd
  <2>1. \A k \in 1..n : trades[k].reason = "END_OF_DATA" => k = n
    BY DEF EngineInv
  <2>2. DOMAIN trades = 1..n /\ (n > 0 => n \in 1..n)
    BY <1>3
  <2>3. OpenAtEnd => n > 0 /\ trades[n].reason = "END_OF_DATA"
    <3>1. ASSUME NEW k \in 1..n, trades[k].reason = "END_OF_DATA"  PROVE n > 0 /\ trades[n].reason = "END_OF_DATA"
      <4>1. k = n
        BY <2>1, <3>1
      <4> HIDE DEF n
      <4> QED
        BY <1>3, <3>1, <4>1
    <3> QED
      BY <2>2, <3>1 DEF OpenAtEnd
  <2> QED
    BY <2>2, <2>3 DEF EndedOpen, OpenAtEnd
<1>7. equity = Worth(trades, n)
  BY <1>2 DEF Ended
<1>8. IF OpenAtEnd THEN equity <= balance ELSE equity = balance
  <2>1. IF EndedOpen(m) THEN balance >= Worth(trades, m) ELSE balance = Worth(trades, m)
    BY <1>2 DEF Follows
  <2> HIDE DEF n, m
  <2>2. equity \in Int /\ balance \in Int
    BY DEF TypeOK
  <2> QED
    BY <1>4, <1>6, <1>7, <2>1, <2>2
<1> QED
  BY <1>5, <1>8

\* Whatever the candles, the rules and the costs, the two engines take the same trades to
\* the same money: they differ by a bar with two signals, or by a trade that the data left
\* open, for which the verifier never pays less (engine.run_backtest, vector_engine.run_verifier).
THEOREM EnginesAgreeAlways == Spec => []EnginesAgree
<1>1. Init => TypeOK /\ EngineInv /\ SignalsInv /\ VerifierInv
  BY InitTypes, EngineStart, SignalsStart, VerifierStart
<1>2. TypeOK /\ EngineInv /\ SignalsInv /\ VerifierInv /\ [Next]_vars => (TypeOK /\ EngineInv /\ SignalsInv /\ VerifierInv)'
  BY TypeStep, EngineStep, SignalsStep, VerifierInvStep
<1> QED
  BY <1>1, <1>2, AgreementFollows, PTL DEF Spec

-----------------------------------------------------------------------------
(* A part of a series. The indicators over it are what they are over the   *)
(* whole: all of them if it is the beginning, and those that do not smooth *)
(* wherever it lies, once it is as long as they look back on.              *)

\* part lies in whole, after its first off elements.
PartOf(part, whole, off) ==
    Len(part) + off <= Len(whole) /\ \A k \in 1..Len(part) : part[k] = whole[off + k]

\* What holds of zero, and of the successor of each number it holds of.
LEMMA EachNumber ==
    ASSUME NEW n \in Nat, NEW T, 0 \in T, \A j \in 0..n - 1 : j \in T => j + 1 \in T
    PROVE  \A j \in 0..n : j \in T
<1> DEFINE Bad == {j \in 0..n : j \notin T}
<1>1. CASE Bad # {}
  <2>1. Bad \in SUBSET Nat
    OBVIOUS
  <2>2. PICK m \in Bad : \A j \in Bad : m <= j
    <3> HIDE DEF Bad
    <3> QED
      BY <1>1, <2>1, LeastNumber
  <2>3. m \in 0..n /\ m \notin T /\ m # 0
    BY <2>2
  <2>4. m - 1 \in 0..n - 1 /\ m - 1 \in 0..n /\ m - 1 < m /\ (m - 1) + 1 = m
    BY <2>3
  <2>5. m - 1 \notin Bad
    <3> HIDE DEF Bad
    <3> QED
      BY <2>2, <2>4
  <2>6. m - 1 \in T
    BY <2>4, <2>5
  <2> QED
    BY <2>3, <2>4, <2>6
<1>2. CASE Bad = {}
  BY <1>2
<1> QED
  BY <1>1, <1>2

\* The running sum of Sma.
Moved(values, period) ==
    [i \in DOMAIN values |-> values[i] - (IF i > period THEN values[i - period] ELSE 0)]

LEMMA MovedTypes ==
    ASSUME NEW values \in Seq(Nat), NEW period \in Nat \ {0}
    PROVE  /\ \A i \in 1..Len(values) : Moved(values, period)[i] \in Int
           /\ \A i \in 1..Len(values) : Sma(values, period)[i] =
                  IF i < period THEN Unknown ELSE Total(Moved(values, period), i) \div period
<1>1. ASSUME NEW i \in 1..Len(values)  PROVE Moved(values, period)[i] \in Int
  <2>1. i > period => i - period \in 1..Len(values)
    OBVIOUS
  <2>2. i > period => values[i - period] \in Int
    BY <2>1
  <2> QED
    BY <2>2 DEF Moved
<1>2. \A i \in 1..Len(values) : Sma(values, period)[i] =
          IF i < period THEN Unknown ELSE Total(Moved(values, period), i) \div period
  BY DEF Sma, Moved
<1> QED
  BY <1>1, <1>2

\* The sum of the first values, as a part of a longer sum.
LEMMA TotalOfOneMore ==
    ASSUME NEW values \in Seq(Nat), NEW n \in 0..Len(values) - 1
    PROVE  /\ Total(values, n) \in Int /\ values[n + 1] \in Int
           /\ Total(values, n + 1) = Total(values, n) + values[n + 1]
<1>1. n \in Nat /\ (\A i \in 1..n + 1 : values[i] \in Int) /\ (\A i \in 1..n : values[i] \in Int)
  OBVIOUS
<1>2. Total(values, n) \in Int
  BY <1>1, TotalIsInt
<1>3. Total(values, n + 1) = Total(values, n) + values[n + 1]
  BY <1>1, TotalOfMore
<1> QED
  BY <1>2, <1>3

LEMMA TotalOfValues ==
    ASSUME NEW values \in Seq(Nat), NEW n \in 0..Len(values)
    PROVE  Total(values, n) \in Int
<1>1. n \in Nat /\ \A i \in 1..n : values[i] \in Int
  OBVIOUS
<1> QED
  BY <1>1, TotalIsInt

LEMMA TotalOfPart ==
    ASSUME NEW values \in Seq(Nat), NEW others \in Seq(Nat), NEW off \in Nat, PartOf(values, others, off)
    PROVE  \A k \in 0..Len(values) : Total(others, off + k) = Total(others, off) + Total(values, k)
<1> DEFINE n == Len(values)
           Same(k) == Total(others, off + k) = Total(others, off) + Total(values, k)
           T == {k \in 0..n : Same(k)}
<1>0. n \in Nat /\ Len(others) \in Nat /\ n + off <= Len(others)
  BY DEF PartOf
<1>1. 0 \in T
  <2>1. off \in 0..Len(others)
    BY <1>0
  <2>2. Total(others, off) \in Int
    BY <2>1, TotalOfValues
  <2> QED
    BY <1>0, <2>2, TotalOfNone
<1>2. ASSUME NEW k \in 0..n - 1, k \in T  PROVE k + 1 \in T
  <2>1. off + k \in 0..Len(others) - 1 /\ k \in 0..Len(values) - 1 /\ k + 1 \in 1..n /\ off \in 0..Len(others)
    BY <1>0
  <2>2. /\ Total(values, k) \in Int /\ values[k + 1] \in Int
        /\ Total(values, k + 1) = Total(values, k) + values[k + 1]
    BY <2>1, TotalOfOneMore
  <2>3. Total(others, off + k + 1) = Total(others, off + k) + others[off + k + 1]
    BY <2>1, TotalOfOneMore
  <2>4. values[k + 1] = others[off + (k + 1)]
    BY <2>1 DEF PartOf
  <2>5. off + (k + 1) = off + k + 1
    BY <2>1
  <2>6. Same(k)
    BY <1>2
  <2>7. Total(others, off) \in Int
    BY <2>1, TotalOfValues
  <2>8. Same(k + 1)
    BY <2>2, <2>3, <2>4, <2>5, <2>6, <2>7
  <2> QED
    BY <2>1, <2>8
<1>3. \A k \in 0..n : k \in T
  <2> HIDE DEF T, n
  <2> QED
    BY <1>0, <1>1, <1>2, EachNumber
<1> QED
  BY <1>3

\* What the running sum has left after the values that leave the window.
LEMMA TotalOfMoved ==
    ASSUME NEW values \in Seq(Nat), NEW period \in Nat \ {0}, NEW k \in 0..Len(values)
    PROVE  Total(Moved(values, period), k) =
               Total(values, k) - (IF k > period THEN Total(values, k - period) ELSE 0)
<1> DEFINE n == Len(values)
           moved == Moved(values, period)
           left(j) == IF j > period THEN Total(values, j - period) ELSE 0
           Same(j) == Total(moved, j) = Total(values, j) - left(j)
           T == {j \in 0..n : Same(j)}
<1>0. n \in Nat
  OBVIOUS
<1>1. 0 \in T
  <2>1. Total(moved, 0) = 0 /\ Total(values, 0) = 0 /\ ~(0 > period)
    BY TotalOfNone
  <2> QED
    BY <1>0, <2>1
<1>2. ASSUME NEW j \in 0..n - 1, j \in T  PROVE j + 1 \in T
  <2>1. j \in 0..Len(values) - 1 /\ j + 1 \in 1..n /\ j \in Nat
    BY <1>0
  <2>2. /\ Total(values, j) \in Int /\ values[j + 1] \in Int
        /\ Total(values, j + 1) = Total(values, j) + values[j + 1]
    BY <2>1, TotalOfOneMore
  <2>3. \A i \in 1..j + 1 : moved[i] \in Int
    BY <2>1, MovedTypes
  <2>4. Total(moved, j + 1) = Total(moved, j) + moved[j + 1]
    <3> HIDE DEF moved
    <3> QED
      BY <2>1, <2>3, TotalOfMore
  <2>5. moved[j + 1] = values[j + 1] - (IF j + 1 > period THEN values[j + 1 - period] ELSE 0)
    BY <2>1 DEF Moved
  <2>6. Same(j)
    BY <1>2
  <2>7. left(j + 1) = left(j) + (IF j + 1 > period THEN values[j + 1 - period] ELSE 0)
        /\ left(j) \in Int /\ (j + 1 > period => values[j + 1 - period] \in Int)
    <3>1. CASE j + 1 > period
      <4> DEFINE i == j - period
      <4>1. i \in 0..Len(values) - 1 /\ i + 1 = j + 1 - period /\ (j > period <=> i > 0)
        BY <2>1, <3>1
      <4>2. /\ Total(values, i) \in Int /\ values[i + 1] \in Int
            /\ Total(values, i + 1) = Total(values, i) + values[i + 1]
        BY <4>1, TotalOfOneMore
      <4>3. left(j) = Total(values, i)
        <5>1. CASE j > period
          BY <5>1
        <5>2. CASE ~(j > period)
          <6>1. i = 0
            BY <4>1, <5>2
          <6> QED
            BY <5>2, <6>1, TotalOfNone
        <5> QED
          BY <5>1, <5>2
      <4>4. left(j + 1) = Total(values, i + 1)
        BY <3>1, <4>1
      <4> HIDE DEF i, left
      <4> QED
        BY <3>1, <4>1, <4>2, <4>3, <4>4
    <3>2. CASE ~(j + 1 > period)
      BY <2>1, <3>2
    <3> QED
      BY <3>1, <3>2
  <2> DEFINE out == IF j + 1 > period THEN values[j + 1 - period] ELSE 0
  <2>8. out \in Int /\ left(j + 1) = left(j) + out /\ moved[j + 1] = values[j + 1] - out
    BY <2>5, <2>7
  <2>9. Total(moved, j) = Total(values, j) - left(j)
    BY <2>6
  <2> HIDE DEF left, moved, out
  <2>10. Total(moved, j + 1) = Total(values, j + 1) - left(j + 1)
    BY <2>2, <2>4, <2>7, <2>8, <2>9
  <2> QED
    BY <2>1, <2>10
<1>3. \A j \in 0..n : j \in T
  <2> HIDE DEF T, n
  <2> QED
    BY <1>0, <1>1, <1>2, EachNumber
<1> QED
  BY <1>3

LEMMA SmaOfPart ==
    ASSUME NEW values \in Seq(Nat), NEW others \in Seq(Nat), NEW off \in Nat, PartOf(values, others, off),
           NEW period \in Nat \ {0}, NEW k \in 1..Len(values), off = 0 \/ k >= period
    PROVE  Sma(values, period)[k] = Sma(others, period)[off + k]
<1> DEFINE i == off + k
<1>1. i \in 1..Len(others) /\ k \in 0..Len(values) /\ i \in 0..Len(others) /\ off \in 0..Len(others)
  BY DEF PartOf
<1>2. /\ Sma(values, period)[k] = IF k < period THEN Unknown ELSE Total(Moved(values, period), k) \div period
      /\ Sma(others, period)[i] = IF i < period THEN Unknown ELSE Total(Moved(others, period), i) \div period
  BY <1>1, MovedTypes
<1>3. CASE k < period
  <2>1. i = k
    BY <1>3
  <2> QED
    BY <1>2, <1>3, <2>1
<1>4. CASE k >= period
  <2>1. i >= period /\ ~(i < period) /\ ~(k < period)
    BY <1>4
  <2>2. /\ Total(Moved(values, period), k) = Total(values, k) - (IF k > period THEN Total(values, k - period) ELSE 0)
        /\ Total(Moved(others, period), i) = Total(others, i) - (IF i > period THEN Total(others, i - period) ELSE 0)
    BY <1>1, TotalOfMoved
  <2> DEFINE d == k - period
  <2>3. d \in 0..Len(values) /\ i - period = off + d /\ (k > period <=> d > 0) /\ (i > period <=> off + d > 0)
    BY <1>4
  <2>4. /\ Total(others, i) = Total(others, off) + Total(values, k)
        /\ Total(others, off + d) = Total(others, off) + Total(values, d)
    BY <1>1, <2>3, TotalOfPart
  <2>5. Total(others, off) \in Int /\ Total(values, k) \in Int /\ Total(values, d) \in Int
    BY <1>1, <2>3, TotalOfValues
  <2>6. Total(values, 0) = 0 /\ Total(others, 0) = 0
    BY TotalOfNone
  <2>7. Total(Moved(values, period), k) = Total(values, k) - Total(values, d)
    <3>1. k > period \/ d = 0
      BY <2>3
    <3> QED
      BY <2>2, <2>3, <2>5, <2>6, <3>1
  <2>8. Total(Moved(others, period), i) = Total(others, i) - Total(others, off + d)
    <3>1. i > period \/ (d = 0 /\ off + d = 0)
      BY <2>3
    <3> QED
      BY <2>2, <2>3, <2>4, <2>5, <2>6, <3>1
  <2> HIDE DEF d, i
  <2>9. Total(Moved(values, period), k) = Total(Moved(others, period), i)
    BY <2>4, <2>5, <2>7, <2>8
  <2> QED
    BY <1>2, <2>1, <2>9 DEF i
<1> QED
  BY <1>3, <1>4

\* What smooths, as an equation.
LEMMA SmoothedIs ==
    ASSUME NEW values \in Seq(Nat), NEW period \in Nat \ {0}, NEW weight \in Nat, NEW total \in Nat \ {0},
           weight <= total, NEW f, f = Smoothed(values, period, weight, total)
    PROVE  /\ \A i \in 1..Len(values) : i < period => f[i] = Unknown
           /\ \A i \in period..Len(values) :
                 f[i] = IF i = period THEN Total(values, period) \div period
                        ELSE f[i - 1] + (weight * (values[i] - f[i - 1])) \div total
BY SmoothedTypes

LEMMA SmoothedOfPart ==
    ASSUME NEW values \in Seq(Nat), NEW others \in Seq(Nat), PartOf(values, others, 0),
           NEW period \in Nat \ {0}, NEW weight \in Nat, NEW total \in Nat \ {0}, weight <= total
    PROVE  \A k \in 1..Len(values) :
               Smoothed(values, period, weight, total)[k] = Smoothed(others, period, weight, total)[k]
<1> DEFINE f == Smoothed(values, period, weight, total)
           g == Smoothed(others, period, weight, total)
           n == Len(values)
           T == {j \in 0..n : period + j <= n => f[period + j] = g[period + j]}
<1>1. n \in Nat /\ Len(others) \in Nat /\ n <= Len(others) /\ \A k \in 1..n : values[k] = others[k]
  BY DEF PartOf
<1>2. /\ \A i \in 1..n : i < period => f[i] = Unknown
      /\ \A i \in period..n :
            f[i] = IF i = period THEN Total(values, period) \div period
                   ELSE f[i - 1] + (weight * (values[i] - f[i - 1])) \div total
  <2>1. f = Smoothed(values, period, weight, total)
    OBVIOUS
  <2> HIDE DEF f
  <2> QED
    BY <2>1, SmoothedIs
<1>3. /\ \A i \in 1..Len(others) : i < period => g[i] = Unknown
      /\ \A i \in period..Len(others) :
            g[i] = IF i = period THEN Total(others, period) \div period
                   ELSE g[i - 1] + (weight * (others[i] - g[i - 1])) \div total
  <2>1. g = Smoothed(others, period, weight, total)
    OBVIOUS
  <2> HIDE DEF g
  <2> QED
    BY <2>1, SmoothedIs
<1> HIDE DEF f, g
<1>4. 0 \in T
  <2>1. ASSUME period <= n  PROVE f[period] = g[period]
    <3>1. \A i \in 1..period : others[i] \in Int /\ values[i] = others[i]
      <4> SUFFICES ASSUME NEW i \in 1..period PROVE others[i] \in Int /\ values[i] = others[i]
        OBVIOUS
      <4>1. i \in 1..n /\ i \in 1..Len(others)
        BY <1>1, <2>1
      <4> QED
        BY <1>1, <4>1
    <3>2. Total(values, period) = Total(others, period)
      BY <3>1, TotalAgrees
    <3>3. period \in period..n /\ period \in period..Len(others)
      BY <1>1, <2>1
    <3> QED
      BY <1>2, <1>3, <3>2, <3>3
  <2>2. period + 0 = period
    OBVIOUS
  <2> QED
    BY <1>1, <2>1, <2>2
<1>5. ASSUME NEW j \in 0..n - 1, j \in T  PROVE j + 1 \in T
  <2>1. ASSUME period + (j + 1) <= n  PROVE f[period + (j + 1)] = g[period + (j + 1)]
    <3> DEFINE i == period + (j + 1)
    <3>1. i \in period..n /\ i \in period..Len(others) /\ i \in 1..n /\ i # period /\ i - 1 = period + j /\ period + j <= n
      BY <1>1, <2>1
    <3>2. f[i - 1] = g[i - 1]
      BY <1>5, <3>1
    <3>3. values[i] = others[i]
      BY <1>1, <3>1
    <3>4. f[i] = f[i - 1] + (weight * (values[i] - f[i - 1])) \div total
      BY <1>2, <3>1
    <3>5. g[i] = g[i - 1] + (weight * (others[i] - g[i - 1])) \div total
      BY <1>3, <3>1
    <3> QED
      BY <3>2, <3>3, <3>4, <3>5
  <2> QED
    BY <2>1
<1>6. \A j \in 0..n : j \in T
  <2> HIDE DEF T, n
  <2> QED
    BY <1>1, <1>4, <1>5, EachNumber
<1>7. ASSUME NEW k \in 1..n  PROVE f[k] = g[k]
  <2>1. CASE k < period
    BY <1>1, <1>2, <1>3, <2>1
  <2>2. CASE ~(k < period)
    <3>1. k - period \in 0..n /\ period + (k - period) = k /\ k <= n
      BY <2>2
    <3>2. k - period \in T
      BY <1>6, <3>1
    <3> QED
      BY <3>1, <3>2
  <2> QED
    BY <2>1, <2>2
<1> QED
  BY <1>7 DEF f, g

LEMMA EmaAndWilderOfPart ==
    ASSUME NEW values \in Seq(Nat), NEW others \in Seq(Nat), PartOf(values, others, 0), NEW period \in Nat \ {0}
    PROVE  \A k \in 1..Len(values) : /\ Ema(values, period)[k] = Ema(others, period)[k]
                                     /\ Wilder(values, period)[k] = Wilder(others, period)[k]
<1>1. /\ 1 \in Nat /\ 2 \in Nat /\ 1 <= period
      /\ period + 1 \in Nat \ {0} /\ 2 <= period + 1
  OBVIOUS
<1>2. \A k \in 1..Len(values) : Smoothed(values, period, 2, period + 1)[k] = Smoothed(others, period, 2, period + 1)[k]
  BY <1>1, SmoothedOfPart
<1>3. \A k \in 1..Len(values) : Smoothed(values, period, 1, period)[k] = Smoothed(others, period, 1, period)[k]
  BY <1>1, SmoothedOfPart
<1> QED
  BY <1>2, <1>3 DEF Ema, Wilder

\* The changes of Rsi, upwards and downwards.
Gains(values) == [i \in 1..Len(values) - 1 |-> Max({values[i + 1] - values[i], 0})]
Drops(values) == [i \in 1..Len(values) - 1 |-> Max({-(values[i + 1] - values[i]), 0})]

LEMMA ChangesTypes ==
    ASSUME NEW values \in Seq(Nat), values # <<>>
    PROVE  /\ Gains(values) \in Seq(Nat) /\ Len(Gains(values)) = Len(values) - 1
           /\ Drops(values) \in Seq(Nat) /\ Len(Drops(values)) = Len(values) - 1
<1> DEFINE n == Len(values) - 1
<1>1. n \in Nat
  OBVIOUS
<1>2. ASSUME NEW i \in 1..n  PROVE Max({values[i + 1] - values[i], 0}) \in Nat /\ Max({-(values[i + 1] - values[i]), 0}) \in Nat
  <2> DEFINE c == values[i + 1] - values[i]
  <2>1. values[i + 1] \in Nat /\ values[i] \in Nat
    OBVIOUS
  <2>2. c \in Int /\ -c \in Int
    BY <2>1
  <2> HIDE DEF c
  <2>3. Max({c, 0}) \in Nat /\ Max({-c, 0}) \in Nat
    BY <2>2, MaxOfTwo
  <2> QED
    BY <2>3 DEF c
<1>3. Gains(values) \in [1..n -> Nat] /\ Drops(values) \in [1..n -> Nat]
  BY <1>2 DEF Gains, Drops
<1> HIDE DEF n
<1>4. Gains(values) \in Seq(Nat) /\ Len(Gains(values)) = n /\ Drops(values) \in Seq(Nat) /\ Len(Drops(values)) = n
  BY <1>1, <1>3
<1> QED
  BY <1>4 DEF n

LEMMA RsiIs ==
    ASSUME NEW values, NEW period, NEW i \in DOMAIN values
    PROVE  Rsi(values, period)[i] =
               IF i <= period THEN Unknown
               ELSE IF Wilder(Drops(values), period)[i - 1] = 0 THEN 10000
               ELSE (10000 * Wilder(Gains(values), period)[i - 1])
                       \div (Wilder(Gains(values), period)[i - 1] + Wilder(Drops(values), period)[i - 1])
<1> DEFINE change == [j \in 1..Len(values) - 1 |-> values[j + 1] - values[j]]
           ups == [j \in DOMAIN change |-> Max({change[j], 0})]
           downs == [j \in DOMAIN change |-> Max({-change[j], 0})]
           gained == Wilder(ups, period)
           lost == Wilder(downs, period)
           strength(j) == IF lost[j] = 0 THEN 10000 ELSE (10000 * gained[j]) \div (gained[j] + lost[j])
<1>1. ups = Gains(values) /\ downs = Drops(values)
  BY DEF Gains, Drops
<1> HIDE DEF gained, lost
<1>2. Rsi(values, period) = [j \in DOMAIN values |-> IF j <= period THEN Unknown ELSE strength(j - 1)]
  BY DEF Rsi, gained, lost
<1>3. gained = Wilder(Gains(values), period) /\ lost = Wilder(Drops(values), period)
  BY <1>1 DEF gained, lost
<1> HIDE DEF change, ups, downs
<1> QED
  BY <1>2, <1>3

LEMMA RsiOfPart ==
    ASSUME NEW values \in Seq(Nat), NEW others \in Seq(Nat), PartOf(values, others, 0), NEW period \in Nat \ {0}
    PROVE  \A k \in 1..Len(values) : Rsi(values, period)[k] = Rsi(others, period)[k]
<1> SUFFICES ASSUME NEW k \in 1..Len(values)  PROVE Rsi(values, period)[k] = Rsi(others, period)[k]
  OBVIOUS
<1>1. Len(values) <= Len(others) /\ (\A j \in 1..Len(values) : values[j] = others[j])
  BY DEF PartOf
<1>2. values # <<>> /\ others # <<>> /\ k \in DOMAIN values /\ k \in DOMAIN others
  BY <1>1
<1>3. /\ Gains(values) \in Seq(Nat) /\ Len(Gains(values)) = Len(values) - 1
      /\ Drops(values) \in Seq(Nat) /\ Len(Drops(values)) = Len(values) - 1
      /\ Gains(others) \in Seq(Nat) /\ Len(Gains(others)) = Len(others) - 1
      /\ Drops(others) \in Seq(Nat) /\ Len(Drops(others)) = Len(others) - 1
  BY <1>2, ChangesTypes
<1>4. PartOf(Gains(values), Gains(others), 0) /\ PartOf(Drops(values), Drops(others), 0)
  <2>1. ASSUME NEW j \in 1..Len(values) - 1
        PROVE  Gains(values)[j] = Gains(others)[0 + j] /\ Drops(values)[j] = Drops(others)[0 + j]
    <3>1. /\ j \in 1..Len(values) /\ j + 1 \in 1..Len(values) /\ j \in 1..Len(others) - 1 /\ 0 + j = j
      BY <1>1
    <3>2. values[j] = others[j] /\ values[j + 1] = others[j + 1]
      BY <1>1, <3>1
    <3> QED
      BY <3>1, <3>2 DEF Gains, Drops
  <2>2. Len(values) - 1 + 0 <= Len(others) - 1
    BY <1>1
  <2> QED
    BY <1>3, <2>1, <2>2 DEF PartOf
<1>5. CASE k <= period
  BY <1>2, <1>5, RsiIs
<1>6. CASE ~(k <= period)
  <2>1. k - 1 \in 1..Len(values) - 1
    BY <1>6
  <2>2. /\ Wilder(Gains(values), period)[k - 1] = Wilder(Gains(others), period)[k - 1]
        /\ Wilder(Drops(values), period)[k - 1] = Wilder(Drops(others), period)[k - 1]
    <3> DEFINE up == Gains(values)  down == Drops(values)  ups == Gains(others)  downs == Drops(others)
    <3>1. /\ up \in Seq(Nat) /\ down \in Seq(Nat) /\ ups \in Seq(Nat) /\ downs \in Seq(Nat)
          /\ PartOf(up, ups, 0) /\ PartOf(down, downs, 0)
          /\ k - 1 \in 1..Len(up) /\ k - 1 \in 1..Len(down)
      BY <1>3, <1>4, <2>1
    <3> HIDE DEF up, down, ups, downs
    <3>2. \A j \in 1..Len(up) : Wilder(up, period)[j] = Wilder(ups, period)[j]
      BY <3>1, EmaAndWilderOfPart, SMTT(30)
    <3>3. \A j \in 1..Len(down) : Wilder(down, period)[j] = Wilder(downs, period)[j]
      BY <3>1, EmaAndWilderOfPart, SMTT(30)
    <3>4. /\ Wilder(up, period)[k - 1] = Wilder(ups, period)[k - 1]
          /\ Wilder(down, period)[k - 1] = Wilder(downs, period)[k - 1]
      BY <3>1, <3>2, <3>3, Zenon
    <3> QED
      BY <3>4 DEF up, down, ups, downs
  <2>3. Rsi(values, period)[k] =
            IF Wilder(Drops(values), period)[k - 1] = 0 THEN 10000
            ELSE (10000 * Wilder(Gains(values), period)[k - 1])
                    \div (Wilder(Gains(values), period)[k - 1] + Wilder(Drops(values), period)[k - 1])
    BY <1>2, <1>6, RsiIs
  <2>4. Rsi(others, period)[k] =
            IF Wilder(Drops(others), period)[k - 1] = 0 THEN 10000
            ELSE (10000 * Wilder(Gains(others), period)[k - 1])
                    \div (Wilder(Gains(others), period)[k - 1] + Wilder(Drops(others), period)[k - 1])
    BY <1>2, <1>6, RsiIs
  <2> QED
    BY <2>2, <2>3, <2>4
<1> QED
  BY <1>5, <1>6

LEMMA PricesOfPart ==
    ASSUME NEW series \in Seq(Candles), NEW others \in Seq(Candles), NEW off \in Nat, PartOf(series, others, off),
           NEW field \in PriceFields
    PROVE  PartOf(PriceSeries(series, field), PriceSeries(others, field), off)
<1>1. Len(PriceSeries(series, field)) = Len(series) /\ Len(PriceSeries(others, field)) = Len(others)
  BY PriceTypes
<1>2. ASSUME NEW k \in 1..Len(series)  PROVE PriceSeries(series, field)[k] = PriceSeries(others, field)[off + k]
  <2>1. series[k] = others[off + k] /\ k \in DOMAIN series /\ off + k \in DOMAIN others
    BY DEF PartOf
  <2> QED
    BY <2>1 DEF PriceSeries
<1> QED
  BY <1>1, <1>2 DEF PartOf

LEMMA TrueRangeOfPart ==
    ASSUME NEW series \in Seq(Candles), NEW others \in Seq(Candles), NEW off \in Nat, PartOf(series, others, off),
           NEW k \in 1..Len(series), off = 0 \/ k >= 2
    PROVE  TrueRange(series)[k] = TrueRange(others)[off + k]
<1>1. series[k] = others[off + k] /\ k \in DOMAIN series /\ off + k \in DOMAIN others /\ (k = 1 <=> off + k = 1)
  BY DEF PartOf
<1>2. k # 1 => series[k - 1] = others[off + k - 1]
  <2> SUFFICES ASSUME k # 1 PROVE series[k - 1] = others[off + k - 1]
    OBVIOUS
  <2>1. k - 1 \in 1..Len(series) /\ off + (k - 1) = off + k - 1
    OBVIOUS
  <2> QED
    BY <2>1 DEF PartOf
<1> DEFINE last(bs, j) == IF j = 1 THEN bs[j].low ELSE bs[j - 1].close
           range(bs, j) == 100 * (Max({bs[j].high, last(bs, j)}) - Min({bs[j].low, last(bs, j)}))
<1>3. TrueRange(series)[k] = range(series, k)
  BY <1>1 DEF TrueRange
<1>4. TrueRange(others)[off + k] = range(others, off + k)
  BY <1>1 DEF TrueRange
<1>5. last(series, k) = last(others, off + k)
  BY <1>1, <1>2
<1> HIDE DEF last
<1> QED
  BY <1>1, <1>3, <1>4, <1>5

LEMMA RollingOfPart ==
    ASSUME NEW series \in Seq(Candles), NEW others \in Seq(Candles), NEW off \in Nat, PartOf(series, others, off),
           NEW period \in Nat \ {0}, NEW k \in 1..Len(series), off = 0 \/ k >= period
    PROVE  /\ RollingHigh(series, period)[k] = RollingHigh(others, period)[off + k]
           /\ RollingLow(series, period)[k] = RollingLow(others, period)[off + k]
<1> DEFINE i == off + k
<1>1. k \in DOMAIN series /\ i \in DOMAIN others
  BY DEF PartOf
<1>2. CASE k < period
  <2>1. i < period
    BY <1>2
  <2> QED
    BY <1>1, <1>2, <2>1 DEF RollingHigh, RollingLow
<1>3. CASE ~(k < period)
  <2>1. ~(i < period)
    BY <1>3
  <2> DEFINE here == k - period + 1..k
             there == i - period + 1..i
  <2>2. \A j \in here : off + j \in there /\ series[j] = others[off + j]
    <3> SUFFICES ASSUME NEW j \in here PROVE off + j \in there /\ series[j] = others[off + j]
      OBVIOUS
    <3>1. j \in 1..Len(series) /\ off + j \in there
      BY <1>3
    <3> QED
      BY <3>1 DEF PartOf
  <2>3. \A j \in there : j - off \in here /\ series[j - off] = others[j]
    <3> SUFFICES ASSUME NEW j \in there PROVE j - off \in here /\ series[j - off] = others[j]
      OBVIOUS
    <3>1. j - off \in 1..Len(series) /\ j - off \in here /\ off + (j - off) = j
      BY <1>3
    <3> QED
      BY <3>1 DEF PartOf
  <2> HIDE DEF here, there
  <2>4. /\ {series[j].high : j \in here} = {others[j].high : j \in there}
        /\ {series[j].low : j \in here} = {others[j].low : j \in there}
    <3>1. {series[j].high : j \in here} \subseteq {others[j].high : j \in there}
      BY <2>2
    <3>2. {others[j].high : j \in there} \subseteq {series[j].high : j \in here}
      BY <2>3
    <3>3. {series[j].low : j \in here} \subseteq {others[j].low : j \in there}
      BY <2>2
    <3>4. {others[j].low : j \in there} \subseteq {series[j].low : j \in here}
      BY <2>3
    <3> QED
      BY <3>1, <3>2, <3>3, <3>4
  <2>5. RollingHigh(series, period)[k] = 100 * Max({series[j].high : j \in here})
    BY <1>1, <1>3 DEF RollingHigh, here
  <2>6. RollingHigh(others, period)[i] = 100 * Max({others[j].high : j \in there})
    BY <1>1, <2>1 DEF RollingHigh, there
  <2>7. RollingLow(series, period)[k] = 100 * Min({series[j].low : j \in here})
    BY <1>1, <1>3 DEF RollingLow, here
  <2>8. RollingLow(others, period)[i] = 100 * Min({others[j].low : j \in there})
    BY <1>1, <2>1 DEF RollingLow, there
  <2> QED
    BY <2>4, <2>5, <2>6, <2>7, <2>8
<1> QED
  BY <1>2, <1>3

\* The k-th element of a part is far enough from its beginning for an indicator.
Reaches(indicator, off, k) ==
    off = 0 \/ (indicator.name \notin SmoothedNames /\ indicator.period <= k /\ 2 <= k)

LEMMA ComputeOfPart ==
    ASSUME NEW series \in Seq(Candles), NEW others \in Seq(Candles), NEW off \in Nat, PartOf(series, others, off),
           NEW indicator, indicator.name \in IndicatorNames, indicator.period \in Nat \ {0},
           NEW k \in 1..Len(series), Reaches(indicator, off, k)
    PROVE  Compute(indicator, series)[k] = Compute(indicator, others)[off + k]
<1> DEFINE period == indicator.period
           closes(bs) == PriceSeries(bs, "close")
           volumes(bs) == PriceSeries(bs, "volume")
<1>1. /\ closes(series) \in Seq(Nat) /\ closes(others) \in Seq(Nat) /\ PartOf(closes(series), closes(others), off)
      /\ Len(closes(series)) = Len(series)
  BY PriceTypes, PricesOfPart DEF PriceFields
<1>2. /\ volumes(series) \in Seq(Nat) /\ volumes(others) \in Seq(Nat) /\ PartOf(volumes(series), volumes(others), off)
      /\ Len(volumes(series)) = Len(series)
  BY PriceTypes, PricesOfPart DEF PriceFields
<1>3. period \in Nat \ {0} /\ (off = 0 \/ (indicator.name \notin SmoothedNames /\ k >= period /\ k >= 2))
  BY DEF Reaches
<1>4. off = 0 \/ k >= period
  BY <1>3
<1>5. off = 0 \/ k >= 2
  BY <1>3
<1> HIDE DEF closes, volumes, period
<1>6. Sma(closes(series), period)[k] = Sma(closes(others), period)[off + k]
  BY <1>1, <1>3, <1>4, SmaOfPart
<1>7. Sma(volumes(series), period)[k] = Sma(volumes(others), period)[off + k]
  BY <1>2, <1>3, <1>4, SmaOfPart
<1>8. /\ RollingHigh(series, period)[k] = RollingHigh(others, period)[off + k]
      /\ RollingLow(series, period)[k] = RollingLow(others, period)[off + k]
  BY <1>3, <1>4, RollingOfPart
<1>9. TrueRange(series)[k] = TrueRange(others)[off + k]
  BY <1>5, TrueRangeOfPart
<1>10. ASSUME off = 0
       PROVE  /\ Ema(closes(series), period)[k] = Ema(closes(others), period)[off + k]
              /\ Rsi(closes(series), period)[k] = Rsi(closes(others), period)[off + k]
              /\ Atr(series, period)[k] = Atr(others, period)[off + k]
  <2>1. off + k = k /\ k \in 1..Len(closes(series)) /\ PartOf(closes(series), closes(others), 0)
    BY <1>1, <1>10
  <2>2. Ema(closes(series), period)[k] = Ema(closes(others), period)[k]
    BY <1>1, <1>3, <2>1, EmaAndWilderOfPart
  <2>3. Rsi(closes(series), period)[k] = Rsi(closes(others), period)[k]
    BY <1>1, <1>3, <2>1, RsiOfPart
  <2>4. Atr(series, period)[k] = Atr(others, period)[k]
    <3> DEFINE here == TrueRange(series)
               there == TrueRange(others)
    <3>1. here \in [1..Len(series) -> Nat] /\ there \in [1..Len(others) -> Nat]
      BY TrueRangeTypes
    <3>2. /\ here \in Seq(Nat) /\ there \in Seq(Nat) /\ Len(here) = Len(series) /\ Len(there) = Len(others)
      <4>1. Len(series) \in Nat /\ Len(others) \in Nat
        OBVIOUS
      <4> HIDE DEF here, there
      <4>2. here \in Seq(Nat) /\ Len(here) = Len(series)
        BY <3>1, <4>1
      <4>3. there \in Seq(Nat) /\ Len(there) = Len(others)
        BY <3>1, <4>1
      <4> QED
        BY <4>2, <4>3
    <3>3. \A j \in 1..Len(series) : here[j] = there[0 + j]
      BY <1>10, TrueRangeOfPart
    <3>4. PartOf(here, there, 0)
      <4> HIDE DEF here, there
      <4>1. Len(series) + 0 <= Len(others)
        BY <1>10 DEF PartOf
      <4> QED
        BY <3>2, <3>3, <4>1 DEF PartOf
    <3>5. Wilder(here, period)[k] = Wilder(there, period)[k]
      <4> HIDE DEF here, there
      <4> QED
        BY <1>3, <3>2, <3>4, EmaAndWilderOfPart
    <3> QED
      BY <3>5 DEF Atr
  <2> QED
    BY <2>1, <2>2, <2>3, <2>4
<1>11. CASE indicator.name = "sma"
  BY <1>6, <1>11 DEF Compute, closes, period
<1>12. CASE indicator.name = "ema"
  BY <1>3, <1>10, <1>12 DEF Compute, closes, period, SmoothedNames
<1>13. CASE indicator.name = "rsi"
  BY <1>3, <1>10, <1>13 DEF Compute, closes, period, SmoothedNames
<1>14. CASE indicator.name = "atr"
  BY <1>3, <1>10, <1>14 DEF Compute, period, SmoothedNames
<1>15. CASE indicator.name = "rolling_high"
  BY <1>8, <1>15 DEF Compute, period
<1>16. CASE indicator.name = "rolling_low"
  BY <1>8, <1>16 DEF Compute, period
<1>17. CASE indicator.name = "volume_sma"
  BY <1>7, <1>17 DEF Compute, volumes, period
<1>18. CASE indicator.name = "true_range"
  BY <1>9, <1>18 DEF Compute, period
<1> QED
  BY <1>11, <1>12, <1>13, <1>14, <1>15, <1>16, <1>17, <1>18 DEF IndicatorNames, SmoothedNames

\* All indicators of a specification reach back, at k.
AllReach(s, off, k) == \A id \in DOMAIN s.indicators : Reaches(s.indicators[id], off, k)

LEMMA ComputedOfPart ==
    ASSUME NEW s \in Specs, NEW series \in Seq(Candles), NEW others \in Seq(Candles), NEW off \in Nat,
           PartOf(series, others, off), NEW k \in 1..Len(series), AllReach(s, off, k)
    PROVE  \A id \in DOMAIN s.indicators : Computed(s, series)[id][k] = Computed(s, others)[id][off + k]
<1>1. \A id \in DOMAIN s.indicators : /\ s.indicators[id].name \in IndicatorNames
                                      /\ s.indicators[id].period \in Nat \ {0}
  BY SpecIsValid, EvaluatorAssumption DEF ValidSpec
<1>2. \A id \in DOMAIN s.indicators : Reaches(s.indicators[id], off, k)
  BY DEF AllReach
<1>3. \A id \in DOMAIN s.indicators : Compute(s.indicators[id], series)[k] = Compute(s.indicators[id], others)[off + k]
  BY <1>1, <1>2, ComputeOfPart
<1> QED
  BY <1>3 DEF Computed

LEMMA ValueOfPart ==
    ASSUME NEW s \in Specs, NEW series \in Seq(Candles), NEW others \in Seq(Candles), NEW off \in Nat,
           PartOf(series, others, off), NEW k \in 1..Len(series), AllReach(s, off, k),
           NEW operand, ValidOperand(operand, DOMAIN s.indicators)
    PROVE  Value(operand, k, series, Computed(s, series)) = Value(operand, off + k, others, Computed(s, others))
<1>1. series[k] = others[off + k]
  BY DEF PartOf
<1>2. CASE operand.kind = "constant"
  BY <1>2 DEF Value
<1>3. CASE operand.kind = "price"
  BY <1>1, <1>3 DEF Value
<1>4. CASE operand.kind = "indicator"
  <2>1. operand.ref \in DOMAIN s.indicators
    BY <1>4 DEF ValidOperand
  <2>2. Computed(s, series)[operand.ref][k] = Computed(s, others)[operand.ref][off + k]
    BY <2>1, ComputedOfPart
  <2> QED
    BY <1>4, <2>2 DEF Value
<1> QED
  BY <1>2, <1>3, <1>4 DEF ValidOperand

\* Of a bar and the one before, if there is one: what a comparator says of their values.
Compares(op, x, y, before, x1, y1) ==
    LET known == before /\ x1 # Unknown /\ y1 # Unknown IN
    /\ x # Unknown /\ y # Unknown
    /\ CASE op = "gt" -> x > y
         [] op = "lt" -> x < y
         [] op = "gte" -> x >= y
         [] op = "lte" -> x <= y
         [] op = "cross_above" -> known /\ x1 <= y1 /\ x > y
         [] op = "cross_below" -> known /\ x1 >= y1 /\ x < y

LEMMA ComparesKnown ==
    ASSUME NEW op \in Comparators, NEW before \in BOOLEAN,
           NEW x, NEW y, NEW x1, NEW y1, NEW x2, NEW y2, before => x1 = x2 /\ y1 = y2
    PROVE  Compares(op, x, y, before, x1, y1) <=> Compares(op, x, y, before, x2, y2)
<1>1. CASE before
  BY <1>1
<1>2. CASE ~before
  BY <1>2 DEF Compares, Comparators
<1> QED
  BY <1>1, <1>2

LEMMA HoldsIs ==
    ASSUME NEW c, c.op \in Comparators, NEW j \in Nat \ {0}, NEW series, NEW computed
    PROVE  Holds(c, j, series, computed) <=>
               Compares(c.op, Value(c.left, j, series, computed), Value(c.right, j, series, computed), j - 1 > 0,
                        Value(c.left, j - 1, series, computed), Value(c.right, j - 1, series, computed))
<1>1. j > 0
  OBVIOUS
<1>2. CASE c.op = "gt"
  BY <1>1, <1>2 DEF Holds, Compares
<1>3. CASE c.op = "lt"
  BY <1>1, <1>3 DEF Holds, Compares
<1>4. CASE c.op = "gte"
  BY <1>1, <1>4 DEF Holds, Compares
<1>5. CASE c.op = "lte"
  BY <1>1, <1>5 DEF Holds, Compares
<1>6. CASE c.op = "cross_above"
  BY <1>1, <1>6 DEF Holds, Compares
<1>7. CASE c.op = "cross_below"
  BY <1>1, <1>7 DEF Holds, Compares
<1> QED
  BY <1>2, <1>3, <1>4, <1>5, <1>6, <1>7 DEF Comparators

\* A condition looks at a bar and the one before.
LEMMA HoldsOfPart ==
    ASSUME NEW s \in Specs, NEW series \in Seq(Candles), NEW others \in Seq(Candles), NEW off \in Nat,
           PartOf(series, others, off), NEW k \in 1..Len(series),
           AllReach(s, off, k), k > 1 => AllReach(s, off, k - 1), off = 0 \/ k > 1,
           NEW c, c.op \in Comparators,
           ValidOperand(c.left, DOMAIN s.indicators), ValidOperand(c.right, DOMAIN s.indicators)
    PROVE  Holds(c, k, series, Computed(s, series)) <=> Holds(c, off + k, others, Computed(s, others))
<1> DEFINE l(j) == Value(c.left, j, series, Computed(s, series))
           r(j) == Value(c.right, j, series, Computed(s, series))
           ll(j) == Value(c.left, j, others, Computed(s, others))
           rr(j) == Value(c.right, j, others, Computed(s, others))
           i == off + k
<1>1. l(k) = ll(i) /\ r(k) = rr(i)
  BY ValueOfPart
<1>2. k > 1 => l(k - 1) = ll(i - 1) /\ r(k - 1) = rr(i - 1)
  <2> SUFFICES ASSUME k > 1 PROVE l(k - 1) = ll(i - 1) /\ r(k - 1) = rr(i - 1)
    OBVIOUS
  <2>1. k - 1 \in 1..Len(series) /\ off + (k - 1) = i - 1 /\ AllReach(s, off, k - 1)
    OBVIOUS
  <2>2. /\ l(k - 1) = Value(c.left, off + (k - 1), others, Computed(s, others))
        /\ r(k - 1) = Value(c.right, off + (k - 1), others, Computed(s, others))
    BY <2>1, ValueOfPart
  <2> QED
    BY <2>1, <2>2
<1>3. (k - 1 > 0 <=> i - 1 > 0) /\ k > 0 /\ i > 0 /\ (k - 1 > 0 => k > 1)
  OBVIOUS
<1>4. Holds(c, k, series, Computed(s, series)) <=> Compares(c.op, l(k), r(k), k - 1 > 0, l(k - 1), r(k - 1))
  <2>1. k \in Nat \ {0}
    OBVIOUS
  <2> QED
    BY <2>1, HoldsIs
<1>5. Holds(c, i, others, Computed(s, others)) <=> Compares(c.op, ll(i), rr(i), i - 1 > 0, ll(i - 1), rr(i - 1))
  <2>1. i \in Nat \ {0}
    OBVIOUS
  <2> QED
    BY <2>1, HoldsIs
<1>6. Compares(c.op, l(k), r(k), k - 1 > 0, l(k - 1), r(k - 1)) <=> Compares(c.op, ll(i), rr(i), i - 1 > 0, ll(i - 1), rr(i - 1))
  <2> HIDE DEF l, r, ll, rr, i
  <2>1. (k - 1 > 0) \in BOOLEAN /\ (k - 1 > 0) = (i - 1 > 0)
    BY <1>3
  <2>2. k - 1 > 0 => l(k - 1) = ll(i - 1) /\ r(k - 1) = rr(i - 1)
    BY <1>2, <1>3
  <2>3. Compares(c.op, l(k), r(k), k - 1 > 0, l(k - 1), r(k - 1)) <=> Compares(c.op, l(k), r(k), k - 1 > 0, ll(i - 1), rr(i - 1))
    BY <2>1, <2>2, ComparesKnown
  <2> QED
    BY <1>1, <2>1, <2>3
<1> QED
  BY <1>4, <1>5, <1>6

\* The rules fire alike, at the same levels.
LEMMA FiresOfPart ==
    ASSUME NEW s \in Specs, NEW series \in Seq(Candles), NEW others \in Seq(Candles), NEW off \in Nat,
           PartOf(series, others, off), NEW k \in 1..Len(series),
           AllReach(s, off, k), k > 1 => AllReach(s, off, k - 1), off = 0 \/ k > 1, NEW e \in 1..Len(s.entries)
    PROVE  LET rule == s.entries[e]  here == Computed(s, series)  there == Computed(s, others) IN
           /\ StopBy(s, rule, k, series, here) = StopBy(s, rule, off + k, others, there)
           /\ TargetBy(s, rule, k, series, here) = TargetBy(s, rule, off + k, others, there)
           /\ Fires(s, rule, k, series, here) <=> Fires(s, rule, off + k, others, there)
<1> DEFINE rule == s.entries[e]
           here == Computed(s, series)
           there == Computed(s, others)
           i == off + k
           ids == DOMAIN s.indicators
<1>1. /\ \A c \in rule.conditions : /\ c.op \in Comparators
                                    /\ ValidOperand(c.left, ids) /\ ValidOperand(c.right, ids)
      /\ s.stop.kind \in {"percent", "atr_multiple"} /\ ValidLevel(s.stop, ids)
      /\ s.target.kind \in {"risk_multiple", "percent", "atr_multiple"} /\ ValidLevel(s.target, ids)
  BY SpecIsValid DEF ValidSpec
<1>2. series[k] = others[i]
  BY DEF PartOf
<1>3. \A c \in rule.conditions : Holds(c, k, series, here) <=> Holds(c, i, others, there)
  <2> SUFFICES ASSUME NEW c \in rule.conditions PROVE Holds(c, k, series, here) <=> Holds(c, i, others, there)
    OBVIOUS
  <2>1. c.op \in Comparators /\ ValidOperand(c.left, ids) /\ ValidOperand(c.right, ids)
    BY <1>1
  <2> QED
    BY <2>1, HoldsOfPart
<1>4. \A id \in ids : here[id][k] = there[id][i]
  BY ComputedOfPart
<1> HIDE DEF here, there, i, rule
<1>5. ASSUME NEW level \in {s.stop, s.target}, NEW reference, NEW risk
      PROVE  Distance(level, reference, risk, k, here) = Distance(level, reference, risk, i, there)
  <2>1. CASE level.kind = "atr_multiple"
    <3>1. level.ref \in ids
      BY <1>1, <2>1 DEF ValidLevel
    <3> QED
      BY <1>4, <2>1, <3>1 DEF Distance
  <2>2. CASE level.kind = "percent"
    BY <2>2 DEF Distance
  <2>3. CASE level.kind = "risk_multiple"
    BY <2>3 DEF Distance
  <2> QED
    BY <1>1, <2>1, <2>2, <2>3
<1>6. StopBy(s, rule, k, series, here) = StopBy(s, rule, i, others, there)
  BY <1>2, <1>5 DEF StopBy, StopPrice
<1>7. TargetBy(s, rule, k, series, here) = TargetBy(s, rule, i, others, there)
  BY <1>2, <1>5, <1>6 DEF TargetBy, TargetPrice
<1>8. Fires(s, rule, k, series, here) <=> Fires(s, rule, i, others, there)
  BY <1>3, <1>6, <1>7 DEF Fires
<1> QED
  BY <1>6, <1>7, <1>8 DEF here, there, i, rule

\* The first signal of a bar is the same but for the name of the bar.
LEMMA FirstOfPart ==
    ASSUME NEW s \in Specs, NEW series \in Seq(Candles), NEW others \in Seq(Candles), NEW off \in Nat,
           PartOf(series, others, off), NEW k \in 1..Len(series),
           AllReach(s, off, k), k > 1 => AllReach(s, off, k - 1), off = 0 \/ k > 1
    PROVE  LET here == Evaluate(s, series)[k]  there == Evaluate(s, others)[off + k] IN
           /\ here = <<>> <=> there = <<>>
           /\ here # <<>> => [here[1] EXCEPT !.bar = off + k] = there[1]
<1> DEFINE c == Computed(s, series)
           d == Computed(s, others)
           i == off + k
           here == SignalsAt(s, k, series, c)
           there == SignalsAt(s, i, others, d)
           one == s.entries[1]
<1>1. i \in 1..Len(others) /\ series # <<>> /\ others # <<>> /\ series[k] = others[i]
  BY DEF PartOf
<1>2. Evaluate(s, series)[k] = here /\ Evaluate(s, others)[i] = there
  BY <1>1 DEF Evaluate
<1>3. /\ DOMAIN c = DOMAIN s.indicators /\ DOMAIN d = DOMAIN s.indicators
      /\ \A id \in DOMAIN s.indicators : c[id] \in [1..Len(series) -> Number] /\ d[id] \in [1..Len(others) -> Number]
  <2>1. \A id \in DOMAIN s.indicators : /\ s.indicators[id].name \in IndicatorNames
                                        /\ s.indicators[id].period \in Nat \ {0}
    BY SpecIsValid, EvaluatorAssumption DEF ValidSpec
  <2>2. DOMAIN c = DOMAIN s.indicators /\ DOMAIN d = DOMAIN s.indicators
    BY DEF Computed
  <2>3. \A id \in DOMAIN s.indicators : Compute(s.indicators[id], series) \in [1..Len(series) -> Number]
    BY <1>1, <2>1, ComputeTypes
  <2>4. \A id \in DOMAIN s.indicators : Compute(s.indicators[id], others) \in [1..Len(others) -> Number]
    BY <1>1, <2>1, ComputeTypes
  <2> QED
    BY <2>2, <2>3, <2>4 DEF Computed
<1>4. /\ here = <<>> <=> \A e \in 1..Len(s.entries) : ~Fires(s, s.entries[e], k, series, c)
      /\ here # <<>> => here[1] = SignalBy(s, s.entries[IF Fires(s, one, k, series, c) THEN 1 ELSE 2], k, series, c)
      /\ here \in Seq(SignalsOf(k))
  <2> HIDE DEF c
  <2> QED
    BY <1>3, SignalsAtTypes
<1>5. /\ there = <<>> <=> \A e \in 1..Len(s.entries) : ~Fires(s, s.entries[e], i, others, d)
      /\ there # <<>> => there[1] = SignalBy(s, s.entries[IF Fires(s, one, i, others, d) THEN 1 ELSE 2], i, others, d)
  <2> HIDE DEF d, i
  <2> QED
    BY <1>1, <1>3, SignalsAtTypes
<1>6. \A e \in 1..Len(s.entries) :
          /\ StopBy(s, s.entries[e], k, series, c) = StopBy(s, s.entries[e], i, others, d)
          /\ TargetBy(s, s.entries[e], k, series, c) = TargetBy(s, s.entries[e], i, others, d)
          /\ Fires(s, s.entries[e], k, series, c) <=> Fires(s, s.entries[e], i, others, d)
  BY FiresOfPart
<1>7. Len(s.entries) \in 1..2
  BY SpecIsValid DEF ValidSpec
<1> HIDE DEF c, d, i, here, there
<1>8. here = <<>> <=> there = <<>>
  BY <1>4, <1>5, <1>6
<1>9. ASSUME here # <<>>  PROVE [here[1] EXCEPT !.bar = i] = there[1]
  <2>1. Fires(s, one, k, series, c) <=> Fires(s, one, i, others, d)
    BY <1>6, <1>7
  <2> DEFINE e == IF Fires(s, one, k, series, c) THEN 1 ELSE 2
             rule == s.entries[e]
  <2>2. e \in 1..Len(s.entries)
    <3>1. \E f \in 1..Len(s.entries) : Fires(s, s.entries[f], k, series, c)
      BY <1>4, <1>9
    <3>2. CASE Fires(s, one, k, series, c)
      BY <1>7, <3>2
    <3>3. CASE ~Fires(s, one, k, series, c)
      BY <1>7, <3>1, <3>3
    <3> QED
      BY <3>2, <3>3
  <2>3. here[1] = SignalBy(s, rule, k, series, c) /\ there[1] = SignalBy(s, rule, i, others, d)
    BY <1>4, <1>5, <1>8, <1>9, <2>1
  <2> HIDE DEF e
  <2>4. [SignalBy(s, rule, k, series, c) EXCEPT !.bar = i] = SignalBy(s, rule, i, others, d)
    BY <1>1, <1>6, <2>2 DEF SignalBy
  <2> QED
    BY <2>3, <2>4
<1> QED
  BY <1>2, <1>8, <1>9 DEF i

-----------------------------------------------------------------------------
(* The ticks act as the backtest would.                                    *)

LEMMA PeriodsAreShorter ==
    ASSUME NEW s \in Specs
    PROVE  Longest(s) \in Int /\ \A id \in DOMAIN s.indicators : s.indicators[id].period <= Longest(s)
<1> DEFINE P == {1} \cup {s.indicators[id].period : id \in DOMAIN s.indicators}
           T == {MaxPeriod - x : x \in P}
<1>1. MaxPeriod \in Nat \ {0} /\ \A id \in DOMAIN s.indicators : s.indicators[id].period \in 1..MaxPeriod
  BY SpecIsValid, EvaluatorAssumption DEF ValidSpec
<1>2. \A x \in P : x \in 1..MaxPeriod
  BY <1>1
<1>3. 1 \in P
  OBVIOUS
<1>4. \A id \in DOMAIN s.indicators : s.indicators[id].period \in P
  OBVIOUS
<1>5. Longest(s) = Max(P)
  BY DEF Longest
<1> HIDE DEF P
<1>6. T \in SUBSET Nat /\ T # {}
  BY <1>1, <1>2, <1>3
<1>7. PICK m \in T : \A t \in T : m <= t
  <2> HIDE DEF T
  <2> QED
    BY <1>6, LeastNumber
<1>8. PICK x \in P : m = MaxPeriod - x
  BY <1>7
<1>9. \A y \in P : x >= y
  <2> SUFFICES ASSUME NEW y \in P PROVE x >= y
    OBVIOUS
  <2>1. MaxPeriod - y \in T
    OBVIOUS
  <2>2. m <= MaxPeriod - y
    BY <1>7, <2>1
  <2> QED
    BY <1>1, <1>2, <1>8, <2>2
<1>10. \A y \in P : Max(P) >= y
  BY <1>9 DEF Max
<1>11. Max(P) \in P
  BY <1>9 DEF Max
<1> QED
  BY <1>2, <1>4, <1>5, <1>10, <1>11

LEMMA ActionableIs ==
    ASSUME TypeOK, NEW i \in Index, WindowSuffices(i)
    PROVE  Actionable(i) = IF Evaluate(spec, bars)[i] = <<>> THEN None ELSE Evaluate(spec, bars)[i][1]
<1> DEFINE a == Max({1, i - History + 1})
           w == SubSeq(bars, a, i)
           n == Len(w)
           off == a - 1
           latest == Evaluate(spec, w)[n]
           whole == Evaluate(spec, bars)[i]
<1>1. i \in 1..N /\ N \in Nat /\ History \in Nat \ {0} /\ spec \in Specs /\ bars \in Seq(Candles) /\ Len(bars) = N
  BY ConstantTypes, BarTypes DEF Index
<1>2. a = (IF 1 >= i - History + 1 THEN 1 ELSE i - History + 1) /\ a \in 1..i
  <2>1. i - History + 1 \in Int /\ i - History + 1 <= i /\ 1 \in Int
    BY <1>1
  <2>2. a = IF 1 >= i - History + 1 THEN 1 ELSE i - History + 1
    BY <2>1, MaxOfTwo
  <2> QED
    BY <1>1, <2>1, <2>2
<1> HIDE DEF a
<1>3. w \in Seq(Candles) /\ n = i - a + 1 /\ \A k \in 1..n : w[k] = bars[off + k]
  <2>1. w \in Seq(Candles) /\ Len(w) = i - a + 1
    BY <1>1, <1>2
  <2>2. ASSUME NEW k \in 1..i - a + 1  PROVE w[k] = bars[off + k]
    <3>1. a + k - 1 = off + k
      BY <1>2
    <3> QED
      BY <1>1, <1>2, <3>1
  <2> QED
    BY <2>1, <2>2
<1>4. off \in Nat /\ n \in 1..n /\ off + n = i /\ w # <<>>
  <2>1. off \in Nat /\ n \in Nat /\ n >= 1 /\ off + n = i
    BY <1>1, <1>2, <1>3
  <2> HIDE DEF w
  <2> QED
    BY <2>1
<1> HIDE DEF w
<1>5. PartOf(w, bars, off)
  BY <1>1, <1>3, <1>4 DEF PartOf
<1>6. off = 0 \/ (/\ n = History /\ History > Longest(spec) /\ History > 2
                  /\ \A id \in DOMAIN spec.indicators : spec.indicators[id].name \notin SmoothedNames)
  BY <1>1, <1>2, <1>3 DEF WindowSuffices
<1>7. AllReach(spec, off, n) /\ (n > 1 => AllReach(spec, off, n - 1)) /\ (off = 0 \/ n > 1)
  <2>1. CASE off = 0
    BY <2>1 DEF AllReach, Reaches
  <2>2. CASE off # 0
    <3>1. \A id \in DOMAIN spec.indicators : spec.indicators[id].period \in 1..MaxPeriod
      BY <1>1, SpecIsValid DEF ValidSpec
    <3>2. MaxPeriod \in Nat
      BY EvaluatorAssumption
    <3>3. \A id \in DOMAIN spec.indicators : spec.indicators[id].period <= Longest(spec)
      BY <1>1, PeriodsAreShorter
    <3>4. Longest(spec) \in Int
      BY <1>1, PeriodsAreShorter
    <3>5. \A id \in DOMAIN spec.indicators : spec.indicators[id].period <= n - 1 /\ spec.indicators[id].period <= n
      BY <1>1, <1>6, <2>2, <3>1, <3>2, <3>3, <3>4
    <3>6. 2 <= n - 1 /\ 2 <= n
      BY <1>1, <1>6, <2>2
    <3> QED
      BY <1>6, <2>2, <3>5, <3>6 DEF AllReach, Reaches
  <2> QED
    BY <2>1, <2>2
<1> HIDE DEF n, off
<1>8. /\ latest = <<>> <=> whole = <<>>
      /\ latest # <<>> => [latest[1] EXCEPT !.bar = i] = whole[1]
  <2>1. n \in 1..Len(w)
    BY <1>4 DEF n
  <2> QED
    BY <1>1, <1>3, <1>4, <1>5, <1>7, <2>1, FirstOfPart
<1>9. Actionable(i) = LET last == Last(Evaluate(spec, w)) IN
                      IF last = <<>> THEN None ELSE [Head(last) EXCEPT !.bar = i]
  BY DEF Actionable, Window, a, w
<1>10. Last(Evaluate(spec, w)) = latest /\ latest \in Seq(SignalsOf(n))
  <2> DEFINE all == Evaluate(spec, w)
  <2>1. all = [j \in 1..n |-> all[j]] /\ all[n] \in Seq(SignalsOf(n)) /\ n \in Nat
    BY <1>1, <1>3, <1>4, EvaluateTypes DEF n
  <2> HIDE DEF all
  <2>2. Len(all) = n
    BY <2>1
  <2>3. Last(all) = all[n]
    BY <2>2 DEF Last
  <2> QED
    BY <2>1, <2>3 DEF all
<1> HIDE DEF latest, whole
<1>11. latest # <<>> => Head(latest) = latest[1]
  BY <1>10
<1> QED
  BY <1>8, <1>9, <1>10, <1>11 DEF whole

\* What the ticks acted on is kept as it was.
LiveInv ==
    /\ \A i \in 1..Len(acted) : acted[i] = Actionable(i)
    /\ pc # "live" => Len(acted) = N /\ signals = Evaluate(spec, bars)

LEMMA LiveStep == TypeOK /\ LiveInv /\ [Next]_vars => LiveInv'
<1> SUFFICES ASSUME TypeOK, LiveInv, [Next]_vars PROVE LiveInv'
  OBVIOUS
<1>0. acted \in Seq(Signals \cup {None})
  BY DEF TypeOK
<1>1. CASE LiveTick
  <2> DEFINE n == Len(acted)
             x == Actionable(n + 1)
  <2>1. acted' = Append(acted, x) /\ pc = "live" /\ pc' = pc /\ UNCHANGED <<bars, spec, signals>>
    BY <1>1 DEF LiveTick
  <2>2. \A i : Actionable(i)' = Actionable(i)
    BY <2>1 DEF Actionable, Window
  <2>3. Len(acted') = n + 1 /\ acted'[n + 1] = x /\ \A i \in 1..n : acted'[i] = acted[i]
    <3> HIDE DEF x
    <3> QED
      BY <1>0, <2>1
  <2>4. \A i \in 1..n + 1 : acted'[i] = Actionable(i)
    <3>1. n \in Nat /\ \A i \in 1..n + 1 : i \in 1..n \/ i = n + 1
      BY <1>0
    <3> QED
      BY <2>3, <3>1 DEF LiveInv
  <2> QED
    BY <2>1, <2>2, <2>3, <2>4 DEF LiveInv
<1>2. CASE EvaluateAll
  <2>1. UNCHANGED <<bars, spec, acted>> /\ Len(acted) = N /\ signals' = Evaluate(spec, bars)
    BY <1>2 DEF EvaluateAll
  <2>2. \A i : Actionable(i)' = Actionable(i)
    BY <2>1 DEF Actionable, Window
  <2>3. Evaluate(spec, bars)' = Evaluate(spec, bars)
    BY <2>1
  <2> QED
    BY <2>1, <2>2, <2>3 DEF LiveInv
<1>3. CASE UNCHANGED input /\ (pc' = "live" <=> pc = "live")
  <2>1. UNCHANGED <<bars, spec, acted, signals>>
    BY <1>3 DEF input
  <2>2. \A i : Actionable(i)' = Actionable(i)
    BY <2>1 DEF Actionable, Window
  <2>3. Evaluate(spec, bars)' = Evaluate(spec, bars)
    BY <2>1
  <2> QED
    BY <1>3, <2>1, <2>2, <2>3 DEF LiveInv
<1>4. CASE ~LiveTick /\ ~EvaluateAll
  <2>1. UNCHANGED input /\ (pc' = "live" <=> pc = "live")
    BY <1>4 DEF Next, Engine, EngineBar, EngineEnd, Verifier, VerifierStep, VerifierEnd, Compare, Select, vars
  <2> QED
    BY <1>3, <2>1
<1> QED
  BY <1>1, <1>2, <1>4

LEMMA LiveFollows == TypeOK /\ LiveInv => LiveActsAsBacktested
<1> SUFFICES ASSUME TypeOK, LiveInv, pc # "live", NEW i \in Index, WindowSuffices(i)
             PROVE  acted[i] = FirstAt(i)
  BY DEF LiveActsAsBacktested
<1>1. Len(acted) = N /\ signals = Evaluate(spec, bars)
  BY DEF LiveInv
<1>2. acted[i] = Actionable(i)
  BY <1>1 DEF LiveInv, Index
<1>3. Actionable(i) = IF signals[i] = <<>> THEN None ELSE signals[i][1]
  BY <1>1, ActionableIs
<1>4. FirstAt(i) = IF signals[i] = <<>> THEN None ELSE signals[i][1]
  BY FirstTypes DEF FirstAt
<1> QED
  BY <1>2, <1>3, <1>4

\* A tick acts on the bar that closed exactly as the backtest does on the whole series,
\* whatever the candles and the rules are, when its window reaches as far as the rules look.
THEOREM LiveActsAsBacktestedAlways == Spec => []LiveActsAsBacktested
<1>1. Init => LiveInv
  BY DEF Init, LiveInv
<1> QED
  BY <1>1, InitTypes, TypeStep, LiveStep, LiveFollows, PTL DEF Spec
=============================================================================
