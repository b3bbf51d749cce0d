------------------------------ MODULE Evaluator ------------------------------
(***************************************************************************)
(* The rules of a strategy, evaluated over a series of candles.            *)
(*                                                                         *)
(* A candle has whole prices and a whole volume; values are in hundredths, *)
(* and a quotient is rounded down to one. Bars count from one. Percentages *)
(* and multiples are whole.                                                *)
(***************************************************************************)
EXTENDS Integers, Sequences, SequencesExt

CONSTANTS
    Unknown,    \* an indicator without enough history, a level that cannot be set
    MaxPeriod   \* the longest period an indicator may have

ASSUME EvaluatorAssumption == MaxPeriod \in Nat \ {0}

Sides == {"LONG", "SHORT"}
Comparators == {"gt", "lt", "gte", "lte", "cross_above", "cross_below"}
PriceFields == {"open", "high", "low", "close", "volume"}

-----------------------------------------------------------------------------
(***************************************************************************)
(* The indicators: at bar i, from the bars up to i                         *)
(***************************************************************************)

PriceSeries(series, field) == [i \in DOMAIN series |-> 100 * series[i][field]]

\* sum: of the first n values.
Total(values, n) ==
    LET sum[i \in 0..n] == IF i = 0 THEN 0 ELSE sum[i - 1] + values[i] IN sum[n]

\* A running sum, from which the value that leaves the window is taken.
Sma(values, period) ==
    LET moved == [i \in DOMAIN values |->
                     values[i] - (IF i > period THEN values[i - period] ELSE 0)]
    IN [i \in DOMAIN values |-> IF i < period THEN Unknown ELSE Total(moved, i) \div period]

\* Seeded with the mean of the first values, then moved towards each later one,
\* by weight parts in total of the difference.
Smoothed(values, period, weight, total) ==
    LET smooth[i \in period..Len(values)] ==
            IF i = period THEN Total(values, period) \div period
            ELSE smooth[i - 1] + (weight * (values[i] - smooth[i - 1])) \div total
    IN [i \in DOMAIN values |-> IF i < period THEN Unknown ELSE smooth[i]]

Ema(values, period) == Smoothed(values, period, 2, period + 1)

\* (last * (period - 1) + value) / period.
Wilder(values, period) == Smoothed(values, period, 1, period)

\* 100 when nothing was lost. The change at i is the one from bar i to the next.
Rsi(values, period) ==
    LET change == [i \in 1..Len(values) - 1 |-> values[i + 1] - values[i]]
        gained == Wilder([i \in DOMAIN change |-> Max({change[i], 0})], period)
        lost == Wilder([i \in DOMAIN change |-> Max({-change[i], 0})], period)
        strength(i) == IF lost[i] = 0 THEN 10000 ELSE (10000 * gained[i]) \div (gained[i] + lost[i])
    IN [i \in DOMAIN values |-> IF i <= period THEN Unknown ELSE strength(i - 1)]

TrueRange(series) ==
    [i \in DOMAIN series |->
        LET last == IF i = 1 THEN series[i].low ELSE series[i - 1].close
            high == Max({series[i].high, last})
            low == Min({series[i].low, last})
        IN 100 * (high - low)]

Atr(series, period) == Wilder(TrueRange(series), period)

\* Mutant: the slice ends one bar late.
RollingHigh_Ahead(series, period) ==
    [i \in DOMAIN series |->
        IF i < period THEN Unknown
        ELSE 100 * Max({series[j].high : j \in i - period + 1..Min({i + 1, Len(series)})})]

RollingHigh(series, period) ==
    [i \in DOMAIN series |->
        IF i < period THEN Unknown ELSE 100 * Max({series[j].high : j \in i - period + 1..i})]

RollingLow(series, period) ==
    [i \in DOMAIN series |->
        IF i < period THEN Unknown ELSE 100 * Min({series[j].low : j \in i - period + 1..i})]

\* The indicators whose value depends on where the series begins, and the others.
SmoothedNames == {"ema", "rsi", "atr"}
IndicatorNames == SmoothedNames \cup {"sma", "rolling_high", "rolling_low", "volume_sma", "true_range"}

Compute(indicator, series) ==
    LET closes == PriceSeries(series, "close")  period == indicator.period IN
    CASE indicator.name = "sma" -> Sma(closes, period)
      [] indicator.name = "ema" -> Ema(closes, period)
      [] indicator.name = "rsi" -> Rsi(closes, period)
      [] indicator.name = "atr" -> Atr(series, period)
      [] indicator.name = "rolling_high" -> RollingHigh(series, period)
      [] indicator.name = "rolling_low" -> RollingLow(series, period)
      [] indicator.name = "volume_sma" -> Sma(PriceSeries(series, "volume"), period)
      [] indicator.name = "true_range" -> TrueRange(series)

-----------------------------------------------------------------------------
(***************************************************************************)
(* The specification of a strategy                                         *)
(***************************************************************************)

\* The three kinds of operand.
Constant(value) == [kind |-> "constant", value |-> value]
Price(field) == [kind |-> "price", ref |-> field]
Indicator(id) == [kind |-> "indicator", ref |-> id]

ValidOperand(operand, ids) ==
    \/ operand.kind = "constant" /\ operand.value \in Int
    \/ operand.kind = "price" /\ operand.ref \in PriceFields
    \/ operand.kind = "indicator" /\ operand.ref \in ids

\* A stop or a target: a percentage, or a multiple of an indicator; any one will do.
ValidLevel(level, ids) ==
    /\ level.value \in Nat \ {0}
    /\ level.kind = "percent" => level.value < 100
    /\ level.kind = "atr_multiple" => level.ref \in ids

ValidSpec(spec) ==
    LET ids == DOMAIN spec.indicators IN
    /\ \A id \in ids : /\ spec.indicators[id].name \in IndicatorNames
                       /\ spec.indicators[id].period \in 1..MaxPeriod
    /\ Len(spec.entries) \in 1..2
    /\ \A k \in DOMAIN spec.entries :
          /\ spec.entries[k].side \in Sides /\ spec.entries[k].conditions # {}
          /\ \A c \in spec.entries[k].conditions :
                c.op \in Comparators /\ ValidOperand(c.left, ids) /\ ValidOperand(c.right, ids)
    /\ Len(spec.entries) = 2 => spec.entries[1].side # spec.entries[2].side
    /\ spec.stop.kind \in {"percent", "atr_multiple"} /\ ValidLevel(spec.stop, ids)
    /\ spec.target.kind \in {"risk_multiple", "percent", "atr_multiple"} /\ ValidLevel(spec.target, ids)
    /\ spec.maxBars \in Nat \ {0}

-----------------------------------------------------------------------------
(***************************************************************************)
(* evaluate                                                                *)
(***************************************************************************)

Computed(spec, series) == [id \in DOMAIN spec.indicators |-> Compute(spec.indicators[id], series)]

Value(operand, i, series, computed) ==
    CASE operand.kind = "constant" -> operand.value
      [] operand.kind = "price" -> 100 * series[i][operand.ref]
      [] operand.kind = "indicator" -> computed[operand.ref][i]

\* A value that is unknown satisfies nothing; the first bar crosses nothing.
Holds(condition, i, series, computed) ==
    LET left(j) == Value(condition.left, j, series, computed)
        right(j) == Value(condition.right, j, series, computed)
        known(j) == j > 0 /\ left(j) # Unknown /\ right(j) # Unknown
    IN /\ known(i)
       /\ CASE condition.op = "gt" -> left(i) > right(i)
            [] condition.op = "lt" -> left(i) < right(i)
            [] condition.op = "gte" -> left(i) >= right(i)
            [] condition.op = "lte" -> left(i) <= right(i)
            [] condition.op = "cross_above" ->
                  known(i - 1) /\ left(i - 1) <= right(i - 1) /\ left(i) > right(i)
            [] condition.op = "cross_below" ->
                  known(i - 1) /\ left(i - 1) >= right(i - 1) /\ left(i) < right(i)

\* How far a level is from the reference, or Unknown; risk is the distance of the stop.
Distance(level, reference, risk, i, computed) ==
    CASE level.kind = "percent" -> (reference * level.value) \div 100
      [] level.kind = "risk_multiple" -> risk * level.value
      [] level.kind = "atr_multiple" ->
            IF computed[level.ref][i] = Unknown THEN Unknown ELSE computed[level.ref][i] * level.value

\* A level that is at the reference, or not above zero, is none.
LevelAt(reference, distance, above) ==
    IF distance = Unknown THEN Unknown
    ELSE IF distance <= 0 \/ (~above /\ distance >= reference) THEN Unknown
    ELSE IF above THEN reference + distance ELSE reference - distance

StopPrice(spec, side, reference, i, computed) ==
    LevelAt(reference, Distance(spec.stop, reference, 0, i, computed), side = "SHORT")

TargetPrice(spec, side, reference, stop, i, computed) ==
    LET risk == IF stop > reference THEN stop - reference ELSE reference - stop
    IN LevelAt(reference, Distance(spec.target, reference, risk, i, computed), side = "LONG")

\* The signals of one bar, in the order of the rules. Stop, reference and target are in
\* order by the way the levels are set.
SignalsAt(spec, i, series, computed) ==
    LET reference == 100 * series[i].close
        stop(rule) == StopPrice(spec, rule.side, reference, i, computed)
        target(rule) == TargetPrice(spec, rule.side, reference, stop(rule), i, computed)
        signal(rule) == [bar |-> i, side |-> rule.side, reference |-> reference,
                         stop |-> stop(rule), target |-> target(rule)]
        fires(rule) == /\ \A c \in rule.conditions : Holds(c, i, series, computed)
                       /\ stop(rule) # Unknown
                       /\ target(rule) # Unknown
        fired[k \in 0..Len(spec.entries)] ==
            IF k = 0 THEN <<>>
            ELSE IF fires(spec.entries[k]) THEN Append(fired[k - 1], signal(spec.entries[k]))
            ELSE fired[k - 1]
    IN fired[Len(spec.entries)]

Evaluate(spec, series) ==
    LET computed == Computed(spec, series)
    IN [i \in DOMAIN series |-> SignalsAt(spec, i, series, computed)]

\* The longest period of an indicator.
Longest(spec) == Max({1} \cup {spec.indicators[id].period : id \in DOMAIN spec.indicators})
=============================================================================
