------------------------------ MODULE MCReplay ------------------------------
(* Replay for TLC: candles around a price of 10, with stops about 2 away. *)
EXTENDS Replay

Candle(o, h, l, c, v) == [open |-> o, high |-> h, low |-> l, close |-> c, volume |-> v]

\* One that touches nothing, one that touches a target, one that touches both
\* sides, and one that opens beyond the stop of a short.
MCCandles ==
    {Candle(10, 11, 9, 10, 1), Candle(10, 12, 10, 11, 2), Candle(10, 13, 7, 10, 3), Candle(13, 13, 12, 12, 1)}

Condition(left, op, right) == [left |-> left, op |-> op, right |-> right]
Rule(side, conditions) == [side |-> side, conditions |-> conditions]
Level(kind, value) == [kind |-> kind, value |-> value]
Of(name, period) == [name |-> name, period |-> period]

\* Either side when the close crosses its mean.
Crossing ==
    [indicators |-> [mean |-> Of("sma", 2)],
     entries |-> <<Rule("LONG", {Condition(Price("close"), "cross_above", Indicator("mean"))}),
                   Rule("SHORT", {Condition(Price("close"), "cross_below", Indicator("mean"))})>>,
     stop |-> Level("percent", 20), target |-> Level("risk_multiple", 1), maxBars |-> 2]

\* Both sides of a range, which one bar may touch together; the short is the first rule.
Breakout ==
    [indicators |-> [top |-> Of("rolling_high", 2), bottom |-> Of("rolling_low", 2)],
     entries |-> <<Rule("SHORT", {Condition(Price("low"), "lte", Indicator("bottom"))}),
                   Rule("LONG", {Condition(Price("high"), "gte", Indicator("top"))})>>,
     stop |-> Level("percent", 20), target |-> Level("percent", 20), maxBars |-> 2]

\* Levels set by the true range of one bar, with the range and the volume as conditions.
Ranging ==
    [indicators |-> [range |-> Of("true_range", 1), busy |-> Of("volume_sma", 2)],
     entries |-> <<Rule("LONG", {Condition(Price("volume"), "gte", Indicator("busy")),
                                 Condition(Indicator("range"), "gt", Constant(100))})>>,
     stop |-> Level("atr_multiple", 1) @@ [ref |-> "range"],
     target |-> Level("atr_multiple", 1) @@ [ref |-> "range"], maxBars |-> 1]

\* Smoothed indicators.
Smooth ==
    [indicators |-> [slow |-> Of("ema", 2), wide |-> Of("atr", 2), strength |-> Of("rsi", 1)],
     entries |-> <<Rule("LONG", {Condition(Price("close"), "lte", Indicator("slow")),
                                 Condition(Indicator("strength"), "lt", Constant(6000))}),
                   Rule("SHORT", {Condition(Price("close"), "gt", Indicator("slow"))})>>,
     stop |-> Level("atr_multiple", 1) @@ [ref |-> "wide"],
     target |-> Level("risk_multiple", 1), maxBars |-> 2]

\* Always; the target of the short would be below zero, so there is only the long.
Steady ==
    [indicators |-> <<>>,
     entries |-> <<Rule("SHORT", {Condition(Price("close"), "gt", Constant(0))}),
                   Rule("LONG", {Condition(Price("close"), "gt", Constant(0))})>>,
     stop |-> Level("percent", 20), target |-> Level("risk_multiple", 5), maxBars |-> 2]

MCSpecs == {Crossing, Breakout, Ranging, Smooth, Steady}

\* A tenth to a half.
MCStopBand == 1000..5000
=============================================================================
