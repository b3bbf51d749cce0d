------------------------------- MODULE Replay -------------------------------
(***************************************************************************)
(* One candidate of the research loop: its rules are evaluated over past   *)
(* bars, replayed by the backtest engine, bar by bar, and by the verifier, *)
(* trade by trade; the two are compared, and the gates decide. Before all  *)
(* that, the ticks of the same bars as they closed, had it been live: each *)
(* evaluates the latest bars only.                                         *)
(*                                                                         *)
(* Prices and money are kept in hundredths, and fees are rounded down.     *)
(*                                                                         *)
(* pc: live -> engine -> verifier -> compare -> select -> done.            *)
(***************************************************************************)
EXTENDS Sizing, Evaluator

CONSTANTS
    N,            \* bars in the sample
    Candles,      \* records of open, high, low, close and volume
    Specs,        \* the specifications that may be proposed
    History,      \* history_bars: how many bars a tick has
    FeePct,       \* fee_rate
    SlipPct,      \* slippage_rate
    StartEquity,  \* starting_equity
    MinTrades,    \* SEL-01
    MaxDropPct,   \* SEL-02: max_drawdown
    MinFactorPct, \* SEL-03: min_profit_factor, in percent
    StopBand,     \* SEL-07: the feasible stop distances, in hundredths of a percent
    None          \* no position, no signal

ASSUME ReplayAssumption ==
    /\ N \in Nat \ {0, 1}
    /\ Candles \subseteq {k \in [open : Nat, high : Nat, low : Nat, close : Nat, volume : Nat] :
                             /\ k.low > 0
                             /\ k.open \in k.low..k.high /\ k.close \in k.low..k.high}
    /\ \A spec \in Specs : ValidSpec(spec)
    /\ History \in Nat \ {0} /\ StopBand \subseteq Nat
    /\ FeePct \in 0..99 /\ SlipPct \in 0..99
    /\ StartEquity \in Nat \ {0}
    /\ MinTrades \in Nat /\ MaxDropPct \in Nat /\ MinFactorPct \in Nat

VARIABLES
    bars,      \* the series
    spec,      \* the specification
    acted,     \* live: for each bar that closed, the signal acted on, or None
    signals,   \* evaluate over the whole series: for each bar, its signals
    pc,        \* the stage
    index,     \* engine: the next bar
    equity,    \* engine
    position,  \* engine: the open position, or None
    pending,   \* engine: the signal to fill at the next open, or None
    trades,    \* engine: the closed trades
    curve,     \* engine: equity_curve
    cursor,    \* verifier: the next bar to look for a signal at
    found,     \* verifier: the trades, as pairs of entry and exit bar
    balance,   \* verifier: equity
    outcome    \* what became of the candidate

input == <<bars, spec, acted, signals>>
engine == <<index, equity, position, pending, trades, curve>>
verifier == <<cursor, found, balance>>
vars == <<input, pc, engine, verifier, outcome>>

Index == 1..N

Signals == [bar : Index, side : Sides, reference : Nat, stop : Nat, target : Nat]
Positions == [entry : Index, signal : Signals, price : Nat, quantity : Nat \ {0}, fee : Nat]
Trades == [entry : Index, exit : Index, side : Sides,
           reason : {"STOP", "TARGET", "TIME", "END_OF_DATA"},
           gross : Int, entryFee : Nat, exitFee : Nat]

ASSUME NoneAssumption == None \notin Signals \cup Positions

-----------------------------------------------------------------------------
(***************************************************************************)
(* Signals, fills and fees                                                 *)
(***************************************************************************)

\* Of two signals of one bar the engine keeps the first and the verifier the last.
FirstAt(i) == IF signals[i] = <<>> THEN None ELSE Head(signals[i])
LastAt(i) == IF signals[i] = <<>> THEN None ELSE Last(signals[i])

\* Slippage is against the trader, always.
FillPrice(price, side, entering) ==
    IF (side = "LONG") = entering THEN price * (100 + SlipPct) ELSE price * (100 - SlipPct)

Fee(notional) == (notional * FeePct) \div 100

\* The same call of size_position in both engines: one position, all of the equity free.
Sized(signal, entry, money) ==
    [equity |-> money, free |-> money, entry |-> entry, stop |-> signal.stop, side |-> signal.side,
     open |-> 0, deployed |-> 0, multiplier |-> 100]

Stopped(signal, i) ==
    IF signal.side = "LONG" THEN 100 * bars[i].low <= signal.stop
    ELSE 100 * bars[i].high >= signal.stop

Targeted(signal, i) ==
    IF signal.side = "LONG" THEN 100 * bars[i].high >= signal.target
    ELSE 100 * bars[i].low <= signal.target

Gross(side, quantity, from, to) == IF side = "LONG" THEN (to - from) * quantity ELSE (from - to) * quantity

-----------------------------------------------------------------------------
(***************************************************************************)
(* The ticks, and the evaluation of the whole series                       *)
(***************************************************************************)

\* The bars a tick has when bar i is the last one closed.
Window(i) == SubSeq(bars, Max({1, i - History + 1}), i)

\* The first signal of the last bar; its bar is named by its place in the whole series.
Actionable(i) ==
    LET latest == Last(Evaluate(spec, Window(i)))
    IN IF latest = <<>> THEN None ELSE [Head(latest) EXCEPT !.bar = i]

LiveTick ==
    /\ pc = "live" /\ Len(acted) < N
    /\ acted' = Append(acted, Actionable(Len(acted) + 1))
    /\ UNCHANGED <<bars, spec, signals, pc, engine, verifier, outcome>>

EvaluateAll ==
    /\ pc = "live" /\ Len(acted) = N
    /\ signals' = Evaluate(spec, bars)
    /\ pc' = "engine"
    /\ UNCHANGED <<bars, spec, acted, engine, verifier, outcome>>

-----------------------------------------------------------------------------
(***************************************************************************)
(* run_backtest                                                            *)
(***************************************************************************)

\* Mutant: a bar that touches both resolves to the target.
ExitReason_TargetFirst(p, i) ==
    IF i = p.entry THEN "NONE"
    ELSE IF Targeted(p.signal, i) THEN "TARGET"
    ELSE IF Stopped(p.signal, i) THEN "STOP"
    ELSE IF i - p.entry >= spec.maxBars THEN "TIME"
    ELSE "NONE"

\* _resolve_exit: never on the bar of the entry; the stop before the target.
ExitReason(p, i) ==
    IF i = p.entry THEN "NONE"
    ELSE IF Stopped(p.signal, i) THEN "STOP"
    ELSE IF Targeted(p.signal, i) THEN "TARGET"
    ELSE IF i - p.entry >= spec.maxBars THEN "TIME"
    ELSE "NONE"

\* _close: a stop or a target fills at its price, any other exit with slippage.
Closed(p, i, reason) ==
    LET exit == CASE reason = "STOP" -> p.signal.stop
                  [] reason = "TARGET" -> p.signal.target
                  [] OTHER -> FillPrice(bars[i].close, p.signal.side, FALSE)
    IN [entry |-> p.entry, exit |-> i, side |-> p.signal.side, reason |-> reason,
        gross |-> Gross(p.signal.side, p.quantity, p.price, exit),
        entryFee |-> p.fee, exitFee |-> Fee(exit * p.quantity)]

Net(trade) == trade.gross - trade.entryFee - trade.exitFee

\* What a closed trade adds to the equity: its entry fee is already gone.
Charged(trade) == trade.gross - trade.exitFee

\* The position after this bar's open: a pending signal is filled if its size is accepted.
Opened(i) ==
    LET price == FillPrice(bars[i].open, pending.side, TRUE)
        request == Sized(pending, price, equity)
    IN IF position # None \/ pending = None THEN position
       ELSE IF ~Accepted(request) THEN None
       ELSE [entry |-> i, signal |-> pending, price |-> price, quantity |-> Quantity(request),
             fee |-> Fee(Quantity(request) * price)]

EngineBar ==
    /\ pc = "engine" /\ index <= N
    /\ LET p == Opened(index)
           paid == IF p # None /\ position = None THEN equity - p.fee ELSE equity
           reason == IF p = None THEN "NONE" ELSE ExitReason(p, index)
           trade == Closed(p, index, reason)
       IN /\ equity' = IF reason = "NONE" THEN paid ELSE paid + Charged(trade)
          /\ trades' = IF reason = "NONE" THEN trades ELSE Append(trades, trade)
          /\ position' = IF reason = "NONE" THEN p ELSE None
    /\ pending' = IF position' = None THEN FirstAt(index) ELSE None
    /\ curve' = Append(curve, equity')
    /\ index' = index + 1
    /\ UNCHANGED <<input, pc, verifier, outcome>>

\* What is still open is closed at the last close, with slippage.
EngineEnd ==
    /\ pc = "engine" /\ index > N
    /\ IF position = None
       THEN UNCHANGED <<equity, trades, curve>>
       ELSE LET trade == Closed(position, N, "END_OF_DATA") IN
            /\ equity' = equity + Charged(trade)
            /\ trades' = Append(trades, trade)
            /\ curve' = [curve EXCEPT ![N] = equity']
    /\ pc' = "verifier"
    /\ UNCHANGED <<input, index, position, pending, verifier, outcome>>

-----------------------------------------------------------------------------
(***************************************************************************)
(* run_verifier                                                            *)
(***************************************************************************)

\* _scan_for_exit: the first bar that ends the trade, else the last one.
Ends(signal, entry) ==
    {i \in entry + 1..N : Stopped(signal, i) \/ Targeted(signal, i) \/ i - entry >= spec.maxBars}

ScanForExit(signal, entry) ==
    IF Ends(signal, entry) = {} THEN [bar |-> N, price |-> 100 * bars[N].close]
    ELSE LET i == Min(Ends(signal, entry)) IN
         [bar |-> i,
          price |-> IF Stopped(signal, i) THEN signal.stop
                    ELSE IF Targeted(signal, i) THEN signal.target
                    ELSE FillPrice(bars[i].close, signal.side, FALSE)]

\* Mutant: a refused entry is passed over with the bar it was to be filled on.
AfterRefusal_Next == cursor + 2

AfterRefusal == cursor + 1

\* Mutant: the bar of the exit is not looked at for the next signal.
AfterExit_Next(i) == i + 1

AfterExit(i) == i

VerifierStep ==
    /\ pc = "verifier" /\ cursor < N
    /\ LET signal == LastAt(cursor)
           entry == FillPrice(bars[cursor + 1].open, signal.side, TRUE)
           request == Sized(signal, entry, balance)
           exit == ScanForExit(signal, cursor + 1)
           quantity == Quantity(request)
       IN IF signal = None
          THEN cursor' = cursor + 1 /\ UNCHANGED <<found, balance>>
          ELSE IF ~Accepted(request)
          THEN cursor' = AfterRefusal /\ UNCHANGED <<found, balance>>
          ELSE /\ cursor' = AfterExit(exit.bar)
               /\ found' = Append(found, <<cursor + 1, exit.bar>>)
               /\ balance' = balance + Gross(signal.side, quantity, entry, exit.price)
                               - Fee(quantity * entry) - Fee(exit.price * quantity)
    /\ UNCHANGED <<input, pc, engine, outcome>>

VerifierEnd ==
    /\ pc = "verifier" /\ cursor >= N
    /\ pc' = "compare"
    /\ UNCHANGED <<input, engine, verifier, outcome>>

-----------------------------------------------------------------------------
(***************************************************************************)
(* compare, evaluate_gates, ResearchLoop.run_once                          *)
(***************************************************************************)

Magnitude(a) == IF a < 0 THEN -a ELSE a

\* A relative difference of at most pct percent.
Near(a, b, pct) ==
    LET base == IF Magnitude(a) > Magnitude(b) THEN Magnitude(a) ELSE Magnitude(b)
    IN 100 * Magnitude(a - b) <= pct * base

TradeCountTolerance == 2
NetReturnTolerance == 5

\* compare: the number of trades and the net return, each within its tolerance.
Agree ==
    /\ Near(Len(trades), Len(found), TradeCountTolerance)
    /\ Near(equity - StartEquity, balance - StartEquity, NetReturnTolerance)

\* A mismatch accuses the engines: the candidate stays CANDIDATE.
Compare ==
    /\ pc = "compare"
    /\ IF Agree THEN pc' = "select" /\ UNCHANGED outcome
       ELSE pc' = "done" /\ outcome' = "CANDIDATE"
    /\ UNCHANGED <<input, engine, verifier>>

NetOf(ts) == Total([k \in DOMAIN ts |-> Net(ts[k])], Len(ts))
Won(t) == Net(t) > 0
Wins == SelectSeq(trades, Won)
Losses == SelectSeq(trades, LAMBDA t : Net(t) <= 0)

\* SEL-02: no fall of the curve from an earlier value exceeds the limit.
DrawdownOk ==
    \A i, j \in 1..Len(curve) :
        i <= j /\ curve[i] > 0 => 100 * (curve[i] - curve[j]) <= MaxDropPct * curve[i]

\* SEL-03; without a loss the factor is 999 or 0.
FactorOk ==
    LET profit == NetOf(Wins)  loss == -NetOf(Losses) IN
    CASE loss > 0 -> 100 * profit >= MinFactorPct * loss
      [] loss = 0 /\ profit > 0 -> 99900 >= MinFactorPct
      [] OTHER -> MinFactorPct = 0

\* SEL-04.
ExpectancyOk == trades # <<>> /\ NetOf(trades) > 0

\* SEL-05, against holding from the first close to the last.
BeatsHolding ==
    (equity - StartEquity) * 100 * bars[1].close
        > StartEquity * ((bars[N].close - bars[1].close) * 100
                             - 2 * (FeePct + SlipPct) * bars[1].close)

\* SEL-07: the median distance of a stop; without a signal there is none.
StopDistances ==
    LET all == FlattenSeq(signals) IN
    SortSeq([k \in DOMAIN all |-> (10000 * Gap(all[k].reference, all[k].stop)) \div all[k].reference], <)

MedianStop ==
    LET middle == (Len(StopDistances) + 1) \div 2 IN
    IF Len(StopDistances) % 2 = 1 THEN StopDistances[middle]
    ELSE (StopDistances[middle] + StopDistances[middle + 1]) \div 2

\* Every gate must pass.
Passes(outOfSample) ==
    /\ Len(trades) >= MinTrades /\ DrawdownOk /\ FactorOk /\ ExpectancyOk /\ BeatsHolding
    /\ outOfSample
    /\ StopDistances # <<>> /\ MedianStop \in StopBand

\* The replay of the later bars may turn out either way.
Select ==
    /\ pc = "select"
    /\ \E outOfSample \in BOOLEAN :
          outcome' = IF Passes(outOfSample) THEN "VERIFIED" ELSE "REJECTED"
    /\ pc' = "done"
    /\ UNCHANGED <<input, engine, verifier>>

-----------------------------------------------------------------------------
(***************************************************************************)
(* IncubationTracker.record_signals                                        *)
(***************************************************************************)

\* Mutant: a bar that touches both is a win.
Paper_TargetFirst(signal) ==
    LET entry == signal.bar + 1 IN
    IF Ends(signal, entry) = {} THEN [bar |-> N, outcome |-> "OPEN"]
    ELSE LET i == Min(Ends(signal, entry)) IN
         [bar |-> i, outcome |-> IF Targeted(signal, i) THEN "WIN" ELSE "LOSS"]

\* _resolve: the paper trade of a signal, entered at the next open, without costs.
Paper(signal) ==
    LET entry == signal.bar + 1
        gain(i) == Gross(signal.side, 1, bars[entry].open, bars[i].close)
    IN IF Ends(signal, entry) = {} THEN [bar |-> N, outcome |-> "OPEN"]
       ELSE LET i == Min(Ends(signal, entry)) IN
            [bar |-> i,
             outcome |-> IF ~Stopped(signal, i) /\ (Targeted(signal, i) \/ gain(i) > 0)
                         THEN "WIN" ELSE "LOSS"]

-----------------------------------------------------------------------------
Init ==
    /\ bars \in [Index -> Candles] /\ spec \in Specs
    /\ acted = <<>> /\ signals = [i \in Index |-> <<>>]
    /\ pc = "live" /\ index = 1 /\ equity = StartEquity /\ position = None /\ pending = None
    /\ trades = <<>> /\ curve = <<>>
    /\ cursor = 1 /\ found = <<>> /\ balance = StartEquity
    /\ outcome = "CANDIDATE"

Engine == EngineBar \/ EngineEnd
Verifier == VerifierStep \/ VerifierEnd

Next == LiveTick \/ EvaluateAll \/ Engine \/ Verifier \/ Compare \/ Select

Spec == Init /\ [][Next]_vars

-----------------------------------------------------------------------------
(***************************************************************************)
(* Properties                                                              *)
(***************************************************************************)

Stages == {"live", "engine", "verifier", "compare", "select", "done"}
\* Every variable has its type.
TypeOK ==
    /\ bars \in [Index -> Candles] /\ spec \in Specs
    /\ acted \in Seq(Signals \cup {None}) /\ signals \in [Index -> Seq(Signals)]
    /\ pc \in Stages /\ index \in 1..N + 1 /\ equity \in Int
    /\ position = None \/ position \in Positions
    /\ pending = None \/ pending \in Signals
    /\ trades \in Seq(Trades) /\ curve \in Seq(Int)
    /\ cursor \in Index /\ found \in Seq(Index \X Index) /\ balance \in Int
    /\ outcome \in {"CANDIDATE", "VERIFIED", "REJECTED"}

\* The ticks have all the bars up to i, or as many as the rules look back on.
WindowSuffices(i) ==
    \/ i <= History
    \/ /\ History > Longest(spec) /\ History > 2
       /\ \A id \in DOMAIN spec.indicators : spec.indicators[id].name \notin SmoothedNames

\* BT-01: a tick acts on the bar that closed exactly as the backtest that judged
\* the rules, level for level, although it has neither the bars to come nor those
\* that left its window. Smoothed indicators are exempt once a bar has left: what
\* they are depends on where the series begins.
LiveActsAsBacktested ==
    pc # "live" => \A i \in Index : WindowSuffices(i) => acted[i] = FirstAt(i)

Replayed == pc \notin {"live", "engine", "verifier"}
Doubled == \E i \in Index : Len(signals[i]) = 2
OpenAtEnd == \E k \in DOMAIN trades : trades[k].reason = "END_OF_DATA"

\* The signal a trade was entered on: of the bar before it, and of its side.
SignalOf(trade) ==
    LET before == signals[trade.entry - 1]
        mine == {k \in DOMAIN before : before[k].side = trade.side}
    IN IF mine = {} THEN None ELSE before[Min(mine)]

\* Two engines written apart take the same trades to the same money. They may
\* differ for two reasons only: a bar with two signals, of which each keeps
\* another, and a trade open at the last bar, which the verifier closes without
\* slippage (compare.py: the two implement the same semantics).
EnginesAgree ==
    Replayed /\ ~Doubled =>
        /\ found = [k \in DOMAIN trades |-> <<trades[k].entry, trades[k].exit>>]
        /\ IF OpenAtEnd THEN equity <= balance ELSE equity = balance

\* Trades follow each other: each is entered on the bar after a signal of its
\* side, and ends after its entry unless the data does, before the next begins.
TradesInOrder ==
    \A k \in DOMAIN trades :
        /\ trades[k].entry > 1 /\ SignalOf(trades[k]) # None
        /\ trades[k].exit > trades[k].entry \/ trades[k].reason = "END_OF_DATA"
        /\ k < Len(trades) => trades[k].exit < trades[k + 1].entry

\* BT-06: no trade wins whose stop was touched at any bar after its entry, up to
\* and with the one it ends at.
StopFirst ==
    \A k \in DOMAIN trades :
        LET t == trades[k]  signal == SignalOf(t) IN
        t.reason # "STOP" => \A i \in t.entry + 1..t.exit : ~Stopped(signal, i)

\* The equity that the bars leave is the one the trades explain, fee by fee, and
\* it is where the curve ends.
EquityIsExplained ==
    Replayed => /\ equity = StartEquity + NetOf(trades)
                /\ curve[N] = equity /\ Len(curve) = N

\* All three, of the backtest alone.
BacktestIsSound == TradesInOrder /\ StopFirst /\ EquityIsExplained

\* INC: on the bars of its backtest, incubation resolves a trade the backtest
\* took at the same bar to the same side: it is not more flattering.
PaperIsNotFlattering ==
    \A k \in DOMAIN trades :
        LET t == trades[k]  paper == Paper(SignalOf(t)) IN
        /\ t.reason = "STOP" => paper = [bar |-> t.exit, outcome |-> "LOSS"]
        /\ t.reason = "TARGET" => paper = [bar |-> t.exit, outcome |-> "WIN"]
        /\ t.reason = "TIME" => paper.bar = t.exit
        /\ t.reason = "END_OF_DATA" => paper.outcome = "OPEN"
=============================================================================
