------------------------------ MODULE Trading ------------------------------
(***************************************************************************)
(* One tick of the runtime at the level of the account: ingestion, market  *)
(* data, valuation, limits, then every strategy of every symbol in turn.   *)
(*                                                                         *)
(* The exchange executes exits at any time, in whole or in part. A market  *)
(* order executes at the price it was sized with, in whole, in part or not *)
(* at all, and whether its answer arrives or not: Execution has the        *)
(* orders. The ledger opens a position only on an answer.                  *)
(*                                                                         *)
(* pc: idle -> value -> limits -> (entries -> bought)* -> close -> idle.   *)
(***************************************************************************)
EXTENDS Sizing, FiniteSets, FiniteSetsExt

CONSTANTS
    Symbols,     \* every symbol there is
    Configured,  \* settings.symbol_list
    Strategies,  \* registered strategies
    SymbolOf,    \* the symbol of each, or Unknown if its spec cannot be loaded
    Unknown,     \* UNKNOWN_SYMBOL
    None,        \* no price, no strategy
    Prices,      \* the prices of one lot step
    StopGaps,    \* how far below the entry a stop may be
    Multipliers, \* risk_multiplier_for: a percentage
    DrawdownPct, \* max_account_drawdown, from the peak
    DailyLossPct, \* daily_loss_limit, since the day's first snapshot
    StartCash,   \* the account at the start
    MaxEntries,  \* bound: entries
    MaxFaults    \* bound: partial executions, lost answers, failing polls, deaths while trading

ASSUME TradingAssumption ==
    /\ IsFiniteSet(Symbols) /\ Configured \subseteq Symbols /\ Unknown \notin Symbols
    /\ SymbolOf \in [Strategies -> Symbols \cup {Unknown}]
    /\ None \notin Nat /\ None \notin Strategies
    /\ Prices \subseteq Nat \ {0} /\ StopGaps \subseteq Nat \ {0}
    /\ Multipliers \subseteq 1..100
    /\ DrawdownPct \in 1..100 /\ DailyLossPct \in 1..100
    /\ StartCash \in Nat /\ MaxEntries \in Nat /\ MaxFaults \in Nat

VARIABLES
    cash,      \* the exchange: quote balance
    held,      \* the exchange: steps held of each symbol
    sold,      \* the exchange: steps of the open position that have been sold
    position,  \* the ledger: quantity of the open position, or 0
    protected, \* symbols whose open position has an exit that no poll has seen filled
    snap,      \* equity_snapshots: the last peak, and today's first equity, if any
    armed,     \* the kill switch
    live,      \* strategies of status LIVE
    pc,        \* the next step of the tick
    view,      \* the last close of each symbol that returned data
    acct,      \* the AccountState
    carried,   \* free_cash, deployed and open_symbols as the loop carries them, and
               \* the symbols it has entered
    todo,      \* pairs of symbol and strategy the loop has not reached
    purchase,  \* the entry that was sent: what it bought, and what it was sized to cost
    result,    \* the TickResult
    entries,   \* bound: entries so far
    faults,    \* bound: faults so far
    truth,     \* history: what the account was worth when it could be valued, until it came apart
    unsettled, \* history: balances were read with an open position that had been sold
    unrecorded \* history: symbols bought without a position in the ledger

exchange == <<cash, held, sold>>
ledger == <<position, protected>>
memory == <<view, acct, carried, todo, purchase>>
history == <<truth, unsettled, unrecorded>>
bounds == <<entries, faults>>
vars == <<exchange, ledger, snap, armed, live, pc, memory, result, bounds, history>>

\* A step counts as a fault if fault holds of it.
Counted(fault) ==
    /\ fault => faults < MaxFaults
    /\ faults' = IF fault THEN faults + 1 ELSE faults

Causes == {"MAX_ACCOUNT_DD", "DAILY_LOSS_LIMIT"}

NoAccount == [equity |-> 0, peak |-> 0, day |-> 0, complete |-> FALSE]
NothingCarried == [free |-> 0, deployed |-> 0, open |-> {}, entered |-> {}]
NoTruth == [any |-> FALSE, now |-> 0, best |-> 0, day |-> 0]
NoPurchase == [symbol |-> None, strategy |-> None, bought |-> 0, notional |-> 0]
NoResult == [cause |-> "NONE", halted |-> FALSE, suspended |-> FALSE,
             decided |-> {}, done |-> FALSE]

OpenWith(quantity) == {s \in Symbols : quantity[s] # 0}
Open == OpenWith(position)

\* The worth of quantities at prices; what has no price is left out.
Marked(quantity, price) ==
    MapThenSumSet(LAMBDA s : quantity[s] * price[s],
                  {s \in OpenWith(quantity) : price[s] # None})

Greater(a, b) == IF a >= b THEN a ELSE b

-----------------------------------------------------------------------------
(***************************************************************************)
(* check_portfolio_limits                                                  *)
(***************************************************************************)

\* A loss of pct percent or more of what there was; nothing lost nothing.
Lost(before, now, pct) == before > 0 /\ before > now /\ 100 * (before - now) >= pct * before

\* The drawdown is looked at first: it is the more serious one.
Breach(equity, peak, day) ==
    IF Lost(peak, equity, DrawdownPct) THEN "MAX_ACCOUNT_DD"
    ELSE IF Lost(day, equity, DailyLossPct) THEN "DAILY_LOSS_LIMIT"
    ELSE "NONE"
-----------------------------------------------------------------------------
(***************************************************************************)
(* Around the tick                                                         *)
(***************************************************************************)

\* The stop or the target of a position executes, or a part of it.
ExitFills(s) ==
    /\ s \in protected
    /\ \E steps \in 1..position[s] - sold[s], price \in Prices :
          /\ cash' = cash + steps * price
          /\ held' = [held EXCEPT ![s] = @ - steps]
          /\ sold' = [sold EXCEPT ![s] = @ + steps]
          /\ Counted(sold[s] + steps < position[s])
    /\ unsettled' = (unsettled \/ pc = "value")
    /\ UNCHANGED <<ledger, snap, armed, live, pc, memory, result, entries, truth, unrecorded>>

OperatorFlips ==
    /\ armed' = ~armed
    /\ UNCHANGED <<exchange, ledger, snap, live, pc, memory, result, bounds, history>>

\* Midnight: no snapshot of the new day yet.
NewDay ==
    /\ snap.today
    /\ pc = "idle"
    /\ snap' = [snap EXCEPT !.today = FALSE, !.day = 0]
    /\ UNCHANGED <<exchange, ledger, armed, live, pc, memory, result, bounds, history>>

\* A tick keeps nothing in memory for the next.
Forget ==
    /\ view' = [s \in Symbols |-> None] /\ acct' = NoAccount
    /\ carried' = NothingCarried /\ todo' = {} /\ purchase' = NoPurchase

\* The symbol of the purchase, if lots of it are on the exchange that the
\* ledger has no position for.
Astray(steps) == IF steps = 0 THEN {} ELSE {purchase.symbol}

\* An exception ends the tick, or the process dies and is started again; an
\* entry that has executed by then is in no position.
TickFails ==
    /\ pc # "idle"
    /\ unrecorded' = unrecorded \cup Astray(purchase.bought)
    /\ Counted(purchase.bought # 0)
    /\ Forget /\ result' = NoResult
    /\ pc' = "idle"
    /\ UNCHANGED <<exchange, ledger, snap, armed, live, entries, truth, unsettled>>

-----------------------------------------------------------------------------
(***************************************************************************)
(* AtlasService._tick                                                      *)
(***************************************************************************)

\* The positions a poll would close: their exit has filled in full.
Closable == {s \in Configured \cap protected : sold[s] = position[s]}

\* ingest: the fill is recorded and the position is closed.
CloseAll(closing) ==
    /\ position' = [s \in Symbols |-> IF s \in closing THEN 0 ELSE position[s]]
    /\ sold' = [s \in Symbols |-> IF s \in closing THEN 0 ELSE sold[s]]

\* ingest_all: the poll of any symbol may fail, which leaves its fills for the
\* next tick.
Ingest ==
    /\ pc = "idle"
    /\ \E closing \in SUBSET Closable :
          CloseAll(closing) /\ protected' = protected \ closing /\ Counted(closing # Closable)
    /\ unsettled' = (unsettled \/ \E s \in Symbols : sold'[s] # 0)
    /\ Forget /\ result' = NoResult
    /\ pc' = "value"
    /\ UNCHANGED <<cash, held, snap, armed, live, entries, truth, unrecorded>>

\* The process dies between the record of a fill and the closing of its
\* position: the cursor has moved on, and no poll brings that fill again.
IngestDies ==
    /\ pc = "idle"
    /\ \E closing \in SUBSET Closable : \E last \in Closable \ closing :
          CloseAll(closing) /\ protected' = protected \ (closing \cup {last})
    /\ Counted(TRUE)
    /\ Forget /\ result' = NoResult
    /\ UNCHANGED <<cash, held, snap, armed, live, pc, entries, history>>

\* The symbols candles are asked for.
Fetched == Configured

Complete(price) == \A s \in Open : price[s] # None

\* There is no snapshot of today.
NewToday == ~snap.today

\* account_state, from the balances, the ledger and the snapshots.
Account(price) ==
    LET equity == cash + Marked(position, price) IN
    [equity |-> equity,
     peak |-> IF snap.any THEN Greater(equity, snap.peak) ELSE equity,
     day |-> IF NewToday THEN equity ELSE snap.day,
     complete |-> Complete(price)]

\* record_equity.
Recorded(a) == [any |-> TRUE, peak |-> a.peak, today |-> TRUE, day |-> a.day]

\* What the balances and the holdings were worth at this moment.
Worth(price) == cash + Marked(held, price)

\* At every valuation so far the ledger had what the exchange held: no open
\* position had been sold, in whole or in part, and every purchase is in one.
Settled == ~unsettled /\ unrecorded = {}

Witnessed(worth) ==
    [any |-> TRUE, now |-> worth,
     best |-> IF truth.any THEN Greater(worth, truth.best) ELSE worth,
     day |-> IF NewToday THEN worth ELSE truth.day]

\* fetch_market_data, account_state and record_equity. Any symbol may be
\* without data: its fetch failed or its series was rejected.
Value ==
    /\ pc = "value"
    /\ view' \in {v \in [Symbols -> Prices \cup {None}] : \A s \in Symbols \ Fetched : v[s] = None}
    /\ acct' = Account(view')
    /\ carried' = [free |-> cash, deployed |-> Marked(position, view'), open |-> Open, entered |-> {}]
    /\ snap' = IF acct'.complete THEN Recorded(acct') ELSE snap
    /\ truth' = IF ~Settled THEN NoTruth
                ELSE IF \A s \in OpenWith(held) : view'[s] # None THEN Witnessed(Worth(view'))
                ELSE truth
    /\ pc' = "limits"
    /\ UNCHANGED <<exchange, ledger, armed, live, todo, purchase, result, bounds, unsettled, unrecorded>>

-----------------------------------------------------------------------------
(***************************************************************************)
(* TradingService.tick                                                     *)
(***************************************************************************)

\* Every configured symbol and every symbol of a live strategy, with its
\* strategies, or with None if it has none.
Tasks ==
    {<<SymbolOf[t], t>> : t \in live}
        \cup {<<s, None>> : s \in {x \in Configured : \A t \in live : SymbolOf[t] # x}}

\* Mutant: the limits are compared whatever is missing.
Cause_Unvalued == Breach(acct.equity, acct.peak, acct.day)

\* The limit that is breached; none is looked at without a full valuation.
Cause == IF acct.complete THEN Breach(acct.equity, acct.peak, acct.day) ELSE "NONE"

\* Mutant: the limits are passed over, and the entries are not.
Suspends_Never == FALSE

\* Nothing below adds risk against an equity that lacks a position.
Suspends == ~acct.complete

\* Reconciliation may arm as well: an order the ledger does not know. A tick that
\* is halted here has no use for the account any more.
Limits ==
    /\ pc = "limits"
    /\ \E unreconciled \in BOOLEAN : armed' = (armed \/ unreconciled \/ Cause # "NONE")
    /\ IF armed' \/ Suspends
       THEN /\ result' = [result EXCEPT !.cause = Cause, !.halted = armed',
                                        !.suspended = Suspends,
                                        !.decided = Configured]
            /\ Forget
            /\ pc' = "close"
       ELSE /\ todo' = Tasks
            /\ pc' = "entries"
            /\ UNCHANGED <<view, acct, carried, purchase, result>>
    /\ UNCHANGED <<exchange, ledger, snap, live, bounds, history>>

\* The rest of the loop after a task: the next one, or out of the loop.
GoOn(task) ==
    /\ todo' = todo \ {task}
    /\ pc' = IF todo = {task} THEN "close" ELSE "entries"

DecidedOn(s) == [result EXCEPT !.decided = @ \cup {s}]

\* Mutant: what the loop never reached is left out.
BreakOff_Silently(s) ==
    /\ result' = [DecidedOn(s) EXCEPT !.halted = TRUE]
    /\ todo' = {}
    /\ pc' = "close"

\* Out of the loop: every symbol it never reached gets an outcome as well.
BreakOff(s) ==
    /\ result' = [result EXCEPT !.decided = @ \cup {task[1] : task \in todo}, !.halted = TRUE]
    /\ todo' = {}
    /\ pc' = "close"

\* There is a strategy with a spec, and its symbol has data.
Observed(s, t) == t # None /\ s \in {x \in Symbols : view[x] # None}

\* NO_STRATEGY, SPEC_MISSING, NO_MARKET_DATA, POSITION_ALREADY_OPEN.
PassOver(s, t) ==
    /\ ~Observed(s, t) \/ s \in carried.open
    /\ result' = DecidedOn(s)
    /\ GoOn(<<s, t>>)
    /\ UNCHANGED <<exchange, ledger, armed, carried, purchase, bounds, unrecorded>>

\* DATA_STALE: the switch is armed and the loop is left.
FindStale(s, t) ==
    /\ Observed(s, t)
    /\ armed' = TRUE
    /\ BreakOff(s)
    /\ UNCHANGED <<exchange, ledger, carried, purchase, bounds, unrecorded>>

\* NO_SIGNAL, FILTERS_UNAVAILABLE.
Decline(s, t) ==
    /\ Observed(s, t) /\ s \notin carried.open
    /\ result' = DecidedOn(s)
    /\ GoOn(<<s, t>>)
    /\ UNCHANGED <<exchange, ledger, armed, carried, purchase, bounds, unrecorded>>

Request(s, gap, multiplier) ==
    [equity |-> acct.equity, free |-> carried.free, entry |-> view[s], stop |-> view[s] - gap,
     side |-> "LONG", open |-> Cardinality(carried.open), deployed |-> carried.deployed,
     multiplier |-> multiplier]

\* A signal on the last closed bar whose stop is gap below its reference price.
Signal(s, t, gap) ==
    /\ Observed(s, t) /\ s \notin carried.open
    /\ entries < MaxEntries
    /\ gap \in StopGaps /\ gap < view[s]

\* RISK_REJECTED.
Reject(s, t) ==
    /\ \E gap \in StopGaps, m \in Multipliers :
          Signal(s, t, gap) /\ ~Accepted(Request(s, gap, m))
    /\ result' = DecidedOn(s)
    /\ GoOn(<<s, t>>)
    /\ UNCHANGED <<exchange, ledger, armed, carried, purchase, bounds, unrecorded>>

\* HALTED: the switch was armed between sizing and transmission of the entry.
Halt(s, t) ==
    /\ armed
    /\ \E gap \in StopGaps, m \in Multipliers :
          Signal(s, t, gap) /\ Accepted(Request(s, gap, m))
    /\ BreakOff(s)
    /\ UNCHANGED <<exchange, ledger, armed, carried, purchase, bounds, unrecorded>>

\* Mutant: what is deployed moves with the cash.
Spent_WrongWay(s, notional) ==
    [free |-> carried.free - notional, deployed |-> carried.deployed - notional,
     open |-> carried.open \cup {s}, entered |-> carried.entered \cup {s}]

\* Mutant: what an entry of this tick spent is not carried to the next.
Spent_Forgotten(s, notional) ==
    [carried EXCEPT !.open = @ \cup {s}, !.entered = @ \cup {s}]

\* What an entry on s leaves for the next one.
Spent(s, notional) ==
    [free |-> carried.free - notional, deployed |-> carried.deployed + notional,
     open |-> carried.open \cup {s}, entered |-> carried.entered \cup {s}]

\* The entry is transmitted. It buys what it was sized for, less, or nothing.
Send(s, t) ==
    /\ ~armed
    /\ \E gap \in StopGaps, m \in Multipliers :
          LET r == Request(s, gap, m) IN
          /\ Signal(s, t, gap) /\ Accepted(r)
          /\ \E bought \in 0..Quantity(r) :
                /\ bought * view[s] <= cash
                /\ cash' = cash - bought * view[s]
                /\ held' = [held EXCEPT ![s] = @ + bought]
                /\ Counted(bought \notin {0, Quantity(r)})
                /\ purchase' = [symbol |-> s, strategy |-> t, bought |-> bought,
                                notional |-> Quantity(r) * view[s]]
    /\ entries' = entries + 1
    /\ pc' = "bought"
    /\ UNCHANGED <<sold, ledger, armed, carried, todo, result, unrecorded>>

\* The loop, in any order of the symbols.
Entries ==
    /\ pc = "entries"
    /\ \E task \in todo :
          LET s == task[1]  t == task[2] IN
          PassOver(s, t) \/ FindStale(s, t) \/ Decline(s, t) \/ Reject(s, t) \/ Halt(s, t) \/ Send(s, t)
    /\ UNCHANGED <<snap, live, view, acct, truth, unsettled>>

-----------------------------------------------------------------------------
(***************************************************************************)
(* open_bracketed_position, from the answer to the entry on                *)
(***************************************************************************)

\* ORDER_REJECTED: refused, not filled, or never answered, which the code
\* cannot tell from refused. The loop goes on as if nothing had been bought.
NotAnswered ==
    /\ result' = DecidedOn(purchase.symbol)
    /\ unrecorded' = unrecorded \cup Astray(purchase.bought)
    /\ Counted(purchase.bought # 0)
    /\ GoOn(<<purchase.symbol, purchase.strategy>>)
    /\ UNCHANGED <<exchange, ledger, carried>>

\* open_position, with or without exits that rest on the exchange.
OpenPosition(resting) ==
    /\ position' = [position EXCEPT ![purchase.symbol] = purchase.bought]
    /\ protected' = IF resting THEN protected \cup {purchase.symbol} ELSE protected

\* The reversal sells steps of what the entry bought.
Reversal(steps) ==
    /\ cash' = cash + steps * view[purchase.symbol]
    /\ held' = [held EXCEPT ![purchase.symbol] = @ - steps]

\* ENTERED: the ledger opens the position, its exits rest, the loop carries on.
Enter ==
    /\ purchase.bought # 0
    /\ OpenPosition(TRUE)
    /\ carried' = Spent(purchase.symbol, purchase.notional)
    /\ result' = DecidedOn(purchase.symbol)
    /\ GoOn(<<purchase.symbol, purchase.strategy>>)
    /\ UNCHANGED <<exchange, faults, unrecorded>>

\* ORDER_REJECTED: the exits were refused. The position is closed on the answer
\* to the reversal, whatever that sold.
Reverse ==
    /\ ~armed /\ purchase.bought # 0
    /\ \E steps \in 0..purchase.bought :
          /\ Reversal(steps)
          /\ unrecorded' = unrecorded \cup Astray(purchase.bought - steps)
          /\ Counted(steps # purchase.bought)
    /\ result' = DecidedOn(purchase.symbol)
    /\ GoOn(<<purchase.symbol, purchase.strategy>>)
    /\ UNCHANGED <<sold, ledger, carried>>

\* HALTED: the exits were refused, or not answered, and the switch blocks the reversal.
BlockReversal ==
    /\ armed /\ purchase.bought # 0
    /\ \E resting \in BOOLEAN : OpenPosition(resting)
    /\ BreakOff(purchase.symbol)
    /\ UNCHANGED <<exchange, carried, faults, unrecorded>>

\* The position is open when the process dies, or UnprotectedPositionError
\* leaves the tick: exits or reversal may have reached the exchange unanswered.
LeaveOpen ==
    /\ purchase.bought # 0
    /\ \/ OpenPosition(TRUE) /\ UNCHANGED exchange
       \/ /\ OpenPosition(FALSE)
          /\ \E steps \in 0..purchase.bought :
                Reversal(steps) /\ sold' = [sold EXCEPT ![purchase.symbol] = steps]
    /\ Counted(TRUE)
    /\ Forget /\ result' = NoResult
    /\ pc' = "idle"
    /\ UNCHANGED unrecorded

Bracket ==
    /\ pc = "bought"
    /\ \/ /\ NotAnswered \/ Enter \/ Reverse \/ BlockReversal
          /\ purchase' = NoPurchase
          /\ UNCHANGED <<view, acct>>
       \/ LeaveOpen
    /\ UNCHANGED <<snap, armed, live, entries, truth, unsettled>>

\* Supervision may retire strategies, whether the tick was halted or not.
Close ==
    /\ pc = "close"
    /\ result' = [result EXCEPT !.done = TRUE]
    /\ live' \in SUBSET live
    /\ Forget
    /\ pc' = "idle"
    /\ UNCHANGED <<exchange, ledger, snap, armed, bounds, history>>

-----------------------------------------------------------------------------
Init ==
    /\ cash = StartCash /\ held = [s \in Symbols |-> 0] /\ sold = held
    /\ position = held /\ protected = {}
    /\ snap = [any |-> FALSE, peak |-> 0, today |-> FALSE, day |-> 0] /\ armed = FALSE /\ live \in SUBSET Strategies
    /\ pc = "idle" /\ view = [s \in Symbols |-> None] /\ acct = NoAccount
    /\ carried = NothingCarried /\ todo = {} /\ purchase = NoPurchase /\ result = NoResult /\ entries = 0 /\ faults = 0
    /\ truth = NoTruth /\ unsettled = FALSE /\ unrecorded = {}

Tick == Ingest \/ Value \/ Limits \/ Entries \/ Bracket \/ Close
Environment == (\E s \in Symbols : ExitFills(s)) \/ OperatorFlips \/ NewDay \/ TickFails \/ IngestDies

Next == Tick \/ Environment

Spec == Init /\ [][Next]_vars

-----------------------------------------------------------------------------
(***************************************************************************)
(* Properties                                                              *)
(***************************************************************************)

\* Every variable has its type; in particular no entry spends more than there is.
TypeOK ==
    /\ cash \in Nat /\ held \in [Symbols -> Nat] /\ sold \in [Symbols -> Nat]
    /\ position \in [Symbols -> Nat] /\ protected \subseteq Open
    /\ snap \in [any : BOOLEAN, peak : Nat, today : BOOLEAN, day : Nat] /\ (snap.today => snap.any)
    /\ armed \in BOOLEAN /\ live \subseteq Strategies
    /\ pc \in {"idle", "value", "limits", "entries", "bought", "close"}
    /\ view \in [Symbols -> Prices \cup {None}]
    /\ acct \in [equity : Nat, peak : Nat, day : Nat, complete : BOOLEAN]
    /\ carried \in [free : Nat, deployed : Nat, open : SUBSET Symbols,
                   entered : SUBSET Symbols]
    /\ todo \subseteq (Symbols \cup {Unknown}) \X (Strategies \cup {None})
    /\ purchase \in [symbol : Symbols \cup {None}, strategy : Strategies \cup {None},
                     bought : Nat, notional : Nat]
    /\ result \in [cause : Causes \cup {"NONE"}, halted : BOOLEAN, suspended : BOOLEAN,
                   decided : SUBSET (Symbols \cup {Unknown}),
                   done : BOOLEAN]
    /\ entries \in 0..MaxEntries /\ faults \in 0..MaxFaults
    /\ truth \in [any : BOOLEAN, now : Nat, best : Nat, day : Nat]
    /\ unsettled \in BOOLEAN /\ unrecorded \subseteq Symbols

RealDrawdown == Lost(truth.best, truth.now, DrawdownPct)
RealDailyLoss == Lost(truth.day, truth.now, DailyLossPct)

\* RISK-05 and RISK-06: a limit halts the account only for a loss it really had. A
\* position that is sold and still open is counted twice, and a purchase without
\* a position not at all: either breaks it.
HaltIsReal ==
    /\ result.cause = "MAX_ACCOUNT_DD" => RealDrawdown
    /\ result.cause = "DAILY_LOSS_LIMIT" => RealDailyLoss

\* A loss the account really had at its limit halts the tick that valued it, and
\* the drawdown is the cause recorded if both limits are reached.
RealLossHalts ==
    result.done /\ ~result.suspended /\ (RealDrawdown \/ RealDailyLoss) =>
        result.halted /\ result.cause = IF RealDrawdown THEN "MAX_ACCOUNT_DD" ELSE "DAILY_LOSS_LIMIT"

\* Both: as long as nothing came between ledger and exchange, the limits halt
\* exactly the losses that reach them.
LimitsAreExact == Settled => HaltIsReal /\ RealLossHalts

\* RISK-04: after the entries of a tick, however many there were, the ledger's
\* positions at this tick's prices are within the deployment cap, each new one
\* is within the position cap, and there are no more than max_concurrent.
CapsHold ==
    carried.entered # {} =>
        /\ 100 * Marked(position, view) <= acct.equity * DeployedPct
        /\ \A s \in carried.entered : 100 * position[s] * view[s] <= acct.equity * PositionPct
        /\ Cardinality(Open) <= MaxConcurrent

\* Nothing is bought in a tick that could not value the account, nor on a symbol
\* with an open position. RISK-08 is kept on the exchange as well until a
\* purchase of the symbol went unrecorded: only then can there be a second one.
EntersOnlyValued ==
    [][\A s \in Symbols :
          held'[s] > held[s] =>
              acct.complete /\ position[s] = 0 /\ (held[s] = 0 \/ s \in unrecorded)]_vars

\* Every configured symbol has an outcome at the end of a tick, wherever the
\* tick stopped (decisions.py).
EverySymbolDecided == result.done => Configured \subseteq result.decided

\* A suspension clears itself on the next tick that has prices: there is no open
\* position whose symbol no tick asks candles for.
PositionsAreFetched == Open \subseteq Fetched
=============================================================================
