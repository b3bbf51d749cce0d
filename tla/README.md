# ATLAS, verified

TLA+ models, TLC runs and TLAPS proofs about ATLAS, a strategy factory and trading
runtime for Binance spot: Python over one SQLite database, one JSON file for the kill
switch, and the exchange as the only party that is never under its control. Paths below
are relative to the repository; `atlas/` stands for `src/atlas/`.

    tlasany Execution.tla                               parse
    tlc -config MCExecution_bracket.cfg MCExecution     model-check one instance
    tlapm ExecutionProofs.tla                           check the proofs

## 1. The system

Four kinds of process share the database (WAL, one writer at a time) and the kill-switch
file: the **runtime** (`atlas run`, one tick per interval), **command lines** run by an
operator (arm, disarm, incubate, promote ...), **research batches**, and read-only
**dashboards and health probes**. None of them holds a lock across two transactions.

| Component | State it keeps | Operations | Talks to | What makes it correct |
|---|---|---|---|---|
| Kill switch `killswitch.py` | a database row, a file, a temporary file | arm, disarm, initialise, check_can_enter | every process that trades | the two stores behave as one switch; every doubt reads ARMED; only an operator releases |
| Bracketed entry `execution/brackets.py`, `idempotency.py` | none of its own; a decision in progress | record, send, acknowledge, open, protect, reverse | exchange, ledger, kill switch, audit | recorded before sent; nothing stays bought without a stop; a replay makes no second order |
| Exchange adapter `execution/broker.py` | none | place, place_oco, open_orders, my_trades; retries of a transient failure | exchange | what it reports is what happened, and what is unanswered stays in doubt |
| Ledger `execution/ledger.py` | orders, fills, positions | record_order, update_order_status, link, record_fill, open/close_position | SQLite | agrees with the account in the end |
| Fill ingestion `execution/ingest.py` | the cursor, derived from fills | ingest, ingest_all | exchange, ledger | every trade once, none skipped; a filled exit closes its position |
| Reconciliation `execution/reconcile.py` | none | reconcile, reconcile_balance | exchange, ledger, kill switch | rows left open are settled; an unknown order halts entries |
| Runtime `runtime/*.py` | equity snapshots, decisions; the loop | start, tick, the scheduler | all of the above | the order of its steps; one position per symbol; no entry while armed |
| Risk `risk/*.py` | none; the account of a tick | sizing, portfolio limits, exchange filters | runtime | the limits halt real losses and no others, never on an incomplete valuation; a rounded size never risks more; the caps hold over all entries of a tick |
| Strategy lifecycle `strategy/registry.py`, `promotion/gate.py`, `monitor/*.py`, `incubation/*.py` | strategy status, runs, promotions | propose, verify, incubate, promote, suspend, retire | runtime, research, operator | RETIRED is for good; LIVE only through incubation and a promotion |
| Research `research/*.py`, `factory/*.py`, `selection/*.py` | experiments, back-tests | run_once, record | lifecycle, back-test, verifier | a candidate passes every stage before it is VERIFIED; a bad one stops nothing |
| Back-test and verifier `backtest/*.py`, `verify/*.py`, `strategy/evaluator.py`, `indicators.py` | none | evaluate rules, replay bars, compare | research, runtime | the two independent replays agree; the live loop acts as the back-test did |
| Market data `data/*.py` | bars | fetch with pagination, validate | exchange | the newest closed bars, each once, never the forming one; a series called stale is old |
| Audit chain `audit.py` | a hash chain | append, verify | every process | one chain, no gap, every change visible |
| Database `db/*.py` | | transaction | | all or nothing |
| The loop from outside `runtime/scheduler.py`, `ops/heartbeat.py`, `cli.py`, `deploy/` | heartbeat, count of failures | tick, beat, health, restart | service manager | a hang is found; whatever ends the loop, ticks succeed again |
| Rest: `ops/dashboard.py`, `notify/*.py`, `config.py`, `economics.py`, `intel/*.py` | none | rendering, alerts, settings, evidence scores | | output, settings and pure scoring |

What is hard in it, and where most of section 4 aims: an exchange call may have happened
although nobody answered; the process may die between any two of its steps; every fact
about an order arrives by two roads (acknowledgement, poll) in either order; the operator
arms the switch whenever he wants; a signal stays due for a whole bar and is replayed by
every tick; what a tick read at its beginning is used at its end. `PROJECT.json` lists
each hazard with its line.

## 2. The modules

    Venue <- Ledger <- Execution <- MCExecution          orders, fills and positions
                          ^ ExecutionProofs
    AbstractSwitch <~ KillSwitch <- MCKillSwitch          the two stores of the switch
                          ^ KillSwitchProofs
    Lifecycle <- MCLifecycle                              statuses and their evidence
        ^ LifecycleProofs
    Sizing <- Trading <- MCTrading                        the account within one tick
       ^        ^ TradingProofs
       +------+
    Evaluator <- Replay <- MCReplay                       back-test, verifier, live signals
                    ^ ReplayProofs
    MarketData <- MCMarketData                            candles, from page to cache
        ^ MarketDataProofs
    AbstractLog <~ AuditChain <- MCAuditChain             the hash chain
                       ^ AuditChainProofs
    Service <- MCService                                  the process from outside
       ^ ServiceProofs

`<-` is EXTENDS; `<~` is a refinement: the right module INSTANCEs the left one and implements it.
`Replay` extends both `Sizing` and `Evaluator`.

The components meet in the database and in return values, and the models at these places:

- `Execution` and `Lifecycle`: which strategies signal is a constant set of decisions in the
  first, how their trades went a free choice in the second.
- `Execution` and `Trading` are the same tick at two levels. `Execution` has its orders, each
  call and each crash; sizing and limits are a free choice. `Trading` has the money: each way a bracket
  can end, by what it leaves in the account and in the ledger. Which orders lead there, what
  rests, and the race between an entry's check of the switch and its request are in `Execution`.
- `MarketData` and `Trading`: whether a symbol returned data, and whether it is stale, is a
  free choice in the second and a result in the first.
- `Replay` and `Trading`: the signal a bar gives is a result in the first, a free choice in
  the second. Both size with `Sizing`.
- `Service` sees a tick as something that succeeds, fails or hangs; it is what stands behind
  the fairness of `Execution`.

| Module | Models | Correspondence |
|---|---|---|
| `Venue` | the exchange account (not code of the repository) | `venue`: the order behind a client id; `free`: unlocked base asset; `trades`: the history `my_trades` pages through. Built from what `broker.py`, `brackets.py`, `ingest.py` rely on. |
| `Ledger` | `execution/ledger.py`, the reads of `ingest.py` | `status`, `linked`: rows of `orders`; `position`: rows of `positions`; `fills`: rows of `fills`. An operator that changes a variable is one transaction. |
| `Execution` | `brackets.py`, `broker.py`, `ingest.py`, `reconcile.py`, `runtime/{recovery,service,trading_service,scheduler}.py` | `pc` is the point the process has reached; between two values of it lies one transaction or one network call. The remaining variables are the locals of the tick (`pending`, `openSyms`, `remote`, `ing`, `cur`, `executed`, `tries`). |
| `KillSwitch` | `killswitch.py` | `db`, `file`, `tmp` are the stores; `pc[p]` the step of process p; `handle[p]` what became of the temporary file p has open (a rename moves it, a second one deletes it). |
| `AbstractSwitch` | the promise of the kill switch | released or not; each change in one instant; a gate admits only while released. |
| `Lifecycle` | `strategy/registry.py`, `research/loop.py`, `incubation/`, `promotion/gate.py`, `monitor/`, the incubation command of `cli.py`, the supervision of a tick | `status`, `specOf`: rows of `strategies`; `verified`, `selected`, `started`, `promoted`: the tables of evidence; `pc[p]`, `job[p]`: what a batch, an operator or the runtime is in the middle of. Each statement that reads, and each transaction, is a step. |
| `Sizing` | `risk/sizing.py` | pure: `size_position` in whole lot steps, its refusals in the order of the code. |
| `Trading` | `runtime/service.py` (`_tick`, `account_state`, `record_equity`), `runtime/trading_service.py`, `risk/limits.py`, `runtime/decisions.py`; `brackets.py` and `ingest.py` as far as money and positions go | `cash`, `held`, `sold`: the account at the exchange, and how much of the open position its exits have sold; `position`, `protected`: the ledger, and whose exits a poll may still see fill; `snap`: the last rows of `equity_snapshots`; `acct`, `carried`, `todo`, `purchase`, `result`: the locals of `tick`, and the entry it is waiting for. `truth`, `unsettled` and `unrecorded` are history variables: what the account was really worth, whether it was ever valued with a position already sold, and what was bought without a position. |
| `Evaluator` | `strategy/evaluator.py`, `strategy/indicators.py`, `strategy/spec.py` | pure: indicators, conditions, stops and targets over a series of candles. |
| `Replay` | `backtest/`, `verify/`, `selection/gates.py`, the paper trades of `incubation/tracker.py`, the arithmetic of `ResearchLoop.run_once`, the evaluation of a live tick | `pc` is the stage of a candidate; one bar of the engine, one trade of the verifier, one live tick is a step. |
| `MarketData` | `data/klines.py`, `validate.py`, `store.py`, `fetch_market_data` | one request, one file operation or one computation is a step; a bar is its number; `tmp`, `file` are the cache. |
| `AuditChain` | `audit.py`, the transaction of `db/engine.py` | `rows` is the table as committed, `lock` the write lock; each SQL statement is a step. A hash is the tuple of what is hashed, so it has no collisions. |
| `AbstractLog` | the promise of the audit log | a sequence that only grows; an answered append is in it. |
| `Service` | `runtime/scheduler.py`, `ops/heartbeat.py`, `run` and `health` of `cli.py`, `deploy/` | `unit`, `starts`: what docker or systemd knows; `phase`, `consecutive`, `succeeded`: the process; `beat`: the heartbeat by its age in intervals. |
| `*Proofs` | | theorems, section 6 |

The operators whose comment begins with "Mutant" are altered forms of the definition next
to them. They are no part of the model: each is a plausible mistake in the code that one
property must notice.

### Choices a reader should know

- **Attempts.** One attempt of a call is one step: the exchange processed it or never
  will. The code signs requests with a receive window (5 s) shorter than its socket timeout
  (15 s), so an attempt that timed out cannot execute later. `Retries` is the transport's
  `retries`; with `"lost"` an answer, or a request, disappears; with `"garbled"` the order
  exists and the answer cannot be used.
- **Ids.** `client_order_id` is a hash of strategy, bar, side and role, so it is the pair
  (decision, role). The exchange is taken to refuse every second use of an id, as the code
  does (`idempotency.py`), and to report the id with each trade, as `ingest.py` reads it.
- **Quantities** are lots. A market order executes in full unless `"partial"` is among the
  faults; an OCO leg executes lot by lot, and its first lot cancels the other leg.
- **A bar is fixed during a tick**, which fetches its candles once (`BarCloses` waits for
  `idle`). A decision is a strategy and a bar; each tick of that bar finds it due again.
- **Gates are over-approximated.** `"limits"`, `"stale"` and `"declined"` let the portfolio
  limits, the staleness check, or sizing and filters decide either way at any time.
- **Merged steps.** The refusal of an order and its audit event; the two record_order and
  two link calls of the exits; the two status updates after the OCO; the per-row repairs of
  one reconciliation. Nothing can be read between them that the properties distinguish,
  except by a crash, which then leaves a state another crash point also leaves.
- **Evidence is a set of ids.** Whether a back-test agrees, a gate passes or a rule fires
  is a free choice; that the outcome is stored, and before what, is not. A promotion is
  called for by a human outside the program, as in `tests/test_pipeline_e2e.py`: no command
  does it.
- **Numbers.** Money and prices are whole numbers, and every rounding is downwards: to lot
  steps in `Sizing`, to hundredths in `Evaluator` and `Replay`. The code has decimals of 28
  digits; what depends on those digits is not claimed. The integers are unbounded, as Python's.
- **A tick's valuation** reads at three instants: fills are ingested, prices fetched, then
  balances and open positions are read. An exit may execute between any two, in whole or in part.
- **A bracket's money.** An entry is sent (`Send`) and buys what it was sized for, less, or
  nothing; then its bracket ends in one step. The position is opened on an answer only (`Enter`); an entry that
  executed without one (`NotAnswered`), or before an exception or a death (`TickFails`), stays
  in no position, and the loop goes on or a new tick begins. A reversal sells all, some or
  nothing, and closes the position (`Reverse`), is blocked by the switch (`BlockReversal`), or leaves it open
  (`LeaveOpen`). What is in no position is not sold any more in the model, by no exit either.
- **The clock.** A bar has closed by the local clock, which may be behind (`Lag`) or ahead
  (`Lead`) of the exchange by some bars; a fetch asks it once, as `klines.py:137` does.
- **A series** in `MarketData` has no prices and in `Replay` no times: gaps, order and age
  belong to the first, values to the second.
- **The loop's order.** `Trading` takes symbols and strategies in any order, the code in one fixed order.
- **`armed`** in Execution is what `read_state` answers. That one value may stand for the
  two stores is what `KillSwitch` shows (`ImplementsSwitch`).
- **Exceptions.** One that leaves `tick()` is recorded by the scheduler and forgotten; one
  that leaves `start()` ends the process.

## 3. Bounds

Every bound is a constant: `LastBar`, `MaxFlips` (changes of the switch), `MaxCrashes`,
`Retries`, `Lots`, `MaxOps`, and the sets of symbols, decisions and processes. Two
decisions are the smallest conflict there is: on one symbol for the ledger, on two for
the loop, which goes on to the second while the first is in doubt. A second bar ends the
replays of the first. Two lots are the smallest entry that can fill in part,
and the smallest position an exit can fill in part. Two attempts are a retry. One crash, at
every point of every tick, reaches each recovery path; a second one meets the same
restart. In `KillSwitch`, three processes and four calls allow two overlapping writers with
a third in between, and a gate beside both. In `Lifecycle`, propose, incubate, evaluate and two
calls more let a second proposal, incubation or promotion overlap the first one's; two
days are one more than a promotion waits for.

In `Trading`, two symbols with a strategy each are the smallest tick in which a second entry
meets what the first one spent; two prices and two entries let equity rise, fall to either
limit, and let an exit slip between two reads. `MaxFaults` bounds what a tick may lose: a partial
execution, an answer, a poll, the process while an order is out. One is enough to bring
ledger and account apart, at each place where that can happen, and the second entry is then made in that
state; the limits lie just above the 22% that the smallest unrecorded purchase takes from the equity,
so that a later
tick can buy that symbol again. Two strategies of one symbol are in the proofs, and in `recovery`. In `MarketData`, the clock is up to one bar
behind and not ahead (`Lag` 1, `Lead` 0); pages of two bars and a window of three make the last
page full or short and the cut happen or not; five bars reach a third page, and two failures
exhaust a request of two attempts. In `Replay`, all series of six candles out of four are
tried against five specifications, which between them use every indicator, comparator and
kind of level: candles that touch nothing, the target, both sides, or open beyond the stop. Six bars hold
two trades one after the other; a live window of three is shorter than the series. In `AuditChain`
three events of three processes let one commit while a second waits and a third is stuck. In
`Service` the limits are the real ones (ten failures, three intervals, five starts); six
faults are an outage for each start systemd makes, and one more. What does not depend on the bounds is proved
(section 6). Symmetry is not used: symbols are told apart by their trade ids.

## 4. The runs

| Run | Instance | Shows |
|---|---|---|
| `recovery` | two strategies that signal on one symbol in one bar; refusals, lost answers, one crash, two changes of the switch by the operator, the limits or stale data | `TypeOK`; `RecordedBeforeSent`: an order the exchange has is in the ledger; `OnePositionPerSymbol`; `FillsArePrefix`: the fills of a symbol have no gap; `AtMostOneEntryAfterArm`: the entry already past its check may execute, and nothing else |
| `bracket` | two symbols, two lots, refused stops and reversals, failing polls | `NeverNaked`: bought is protected, or being protected, or reported; `ClosedExactlyWhenSold`: the ledger closes a position when, and only when, its exit filled in full |
| `exits` | one decision of two lots, a second bar, refused, lost, unusable and partial answers, under `FairSpec` | `ExitClosesPosition`, `OpenRowSettles`, `UnknownOrderHalts`: what must happen in the end |
| `switch` | the runtime and two command lines, four calls, failing commits, crashes at every step | `TypeOK`; `ImplementsSwitch`; `SoloWriteWhole`: a call nobody overlaps leaves both stores agreeing, and never half a record in the live file |
| `lifecycle` | one batch, one operator and the runtime, two specifications, five calls, one crash, under `FairSpec` | `TypeOK`; `EvidenceChain`: a status stands on its evidence; `ObservedBeforePromotion`: the incubation clock cannot be reset or backdated; `OneRowPerSpec`; `FailingStrategyStops`: a strategy whose retirement rule keeps firing leaves LIVE |
| `trading` | two symbols, two strategies, two entries, one partial execution, lost answer, failing poll or death; exits lot by lot, missing prices, new days, failing ticks, the operator | `TypeOK`; `LimitsAreExact`: while the ledger has what is held, a halt needs a real loss and a real loss halts; `CapsHold`: all entries of a tick together stay within the caps; `EverySymbolDecided`; `EntersOnlyValued`: nothing is bought unvalued, nor twice but after an unrecorded purchase |
| `replay` | every series of six candles, five specifications | `TypeOK`; `LiveActsAsBacktested`; `EnginesAgree`; `BacktestIsSound`: trades in order, the stop before the target, equity explained by the trades; `PaperIsNotFlattering` |
| `market` | three windows, pages of two, five bars, a clock up to one bar behind, two failures, one crash, under `FairSpec` | `TypeOK`; `PagingLosesNothing`; `CacheIsSound`; `StaleMeansOld`; `FetchEnds` |
| `audit` | three processes, three events, three failures | `TypeOK`; `ChainVerifies` for every reader; `DamageIsFound`; `ImplementsLog` |
| `service` | docker or systemd, six outages, hangs or deaths, under `FairSpec` | `TypeOK`; `HangIsTold`: a hang is found, a loop that goes round is not called hung; `ComesBack` |

Distinct states: `trading` 6.9 million, `recovery` 2.2 million, `market` 970 000, `lifecycle`
797 000, `replay` 425 000, `switch` 286 000, `bracket` 65 000, `exits` 34 000, `audit` 27 000,
`service` 21 000.
A deadlock is an error except in `switch` and `audit`, whose calls are bounded, `replay`, which is
over when the candidate is judged, `market`, where bars are bounded, and `service`, where a tick may hang and systemd
may give up.

Two runs expect a violation, each of a sentence the repository itself says of the code:

| Run | Property | What happens |
|---|---|---|
| `armed_reversal` | `NeverNaked` | The reversal of an unprotected entry is sent with role ENTRY, so an armed switch blocks it; the exception is caught by no handler of the bracket, and nothing reports the position (`brackets.py:3-5`, EXEC-02). |
| `stale_window` | `StaleMeansOld` | The live fetch asks for pages of 1000 bars and keeps the oldest `history_bars` (500) of the latest page, so the last bar it sees is some 500 intervals old and the switch is armed for stale data while the market is current (`klines.py:176`, `limits.py:33`, DATA-05). |

The faults of the passing runs follow from what does not hold. `bracket` keeps the switch still and
loses no answer, because with either a position can stay unprotected unreported, and it has
no partial executions, because a reversal that executes in part closes the whole position;
`exits` has no crash; `market` has pages no longer than the window. Section 8 lists these.

## 5. Fairness

| Module | Fairness | Why |
|---|---|---|
| `Execution` | `WF_vars(Runtime)` | A process that can take its next step takes it: the scheduler starts the next tick whatever the last one raised, the service manager starts the process again, and the transport's timeout ends every call. |
| `Lifecycle` | the runtime's steps | The tick is repeated. Nobody has to propose, incubate or promote, and a batch may stop half-way for good. |
| `MarketData` | `WF_vars(Caller)` | As `Execution`; `Retries` bounds the attempts. No bar has to close. |
| `Service` | `WF_vars(Runs)`, `WF_vars(IntervalPasses)`, `WF_vars(OutageEnds)` | The manager and the process go on, time passes, and an outage is not for ever. A tick that hangs is exempt: nothing ends it. |

Nothing is assumed of the operator or of the exchange, where a resting order need never
trade. `Service` says how far the first row may be trusted: the loop ends itself after ten failing
ticks, docker and systemd start it again whatever its exit status, and systemd gives up after
five quick starts. `ComesBack` names these exceptions. Liveness of `Execution` is checked
with `MaxCrashes = 0`: one crash between a fill and the closing of its position breaks
`ExitClosesPosition`. `Lifecycle` has one crash.

`Trading`, `Replay`, `AuditChain` and `KillSwitch` have no liveness to check: their
progress is that of the tick that calls them, or of SQLite's lock.

## 6. The proofs

The constants are arbitrary: any sets of symbols, decisions and processes, any size of an
entry, any percentages and prices, any bounds and faults. Only the named assumptions are
used (`VenueAssumption`, `LedgerAssumption`, `ExecutionAssumption`, `SwitchAssumption`,
`LifecycleAssumption`, `SizingAssumption`, `TradingAssumption`, `MarketAssumption`,
`AuditAssumption`, `EvaluatorAssumption`, `ReplayAssumption`, `NoneAssumption`,
`ServiceAssumption`); each says what kind of value a constant is, that `None` is no value of
another kind, that the kinds of process are disjoint, and in `Replay` that a candle's prices lie
between its low and its high and that a specification is one the code's validation accepts.
Every safety property and every action property of a run is proved. Seven theorems have a hypothesis
more, and fail without it: `OneRowPerSpecAlways`, that no two batches run at once;
`StaleMeansOldAlways`, that a page is no longer than the window (`Limit <= MaxBars`) and,
as `PagingLosesNothingAlways`, that the clock is less than two bars ahead (`Lead <= 1`);
`CacheIsSoundAlways`, that it is not ahead at all (`Lead = 0`);
`FillsArePrefixAlways`, that no trade id is used on two symbols (`IdsApart`); and the two
theorems about positions, that certain faults do not occur (the table names them). Each of
these is a weakness of the code that section 8 or a violation states.

| Theorem | Says |
|---|---|
| `TypeCorrect` | `Spec => []TypeOK` |
| `RecordedBeforeSentAlways` | `Spec => []RecordedBeforeSent` |
| `AtMostOneEntryAfterArmAlways` | `Spec => []AtMostOneEntryAfterArm` |
| `OnePositionPerSymbolAlways` | `Spec => []OnePositionPerSymbol` |
| `FillsArePrefixAlways` | `Spec /\ []IdsApart => []FillsArePrefix` |
| `NeverNakedAlways` | `Spec /\ []NotArmedAtReversal => []NeverNaked`, without lost or garbled answers, market orders that execute in part, and crashes |
| `ClosedExactlyWhenSoldAlways` | `Spec => []ClosedExactlyWhenSold`, without market orders that execute in part, and crashes |
| `SwitchTypeCorrect` | `Spec => []TypeOK` (kill switch) |
| `SwitchRefinement` | `Spec => ImplementsSwitch` |
| `SoloWriteWholeAlways` | `Spec => SoloWriteWhole`, from `SoloWriteAgreesAlways` and `SoloFileWholeAlways` |
| `LifecycleTypeCorrect` | `Spec => []TypeOK` (lifecycle) |
| `EvidenceChainAlways` | `Spec => []EvidenceChain` |
| `ObservedBeforePromotionAlways` | `Spec => []ObservedBeforePromotion` |
| `OneRowPerSpecAlways` | `Spec => []OneRowPerSpec`, for one batch at a time |
| `SizedWithinBounds` | an accepted size keeps the risk, position, cash and deployment bounds at once |
| `BaseAlways` | `Spec => []BaseInv`: ledger and account fit together, symbol by symbol (`Accounted`), whatever fails |
| `LimitsAreExactAlways` | `Spec => []LimitsAreExact`, which claims nothing once the ledger and the account came apart (`Settled`) |
| `TradingTypeCorrect`, `CapsHoldAlways` | `Spec => []TypeOK` (account), `Spec => []CapsHold` |
| `EverySymbolDecidedAlways`, `EntersOnlyValuedAlways` | the same of `EverySymbolDecided`, `EntersOnlyValued` |
| `MarketTypeCorrect`, `CacheIsWholeAlways` | `Spec => []TypeOK`, `[]CacheIsWhole` (market data), for any clock |
| `CacheIsSoundAlways` | `Spec => []CacheIsSound`, if `Lead = 0` |
| `PagingLosesNothingAlways` | `Spec => []PagingLosesNothing`, if `Lead <= 1` |
| `StaleMeansOldAlways` | `Spec => []StaleMeansOld`, if `Limit <= MaxBars` and `Lead <= 1` |
| `AuditTypeCorrect`, `ChainVerifiesAlways`, `DamageIsFoundAlways` | `Spec => []TypeOK`, `[]ChainVerifies`, `[]DamageIsFound` (audit) |
| `AuditRefinement` | `Spec => ImplementsLog` |
| `ReplayTypeCorrect` | `Spec => []TypeOK` (replay): every indicator, level, trade and equity of any series |
| `BacktestIsSoundAlways`, `PaperIsNotFlatteringAlways` | `Spec => []BacktestIsSound`, `[]PaperIsNotFlattering` |
| `EnginesAgreeAlways` | `Spec => []EnginesAgree` |
| `LiveActsAsBacktestedAlways` | `Spec => []LiveActsAsBacktested` |
| `ServiceTypeCorrect` | `Spec => []TypeOK` (service) |

The argument of each:

- *Types.* `TypeOK` is inductive only together with what the process is busy with: which
  decision it holds at which `pc`, and that the batch of trades it reads lies within the
  history (`TypeInv`). One lemma per group of variables, then one step per action.
- *Recorded before sent.* The property alone is not inductive: at `entry_post` the order
  is about to become known. The strengthening says that at each point from which an order
  is sent its row exists, and that no step ever deletes a row (`RowsStay`).
- *One entry after an arm.* `lateBuys` counts entries since the switch was armed. The
  strengthening: while armed and at `entry_post` the count is still zero, and past it at
  most one; no step leads to `entry_post` while armed.
- *One position per symbol.* What protects the property is `openSyms`, read long before it
  is used. The strengthening (`PositionInv`): from the moment it was read until the tick
  ends, every symbol with an open position is in `openSyms` or is the symbol of `cur`, and the
  symbol of `cur` is not in `openSyms`. Only `OpenThePosition` opens a position
  (`OpenedOnly`), and only ingestion, which precedes the read, and the reversal close one.
- *No gap in the fills.* `IngestInv`: the first k trades of a symbol are recorded, and while
  that symbol is ingested the batch is k + 1 to some m, so the next trade taken is trade k + 1.
  It is recorded because its order is known, hence has a row (`RecordedBeforeSent`), and its
  id is in no row yet (`NotSeen`, the one use of `IdsApart`). `HistoryGrows`: trades are only appended.
- *Never naked.* `NakedInv`: at the stages in which the process holds what the entry bought,
  it knows how much (`HoldingOK`); a leg rests for just that much, so its last fill sells all
  (`LegsOK`). `HoldSteps` shows that the process leaves these stages only through the OCO, the
  reversal or the alarm; each excluded fault is a way out past all three.
- *Closed when sold.* Every fill is of a trade (`FillsOK`) and an order has as many trades as
  lots executed (`CountOK`), so the ledger never counts more than was sold
  (`FilledAtMostDone`, by an injection). Conversely a completed exit is looked at in the very
  next step, and a leg linked to a position has no fill yet because it was not sent (`BracketOK`).
- *Kill switch.* A writer that has the switch to itself finds in the temporary file just
  what it wrote (`WriterInv`, `SoloInv`). The refinement maps `released` to the row: a commit is the
  abstract arm or release, and `ReadDb`, which admits only when the row itself says
  DISARMED, is the abstract admission; every other step stutters.
- *Evidence.* A status is checked long before another one is written, and whoever writes
  last wins, so nothing can be said of the order of the statuses. What saves the property
  is that evidence only grows (`EvidenceGrows`). The strengthening (`EvidenceInv`) says
  what a process half-way through a call may rely on: at `check` and `write`, that the
  status it is about to write is backed by evidence already stored; at `approve` and
  `promote`, that the days have passed; and that what a tick watches was once live.
- *One row.* The batch that found no row is the only one that could have made one since.
- *Sizes.* Rounding down to whole steps never pays for more than the bound (`RoundedDown`),
  fewer steps cost less, and the accepted quantity is the least of four (`QuantityIsLeast`).
- *Account.* `BaseInv`: for each symbol, what the ledger's position and the purchase that is
  out amount to is never more than what is held and what was sold of the position, and is that exactly
  unless a purchase of it is in `unrecorded` (`Accounted`). Each action moves the two sides together.
- *Limits.* The peak and the day's start are known to the runtime from snapshots only. While
  `Settled`, `Accounted` makes what the ledger marks and what is held the same number, and
  `TruthInv` says that the snapshots hold what the account was worth, so that loss and recorded
  loss coincide (`ResultInv` for the tick's outcome). `Settled` once lost never returns.
- *Bought twice.* An entry is sent only for a symbol that `carried.open` lacks, hence for one without a
  position; by `Accounted` lots of it are on the exchange only if some purchase went unrecorded.
- *Every symbol.* `ResultInv`: a configured symbol is decided or its task is still in `todo`;
  a tick that breaks off fills in the rest (`BrokenOff`).
- *Cache.* `Inv` adds to `CacheIsWhole` that the temporary file holds the series in hand when it is
  renamed. With `Lead = 0` that series had closed when its fetch began.
- *Staleness.* `FreshInv`: with pages no longer than the window, nothing is cut from an
  unbounded fetch (`NothingCut`), so the newest bar published when the fetch began is in hand.
- *Chain.* `RowsInv`: row i has sequence number i and the hash of row i - 1. It is kept because
  only the holder of the lock inserts, and what it read as head is still the head
  (`ProcessInv`). Verification, damage and refinement (`log` is the events of `rows`) follow.

- *Caps.* An entry adds to what the ledger marks no more than its size times its price, and
  `SizedWithinBounds` holds that against what the tick already deployed. `CapsInv` says that the
  sum the tick carries from entry to entry is no less than what the ledger's positions are worth at
  its prices (a partly executed entry is carried in full).
- *Paging.* `PagingInv`: between two pages, what is in hand are just the bars of the window
  before the cursor. The loop ends when a page is short, when the window is exhausted or when enough
  bars are in hand; in each case the oldest of them are the oldest of the window.
- *Types of a replay.* Each indicator is a number or `Unknown` at each bar, each signal is of its
  bar, with a number for stop and target; so fills, fees, sizes and nets are whole numbers.
- *Back-test.* `EngineInv` describes the first k trades without the engine: trade k is entered
  at the first bar after trade k - 1 whose signal of the bar before is accepted at the equity
  that k - 1 trades left (`Waited`, `Taken`), is the position bought with that equity (`Bought`) and
  ends at the first bar that ends it (`EndsAt`). Between trades none was possible
  (`Waiting`); in one, no bar has ended it (`Holding`). Order, stop first and the equity follow.
- *Engines.* `VerifierInv`: what the verifier has found are the engine's first trades, at their
  money, and its cursor is before the entry of the next one (`Follows`). A step of the verifier is
  then the next trade of the engine or a bar where none can begin, because the conditions
  of `Fits` do not mention either engine. It uses `SignalsInv`: two signals at a bar at most.
- *Paper.* The trade of the engine ends at the least bar of `Ends`, and so does the paper trade.
- *Live signals.* A window is a part of the series (`PartOf`). Over a beginning every indicator is
  what it is over the whole, smoothed ones by induction on the bar; over any other part those
  that do not smooth are, once the part is as long as their period, because a running sum is
  the difference of two sums of the whole (`TotalOfMoved`, `TotalOfPart`). Hence conditions, levels
  and the first signal agree (`FirstOfPart`), at the last bar of the window and, for a crossing, at
  the one before it: this is why `WindowSuffices` asks for one bar more than the longest period
  (and than the two that a true range needs).

Induction over data: the library's induction theorems take an operator as a parameter and
cannot be used. `ReplayProofs` argues instead by the least counterexample (`LeastNumber`, from the
well-foundedness of the numbers, and `EachNumber`), which is why `Evaluator` and `Replay` write
recursion as recursive functions and use no `SelectSeq` where a proof has to look inside.

Only model-checked: the liveness properties (`ExitClosesPosition`, `OpenRowSettles`,
`UnknownOrderHalts`, `FailingStrategyStops`, `FetchEnds`, `HangIsTold`, `ComesBack`), which rest on
fairness and ENABLED, for which no prover is installed.

## 7. Not modelled

- Rendering and messages (`ops/dashboard.py`, `notify/`), settings (`config.py`,
  `economics.py`), signing of requests, the language model behind the generator and its prompts, provenance
  hashes: no control that a property could be about.
- `intel/`: scores of evidence. The program calls `classify_regime` only, for a label on each
  decision that no branch depends on; the rest has no caller yet, and is statistics over decimals.
- `ops/health.py:check_system_health` and `reconcile_balance`, which have no caller.
- The conditions of the monitoring rules and of promotion (profit factor, drawdown,
  correlation): a free choice in `Lifecycle`. The exchange filters beyond step and smallest notional.
- Migrations, WAL mode, and loss of power between the write of a file and its reaching the disk.

What could come next: an abstract bracket (bought, protected, sold) that `Execution` implements;
two batches at once in `Lifecycle`.

## 8. What the models show of the code

Beside the two violations above, these hold of the code, and are why a property is stated
with an exemption or a run without a fault. Some run against a comment, which is quoted.

- An entry that executed on its last unanswered attempt has its row closed by
  reconciliation without a question to the exchange; no position is opened
  (`reconcile.py:66`), where `brackets.py:76` says "reconciliation must go and ask".
- A signal replayed by a later tick is refused as a duplicate, and the refusal overwrites the
  status of the order that exists with REJECTED (`brackets.py:82`), where `brackets.py:74`
  says of a terminal status "it certainly does not exist".
- A crash between the fill of an exit and the closing of its position leaves the position
  open in the ledger: the cursor has moved past the fill (`ingest.py:107`).
- Trade ids are compared across symbols (`ledger.py:157`), although the exchange numbers them per symbol.
- A position that is sold and still open in the ledger is counted as cash and as a position
  (`service.py:220-241`): an exit that fills after ingestion and before the balances are read, one
  that filled in part, one whose poll failed, one whose fill a crash separated from the closing. Equity is too high and
  is stored as a peak; the tick that closes the position sees "a fabricated loss that RISK-05
  and RISK-06 would read as real", the words of the comment there. TLC finds the halt in the
  `trading` instance when `LimitsAreExact` is asked of the states with `unrecorded = {}`.
- An entry that executed and was not answered, or that a crash or an exception separated from
  the opening of its position, is paid for and is in no position (`brackets.py:145-169`, `trading_service.py:499-519`;
  so are the lots a reversal did not sell, `brackets.py:269-286`). `valuation_complete` stays
  true, because only the ledger's positions are looked at: the next tick reads the price of the purchase as a
  loss, and can halt with MAX_ACCOUNT_DD or DAILY_LOSS_LIMIT for one that never was. TLC finds this
  halt too when `LimitsAreExact` is asked of the states with `~unsettled`. Hence its premise
  `Settled`, which names the two cases; a limit halts just the real losses as long as neither
  has happened. Nothing in the code tells that one has.
- After such an entry the symbol counts as free, in the same tick and in later ones, so it can be
  bought a second time, by another strategy too (`trading_service.py:499-519`), where RISK-08
  (`docs/SPECIFICATION.md:167`) says one position per symbol. The ledger has one; the account holds both.
  `EntersOnlyValued` shows that an unrecorded purchase is the only way there. `CapsHold` is about the ledger's
  positions and so about the second purchase only.
- `fetch` compares each bar with the local clock (`klines.py:137`, `159`). With a clock that is
  ahead of the exchange the forming bar is kept, stored and evaluated, which DATA-02 (`docs/SPECIFICATION.md:100`)
  excludes. `preflight` measures the drift and only warns, from `recv_window_ms` on
  (`service.py:93-104`); a drift below it is enough in the moments before a bar closes, and at start-up nothing
  is asked. With `Lead = 1` TLC finds `CacheIsSound` violated, while `CacheIsWhole`,
  `StaleMeansOld` and `PagingLosesNothing` hold; from `Lead = 2` the cursor can pass a bar.
- The stored peak is not reset when an operator disarms after a drawdown, so the next tick halts again.
- A symbol taken from the settings while a position in it is open has no price from then on,
  and suspends all entries for as long as the position is open.
- A retirement can be written over by a batch that read LIVE before it (`registry.py:78`), where
  `registry.py:77` says "RETIRED is terminal (MON-06)".
- With two signals on one bar the two engines keep different ones (`vector_engine.py:60`); the verifier
  closes the trade open at the end without slippage (`vector_engine.py:136`).
- Smoothed indicators depend on where the window begins, so a live tick and the back-test can differ
  on them; `require_evaluable` (`evaluator.py:316`), which would refuse a period longer than the window, has no caller.
- A hung tick is found by the health check and ended by nobody: neither service manager looks at
  it. An outage that outlasts ten ticks makes the following starts fail at once, and systemd
  gives up after the fifth; the runbook says only that it "throttles a crash loop".
