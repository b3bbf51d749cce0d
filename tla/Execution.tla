----------------------------- MODULE Execution -----------------------------
(***************************************************************************)
(* The runtime process trading one account: service.tick as the scheduler  *)
(* repeats it, with fill ingestion, reconciliation, the bracketed entry    *)
(* and start-up recovery, against the exchange of module Venue, while an   *)
(* operator arms and disarms the kill switch and the process may crash.    *)
(*                                                                         *)
(* pc is the point the process has reached. Between two values of pc the   *)
(* code makes one transaction or one network call, which is where another  *)
(* actor or a crash can come in.                                           *)
(*                                                                         *)
(*   down    -> fetch -> reconcile (-> halt) -> ingest .. -> idle  start() *)
(*   idle    -> ingest -> (record -> close)* -> account -> fetch           *)
(*           -> reconcile (-> halt) -> gate -> entries -> idle     tick()  *)
(*   entries -> entry_check -> entry_post -> entry_ack -> open -> exits    *)
(*           -> oco_post -> oco_ack -> entries                    bracket  *)
(*   oco_post -> rev_record -> rev_check -> rev_post -> rev_ack            *)
(*           -> rev_close -> entries                             reversal  *)
(***************************************************************************)
EXTENDS Ledger

CONSTANTS
    BarOf,       \* BarOf[d]: the bar whose close makes decision d
    LastBar,     \* bound: the last bar of the run
    Retries,     \* attempts the transport makes of one call
    Faults,      \* what may go wrong in this instance
    MaxFlips,    \* bound: how often the kill switch is armed or disarmed
    MaxCrashes,  \* bound: how often the process dies
    None         \* no decision is being bracketed

ASSUME ExecutionAssumption ==
    /\ BarOf \in [Decisions -> Nat]
    /\ LastBar \in Nat
    /\ Retries \in Nat \ {0}
    /\ Faults \subseteq {"refused", "lost", "garbled", "partial", "getfails",
                         "declined", "limits", "stale", "crash"}
    /\ MaxFlips \in Nat
    /\ MaxCrashes \in Nat
    /\ None \notin Decisions

VARIABLES
    armed,      \* what KillSwitch.read_state would answer is ARMED
    flips,      \* bound: armings and disarmings so far
    lateBuys,   \* history: entries the exchange executed since armed became TRUE
    alarm,      \* the decisions an unprotected_position audit event names
    bar,        \* the last closed bar
    crashes,    \* bound: crashes so far
    pc,         \* the point the process has reached
    starting,   \* TRUE in start(), FALSE in tick()
    cur,        \* the decision being bracketed
    tries,      \* attempts already made of the current call
    executed,   \* executed_qty of the entry's acknowledgement
    todo,       \* symbols not ingested yet in this pass
    ing,        \* the symbol being ingested and the trades not read yet
    remote,     \* the answer to /openOrders this tick holds
    openSyms,   \* open_symbols: the symbols this tick must not enter
    pending     \* the signals of this bar this tick has not considered yet

switchVars == <<armed, flips, lateBuys>>
callVars == <<cur, tries, executed>>
tickVars == <<todo, ing, remote, openSyms, pending>>
boundVars == <<bar, crashes>>
vars == <<venueVars, ledgerVars, switchVars, alarm, boundVars, pc, starting, callVars, tickVars>>

EntryPcs == {"entry_check", "entry_post"}
ProtectPcs == {"entry_ack", "open", "exits", "oco_post", "oco_ack",
               "rev_record", "rev_check", "rev_post", "rev_ack", "rev_close"}
BracketPcs == EntryPcs \cup ProtectPcs
Pcs == BracketPcs \cup
       {"down", "idle", "ingest", "record", "close", "account", "fetch", "reconcile",
        "halt", "gate", "entries"}

NoOrders == [o \in OrderIds |-> "absent"]
NoBatch == [order |-> None, sym |-> None, batch |-> {}]

SwitchTypeOK ==
    /\ armed \in BOOLEAN /\ flips \in Nat /\ lateBuys \in Nat
    /\ alarm \subseteq Decisions
    /\ bar \in Nat /\ crashes \in Nat

ProcessTypeOK ==
    /\ pc \in Pcs /\ starting \in BOOLEAN
    /\ cur \in Decisions \cup {None} /\ (pc \in BracketPcs => cur \in Decisions)
    /\ tries \in Nat /\ executed \in 0..Lots

TickTypeOK ==
    /\ todo \subseteq Symbols
    /\ ing \in [order : OrderIds \cup {None}, sym : Symbols \cup {None}, batch : SUBSET Nat]
    /\ pc \in {"record", "close"} => ing.sym \in Symbols
    /\ pc = "close" => ing.order \in OrderIds
    /\ remote \in [OrderIds -> {"absent", "NEW", "PARTIALLY_FILLED"}]
    /\ openSyms \subseteq Symbols
    /\ pending \subseteq Decisions

TypeOK == VenueTypeOK /\ LedgerTypeOK /\ SwitchTypeOK /\ ProcessTypeOK /\ TickTypeOK

Init ==
    /\ VenueInit
    /\ LedgerInit
    /\ armed = FALSE /\ flips = 0 /\ lateBuys = 0
    /\ alarm = {}
    /\ bar = 1 /\ crashes = 0
    /\ pc = "down" /\ starting = FALSE
    /\ cur = None /\ tries = 0 /\ executed = 0
    /\ todo = {} /\ ing = NoBatch /\ remote = NoOrders /\ openSyms = {} /\ pending = {}

Cur(role) == ClientOrderId(cur, role)

\* The tick is over: it returned, or an exception left it for the scheduler.
\* Whatever it held in local variables is gone; so it is after a crash.
Forget(where) ==
    /\ pc' = where /\ starting' = FALSE
    /\ cur' = None /\ tries' = 0 /\ executed' = 0
    /\ todo' = {} /\ ing' = NoBatch /\ remote' = NoOrders /\ openSyms' = {} /\ pending' = {}

EndTick == Forget("idle")

\* An exception that leaves start() ends the process, one that leaves tick()
\* is swallowed by the scheduler.
Abort == Forget(IF starting THEN "down" ELSE "idle")

Goto(label) == pc' = label

May(fault) == fault \in Faults

\* The quantities a market order for q lots may execute.
Executable(q) == IF May("partial") THEN 0..q ELSE {q}

-----------------------------------------------------------------------------
(* The kill switch, as the one value its readers act on.                   *)

CanFlip == flips < MaxFlips

SetArmed ==
    /\ armed' = TRUE /\ flips' = flips + 1
    /\ lateBuys' = IF armed THEN lateBuys ELSE 0

OperatorArms ==
    /\ CanFlip /\ ~armed /\ SetArmed
    /\ UNCHANGED <<venueVars, ledgerVars, alarm, boundVars, pc, starting, callVars, tickVars>>

OperatorDisarms ==
    /\ CanFlip /\ armed
    /\ armed' = FALSE /\ flips' = flips + 1 /\ lateBuys' = 0
    /\ UNCHANGED <<venueVars, ledgerVars, alarm, boundVars, pc, starting, callVars, tickVars>>

\* An entry the exchange executes, counted while the switch is armed.
CountBuy ==
    /\ lateBuys' = IF armed THEN lateBuys + 1 ELSE lateBuys
    /\ UNCHANGED <<armed, flips>>

-----------------------------------------------------------------------------
(* The exchange and the clock.                                             *)

ExitTrades ==
    /\ \E d \in Decisions : \E leg \in ExitLegs(d) : FillExit(d, leg)
    /\ UNCHANGED <<ledgerVars, switchVars, alarm, boundVars, pc, starting, callVars, tickVars>>

\* A tick fetches its candles once, so a bar that closes during it is not seen.
BarCloses ==
    /\ pc \in {"idle", "down"} /\ bar < LastBar
    /\ bar' = bar + 1
    /\ UNCHANGED <<venueVars, ledgerVars, switchVars, alarm, crashes, pc, starting, callVars, tickVars>>

Crash ==
    /\ May("crash") /\ crashes < MaxCrashes /\ pc # "down"
    /\ crashes' = crashes + 1
    /\ Forget("down")
    /\ UNCHANGED <<venueVars, ledgerVars, switchVars, alarm, bar>>

-----------------------------------------------------------------------------
(* start() and the parts of the tick before entries.                       *)

Start ==
    /\ pc = "down"
    /\ Goto("fetch") /\ starting' = TRUE
    /\ UNCHANGED <<venueVars, ledgerVars, switchVars, alarm, boundVars, callVars, tickVars>>

BeginTick ==
    /\ pc = "idle"
    /\ Goto("ingest") /\ todo' = Symbols
    /\ UNCHANGED <<venueVars, ledgerVars, switchVars, alarm, boundVars, starting, callVars,
                   ing, remote, openSyms, pending>>

\* ingest(symbol): read the cursor and ask for the trades after it.
IngestFetch ==
    /\ pc = "ingest"
    /\ \E s \in todo :
        /\ todo' = todo \ {s}
        /\ ing' = [order |-> None, sym |-> s, batch |-> Unread(s)]
    /\ Goto("record")
    /\ UNCHANGED <<venueVars, ledgerVars, switchVars, alarm, boundVars, starting, callVars,
                   remote, openSyms, pending>>

\* ingest_all: a symbol whose poll raises is skipped, the others go on.
IngestFails ==
    /\ pc = "ingest" /\ May("getfails")
    /\ \E s \in todo : todo' = todo \ {s}
    /\ UNCHANGED <<venueVars, ledgerVars, switchVars, alarm, boundVars, pc, starting, callVars,
                   ing, remote, openSyms, pending>>

IngestDone ==
    /\ pc = "ingest" /\ todo = {}
    /\ IF starting THEN EndTick
       ELSE Goto("account") /\ UNCHANGED <<starting, callVars, tickVars>>
    /\ UNCHANGED <<venueVars, ledgerVars, switchVars, alarm, boundVars>>

\* Mutant: the trades of a batch are taken in any order.
NextTrade_AnyOrder(i) == i \in ing.batch

\* The next trade of the batch. The exchange reports trades in id order.
NextTrade(i) == i \in ing.batch /\ \A j \in ing.batch : i <= j

\* record_fill and the duplicate and orphan branches of its caller. Recording
\* is a transaction of its own; the position is looked at after it.
RecordFill ==
    /\ pc = "record"
    /\ \E i \in ing.batch :
        LET o == trades[ing.sym][i]
            id == TradeId(ing.sym, i)
            new == status[o] # "NONE" /\ ~Seen(id)
        IN /\ NextTrade(i)
           /\ fills' = IF new THEN fills \cup {[id |-> id, order |-> o]} ELSE fills
           /\ ing' = [order |-> IF new THEN o ELSE None, sym |-> ing.sym, batch |-> ing.batch \ {i}]
           /\ Goto(IF new THEN "close" ELSE "record")
    /\ UNCHANGED <<venueVars, status, linked, position, switchVars, alarm, boundVars, starting,
                   callVars, todo, remote, openSyms, pending>>

RecordDone ==
    /\ pc = "record" /\ ing.batch = {}
    /\ Goto("ingest") /\ ing' = NoBatch
    /\ UNCHANGED <<venueVars, ledgerVars, switchVars, alarm, boundVars, starting, callVars,
                   todo, remote, openSyms, pending>>

\* _close_if_exit_filled
CloseIfExitFilled ==
    /\ pc = "close"
    /\ IF ExitComplete(ing.order)
       THEN ClosePosition(DecisionOf(ing.order))
       ELSE UNCHANGED position
    /\ Goto("record") /\ ing' = [ing EXCEPT !.order = None]
    /\ UNCHANGED <<venueVars, status, linked, fills, switchVars, alarm, boundVars, starting,
                   callVars, todo, remote, openSyms, pending>>

\* account_state: the symbols the ledger holds open are taken here.
ReadAccount ==
    /\ pc = "account"
    /\ openSyms' = OpenSymbols
    /\ Goto("fetch")
    /\ UNCHANGED <<venueVars, ledgerVars, switchVars, alarm, boundVars, starting, callVars,
                   todo, ing, remote, pending>>

FetchOpenOrders ==
    /\ pc = "fetch"
    /\ remote' = OpenOrders
    /\ Goto("reconcile")
    /\ UNCHANGED <<venueVars, ledgerVars, switchVars, alarm, boundVars, starting, callVars,
                   todo, ing, openSyms, pending>>

\* Any unguarded call to the exchange before the entries may raise.
FetchFails ==
    /\ pc \in {"account", "fetch"} /\ May("getfails")
    /\ Abort
    /\ UNCHANGED <<venueVars, ledgerVars, switchVars, alarm, boundVars>>

LocalOpen(o) == status[o] \in OpenStatuses

\* Mutant: only an order without any row is unknown.
Unreconcilable_NoRow == {o \in OrderIds : remote[o] # "absent" /\ status[o] = "NONE"}

\* remote.keys() - local.keys(), the orders the exchange has and we do not.
Unreconcilable == {o \in OrderIds : remote[o] # "absent" /\ ~LocalOpen(o)}

\* Mutant: a row whose submission was never answered is left alone.
Repaired_NotSubmitted(o) ==
    IF ~LocalOpen(o) \/ status[o] = "SUBMITTED" THEN status[o]
    ELSE IF remote[o] = "absent" THEN "RECONCILED_CLOSED" ELSE remote[o]

\* What a row says after the repairs: open rows only are touched.
Repaired(o) ==
    IF ~LocalOpen(o) THEN status[o]
    ELSE IF remote[o] = "absent" THEN "RECONCILED_CLOSED" ELSE remote[o]

Reconcile ==
    /\ pc = "reconcile"
    /\ status' = [o \in OrderIds |-> Repaired(o)]
    /\ Goto(IF Unreconcilable # {} THEN "halt" ELSE IF starting THEN "ingest" ELSE "gate")
    /\ todo' = IF Unreconcilable = {} /\ starting THEN Symbols ELSE todo
    /\ remote' = NoOrders
    /\ UNCHANGED <<venueVars, linked, position, fills, switchVars, alarm, boundVars, starting,
                   callVars, ing, openSyms, pending>>

\* The reconciler arms the switch after its repairs are committed.
ReconcileArms ==
    /\ pc = "halt"
    /\ IF armed THEN UNCHANGED switchVars
       ELSE armed' = TRUE /\ lateBuys' = 0 /\ UNCHANGED flips
    /\ Goto(IF starting THEN "ingest" ELSE "gate")
    /\ todo' = IF starting THEN Symbols ELSE todo
    /\ UNCHANGED <<venueVars, ledgerVars, alarm, boundVars, starting, callVars,
                   ing, remote, openSyms, pending>>

\* The portfolio limits, the armed switch, and an incomplete valuation each end
\* the tick here; otherwise every strategy that signals on this bar is due.
Gate ==
    /\ pc = "gate"
    /\ \/ /\ May("limits") /\ CanFlip /\ SetArmed /\ EndTick
       \/ /\ armed /\ EndTick /\ UNCHANGED switchVars
       \/ /\ ~armed /\ May("declined") /\ EndTick /\ UNCHANGED switchVars
       \/ /\ ~armed
          /\ Goto("entries") /\ pending' = {d \in Decisions : BarOf[d] = bar}
          /\ UNCHANGED <<switchVars, starting, callVars, todo, ing, remote, openSyms>>
    /\ UNCHANGED <<venueVars, ledgerVars, alarm, boundVars>>

-----------------------------------------------------------------------------
(* The entry loop and open_bracketed_position.                             *)

OpenVolatile == <<todo, ing, remote>>

\* Back in the loop for the next strategy.
NextEntry == Goto("entries") /\ cur' = None /\ tries' = 0 /\ executed' = 0

\* A signal the loop passes over: its symbol is taken, or market data, the
\* exchange filters or the sizer decline it.
DeclineEntry ==
    /\ pc = "entries"
    /\ \E d \in pending :
        /\ SymbolOf[d] \in openSyms \/ May("declined")
        /\ pending' = pending \ {d}
    /\ UNCHANGED <<venueVars, ledgerVars, switchVars, alarm, boundVars, pc, starting, callVars,
                   OpenVolatile, openSyms>>

\* A stale series arms the switch and breaks out of the loop.
StaleData ==
    /\ pc = "entries" /\ pending # {} /\ May("stale") /\ CanFlip
    /\ SetArmed
    /\ EndTick
    /\ UNCHANGED <<venueVars, ledgerVars, alarm, boundVars>>

TickDone ==
    /\ pc = "entries" /\ pending = {}
    /\ EndTick
    /\ UNCHANGED <<venueVars, ledgerVars, switchVars, alarm, boundVars>>

\* The entry is written to the ledger before it is sent.
RecordEntry ==
    /\ pc = "entries"
    /\ \E d \in pending :
        /\ SymbolOf[d] \notin openSyms
        /\ pending' = pending \ {d} /\ cur' = d
        /\ RecordOrders({ClientOrderId(d, "ENTRY")})
    /\ Goto("entry_check")
    /\ UNCHANGED <<venueVars, linked, position, fills, switchVars, alarm, boundVars, starting,
                   tries, executed, OpenVolatile, openSyms>>

\* Mutant: the switch is not asked again before the order is sent.
CheckCanEnter_Skipped ==
    /\ pc = "entry_check"
    /\ Goto("entry_post")
    /\ UNCHANGED <<status, starting, callVars, tickVars>>
    /\ UNCHANGED <<venueVars, linked, position, fills, switchVars, alarm, boundVars>>

\* check_can_enter, immediately before the order is sent.
CheckCanEnter ==
    /\ pc = "entry_check"
    /\ IF armed THEN SetStatus({Cur("ENTRY")}, "NOT_SENT") /\ EndTick
       ELSE Goto("entry_post") /\ UNCHANGED <<status, starting, callVars, tickVars>>
    /\ UNCHANGED <<venueVars, linked, position, fills, switchVars, alarm, boundVars>>

\* An attempt brought no answer: try again, or give up and go to next.
NoAnswer(next) ==
    IF tries + 1 < Retries
    THEN tries' = tries + 1 /\ UNCHANGED <<pc, cur, executed>>
    ELSE next

EntryAccepted ==
    /\ pc = "entry_post"
    /\ \E n \in Executable(Lots) :
        /\ ExecuteEntry(cur, n)
        /\ \/ /\ Goto("entry_ack") /\ executed' = n /\ tries' = 0
              /\ UNCHANGED <<cur, starting, tickVars>>
           \/ May("lost") /\ NoAnswer(NextEntry) /\ UNCHANGED <<starting, tickVars>>
           \/ May("garbled") /\ EndTick
    /\ CountBuy
    /\ UNCHANGED <<ledgerVars, alarm, boundVars>>

\* A terminal answer: the id is taken, or the exchange declines the order.
EntryRefused ==
    /\ pc = "entry_post"
    /\ Known(Cur("ENTRY")) \/ May("refused")
    /\ SetStatus({Cur("ENTRY")}, "REJECTED")
    /\ NextEntry
    /\ UNCHANGED <<venueVars, linked, position, fills, switchVars, alarm, boundVars, starting,
                   tickVars>>

\* The request, or the answer to a request that changed nothing, was lost.
EntryUnanswered ==
    /\ pc = "entry_post" /\ May("lost")
    /\ NoAnswer(NextEntry)
    /\ UNCHANGED <<venueVars, ledgerVars, switchVars, alarm, boundVars, starting, tickVars>>

\* The acknowledged status is stored. A market order is final when answered.
EntryAcknowledged ==
    /\ pc = "entry_ack"
    /\ SetStatus({Cur("ENTRY")}, venue[Cur("ENTRY")].state)
    /\ IF executed = 0 THEN NextEntry ELSE Goto("open") /\ UNCHANGED callVars
    /\ UNCHANGED <<venueVars, linked, position, fills, switchVars, alarm, boundVars, starting,
                   tickVars>>

\* open_position, then the entry's row is linked to it.
OpenThePosition ==
    /\ pc = "open"
    /\ OpenPosition(cur, executed)
    /\ linked' = linked \cup {Cur("ENTRY")}
    /\ Goto("exits")
    /\ UNCHANGED <<venueVars, status, fills, switchVars, alarm, boundVars, starting, callVars,
                   tickVars>>

\* Mutant: one leg of the OCO is recorded before it is sent.
RecordExits_StopOnly ==
    /\ pc = "exits"
    /\ RecordOrders({Cur("STOP")})
    /\ linked' = linked \cup ExitLegs(cur)
    /\ Goto("oco_post")
    /\ UNCHANGED <<venueVars, position, fills, switchVars, alarm, boundVars, starting, callVars,
                   tickVars>>

RecordExits ==
    /\ pc = "exits"
    /\ RecordOrders(ExitLegs(cur))
    /\ linked' = linked \cup ExitLegs(cur)
    /\ Goto("oco_post")
    /\ UNCHANGED <<venueVars, position, fills, switchVars, alarm, boundVars, starting, callVars,
                   tickVars>>

\* Mutants: the failed stop is passed over; the decision is lost on the way.
GoReverse_PassedOver == NextEntry

GoReverse_Forgets == Goto("rev_record") /\ tries' = 0 /\ cur' = None /\ UNCHANGED executed

GoReverse == Goto("rev_record") /\ tries' = 0 /\ UNCHANGED <<cur, executed>>

\* An answer without one of the legs is an OrderRejection without a status.
OcoAccepted ==
    /\ pc = "oco_post"
    /\ AcceptOco(cur, executed)
    /\ \/ Goto("oco_ack") /\ tries' = 0 /\ UNCHANGED <<cur, executed, starting, tickVars>>
       \/ May("lost") /\ NoAnswer(GoReverse) /\ UNCHANGED <<starting, tickVars>>
       \/ May("garbled") /\ GoReverse /\ UNCHANGED <<starting, tickVars>>
       \/ May("garbled") /\ EndTick
    /\ UNCHANGED <<ledgerVars, switchVars, alarm, boundVars>>

OcoRefused ==
    /\ pc = "oco_post"
    /\ \/ \E o \in ExitLegs(cur) : Known(o)
       \/ ~CanSell(cur, executed)
       \/ May("refused")
    /\ SetStatus(ExitLegs(cur), "REJECTED")
    /\ GoReverse
    /\ UNCHANGED <<venueVars, linked, position, fills, switchVars, alarm, boundVars, starting,
                   tickVars>>

OcoUnanswered ==
    /\ pc = "oco_post" /\ May("lost")
    /\ NoAnswer(GoReverse)
    /\ UNCHANGED <<venueVars, ledgerVars, switchVars, alarm, boundVars, starting, tickVars>>

\* Mutant: the symbol is not taken for the rest of the tick.
OcoAcknowledged_KeepsSymbol ==
    /\ pc = "oco_ack"
    /\ SetStatus(ExitLegs(cur), "NEW")
    /\ NextEntry
    /\ UNCHANGED <<venueVars, linked, position, fills, switchVars, alarm, boundVars, starting,
                   OpenVolatile, openSyms, pending>>

\* The bracket stands: both legs rest, and the tick will not enter s again.
OcoAcknowledged ==
    /\ pc = "oco_ack"
    /\ SetStatus(ExitLegs(cur), "NEW")
    /\ openSyms' = openSyms \cup {SymbolOf[cur]}
    /\ NextEntry
    /\ UNCHANGED <<venueVars, linked, position, fills, switchVars, alarm, boundVars, starting,
                   OpenVolatile, pending>>

RecordReversal ==
    /\ pc = "rev_record"
    /\ RecordOrders({Cur("REVERSAL")})
    /\ linked' = linked \cup {Cur("REVERSAL")}
    /\ Goto("rev_check")
    /\ UNCHANGED <<venueVars, position, fills, switchVars, alarm, boundVars, starting, callVars,
                   tickVars>>

\* The reversal is placed with role ENTRY, so place() asks the kill switch. The
\* KillSwitchArmedError is not handled before the tick, which stops.
CheckReversal ==
    /\ pc = "rev_check"
    /\ IF armed THEN EndTick ELSE Goto("rev_post") /\ UNCHANGED <<starting, callVars, tickVars>>
    /\ UNCHANGED <<venueVars, ledgerVars, switchVars, alarm, boundVars>>

\* UnprotectedPositionError: audited, and the tick ends with it.
RaiseUnprotected == alarm' = alarm \cup {cur} /\ EndTick

ReversalGivesUpOrRetries ==
    IF tries + 1 < Retries
    THEN tries' = tries + 1 /\ UNCHANGED <<pc, starting, cur, executed, tickVars, alarm>>
    ELSE RaiseUnprotected

ReversalAccepted ==
    /\ pc = "rev_post"
    /\ \E n \in Executable(executed) : ExecuteReversal(cur, executed, n)
    /\ \/ Goto("rev_ack") /\ tries' = 0 /\ UNCHANGED <<cur, executed, alarm, starting, tickVars>>
       \/ May("lost") /\ ReversalGivesUpOrRetries
       \/ May("garbled") /\ EndTick /\ UNCHANGED alarm
    /\ UNCHANGED <<ledgerVars, switchVars, boundVars>>

ReversalRefused ==
    /\ pc = "rev_post"
    /\ Known(Cur("REVERSAL")) \/ ~CanSell(cur, executed) \/ May("refused")
    /\ SetStatus({Cur("REVERSAL")}, "REJECTED")
    /\ RaiseUnprotected
    /\ UNCHANGED <<venueVars, linked, position, fills, switchVars, boundVars>>

ReversalUnanswered ==
    /\ pc = "rev_post" /\ May("lost")
    /\ ReversalGivesUpOrRetries
    /\ UNCHANGED <<venueVars, ledgerVars, switchVars, boundVars>>

ReversalAcknowledged ==
    /\ pc = "rev_ack"
    /\ SetStatus({Cur("REVERSAL")}, venue[Cur("REVERSAL")].state)
    /\ Goto("rev_close")
    /\ UNCHANGED <<venueVars, linked, position, fills, switchVars, alarm, boundVars, starting,
                   callVars, tickVars>>

\* The position is closed on the acknowledgement, whatever quantity it reports.
CloseReversed ==
    /\ pc = "rev_close"
    /\ ClosePosition(cur)
    /\ NextEntry
    /\ UNCHANGED <<venueVars, status, linked, fills, switchVars, alarm, boundVars, starting,
                   tickVars>>

-----------------------------------------------------------------------------
(* The system.                                                             *)

TickStep ==
    \/ Start \/ BeginTick
    \/ IngestFetch \/ IngestFails \/ IngestDone
    \/ RecordFill \/ RecordDone \/ CloseIfExitFilled
    \/ ReadAccount \/ FetchOpenOrders \/ FetchFails
    \/ Reconcile \/ ReconcileArms \/ Gate

EntryStep ==
    \/ DeclineEntry \/ StaleData \/ TickDone
    \/ RecordEntry \/ CheckCanEnter
    \/ EntryAccepted \/ EntryRefused \/ EntryUnanswered \/ EntryAcknowledged

ProtectStep ==
    \/ OpenThePosition \/ RecordExits
    \/ OcoAccepted \/ OcoRefused \/ OcoUnanswered \/ OcoAcknowledged

ReverseStep ==
    \/ RecordReversal \/ CheckReversal
    \/ ReversalAccepted \/ ReversalRefused \/ ReversalUnanswered \/ ReversalAcknowledged
    \/ CloseReversed

Runtime == TickStep \/ EntryStep \/ ProtectStep \/ ReverseStep

Environment == OperatorArms \/ OperatorDisarms \/ ExitTrades \/ BarCloses \/ Crash

Next == Runtime \/ Environment

Spec == Init /\ [][Next]_vars

\* The process runs and the service manager starts it again when it ended; the
\* transport gives every call a timeout. Nobody has to trade, arm or crash.
FairSpec == Spec /\ WF_vars(Runtime)

-----------------------------------------------------------------------------
(* What the code must keep true.                                           *)

\* Every order is in the ledger before the exchange can know of it, whatever
\* is lost or crashes (open_bracketed_position: "Recording first costs a row
\* that reconciliation will close; recording after would cost a halt").
RecordedBeforeSent == \A o \in OrderIds : Known(o) => status[o] # "NONE"

\* RISK-08: the ledger never holds two open positions on one symbol, although
\* the symbols a tick must not enter are read before reconciliation and entries.
OnePositionPerSymbol ==
    \A d, e \in Decisions :
        /\ d # e /\ SymbolOf[d] = SymbolOf[e]
        => ~(position[d].state = "open" /\ position[e].state = "open")

\* EXEC-06 and KILL-01: arming stops entries at once. The check is made before
\* the transport's retries, so one entry that passed it may still execute; the
\* retries of that one, and every other signal of the tick, must not.
AtMostOneEntryAfterArm == lateBuys <= 1

\* The fills of a symbol are the first trades of its history, each under the
\* order it executed, without a gap: the cursor is the highest recorded id, so a
\* trade that was skipped once is never asked for again.
RecordedUpTo(s, k) ==
    {f \in fills : SymbolOfOrder(f.order) = s} =
        {[id |-> TradeId(s, i), order |-> trades[s][i]] : i \in 1..k}

FillsArePrefix == \A s \in Symbols : \E k \in 0..Len(trades[s]) : RecordedUpTo(s, k)

\* A position the ledger calls closed is one the account no longer has.
ClosedMeansSold ==
    \A d \in Decisions :
        position[d].state = "closed" => Sold(d) >= position[d].qty

\* EXEC-02: what an entry bought is protected by a resting stop, or the process
\* is at this moment placing the stop or reversing the entry, or the failure of
\* both has been raised as an unprotected position.
NeverNaked ==
    \A d \in Decisions :
        Held(d) > 0 =>
            \/ Protected(d)
            \/ cur = d /\ pc \in EntryPcs \cup ProtectPcs
            \/ d \in alarm

\* A position whose exit fills the ledger holds is closed, or is just being
\* closed: nothing looks at those fills a second time.
ExitRecordedMeansClosed ==
    \A d \in Decisions : \A o \in ExitLegs(d) :
        ExitComplete(o) => pc = "close" /\ ing.order = o

\* Both: the ledger closes a position exactly when its exit executed in full.
ClosedExactlyWhenSold == ClosedMeansSold /\ ExitRecordedMeansClosed

\* A position whose stop or target has executed in full is closed in the ledger in the end
\* ("Without this the ledger holds the position open forever").
ExitClosesPosition ==
    \A d \in Decisions :
        (position[d].state = "open" /\ \E o \in ExitLegs(d) : venue[o].state = "FILLED")
            ~> position[d].state = "closed"

\* EXEC-05: a resting order that the ledger does not hold open ends in an armed
\* switch, unless it stops resting or the ledger catches up.
UnknownOrderHalts ==
    \A o \in OrderIds :
        (Resting(o) /\ ~LocalOpen(o)) ~> (armed \/ ~Resting(o) \/ LocalOpen(o))

\* A row the ledger holds open is settled in the end once the order rests no
\* more: SUBMITTED is not a state an order is left in.
OpenRowSettles ==
    \A o \in OrderIds :
        (LocalOpen(o) /\ ~Resting(o)) ~> (~LocalOpen(o) \/ Resting(o))
=============================================================================
