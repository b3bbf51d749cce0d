------------------------------- MODULE Ledger -------------------------------
(***************************************************************************)
(* The order, fill and position ledger (execution/ledger.py) and the read  *)
(* that fill ingestion makes of it (execution/ingest.py). Every operator   *)
(* that changes a variable is one SQLite transaction.                      *)
(***************************************************************************)
EXTENDS Venue

CONSTANT
    FirstTradeId   \* FirstTradeId[s]: the exchange's trade ids on s follow this one

ASSUME LedgerAssumption == FirstTradeId \in [Symbols -> Nat]

VARIABLES
    status,     \* status[o]: orders.status of the row of o, "NONE" without a row
    linked,     \* the orders whose row has a position_id
    position,   \* position[d]: the position row opened for decision d
    fills       \* the rows of the fills table

ledgerVars == <<status, linked, position, fills>>

OpenStatuses == {"NEW", "PARTIALLY_FILLED", "SUBMITTED"}
Statuses ==
    OpenStatuses \cup
    {"NONE", "NOT_SENT", "REJECTED", "FILLED", "CANCELED", "EXPIRED", "RECONCILED_CLOSED"}

\* A decision opens at most one position: the exchange acknowledges its entry
\* order once, because it refuses the second use of an id.
PositionRow == [state : {"none", "open", "closed"}, qty : 0..Lots]
NoPosition == [state |-> "none", qty |-> 0]

FillRow == [id : Nat, order : OrderIds]

LedgerTypeOK ==
    /\ status \in [OrderIds -> Statuses]
    /\ linked \subseteq OrderIds
    /\ position \in [Decisions -> PositionRow]
    /\ fills \subseteq FillRow

LedgerInit ==
    /\ status = [o \in OrderIds |-> "NONE"]
    /\ linked = {}
    /\ position = [d \in Decisions |-> NoPosition]
    /\ fills = {}

\* record_order: an existing row is left exactly as it is.
RecordOrders(os) ==
    status' = [o \in OrderIds |->
                  IF o \in os /\ status[o] = "NONE" THEN "SUBMITTED" ELSE status[o]]

SetStatus(os, st) ==
    status' = [o \in OrderIds |-> IF o \in os THEN st ELSE status[o]]

OpenPosition(d, n) ==
    position' = [position EXCEPT ![d] = [state |-> "open", qty |-> n]]

ClosePosition(d) ==
    /\ position[d].state = "open"
    /\ position' = [position EXCEPT ![d].state = "closed"]

OpenSymbols == {SymbolOf[d] : d \in {e \in Decisions : position[e].state = "open"}}

\* Any row with this trade id, whatever symbol it was recorded for.
Seen(id) == \E f \in fills : f.id = id

FilledQuantity(o) == Cardinality({f \in fills : f.order = o})

\* Mutant: only a stop closes a position.
ClosesPosition_StopOnly(o) == RoleOf(o) = "STOP" /\ o \in linked

\* role is ENTRY for the reversal too: only the two exit legs close a position.
ClosesPosition(o) == RoleOf(o) \in {"STOP", "TARGET"} /\ o \in linked

\* Mutant: any fill of an exit closes the position.
ExitComplete_AnyFill(o) ==
    /\ ClosesPosition(o)
    /\ position[DecisionOf(o)].state = "open"
    /\ FilledQuantity(o) > 0

\* The test _close_if_exit_filled makes after a fill of o was recorded.
ExitComplete(o) ==
    /\ ClosesPosition(o)
    /\ position[DecisionOf(o)].state = "open"
    /\ FilledQuantity(o) >= position[DecisionOf(o)].qty

TradeId(s, i) == FirstTradeId[s] + i

\* /myTrades from the cursor on: the trades of s, by index, whose id is above
\* every id recorded for an order of s.
Unread(s) ==
    {i \in 1..Len(trades[s]) :
        \A f \in fills : SymbolOfOrder(f.order) = s => f.id < TradeId(s, i)}
=============================================================================
