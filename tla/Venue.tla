------------------------------- MODULE Venue -------------------------------
(***************************************************************************)
(* The exchange account, as far as the execution code can observe it.      *)
(*                                                                         *)
(* This is not code of the repository: it is the environment that          *)
(* execution/broker.py talks to, modelled from how the code uses it:       *)
(*   - an order is identified by the client order id the caller chose, and *)
(*     a second order with the same id is refused (idempotency.py relies   *)
(*     on exactly that: a replayed signal "collides");                     *)
(*   - a market order executes at once, in full, in part, or not at all;   *)
(*   - an OCO locks the base asset, and a fill of one leg cancels the      *)
(*     other (broker.OcoRequest);                                          *)
(*   - a sell needs free base asset: what an OCO has locked cannot be      *)
(*     sold a second time;                                                 *)
(*   - every execution is reported as trades, numbered per symbol, in      *)
(*     order.                                                              *)
(*                                                                         *)
(* A quantity is a number of lots and every trade is for one lot. Only     *)
(* long positions are modelled: an entry buys, every exit sells.           *)
(***************************************************************************)
EXTENDS Integers, Sequences, FiniteSets

CONSTANTS
    Symbols,     \* the traded symbols
    Decisions,   \* the entry signals: one per (strategy, bar) that signals
    SymbolOf,    \* SymbolOf[d]: the symbol decision d trades
    Lots         \* the size of every entry, in lots

ASSUME VenueAssumption ==
    /\ SymbolOf \in [Decisions -> Symbols]
    /\ Lots \in Nat \ {0}

Roles == {"ENTRY", "STOP", "TARGET", "REVERSAL"}

\* client_order_id is a hash of (strategy, bar, side, role): a replay of the
\* same decision produces the same id, and different decisions different ids.
OrderIds == Decisions \X Roles

ClientOrderId(d, role) == <<d, role>>
DecisionOf(o) == o[1]
RoleOf(o) == o[2]
SymbolOfOrder(o) == SymbolOf[DecisionOf(o)]

VARIABLES
    venue,    \* venue[o]: what the exchange knows of the order with id o
    free,     \* free[s]: lots of the base asset of s that nothing has locked
    trades    \* trades[s]: the order of every one-lot trade on s, oldest first

venueVars == <<venue, free, trades>>

VenueStates == {"absent", "NEW", "PARTIALLY_FILLED", "FILLED", "CANCELED", "EXPIRED"}
VenueOrder == [state : VenueStates, qty : 0..Lots, done : 0..Lots]
Absent == [state |-> "absent", qty |-> 0, done |-> 0]

VenueTypeOK ==
    /\ venue \in [OrderIds -> VenueOrder]
    /\ free \in [Symbols -> Nat]
    /\ trades \in [Symbols -> Seq(OrderIds)]

VenueInit ==
    /\ venue = [o \in OrderIds |-> Absent]
    /\ free = [s \in Symbols |-> 0]
    /\ trades = [s \in Symbols |-> <<>>]

Known(o) == venue[o].state # "absent"
Resting(o) == venue[o].state \in {"NEW", "PARTIALLY_FILLED"}

\* The answer to /openOrders: the resting orders and their status.
OpenOrders == [o \in OrderIds |-> IF Resting(o) THEN venue[o].state ELSE "absent"]

\* n one-lot trades of order o appended to the trade history of its symbol.
Traded(o, n) ==
    trades' = [trades EXCEPT ![SymbolOfOrder(o)] = @ \o [i \in 1..n |-> o]]

\* The state a market order for q lots is left in once n of them executed.
MarketOrder(q, n) ==
    [state |-> IF n = q THEN "FILLED" ELSE "EXPIRED", qty |-> q, done |-> n]

\* A market buy executes n lots.
ExecuteEntry(d, n) ==
    LET o == ClientOrderId(d, "ENTRY") IN
    /\ ~Known(o)
    /\ venue' = [venue EXCEPT ![o] = MarketOrder(Lots, n)]
    /\ free' = [free EXCEPT ![SymbolOf[d]] = @ + n]
    /\ Traded(o, n)

\* The base asset is there to be sold, and nothing has locked it.
CanSell(d, q) == free[SymbolOf[d]] >= q

\* A market sell of q lots executes n of them.
ExecuteReversal(d, q, n) ==
    LET o == ClientOrderId(d, "REVERSAL") IN
    /\ ~Known(o)
    /\ CanSell(d, q)
    /\ venue' = [venue EXCEPT ![o] = MarketOrder(q, n)]
    /\ free' = [free EXCEPT ![SymbolOf[d]] = @ - n]
    /\ Traded(o, n)

ExitLegs(d) == {ClientOrderId(d, "STOP"), ClientOrderId(d, "TARGET")}

\* An OCO of q lots is accepted: both legs rest, the asset is locked once.
AcceptOco(d, q) ==
    /\ \A o \in ExitLegs(d) : ~Known(o)
    /\ CanSell(d, q)
    /\ venue' = [o \in OrderIds |->
                    IF o \in ExitLegs(d)
                    THEN [state |-> "NEW", qty |-> q, done |-> 0]
                    ELSE venue[o]]
    /\ free' = [free EXCEPT ![SymbolOf[d]] = @ - q]
    /\ UNCHANGED trades

\* A resting order after one more lot of it has traded.
Filled(order) ==
    [state |-> IF order.done + 1 = order.qty THEN "FILLED" ELSE "PARTIALLY_FILLED",
     qty |-> order.qty, done |-> order.done + 1]

\* One lot of a resting exit leg trades; the first fill cancels the other leg.
FillExit(d, leg) ==
    /\ leg \in ExitLegs(d)
    /\ Resting(leg)
    /\ venue' = [o \in OrderIds |->
                    IF o = leg THEN Filled(venue[o])
                    ELSE IF o \in ExitLegs(d) /\ Resting(o)
                         THEN [venue[o] EXCEPT !.state = "CANCELED"]
                         ELSE venue[o]]
    /\ Traded(leg, 1)
    /\ UNCHANGED free

-----------------------------------------------------------------------------
(* What the account holds because of decision d, and what protects it.     *)

Executed(d, role) == venue[ClientOrderId(d, role)].done
Sold(d) == Executed(d, "STOP") + Executed(d, "TARGET") + Executed(d, "REVERSAL")
Held(d) == Executed(d, "ENTRY") - Sold(d)
Protected(d) == \E o \in ExitLegs(d) : Resting(o)
=============================================================================
