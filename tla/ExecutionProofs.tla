-------------------------- MODULE ExecutionProofs --------------------------
(***************************************************************************)
(* Theorems of module Execution, for every number of symbols, signals,     *)
(* lots, retries, crashes and switch flips, and for every set of faults.   *)
(***************************************************************************)
EXTENDS Execution, FiniteSetTheorems, TLAPS

-----------------------------------------------------------------------------
(* The inductive invariant. Type correctness is not inductive alone: the   *)
(* status an acknowledgement stores is one the exchange has given the      *)
(* order, and a batch holds indexes of trades that exist.                  *)

RestingHasRest == \A o \in OrderIds : Resting(o) => venue[o].done < venue[o].qty

FilledPcs == {"open", "exits", "oco_post", "oco_ack",
              "rev_record", "rev_check", "rev_post", "rev_ack", "rev_close"}

StageOK ==
    /\ pc = "entry_ack" => Known(Cur("ENTRY"))
    /\ pc = "rev_ack" => Known(Cur("REVERSAL"))
    /\ pc \in FilledPcs => executed > 0

BatchOK == ing.batch # {} => ing.sym \in Symbols /\ ing.batch \subseteq 1..Len(trades[ing.sym])

TypeInv == TypeOK /\ RestingHasRest /\ StageOK /\ BatchOK

\* An order about to be sent has its row already.
AboutToSend ==
    /\ pc \in EntryPcs => status[Cur("ENTRY")] # "NONE"
    /\ pc = "oco_post" => \A o \in ExitLegs(cur) : status[o] # "NONE"
    /\ pc \in {"rev_check", "rev_post"} => status[Cur("REVERSAL")] # "NONE"

RecordedInv == RecordedBeforeSent /\ AboutToSend

\* The one late entry is the order being sent, which the exchange now knows.
LateBuyInv ==
    /\ lateBuys <= 1
    /\ ~armed => lateBuys = 0
    /\ pc = "entry_post" /\ lateBuys = 1 => Known(Cur("ENTRY"))

\* From the read of the account on, the tick knows every symbol that is taken:
\* those it read, those it entered, and the one it is bracketing.
OpenPcs == FilledPcs \ {"open"}
LoopPcs == {"gate", "entries"} \cup BracketPcs
KnownPcs == {"fetch", "reconcile", "halt"} \cup LoopPcs

SymbolsInv ==
    /\ pc \in LoopPcs => ~starting
    /\ pc \in BracketPcs => SymbolOf[cur] \notin openSyms
    /\ pc \in KnownPcs /\ ~starting =>
        \A d \in Decisions :
            position[d].state = "open" => SymbolOf[d] \in openSyms \/ (pc \in OpenPcs /\ d = cur)

PositionInv == OnePositionPerSymbol /\ SymbolsInv

-----------------------------------------------------------------------------
(* The exchange.                                                           *)

VenueOK == VenueTypeOK /\ RestingHasRest

\* Only the orders named in ids became known, and no trade was forgotten.
VenueStep(ids) ==
    /\ VenueOK'
    /\ \A o \in OrderIds : Known(o)' <=> Known(o) \/ o \in ids
    /\ \A s \in Symbols : 1..Len(trades[s]) \subseteq 1..Len(trades'[s])

LEMMA OrderIdFacts ==
    /\ \A d \in Decisions : \A r \in Roles : <<d, r>> \in OrderIds
    /\ \A o \in OrderIds : o[1] \in Decisions /\ o[2] \in Roles /\ SymbolOfOrder(o) \in Symbols
BY VenueAssumption DEF OrderIds, SymbolOfOrder, DecisionOf

\* n more trades of an order of symbol s leave a history that is one.
LEMMA TradedFacts ==
    ASSUME VenueTypeOK, NEW o \in OrderIds, NEW n \in Nat, Traded(o, n)
    PROVE  /\ trades' \in [Symbols -> Seq(OrderIds)]
           /\ \A s \in Symbols : 1..Len(trades[s]) \subseteq 1..Len(trades'[s])
<1>1. SymbolOfOrder(o) \in Symbols
  BY OrderIdFacts
<1> DEFINE more == [i \in 1..n |-> o]
<1>2. more \in Seq(OrderIds) /\ Len(more) = n
  OBVIOUS
<1>3. ASSUME NEW s \in Symbols
      PROVE  /\ trades[s] \o more \in Seq(OrderIds)
             /\ Len(trades[s] \o more) >= Len(trades[s])
             /\ Len(trades[s] \o more) \in Nat /\ Len(trades[s]) \in Nat
  BY <1>2 DEF VenueTypeOK
<1>4. trades' = [trades EXCEPT ![SymbolOfOrder(o)] = @ \o more]
  BY DEF Traded
<1> HIDE DEF more
<1>5. trades' \in [Symbols -> Seq(OrderIds)]
  BY <1>1, <1>3, <1>4 DEF VenueTypeOK
<1>6. ASSUME NEW s \in Symbols
      PROVE  1..Len(trades[s]) \subseteq 1..Len(trades'[s])
  <2>1. trades'[s] = trades[s] \o more \/ trades'[s] = trades[s]
    BY <1>4 DEF VenueTypeOK
  <2>2. Len(trades'[s]) >= Len(trades[s]) /\ Len(trades'[s]) \in Nat /\ Len(trades[s]) \in Nat
    BY <2>1, <1>3
  <2> QED
    BY <2>2
<1> QED
  BY <1>5, <1>6

LEMMA EntryFacts ==
    ASSUME VenueOK, NEW d \in Decisions, NEW n \in 0..Lots, ExecuteEntry(d, n)
    PROVE  VenueStep({<<d, "ENTRY">>})
<1> DEFINE o == <<d, "ENTRY">>
<1>1. o \in OrderIds /\ n \in Nat /\ SymbolOf[d] \in Symbols
  <2>1. "ENTRY" \in Roles
    BY DEF Roles
  <2>2. o \in OrderIds
    BY <2>1, OrderIdFacts
  <2>3. n \in Nat /\ SymbolOf[d] \in Symbols
    BY VenueAssumption
  <2> QED
    BY <2>2, <2>3
<1>2. VenueTypeOK /\ Traded(o, n)
  BY DEF VenueOK, ExecuteEntry, ClientOrderId
<1>3. /\ trades' \in [Symbols -> Seq(OrderIds)]
      /\ \A s \in Symbols : 1..Len(trades[s]) \subseteq 1..Len(trades'[s])
  BY <1>1, <1>2, TradedFacts
<1>4. venue' = [venue EXCEPT ![o] = MarketOrder(Lots, n)]
  BY DEF ExecuteEntry, ClientOrderId
<1>5. MarketOrder(Lots, n) \in VenueOrder /\ MarketOrder(Lots, n).state \in {"FILLED", "EXPIRED"}
  BY VenueAssumption DEF MarketOrder, VenueOrder, VenueStates
<1>6. free' \in [Symbols -> Nat]
  BY <1>1, <1>2 DEF ExecuteEntry, VenueTypeOK
<1> HIDE DEF o
<1>7. venue' \in [OrderIds -> VenueOrder]
  BY <1>1, <1>2, <1>4, <1>5 DEF VenueTypeOK
<1>8. \A x \in OrderIds : venue'[x] = IF x = o THEN MarketOrder(Lots, n) ELSE venue[x]
  BY <1>1, <1>2, <1>4 DEF VenueTypeOK
<1>9. \A x \in OrderIds : Known(x)' <=> Known(x) \/ x = o
  BY <1>5, <1>8 DEF Known
<1>10. RestingHasRest'
  BY <1>5, <1>8 DEF VenueOK, RestingHasRest, Resting
<1> QED
  BY <1>3, <1>6, <1>7, <1>9, <1>10 DEF VenueStep, VenueOK, VenueTypeOK, o

LEMMA ReversalFacts ==
    ASSUME VenueOK, NEW d \in Decisions, NEW q \in 0..Lots, NEW n \in 0..q,
           ExecuteReversal(d, q, n)
    PROVE  VenueStep({<<d, "REVERSAL">>})
<1> DEFINE o == <<d, "REVERSAL">>
<1>1. o \in OrderIds /\ n \in Nat /\ SymbolOf[d] \in Symbols
  <2>1. "REVERSAL" \in Roles
    BY DEF Roles
  <2>2. o \in OrderIds
    BY <2>1, OrderIdFacts
  <2>3. n \in Nat /\ SymbolOf[d] \in Symbols
    BY VenueAssumption
  <2> QED
    BY <2>2, <2>3
<1>2. VenueTypeOK /\ Traded(o, n)
  BY DEF VenueOK, ExecuteReversal, ClientOrderId
<1>3. /\ trades' \in [Symbols -> Seq(OrderIds)]
      /\ \A s \in Symbols : 1..Len(trades[s]) \subseteq 1..Len(trades'[s])
  BY <1>1, <1>2, TradedFacts
<1>4. venue' = [venue EXCEPT ![o] = MarketOrder(q, n)]
  BY DEF ExecuteReversal, ClientOrderId
<1>5. MarketOrder(q, n) \in VenueOrder /\ MarketOrder(q, n).state \in {"FILLED", "EXPIRED"}
  BY VenueAssumption DEF MarketOrder, VenueOrder, VenueStates
<1>6. free' \in [Symbols -> Nat]
  <2>1. free[SymbolOf[d]] \in Nat /\ free[SymbolOf[d]] - n \in Nat
    BY <1>1, <1>2, VenueAssumption DEF ExecuteReversal, VenueTypeOK, CanSell
  <2> QED
    BY <1>1, <1>2, <2>1 DEF ExecuteReversal, VenueTypeOK
<1> HIDE DEF o
<1>7. venue' \in [OrderIds -> VenueOrder]
  BY <1>1, <1>2, <1>4, <1>5 DEF VenueTypeOK
<1>8. \A x \in OrderIds : venue'[x] = IF x = o THEN MarketOrder(q, n) ELSE venue[x]
  BY <1>1, <1>2, <1>4 DEF VenueTypeOK
<1>9. \A x \in OrderIds : Known(x)' <=> Known(x) \/ x = o
  BY <1>5, <1>8 DEF Known
<1>10. RestingHasRest'
  BY <1>5, <1>8 DEF VenueOK, RestingHasRest, Resting
<1> QED
  BY <1>3, <1>6, <1>7, <1>9, <1>10 DEF VenueStep, VenueOK, VenueTypeOK, o

LEMMA OcoFacts ==
    ASSUME VenueOK, NEW d \in Decisions, NEW q \in 1..Lots, AcceptOco(d, q)
    PROVE  VenueStep(ExitLegs(d))
<1>1. SymbolOf[d] \in Symbols /\ ExitLegs(d) \subseteq OrderIds
  BY VenueAssumption, OrderIdFacts DEF Roles, ExitLegs, ClientOrderId
<1>2. VenueTypeOK
  BY DEF VenueOK
<1>3. free' \in [Symbols -> Nat]
  <2>1. free[SymbolOf[d]] \in Nat /\ free[SymbolOf[d]] - q \in Nat
    BY <1>1, <1>2, VenueAssumption DEF AcceptOco, VenueTypeOK, CanSell
  <2> QED
    BY <1>1, <1>2, <2>1 DEF AcceptOco, VenueTypeOK
<1> DEFINE leg == [state |-> "NEW", qty |-> q, done |-> 0]
<1>4. leg \in VenueOrder /\ leg.state = "NEW" /\ leg.done < leg.qty
  BY VenueAssumption DEF VenueOrder, VenueStates
<1>5. venue' = [o \in OrderIds |-> IF o \in ExitLegs(d) THEN leg ELSE venue[o]]
  BY DEF AcceptOco
<1> HIDE DEF leg
<1>6. \A x \in OrderIds : venue'[x] = IF x \in ExitLegs(d) THEN leg ELSE venue[x]
  BY <1>5
<1>7. venue' \in [OrderIds -> VenueOrder]
  BY <1>2, <1>4, <1>5 DEF VenueTypeOK
<1>8. \A x \in OrderIds : Known(x)' <=> Known(x) \/ x \in ExitLegs(d)
  BY <1>4, <1>6 DEF Known
<1>9. RestingHasRest'
  BY <1>4, <1>6 DEF VenueOK, RestingHasRest, Resting
<1>10. trades' = trades
  BY DEF AcceptOco
<1> QED
  BY <1>2, <1>3, <1>7, <1>8, <1>9, <1>10 DEF VenueStep, VenueOK, VenueTypeOK

LEMMA FillFacts ==
    ASSUME VenueOK, NEW d \in Decisions, NEW leg \in ExitLegs(d), FillExit(d, leg)
    PROVE  VenueStep({})
<1>1. leg \in OrderIds
  BY OrderIdFacts DEF Roles, ExitLegs, ClientOrderId
<1>2. VenueTypeOK /\ Traded(leg, 1) /\ Resting(leg)
  BY DEF VenueOK, FillExit
<1>3. /\ trades' \in [Symbols -> Seq(OrderIds)]
      /\ \A s \in Symbols : 1..Len(trades[s]) \subseteq 1..Len(trades'[s])
  BY <1>1, <1>2, TradedFacts
<1> DEFINE mine == Filled(venue[leg])
           others(x) == IF x \in ExitLegs(d) /\ Resting(x)
                        THEN [venue[x] EXCEPT !.state = "CANCELED"] ELSE venue[x]
<1>4. venue[leg] \in VenueOrder /\ venue[leg].done < venue[leg].qty
  BY <1>1, <1>2 DEF VenueTypeOK, VenueOK, RestingHasRest
<1>5. /\ mine \in VenueOrder
      /\ mine.state \in {"FILLED", "PARTIALLY_FILLED"}
      /\ mine.state = "PARTIALLY_FILLED" => mine.done < mine.qty
  <2>1. venue[leg].done \in 0..Lots /\ venue[leg].qty \in 0..Lots
    BY <1>4 DEF VenueOrder
  <2>2. venue[leg].done + 1 \in 0..Lots /\ venue[leg].done + 1 <= venue[leg].qty
    BY <1>4, <2>1, VenueAssumption
  <2> QED
    BY <2>1, <2>2 DEF Filled, VenueOrder, VenueStates
<1>6. ASSUME NEW x \in OrderIds
      PROVE  /\ others(x) \in VenueOrder
             /\ others(x).state \in {"CANCELED", venue[x].state}
             /\ others(x).state # "CANCELED" => others(x) = venue[x]
             /\ others(x).state = "absent" <=> venue[x].state = "absent"
  BY <1>2 DEF VenueTypeOK, VenueOrder, VenueStates, Resting
<1>7. venue' = [o \in OrderIds |-> IF o = leg THEN mine ELSE others(o)]
  BY <1>1 DEF FillExit
<1> HIDE DEF mine, others
<1>8. \A x \in OrderIds : venue'[x] = IF x = leg THEN mine ELSE others(x)
  BY <1>7
<1>9. venue' \in [OrderIds -> VenueOrder]
  BY <1>5, <1>6, <1>7
<1>10. \A x \in OrderIds : Known(x)' <=> Known(x)
  BY <1>1, <1>2, <1>5, <1>6, <1>8 DEF Known, Resting
<1>11. RestingHasRest'
  BY <1>5, <1>6, <1>8 DEF VenueOK, RestingHasRest, Resting
<1>12. free' \in [Symbols -> Nat]
  BY <1>2 DEF VenueTypeOK, FillExit
<1> QED
  BY <1>3, <1>9, <1>10, <1>11, <1>12 DEF VenueStep, VenueOK, VenueTypeOK

-----------------------------------------------------------------------------
(* Type correctness.                                                       *)

LEMMA QuietVenue ==
    ASSUME VenueOK, UNCHANGED venueVars
    PROVE  VenueStep({})
BY DEF VenueOK, VenueTypeOK, RestingHasRest, Resting, VenueStep, Known, venueVars

LEMMA ZeroLots == 0 \in 0..Lots
BY VenueAssumption

LEMMA ForgetTypes ==
    ASSUME NEW where \in {"down", "idle"}, Forget(where)
    PROVE  ProcessTypeOK' /\ TickTypeOK' /\ StageOK' /\ BatchOK'
<1> USE DEF Forget
<1>1. ProcessTypeOK'
  <2>1. pc' \in Pcs /\ pc' \notin BracketPcs /\ starting' \in BOOLEAN
    BY DEF Pcs, BracketPcs, EntryPcs, ProtectPcs
  <2>2. cur' = None /\ tries' = 0 /\ executed' \in 0..Lots
    BY ZeroLots
  <2> QED
    BY <2>1, <2>2 DEF ProcessTypeOK
<1>2. NoOrders \in [OrderIds -> {"absent", "NEW", "PARTIALLY_FILLED"}]
  BY DEF NoOrders
<1>3. NoBatch \in [order : OrderIds \cup {None}, sym : Symbols \cup {None}, batch : SUBSET Nat]
  BY DEF NoBatch
<1>4. TickTypeOK'
  BY <1>2, <1>3 DEF TickTypeOK
<1>5. StageOK' /\ BatchOK'
  BY DEF StageOK, BatchOK, FilledPcs, NoBatch
<1> QED
  BY <1>1, <1>4, <1>5

\* What a step may do to the kill switch, and to the count of late entries.
ReconcilerArms == armed' = TRUE /\ lateBuys' = 0 /\ UNCHANGED flips
Disarms == armed' = FALSE /\ lateBuys' = 0 /\ flips' = flips + 1
SwitchStep ==
    UNCHANGED switchVars \/ SetArmed \/ (~armed /\ ReconcilerArms) \/ Disarms

LEMMA SwitchSteps ==
    ASSUME Next
    PROVE  SwitchStep \/ EntryAccepted
<1> USE DEF SwitchStep, ReconcilerArms, Disarms
<1>1. CASE Start
  BY <1>1 DEF Start
<1>2. CASE BeginTick
  BY <1>2 DEF BeginTick
<1>3. CASE IngestFetch
  BY <1>3 DEF IngestFetch
<1>4. CASE IngestFails
  BY <1>4 DEF IngestFails
<1>5. CASE IngestDone
  BY <1>5 DEF IngestDone
<1>6. CASE RecordFill
  BY <1>6 DEF RecordFill
<1>7. CASE RecordDone
  BY <1>7 DEF RecordDone
<1>8. CASE CloseIfExitFilled
  BY <1>8 DEF CloseIfExitFilled
<1>9. CASE ReadAccount
  BY <1>9 DEF ReadAccount
<1>10. CASE FetchOpenOrders
  BY <1>10 DEF FetchOpenOrders
<1>11. CASE FetchFails
  BY <1>11 DEF FetchFails
<1>12. CASE Reconcile
  BY <1>12 DEF Reconcile, Repaired
<1>13. CASE ReconcileArms
  BY <1>13 DEF ReconcileArms
<1>14. CASE Gate
  BY <1>14 DEF Gate
<1>15. CASE DeclineEntry
  BY <1>15 DEF DeclineEntry
<1>16. CASE StaleData
  BY <1>16 DEF StaleData
<1>17. CASE TickDone
  BY <1>17 DEF TickDone
<1>18. CASE RecordEntry
  BY <1>18 DEF RecordEntry
<1>19. CASE CheckCanEnter
  BY <1>19 DEF CheckCanEnter
<1>20. CASE EntryAccepted
  BY <1>20 DEF EntryAccepted
<1>21. CASE EntryRefused
  BY <1>21 DEF EntryRefused
<1>22. CASE EntryUnanswered
  BY <1>22 DEF EntryUnanswered
<1>23. CASE EntryAcknowledged
  BY <1>23 DEF EntryAcknowledged
<1>24. CASE OpenThePosition
  BY <1>24 DEF OpenThePosition
<1>25. CASE RecordExits
  BY <1>25 DEF RecordExits
<1>26. CASE OcoAccepted
  BY <1>26 DEF OcoAccepted
<1>27. CASE OcoRefused
  BY <1>27 DEF OcoRefused
<1>28. CASE OcoUnanswered
  BY <1>28 DEF OcoUnanswered
<1>29. CASE OcoAcknowledged
  BY <1>29 DEF OcoAcknowledged
<1>30. CASE RecordReversal
  BY <1>30 DEF RecordReversal
<1>31. CASE CheckReversal
  BY <1>31 DEF CheckReversal
<1>32. CASE ReversalAccepted
  BY <1>32 DEF ReversalAccepted
<1>33. CASE ReversalRefused
  BY <1>33 DEF ReversalRefused
<1>34. CASE ReversalUnanswered
  BY <1>34 DEF ReversalUnanswered
<1>35. CASE ReversalAcknowledged
  BY <1>35 DEF ReversalAcknowledged
<1>36. CASE CloseReversed
  BY <1>36 DEF CloseReversed
<1>37. CASE OperatorArms
  BY <1>37 DEF OperatorArms
<1>38. CASE OperatorDisarms
  BY <1>38 DEF OperatorDisarms
<1>39. CASE ExitTrades
  BY <1>39 DEF ExitTrades
<1>40. CASE BarCloses
  BY <1>40 DEF BarCloses
<1>41. CASE Crash
  BY <1>41 DEF Crash
<1> QED
  BY <1>1, <1>2, <1>3, <1>4, <1>5, <1>6, <1>7, <1>8, <1>9, <1>10, <1>11, <1>12, <1>13, <1>14, <1>15, <1>16, <1>17, <1>18, <1>19, <1>20, <1>21, <1>22, <1>23, <1>24, <1>25, <1>26, <1>27, <1>28, <1>29, <1>30, <1>31, <1>32, <1>33, <1>34, <1>35, <1>36, <1>37, <1>38, <1>39, <1>40, <1>41
  DEF Next, Runtime, TickStep, EntryStep, ProtectStep, ReverseStep, Environment

LEMMA SwitchTypes ==
    ASSUME TypeInv, Next
    PROVE  armed' \in BOOLEAN /\ flips' \in Nat /\ lateBuys' \in Nat
<1>0. SwitchStep \/ CountBuy
  BY SwitchSteps DEF EntryAccepted
<1> USE DEF SwitchStep, ReconcilerArms, Disarms, SetArmed, CountBuy, switchVars
<1>1. armed \in BOOLEAN /\ flips \in Nat /\ lateBuys \in Nat
  BY DEF TypeInv, TypeOK, SwitchTypeOK
<1>2. armed' \in BOOLEAN
  BY <1>0, <1>1, Zenon
<1>3. flips' \in {flips, flips + 1}
  BY <1>0, Zenon
<1>4. lateBuys' \in {lateBuys, lateBuys + 1, 0}
  BY <1>0, Zenon
<1> QED
  BY <1>1, <1>2, <1>3, <1>4

LEMMA BoundTypes ==
    ASSUME TypeInv, Next
    PROVE  alarm' \subseteq Decisions /\ bar' \in Nat /\ crashes' \in Nat
<1> USE DEF TypeInv, TypeOK, SwitchTypeOK, ProcessTypeOK, boundVars, RaiseUnprotected, ReversalGivesUpOrRetries, BracketPcs, ProtectPcs
<1>1. CASE Start
  BY <1>1 DEF Start
<1>2. CASE BeginTick
  BY <1>2 DEF BeginTick
<1>3. CASE IngestFetch
  BY <1>3 DEF IngestFetch
<1>4. CASE IngestFails
  BY <1>4 DEF IngestFails
<1>5. CASE IngestDone
  BY <1>5 DEF IngestDone
<1>6. CASE RecordFill
  BY <1>6 DEF RecordFill
<1>7. CASE RecordDone
  BY <1>7 DEF RecordDone
<1>8. CASE CloseIfExitFilled
  BY <1>8 DEF CloseIfExitFilled
<1>9. CASE ReadAccount
  BY <1>9 DEF ReadAccount
<1>10. CASE FetchOpenOrders
  BY <1>10 DEF FetchOpenOrders
<1>11. CASE FetchFails
  BY <1>11 DEF FetchFails
<1>12. CASE Reconcile
  BY <1>12 DEF Reconcile, Repaired
<1>13. CASE ReconcileArms
  BY <1>13 DEF ReconcileArms
<1>14. CASE Gate
  BY <1>14 DEF Gate
<1>15. CASE DeclineEntry
  BY <1>15 DEF DeclineEntry
<1>16. CASE StaleData
  BY <1>16 DEF StaleData
<1>17. CASE TickDone
  BY <1>17 DEF TickDone
<1>18. CASE RecordEntry
  BY <1>18 DEF RecordEntry
<1>19. CASE CheckCanEnter
  BY <1>19 DEF CheckCanEnter
<1>20. CASE EntryAccepted
  BY <1>20 DEF EntryAccepted
<1>21. CASE EntryRefused
  BY <1>21 DEF EntryRefused
<1>22. CASE EntryUnanswered
  BY <1>22 DEF EntryUnanswered
<1>23. CASE EntryAcknowledged
  BY <1>23 DEF EntryAcknowledged
<1>24. CASE OpenThePosition
  BY <1>24 DEF OpenThePosition
<1>25. CASE RecordExits
  BY <1>25 DEF RecordExits
<1>26. CASE OcoAccepted
  BY <1>26 DEF OcoAccepted
<1>27. CASE OcoRefused
  BY <1>27 DEF OcoRefused
<1>28. CASE OcoUnanswered
  BY <1>28 DEF OcoUnanswered
<1>29. CASE OcoAcknowledged
  BY <1>29 DEF OcoAcknowledged
<1>30. CASE RecordReversal
  BY <1>30 DEF RecordReversal
<1>31. CASE CheckReversal
  BY <1>31 DEF CheckReversal
<1>32. CASE ReversalAccepted
  BY <1>32 DEF ReversalAccepted
<1>33. CASE ReversalRefused
  BY <1>33 DEF ReversalRefused
<1>34. CASE ReversalUnanswered
  BY <1>34 DEF ReversalUnanswered
<1>35. CASE ReversalAcknowledged
  BY <1>35 DEF ReversalAcknowledged
<1>36. CASE CloseReversed
  BY <1>36 DEF CloseReversed
<1>37. CASE OperatorArms
  BY <1>37 DEF OperatorArms
<1>38. CASE OperatorDisarms
  BY <1>38 DEF OperatorDisarms
<1>39. CASE ExitTrades
  BY <1>39 DEF ExitTrades
<1>40. CASE BarCloses
  BY <1>40 DEF BarCloses
<1>41. CASE Crash
  BY <1>41 DEF Crash
<1> QED
  BY <1>1, <1>2, <1>3, <1>4, <1>5, <1>6, <1>7, <1>8, <1>9, <1>10, <1>11, <1>12, <1>13, <1>14, <1>15, <1>16, <1>17, <1>18, <1>19, <1>20, <1>21, <1>22, <1>23, <1>24, <1>25, <1>26, <1>27, <1>28, <1>29, <1>30, <1>31, <1>32, <1>33, <1>34, <1>35, <1>36, <1>37, <1>38, <1>39, <1>40, <1>41
  DEF Next, Runtime, TickStep, EntryStep, ProtectStep, ReverseStep, Environment

LEMMA ProcessTypes ==
    ASSUME TypeInv, Next
    PROVE  ProcessTypeOK'
<1> USE DEF TypeInv, TypeOK, ProcessTypeOK, Pcs, BracketPcs, EntryPcs, ProtectPcs, callVars, EndTick, Abort, Goto, NextEntry, GoReverse, NoAnswer, RaiseUnprotected, ReversalGivesUpOrRetries
<1>1. CASE Start
  BY <1>1, ForgetTypes, ZeroLots DEF Start
<1>2. CASE BeginTick
  BY <1>2, ForgetTypes, ZeroLots DEF BeginTick
<1>3. CASE IngestFetch
  BY <1>3, ForgetTypes, ZeroLots DEF IngestFetch
<1>4. CASE IngestFails
  BY <1>4, ForgetTypes, ZeroLots DEF IngestFails
<1>5. CASE IngestDone
  BY <1>5, ForgetTypes, ZeroLots DEF IngestDone
<1>6. CASE RecordFill
  BY <1>6, ForgetTypes, ZeroLots DEF RecordFill
<1>7. CASE RecordDone
  BY <1>7, ForgetTypes, ZeroLots DEF RecordDone
<1>8. CASE CloseIfExitFilled
  BY <1>8, ForgetTypes, ZeroLots DEF CloseIfExitFilled
<1>9. CASE ReadAccount
  BY <1>9, ForgetTypes, ZeroLots DEF ReadAccount
<1>10. CASE FetchOpenOrders
  BY <1>10, ForgetTypes, ZeroLots DEF FetchOpenOrders
<1>11. CASE FetchFails
  BY <1>11, ForgetTypes, ZeroLots DEF FetchFails
<1>12. CASE Reconcile
  BY <1>12, ForgetTypes, ZeroLots DEF Reconcile, Repaired
<1>13. CASE ReconcileArms
  BY <1>13, ForgetTypes, ZeroLots DEF ReconcileArms
<1>14. CASE Gate
  BY <1>14, ForgetTypes, ZeroLots DEF Gate
<1>15. CASE DeclineEntry
  BY <1>15, ForgetTypes, ZeroLots DEF DeclineEntry
<1>16. CASE StaleData
  BY <1>16, ForgetTypes, ZeroLots DEF StaleData
<1>17. CASE TickDone
  BY <1>17, ForgetTypes, ZeroLots DEF TickDone
<1>18. CASE RecordEntry
  BY <1>18, ForgetTypes, ZeroLots DEF RecordEntry, TickTypeOK
<1>19. CASE CheckCanEnter
  BY <1>19, ForgetTypes, ZeroLots DEF CheckCanEnter
<1>20. CASE EntryAccepted
  <2>1. PICK n \in Executable(Lots) :
            \/ pc' = "entry_ack" /\ executed' = n /\ tries' = 0 /\ UNCHANGED <<cur, starting>>
            \/ NoAnswer(NextEntry) /\ UNCHANGED starting
            \/ EndTick
    BY <1>20 DEF EntryAccepted
  <2>2. n \in 0..Lots
    BY VenueAssumption DEF Executable
  <2> QED
    BY <1>20, <2>1, <2>2, ForgetTypes, ZeroLots DEF EntryAccepted
<1>21. CASE EntryRefused
  BY <1>21, ForgetTypes, ZeroLots DEF EntryRefused
<1>22. CASE EntryUnanswered
  BY <1>22, ForgetTypes, ZeroLots DEF EntryUnanswered
<1>23. CASE EntryAcknowledged
  BY <1>23, ForgetTypes, ZeroLots DEF EntryAcknowledged
<1>24. CASE OpenThePosition
  BY <1>24, ForgetTypes, ZeroLots DEF OpenThePosition
<1>25. CASE RecordExits
  BY <1>25, ForgetTypes, ZeroLots DEF RecordExits
<1>26. CASE OcoAccepted
  BY <1>26, ForgetTypes, ZeroLots DEF OcoAccepted
<1>27. CASE OcoRefused
  BY <1>27, ForgetTypes, ZeroLots DEF OcoRefused
<1>28. CASE OcoUnanswered
  BY <1>28, ForgetTypes, ZeroLots DEF OcoUnanswered
<1>29. CASE OcoAcknowledged
  BY <1>29, ForgetTypes, ZeroLots DEF OcoAcknowledged
<1>30. CASE RecordReversal
  BY <1>30, ForgetTypes, ZeroLots DEF RecordReversal
<1>31. CASE CheckReversal
  BY <1>31, ForgetTypes, ZeroLots DEF CheckReversal
<1>32. CASE ReversalAccepted
  BY <1>32, ForgetTypes, ZeroLots DEF ReversalAccepted
<1>33. CASE ReversalRefused
  BY <1>33, ForgetTypes, ZeroLots DEF ReversalRefused
<1>34. CASE ReversalUnanswered
  BY <1>34, ForgetTypes, ZeroLots DEF ReversalUnanswered
<1>35. CASE ReversalAcknowledged
  BY <1>35, ForgetTypes, ZeroLots DEF ReversalAcknowledged
<1>36. CASE CloseReversed
  BY <1>36, ForgetTypes, ZeroLots DEF CloseReversed
<1>37. CASE OperatorArms
  BY <1>37, ForgetTypes, ZeroLots DEF OperatorArms
<1>38. CASE OperatorDisarms
  BY <1>38, ForgetTypes, ZeroLots DEF OperatorDisarms
<1>39. CASE ExitTrades
  BY <1>39, ForgetTypes, ZeroLots DEF ExitTrades
<1>40. CASE BarCloses
  BY <1>40, ForgetTypes, ZeroLots DEF BarCloses
<1>41. CASE Crash
  BY <1>41, ForgetTypes, ZeroLots DEF Crash
<1> QED
  BY <1>1, <1>2, <1>3, <1>4, <1>5, <1>6, <1>7, <1>8, <1>9, <1>10, <1>11, <1>12, <1>13, <1>14, <1>15, <1>16, <1>17, <1>18, <1>19, <1>20, <1>21, <1>22, <1>23, <1>24, <1>25, <1>26, <1>27, <1>28, <1>29, <1>30, <1>31, <1>32, <1>33, <1>34, <1>35, <1>36, <1>37, <1>38, <1>39, <1>40, <1>41
  DEF Next, Runtime, TickStep, EntryStep, ProtectStep, ReverseStep, Environment

LEMMA TickTypes ==
    ASSUME TypeInv, Next
    PROVE  TickTypeOK'
<1> USE DEF TypeInv, TypeOK, TickTypeOK, ProcessTypeOK, tickVars, OpenVolatile, EndTick, Abort, Goto, NextEntry, GoReverse, NoAnswer, RaiseUnprotected, ReversalGivesUpOrRetries
<1>1. CASE Start
  BY <1>1, ForgetTypes DEF Start
<1>2. CASE BeginTick
  BY <1>2, ForgetTypes DEF BeginTick
<1>3. CASE IngestFetch
  BY <1>3, ForgetTypes DEF IngestFetch, Unread, VenueTypeOK
<1>4. CASE IngestFails
  BY <1>4, ForgetTypes DEF IngestFails
<1>5. CASE IngestDone
  BY <1>5, ForgetTypes DEF IngestDone
<1>6. CASE RecordFill
  <2>1. PICK i \in ing.batch :
            \/ pc' = "close" /\ ing' = [order |-> trades[ing.sym][i], sym |-> ing.sym,
                                        batch |-> ing.batch \ {i}]
            \/ pc' = "record" /\ ing' = [order |-> None, sym |-> ing.sym, batch |-> ing.batch \ {i}]
    BY <1>6 DEF RecordFill
  <2>2. ing.sym \in Symbols /\ i \in 1..Len(trades[ing.sym])
    BY DEF BatchOK
  <2>3. trades[ing.sym][i] \in OrderIds
    BY <2>2 DEF VenueTypeOK
  <2>4. /\ ing' \in [order : OrderIds \cup {None}, sym : Symbols \cup {None}, batch : SUBSET Nat]
        /\ ing'.sym = ing.sym
        /\ pc' = "close" => ing'.order \in OrderIds
    BY <2>1, <2>3
  <2> QED
    BY <1>6, <2>2, <2>4 DEF RecordFill
<1>7. CASE RecordDone
  BY <1>7, ForgetTypes DEF RecordDone, NoBatch
<1>8. CASE CloseIfExitFilled
  BY <1>8, ForgetTypes DEF CloseIfExitFilled
<1>9. CASE ReadAccount
  BY <1>9, ForgetTypes, VenueAssumption DEF ReadAccount, OpenSymbols
<1>10. CASE FetchOpenOrders
  BY <1>10, ForgetTypes DEF FetchOpenOrders, OpenOrders, Resting
<1>11. CASE FetchFails
  BY <1>11, ForgetTypes DEF FetchFails
<1>12. CASE Reconcile
  BY <1>12, ForgetTypes DEF Reconcile, Repaired, NoOrders
<1>13. CASE ReconcileArms
  BY <1>13, ForgetTypes DEF ReconcileArms
<1>14. CASE Gate
  BY <1>14, ForgetTypes DEF Gate
<1>15. CASE DeclineEntry
  BY <1>15, ForgetTypes DEF DeclineEntry
<1>16. CASE StaleData
  BY <1>16, ForgetTypes DEF StaleData
<1>17. CASE TickDone
  BY <1>17, ForgetTypes DEF TickDone
<1>18. CASE RecordEntry
  BY <1>18, ForgetTypes DEF RecordEntry
<1>19. CASE CheckCanEnter
  BY <1>19, ForgetTypes DEF CheckCanEnter
<1>20. CASE EntryAccepted
  BY <1>20, ForgetTypes DEF EntryAccepted
<1>21. CASE EntryRefused
  BY <1>21, ForgetTypes DEF EntryRefused
<1>22. CASE EntryUnanswered
  BY <1>22, ForgetTypes DEF EntryUnanswered
<1>23. CASE EntryAcknowledged
  BY <1>23, ForgetTypes DEF EntryAcknowledged
<1>24. CASE OpenThePosition
  BY <1>24, ForgetTypes DEF OpenThePosition
<1>25. CASE RecordExits
  BY <1>25, ForgetTypes DEF RecordExits
<1>26. CASE OcoAccepted
  BY <1>26, ForgetTypes DEF OcoAccepted
<1>27. CASE OcoRefused
  BY <1>27, ForgetTypes DEF OcoRefused
<1>28. CASE OcoUnanswered
  BY <1>28, ForgetTypes DEF OcoUnanswered
<1>29. CASE OcoAcknowledged
  BY <1>29, ForgetTypes, VenueAssumption DEF OcoAcknowledged, BracketPcs, ProtectPcs
<1>30. CASE RecordReversal
  BY <1>30, ForgetTypes DEF RecordReversal
<1>31. CASE CheckReversal
  BY <1>31, ForgetTypes DEF CheckReversal
<1>32. CASE ReversalAccepted
  BY <1>32, ForgetTypes DEF ReversalAccepted
<1>33. CASE ReversalRefused
  BY <1>33, ForgetTypes DEF ReversalRefused
<1>34. CASE ReversalUnanswered
  BY <1>34, ForgetTypes DEF ReversalUnanswered
<1>35. CASE ReversalAcknowledged
  BY <1>35, ForgetTypes DEF ReversalAcknowledged
<1>36. CASE CloseReversed
  BY <1>36, ForgetTypes DEF CloseReversed
<1>37. CASE OperatorArms
  BY <1>37, ForgetTypes DEF OperatorArms
<1>38. CASE OperatorDisarms
  BY <1>38, ForgetTypes DEF OperatorDisarms
<1>39. CASE ExitTrades
  BY <1>39, ForgetTypes DEF ExitTrades
<1>40. CASE BarCloses
  BY <1>40, ForgetTypes DEF BarCloses
<1>41. CASE Crash
  BY <1>41, ForgetTypes DEF Crash
<1> QED
  BY <1>1, <1>2, <1>3, <1>4, <1>5, <1>6, <1>7, <1>8, <1>9, <1>10, <1>11, <1>12, <1>13, <1>14, <1>15, <1>16, <1>17, <1>18, <1>19, <1>20, <1>21, <1>22, <1>23, <1>24, <1>25, <1>26, <1>27, <1>28, <1>29, <1>30, <1>31, <1>32, <1>33, <1>34, <1>35, <1>36, <1>37, <1>38, <1>39, <1>40, <1>41
  DEF Next, Runtime, TickStep, EntryStep, ProtectStep, ReverseStep, Environment

\* What a step may do to the exchange.
VenueSteps ==
    \/ VenueStep({})
    \/ pc = "entry_post" /\ VenueStep({Cur("ENTRY")})
    \/ pc = "oco_post" /\ VenueStep(ExitLegs(cur))
    \/ pc = "rev_post" /\ VenueStep({Cur("REVERSAL")})

LEMMA AcceptFacts ==
    ASSUME TypeInv
    PROVE  /\ EntryAccepted => pc = "entry_post" /\ VenueStep({Cur("ENTRY")})
           /\ OcoAccepted => pc = "oco_post" /\ VenueStep(ExitLegs(cur))
           /\ ReversalAccepted => pc = "rev_post" /\ VenueStep({Cur("REVERSAL")})
           /\ ExitTrades => VenueStep({})
<1>1. VenueOK /\ executed \in 0..Lots
  BY DEF TypeInv, TypeOK, ProcessTypeOK, VenueOK
<1>2. ASSUME EntryAccepted PROVE pc = "entry_post" /\ VenueStep({Cur("ENTRY")})
  <2>1. cur \in Decisions
    BY <1>2 DEF EntryAccepted, TypeInv, TypeOK, ProcessTypeOK, BracketPcs, EntryPcs
  <2>2. PICK n \in Executable(Lots) : ExecuteEntry(cur, n)
    BY <1>2 DEF EntryAccepted
  <2>3. n \in 0..Lots
    BY VenueAssumption DEF Executable
  <2> QED
    BY <1>1, <1>2, <2>1, <2>2, <2>3, EntryFacts DEF EntryAccepted, Cur, ClientOrderId
<1>3. ASSUME OcoAccepted PROVE pc = "oco_post" /\ VenueStep(ExitLegs(cur))
  <2>1. cur \in Decisions /\ executed > 0 /\ AcceptOco(cur, executed) /\ pc = "oco_post"
    BY <1>3 DEF OcoAccepted, TypeInv, TypeOK, ProcessTypeOK, BracketPcs, ProtectPcs, StageOK, FilledPcs
  <2>2. executed \in 1..Lots
    BY <1>1, <2>1, VenueAssumption
  <2> QED
    BY <1>1, <2>1, <2>2, OcoFacts
<1>4. ASSUME ReversalAccepted PROVE pc = "rev_post" /\ VenueStep({Cur("REVERSAL")})
  <2>1. cur \in Decisions
    BY <1>4 DEF ReversalAccepted, TypeInv, TypeOK, ProcessTypeOK, BracketPcs, ProtectPcs
  <2>2. PICK n \in Executable(executed) : ExecuteReversal(cur, executed, n)
    BY <1>4 DEF ReversalAccepted
  <2>3. n \in 0..executed
    BY <1>1, VenueAssumption DEF Executable
  <2> QED
    BY <1>1, <1>4, <2>1, <2>2, <2>3, ReversalFacts DEF ReversalAccepted, Cur, ClientOrderId
<1>5. ASSUME ExitTrades PROVE VenueStep({})
  BY <1>1, <1>5, FillFacts DEF ExitTrades
<1> QED
  BY <1>2, <1>3, <1>4, <1>5

LEMMA VenueMoves ==
    ASSUME TypeInv, Next
    PROVE  VenueSteps
<1> USE DEF VenueSteps, TypeInv, TypeOK, VenueOK
<1>1. CASE Start
  BY <1>1, QuietVenue DEF Start
<1>2. CASE BeginTick
  BY <1>2, QuietVenue DEF BeginTick
<1>3. CASE IngestFetch
  BY <1>3, QuietVenue DEF IngestFetch
<1>4. CASE IngestFails
  BY <1>4, QuietVenue DEF IngestFails
<1>5. CASE IngestDone
  BY <1>5, QuietVenue DEF IngestDone
<1>6. CASE RecordFill
  BY <1>6, QuietVenue DEF RecordFill
<1>7. CASE RecordDone
  BY <1>7, QuietVenue DEF RecordDone
<1>8. CASE CloseIfExitFilled
  BY <1>8, QuietVenue DEF CloseIfExitFilled
<1>9. CASE ReadAccount
  BY <1>9, QuietVenue DEF ReadAccount
<1>10. CASE FetchOpenOrders
  BY <1>10, QuietVenue DEF FetchOpenOrders
<1>11. CASE FetchFails
  BY <1>11, QuietVenue DEF FetchFails
<1>12. CASE Reconcile
  BY <1>12, QuietVenue DEF Reconcile, Repaired
<1>13. CASE ReconcileArms
  BY <1>13, QuietVenue DEF ReconcileArms
<1>14. CASE Gate
  BY <1>14, QuietVenue DEF Gate
<1>15. CASE DeclineEntry
  BY <1>15, QuietVenue DEF DeclineEntry
<1>16. CASE StaleData
  BY <1>16, QuietVenue DEF StaleData
<1>17. CASE TickDone
  BY <1>17, QuietVenue DEF TickDone
<1>18. CASE RecordEntry
  BY <1>18, QuietVenue DEF RecordEntry
<1>19. CASE CheckCanEnter
  BY <1>19, QuietVenue DEF CheckCanEnter
<1>20. CASE EntryAccepted
  BY <1>20, QuietVenue, AcceptFacts DEF EntryAccepted
<1>21. CASE EntryRefused
  BY <1>21, QuietVenue DEF EntryRefused
<1>22. CASE EntryUnanswered
  BY <1>22, QuietVenue DEF EntryUnanswered
<1>23. CASE EntryAcknowledged
  BY <1>23, QuietVenue DEF EntryAcknowledged
<1>24. CASE OpenThePosition
  BY <1>24, QuietVenue DEF OpenThePosition
<1>25. CASE RecordExits
  BY <1>25, QuietVenue DEF RecordExits
<1>26. CASE OcoAccepted
  BY <1>26, QuietVenue, AcceptFacts DEF OcoAccepted
<1>27. CASE OcoRefused
  BY <1>27, QuietVenue DEF OcoRefused
<1>28. CASE OcoUnanswered
  BY <1>28, QuietVenue DEF OcoUnanswered
<1>29. CASE OcoAcknowledged
  BY <1>29, QuietVenue DEF OcoAcknowledged
<1>30. CASE RecordReversal
  BY <1>30, QuietVenue DEF RecordReversal
<1>31. CASE CheckReversal
  BY <1>31, QuietVenue DEF CheckReversal
<1>32. CASE ReversalAccepted
  BY <1>32, QuietVenue, AcceptFacts DEF ReversalAccepted
<1>33. CASE ReversalRefused
  BY <1>33, QuietVenue DEF ReversalRefused
<1>34. CASE ReversalUnanswered
  BY <1>34, QuietVenue DEF ReversalUnanswered
<1>35. CASE ReversalAcknowledged
  BY <1>35, QuietVenue DEF ReversalAcknowledged
<1>36. CASE CloseReversed
  BY <1>36, QuietVenue DEF CloseReversed
<1>37. CASE OperatorArms
  BY <1>37, QuietVenue DEF OperatorArms
<1>38. CASE OperatorDisarms
  BY <1>38, QuietVenue DEF OperatorDisarms
<1>39. CASE ExitTrades
  BY <1>39, QuietVenue, AcceptFacts DEF ExitTrades
<1>40. CASE BarCloses
  BY <1>40, QuietVenue DEF BarCloses
<1>41. CASE Crash
  BY <1>41, QuietVenue DEF Crash
<1> QED
  BY <1>1, <1>2, <1>3, <1>4, <1>5, <1>6, <1>7, <1>8, <1>9, <1>10, <1>11, <1>12, <1>13, <1>14, <1>15, <1>16, <1>17, <1>18, <1>19, <1>20, <1>21, <1>22, <1>23, <1>24, <1>25, <1>26, <1>27, <1>28, <1>29, <1>30, <1>31, <1>32, <1>33, <1>34, <1>35, <1>36, <1>37, <1>38, <1>39, <1>40, <1>41
  DEF Next, Runtime, TickStep, EntryStep, ProtectStep, ReverseStep, Environment

\* Whatever the step, no order is forgotten and no trade is.
LEMMA VenueGrows ==
    ASSUME TypeInv, Next
    PROVE  /\ VenueOK'
           /\ \A o \in OrderIds : Known(o) => Known(o)'
           /\ \A s \in Symbols : 1..Len(trades[s]) \subseteq 1..Len(trades'[s])
BY VenueMoves DEF VenueSteps, VenueStep

LEMMA CurIds ==
    ASSUME ProcessTypeOK, pc \in BracketPcs
    PROVE  /\ cur \in Decisions
           /\ Cur("ENTRY") \in OrderIds /\ Cur("REVERSAL") \in OrderIds
           /\ ExitLegs(cur) \subseteq OrderIds
BY OrderIdFacts DEF ProcessTypeOK, Cur, ClientOrderId, ExitLegs, Roles

LEMMA StageSteps ==
    ASSUME TypeInv, Next
    PROVE  StageOK'
<1> USE DEF TypeInv, StageOK, FilledPcs, Cur, callVars, BracketPcs, EntryPcs, ProtectPcs, EndTick, Abort, Goto, NextEntry, GoReverse, NoAnswer, RaiseUnprotected, ReversalGivesUpOrRetries
<1>1. pc \in BracketPcs => ClientOrderId(cur, "ENTRY") \in OrderIds
                              /\ ClientOrderId(cur, "REVERSAL") \in OrderIds
  BY CurIds DEF TypeOK
<1>2. executed \in Nat
  BY VenueAssumption DEF TypeOK, ProcessTypeOK
<1>3. CASE Start
  BY <1>3, <1>1, <1>2, VenueGrows, ForgetTypes DEF Start
<1>4. CASE BeginTick
  BY <1>4, <1>1, <1>2, VenueGrows, ForgetTypes DEF BeginTick
<1>5. CASE IngestFetch
  BY <1>5, <1>1, <1>2, VenueGrows, ForgetTypes DEF IngestFetch
<1>6. CASE IngestFails
  BY <1>6, <1>1, <1>2, VenueGrows, ForgetTypes DEF IngestFails
<1>7. CASE IngestDone
  BY <1>7, <1>1, <1>2, VenueGrows, ForgetTypes DEF IngestDone
<1>8. CASE RecordFill
  BY <1>8, <1>1, <1>2, VenueGrows, ForgetTypes DEF RecordFill
<1>9. CASE RecordDone
  BY <1>9, <1>1, <1>2, VenueGrows, ForgetTypes DEF RecordDone
<1>10. CASE CloseIfExitFilled
  BY <1>10, <1>1, <1>2, VenueGrows, ForgetTypes DEF CloseIfExitFilled
<1>11. CASE ReadAccount
  BY <1>11, <1>1, <1>2, VenueGrows, ForgetTypes DEF ReadAccount
<1>12. CASE FetchOpenOrders
  BY <1>12, <1>1, <1>2, VenueGrows, ForgetTypes DEF FetchOpenOrders
<1>13. CASE FetchFails
  BY <1>13, <1>1, <1>2, VenueGrows, ForgetTypes DEF FetchFails
<1>14. CASE Reconcile
  BY <1>14, <1>1, <1>2, VenueGrows, ForgetTypes DEF Reconcile, Repaired
<1>15. CASE ReconcileArms
  BY <1>15, <1>1, <1>2, VenueGrows, ForgetTypes DEF ReconcileArms
<1>16. CASE Gate
  BY <1>16, <1>1, <1>2, VenueGrows, ForgetTypes DEF Gate
<1>17. CASE DeclineEntry
  BY <1>17, <1>1, <1>2, VenueGrows, ForgetTypes DEF DeclineEntry
<1>18. CASE StaleData
  BY <1>18, <1>1, <1>2, VenueGrows, ForgetTypes DEF StaleData
<1>19. CASE TickDone
  BY <1>19, <1>1, <1>2, VenueGrows, ForgetTypes DEF TickDone
<1>20. CASE RecordEntry
  BY <1>20, <1>1, <1>2, VenueGrows, ForgetTypes DEF RecordEntry
<1>21. CASE CheckCanEnter
  BY <1>21, <1>1, <1>2, VenueGrows, ForgetTypes DEF CheckCanEnter
<1>22. CASE EntryAccepted
  <2>1. Known(ClientOrderId(cur, "ENTRY"))'  \/ cur' # cur
    BY <1>22, <1>1, AcceptFacts DEF VenueStep
  <2> QED
    BY <1>22, <2>1, ForgetTypes DEF EntryAccepted
<1>23. CASE EntryRefused
  BY <1>23, <1>1, <1>2, VenueGrows, ForgetTypes DEF EntryRefused
<1>24. CASE EntryUnanswered
  BY <1>24, <1>1, <1>2, VenueGrows, ForgetTypes DEF EntryUnanswered
<1>25. CASE EntryAcknowledged
  BY <1>25, <1>1, <1>2, VenueGrows, ForgetTypes DEF EntryAcknowledged
<1>26. CASE OpenThePosition
  BY <1>26, <1>1, <1>2, VenueGrows, ForgetTypes DEF OpenThePosition
<1>27. CASE RecordExits
  BY <1>27, <1>1, <1>2, VenueGrows, ForgetTypes DEF RecordExits
<1>28. CASE OcoAccepted
  BY <1>28, <1>1, <1>2, VenueGrows, ForgetTypes DEF OcoAccepted
<1>29. CASE OcoRefused
  BY <1>29, <1>1, <1>2, VenueGrows, ForgetTypes DEF OcoRefused
<1>30. CASE OcoUnanswered
  BY <1>30, <1>1, <1>2, VenueGrows, ForgetTypes DEF OcoUnanswered
<1>31. CASE OcoAcknowledged
  BY <1>31, <1>1, <1>2, VenueGrows, ForgetTypes DEF OcoAcknowledged
<1>32. CASE RecordReversal
  BY <1>32, <1>1, <1>2, VenueGrows, ForgetTypes DEF RecordReversal
<1>33. CASE CheckReversal
  BY <1>33, <1>1, <1>2, VenueGrows, ForgetTypes DEF CheckReversal
<1>34. CASE ReversalAccepted
  <2>1. Known(ClientOrderId(cur, "REVERSAL"))' \/ cur' # cur
    BY <1>34, <1>1, AcceptFacts DEF VenueStep
  <2> QED
    BY <1>34, <2>1, ForgetTypes DEF ReversalAccepted
<1>35. CASE ReversalRefused
  BY <1>35, <1>1, <1>2, VenueGrows, ForgetTypes DEF ReversalRefused
<1>36. CASE ReversalUnanswered
  BY <1>36, <1>1, <1>2, VenueGrows, ForgetTypes DEF ReversalUnanswered
<1>37. CASE ReversalAcknowledged
  BY <1>37, <1>1, <1>2, VenueGrows, ForgetTypes DEF ReversalAcknowledged
<1>38. CASE CloseReversed
  BY <1>38, <1>1, <1>2, VenueGrows, ForgetTypes DEF CloseReversed
<1>39. CASE OperatorArms
  BY <1>39, <1>1, <1>2, VenueGrows, ForgetTypes DEF OperatorArms
<1>40. CASE OperatorDisarms
  BY <1>40, <1>1, <1>2, VenueGrows, ForgetTypes DEF OperatorDisarms
<1>41. CASE ExitTrades
  BY <1>41, <1>1, <1>2, VenueGrows, ForgetTypes DEF ExitTrades
<1>42. CASE BarCloses
  BY <1>42, <1>1, <1>2, VenueGrows, ForgetTypes DEF BarCloses
<1>43. CASE Crash
  BY <1>43, <1>1, <1>2, VenueGrows, ForgetTypes DEF Crash
<1> QED
  BY <1>3, <1>4, <1>5, <1>6, <1>7, <1>8, <1>9, <1>10, <1>11, <1>12, <1>13, <1>14, <1>15, <1>16, <1>17, <1>18, <1>19, <1>20, <1>21, <1>22, <1>23, <1>24, <1>25, <1>26, <1>27, <1>28, <1>29, <1>30, <1>31, <1>32, <1>33, <1>34, <1>35, <1>36, <1>37, <1>38, <1>39, <1>40, <1>41, <1>42, <1>43
  DEF Next, Runtime, TickStep, EntryStep, ProtectStep, ReverseStep, Environment

LEMMA BatchSteps ==
    ASSUME TypeInv, Next
    PROVE  BatchOK'
<1> USE DEF TypeInv, BatchOK, tickVars, OpenVolatile, EndTick, Abort, Goto, NextEntry, GoReverse, NoAnswer, RaiseUnprotected, ReversalGivesUpOrRetries
<1>1. CASE Start
  BY <1>1, VenueGrows, ForgetTypes DEF Start
<1>2. CASE BeginTick
  BY <1>2, VenueGrows, ForgetTypes DEF BeginTick
<1>3. CASE IngestFetch
  BY <1>3, VenueGrows, ForgetTypes DEF IngestFetch, Unread, TypeOK, TickTypeOK
<1>4. CASE IngestFails
  BY <1>4, VenueGrows, ForgetTypes DEF IngestFails
<1>5. CASE IngestDone
  BY <1>5, VenueGrows, ForgetTypes DEF IngestDone
<1>6. CASE RecordFill
  BY <1>6, VenueGrows, ForgetTypes DEF RecordFill
<1>7. CASE RecordDone
  BY <1>7, VenueGrows, ForgetTypes DEF RecordDone, NoBatch
<1>8. CASE CloseIfExitFilled
  BY <1>8, VenueGrows, ForgetTypes DEF CloseIfExitFilled
<1>9. CASE ReadAccount
  BY <1>9, VenueGrows, ForgetTypes DEF ReadAccount
<1>10. CASE FetchOpenOrders
  BY <1>10, VenueGrows, ForgetTypes DEF FetchOpenOrders
<1>11. CASE FetchFails
  BY <1>11, VenueGrows, ForgetTypes DEF FetchFails
<1>12. CASE Reconcile
  BY <1>12, VenueGrows, ForgetTypes DEF Reconcile, Repaired
<1>13. CASE ReconcileArms
  BY <1>13, VenueGrows, ForgetTypes DEF ReconcileArms
<1>14. CASE Gate
  BY <1>14, VenueGrows, ForgetTypes DEF Gate
<1>15. CASE DeclineEntry
  BY <1>15, VenueGrows, ForgetTypes DEF DeclineEntry
<1>16. CASE StaleData
  BY <1>16, VenueGrows, ForgetTypes DEF StaleData
<1>17. CASE TickDone
  BY <1>17, VenueGrows, ForgetTypes DEF TickDone
<1>18. CASE RecordEntry
  BY <1>18, VenueGrows, ForgetTypes DEF RecordEntry
<1>19. CASE CheckCanEnter
  BY <1>19, VenueGrows, ForgetTypes DEF CheckCanEnter
<1>20. CASE EntryAccepted
  BY <1>20, VenueGrows, ForgetTypes DEF EntryAccepted
<1>21. CASE EntryRefused
  BY <1>21, VenueGrows, ForgetTypes DEF EntryRefused
<1>22. CASE EntryUnanswered
  BY <1>22, VenueGrows, ForgetTypes DEF EntryUnanswered
<1>23. CASE EntryAcknowledged
  BY <1>23, VenueGrows, ForgetTypes DEF EntryAcknowledged
<1>24. CASE OpenThePosition
  BY <1>24, VenueGrows, ForgetTypes DEF OpenThePosition
<1>25. CASE RecordExits
  BY <1>25, VenueGrows, ForgetTypes DEF RecordExits
<1>26. CASE OcoAccepted
  BY <1>26, VenueGrows, ForgetTypes DEF OcoAccepted
<1>27. CASE OcoRefused
  BY <1>27, VenueGrows, ForgetTypes DEF OcoRefused
<1>28. CASE OcoUnanswered
  BY <1>28, VenueGrows, ForgetTypes DEF OcoUnanswered
<1>29. CASE OcoAcknowledged
  BY <1>29, VenueGrows, ForgetTypes DEF OcoAcknowledged
<1>30. CASE RecordReversal
  BY <1>30, VenueGrows, ForgetTypes DEF RecordReversal
<1>31. CASE CheckReversal
  BY <1>31, VenueGrows, ForgetTypes DEF CheckReversal
<1>32. CASE ReversalAccepted
  BY <1>32, VenueGrows, ForgetTypes DEF ReversalAccepted
<1>33. CASE ReversalRefused
  BY <1>33, VenueGrows, ForgetTypes DEF ReversalRefused
<1>34. CASE ReversalUnanswered
  BY <1>34, VenueGrows, ForgetTypes DEF ReversalUnanswered
<1>35. CASE ReversalAcknowledged
  BY <1>35, VenueGrows, ForgetTypes DEF ReversalAcknowledged
<1>36. CASE CloseReversed
  BY <1>36, VenueGrows, ForgetTypes DEF CloseReversed
<1>37. CASE OperatorArms
  BY <1>37, VenueGrows, ForgetTypes DEF OperatorArms
<1>38. CASE OperatorDisarms
  BY <1>38, VenueGrows, ForgetTypes DEF OperatorDisarms
<1>39. CASE ExitTrades
  BY <1>39, VenueGrows, ForgetTypes DEF ExitTrades
<1>40. CASE BarCloses
  BY <1>40, VenueGrows, ForgetTypes DEF BarCloses
<1>41. CASE Crash
  BY <1>41, VenueGrows, ForgetTypes DEF Crash
<1> QED
  BY <1>1, <1>2, <1>3, <1>4, <1>5, <1>6, <1>7, <1>8, <1>9, <1>10, <1>11, <1>12, <1>13, <1>14, <1>15, <1>16, <1>17, <1>18, <1>19, <1>20, <1>21, <1>22, <1>23, <1>24, <1>25, <1>26, <1>27, <1>28, <1>29, <1>30, <1>31, <1>32, <1>33, <1>34, <1>35, <1>36, <1>37, <1>38, <1>39, <1>40, <1>41
  DEF Next, Runtime, TickStep, EntryStep, ProtectStep, ReverseStep, Environment

LEMMA ClosePositionTypes ==
    ASSUME position \in [Decisions -> PositionRow], NEW d \in Decisions, ClosePosition(d)
    PROVE  position' \in [Decisions -> PositionRow]
<1>1. [position[d] EXCEPT !.state = "closed"] \in PositionRow
  BY DEF PositionRow
<1> QED
  BY <1>1 DEF ClosePosition

LEMMA OpenPositionTypes ==
    ASSUME position \in [Decisions -> PositionRow], NEW d \in Decisions, NEW n \in 0..Lots,
           OpenPosition(d, n)
    PROVE  position' \in [Decisions -> PositionRow]
<1>1. [state |-> "open", qty |-> n] \in PositionRow
  BY DEF PositionRow
<1> QED
  BY <1>1 DEF OpenPosition

LEMMA StatusTypes ==
    ASSUME status \in [OrderIds -> Statuses], NEW os
    PROVE  /\ RecordOrders(os) => status' \in [OrderIds -> Statuses]
           /\ \A st \in Statuses : SetStatus(os, st) => status' \in [OrderIds -> Statuses]
BY DEF RecordOrders, SetStatus, Statuses, OpenStatuses

LEMMA KnownStatus ==
    ASSUME VenueTypeOK, NEW o \in OrderIds, Known(o)
    PROVE  venue[o].state \in Statuses \ {"NONE"}
BY DEF VenueTypeOK, VenueOrder, VenueStates, Known, Statuses, OpenStatuses

LEMMA LedgerTypes ==
    ASSUME TypeInv, Next
    PROVE  LedgerTypeOK'
<1> USE DEF TypeInv, TypeOK, LedgerTypeOK, ledgerVars, Goto
<1>1. {"NOT_SENT", "REJECTED", "NEW"} \subseteq Statuses
  BY DEF Statuses, OpenStatuses
<1>2. CASE Start
  BY <1>2, StatusTypes, <1>1 DEF Start
<1>3. CASE BeginTick
  BY <1>3, StatusTypes, <1>1 DEF BeginTick
<1>4. CASE IngestFetch
  BY <1>4, StatusTypes, <1>1 DEF IngestFetch
<1>5. CASE IngestFails
  BY <1>5, StatusTypes, <1>1 DEF IngestFails
<1>6. CASE IngestDone
  BY <1>6, StatusTypes, <1>1 DEF IngestDone
<1>7. CASE RecordFill
  <2>1. PICK i \in ing.batch :
            fills' = fills \/ fills' = fills \cup {[id |-> TradeId(ing.sym, i),
                                                   order |-> trades[ing.sym][i]]}
    BY <1>7 DEF RecordFill
  <2>2. ing.sym \in Symbols /\ i \in 1..Len(trades[ing.sym])
    BY DEF BatchOK
  <2>3. trades[ing.sym][i] \in OrderIds /\ i \in Nat
    BY <2>2 DEF VenueTypeOK
  <2>4. TradeId(ing.sym, i) \in Nat
    BY <2>2, <2>3, LedgerAssumption DEF TradeId
  <2>5. [id |-> TradeId(ing.sym, i), order |-> trades[ing.sym][i]] \in FillRow
    BY <2>3, <2>4 DEF FillRow
  <2> QED
    BY <1>7, <2>1, <2>5 DEF RecordFill
<1>8. CASE RecordDone
  BY <1>8, StatusTypes, <1>1 DEF RecordDone
<1>9. CASE CloseIfExitFilled
  <2>1. DecisionOf(ing.order) \in Decisions
    BY <1>9, OrderIdFacts DEF CloseIfExitFilled, TickTypeOK, DecisionOf
  <2> QED
    BY <1>9, <2>1, ClosePositionTypes DEF CloseIfExitFilled
<1>10. CASE ReadAccount
  BY <1>10, StatusTypes, <1>1 DEF ReadAccount
<1>11. CASE FetchOpenOrders
  BY <1>11, StatusTypes, <1>1 DEF FetchOpenOrders
<1>12. CASE FetchFails
  BY <1>12, StatusTypes, <1>1 DEF FetchFails
<1>13. CASE Reconcile
  BY <1>13 DEF Reconcile, Repaired, TickTypeOK, Statuses, OpenStatuses
<1>14. CASE ReconcileArms
  BY <1>14, StatusTypes, <1>1 DEF ReconcileArms
<1>15. CASE Gate
  BY <1>15, StatusTypes, <1>1 DEF Gate
<1>16. CASE DeclineEntry
  BY <1>16, StatusTypes, <1>1 DEF DeclineEntry
<1>17. CASE StaleData
  BY <1>17, StatusTypes, <1>1 DEF StaleData
<1>18. CASE TickDone
  BY <1>18, StatusTypes, <1>1 DEF TickDone
<1>19. CASE RecordEntry
  BY <1>19, StatusTypes, <1>1 DEF RecordEntry
<1>20. CASE CheckCanEnter
  BY <1>20, StatusTypes, <1>1 DEF CheckCanEnter
<1>21. CASE EntryAccepted
  BY <1>21, StatusTypes, <1>1 DEF EntryAccepted
<1>22. CASE EntryRefused
  BY <1>22, StatusTypes, <1>1 DEF EntryRefused
<1>23. CASE EntryUnanswered
  BY <1>23, StatusTypes, <1>1 DEF EntryUnanswered
<1>24. CASE EntryAcknowledged
  <2>1. venue[Cur("ENTRY")].state \in Statuses
    BY <1>24, CurIds, KnownStatus DEF EntryAcknowledged, StageOK, BracketPcs, ProtectPcs
  <2> QED
    BY <1>24, <2>1, StatusTypes DEF EntryAcknowledged
<1>25. CASE OpenThePosition
  BY <1>25, CurIds, OpenPositionTypes DEF OpenThePosition, BracketPcs, ProtectPcs, ProcessTypeOK
<1>26. CASE RecordExits
  BY <1>26, CurIds, StatusTypes DEF RecordExits, BracketPcs, ProtectPcs
<1>27. CASE OcoAccepted
  BY <1>27, StatusTypes, <1>1 DEF OcoAccepted
<1>28. CASE OcoRefused
  BY <1>28, StatusTypes, <1>1 DEF OcoRefused
<1>29. CASE OcoUnanswered
  BY <1>29, StatusTypes, <1>1 DEF OcoUnanswered
<1>30. CASE OcoAcknowledged
  BY <1>30, StatusTypes, <1>1 DEF OcoAcknowledged
<1>31. CASE RecordReversal
  BY <1>31, CurIds, StatusTypes DEF RecordReversal, BracketPcs, ProtectPcs
<1>32. CASE CheckReversal
  BY <1>32, StatusTypes, <1>1 DEF CheckReversal
<1>33. CASE ReversalAccepted
  BY <1>33, StatusTypes, <1>1 DEF ReversalAccepted
<1>34. CASE ReversalRefused
  BY <1>34, StatusTypes, <1>1 DEF ReversalRefused
<1>35. CASE ReversalUnanswered
  BY <1>35, StatusTypes, <1>1 DEF ReversalUnanswered
<1>36. CASE ReversalAcknowledged
  <2>1. venue[Cur("REVERSAL")].state \in Statuses
    BY <1>36, CurIds, KnownStatus DEF ReversalAcknowledged, StageOK, BracketPcs, ProtectPcs
  <2> QED
    BY <1>36, <2>1, StatusTypes DEF ReversalAcknowledged
<1>37. CASE CloseReversed
  BY <1>37, CurIds, ClosePositionTypes DEF CloseReversed, BracketPcs, ProtectPcs
<1>38. CASE OperatorArms
  BY <1>38, StatusTypes, <1>1 DEF OperatorArms
<1>39. CASE OperatorDisarms
  BY <1>39, StatusTypes, <1>1 DEF OperatorDisarms
<1>40. CASE ExitTrades
  BY <1>40, StatusTypes, <1>1 DEF ExitTrades
<1>41. CASE BarCloses
  BY <1>41, StatusTypes, <1>1 DEF BarCloses
<1>42. CASE Crash
  BY <1>42, StatusTypes, <1>1 DEF Crash
<1> QED
  BY <1>2, <1>3, <1>4, <1>5, <1>6, <1>7, <1>8, <1>9, <1>10, <1>11, <1>12, <1>13, <1>14, <1>15, <1>16, <1>17, <1>18, <1>19, <1>20, <1>21, <1>22, <1>23, <1>24, <1>25, <1>26, <1>27, <1>28, <1>29, <1>30, <1>31, <1>32, <1>33, <1>34, <1>35, <1>36, <1>37, <1>38, <1>39, <1>40, <1>41, <1>42
  DEF Next, Runtime, TickStep, EntryStep, ProtectStep, ReverseStep, Environment

LEMMA TypeInit ==
    ASSUME Init
    PROVE  TypeInv
<1> USE DEF Init
<1>1. VenueOK
  <2>1. Absent \in VenueOrder /\ Absent.state = "absent"
    BY VenueAssumption DEF Absent, VenueOrder, VenueStates
  <2>2. venue \in [OrderIds -> VenueOrder] /\ \A o \in OrderIds : venue[o].state = "absent"
    BY <2>1 DEF VenueInit
  <2>3. free \in [Symbols -> Nat] /\ trades \in [Symbols -> Seq(OrderIds)]
    BY DEF VenueInit
  <2> QED
    BY <2>2, <2>3 DEF VenueOK, VenueTypeOK, RestingHasRest, Resting
<1>2. LedgerTypeOK
  <2>1. NoPosition \in PositionRow
    BY VenueAssumption DEF NoPosition, PositionRow
  <2> QED
    BY <2>1 DEF LedgerInit, LedgerTypeOK, Statuses
<1>3. SwitchTypeOK
  BY DEF SwitchTypeOK
<1>4. ProcessTypeOK
  BY ZeroLots DEF ProcessTypeOK, Pcs, BracketPcs, EntryPcs, ProtectPcs
<1>5. TickTypeOK
  <2>1. NoOrders \in [OrderIds -> {"absent", "NEW", "PARTIALLY_FILLED"}]
    BY DEF NoOrders
  <2>2. NoBatch \in [order : OrderIds \cup {None}, sym : Symbols \cup {None}, batch : SUBSET Nat]
    BY DEF NoBatch
  <2> QED
    BY <2>1, <2>2 DEF TickTypeOK
<1>6. StageOK /\ BatchOK
  BY DEF StageOK, BatchOK, FilledPcs, NoBatch
<1> QED
  BY <1>1, <1>2, <1>3, <1>4, <1>5, <1>6 DEF TypeInv, TypeOK, VenueOK

LEMMA TypeStep ==
    ASSUME TypeInv, [Next]_vars
    PROVE  TypeInv'
<1>1. CASE Next
  <2>1. VenueOK'
    BY <1>1, VenueGrows
  <2>2. SwitchTypeOK'
    BY <1>1, SwitchTypes, BoundTypes DEF SwitchTypeOK
  <2>3. LedgerTypeOK' /\ ProcessTypeOK' /\ TickTypeOK'
    BY <1>1, LedgerTypes, ProcessTypes, TickTypes
  <2>4. StageOK' /\ BatchOK'
    BY <1>1, StageSteps, BatchSteps
  <2> QED
    BY <2>1, <2>2, <2>3, <2>4 DEF TypeInv, TypeOK, VenueOK
<1>2. CASE UNCHANGED vars
  <2> USE <1>2 DEF vars, venueVars, ledgerVars, switchVars, boundVars, callVars, tickVars
  <2>1. VenueOK'
    BY QuietVenue DEF TypeInv, TypeOK, VenueOK, VenueStep
  <2>2. LedgerTypeOK' /\ SwitchTypeOK'
    BY DEF TypeInv, TypeOK, LedgerTypeOK, SwitchTypeOK
  <2>3. ProcessTypeOK' /\ TickTypeOK'
    BY DEF TypeInv, TypeOK, ProcessTypeOK, TickTypeOK
  <2>4. StageOK' /\ BatchOK'
    BY DEF TypeInv, StageOK, BatchOK, Cur, Known
  <2> QED
    BY <2>1, <2>2, <2>3, <2>4 DEF TypeInv, TypeOK, VenueOK
<1> QED
  BY <1>1, <1>2

\* Every variable keeps its type, and with it: the status an acknowledgement
\* stores exists, every quantity stays within the size of the entry, and what
\* is sold was there to be sold.
THEOREM TypeCorrect == Spec => []TypeOK
<1>1. Init => TypeInv
  BY TypeInit
<1>2. TypeInv /\ [Next]_vars => TypeInv'
  BY TypeStep
<1>3. TypeInv => TypeOK
  BY DEF TypeInv
<1> QED
  BY <1>1, <1>2, <1>3, PTL DEF Spec

THEOREM TypeInvariant == Spec => []TypeInv
<1>1. Init => TypeInv
  BY TypeInit
<1>2. TypeInv /\ [Next]_vars => TypeInv'
  BY TypeStep
<1> QED
  BY <1>1, <1>2, PTL DEF Spec

-----------------------------------------------------------------------------
(* Recorded before sent.                                                   *)

LEMMA RecordedInit ==
    ASSUME Init
    PROVE  RecordedInv
BY DEF Init, VenueInit, Absent, Known, RecordedInv, RecordedBeforeSent, AboutToSend, EntryPcs

\* A row is never deleted.
LEMMA RowsStay ==
    ASSUME TypeInv, Next
    PROVE  \A o \in OrderIds : status[o] # "NONE" => status'[o] # "NONE"
<1> USE DEF TypeInv, TypeOK, LedgerTypeOK, ledgerVars, RecordOrders, SetStatus
<1>1. CASE Start
  BY <1>1 DEF Start
<1>2. CASE BeginTick
  BY <1>2 DEF BeginTick
<1>3. CASE IngestFetch
  BY <1>3 DEF IngestFetch
<1>4. CASE IngestFails
  BY <1>4 DEF IngestFails
<1>5. CASE IngestDone
  BY <1>5 DEF IngestDone
<1>6. CASE RecordFill
  BY <1>6 DEF RecordFill
<1>7. CASE RecordDone
  BY <1>7 DEF RecordDone
<1>8. CASE CloseIfExitFilled
  BY <1>8 DEF CloseIfExitFilled
<1>9. CASE ReadAccount
  BY <1>9 DEF ReadAccount
<1>10. CASE FetchOpenOrders
  BY <1>10 DEF FetchOpenOrders
<1>11. CASE FetchFails
  BY <1>11 DEF FetchFails
<1>12. CASE Reconcile
  BY <1>12 DEF Reconcile, Repaired, TickTypeOK
<1>13. CASE ReconcileArms
  BY <1>13 DEF ReconcileArms
<1>14. CASE Gate
  BY <1>14 DEF Gate
<1>15. CASE DeclineEntry
  BY <1>15 DEF DeclineEntry
<1>16. CASE StaleData
  BY <1>16 DEF StaleData
<1>17. CASE TickDone
  BY <1>17 DEF TickDone
<1>18. CASE RecordEntry
  BY <1>18 DEF RecordEntry
<1>19. CASE CheckCanEnter
  BY <1>19 DEF CheckCanEnter
<1>20. CASE EntryAccepted
  BY <1>20 DEF EntryAccepted
<1>21. CASE EntryRefused
  BY <1>21 DEF EntryRefused
<1>22. CASE EntryUnanswered
  BY <1>22 DEF EntryUnanswered
<1>23. CASE EntryAcknowledged
  <2>1. venue[Cur("ENTRY")].state # "NONE"
    BY <1>23, CurIds, KnownStatus DEF EntryAcknowledged, StageOK, BracketPcs, ProtectPcs
  <2> QED
    BY <1>23, <2>1 DEF EntryAcknowledged
<1>24. CASE OpenThePosition
  BY <1>24 DEF OpenThePosition
<1>25. CASE RecordExits
  BY <1>25 DEF RecordExits
<1>26. CASE OcoAccepted
  BY <1>26 DEF OcoAccepted
<1>27. CASE OcoRefused
  BY <1>27 DEF OcoRefused
<1>28. CASE OcoUnanswered
  BY <1>28 DEF OcoUnanswered
<1>29. CASE OcoAcknowledged
  BY <1>29 DEF OcoAcknowledged
<1>30. CASE RecordReversal
  BY <1>30 DEF RecordReversal
<1>31. CASE CheckReversal
  BY <1>31 DEF CheckReversal
<1>32. CASE ReversalAccepted
  BY <1>32 DEF ReversalAccepted
<1>33. CASE ReversalRefused
  BY <1>33 DEF ReversalRefused
<1>34. CASE ReversalUnanswered
  BY <1>34 DEF ReversalUnanswered
<1>35. CASE ReversalAcknowledged
  <2>1. venue[Cur("REVERSAL")].state # "NONE"
    BY <1>35, CurIds, KnownStatus DEF ReversalAcknowledged, StageOK, BracketPcs, ProtectPcs
  <2> QED
    BY <1>35, <2>1 DEF ReversalAcknowledged
<1>36. CASE CloseReversed
  BY <1>36 DEF CloseReversed
<1>37. CASE OperatorArms
  BY <1>37 DEF OperatorArms
<1>38. CASE OperatorDisarms
  BY <1>38 DEF OperatorDisarms
<1>39. CASE ExitTrades
  BY <1>39 DEF ExitTrades
<1>40. CASE BarCloses
  BY <1>40 DEF BarCloses
<1>41. CASE Crash
  BY <1>41 DEF Crash
<1> QED
  BY <1>1, <1>2, <1>3, <1>4, <1>5, <1>6, <1>7, <1>8, <1>9, <1>10, <1>11, <1>12, <1>13, <1>14, <1>15, <1>16, <1>17, <1>18, <1>19, <1>20, <1>21, <1>22, <1>23, <1>24, <1>25, <1>26, <1>27, <1>28, <1>29, <1>30, <1>31, <1>32, <1>33, <1>34, <1>35, <1>36, <1>37, <1>38, <1>39, <1>40, <1>41
  DEF Next, Runtime, TickStep, EntryStep, ProtectStep, ReverseStep, Environment

LEMMA AboutToSendSteps ==
    ASSUME TypeInv, AboutToSend, Next
    PROVE  AboutToSend'
<1> USE DEF AboutToSend, EntryPcs, callVars, EndTick, Abort, Goto, NextEntry, GoReverse, NoAnswer, RaiseUnprotected, ReversalGivesUpOrRetries, Forget
<1>1. pc \in BracketPcs => /\ Cur("ENTRY") \in OrderIds /\ Cur("REVERSAL") \in OrderIds
                              /\ ExitLegs(cur) \subseteq OrderIds
  BY CurIds DEF TypeInv, TypeOK
<1>2. status \in [OrderIds -> Statuses]
  BY DEF TypeInv, TypeOK, LedgerTypeOK
<1> USE DEF Cur, BracketPcs, ProtectPcs
<1>3. CASE Start
  BY <1>3, <1>1, <1>2, RowsStay DEF Start
<1>4. CASE BeginTick
  BY <1>4, <1>1, <1>2, RowsStay DEF BeginTick
<1>5. CASE IngestFetch
  BY <1>5, <1>1, <1>2, RowsStay DEF IngestFetch
<1>6. CASE IngestFails
  BY <1>6, <1>1, <1>2, RowsStay DEF IngestFails
<1>7. CASE IngestDone
  BY <1>7, <1>1, <1>2, RowsStay DEF IngestDone
<1>8. CASE RecordFill
  BY <1>8, <1>1, <1>2, RowsStay DEF RecordFill
<1>9. CASE RecordDone
  BY <1>9, <1>1, <1>2, RowsStay DEF RecordDone
<1>10. CASE CloseIfExitFilled
  BY <1>10, <1>1, <1>2, RowsStay DEF CloseIfExitFilled
<1>11. CASE ReadAccount
  BY <1>11, <1>1, <1>2, RowsStay DEF ReadAccount
<1>12. CASE FetchOpenOrders
  BY <1>12, <1>1, <1>2, RowsStay DEF FetchOpenOrders
<1>13. CASE FetchFails
  BY <1>13, <1>1, <1>2, RowsStay DEF FetchFails
<1>14. CASE Reconcile
  BY <1>14, <1>1, <1>2, RowsStay DEF Reconcile, Repaired
<1>15. CASE ReconcileArms
  BY <1>15, <1>1, <1>2, RowsStay DEF ReconcileArms
<1>16. CASE Gate
  BY <1>16, <1>1, <1>2, RowsStay DEF Gate
<1>17. CASE DeclineEntry
  BY <1>17, <1>1, <1>2, RowsStay DEF DeclineEntry
<1>18. CASE StaleData
  BY <1>18, <1>1, <1>2, RowsStay DEF StaleData
<1>19. CASE TickDone
  BY <1>19, <1>1, <1>2, RowsStay DEF TickDone
<1>20. CASE RecordEntry
  <2>1. cur' \in Decisions /\ RecordOrders({ClientOrderId(cur', "ENTRY")})
    BY <1>20 DEF RecordEntry, TypeInv, TypeOK, TickTypeOK
  <2>2. ClientOrderId(cur', "ENTRY") \in OrderIds
    BY <2>1, OrderIdFacts DEF ClientOrderId, Roles
  <2>3. status'[ClientOrderId(cur', "ENTRY")] # "NONE"
    BY <1>2, <2>1, <2>2 DEF RecordOrders
  <2> QED
    BY <1>20, <2>3 DEF RecordEntry
<1>21. CASE CheckCanEnter
  BY <1>21, <1>1, <1>2, RowsStay DEF CheckCanEnter
<1>22. CASE EntryAccepted
  BY <1>22, <1>1, <1>2, RowsStay DEF EntryAccepted
<1>23. CASE EntryRefused
  BY <1>23, <1>1, <1>2, RowsStay DEF EntryRefused
<1>24. CASE EntryUnanswered
  BY <1>24, <1>1, <1>2, RowsStay DEF EntryUnanswered
<1>25. CASE EntryAcknowledged
  BY <1>25, <1>1, <1>2, RowsStay DEF EntryAcknowledged
<1>26. CASE OpenThePosition
  BY <1>26, <1>1, <1>2, RowsStay DEF OpenThePosition
<1>27. CASE RecordExits
  BY <1>27, <1>1, <1>2 DEF RecordExits, RecordOrders
<1>28. CASE OcoAccepted
  BY <1>28, <1>1, <1>2, RowsStay DEF OcoAccepted
<1>29. CASE OcoRefused
  BY <1>29, <1>1, <1>2, RowsStay DEF OcoRefused
<1>30. CASE OcoUnanswered
  BY <1>30, <1>1, <1>2, RowsStay DEF OcoUnanswered
<1>31. CASE OcoAcknowledged
  BY <1>31, <1>1, <1>2, RowsStay DEF OcoAcknowledged
<1>32. CASE RecordReversal
  BY <1>32, <1>1, <1>2 DEF RecordReversal, RecordOrders
<1>33. CASE CheckReversal
  BY <1>33, <1>1, <1>2, RowsStay DEF CheckReversal
<1>34. CASE ReversalAccepted
  BY <1>34, <1>1, <1>2, RowsStay DEF ReversalAccepted
<1>35. CASE ReversalRefused
  BY <1>35, <1>1, <1>2, RowsStay DEF ReversalRefused
<1>36. CASE ReversalUnanswered
  BY <1>36, <1>1, <1>2, RowsStay DEF ReversalUnanswered
<1>37. CASE ReversalAcknowledged
  BY <1>37, <1>1, <1>2, RowsStay DEF ReversalAcknowledged
<1>38. CASE CloseReversed
  BY <1>38, <1>1, <1>2, RowsStay DEF CloseReversed
<1>39. CASE OperatorArms
  BY <1>39, <1>1, <1>2, RowsStay DEF OperatorArms
<1>40. CASE OperatorDisarms
  BY <1>40, <1>1, <1>2, RowsStay DEF OperatorDisarms
<1>41. CASE ExitTrades
  BY <1>41, <1>1, <1>2, RowsStay DEF ExitTrades
<1>42. CASE BarCloses
  BY <1>42, <1>1, <1>2, RowsStay DEF BarCloses
<1>43. CASE Crash
  BY <1>43, <1>1, <1>2, RowsStay DEF Crash
<1> QED
  BY <1>3, <1>4, <1>5, <1>6, <1>7, <1>8, <1>9, <1>10, <1>11, <1>12, <1>13, <1>14, <1>15, <1>16, <1>17, <1>18, <1>19, <1>20, <1>21, <1>22, <1>23, <1>24, <1>25, <1>26, <1>27, <1>28, <1>29, <1>30, <1>31, <1>32, <1>33, <1>34, <1>35, <1>36, <1>37, <1>38, <1>39, <1>40, <1>41, <1>42, <1>43
  DEF Next, Runtime, TickStep, EntryStep, ProtectStep, ReverseStep, Environment

LEMMA RecordedStep ==
    ASSUME TypeInv, RecordedInv, [Next]_vars
    PROVE  RecordedInv'
<1>1. CASE Next
  <2>1. AboutToSend'
    BY <1>1, AboutToSendSteps DEF RecordedInv
  <2>2. ASSUME NEW o \in OrderIds, Known(o)'
        PROVE  status'[o] # "NONE"
    <3>1. CASE Known(o)
      BY <1>1, <3>1, RowsStay DEF RecordedInv, RecordedBeforeSent
    <3>2. CASE ~Known(o)
      <4>1. \/ pc = "entry_post" /\ o = Cur("ENTRY")
            \/ pc = "oco_post" /\ o \in ExitLegs(cur)
            \/ pc = "rev_post" /\ o = Cur("REVERSAL")
        BY <1>1, <2>2, <3>2, VenueMoves DEF VenueSteps, VenueStep
      <4>2. status[o] # "NONE"
        BY <4>1 DEF RecordedInv, AboutToSend, EntryPcs
      <4> QED
        BY <1>1, <4>2, RowsStay
    <3> QED
      BY <3>1, <3>2
  <2> QED
    BY <2>1, <2>2 DEF RecordedInv, RecordedBeforeSent
<1>2. CASE UNCHANGED vars
  BY <1>2 DEF vars, venueVars, ledgerVars, callVars, RecordedInv, RecordedBeforeSent,
              AboutToSend, Known, Cur
<1> QED
  BY <1>1, <1>2

\* No order reaches the exchange before the ledger has a row of it, through any
\* interleaving of lost answers, retries, replays, crashes and restarts.
THEOREM RecordedBeforeSentAlways == Spec => []RecordedBeforeSent
<1>1. Init => RecordedInv
  BY RecordedInit
<1>2. TypeInv /\ RecordedInv /\ [Next]_vars => RecordedInv'
  BY RecordedStep
<1>3. RecordedInv => RecordedBeforeSent
  BY DEF RecordedInv
<1> QED
  BY <1>1, <1>2, <1>3, TypeInvariant, PTL DEF Spec

-----------------------------------------------------------------------------
(* At most one entry executes after the switch was armed.                  *)

\* The step into the transmission is taken with the switch clear, and only a
\* step that ends the transmission, or finds the order known, follows a late buy.
LEMMA PostStays ==
    ASSUME Next, pc' = "entry_post"
    PROVE  \/ pc = "entry_check" /\ ~armed /\ UNCHANGED switchVars
           \/ pc = "entry_post" /\ UNCHANGED cur
<1> USE DEF Abort, callVars, Goto, NextEntry, GoReverse, NoAnswer, RaiseUnprotected, ReversalGivesUpOrRetries, EndTick, Forget, tickVars
<1>1. CASE Start
  BY <1>1 DEF Start
<1>2. CASE BeginTick
  BY <1>2 DEF BeginTick
<1>3. CASE IngestFetch
  BY <1>3 DEF IngestFetch
<1>4. CASE IngestFails
  BY <1>4 DEF IngestFails
<1>5. CASE IngestDone
  BY <1>5 DEF IngestDone
<1>6. CASE RecordFill
  BY <1>6 DEF RecordFill
<1>7. CASE RecordDone
  BY <1>7 DEF RecordDone
<1>8. CASE CloseIfExitFilled
  BY <1>8 DEF CloseIfExitFilled
<1>9. CASE ReadAccount
  BY <1>9 DEF ReadAccount
<1>10. CASE FetchOpenOrders
  BY <1>10 DEF FetchOpenOrders
<1>11. CASE FetchFails
  BY <1>11 DEF FetchFails
<1>12. CASE Reconcile
  BY <1>12 DEF Reconcile, Repaired
<1>13. CASE ReconcileArms
  BY <1>13 DEF ReconcileArms
<1>14. CASE Gate
  BY <1>14 DEF Gate
<1>15. CASE DeclineEntry
  BY <1>15 DEF DeclineEntry
<1>16. CASE StaleData
  BY <1>16 DEF StaleData
<1>17. CASE TickDone
  BY <1>17 DEF TickDone
<1>18. CASE RecordEntry
  BY <1>18 DEF RecordEntry
<1>19. CASE CheckCanEnter
  BY <1>19 DEF CheckCanEnter
<1>20. CASE EntryAccepted
  BY <1>20 DEF EntryAccepted
<1>21. CASE EntryRefused
  BY <1>21 DEF EntryRefused
<1>22. CASE EntryUnanswered
  BY <1>22 DEF EntryUnanswered
<1>23. CASE EntryAcknowledged
  BY <1>23 DEF EntryAcknowledged
<1>24. CASE OpenThePosition
  BY <1>24 DEF OpenThePosition
<1>25. CASE RecordExits
  BY <1>25 DEF RecordExits
<1>26. CASE OcoAccepted
  BY <1>26 DEF OcoAccepted
<1>27. CASE OcoRefused
  BY <1>27 DEF OcoRefused
<1>28. CASE OcoUnanswered
  BY <1>28 DEF OcoUnanswered
<1>29. CASE OcoAcknowledged
  BY <1>29 DEF OcoAcknowledged
<1>30. CASE RecordReversal
  BY <1>30 DEF RecordReversal
<1>31. CASE CheckReversal
  BY <1>31 DEF CheckReversal
<1>32. CASE ReversalAccepted
  BY <1>32 DEF ReversalAccepted
<1>33. CASE ReversalRefused
  BY <1>33 DEF ReversalRefused
<1>34. CASE ReversalUnanswered
  BY <1>34 DEF ReversalUnanswered
<1>35. CASE ReversalAcknowledged
  BY <1>35 DEF ReversalAcknowledged
<1>36. CASE CloseReversed
  BY <1>36 DEF CloseReversed
<1>37. CASE OperatorArms
  BY <1>37 DEF OperatorArms
<1>38. CASE OperatorDisarms
  BY <1>38 DEF OperatorDisarms
<1>39. CASE ExitTrades
  BY <1>39 DEF ExitTrades
<1>40. CASE BarCloses
  BY <1>40 DEF BarCloses
<1>41. CASE Crash
  BY <1>41 DEF Crash
<1> QED
  BY <1>1, <1>2, <1>3, <1>4, <1>5, <1>6, <1>7, <1>8, <1>9, <1>10, <1>11, <1>12, <1>13, <1>14, <1>15, <1>16, <1>17, <1>18, <1>19, <1>20, <1>21, <1>22, <1>23, <1>24, <1>25, <1>26, <1>27, <1>28, <1>29, <1>30, <1>31, <1>32, <1>33, <1>34, <1>35, <1>36, <1>37, <1>38, <1>39, <1>40, <1>41
  DEF Next, Runtime, TickStep, EntryStep, ProtectStep, ReverseStep, Environment

LEMMA LateBuyStep ==
    ASSUME TypeInv, LateBuyInv, [Next]_vars
    PROVE  LateBuyInv'
<1>1. CASE Next /\ SwitchStep
  <2>1. lateBuys \in Nat /\ armed \in BOOLEAN
    BY DEF TypeInv, TypeOK, SwitchTypeOK
  <2>2. lateBuys' = 0 \/ UNCHANGED switchVars \/ (armed /\ armed' /\ lateBuys' = lateBuys)
    BY <1>1, Zenon DEF SwitchStep, SetArmed, ReconcilerArms, Disarms, switchVars
  <2>3. CASE lateBuys' = 0
    BY <2>3 DEF LateBuyInv
  <2>4. CASE lateBuys' # 0
    <3>1. lateBuys' = lateBuys /\ armed' = armed
      BY <2>1, <2>2, <2>4 DEF switchVars
    <3>2. pc' = "entry_post" => pc = "entry_post" /\ UNCHANGED cur
      BY <1>1, <2>4, <3>1, PostStays DEF LateBuyInv
    <3>3. pc = "entry_post" => Cur("ENTRY") \in OrderIds
      BY CurIds DEF TypeInv, TypeOK, BracketPcs, EntryPcs
    <3> QED
      BY <1>1, <3>1, <3>2, <3>3, VenueGrows DEF LateBuyInv, Cur
  <2> QED
    BY <2>3, <2>4
<1>2. CASE EntryAccepted
  <2>1. ~Known(Cur("ENTRY")) /\ CountBuy /\ pc = "entry_post"
    BY <1>2 DEF EntryAccepted, ExecuteEntry, Cur
  <2>2. lateBuys = 0 /\ lateBuys \in Nat
    BY <2>1 DEF LateBuyInv, TypeInv, TypeOK, SwitchTypeOK
  <2>3. armed' = armed /\ (lateBuys' = lateBuys + 1 \/ (~armed /\ lateBuys' = lateBuys))
    <3>1. armed' = armed /\ lateBuys' = IF armed THEN lateBuys + 1 ELSE lateBuys
      BY <2>1 DEF CountBuy
    <3> QED
      BY <3>1, <2>2
  <2>4. lateBuys' <= 1
    BY <2>2, <2>3
  <2>5. ~armed' => lateBuys' = 0
    <3>1. lateBuys' = IF armed THEN lateBuys + 1 ELSE lateBuys
      BY <2>1 DEF CountBuy
    <3> QED
      BY <3>1, <2>2, <2>3
  <2>6. pc' = "entry_post" => Known(Cur("ENTRY"))'
    <3>1. Cur("ENTRY") \in OrderIds
      BY <2>1, CurIds DEF TypeInv, TypeOK, BracketPcs, EntryPcs
    <3>2. \A o \in OrderIds : o = Cur("ENTRY") => Known(o)'
      BY <1>2, AcceptFacts DEF VenueStep
    <3>3. pc' = "entry_post" => UNCHANGED cur
      BY <1>2, <2>1, PostStays DEF Next, Runtime, EntryStep
    <3> QED
      BY <3>1, <3>2, <3>3 DEF Cur
  <2> QED
    BY <2>4, <2>5, <2>6 DEF LateBuyInv
<1>3. CASE UNCHANGED vars
  BY <1>3 DEF vars, venueVars, switchVars, callVars, LateBuyInv, Known, Cur
<1> QED
  BY <1>1, <1>2, <1>3, SwitchSteps

\* EXEC-06: between an arming and the disarming that follows it, the exchange
\* executes at most the one entry that had passed the check, however often the
\* transport retries it and whoever arms.
THEOREM AtMostOneEntryAfterArmAlways == Spec => []AtMostOneEntryAfterArm
<1>1. Init => LateBuyInv
  BY DEF Init, LateBuyInv
<1>2. TypeInv /\ LateBuyInv /\ [Next]_vars => LateBuyInv'
  BY LateBuyStep
<1>3. LateBuyInv => AtMostOneEntryAfterArm
  BY DEF LateBuyInv, AtMostOneEntryAfterArm
<1> QED
  BY <1>1, <1>2, <1>3, TypeInvariant, PTL DEF Spec

-----------------------------------------------------------------------------
(* At most one open position for each symbol.                              *)

\* Only open_position makes a row open, and a reversal that is closed leaves none.
LEMMA OpenedOnly ==
    ASSUME TypeInv, Next
    PROVE  \A d \in Decisions :
                position'[d].state = "open" =>
                    \/ position[d].state = "open" /\ ~(pc = "rev_close" /\ pc' = "entries" /\ d = cur)
                    \/ pc = "open" /\ pc' = "exits" /\ d = cur
<1> USE DEF Abort, callVars, Goto, NextEntry, GoReverse, NoAnswer, RaiseUnprotected, ReversalGivesUpOrRetries, EndTick, Forget, tickVars, ledgerVars, ClosePosition, OpenPosition
<1>1. CASE Start
  BY <1>1 DEF Start
<1>2. CASE BeginTick
  BY <1>2 DEF BeginTick
<1>3. CASE IngestFetch
  BY <1>3 DEF IngestFetch
<1>4. CASE IngestFails
  BY <1>4 DEF IngestFails
<1>5. CASE IngestDone
  BY <1>5 DEF IngestDone
<1>6. CASE RecordFill
  BY <1>6 DEF RecordFill
<1>7. CASE RecordDone
  BY <1>7 DEF RecordDone
<1>8. CASE CloseIfExitFilled
  BY <1>8, OrderIdFacts DEF CloseIfExitFilled, DecisionOf, TypeInv, TypeOK, LedgerTypeOK, PositionRow
<1>9. CASE ReadAccount
  BY <1>9 DEF ReadAccount
<1>10. CASE FetchOpenOrders
  BY <1>10 DEF FetchOpenOrders
<1>11. CASE FetchFails
  BY <1>11 DEF FetchFails
<1>12. CASE Reconcile
  BY <1>12 DEF Reconcile, Repaired
<1>13. CASE ReconcileArms
  BY <1>13 DEF ReconcileArms
<1>14. CASE Gate
  BY <1>14 DEF Gate
<1>15. CASE DeclineEntry
  BY <1>15 DEF DeclineEntry
<1>16. CASE StaleData
  BY <1>16 DEF StaleData
<1>17. CASE TickDone
  BY <1>17 DEF TickDone
<1>18. CASE RecordEntry
  BY <1>18 DEF RecordEntry
<1>19. CASE CheckCanEnter
  BY <1>19 DEF CheckCanEnter
<1>20. CASE EntryAccepted
  BY <1>20 DEF EntryAccepted
<1>21. CASE EntryRefused
  BY <1>21 DEF EntryRefused
<1>22. CASE EntryUnanswered
  BY <1>22 DEF EntryUnanswered
<1>23. CASE EntryAcknowledged
  BY <1>23 DEF EntryAcknowledged
<1>24. CASE OpenThePosition
  BY <1>24 DEF OpenThePosition
<1>25. CASE RecordExits
  BY <1>25 DEF RecordExits
<1>26. CASE OcoAccepted
  BY <1>26 DEF OcoAccepted
<1>27. CASE OcoRefused
  BY <1>27 DEF OcoRefused
<1>28. CASE OcoUnanswered
  BY <1>28 DEF OcoUnanswered
<1>29. CASE OcoAcknowledged
  BY <1>29 DEF OcoAcknowledged
<1>30. CASE RecordReversal
  BY <1>30 DEF RecordReversal
<1>31. CASE CheckReversal
  BY <1>31 DEF CheckReversal
<1>32. CASE ReversalAccepted
  BY <1>32 DEF ReversalAccepted
<1>33. CASE ReversalRefused
  BY <1>33 DEF ReversalRefused
<1>34. CASE ReversalUnanswered
  BY <1>34 DEF ReversalUnanswered
<1>35. CASE ReversalAcknowledged
  BY <1>35 DEF ReversalAcknowledged
<1>36. CASE CloseReversed
  <2>1. cur \in Decisions /\ position \in [Decisions -> PositionRow]
    BY <1>36 DEF CloseReversed, TypeInv, TypeOK, ProcessTypeOK, LedgerTypeOK, BracketPcs, ProtectPcs
  <2> DEFINE r == [position[cur] EXCEPT !.state = "closed"]
  <2>2. r.state = "closed"
    BY <2>1 DEF PositionRow
  <2>3. position' = [position EXCEPT ![cur] = r] /\ pc = "rev_close" /\ pc' = "entries"
    BY <1>36 DEF CloseReversed
  <2> HIDE DEF r
  <2> QED
    BY <2>1, <2>2, <2>3
<1>37. CASE OperatorArms
  BY <1>37 DEF OperatorArms
<1>38. CASE OperatorDisarms
  BY <1>38 DEF OperatorDisarms
<1>39. CASE ExitTrades
  BY <1>39 DEF ExitTrades
<1>40. CASE BarCloses
  BY <1>40 DEF BarCloses
<1>41. CASE Crash
  BY <1>41 DEF Crash
<1> QED
  BY <1>1, <1>2, <1>3, <1>4, <1>5, <1>6, <1>7, <1>8, <1>9, <1>10, <1>11, <1>12, <1>13, <1>14, <1>15, <1>16, <1>17, <1>18, <1>19, <1>20, <1>21, <1>22, <1>23, <1>24, <1>25, <1>26, <1>27, <1>28, <1>29, <1>30, <1>31, <1>32, <1>33, <1>34, <1>35, <1>36, <1>37, <1>38, <1>39, <1>40, <1>41
  DEF Next, Runtime, TickStep, EntryStep, ProtectStep, ReverseStep, Environment

LEMMA SymbolsStep ==
    ASSUME TypeInv, SymbolsInv, Next
    PROVE  SymbolsInv'
<1> USE DEF Abort, callVars, Goto, NextEntry, GoReverse, NoAnswer, RaiseUnprotected, ReversalGivesUpOrRetries, EndTick, Forget, tickVars, KnownPcs, LoopPcs, OpenPcs, FilledPcs, BracketPcs, EntryPcs, ProtectPcs, OpenVolatile
<1>a. /\ \A d \in Decisions :
          position'[d].state = "open" =>
              \/ position[d].state = "open" /\ ~(pc = "rev_close" /\ pc' = "entries" /\ d = cur)
              \/ pc = "open" /\ pc' = "exits" /\ d = cur
  BY OpenedOnly
<1>b. starting \in BOOLEAN
  BY DEF TypeInv, TypeOK, ProcessTypeOK
<1> USE DEF SymbolsInv
<1>1. CASE Start
  BY <1>1, <1>a, <1>b DEF Start
<1>2. CASE BeginTick
  BY <1>2, <1>a, <1>b DEF BeginTick
<1>3. CASE IngestFetch
  BY <1>3, <1>a, <1>b DEF IngestFetch
<1>4. CASE IngestFails
  BY <1>4, <1>a, <1>b DEF IngestFails
<1>5. CASE IngestDone
  BY <1>5, <1>a, <1>b DEF IngestDone
<1>6. CASE RecordFill
  BY <1>6, <1>a, <1>b DEF RecordFill
<1>7. CASE RecordDone
  BY <1>7, <1>a, <1>b DEF RecordDone
<1>8. CASE CloseIfExitFilled
  BY <1>8, <1>a, <1>b DEF CloseIfExitFilled
<1>9. CASE ReadAccount
  BY <1>9, <1>a, <1>b DEF ReadAccount, OpenSymbols, ledgerVars
<1>10. CASE FetchOpenOrders
  BY <1>10, <1>a, <1>b DEF FetchOpenOrders
<1>11. CASE FetchFails
  BY <1>11, <1>a, <1>b DEF FetchFails
<1>12. CASE Reconcile
  BY <1>12, <1>a, <1>b DEF Reconcile, Repaired
<1>13. CASE ReconcileArms
  BY <1>13, <1>a, <1>b DEF ReconcileArms
<1>14. CASE Gate
  BY <1>14, <1>a, <1>b DEF Gate
<1>15. CASE DeclineEntry
  BY <1>15, <1>a, <1>b DEF DeclineEntry
<1>16. CASE StaleData
  BY <1>16, <1>a, <1>b DEF StaleData
<1>17. CASE TickDone
  BY <1>17, <1>a, <1>b DEF TickDone
<1>18. CASE RecordEntry
  BY <1>18, <1>a, <1>b DEF RecordEntry
<1>19. CASE CheckCanEnter
  BY <1>19, <1>a, <1>b DEF CheckCanEnter
<1>20. CASE EntryAccepted
  BY <1>20, <1>a, <1>b DEF EntryAccepted
<1>21. CASE EntryRefused
  BY <1>21, <1>a, <1>b DEF EntryRefused
<1>22. CASE EntryUnanswered
  BY <1>22, <1>a, <1>b DEF EntryUnanswered
<1>23. CASE EntryAcknowledged
  BY <1>23, <1>a, <1>b DEF EntryAcknowledged
<1>24. CASE OpenThePosition
  BY <1>24, <1>a, <1>b DEF OpenThePosition
<1>25. CASE RecordExits
  BY <1>25, <1>a, <1>b DEF RecordExits
<1>26. CASE OcoAccepted
  BY <1>26, <1>a, <1>b DEF OcoAccepted
<1>27. CASE OcoRefused
  BY <1>27, <1>a, <1>b DEF OcoRefused
<1>28. CASE OcoUnanswered
  BY <1>28, <1>a, <1>b DEF OcoUnanswered
<1>29. CASE OcoAcknowledged
  BY <1>29, <1>a, <1>b DEF OcoAcknowledged
<1>30. CASE RecordReversal
  BY <1>30, <1>a, <1>b DEF RecordReversal
<1>31. CASE CheckReversal
  BY <1>31, <1>a, <1>b DEF CheckReversal
<1>32. CASE ReversalAccepted
  BY <1>32, <1>a, <1>b DEF ReversalAccepted
<1>33. CASE ReversalRefused
  BY <1>33, <1>a, <1>b DEF ReversalRefused
<1>34. CASE ReversalUnanswered
  BY <1>34, <1>a, <1>b DEF ReversalUnanswered
<1>35. CASE ReversalAcknowledged
  BY <1>35, <1>a, <1>b DEF ReversalAcknowledged
<1>36. CASE CloseReversed
  BY <1>36, <1>a, <1>b DEF CloseReversed
<1>37. CASE OperatorArms
  BY <1>37, <1>a, <1>b DEF OperatorArms
<1>38. CASE OperatorDisarms
  BY <1>38, <1>a, <1>b DEF OperatorDisarms
<1>39. CASE ExitTrades
  BY <1>39, <1>a, <1>b DEF ExitTrades
<1>40. CASE BarCloses
  BY <1>40, <1>a, <1>b DEF BarCloses
<1>41. CASE Crash
  BY <1>41, <1>a, <1>b DEF Crash
<1> QED
  BY <1>1, <1>2, <1>3, <1>4, <1>5, <1>6, <1>7, <1>8, <1>9, <1>10, <1>11, <1>12, <1>13, <1>14, <1>15, <1>16, <1>17, <1>18, <1>19, <1>20, <1>21, <1>22, <1>23, <1>24, <1>25, <1>26, <1>27, <1>28, <1>29, <1>30, <1>31, <1>32, <1>33, <1>34, <1>35, <1>36, <1>37, <1>38, <1>39, <1>40, <1>41
  DEF Next, Runtime, TickStep, EntryStep, ProtectStep, ReverseStep, Environment

LEMMA PositionStep ==
    ASSUME TypeInv, PositionInv, [Next]_vars
    PROVE  PositionInv'
<1>1. CASE Next
  <2>1. SymbolsInv'
    BY <1>1, SymbolsStep DEF PositionInv
  <2>2. \A d \in Decisions :
            position'[d].state = "open" =>
                position[d].state = "open" \/ (pc = "open" /\ d = cur)
    BY <1>1, OpenedOnly
  <2>3. pc = "open" =>
            \A d \in Decisions : position[d].state = "open" => SymbolOf[d] # SymbolOf[cur]
    BY DEF PositionInv, SymbolsInv, KnownPcs, LoopPcs, BracketPcs, ProtectPcs, OpenPcs, FilledPcs
  <2> QED
    BY <2>1, <2>2, <2>3 DEF PositionInv, OnePositionPerSymbol
<1>2. CASE UNCHANGED vars
  BY <1>2 DEF vars, ledgerVars, callVars, tickVars, PositionInv, OnePositionPerSymbol, SymbolsInv
<1> QED
  BY <1>1, <1>2

\* RISK-08: whatever is in flight between the read of the account and the entry,
\* the ledger never holds two open positions on one symbol.
THEOREM OnePositionPerSymbolAlways == Spec => []OnePositionPerSymbol
<1>1. Init => PositionInv
  BY DEF Init, LedgerInit, NoPosition, PositionInv, OnePositionPerSymbol, SymbolsInv,
         LoopPcs, KnownPcs, BracketPcs, EntryPcs, ProtectPcs
<1>2. TypeInv /\ PositionInv /\ [Next]_vars => PositionInv'
  BY PositionStep
<1>3. PositionInv => OnePositionPerSymbol
  BY DEF PositionInv
<1> QED
  BY <1>1, <1>2, <1>3, TypeInvariant, PTL DEF Spec

-----------------------------------------------------------------------------
(***************************************************************************)
(* Fill ingestion records every trade of a symbol, in order and without a  *)
(* gap. The proof needs one fact about the exchange that the code does not *)
(* check: that no trade id is used on two symbols.                         *)
(***************************************************************************)

\* The fills table has one primary key for all symbols.
IdsApart ==
    \A s, t \in Symbols : \A i \in 1..Len(trades[s]) : \A j \in 1..Len(trades[t]) :
        s # t => TradeId(s, i) # TradeId(t, j)

-----------------------------------------------------------------------------
(* The inductive invariant: the trades of a symbol are of orders the       *)
(* exchange knows, and while a symbol is ingested the batch begins at the  *)
(* first trade that is not recorded yet.                                   *)

HistoryOK ==
    \A s \in Symbols : \A i \in 1..Len(trades[s]) :
        /\ trades[s][i] \in OrderIds
        /\ SymbolOfOrder(trades[s][i]) = s
        /\ Known(trades[s][i])

IngestPcs == {"record", "close"}

\* Of symbol s, the first k trades are recorded and the batch goes on from there.
IngestedTo(s, k) ==
    /\ RecordedUpTo(s, k)
    /\ pc \in IngestPcs /\ ing.sym = s => \E m \in k..Len(trades[s]) : ing.batch = (k + 1)..m

PrefixInv == \A s \in Symbols : \E k \in 0..Len(trades[s]) : IngestedTo(s, k)

IngestInv == HistoryOK /\ PrefixInv

-----------------------------------------------------------------------------
(* The history of a symbol only grows at its end.                          *)

HistoryGrows(known) ==
    \A s \in Symbols :
        /\ Len(trades'[s]) \in Nat /\ Len(trades[s]) <= Len(trades'[s])
        /\ \A i \in 1..Len(trades[s]) : trades'[s][i] = trades[s][i]
        /\ \A i \in 1..Len(trades'[s]) :
               i > Len(trades[s]) => /\ trades'[s][i] \in known
                                     /\ SymbolOfOrder(trades'[s][i]) = s

LEMMA TradedGrows ==
    ASSUME VenueTypeOK, NEW o \in OrderIds, NEW n \in Nat, Traded(o, n)
    PROVE  HistoryGrows({o})
<1>1. SymbolOfOrder(o) \in Symbols
  BY OrderIdFacts
<1> DEFINE more == [i \in 1..n |-> o]
<1>2. more \in Seq(OrderIds) /\ Len(more) = n /\ \A i \in 1..n : more[i] = o
  OBVIOUS
<1>3. trades' = [trades EXCEPT ![SymbolOfOrder(o)] = @ \o more]
  BY DEF Traded
<1> HIDE DEF more
<1>4. ASSUME NEW s \in Symbols
      PROVE  /\ Len(trades'[s]) \in Nat /\ Len(trades[s]) <= Len(trades'[s])
             /\ \A i \in 1..Len(trades[s]) : trades'[s][i] = trades[s][i]
             /\ \A i \in 1..Len(trades'[s]) :
                    i > Len(trades[s]) => /\ trades'[s][i] = o
                                          /\ SymbolOfOrder(trades'[s][i]) = s
  <2>1. trades[s] \in Seq(OrderIds)
    BY DEF VenueTypeOK
  <2>2. CASE s = SymbolOfOrder(o)
    <3>1. trades'[s] = trades[s] \o more
      BY <1>1, <1>3, <2>2 DEF VenueTypeOK
    <3>2. /\ Len(trades[s] \o more) = Len(trades[s]) + n /\ Len(trades[s]) \in Nat
          /\ \A i \in 1..Len(trades[s]) + n :
                (trades[s] \o more)[i] = IF i <= Len(trades[s]) THEN trades[s][i]
                                         ELSE more[i - Len(trades[s])]
      BY <1>2, <2>1
    <3>3. \A i \in 1..Len(trades[s]) + n : i > Len(trades[s]) => (trades[s] \o more)[i] = o
      BY <1>2, <3>2
    <3> QED
      BY <2>2, <3>1, <3>2, <3>3
  <2>3. CASE s # SymbolOfOrder(o)
    <3>1. trades'[s] = trades[s]
      BY <1>3, <2>3 DEF VenueTypeOK
    <3> QED
      BY <2>1, <3>1
  <2> QED
    BY <2>2, <2>3
<1> QED
  BY <1>4 DEF HistoryGrows

LEMMA QuietGrows ==
    ASSUME VenueTypeOK, UNCHANGED trades, NEW known
    PROVE  HistoryGrows(known)
BY DEF HistoryGrows, VenueTypeOK

\* Whoever lets the exchange act: the new trades are of an order it then knows.
LEMMA AcceptGrows ==
    ASSUME TypeInv, EntryAccepted \/ OcoAccepted \/ ReversalAccepted \/ ExitTrades
    PROVE  HistoryGrows({o \in OrderIds : Known(o)'})
<1>1. VenueTypeOK /\ executed \in 0..Lots /\ VenueOK
  BY DEF TypeInv, TypeOK, ProcessTypeOK, VenueOK
<1>2. CASE EntryAccepted
  <2>1. cur \in Decisions /\ pc = "entry_post"
    BY <1>2 DEF EntryAccepted, TypeInv, TypeOK, ProcessTypeOK, BracketPcs, EntryPcs
  <2>2. PICK n \in Executable(Lots) : ExecuteEntry(cur, n)
    BY <1>2 DEF EntryAccepted
  <2>3. PICK o \in OrderIds : o = <<cur, "ENTRY">>
    BY <2>1, OrderIdFacts DEF Roles
  <2>4. n \in Nat /\ Traded(o, n)
    <3>1. n \in Nat
      BY <1>1, VenueAssumption DEF Executable
    <3> QED
      BY <2>2, <2>3, <3>1 DEF ExecuteEntry, ClientOrderId
  <2>5. HistoryGrows({o})
    BY <1>1, <2>4, TradedGrows
  <2>6. Known(o)'
    BY <1>2, <2>3, AcceptFacts DEF VenueStep, Cur, ClientOrderId
  <2> QED
    BY <2>3, <2>5, <2>6 DEF HistoryGrows
<1>3. CASE OcoAccepted
  BY <1>1, <1>3, QuietGrows DEF OcoAccepted, AcceptOco
<1>4. CASE ReversalAccepted
  <2>1. cur \in Decisions /\ pc = "rev_post"
    BY <1>4 DEF ReversalAccepted, TypeInv, TypeOK, ProcessTypeOK, BracketPcs, ProtectPcs
  <2>2. PICK n \in Executable(executed) : ExecuteReversal(cur, executed, n)
    BY <1>4 DEF ReversalAccepted
  <2>3. PICK o \in OrderIds : o = <<cur, "REVERSAL">>
    BY <2>1, OrderIdFacts DEF Roles
  <2>4. n \in Nat /\ Traded(o, n)
    <3>1. n \in Nat
      BY <1>1, VenueAssumption DEF Executable
    <3> QED
      BY <2>2, <2>3, <3>1 DEF ExecuteReversal, ClientOrderId
  <2>5. HistoryGrows({o})
    BY <1>1, <2>4, TradedGrows
  <2>6. Known(o)'
    BY <1>4, <2>3, AcceptFacts DEF VenueStep, Cur, ClientOrderId
  <2> QED
    BY <2>3, <2>5, <2>6 DEF HistoryGrows
<1>5. CASE ExitTrades
  <2>0. PICK d \in Decisions : \E leg \in ExitLegs(d) : FillExit(d, leg)
    BY <1>5 DEF ExitTrades
  <2>1. PICK leg \in ExitLegs(d) : FillExit(d, leg)
    BY <2>0
  <2>2. leg \in OrderIds /\ Traded(leg, 1) /\ Resting(leg)
    BY <2>1, OrderIdFacts DEF FillExit, Roles, ExitLegs, ClientOrderId
  <2>3. HistoryGrows({leg})
    BY <1>1, <2>2, TradedGrows
  <2>4. Known(leg)'
    BY <1>1, <2>1, <2>2, FillFacts DEF VenueStep, Resting, Known
  <2> QED
    BY <2>2, <2>3, <2>4 DEF HistoryGrows
<1> QED
  BY <1>2, <1>3, <1>4, <1>5

\* No other step touches an order or the history.
LEMMA OthersKeepVenue ==
    ASSUME Next
    PROVE  \/ venue' = venue /\ trades' = trades
           \/ EntryAccepted \/ OcoAccepted \/ ReversalAccepted \/ ExitTrades
<1> DEFINE Quiet == venue' = venue /\ trades' = trades
<1> USE DEF venueVars
<1>1. ASSUME TickStep PROVE Quiet
  BY <1>1 DEF TickStep, Start, BeginTick, IngestFetch, IngestFails, IngestDone, RecordFill,
              RecordDone, CloseIfExitFilled, ReadAccount, FetchOpenOrders, FetchFails,
              Reconcile, ReconcileArms, Gate
<1>2. ASSUME EntryStep PROVE Quiet \/ EntryAccepted
  BY <1>2 DEF EntryStep, DeclineEntry, StaleData, TickDone, RecordEntry, CheckCanEnter,
              EntryRefused, EntryUnanswered, EntryAcknowledged
<1>3. ASSUME ProtectStep PROVE Quiet \/ OcoAccepted
  BY <1>3 DEF ProtectStep, OpenThePosition, RecordExits, OcoRefused, OcoUnanswered,
              OcoAcknowledged
<1>4. ASSUME ReverseStep PROVE Quiet \/ ReversalAccepted
  BY <1>4 DEF ReverseStep, RecordReversal, CheckReversal, ReversalRefused,
              ReversalUnanswered, ReversalAcknowledged, CloseReversed
<1>5. ASSUME Environment PROVE Quiet \/ ExitTrades
  BY <1>5 DEF Environment, OperatorArms, OperatorDisarms, BarCloses, Crash
<1> QED
  BY <1>1, <1>2, <1>3, <1>4, <1>5 DEF Next, Runtime

LEMMA HistorySteps ==
    ASSUME TypeInv, Next
    PROVE  HistoryGrows({o \in OrderIds : Known(o)'})
<1>1. VenueTypeOK
  BY DEF TypeInv, TypeOK
<1> QED
  BY <1>1, OthersKeepVenue, AcceptGrows, QuietGrows

-----------------------------------------------------------------------------
(* What a step may do to the fills and to the batch being ingested.        *)

KeepsBatch ==
    /\ fills' = fills
    /\ pc' \in IngestPcs => pc \in IngestPcs /\ ing'.sym = ing.sym /\ ing'.batch = ing.batch

LEMMA ForgetKeeps ==
    ASSUME NEW where \in {"down", "idle"}, Forget(where), fills' = fills
    PROVE  KeepsBatch
BY DEF Forget, KeepsBatch, IngestPcs

LEMMA IngestMoves ==
    ASSUME TypeInv, Next
    PROVE  KeepsBatch \/ IngestFetch \/ RecordFill
<1> USE DEF KeepsBatch, IngestPcs, ledgerVars, tickVars, callVars, OpenVolatile, EndTick, Abort,
            Goto, NextEntry, GoReverse, NoAnswer, RaiseUnprotected, ReversalGivesUpOrRetries
<1>1. CASE Start
  BY <1>1, ForgetKeeps DEF Start
<1>2. CASE BeginTick
  BY <1>2, ForgetKeeps DEF BeginTick
<1>3. CASE IngestFails
  BY <1>3, ForgetKeeps DEF IngestFails
<1>4. CASE IngestDone
  BY <1>4, ForgetKeeps DEF IngestDone
<1>5. CASE RecordDone
  BY <1>5, ForgetKeeps DEF RecordDone
<1>6. CASE CloseIfExitFilled
  BY <1>6, ForgetKeeps DEF CloseIfExitFilled, TypeInv, TypeOK, TickTypeOK
<1>7. CASE ReadAccount
  BY <1>7, ForgetKeeps DEF ReadAccount
<1>8. CASE FetchOpenOrders
  BY <1>8, ForgetKeeps DEF FetchOpenOrders
<1>9. CASE FetchFails
  BY <1>9, ForgetKeeps DEF FetchFails
<1>10. CASE Reconcile
  BY <1>10, ForgetKeeps DEF Reconcile
<1>11. CASE ReconcileArms
  BY <1>11, ForgetKeeps DEF ReconcileArms
<1>12. CASE Gate
  BY <1>12, ForgetKeeps DEF Gate
<1>13. CASE DeclineEntry
  BY <1>13, ForgetKeeps DEF DeclineEntry
<1>14. CASE StaleData
  BY <1>14, ForgetKeeps DEF StaleData
<1>15. CASE TickDone
  BY <1>15, ForgetKeeps DEF TickDone
<1>16. CASE RecordEntry
  BY <1>16, ForgetKeeps DEF RecordEntry
<1>17. CASE CheckCanEnter
  BY <1>17, ForgetKeeps DEF CheckCanEnter
<1>18. CASE EntryAccepted
  BY <1>18, ForgetKeeps DEF EntryAccepted
<1>19. CASE EntryRefused
  BY <1>19, ForgetKeeps DEF EntryRefused
<1>20. CASE EntryUnanswered
  BY <1>20, ForgetKeeps DEF EntryUnanswered
<1>21. CASE EntryAcknowledged
  BY <1>21, ForgetKeeps DEF EntryAcknowledged
<1>22. CASE OpenThePosition
  BY <1>22, ForgetKeeps DEF OpenThePosition
<1>23. CASE RecordExits
  BY <1>23, ForgetKeeps DEF RecordExits
<1>24. CASE OcoAccepted
  BY <1>24, ForgetKeeps DEF OcoAccepted
<1>25. CASE OcoRefused
  BY <1>25, ForgetKeeps DEF OcoRefused
<1>26. CASE OcoUnanswered
  BY <1>26, ForgetKeeps DEF OcoUnanswered
<1>27. CASE OcoAcknowledged
  BY <1>27, ForgetKeeps DEF OcoAcknowledged
<1>28. CASE RecordReversal
  BY <1>28, ForgetKeeps DEF RecordReversal
<1>29. CASE CheckReversal
  BY <1>29, ForgetKeeps DEF CheckReversal
<1>30. CASE ReversalAccepted
  BY <1>30, ForgetKeeps DEF ReversalAccepted
<1>31. CASE ReversalRefused
  BY <1>31, ForgetKeeps DEF ReversalRefused
<1>32. CASE ReversalUnanswered
  BY <1>32, ForgetKeeps DEF ReversalUnanswered
<1>33. CASE ReversalAcknowledged
  BY <1>33, ForgetKeeps DEF ReversalAcknowledged
<1>34. CASE CloseReversed
  BY <1>34, ForgetKeeps DEF CloseReversed
<1>35. CASE OperatorArms
  BY <1>35, ForgetKeeps DEF OperatorArms
<1>36. CASE OperatorDisarms
  BY <1>36, ForgetKeeps DEF OperatorDisarms
<1>37. CASE ExitTrades
  BY <1>37, ForgetKeeps DEF ExitTrades
<1>38. CASE BarCloses
  BY <1>38, ForgetKeeps DEF BarCloses
<1>39. CASE Crash
  BY <1>39, ForgetKeeps DEF Crash
<1> QED
  BY <1>1, <1>2, <1>3, <1>4, <1>5, <1>6, <1>7, <1>8, <1>9, <1>10, <1>11, <1>12, <1>13, <1>14,
     <1>15, <1>16, <1>17, <1>18, <1>19, <1>20, <1>21, <1>22, <1>23, <1>24, <1>25, <1>26,
     <1>27, <1>28, <1>29, <1>30, <1>31, <1>32, <1>33, <1>34, <1>35, <1>36, <1>37, <1>38,
     <1>39
  DEF Next, Runtime, TickStep, EntryStep, ProtectStep, ReverseStep, Environment

-----------------------------------------------------------------------------
(* The invariant is inductive.                                             *)

LEMMA HistoryStep ==
    ASSUME TypeInv, HistoryOK, Next
    PROVE  HistoryOK'
<1>1. HistoryGrows({o \in OrderIds : Known(o)'})
  BY HistorySteps
<1>2. \A o \in OrderIds : Known(o) => Known(o)'
  BY VenueGrows
<1>3. ASSUME NEW s \in Symbols, NEW i \in 1..Len(trades'[s])
      PROVE  \E o \in OrderIds : o = trades'[s][i] /\ SymbolOfOrder(o) = s /\ Known(o)'
  <2>1. Len(trades[s]) \in Nat
    BY DEF TypeInv, TypeOK, VenueTypeOK
  <2>2. CASE i <= Len(trades[s])
    BY <1>1, <1>2, <2>1, <2>2 DEF HistoryGrows, HistoryOK
  <2>3. CASE i > Len(trades[s])
    BY <1>1, <2>3 DEF HistoryGrows
  <2> QED
    BY <1>1, <2>1, <2>2, <2>3 DEF HistoryGrows
<1> QED
  BY <1>3 DEF HistoryOK, Known, SymbolOfOrder

\* The rows of the first k trades are the same rows in a longer history.
LEMMA RowsAreKept ==
    ASSUME TypeInv, Next, NEW s \in Symbols, NEW k \in 0..Len(trades[s])
    PROVE  /\ k \in 0..Len(trades'[s])
           /\ {[id |-> TradeId(s, i), order |-> trades'[s][i]] : i \in 1..k} =
                 {[id |-> TradeId(s, i), order |-> trades[s][i]] : i \in 1..k}
           /\ k..Len(trades[s]) \subseteq k..Len(trades'[s])
<1>1. Len(trades[s]) \in Nat
  BY DEF TypeInv, TypeOK, VenueTypeOK
<1>2. /\ Len(trades'[s]) \in Nat /\ Len(trades[s]) <= Len(trades'[s])
      /\ \A i \in 1..Len(trades[s]) : trades'[s][i] = trades[s][i]
  BY HistorySteps DEF HistoryGrows
<1>3. \A i \in 1..k : trades'[s][i] = trades[s][i]
  BY <1>1, <1>2
<1> QED
  BY <1>1, <1>2, <1>3

LEMMA PrefixKept ==
    ASSUME TypeInv, PrefixInv, Next, KeepsBatch
    PROVE  PrefixInv'
<1>1. ASSUME NEW s \in Symbols, NEW k \in 0..Len(trades[s]), IngestedTo(s, k)
      PROVE  k \in 0..Len(trades'[s]) /\ IngestedTo(s, k)'
  <2>1. RecordedUpTo(s, k)'
    BY <1>1, RowsAreKept DEF IngestedTo, RecordedUpTo, KeepsBatch
  <2>2. ASSUME pc' \in IngestPcs, ing'.sym = s
        PROVE  \E m \in k..Len(trades'[s]) : ing'.batch = (k + 1)..m
    BY <1>1, <2>2, RowsAreKept DEF IngestedTo, KeepsBatch
  <2> QED
    BY <2>1, <2>2, RowsAreKept DEF IngestedTo
<1> QED
  BY <1>1 DEF PrefixInv

\* The trades after the cursor are those after the recorded prefix.
LEMMA UnreadFacts ==
    ASSUME NEW s \in Symbols, NEW k \in 0..Len(trades[s]), Len(trades[s]) \in Nat,
           RecordedUpTo(s, k)
    PROVE  Unread(s) = (k + 1)..Len(trades[s])
<1>1. \A i \in 1..k : TradeId(s, i) \in Nat /\ TradeId(s, i) <= TradeId(s, k)
  BY LedgerAssumption DEF TradeId
<1>2. ASSUME NEW i \in 1..Len(trades[s]), i > k, NEW f \in fills, SymbolOfOrder(f.order) = s
      PROVE  f.id < TradeId(s, i)
  <2>1. PICK j \in 1..k : f = [id |-> TradeId(s, j), order |-> trades[s][j]]
    BY <1>2 DEF RecordedUpTo
  <2>2. f.id = TradeId(s, j)
    BY <2>1
  <2> QED
    BY <1>2, <2>2, LedgerAssumption DEF TradeId
<1>3. ASSUME NEW i \in 1..Len(trades[s]), i <= k
      PROVE  \E f \in fills : SymbolOfOrder(f.order) = s /\ ~(f.id < TradeId(s, i))
  <2>1. i \in 1..k
    BY <1>3
  <2> DEFINE f == [id |-> TradeId(s, i), order |-> trades[s][i]]
  <2>2. f \in {g \in fills : SymbolOfOrder(g.order) = s}
    BY <2>1 DEF RecordedUpTo
  <2>3. f.id = TradeId(s, i) /\ TradeId(s, i) \in Nat
    BY <1>1, <2>1
  <2> HIDE DEF f
  <2> QED
    BY <2>2, <2>3
<1> QED
  BY <1>2, <1>3 DEF Unread

LEMMA FetchKeeps ==
    ASSUME TypeInv, PrefixInv, Next, IngestFetch
    PROVE  PrefixInv'
<1>1. PICK s \in Symbols : ing'.sym = s /\ ing'.batch = Unread(s)
  BY DEF IngestFetch, TypeInv, TypeOK, TickTypeOK
<1>2. fills' = fills /\ trades' = trades
  BY DEF IngestFetch, ledgerVars, venueVars
<1>3. \A t \in Symbols : Len(trades[t]) \in Nat
  BY DEF TypeInv, TypeOK, VenueTypeOK
<1>4. ASSUME NEW t \in Symbols, NEW k \in 0..Len(trades[t]), IngestedTo(t, k)
      PROVE  k \in 0..Len(trades'[t]) /\ IngestedTo(t, k)'
  <2>1. RecordedUpTo(t, k)'
    BY <1>2, <1>4 DEF IngestedTo, RecordedUpTo
  <2>2. ASSUME ing'.sym = t
        PROVE  \E m \in k..Len(trades'[t]) : ing'.batch = (k + 1)..m
    <3>1. Unread(t) = (k + 1)..Len(trades[t])
      BY <1>3, <1>4, UnreadFacts DEF IngestedTo
    <3> QED
      BY <1>1, <1>2, <1>3, <2>2, <3>1
  <2> QED
    BY <1>2, <2>1, <2>2 DEF IngestedTo
<1> QED
  BY <1>4 DEF PrefixInv

\* A trade behind the recorded prefix is in no row yet: not of this symbol,
\* and, the ids being apart, not of another one.
LEMMA NotSeen ==
    ASSUME TypeInv, PrefixInv, IdsApart, NEW s \in Symbols, NEW k \in 0..Len(trades[s]),
           RecordedUpTo(s, k), NEW i \in 1..Len(trades[s]), i > k
    PROVE  ~Seen(TradeId(s, i))
<1>1. \A t \in Symbols : Len(trades[t]) \in Nat
  BY DEF TypeInv, TypeOK, VenueTypeOK
<1>2. ASSUME NEW f \in fills, f.id = TradeId(s, i)
      PROVE  FALSE
  <2>1. PICK t \in Symbols : t = SymbolOfOrder(f.order)
    <3>1. f.order \in OrderIds
      BY DEF TypeInv, TypeOK, LedgerTypeOK, FillRow
    <3> QED
      BY <3>1, OrderIdFacts
  <2>2. CASE t = s
    <3>1. PICK j \in 1..k : f = [id |-> TradeId(s, j), order |-> trades[s][j]]
      BY <2>1, <2>2 DEF RecordedUpTo
    <3>2. f.id = TradeId(s, j)
      BY <3>1
    <3> QED
      BY <1>2, <3>2, LedgerAssumption DEF TradeId
  <2>3. CASE t # s
    <3>1. PICK n \in 0..Len(trades[t]) : RecordedUpTo(t, n)
      BY DEF PrefixInv, IngestedTo
    <3>2. PICK j \in 1..n : f = [id |-> TradeId(t, j), order |-> trades[t][j]]
      BY <2>1, <3>1 DEF RecordedUpTo
    <3>3. j \in 1..Len(trades[t]) /\ f.id = TradeId(t, j)
      BY <1>1, <3>2
    <3> QED
      BY <1>2, <2>3, <3>3 DEF IdsApart
  <2> QED
    BY <2>2, <2>3
<1> QED
  BY <1>2 DEF Seen

\* One row more: the recorded prefix is one trade longer.
LEMMA OneMoreRow ==
    ASSUME TypeInv, HistoryOK, NEW s \in Symbols, NEW k \in 0..Len(trades[s]),
           RecordedUpTo(s, k), k + 1 \in 1..Len(trades[s]), trades' = trades,
           fills' = fills \cup {[id |-> TradeId(s, k + 1), order |-> trades[s][k + 1]]}
    PROVE  /\ RecordedUpTo(s, k + 1)'
           /\ \A t \in Symbols : \A n \in Nat : t # s /\ RecordedUpTo(t, n) => RecordedUpTo(t, n)'
<1> DEFINE row(i) == [id |-> TradeId(s, i), order |-> trades[s][i]]
<1>1. SymbolOfOrder(row(k + 1).order) = s
  BY DEF HistoryOK
<1>2. fills' = fills \cup {row(k + 1)}
  OBVIOUS
<1>3. {f \in fills : SymbolOfOrder(f.order) = s} = {row(i) : i \in 1..k}
  BY DEF RecordedUpTo
<1>4. RecordedUpTo(s, k + 1)' <=>
         {f \in fills' : SymbolOfOrder(f.order) = s} = {row(i) : i \in 1..k + 1}
  BY DEF RecordedUpTo, SymbolOfOrder, TradeId
<1> HIDE DEF row
<1>5. {row(i) : i \in 1..k + 1} = {row(i) : i \in 1..k} \cup {row(k + 1)}
  <2>1. 1..k + 1 = (1..k) \cup {k + 1}
    OBVIOUS
  <2> QED
    BY <2>1
<1>6. {f \in fills' : SymbolOfOrder(f.order) = s} = {row(i) : i \in 1..k} \cup {row(k + 1)}
  BY <1>1, <1>2, <1>3
<1>7. ASSUME NEW t \in Symbols, NEW n \in Nat, t # s, RecordedUpTo(t, n)
      PROVE  RecordedUpTo(t, n)'
  BY <1>1, <1>2, <1>7 DEF RecordedUpTo, SymbolOfOrder
<1> QED
  BY <1>4, <1>5, <1>6, <1>7

LEMMA RecordKeeps ==
    ASSUME TypeInv, HistoryOK, PrefixInv, RecordedBeforeSent, IdsApart, Next, RecordFill
    PROVE  PrefixInv'
<1>1. PICK s \in Symbols : s = ing.sym
  BY DEF RecordFill, TypeInv, TypeOK, TickTypeOK
<1>2. trades' = trades /\ pc \in IngestPcs
  BY DEF RecordFill, venueVars, IngestPcs
<1>3. \A t \in Symbols : Len(trades[t]) \in Nat
  BY DEF TypeInv, TypeOK, VenueTypeOK
<1>4. PICK k \in 0..Len(trades[s]) : IngestedTo(s, k)
  BY DEF PrefixInv
<1>5. PICK m \in k..Len(trades[s]) : ing.batch = (k + 1)..m
  BY <1>1, <1>2, <1>4 DEF IngestedTo
<1>6. PICK i \in ing.batch :
         LET o == trades[ing.sym][i]
             id == TradeId(ing.sym, i)
             new == status[o] # "NONE" /\ ~Seen(id)
         IN /\ NextTrade(i)
            /\ fills' = IF new THEN fills \cup {[id |-> id, order |-> o]} ELSE fills
            /\ ing' = [order |-> IF new THEN o ELSE None, sym |-> ing.sym,
                       batch |-> ing.batch \ {i}]
  BY DEF RecordFill
<1>7. i = k + 1 /\ k + 1 \in 1..Len(trades[s]) /\ m \in k + 1..Len(trades[s])
  <2>1. i \in (k + 1)..m /\ \A j \in (k + 1)..m : i <= j
    BY <1>5, <1>6 DEF NextTrade
  <2>2. k \in Nat /\ m \in Nat /\ k + 1 <= m /\ m <= Len(trades[s]) /\ Len(trades[s]) \in Nat
    BY <1>3, <1>5, <2>1
  <2>3. k + 1 \in (k + 1)..m
    BY <2>2
  <2>4. i <= k + 1 /\ k + 1 <= i /\ i \in Nat
    BY <2>1, <2>2, <2>3
  <2> QED
    BY <2>2, <2>4
<1>8. status[trades[s][i]] # "NONE" /\ ~Seen(TradeId(s, i))
  BY <1>3, <1>4, <1>7, NotSeen DEF HistoryOK, RecordedBeforeSent, IngestedTo
<1>9. /\ fills' = fills \cup {[id |-> TradeId(s, k + 1), order |-> trades[s][k + 1]]}
      /\ ing'.sym = s /\ ing'.batch = ing.batch \ {k + 1}
  BY <1>1, <1>6, <1>7, <1>8
<1>10. /\ RecordedUpTo(s, k + 1)'
       /\ \A t \in Symbols : \A n \in Nat : t # s /\ RecordedUpTo(t, n) => RecordedUpTo(t, n)'
  BY <1>2, <1>4, <1>7, <1>9, OneMoreRow DEF IngestedTo
<1>11. k + 1 \in 0..Len(trades'[s]) /\ IngestedTo(s, k + 1)'
  <2>1. ing'.batch = ((k + 1) + 1)..m
    BY <1>5, <1>7, <1>9
  <2>2. m \in (k + 1)..Len(trades'[s]) /\ k + 1 \in 0..Len(trades'[s])
    BY <1>2, <1>3, <1>7
  <2> QED
    BY <1>10, <2>1, <2>2 DEF IngestedTo
<1>12. ASSUME NEW t \in Symbols, t # s
       PROVE  \E n \in 0..Len(trades'[t]) : IngestedTo(t, n)'
  <2>1. PICK n \in 0..Len(trades[t]) : IngestedTo(t, n)
    BY DEF PrefixInv
  <2>2. n \in Nat /\ n \in 0..Len(trades'[t]) /\ RecordedUpTo(t, n)'
    BY <1>2, <1>3, <1>10, <1>12, <2>1 DEF IngestedTo
  <2> QED
    BY <1>9, <1>12, <2>2 DEF IngestedTo
<1> QED
  BY <1>11, <1>12 DEF PrefixInv

LEMMA IngestInit ==
    ASSUME Init
    PROVE  IngestInv
<1>1. \A s \in Symbols : Len(trades[s]) = 0
  BY DEF Init, VenueInit
<1>2. fills = {} /\ pc = "down"
  BY DEF Init, LedgerInit
<1>3. ASSUME NEW s \in Symbols
      PROVE  0 \in 0..Len(trades[s]) /\ IngestedTo(s, 0)
  BY <1>1, <1>2 DEF IngestedTo, RecordedUpTo, IngestPcs
<1> QED
  BY <1>1, <1>3 DEF IngestInv, HistoryOK, PrefixInv

LEMMA IngestStep ==
    ASSUME TypeInv, RecordedBeforeSent, IdsApart, IngestInv, [Next]_vars
    PROVE  IngestInv'
<1>1. CASE Next
  <2>1. HistoryOK'
    BY <1>1, HistoryStep DEF IngestInv
  <2>2. PrefixInv'
    BY <1>1, IngestMoves, PrefixKept, FetchKeeps, RecordKeeps DEF IngestInv
  <2> QED
    BY <2>1, <2>2 DEF IngestInv
<1>2. CASE UNCHANGED vars
  <2>1. trades' = trades /\ venue' = venue /\ fills' = fills /\ pc' = pc /\ ing' = ing
    BY <1>2 DEF vars, venueVars, ledgerVars, tickVars
  <2>2. HistoryOK'
    BY <2>1 DEF IngestInv, HistoryOK, Known
  <2>3. PrefixInv'
    BY <2>1 DEF IngestInv, PrefixInv, IngestedTo, RecordedUpTo
  <2> QED
    BY <2>2, <2>3 DEF IngestInv
<1> QED
  BY <1>1, <1>2

\* While the ids of different symbols stay apart, the fills of every symbol are
\* the first trades of its history: whatever poll fails, whatever crash comes
\* between two fills of a batch, no trade is skipped and none is taken twice.
THEOREM FillsArePrefixAlways == Spec /\ []IdsApart => []FillsArePrefix
<1>1. Init => IngestInv
  BY IngestInit
<1>2. TypeInv /\ RecordedBeforeSent /\ IdsApart /\ IngestInv /\ [Next]_vars => IngestInv'
  BY IngestStep
<1>3. IngestInv => FillsArePrefix
  BY DEF IngestInv, PrefixInv, IngestedTo, FillsArePrefix
<1> QED
  BY <1>1, <1>2, <1>3, TypeInvariant, RecordedBeforeSentAlways, PTL DEF Spec

-----------------------------------------------------------------------------
(***************************************************************************)
(* What the account holds against what protects it, and against what the   *)
(* ledger says of it. Each theorem names the faults it excludes; with any  *)
(* of them the property fails.                                             *)
(***************************************************************************)

-----------------------------------------------------------------------------
(* Never naked. Excluded: an answer that is lost or garbled (the process   *)
(* does not learn that it bought), a market order that executes in part    *)
(* (the reversal sells less than it must), a crash, and a switch that is   *)
(* armed when the reversal asks it.                                        *)

CleanFaults == Faults \cap {"lost", "garbled", "partial", "crash"} = {}

NotArmedAtReversal == pc = "rev_check" => ~armed

\* The process holds what the entry bought and has not yet passed it on to an
\* OCO or to a reversal.
HoldPcs == {"entry_ack", "open", "exits", "oco_post", "rev_record", "rev_check", "rev_post"}

Entry(d) == ClientOrderId(d, "ENTRY")

HoldingOK == pc \in HoldPcs => Known(Entry(cur)) /\ executed = venue[Entry(cur)].done

\* A leg rests for all that was bought, so a full execution of it sells all.
LegsOK ==
    \A d \in Decisions : \A leg \in ExitLegs(d) :
        Resting(leg) => Known(Entry(d)) /\ venue[leg].qty = venue[Entry(d)].done

CoveredOK ==
    \A d \in Decisions :
        Held(d) > 0 => Protected(d) \/ (cur = d /\ pc \in HoldPcs) \/ d \in alarm

NakedInv == HoldingOK /\ LegsOK /\ CoveredOK

\* What a step may do to what the process holds.
HoldStep ==
    /\ alarm \subseteq alarm'
    /\ pc' \in HoldPcs => pc \in HoldPcs /\ cur' = cur /\ executed' = executed
    /\ pc \in HoldPcs => pc' \in HoldPcs \/ executed = 0 \/ cur \in alarm'

LEMMA ForgetHolds ==
    ASSUME NEW where \in {"down", "idle"}, Forget(where), alarm \subseteq alarm',
           pc \in HoldPcs => cur \in alarm'
    PROVE  HoldStep
BY DEF Forget, HoldStep, HoldPcs

LEMMA HoldSteps ==
    ASSUME TypeInv, CleanFaults, NotArmedAtReversal, Next
    PROVE  HoldStep \/ EntryAccepted \/ OcoAccepted \/ ReversalAccepted
<1> USE DEF HoldStep, HoldPcs, CleanFaults, NotArmedAtReversal, May, callVars, EndTick, Abort,
            Goto, NextEntry, GoReverse, NoAnswer, RaiseUnprotected, ReversalGivesUpOrRetries
<1>1. CASE Start
  BY <1>1, ForgetHolds DEF Start
<1>2. CASE BeginTick
  BY <1>2, ForgetHolds DEF BeginTick
<1>3. CASE IngestFetch
  BY <1>3, ForgetHolds DEF IngestFetch
<1>4. CASE IngestFails
  BY <1>4, ForgetHolds DEF IngestFails
<1>5. CASE IngestDone
  BY <1>5, ForgetHolds DEF IngestDone
<1>6. CASE RecordFill
  BY <1>6, ForgetHolds DEF RecordFill
<1>7. CASE RecordDone
  BY <1>7, ForgetHolds DEF RecordDone
<1>8. CASE CloseIfExitFilled
  BY <1>8, ForgetHolds DEF CloseIfExitFilled
<1>9. CASE ReadAccount
  BY <1>9, ForgetHolds DEF ReadAccount
<1>10. CASE FetchOpenOrders
  BY <1>10, ForgetHolds DEF FetchOpenOrders
<1>11. CASE FetchFails
  BY <1>11, ForgetHolds DEF FetchFails
<1>12. CASE Reconcile
  BY <1>12, ForgetHolds DEF Reconcile
<1>13. CASE ReconcileArms
  BY <1>13, ForgetHolds DEF ReconcileArms
<1>14. CASE Gate
  BY <1>14, ForgetHolds DEF Gate
<1>15. CASE DeclineEntry
  BY <1>15, ForgetHolds DEF DeclineEntry
<1>16. CASE StaleData
  BY <1>16, ForgetHolds DEF StaleData
<1>17. CASE TickDone
  BY <1>17, ForgetHolds DEF TickDone
<1>18. CASE RecordEntry
  BY <1>18, ForgetHolds DEF RecordEntry
<1>19. CASE CheckCanEnter
  BY <1>19, ForgetHolds DEF CheckCanEnter
<1>20. CASE EntryRefused
  BY <1>20, ForgetHolds DEF EntryRefused
<1>21. CASE EntryUnanswered
  BY <1>21, ForgetHolds DEF EntryUnanswered
<1>22. CASE EntryAcknowledged
  BY <1>22, ForgetHolds DEF EntryAcknowledged
<1>23. CASE OpenThePosition
  BY <1>23, ForgetHolds DEF OpenThePosition
<1>24. CASE RecordExits
  BY <1>24, ForgetHolds DEF RecordExits
<1>25. CASE OcoRefused
  BY <1>25, ForgetHolds DEF OcoRefused
<1>26. CASE OcoUnanswered
  BY <1>26, ForgetHolds DEF OcoUnanswered
<1>27. CASE OcoAcknowledged
  BY <1>27, ForgetHolds DEF OcoAcknowledged
<1>28. CASE RecordReversal
  BY <1>28, ForgetHolds DEF RecordReversal
<1>29. CASE CheckReversal
  BY <1>29, ForgetHolds DEF CheckReversal
<1>30. CASE ReversalRefused
  BY <1>30, ForgetHolds DEF ReversalRefused
<1>31. CASE ReversalUnanswered
  BY <1>31, ForgetHolds DEF ReversalUnanswered
<1>32. CASE ReversalAcknowledged
  BY <1>32, ForgetHolds DEF ReversalAcknowledged
<1>33. CASE CloseReversed
  BY <1>33, ForgetHolds DEF CloseReversed
<1>34. CASE OperatorArms
  BY <1>34, ForgetHolds DEF OperatorArms
<1>35. CASE OperatorDisarms
  BY <1>35, ForgetHolds DEF OperatorDisarms
<1>36. CASE ExitTrades
  BY <1>36, ForgetHolds DEF ExitTrades
<1>37. CASE BarCloses
  BY <1>37, ForgetHolds DEF BarCloses
<1>38. CASE Crash
  BY <1>38, ForgetHolds DEF Crash
<1> QED
  BY <1>1, <1>2, <1>3, <1>4, <1>5, <1>6, <1>7, <1>8, <1>9, <1>10, <1>11, <1>12, <1>13, <1>14,
     <1>15, <1>16, <1>17, <1>18, <1>19, <1>20, <1>21, <1>22, <1>23, <1>24, <1>25, <1>26,
     <1>27, <1>28, <1>29, <1>30, <1>31, <1>32, <1>33, <1>34, <1>35, <1>36, <1>37, <1>38
  DEF Next, Runtime, TickStep, EntryStep, ProtectStep, ReverseStep, Environment

LEMMA IdFacts ==
    /\ \A d \in Decisions : /\ Entry(d) \in OrderIds /\ ClientOrderId(d, "REVERSAL") \in OrderIds
                             /\ ExitLegs(d) \subseteq OrderIds
                             /\ Entry(d) \notin ExitLegs(d)
                             /\ ClientOrderId(d, "REVERSAL") \notin ExitLegs(d)
                             /\ ClientOrderId(d, "REVERSAL") # Entry(d)
    /\ \A d, e \in Decisions : d # e => /\ Entry(d) # Entry(e) /\ Entry(e) \notin ExitLegs(d)
                                         /\ Entry(d) # ClientOrderId(e, "REVERSAL")
                                         /\ ClientOrderId(d, "REVERSAL") # ClientOrderId(e, "REVERSAL")
                                         /\ ClientOrderId(e, "REVERSAL") \notin ExitLegs(d)
                                         /\ ExitLegs(d) \cap ExitLegs(e) = {}
BY OrderIdFacts DEF Entry, ClientOrderId, ExitLegs, Roles

\* What the account sold can be counted, order by order.
LEMMA DoneTypes ==
    ASSUME VenueTypeOK
    PROVE  \A o \in OrderIds : venue[o].done \in Nat /\ venue[o].qty \in Nat
BY VenueAssumption DEF VenueTypeOK, VenueOrder

\* An order is changed by a step only if it is one of these.
Touches(ids) == \A o \in OrderIds : o \notin ids => venue'[o] = venue[o]

\* A decision none of whose orders a step touches is covered as before.
LEMMA Untouched ==
    ASSUME VenueTypeOK, NEW d \in Decisions, NEW ids, Touches(ids),
           Entry(d) \notin ids, ClientOrderId(d, "REVERSAL") \notin ids, ExitLegs(d) \cap ids = {}
    PROVE  /\ Held(d)' = Held(d) /\ Protected(d)' = Protected(d)
           /\ venue'[Entry(d)] = venue[Entry(d)]
           /\ \A leg \in ExitLegs(d) : venue'[leg] = venue[leg]
<1>1. /\ venue'[Entry(d)] = venue[Entry(d)]
      /\ venue'[ClientOrderId(d, "REVERSAL")] = venue[ClientOrderId(d, "REVERSAL")]
      /\ \A leg \in ExitLegs(d) : venue'[leg] = venue[leg]
  BY IdFacts DEF Touches
<1>2. /\ venue'[ClientOrderId(d, "STOP")] = venue[ClientOrderId(d, "STOP")]
      /\ venue'[ClientOrderId(d, "TARGET")] = venue[ClientOrderId(d, "TARGET")]
  BY <1>1 DEF ExitLegs
<1>3. Protected(d)' = Protected(d)
  <2>1. \A leg \in ExitLegs(d) : Resting(leg)' <=> Resting(leg)
    BY <1>1 DEF Resting
  <2> QED
    BY <2>1, Zenon DEF Protected, ExitLegs, ClientOrderId
<1>4. Held(d)' = Held(d)
  BY <1>1, <1>2 DEF Held, Sold, Executed, Entry
<1> QED
  BY <1>1, <1>3, <1>4

\* A step that touches no order: the process passes on nothing it holds.
LEMMA QuietNaked ==
    ASSUME TypeInv, NakedInv, HoldStep, venue' = venue
    PROVE  NakedInv'
<1>1. HoldingOK'
  <2>1. ASSUME pc' \in HoldPcs
        PROVE  pc \in HoldPcs /\ cur' = cur /\ executed' = executed
    BY <2>1 DEF HoldStep
  <2> QED
    BY <2>1 DEF NakedInv, HoldingOK, Known, Entry
<1>2. LegsOK'
  BY DEF NakedInv, LegsOK, Resting, Known, Entry
<1>3. ASSUME NEW d \in Decisions
      PROVE  Held(d)' = Held(d) /\ Protected(d)' = Protected(d)
  BY DEF Held, Sold, Executed, Protected, Resting
<1>4. ASSUME NEW d \in Decisions, Held(d) > 0
      PROVE  Protected(d) \/ (cur' = d /\ pc' \in HoldPcs) \/ d \in alarm'
  <2>1. CASE cur = d /\ pc \in HoldPcs
    <3>1. executed = venue[Entry(d)].done
      BY <2>1 DEF NakedInv, HoldingOK
    <3>2. executed # 0
      BY <1>4, <3>1, DoneTypes, IdFacts DEF Held, Sold, Executed, Entry, TypeInv, TypeOK, ExitLegs
    <3>3. pc' \in HoldPcs \/ d \in alarm'
      BY <2>1, <3>2 DEF HoldStep
    <3> QED
      BY <2>1, <3>3 DEF HoldStep
  <2>2. CASE ~(cur = d /\ pc \in HoldPcs)
    BY <1>4, <2>2 DEF NakedInv, CoveredOK, HoldStep
  <2> QED
    BY <2>1, <2>2
<1>5. CoveredOK'
  BY <1>3, <1>4 DEF CoveredOK
<1> QED
  BY <1>1, <1>2, <1>5 DEF NakedInv

\* The entry executes in full and is what the process now holds.
LEMMA EntryNaked ==
    ASSUME TypeInv, NakedInv, CleanFaults, EntryAccepted
    PROVE  NakedInv'
<1>1. PICK d \in Decisions : d = cur
  BY DEF EntryAccepted, TypeInv, TypeOK, ProcessTypeOK, BracketPcs, EntryPcs
<1>2. ExecuteEntry(d, Lots) /\ pc' = "entry_ack" /\ cur' = d /\ executed' = Lots
  BY <1>1 DEF EntryAccepted, CleanFaults, May, Executable, EndTick, Goto
<1>3. alarm' = alarm /\ pc = "entry_post"
  BY DEF EntryAccepted
<1> DEFINE bought == MarketOrder(Lots, Lots)
<1>4. bought.state = "FILLED" /\ bought.done = Lots
  BY DEF MarketOrder
<1>5. /\ ~Known(Entry(d)) /\ venue' = [venue EXCEPT ![Entry(d)] = bought]
  BY <1>2 DEF ExecuteEntry, Entry
<1> HIDE DEF bought
<1>6. VenueTypeOK
  BY DEF TypeInv, TypeOK
<1>7. venue'[Entry(d)] = bought /\ Touches({Entry(d)})
  BY <1>5, <1>6, IdFacts DEF VenueTypeOK, Touches
<1>8. HoldingOK'
  BY <1>2, <1>4, <1>7 DEF HoldingOK, Known, Entry
<1>9. ASSUME NEW e \in Decisions, e # d
      PROVE  /\ Held(e)' = Held(e) /\ Protected(e)' = Protected(e)
             /\ venue'[Entry(e)] = venue[Entry(e)]
             /\ \A leg \in ExitLegs(e) : venue'[leg] = venue[leg]
  BY <1>6, <1>7, <1>9, Untouched, IdFacts
<1>10. ASSUME NEW leg \in ExitLegs(d)
       PROVE  ~Resting(leg)'
  <2>1. venue'[leg] = venue[leg]
    BY <1>7, IdFacts DEF Touches
  <2> QED
    BY <1>5, <2>1 DEF NakedInv, LegsOK, Resting
<1>11. LegsOK'
  BY <1>9, <1>10 DEF NakedInv, LegsOK, Resting, Known, Entry, ExitLegs, ClientOrderId
<1>12. CoveredOK'
  BY <1>1, <1>2, <1>3, <1>9 DEF NakedInv, CoveredOK, HoldPcs
<1> QED
  BY <1>8, <1>11, <1>12 DEF NakedInv

\* Both legs rest for what the process held.
LEMMA OcoNaked ==
    ASSUME TypeInv, NakedInv, CleanFaults, OcoAccepted
    PROVE  NakedInv'
<1>1. PICK d \in Decisions : d = cur
  BY DEF OcoAccepted, TypeInv, TypeOK, ProcessTypeOK, BracketPcs, ProtectPcs
<1>2. AcceptOco(d, executed) /\ pc' = "oco_ack" /\ cur' = d /\ alarm' = alarm
  BY <1>1 DEF OcoAccepted, CleanFaults, May, Goto
<1>3. Known(Entry(d)) /\ executed = venue[Entry(d)].done
  BY <1>1 DEF OcoAccepted, NakedInv, HoldingOK, HoldPcs
<1>4. VenueTypeOK
  BY DEF TypeInv, TypeOK
<1>5. /\ Touches(ExitLegs(d))
      /\ \A leg \in ExitLegs(d) : venue'[leg].state = "NEW" /\ venue'[leg].qty = executed
  BY <1>2, IdFacts DEF AcceptOco, Touches
<1>6. venue'[Entry(d)] = venue[Entry(d)]
  BY <1>5, IdFacts DEF Touches
<1>7. HoldingOK'
  BY <1>2 DEF HoldingOK, HoldPcs
<1>8. ASSUME NEW e \in Decisions, e # d
      PROVE  /\ Held(e)' = Held(e) /\ Protected(e)' = Protected(e)
             /\ venue'[Entry(e)] = venue[Entry(e)]
             /\ \A leg \in ExitLegs(e) : venue'[leg] = venue[leg]
  BY <1>4, <1>5, <1>8, Untouched, IdFacts
<1>9. LegsOK'
  BY <1>3, <1>5, <1>6, <1>8 DEF NakedInv, LegsOK, Resting, Known, Entry, ExitLegs, ClientOrderId
<1>10. Protected(d)'
  <2>1. Resting(ClientOrderId(d, "STOP"))'
    BY <1>5 DEF ExitLegs, Resting, ClientOrderId
  <2> QED
    BY <2>1 DEF Protected, ExitLegs, ClientOrderId
<1>11. CoveredOK'
  BY <1>1, <1>2, <1>8, <1>10 DEF NakedInv, CoveredOK
<1> QED
  BY <1>7, <1>9, <1>11 DEF NakedInv

\* The reversal sells all that the process held.
LEMMA ReversalNaked ==
    ASSUME TypeInv, NakedInv, CleanFaults, ReversalAccepted
    PROVE  NakedInv'
<1>1. PICK d \in Decisions : d = cur
  BY DEF ReversalAccepted, TypeInv, TypeOK, ProcessTypeOK, BracketPcs, ProtectPcs
<1>2. ExecuteReversal(d, executed, executed) /\ pc' = "rev_ack" /\ cur' = d /\ alarm' = alarm
  BY <1>1 DEF ReversalAccepted, CleanFaults, May, Executable, Goto
<1>3. executed = venue[Entry(d)].done
  BY <1>1 DEF ReversalAccepted, NakedInv, HoldingOK, HoldPcs
<1> DEFINE r == ClientOrderId(d, "REVERSAL")
           sold == MarketOrder(executed, executed)
<1>4. sold.done = executed
  BY DEF MarketOrder
<1>5. venue' = [venue EXCEPT ![r] = sold]
  BY <1>2 DEF ExecuteReversal
<1>6. VenueTypeOK
  BY DEF TypeInv, TypeOK
<1>7. r \in OrderIds /\ r # Entry(d) /\ r \notin ExitLegs(d)
      /\ \A e \in Decisions : e # d => Entry(e) # r /\ r \notin ExitLegs(e)
                                      /\ ClientOrderId(e, "REVERSAL") # r
  BY IdFacts
<1> HIDE DEF sold
<1>8. venue'[r] = sold /\ Touches({r})
  <2> HIDE DEF r
  <2> QED
    BY <1>5, <1>6, <1>7 DEF VenueTypeOK, Touches
<1>9. ASSUME NEW e \in Decisions, e # d
      PROVE  /\ Held(e)' = Held(e) /\ Protected(e)' = Protected(e)
             /\ venue'[Entry(e)] = venue[Entry(e)]
             /\ \A leg \in ExitLegs(e) : venue'[leg] = venue[leg]
  <2> HIDE DEF r
  <2> QED
    BY <1>6, <1>7, <1>8, <1>9, Untouched
<1>10. /\ venue'[Entry(d)] = venue[Entry(d)]
       /\ \A leg \in ExitLegs(d) : venue'[leg] = venue[leg]
  <2> HIDE DEF r
  <2> QED
    BY <1>7, <1>8, IdFacts DEF Touches
<1>11. LegsOK'
  BY <1>9, <1>10 DEF NakedInv, LegsOK, Resting, Known, Entry, ExitLegs, ClientOrderId
<1>12. Held(d)' <= 0
  <2>1. venue'[ClientOrderId(d, "STOP")].done \in Nat /\ venue'[ClientOrderId(d, "TARGET")].done \in Nat
    BY <1>6, <1>10, DoneTypes, IdFacts DEF ExitLegs
  <2>2. executed \in Nat
    BY <1>3, <1>6, DoneTypes, IdFacts
  <2> QED
    BY <1>3, <1>4, <1>8, <1>10, <2>1, <2>2 DEF Held, Sold, Executed, Entry
<1>13. HoldingOK'
  BY <1>2 DEF HoldingOK, HoldPcs
<1>14. Held(d)' \in Int
  <2>1. venue'[ClientOrderId(d, "STOP")].done \in Nat /\ venue'[ClientOrderId(d, "TARGET")].done \in Nat
    BY <1>6, <1>10, DoneTypes, IdFacts DEF ExitLegs
  <2>2. executed \in Nat
    BY <1>3, <1>6, DoneTypes, IdFacts
  <2> QED
    BY <1>3, <1>4, <1>8, <1>10, <2>1, <2>2 DEF Held, Sold, Executed, Entry
<1>15. CoveredOK'
  BY <1>1, <1>2, <1>9, <1>12, <1>14 DEF NakedInv, CoveredOK
<1> QED
  BY <1>11, <1>13, <1>15 DEF NakedInv

\* What one more lot of an exit does to the orders.
LEMMA FillEffect ==
    ASSUME VenueOK, NEW d \in Decisions, NEW leg \in ExitLegs(d), FillExit(d, leg)
    PROVE  /\ Touches(ExitLegs(d))
           /\ Resting(leg) /\ venue'[leg] = Filled(venue[leg])
           /\ \A x \in ExitLegs(d) : /\ venue'[x].qty = venue[x].qty
                                     /\ venue'[x].done >= venue[x].done
                                     /\ x # leg => ~Resting(x)'
<1>1. leg \in OrderIds /\ ExitLegs(d) \subseteq OrderIds /\ VenueTypeOK
  BY IdFacts DEF VenueOK
<1>2. venue' = [o \in OrderIds |->
                  IF o = leg THEN Filled(venue[o])
                  ELSE IF o \in ExitLegs(d) /\ Resting(o)
                       THEN [venue[o] EXCEPT !.state = "CANCELED"] ELSE venue[o]]
  BY DEF FillExit
<1>3. Touches(ExitLegs(d)) /\ venue'[leg] = Filled(venue[leg]) /\ Resting(leg)
  BY <1>1, <1>2 DEF FillExit, Touches
<1>4. ASSUME NEW x \in ExitLegs(d)
      PROVE  /\ venue'[x].qty = venue[x].qty /\ venue'[x].done >= venue[x].done
             /\ x # leg => ~Resting(x)'
  <2>1. venue[x].done \in Nat /\ venue[x] \in VenueOrder
    BY <1>1, DoneTypes DEF VenueTypeOK
  <2>2. CASE x = leg
    BY <1>3, <2>1, <2>2 DEF Filled
  <2>3. CASE x # leg /\ Resting(x)
    <3>1. venue'[x] = [venue[x] EXCEPT !.state = "CANCELED"]
      BY <1>1, <1>2, <2>3
    <3> QED
      BY <2>1, <2>3, <3>1 DEF VenueOrder, Resting
  <2>4. CASE x # leg /\ ~Resting(x)
    <3>1. venue'[x] = venue[x]
      BY <1>1, <1>2, <2>4
    <3> QED
      BY <2>1, <2>4, <3>1 DEF Resting
  <2> QED
    BY <2>2, <2>3, <2>4
<1> QED
  BY <1>3, <1>4

\* An exit leg trades: it rests on, or all that was bought is sold.
LEMMA FillNaked ==
    ASSUME TypeInv, NakedInv, ExitTrades
    PROVE  NakedInv'
<1>0. PICK d \in Decisions : \E leg \in ExitLegs(d) : FillExit(d, leg)
  BY DEF ExitTrades
<1>1. PICK leg \in ExitLegs(d) : FillExit(d, leg)
  BY <1>0
<1>2. pc' = pc /\ cur' = cur /\ executed' = executed /\ alarm' = alarm
  BY DEF ExitTrades, callVars
<1>3. VenueTypeOK /\ VenueOK
  BY DEF TypeInv, TypeOK, VenueOK
<1>4. /\ Touches(ExitLegs(d))
      /\ Resting(leg) /\ venue'[leg] = Filled(venue[leg])
      /\ \A x \in ExitLegs(d) : /\ venue'[x].qty = venue[x].qty
                                /\ venue'[x].done >= venue[x].done
                                /\ x # leg => ~Resting(x)'
  BY <1>1, <1>3, FillEffect
<1>5. ASSUME NEW e \in Decisions
      PROVE  venue'[Entry(e)] = venue[Entry(e)]
  <2>1. Entry(e) \in OrderIds /\ Entry(e) \notin ExitLegs(d)
    BY IdFacts
  <2> QED
    BY <1>4, <2>1 DEF Touches
<1>6. ASSUME NEW e \in Decisions, e # d
      PROVE  /\ Held(e)' = Held(e) /\ Protected(e)' = Protected(e)
             /\ \A x \in ExitLegs(e) : venue'[x] = venue[x]
  BY <1>3, <1>4, <1>6, Untouched, IdFacts
<1>7. HoldingOK'
  <2>1. pc \in HoldPcs => cur \in Decisions
    BY DEF TypeInv, TypeOK, ProcessTypeOK, HoldPcs, BracketPcs, ProtectPcs
  <2> QED
    BY <1>2, <1>5, <2>1 DEF NakedInv, HoldingOK, Known, Entry
<1>8. Known(Entry(d)) /\ venue[leg].qty = venue[Entry(d)].done
  BY <1>4 DEF NakedInv, LegsOK
<1>9. LegsOK'
  <2>1. ASSUME NEW x \in ExitLegs(d), Resting(x)'
        PROVE  Known(Entry(d))' /\ venue'[x].qty = venue'[Entry(d)].done
    BY <1>4, <1>5, <1>8, <2>1 DEF Known
  <2>2. ASSUME NEW e \in Decisions, e # d, NEW x \in ExitLegs(e), Resting(x)'
        PROVE  Known(Entry(e))' /\ venue'[x].qty = venue'[Entry(e)].done
    BY <1>5, <1>6, <2>2 DEF NakedInv, LegsOK, Resting, Known
  <2> QED
    BY <2>1, <2>2 DEF LegsOK, Entry, ExitLegs, ClientOrderId
<1>10. Protected(d)' \/ (Held(d)' <= 0 /\ Held(d)' \in Int)
  <2>1. CASE venue[leg].done + 1 # venue[leg].qty
    <3>1. Resting(leg)'
      BY <1>4, <2>1 DEF Filled, Resting
    <3> QED
      BY <3>1 DEF Protected, ExitLegs, ClientOrderId
  <2>2. CASE venue[leg].done + 1 = venue[leg].qty
    <3>1. venue'[leg].done = venue'[Entry(d)].done
      BY <1>4, <1>5, <1>8, <2>2 DEF Filled
    <3>2. /\ venue'[Entry(d)].done \in Nat
          /\ venue'[ClientOrderId(d, "REVERSAL")].done \in Nat
          /\ \A x \in ExitLegs(d) : venue'[x].done \in Nat
      <4>1. VenueTypeOK'
        BY <1>1, <1>3, FillFacts DEF VenueStep, VenueOK
      <4>2. \A o \in OrderIds : venue'[o].done \in Nat
        BY <4>1, VenueAssumption DEF VenueTypeOK, VenueOrder
      <4> QED
        BY <4>2, IdFacts
    <3>3. leg = ClientOrderId(d, "STOP") \/ leg = ClientOrderId(d, "TARGET")
      BY DEF ExitLegs
    <3>4. /\ venue'[ClientOrderId(d, "STOP")].done \in Nat
          /\ venue'[ClientOrderId(d, "TARGET")].done \in Nat
      BY <3>2 DEF ExitLegs
    <3> QED
      BY <3>1, <3>2, <3>3, <3>4 DEF Held, Sold, Executed, Entry
  <2> QED
    BY <2>1, <2>2
<1>11. CoveredOK'
  BY <1>2, <1>6, <1>10 DEF NakedInv, CoveredOK
<1> QED
  BY <1>7, <1>9, <1>11 DEF NakedInv

LEMMA NakedInit ==
    ASSUME Init
    PROVE  NakedInv
<1>1. pc = "down" /\ \A o \in OrderIds : venue[o].done = 0 /\ ~Resting(o)
  BY DEF Init, VenueInit, Absent, Resting
<1>2. HoldingOK /\ LegsOK
  BY <1>1, IdFacts DEF HoldingOK, HoldPcs, LegsOK
<1>3. \A d \in Decisions : Held(d) = 0
  <2>1. ASSUME NEW d \in Decisions
        PROVE  /\ venue[Entry(d)].done = 0 /\ venue[ClientOrderId(d, "REVERSAL")].done = 0
               /\ venue[ClientOrderId(d, "STOP")].done = 0
               /\ venue[ClientOrderId(d, "TARGET")].done = 0
    BY <1>1, IdFacts DEF ExitLegs
  <2> QED
    BY <2>1 DEF Held, Sold, Executed, Entry
<1> QED
  BY <1>2, <1>3 DEF NakedInv, CoveredOK

LEMMA NakedStep ==
    ASSUME CleanFaults, TypeInv, NotArmedAtReversal, NakedInv, [Next]_vars
    PROVE  NakedInv'
<1>1. CASE Next
  <2>1. HoldStep \/ EntryAccepted \/ OcoAccepted \/ ReversalAccepted
    BY <1>1, HoldSteps
  <2>2. venue' = venue \/ EntryAccepted \/ OcoAccepted \/ ReversalAccepted \/ ExitTrades
    BY <1>1, OthersKeepVenue
  <2> QED
    BY <2>1, <2>2, QuietNaked, EntryNaked, OcoNaked, ReversalNaked, FillNaked
<1>2. CASE UNCHANGED vars
  <2>1. HoldStep /\ venue' = venue
    BY <1>2 DEF vars, venueVars, callVars, HoldStep
  <2> QED
    BY <2>1, QuietNaked
<1> QED
  BY <1>1, <1>2

\* EXEC-02, for any number of symbols, signals and lots: without the faults
\* CleanFaults excludes, and with the switch clear when a reversal asks it, what
\* was bought is never left without a resting stop unless the alarm was raised.
THEOREM NeverNakedAlways ==
    ASSUME CleanFaults
    PROVE  Spec /\ []NotArmedAtReversal => []NeverNaked
<1>1. Init => NakedInv
  BY NakedInit
<1>2. TypeInv /\ NotArmedAtReversal /\ NakedInv /\ [Next]_vars => NakedInv'
  BY NakedStep
<1>3. NakedInv => NeverNaked
  BY DEF NakedInv, CoveredOK, NeverNaked, HoldPcs, ProtectPcs
<1> QED
  BY <1>1, <1>2, <1>3, TypeInvariant, PTL DEF Spec

-----------------------------------------------------------------------------
(* Closed exactly when sold. Excluded: a market order that executes in     *)
(* part, whose acknowledgement closes the whole position, and a crash      *)
(* between a fill and the look at its position.                            *)

WholeOrders == Faults \cap {"partial", "crash"} = {}

\* The trades of an order are as many as the lots it executed, and every fill
\* is of a trade.
TradesOf(o) == {i \in 1..Len(trades[SymbolOfOrder(o)]) : trades[SymbolOfOrder(o)][i] = o}

CountOK == \A o \in OrderIds : Cardinality(TradesOf(o)) = venue[o].done

FillsOK == \A f \in fills : \E i \in TradesOf(f.order) : f.id = TradeId(SymbolOfOrder(f.order), i)

LEMMA TradesOfFinite ==
    ASSUME VenueTypeOK, NEW o \in OrderIds
    PROVE  IsFiniteSet(TradesOf(o)) /\ Cardinality(TradesOf(o)) \in Nat
<1>1. Len(trades[SymbolOfOrder(o)]) \in Nat
  BY OrderIdFacts DEF VenueTypeOK
<1>2. IsFiniteSet(1..Len(trades[SymbolOfOrder(o)]))
  BY <1>1, FS_Interval
<1>3. TradesOf(o) \in SUBSET (1..Len(trades[SymbolOfOrder(o)]))
  BY DEF TradesOf
<1>4. IsFiniteSet(TradesOf(o))
  BY <1>2, <1>3, FS_Subset
<1> QED
  BY <1>4, FS_CardinalityType

LEMMA TradedCounts ==
    ASSUME VenueTypeOK, NEW o \in OrderIds, NEW n \in Nat, Traded(o, n)
    PROVE  /\ Cardinality(TradesOf(o)') = Cardinality(TradesOf(o)) + n
           /\ \A x \in OrderIds : x # o => TradesOf(x)' = TradesOf(x)
<1>1. HistoryGrows({o})
  BY TradedGrows
<1>2. PICK s \in Symbols : s = SymbolOfOrder(o)
  BY OrderIdFacts
<1>3. Len(trades[s]) \in Nat /\ Len(trades'[s]) = Len(trades[s]) + n
  <2>1. trades[s] \in Seq(OrderIds)
    BY DEF VenueTypeOK
  <2> DEFINE more == [i \in 1..n |-> o]
  <2>2. more \in Seq(OrderIds) /\ Len(more) = n
    OBVIOUS
  <2>3. trades'[s] = trades[s] \o more
    BY <1>2 DEF Traded, VenueTypeOK
  <2> HIDE DEF more
  <2>4. Len(trades[s] \o more) = Len(trades[s]) + Len(more) /\ Len(trades[s]) \in Nat
    BY <2>1, <2>2
  <2> QED
    BY <2>2, <2>3, <2>4
<1> DEFINE new == (Len(trades[s]) + 1)..(Len(trades[s]) + n)
<1>4. TradesOf(o)' = TradesOf(o) \cup new
  <2>1. TradesOf(o)' = {i \in 1..Len(trades'[s]) : trades'[s][i] = o}
    BY <1>2 DEF TradesOf, SymbolOfOrder
  <2>2. TradesOf(o) = {i \in 1..Len(trades[s]) : trades[s][i] = o}
    BY <1>2 DEF TradesOf
  <2>3. \A i \in new : i \in 1..Len(trades'[s]) /\ i > Len(trades[s])
    BY <1>3
  <2>4. \A i \in 1..Len(trades'[s]) : i \in 1..Len(trades[s]) \/ i \in new
    BY <1>3
  <2>5. \A i \in 1..Len(trades[s]) : i \in 1..Len(trades'[s]) /\ trades'[s][i] = trades[s][i]
    BY <1>1, <1>3 DEF HistoryGrows
  <2>6. \A i \in new : trades'[s][i] = o
    BY <1>1, <2>3 DEF HistoryGrows
  <2> HIDE DEF new
  <2> QED
    BY <2>1, <2>2, <2>3, <2>4, <2>5, <2>6
<1>5. TradesOf(o) \cap new = {}
  BY <1>2, <1>3 DEF TradesOf
<1>6. IsFiniteSet(new) /\ Cardinality(new) = n
  <2>1. Len(trades[s]) + 1 \in Int /\ Len(trades[s]) + n \in Int
    BY <1>3
  <2>2. /\ IsFiniteSet(new)
        /\ Cardinality(new) = IF Len(trades[s]) + 1 > Len(trades[s]) + n THEN 0
                              ELSE Len(trades[s]) + n - (Len(trades[s]) + 1) + 1
    BY <2>1, FS_Interval
  <2> HIDE DEF new
  <2> QED
    BY <1>3, <2>2
<1>7. Cardinality(TradesOf(o)') = Cardinality(TradesOf(o)) + n
  <2> HIDE DEF new
  <2>1. IsFiniteSet(TradesOf(o)) /\ Cardinality(TradesOf(o)) \in Nat
    BY TradesOfFinite
  <2>2. Cardinality(TradesOf(o) \cup new) =
           Cardinality(TradesOf(o)) + Cardinality(new) - Cardinality(TradesOf(o) \cap new)
    BY <1>6, <2>1, FS_Union
  <2>3. Cardinality(TradesOf(o) \cap new) = 0
    BY <1>5, FS_EmptySet
  <2> QED
    BY <1>4, <1>6, <2>1, <2>2, <2>3
<1>8. ASSUME NEW x \in OrderIds, x # o
      PROVE  TradesOf(x)' = TradesOf(x)
  <2>1. PICK t \in Symbols : t = SymbolOfOrder(x)
    BY OrderIdFacts
  <2>2. TradesOf(x)' = {i \in 1..Len(trades'[t]) : trades'[t][i] = x}
    BY <2>1 DEF TradesOf, SymbolOfOrder
  <2>3. TradesOf(x) = {i \in 1..Len(trades[t]) : trades[t][i] = x}
    BY <2>1 DEF TradesOf
  <2>4. Len(trades[t]) \in Nat
    BY DEF VenueTypeOK
  <2>5. \A i \in 1..Len(trades[t]) : i \in 1..Len(trades'[t]) /\ trades'[t][i] = trades[t][i]
    BY <1>1, <2>4 DEF HistoryGrows
  <2>6. \A i \in 1..Len(trades'[t]) : i \in 1..Len(trades[t]) \/ trades'[t][i] = o
    BY <1>1, <2>4 DEF HistoryGrows
  <2> QED
    BY <1>8, <2>2, <2>3, <2>5, <2>6
<1> QED
  BY <1>7, <1>8

\* An order that was unknown has no trades yet.
LEMMA UnknownHasNone ==
    ASSUME HistoryOK, CountOK, NEW o \in OrderIds, ~Known(o)
    PROVE  venue[o].done = 0
<1>1. SymbolOfOrder(o) \in Symbols
  BY OrderIdFacts
<1>2. TradesOf(o) = {}
  BY <1>1 DEF TradesOf, HistoryOK
<1> QED
  BY <1>2, FS_EmptySet DEF CountOK

\* An order of the exchange that traded n more lots keeps the count.
LEMMA OneOrderCounts ==
    ASSUME VenueTypeOK, CountOK, NEW o \in OrderIds, NEW n \in Nat, Traded(o, n),
           venue'[o].done = venue[o].done + n,
           \A x \in OrderIds : x # o => venue'[x].done = venue[x].done
    PROVE  CountOK' /\ \A x \in OrderIds : venue'[x].done >= venue[x].done
<1>1. \A x \in OrderIds : venue[x].done \in Nat
  BY DoneTypes
<1>2. /\ Cardinality(TradesOf(o)') = Cardinality(TradesOf(o)) + n
      /\ \A x \in OrderIds : x # o => TradesOf(x)' = TradesOf(x)
  BY TradedCounts
<1>3. ASSUME NEW x \in OrderIds
      PROVE  Cardinality(TradesOf(x)') = venue'[x].done /\ venue'[x].done >= venue[x].done
  BY <1>1, <1>2 DEF CountOK
<1>4. ASSUME NEW x \in OrderIds
      PROVE  Cardinality(TradesOf(x))' = venue'[x].done
  BY <1>3
<1> QED
  BY <1>3, <1>4 DEF CountOK

LEMMA CountStep ==
    ASSUME TypeInv, HistoryOK, CountOK, Next
    PROVE  CountOK' /\ \A x \in OrderIds : venue'[x].done >= venue[x].done
<1>1. VenueTypeOK /\ VenueOK /\ executed \in Nat
  BY VenueAssumption DEF TypeInv, TypeOK, VenueOK, ProcessTypeOK
<1>2. \A x \in OrderIds : venue[x].done \in Nat
  BY <1>1, DoneTypes
<1>3. CASE venue' = venue /\ trades' = trades
  <2>1. CountOK'
    BY <1>3 DEF CountOK, TradesOf
  <2> QED
    BY <1>2, <1>3, <2>1
<1>4. CASE EntryAccepted
  <2>1. PICK d \in Decisions : d = cur
    BY <1>4 DEF EntryAccepted, TypeInv, TypeOK, ProcessTypeOK, BracketPcs, EntryPcs
  <2>2. PICK n \in Executable(Lots) : ExecuteEntry(d, n)
    BY <1>4, <2>1 DEF EntryAccepted
  <2>3. PICK o \in OrderIds : o = ClientOrderId(d, "ENTRY")
    BY <2>1, IdFacts DEF Entry
  <2>4. n \in Nat /\ ~Known(o) /\ Traded(o, n)
        /\ venue' = [venue EXCEPT ![o] = MarketOrder(Lots, n)]
    BY <2>2, <2>3, VenueAssumption DEF Executable, ExecuteEntry
  <2>5. venue[o].done = 0
    BY <2>4, UnknownHasNone
  <2>6. venue'[o].done = venue[o].done + n
    BY <1>1, <2>4, <2>5 DEF VenueTypeOK, MarketOrder
  <2>7. \A x \in OrderIds : x # o => venue'[x].done = venue[x].done
    BY <1>1, <2>4 DEF VenueTypeOK
  <2> QED
    BY <1>1, <2>4, <2>6, <2>7, OneOrderCounts
<1>5. CASE OcoAccepted
  <2>1. PICK d \in Decisions : d = cur
    BY <1>5 DEF OcoAccepted, TypeInv, TypeOK, ProcessTypeOK, BracketPcs, ProtectPcs
  <2>2. AcceptOco(d, executed)
    BY <1>5, <2>1 DEF OcoAccepted
  <2>3. ASSUME NEW x \in OrderIds
        PROVE  venue'[x].done = venue[x].done
    <3>1. CASE x \in ExitLegs(d)
      BY <2>2, <3>1, UnknownHasNone DEF AcceptOco
    <3>2. CASE x \notin ExitLegs(d)
      BY <2>2, <3>2 DEF AcceptOco
    <3> QED
      BY <3>1, <3>2
  <2>4. trades' = trades
    BY <2>2 DEF AcceptOco
  <2>5. CountOK'
    BY <2>3, <2>4 DEF CountOK, TradesOf
  <2> QED
    BY <1>2, <2>3, <2>5
<1>6. CASE ReversalAccepted
  <2>1. PICK d \in Decisions : d = cur
    BY <1>6 DEF ReversalAccepted, TypeInv, TypeOK, ProcessTypeOK, BracketPcs, ProtectPcs
  <2>2. PICK n \in Executable(executed) : ExecuteReversal(d, executed, n)
    BY <1>6, <2>1 DEF ReversalAccepted
  <2>3. PICK o \in OrderIds : o = ClientOrderId(d, "REVERSAL")
    BY <2>1, IdFacts
  <2>4. n \in Nat /\ ~Known(o) /\ Traded(o, n)
        /\ venue' = [venue EXCEPT ![o] = MarketOrder(executed, n)]
    BY <1>1, <2>2, <2>3 DEF Executable, ExecuteReversal
  <2>5. venue[o].done = 0
    BY <2>4, UnknownHasNone
  <2>6. venue'[o].done = venue[o].done + n
    BY <1>1, <2>4, <2>5 DEF VenueTypeOK, MarketOrder
  <2>7. \A x \in OrderIds : x # o => venue'[x].done = venue[x].done
    BY <1>1, <2>4 DEF VenueTypeOK
  <2> QED
    BY <1>1, <2>4, <2>6, <2>7, OneOrderCounts
<1>7. CASE ExitTrades
  <2>1. PICK d \in Decisions : \E leg \in ExitLegs(d) : FillExit(d, leg)
    BY <1>7 DEF ExitTrades
  <2>2. PICK leg \in ExitLegs(d) : FillExit(d, leg)
    BY <2>1
  <2>3. leg \in OrderIds /\ Traded(leg, 1)
    BY <2>2, IdFacts DEF FillExit
  <2>4. venue' = [o \in OrderIds |->
                    IF o = leg THEN Filled(venue[o])
                    ELSE IF o \in ExitLegs(d) /\ Resting(o)
                         THEN [venue[o] EXCEPT !.state = "CANCELED"] ELSE venue[o]]
    BY <2>2 DEF FillExit
  <2>5. venue'[leg].done = venue[leg].done + 1
    BY <2>3, <2>4 DEF Filled
  <2>6. ASSUME NEW x \in OrderIds, x # leg
        PROVE  venue'[x].done = venue[x].done
    <3>1. venue[x] \in VenueOrder
      BY <1>1 DEF VenueTypeOK
    <3> QED
      BY <2>4, <2>6, <3>1 DEF VenueOrder
  <2> QED
    BY <1>1, <2>3, <2>5, <2>6, OneOrderCounts
<1> QED
  BY <1>3, <1>4, <1>5, <1>6, <1>7, OthersKeepVenue

\* A trade stays a trade of its order.
LEMMA TradesStay ==
    ASSUME TypeInv, Next, NEW o \in OrderIds
    PROVE  TradesOf(o) \subseteq TradesOf(o)'
<1>1. PICK s \in Symbols : s = SymbolOfOrder(o)
  BY OrderIdFacts
<1>2. TradesOf(o)' = {i \in 1..Len(trades'[s]) : trades'[s][i] = o}
  BY <1>1 DEF TradesOf, SymbolOfOrder
<1>3. TradesOf(o) = {i \in 1..Len(trades[s]) : trades[s][i] = o}
  BY <1>1 DEF TradesOf
<1>4. Len(trades[s]) \in Nat
  BY DEF TypeInv, TypeOK, VenueTypeOK
<1>5. \A i \in 1..Len(trades[s]) : i \in 1..Len(trades'[s]) /\ trades'[s][i] = trades[s][i]
  BY <1>4, HistorySteps DEF HistoryGrows
<1> QED
  BY <1>2, <1>3, <1>5

LEMMA FillsStep ==
    ASSUME TypeInv, HistoryOK, FillsOK, Next
    PROVE  FillsOK'
<1>1. ASSUME NEW f \in fills
      PROVE  f.order \in OrderIds
  BY DEF TypeInv, TypeOK, LedgerTypeOK, FillRow
<1>2. ASSUME NEW f \in fills
      PROVE  \E i \in TradesOf(f.order)' : f.id = TradeId(SymbolOfOrder(f.order), i)
  BY <1>1, TradesStay DEF FillsOK
<1>3. CASE fills' = fills
  BY <1>2, <1>3 DEF FillsOK, TradeId, SymbolOfOrder, TradesOf
<1>4. CASE RecordFill
  <2>1. PICK s \in Symbols : s = ing.sym
    BY <1>4 DEF RecordFill, TypeInv, TypeOK, TickTypeOK
  <2>2. PICK i \in ing.batch :
          fills' = fills \/ fills' = fills \cup {[id |-> TradeId(s, i), order |-> trades[s][i]]}
    BY <1>4, <2>1 DEF RecordFill
  <2>3. i \in 1..Len(trades[s])
    BY <2>1, <2>2 DEF TypeInv, BatchOK
  <2>4. PICK o \in OrderIds : o = trades[s][i] /\ SymbolOfOrder(o) = s
    BY <2>3 DEF HistoryOK
  <2>5. i \in TradesOf(o)'
    BY <2>3, <2>4, TradesStay DEF TradesOf
  <2>6. ASSUME NEW f, f = [id |-> TradeId(s, i), order |-> o]
        PROVE  \E j \in TradesOf(f.order)' : f.id = TradeId(SymbolOfOrder(f.order), j)
    <3>1. f.order = o /\ f.id = TradeId(s, i)
      BY <2>6
    <3> QED
      BY <2>4, <2>5, <3>1 DEF TradesOf, SymbolOfOrder
  <2>7. ASSUME NEW f \in fills'
        PROVE  \E j \in TradesOf(f.order)' : f.id = TradeId(SymbolOfOrder(f.order), j)
    BY <1>2, <2>2, <2>4, <2>6, <2>7
  <2> QED
    BY <2>7 DEF FillsOK, TradeId, SymbolOfOrder, TradesOf
<1> QED
  BY <1>3, <1>4, IngestMoves DEF KeepsBatch, IngestFetch, ledgerVars

\* The ledger never counts more lots than the order executed.
LEMMA FilledAtMostDone ==
    ASSUME TypeInv, CountOK, FillsOK, NEW o \in OrderIds
    PROVE  FilledQuantity(o) \in Nat /\ FilledQuantity(o) <= venue[o].done
<1> DEFINE mine == {f \in fills : f.order = o}
           index == [f \in mine |-> f.id - FirstTradeId[SymbolOfOrder(o)]]
<1>1. IsFiniteSet(TradesOf(o)) /\ Cardinality(TradesOf(o)) = venue[o].done
      /\ Cardinality(TradesOf(o)) \in Nat
  BY TradesOfFinite DEF CountOK, TypeInv, TypeOK
<1>2. FirstTradeId[SymbolOfOrder(o)] \in Nat
  BY OrderIdFacts, LedgerAssumption
<1>3. ASSUME NEW f \in mine
      PROVE  f \in FillRow /\ f.order = o /\ f.id \in Nat /\ index[f] \in TradesOf(o)
  <2>1. f \in FillRow /\ f.order = o /\ f.id \in Nat
    BY DEF TypeInv, TypeOK, LedgerTypeOK, FillRow
  <2>2. PICK i \in TradesOf(o) : f.id = TradeId(SymbolOfOrder(o), i)
    BY <2>1 DEF FillsOK
  <2>3. i \in Nat
    BY DEF TradesOf
  <2>4. index[f] = i
    BY <1>2, <2>2, <2>3 DEF TradeId
  <2> QED
    BY <2>1, <2>4
<1>4. ASSUME NEW f \in mine, NEW g \in mine, index[f] = index[g]
      PROVE  f = g
  <2>1. f.id = g.id
    BY <1>2, <1>3, <1>4
  <2>2. f = [id |-> f.id, order |-> f.order] /\ g = [id |-> g.id, order |-> g.order]
    BY <1>3 DEF FillRow
  <2>3. f.order = g.order
    BY <1>3
  <2> QED
    BY <2>1, <2>2, <2>3
<1>5. index \in Injection(mine, TradesOf(o))
  BY <1>3, <1>4 DEF Injection, IsInjective
<1>6. FilledQuantity(o) = Cardinality(mine)
  BY DEF FilledQuantity
<1> HIDE DEF mine, index
<1>7. IsFiniteSet(mine) /\ Cardinality(mine) <= Cardinality(TradesOf(o))
  BY <1>1, <1>5, FS_Injection
<1>8. Cardinality(mine) \in Nat
  BY <1>7, FS_CardinalityType
<1> QED
  BY <1>1, <1>6, <1>7, <1>8

-----------------------------------------------------------------------------
(* Where the process is in a bracket, and what the exchange and the ledger *)
(* hold of it there.                                                       *)

FreshPcs == {"entry_ack", "open", "exits"}
SentPcs == FreshPcs \cup {"oco_post"}
SoldPcs == {"rev_ack", "rev_close"}

Reversal(d) == ClientOrderId(d, "REVERSAL")

LegsAfterEntry == \A d \in Decisions : \A leg \in ExitLegs(d) : Known(leg) => Known(Entry(d))
EntrySent == pc \in SentPcs => Known(Entry(cur))
LegsUnsent == pc \in FreshPcs => \A leg \in ExitLegs(cur) : ~Known(leg)
OpenedFor == pc \in OpenPcs => position[cur].qty = executed
SoldFor == pc \in SoldPcs => venue[Reversal(cur)].done >= executed
OpenHasLots == \A d \in Decisions : position[d].state = "open" => position[d].qty > 0

BracketOK == LegsAfterEntry /\ EntrySent /\ LegsUnsent /\ OpenedFor /\ SoldFor /\ OpenHasLots

\* A stage of a bracket is reached from the stage before it, for the same decision.
StageMove ==
    /\ pc' \in FreshPcs => (pc \in FreshPcs /\ cur' = cur) \/ EntryAccepted
    /\ pc' \in SentPcs => (pc \in SentPcs /\ cur' = cur) \/ EntryAccepted
    /\ pc' \in OpenPcs => (pc \in OpenPcs /\ cur' = cur /\ executed' = executed) \/ OpenThePosition
    /\ pc' \in SoldPcs => (pc \in SoldPcs /\ cur' = cur /\ executed' = executed) \/ ReversalAccepted

LEMMA ForgetMoves ==
    ASSUME NEW where \in {"down", "idle"}, Forget(where)
    PROVE  StageMove
BY DEF Forget, StageMove, FreshPcs, SentPcs, OpenPcs, FilledPcs, SoldPcs

LEMMA StageMoves ==
    ASSUME Next
    PROVE  StageMove
<1> USE DEF StageMove, FreshPcs, SentPcs, OpenPcs, FilledPcs, SoldPcs, callVars, EndTick, Abort,
            Goto, NextEntry, GoReverse, NoAnswer, RaiseUnprotected, ReversalGivesUpOrRetries
<1>1. CASE Start
  BY <1>1, ForgetMoves DEF Start
<1>2. CASE BeginTick
  BY <1>2, ForgetMoves DEF BeginTick
<1>3. CASE IngestFetch
  BY <1>3, ForgetMoves DEF IngestFetch
<1>4. CASE IngestFails
  BY <1>4, ForgetMoves DEF IngestFails
<1>5. CASE IngestDone
  BY <1>5, ForgetMoves DEF IngestDone
<1>6. CASE RecordFill
  BY <1>6, ForgetMoves DEF RecordFill
<1>7. CASE RecordDone
  BY <1>7, ForgetMoves DEF RecordDone
<1>8. CASE CloseIfExitFilled
  BY <1>8, ForgetMoves DEF CloseIfExitFilled
<1>9. CASE ReadAccount
  BY <1>9, ForgetMoves DEF ReadAccount
<1>10. CASE FetchOpenOrders
  BY <1>10, ForgetMoves DEF FetchOpenOrders
<1>11. CASE FetchFails
  BY <1>11, ForgetMoves DEF FetchFails
<1>12. CASE Reconcile
  BY <1>12, ForgetMoves DEF Reconcile
<1>13. CASE ReconcileArms
  BY <1>13, ForgetMoves DEF ReconcileArms
<1>14. CASE Gate
  BY <1>14, ForgetMoves DEF Gate
<1>15. CASE DeclineEntry
  BY <1>15, ForgetMoves DEF DeclineEntry
<1>16. CASE StaleData
  BY <1>16, ForgetMoves DEF StaleData
<1>17. CASE TickDone
  BY <1>17, ForgetMoves DEF TickDone
<1>18. CASE RecordEntry
  BY <1>18, ForgetMoves DEF RecordEntry
<1>19. CASE CheckCanEnter
  BY <1>19, ForgetMoves DEF CheckCanEnter
<1>20. CASE EntryAccepted
  BY <1>20, ForgetMoves DEF EntryAccepted
<1>21. CASE EntryRefused
  BY <1>21, ForgetMoves DEF EntryRefused
<1>22. CASE EntryUnanswered
  BY <1>22, ForgetMoves DEF EntryUnanswered
<1>23. CASE EntryAcknowledged
  BY <1>23, ForgetMoves DEF EntryAcknowledged
<1>24. CASE OpenThePosition
  BY <1>24, ForgetMoves DEF OpenThePosition
<1>25. CASE RecordExits
  BY <1>25, ForgetMoves DEF RecordExits
<1>26. CASE OcoAccepted
  BY <1>26, ForgetMoves DEF OcoAccepted
<1>27. CASE OcoRefused
  BY <1>27, ForgetMoves DEF OcoRefused
<1>28. CASE OcoUnanswered
  BY <1>28, ForgetMoves DEF OcoUnanswered
<1>29. CASE OcoAcknowledged
  BY <1>29, ForgetMoves DEF OcoAcknowledged
<1>30. CASE RecordReversal
  BY <1>30, ForgetMoves DEF RecordReversal
<1>31. CASE CheckReversal
  BY <1>31, ForgetMoves DEF CheckReversal
<1>32. CASE ReversalAccepted
  BY <1>32, ForgetMoves DEF ReversalAccepted
<1>33. CASE ReversalRefused
  BY <1>33, ForgetMoves DEF ReversalRefused
<1>34. CASE ReversalUnanswered
  BY <1>34, ForgetMoves DEF ReversalUnanswered
<1>35. CASE ReversalAcknowledged
  BY <1>35, ForgetMoves DEF ReversalAcknowledged
<1>36. CASE CloseReversed
  BY <1>36, ForgetMoves DEF CloseReversed
<1>37. CASE OperatorArms
  BY <1>37, ForgetMoves DEF OperatorArms
<1>38. CASE OperatorDisarms
  BY <1>38, ForgetMoves DEF OperatorDisarms
<1>39. CASE ExitTrades
  BY <1>39, ForgetMoves DEF ExitTrades
<1>40. CASE BarCloses
  BY <1>40, ForgetMoves DEF BarCloses
<1>41. CASE Crash
  BY <1>41, ForgetMoves DEF Crash
<1> QED
  BY <1>1, <1>2, <1>3, <1>4, <1>5, <1>6, <1>7, <1>8, <1>9, <1>10, <1>11, <1>12, <1>13, <1>14,
     <1>15, <1>16, <1>17, <1>18, <1>19, <1>20, <1>21, <1>22, <1>23, <1>24, <1>25, <1>26,
     <1>27, <1>28, <1>29, <1>30, <1>31, <1>32, <1>33, <1>34, <1>35, <1>36, <1>37, <1>38,
     <1>39, <1>40, <1>41
  DEF Next, Runtime, TickStep, EntryStep, ProtectStep, ReverseStep, Environment

\* The ledger's fills, links and positions are changed by six steps only, and
\* without a crash nothing comes between a fill and the look at its position.
KeepsLedger ==
    /\ fills' = fills /\ linked' = linked /\ position' = position
    /\ pc = "close" => pc' = "close" /\ ing' = ing

LedgerActs ==
    \/ RecordFill \/ CloseIfExitFilled \/ OpenThePosition \/ RecordExits
    \/ RecordReversal \/ CloseReversed

LEMMA LedgerMoves ==
    ASSUME WholeOrders, Next
    PROVE  KeepsLedger \/ LedgerActs
<1> USE DEF KeepsLedger, WholeOrders, May, ledgerVars, tickVars
<1>1. CASE Start
  BY <1>1 DEF Start
<1>2. CASE BeginTick
  BY <1>2 DEF BeginTick
<1>3. CASE IngestFetch
  BY <1>3 DEF IngestFetch
<1>4. CASE IngestFails
  BY <1>4 DEF IngestFails
<1>5. CASE IngestDone
  BY <1>5 DEF IngestDone
<1>6. CASE RecordDone
  BY <1>6 DEF RecordDone
<1>7. CASE ReadAccount
  BY <1>7 DEF ReadAccount
<1>8. CASE FetchOpenOrders
  BY <1>8 DEF FetchOpenOrders
<1>9. CASE FetchFails
  BY <1>9 DEF FetchFails
<1>10. CASE Reconcile
  BY <1>10 DEF Reconcile
<1>11. CASE ReconcileArms
  BY <1>11 DEF ReconcileArms
<1>12. CASE Gate
  BY <1>12 DEF Gate
<1>13. CASE DeclineEntry
  BY <1>13 DEF DeclineEntry
<1>14. CASE StaleData
  BY <1>14 DEF StaleData
<1>15. CASE TickDone
  BY <1>15 DEF TickDone
<1>16. CASE RecordEntry
  BY <1>16 DEF RecordEntry
<1>17. CASE CheckCanEnter
  BY <1>17 DEF CheckCanEnter
<1>18. CASE EntryAccepted
  BY <1>18 DEF EntryAccepted
<1>19. CASE EntryRefused
  BY <1>19 DEF EntryRefused
<1>20. CASE EntryUnanswered
  BY <1>20 DEF EntryUnanswered
<1>21. CASE EntryAcknowledged
  BY <1>21 DEF EntryAcknowledged
<1>22. CASE OcoAccepted
  BY <1>22 DEF OcoAccepted
<1>23. CASE OcoRefused
  BY <1>23 DEF OcoRefused
<1>24. CASE OcoUnanswered
  BY <1>24 DEF OcoUnanswered
<1>25. CASE OcoAcknowledged
  BY <1>25 DEF OcoAcknowledged
<1>26. CASE CheckReversal
  BY <1>26 DEF CheckReversal
<1>27. CASE ReversalAccepted
  BY <1>27 DEF ReversalAccepted
<1>28. CASE ReversalRefused
  BY <1>28 DEF ReversalRefused
<1>29. CASE ReversalUnanswered
  BY <1>29 DEF ReversalUnanswered
<1>30. CASE ReversalAcknowledged
  BY <1>30 DEF ReversalAcknowledged
<1>31. CASE OperatorArms
  BY <1>31 DEF OperatorArms
<1>32. CASE OperatorDisarms
  BY <1>32 DEF OperatorDisarms
<1>33. CASE ExitTrades
  BY <1>33 DEF ExitTrades
<1>34. CASE BarCloses
  BY <1>34 DEF BarCloses
<1>35. CASE Crash
  BY <1>35 DEF Crash
<1> QED
  BY <1>1, <1>2, <1>3, <1>4, <1>5, <1>6, <1>7, <1>8, <1>9, <1>10, <1>11, <1>12, <1>13, <1>14,
     <1>15, <1>16, <1>17, <1>18, <1>19, <1>20, <1>21, <1>22, <1>23, <1>24, <1>25, <1>26,
     <1>27, <1>28, <1>29, <1>30, <1>31, <1>32, <1>33, <1>34, <1>35
  DEF LedgerActs, Next, Runtime, TickStep, EntryStep, ProtectStep, ReverseStep, Environment

\* Which orders a step can make known, and of which decision.
LEMMA NewlyKnown ==
    ASSUME TypeInv, Next, NEW o \in OrderIds, Known(o)', ~Known(o)
    PROVE  /\ pc \in BracketPcs /\ cur \in Decisions
           /\ \/ pc = "entry_post" /\ o = Entry(cur)
              \/ pc = "oco_post" /\ o \in ExitLegs(cur)
              \/ pc = "rev_post" /\ o = Reversal(cur)
<1>1. \/ pc = "entry_post" /\ o = Cur("ENTRY")
      \/ pc = "oco_post" /\ o \in ExitLegs(cur)
      \/ pc = "rev_post" /\ o = Cur("REVERSAL")
  BY VenueMoves DEF VenueSteps, VenueStep
<1>2. pc \in BracketPcs /\ cur \in Decisions
  BY <1>1 DEF BracketPcs, EntryPcs, ProtectPcs, TypeInv, TypeOK, ProcessTypeOK
<1> QED
  BY <1>1, <1>2 DEF Entry, Reversal, Cur

\* What a step may do to the positions.
Opens == /\ pc = "open" /\ position' = [position EXCEPT ![cur] = [state |-> "open", qty |-> executed]]
         /\ pc' = "exits" /\ cur' = cur /\ executed' = executed
Closes(d) == position[d].state = "open" /\ position' = [position EXCEPT ![d].state = "closed"]

LEMMA PositionMoves ==
    ASSUME WholeOrders, TypeInv, Next
    PROVE  \/ position' = position
           \/ Opens
           \/ CloseIfExitFilled /\ ExitComplete(ing.order) /\ Closes(DecisionOf(ing.order))
                                /\ DecisionOf(ing.order) \in Decisions
           \/ CloseReversed /\ Closes(cur) /\ cur \in Decisions
<1>1. CASE KeepsLedger
  BY <1>1 DEF KeepsLedger
<1>2. CASE RecordFill \/ RecordExits \/ RecordReversal
  BY <1>2 DEF RecordFill, RecordExits, RecordReversal
<1>3. CASE OpenThePosition
  BY <1>3 DEF OpenThePosition, Opens, OpenPosition, Goto, callVars
<1>4. CASE CloseIfExitFilled
  <2>1. ing.order \in OrderIds
    BY <1>4 DEF CloseIfExitFilled, TypeInv, TypeOK, TickTypeOK
  <2> QED
    BY <1>4, <2>1, OrderIdFacts DEF CloseIfExitFilled, Closes, ClosePosition, DecisionOf
<1>5. CASE CloseReversed
  BY <1>5 DEF CloseReversed, Closes, ClosePosition, TypeInv, TypeOK, ProcessTypeOK,
              BracketPcs, ProtectPcs
<1> QED
  BY <1>1, <1>2, <1>3, <1>4, <1>5, LedgerMoves DEF LedgerActs

LEMMA CloseFacts ==
    ASSUME TypeInv, NEW d \in Decisions, Closes(d)
    PROVE  /\ position'[d].state = "closed" /\ position'[d].qty = position[d].qty
           /\ \A e \in Decisions : e # d => position'[e] = position[e]
BY DEF Closes, TypeInv, TypeOK, LedgerTypeOK, PositionRow

LEMMA OpenFacts ==
    ASSUME TypeInv, Opens
    PROVE  /\ cur \in Decisions
           /\ position'[cur].state = "open" /\ position'[cur].qty = executed
           /\ \A e \in Decisions : e # cur => position'[e] = position[e]
           /\ executed > 0
<1>1. cur \in Decisions /\ executed > 0
  BY DEF Opens, TypeInv, TypeOK, ProcessTypeOK, StageOK, FilledPcs, BracketPcs, ProtectPcs
<1> QED
  BY <1>1 DEF Opens, TypeInv, TypeOK, LedgerTypeOK

LEMMA BracketStep ==
    ASSUME WholeOrders, TypeInv, HistoryOK, CountOK, BracketOK, Next
    PROVE  BracketOK'
<1> USE DEF BracketOK
<1>1. StageMove
  BY StageMoves
<1>2. pc \in SentPcs \cup OpenPcs \cup SoldPcs \cup {"entry_post"} => cur \in Decisions
  BY DEF TypeInv, TypeOK, ProcessTypeOK, SentPcs, FreshPcs, OpenPcs, FilledPcs, SoldPcs,
         BracketPcs, EntryPcs, ProtectPcs
<1>3. \A o \in OrderIds : Known(o) => Known(o)'
  BY VenueGrows
<1>4. LegsAfterEntry'
  <2>1. ASSUME NEW d \in Decisions, NEW leg \in ExitLegs(d), Known(leg)'
        PROVE  Known(Entry(d))'
    <3>1. leg \in OrderIds /\ Entry(d) \in OrderIds
      BY IdFacts
    <3>2. CASE Known(leg)
      BY <1>3, <3>1, <3>2 DEF LegsAfterEntry
    <3>3. CASE ~Known(leg)
      <4>1. pc = "oco_post" /\ d = cur
        BY <2>1, <3>1, <3>3, NewlyKnown, IdFacts DEF Reversal
      <4> QED
        BY <1>3, <3>1, <4>1 DEF EntrySent, SentPcs
    <3> QED
      BY <3>2, <3>3
  <2> QED
    BY <2>1 DEF LegsAfterEntry, ExitLegs, Entry, ClientOrderId
<1>5. ASSUME EntryAccepted, pc' \in SentPcs
      PROVE  cur' = cur /\ pc = "entry_post" /\ Known(Entry(cur))' /\ ~Known(Entry(cur))
  <2>1. pc = "entry_post" /\ cur \in Decisions /\ cur' = cur
    BY <1>2, <1>5 DEF EntryAccepted, NoAnswer, NextEntry, EndTick, Forget, Goto, SentPcs, FreshPcs
  <2>2. PICK o \in OrderIds : o = Entry(cur)
    BY <2>1, IdFacts
  <2>3. Known(o)'
    BY <1>5, <2>2, AcceptFacts DEF VenueStep, Cur, Entry
  <2>4. ~Known(o)
    BY <1>5, <2>2 DEF EntryAccepted, ExecuteEntry, Entry
  <2> QED
    BY <2>1, <2>2, <2>3, <2>4 DEF Known, Entry
<1>6. EntrySent'
  <2>1. ASSUME pc' \in SentPcs, pc \in SentPcs, cur' = cur
        PROVE  Known(Entry(cur))'
    <3>1. PICK o \in OrderIds : o = Entry(cur)
      BY <1>2, <2>1, IdFacts
    <3>2. Known(o)'
      BY <1>3, <2>1, <3>1 DEF EntrySent
    <3> QED
      BY <2>1, <3>1, <3>2 DEF Known, Entry
  <2> QED
    BY <1>1, <1>5, <2>1 DEF StageMove, EntrySent
<1>7. LegsUnsent'
  <2>1. ASSUME pc' \in FreshPcs, NEW d \in Decisions, d = cur, cur' = cur, NEW leg \in ExitLegs(d)
        PROVE  ~Known(leg)'
    <3>1. leg \in OrderIds
      BY IdFacts
    <3>2. ~Known(leg) /\ pc # "oco_post"
      <4>1. CASE pc \in FreshPcs
        BY <2>1, <4>1 DEF LegsUnsent, FreshPcs
      <4>2. CASE EntryAccepted
        BY <1>5, <2>1, <4>2 DEF LegsAfterEntry, SentPcs
      <4> QED
        BY <1>1, <2>1, <4>1, <4>2 DEF StageMove
    <3> QED
      BY <2>1, <3>1, <3>2, NewlyKnown, IdFacts DEF Reversal
  <2>2. pc' \in FreshPcs => cur' = cur /\ cur \in Decisions
    BY <1>1, <1>2, <1>5 DEF StageMove, SentPcs
  <2> QED
    BY <2>1, <2>2 DEF LegsUnsent, ExitLegs, ClientOrderId
<1>8. OpenedFor'
  <2>1. CASE Opens
    BY <2>1, OpenFacts DEF Opens, OpenedFor
  <2>2. CASE \E d \in Decisions : Closes(d)
    <3>1. PICK d \in Decisions : Closes(d)
      BY <2>2
    <3>2. \A e \in Decisions : position'[e].qty = position[e].qty
      BY <3>1, CloseFacts
    <3>3. ~OpenThePosition
      <4>1. position[d].state = "open" /\ position'[d].state = "closed"
        BY <3>1, CloseFacts DEF Closes
      <4>2. OpenThePosition => Opens
        BY DEF OpenThePosition, Opens, OpenPosition, Goto, callVars
      <4>3. Opens => position'[d].state = "open"
        BY <4>1, OpenFacts
      <4> QED
        BY <4>1, <4>2, <4>3
    <3> QED
      BY <1>1, <1>2, <3>2, <3>3 DEF StageMove, OpenedFor
  <2>3. CASE position' = position
    <3>1. OpenThePosition => Opens
      BY DEF OpenThePosition, Opens, OpenPosition, Goto, callVars
    <3> QED
      BY <1>1, <2>1, <2>3, <3>1 DEF StageMove, OpenedFor
  <2> QED
    BY <2>1, <2>2, <2>3, PositionMoves
<1>9. SoldFor'
  <2>1. ASSUME pc' \in SoldPcs, pc \in SoldPcs, cur' = cur, executed' = executed
        PROVE  venue'[Reversal(cur)].done >= executed
    <3>1. Reversal(cur) \in OrderIds /\ venue[Reversal(cur)].done \in Nat /\ executed \in Nat
      BY <1>2, <2>1, IdFacts, DoneTypes, VenueAssumption
      DEF Reversal, TypeInv, TypeOK, ProcessTypeOK
    <3>2. venue'[Reversal(cur)].done >= venue[Reversal(cur)].done
      BY <3>1, CountStep
    <3>3. venue'[Reversal(cur)].done \in Nat
      <4>1. VenueTypeOK'
        BY VenueGrows DEF VenueOK
      <4> QED
        BY <3>1, <4>1, VenueAssumption DEF VenueTypeOK, VenueOrder
    <3> QED
      BY <2>1, <3>1, <3>2, <3>3 DEF SoldFor
  <2>2. ASSUME pc' \in SoldPcs, ReversalAccepted
        PROVE  cur' = cur /\ executed' = executed /\ venue'[Reversal(cur)].done >= executed
    <3>1. cur \in Decisions /\ executed \in Nat
      BY <2>2, VenueAssumption
      DEF ReversalAccepted, TypeInv, TypeOK, ProcessTypeOK, BracketPcs, ProtectPcs
    <3>2. cur' = cur /\ executed' = executed
      BY <2>2 DEF ReversalAccepted, ReversalGivesUpOrRetries, RaiseUnprotected, EndTick, Forget,
                  Goto, SoldPcs
    <3>3. ExecuteReversal(cur, executed, executed)
      BY <2>2 DEF ReversalAccepted, Executable, May, WholeOrders
    <3>4. venue'[Reversal(cur)] = MarketOrder(executed, executed)
      BY <3>1, <3>3, IdFacts DEF ExecuteReversal, Reversal, TypeInv, TypeOK, VenueTypeOK
    <3> QED
      BY <3>1, <3>2, <3>4 DEF MarketOrder
  <2> QED
    BY <1>1, <2>1, <2>2 DEF StageMove, SoldFor, Reversal
<1>10. OpenHasLots'
  <2>1. ASSUME NEW d \in Decisions, position'[d].state = "open"
        PROVE  position'[d].qty > 0
    <3>1. CASE position' = position
      BY <2>1, <3>1 DEF OpenHasLots
    <3>2. CASE Opens
      BY <2>1, <3>2, OpenFacts DEF OpenHasLots
    <3>3. CASE \E e \in Decisions : Closes(e)
      BY <2>1, <3>3, CloseFacts DEF OpenHasLots
    <3> QED
      BY <3>1, <3>2, <3>3, PositionMoves
  <2> QED
    BY <2>1 DEF OpenHasLots
<1> QED
  BY <1>4, <1>6, <1>7, <1>8, <1>9, <1>10

-----------------------------------------------------------------------------
(* Closed exactly when sold.                                               *)

LEMMA SoldFacts ==
    ASSUME VenueTypeOK, NEW d \in Decisions
    PROVE  /\ Sold(d) \in Nat /\ Sold(d) >= venue[Reversal(d)].done
           /\ \A leg \in ExitLegs(d) : Sold(d) >= venue[leg].done
<1>1. /\ venue[Reversal(d)].done \in Nat
      /\ venue[ClientOrderId(d, "STOP")].done \in Nat
      /\ venue[ClientOrderId(d, "TARGET")].done \in Nat
  BY DoneTypes, IdFacts DEF ExitLegs, Reversal
<1> QED
  BY <1>1 DEF Sold, Executed, Reversal, ExitLegs

LEMMA SoldGrows ==
    ASSUME TypeInv, HistoryOK, CountOK, Next, NEW d \in Decisions
    PROVE  Sold(d)' >= Sold(d) /\ Sold(d)' \in Nat
<1>1. VenueTypeOK /\ VenueTypeOK'
  BY VenueGrows DEF TypeInv, TypeOK, VenueOK
<1>2. \A o \in OrderIds : venue'[o].done \in Nat /\ venue[o].done \in Nat
                          /\ venue'[o].done >= venue[o].done
  BY <1>1, CountStep, VenueAssumption DEF VenueTypeOK, VenueOrder
<1>3. /\ Reversal(d) \in OrderIds
      /\ ClientOrderId(d, "STOP") \in OrderIds /\ ClientOrderId(d, "TARGET") \in OrderIds
  BY IdFacts DEF ExitLegs, Reversal
<1> QED
  BY <1>2, <1>3 DEF Sold, Executed, Reversal

\* A position is closed after its exit filled in full, or after the reversal
\* that sold as much as the position has.
LEMMA ClosedStep ==
    ASSUME WholeOrders, TypeInv, HistoryOK, CountOK, FillsOK, BracketOK, ClosedMeansSold, Next
    PROVE  ClosedMeansSold'
<1>1. VenueTypeOK
  BY DEF TypeInv, TypeOK
<1>2. ASSUME NEW d \in Decisions
      PROVE  Sold(d)' >= Sold(d) /\ Sold(d)' \in Nat /\ Sold(d) \in Nat /\ position[d].qty \in Nat
  BY <1>1, SoldGrows, SoldFacts, VenueAssumption DEF TypeInv, TypeOK, LedgerTypeOK, PositionRow
<1>3. ASSUME NEW d \in Decisions, Closes(d), Sold(d) >= position[d].qty
      PROVE  ClosedMeansSold'
  <2>1. /\ position'[d].qty = position[d].qty
        /\ \A e \in Decisions : e # d => position'[e] = position[e]
    BY <1>3, CloseFacts
  <2>2. ASSUME NEW e \in Decisions, position'[e].state = "closed"
        PROVE  Sold(e)' >= position'[e].qty
    BY <1>2, <1>3, <2>1, <2>2 DEF ClosedMeansSold
  <2> QED
    BY <2>2 DEF ClosedMeansSold
<1>4. CASE position' = position
  BY <1>2, <1>4 DEF ClosedMeansSold
<1>5. CASE Opens
  <2>1. ASSUME NEW e \in Decisions, position'[e].state = "closed"
        PROVE  Sold(e)' >= position'[e].qty
    BY <1>2, <1>5, <2>1, OpenFacts DEF ClosedMeansSold
  <2> QED
    BY <2>1 DEF ClosedMeansSold
<1>6. CASE /\ CloseIfExitFilled /\ ExitComplete(ing.order) /\ Closes(DecisionOf(ing.order))
           /\ DecisionOf(ing.order) \in Decisions
  <2>1. PICK o \in OrderIds : o = ing.order
    BY <1>6 DEF CloseIfExitFilled, TypeInv, TypeOK, TickTypeOK
  <2>2. PICK d \in Decisions : d = DecisionOf(o)
    BY <1>6, <2>1
  <2>3. o \in ExitLegs(d) /\ FilledQuantity(o) >= position[d].qty
    BY <1>6, <2>1, <2>2
    DEF ExitComplete, ClosesPosition, ExitLegs, ClientOrderId, DecisionOf, RoleOf, OrderIds
  <2>4. FilledQuantity(o) \in Nat /\ FilledQuantity(o) <= venue[o].done
    BY <2>1, FilledAtMostDone
  <2>5. Sold(d) >= venue[o].done /\ venue[o].done \in Nat
    BY <1>1, <2>1, <2>3, SoldFacts, DoneTypes
  <2>6. Sold(d) >= position[d].qty
    BY <1>2, <2>3, <2>4, <2>5
  <2> QED
    BY <1>3, <1>6, <2>1, <2>2, <2>6
<1>7. CASE CloseReversed /\ Closes(cur) /\ cur \in Decisions
  <2>1. PICK d \in Decisions : d = cur
    BY <1>7
  <2>2. position[d].qty = executed /\ venue[Reversal(d)].done >= executed
    BY <1>7, <2>1
    DEF CloseReversed, BracketOK, OpenedFor, SoldFor, OpenPcs, FilledPcs, SoldPcs
  <2>3. Sold(d) >= venue[Reversal(d)].done /\ venue[Reversal(d)].done \in Nat
    BY <1>1, SoldFacts, DoneTypes, IdFacts DEF Reversal
  <2>4. Sold(d) >= position[d].qty
    BY <1>2, <2>2, <2>3
  <2> QED
    BY <1>3, <1>7, <2>1, <2>4
<1> QED
  BY <1>4, <1>5, <1>6, <1>7, PositionMoves

\* No leg of a bracket that has not been sent has a fill.
LEMMA NothingFilled ==
    ASSUME TypeInv, HistoryOK, CountOK, FillsOK, BracketOK, pc \in {"open", "exits"},
           NEW leg \in ExitLegs(cur)
    PROVE  FilledQuantity(leg) = 0 /\ cur \in Decisions
<1>1. cur \in Decisions
  BY DEF TypeInv, TypeOK, ProcessTypeOK, BracketPcs, ProtectPcs
<1>2. leg \in OrderIds /\ ~Known(leg)
  BY <1>1, IdFacts DEF BracketOK, LegsUnsent, FreshPcs
<1>3. venue[leg].done = 0
  BY <1>2, UnknownHasNone
<1> QED
  BY <1>1, <1>2, <1>3, FilledAtMostDone

\* Only a recorded fill completes an exit, and the look at its position comes next.
LEMMA CompleteStep ==
    ASSUME WholeOrders, TypeInv, HistoryOK, CountOK, FillsOK, BracketOK,
           ExitRecordedMeansClosed, Next
    PROVE  ExitRecordedMeansClosed'
<1> DEFINE Complete(o) ==
        /\ RoleOf(o) \in {"STOP", "TARGET"} /\ o \in linked
        /\ position[DecisionOf(o)].state = "open"
        /\ FilledQuantity(o) >= position[DecisionOf(o)].qty
<1>1. \A d \in Decisions : \A o \in ExitLegs(d) :
         o \in OrderIds /\ DecisionOf(o) = d /\ RoleOf(o) \in {"STOP", "TARGET"}
  <2>1. \A d \in Decisions : ExitLegs(d) \subseteq OrderIds
    BY IdFacts
  <2>2. \A d \in Decisions : \A o \in ExitLegs(d) :
           DecisionOf(o) = d /\ RoleOf(o) \in {"STOP", "TARGET"}
    BY DEF ExitLegs, ClientOrderId, DecisionOf, RoleOf
  <2> QED
    BY <2>1, <2>2
<1>2. \A o : ExitComplete(o) <=> Complete(o)
  BY DEF ExitComplete, ClosesPosition
<1>3. ASSUME NEW d \in Decisions, NEW o \in ExitLegs(d), Complete(o)
      PROVE  pc = "close" /\ ing.order = o
  BY <1>2, <1>3 DEF ExitRecordedMeansClosed
<1>4. SUFFICES ASSUME NEW d \in Decisions, NEW o \in ExitLegs(d), ExitComplete(o)'
               PROVE  pc' = "close" /\ ing'.order = o
  BY DEF ExitRecordedMeansClosed, ExitLegs, ClientOrderId
<1>5. o \in OrderIds /\ DecisionOf(o) = d
  BY <1>1
<1>6. o \in linked' /\ position'[d].state = "open" /\ FilledQuantity(o)' >= position'[d].qty
      /\ RoleOf(o) \in {"STOP", "TARGET"}
  BY <1>4, <1>5 DEF ExitComplete, ClosesPosition, RoleOf, DecisionOf
<1>7. ASSUME fills' = fills
      PROVE  FilledQuantity(o)' = FilledQuantity(o)
  BY <1>7 DEF FilledQuantity
<1>8. ASSUME pc # "close", o \in linked, fills' = fills, position'[d] = position[d]
      PROVE  FALSE
  BY <1>3, <1>5, <1>6, <1>7, <1>8
<1>9. CASE KeepsLedger
  BY <1>3, <1>5, <1>6, <1>7, <1>9 DEF KeepsLedger
<1>10. CASE RecordFill
  <2>1. PICK s \in Symbols : s = ing.sym
    BY <1>10 DEF RecordFill, TypeInv, TypeOK, TickTypeOK
  <2>2. pc = "record" /\ position' = position /\ linked' = linked
    BY <1>10 DEF RecordFill
  <2>3. PICK i \in ing.batch :
          \/ fills' = fills
          \/ /\ fills' = fills \cup {[id |-> TradeId(s, i), order |-> trades[s][i]]}
             /\ pc' = "close" /\ ing'.order = trades[s][i]
    BY <1>10, <2>1 DEF RecordFill, Goto
  <2>4. CASE fills' = fills
    BY <1>8, <1>6, <2>2, <2>4
  <2>5. CASE /\ fills' = fills \cup {[id |-> TradeId(s, i), order |-> trades[s][i]]}
             /\ trades[s][i] # o
    <3>1. {f \in fills' : f.order = o} = {f \in fills : f.order = o}
      BY <2>5
    <3>2. FilledQuantity(o)' = FilledQuantity(o)
      BY <3>1 DEF FilledQuantity
    <3> QED
      BY <1>3, <1>5, <1>6, <2>2, <3>2
  <2> QED
    BY <2>3, <2>4, <2>5
<1>11. CASE CloseIfExitFilled
  <2>1. pc = "close" /\ fills' = fills /\ linked' = linked
    BY <1>11 DEF CloseIfExitFilled
  <2>2. CASE ExitComplete(ing.order)
    <3>1. PICK e \in Decisions : e = DecisionOf(ing.order) /\ Closes(e)
      <4>1. ing.order \in OrderIds
        BY <2>1 DEF TypeInv, TypeOK, TickTypeOK
      <4> QED
        BY <1>11, <2>2, <4>1, OrderIdFacts DEF CloseIfExitFilled, Closes, ClosePosition, DecisionOf
    <3>2. e # d
      BY <1>6, <3>1, CloseFacts
    <3>3. position'[d] = position[d]
      BY <3>1, <3>2, CloseFacts
    <3>4. Complete(o)
      BY <1>5, <1>6, <1>7, <2>1, <3>3
    <3> QED
      BY <1>3, <1>5, <3>1, <3>2, <3>4
  <2>3. CASE ~ExitComplete(ing.order)
    <3>1. position' = position
      BY <1>11, <2>3 DEF CloseIfExitFilled
    <3>2. Complete(o)
      BY <1>5, <1>6, <1>7, <2>1, <3>1
    <3> QED
      BY <1>2, <1>3, <2>3, <3>2
  <2> QED
    BY <2>2, <2>3
<1>12. CASE OpenThePosition
  <2>1. pc = "open" /\ fills' = fills /\ linked' = linked \cup {Entry(cur)} /\ Opens
    BY <1>12 DEF OpenThePosition, Opens, OpenPosition, Goto, callVars, Cur, Entry
  <2>2. o \in linked
    <3>1. cur \in Decisions
      BY <2>1, OpenFacts
    <3>2. o # Entry(cur)
      BY <3>1, IdFacts, <1>6 DEF Entry, ClientOrderId, RoleOf
    <3> QED
      BY <1>6, <2>1, <3>2
  <2>3. CASE d = cur
    <3>1. FilledQuantity(o) = 0
      BY <2>1, <2>3, NothingFilled
    <3>2. position'[d].qty > 0 /\ position'[d].qty \in Nat
      BY <2>1, <2>3, OpenFacts, VenueAssumption DEF TypeInv, TypeOK, ProcessTypeOK
    <3> QED
      BY <1>6, <1>7, <2>1, <3>1, <3>2
  <2>4. CASE d # cur
    BY <1>8, <2>1, <2>2, <2>4, OpenFacts
  <2> QED
    BY <2>3, <2>4
<1>13. CASE RecordExits
  <2>1. /\ pc = "exits" /\ fills' = fills /\ position' = position
        /\ linked' = linked \cup ExitLegs(cur)
    BY <1>13 DEF RecordExits
  <2>2. CASE o \in ExitLegs(cur)
    <3>1. FilledQuantity(o) = 0
      BY <2>1, <2>2, NothingFilled
    <3>2. position[d].qty > 0 /\ position[d].qty \in Nat
      BY <1>6, <2>1, VenueAssumption
      DEF BracketOK, OpenHasLots, TypeInv, TypeOK, LedgerTypeOK, PositionRow
    <3> QED
      BY <1>6, <1>7, <2>1, <3>1, <3>2
  <2>3. CASE o \notin ExitLegs(cur)
    BY <1>6, <1>8, <2>1, <2>3
  <2> QED
    BY <2>2, <2>3
<1>14. CASE RecordReversal
  <2>1. /\ pc = "rev_record" /\ fills' = fills /\ position' = position
        /\ linked' = linked \cup {Reversal(cur)}
    BY <1>14 DEF RecordReversal, Cur, Reversal
  <2>2. o # Reversal(cur)
    BY <1>6 DEF Reversal, ClientOrderId, RoleOf
  <2> QED
    BY <1>6, <1>8, <2>1, <2>2
<1>15. CASE CloseReversed
  <2>1. /\ pc = "rev_close" /\ fills' = fills /\ linked' = linked
        /\ cur \in Decisions /\ Closes(cur)
    BY <1>15 DEF CloseReversed, Closes, ClosePosition, TypeInv, TypeOK, ProcessTypeOK,
                 BracketPcs, ProtectPcs
  <2>2. d # cur
    BY <1>6, <2>1, CloseFacts
  <2>3. position'[d] = position[d]
    BY <2>1, <2>2, CloseFacts
  <2> QED
    BY <1>6, <1>8, <2>1, <2>3
<1> QED
  BY <1>9, <1>10, <1>11, <1>12, <1>13, <1>14, <1>15, LedgerMoves DEF LedgerActs

CloseInv ==
    /\ HistoryOK /\ CountOK /\ FillsOK /\ BracketOK
    /\ ClosedMeansSold /\ ExitRecordedMeansClosed

LEMMA CloseInit ==
    ASSUME Init
    PROVE  CloseInv
<1>1. HistoryOK
  BY IngestInit DEF IngestInv
<1>2. ASSUME NEW o \in OrderIds
      PROVE  Cardinality(TradesOf(o)) = venue[o].done
  <2>1. trades[SymbolOfOrder(o)] = << >>
    BY OrderIdFacts DEF Init, VenueInit
  <2>2. TradesOf(o) = {}
    BY <2>1 DEF TradesOf
  <2>3. venue[o].done = 0
    BY DEF Init, VenueInit, Absent
  <2> QED
    BY <2>2, <2>3, FS_EmptySet
<1>3. FillsOK /\ ExitRecordedMeansClosed
  BY DEF Init, LedgerInit, FillsOK, ExitRecordedMeansClosed, ExitComplete, ClosesPosition
<1>4. \A d \in Decisions : position[d].state = "none"
  BY DEF Init, LedgerInit, NoPosition
<1>5. \A o \in OrderIds : ~Known(o)
  BY DEF Init, VenueInit, Absent, Known
<1>6. BracketOK
  BY <1>4, <1>5, IdFacts
  DEF Init, BracketOK, LegsAfterEntry, EntrySent, LegsUnsent, OpenedFor, SoldFor, OpenHasLots,
      SentPcs, FreshPcs, OpenPcs, FilledPcs, SoldPcs
<1>7. ClosedMeansSold
  BY <1>4 DEF ClosedMeansSold
<1> QED
  BY <1>1, <1>2, <1>3, <1>6, <1>7 DEF CloseInv, CountOK

LEMMA CloseStep ==
    ASSUME WholeOrders, TypeInv, CloseInv, [Next]_vars
    PROVE  CloseInv'
<1>1. CASE Next
  BY <1>1, HistoryStep, CountStep, FillsStep, BracketStep, ClosedStep, CompleteStep DEF CloseInv
<1>2. CASE UNCHANGED vars
  <2>1. /\ venue' = venue /\ trades' = trades /\ fills' = fills /\ linked' = linked
        /\ position' = position /\ pc' = pc /\ cur' = cur /\ executed' = executed /\ ing' = ing
    BY <1>2 DEF vars, venueVars, ledgerVars, callVars, tickVars
  <2>2. HistoryOK' /\ CountOK' /\ FillsOK'
    BY <2>1 DEF CloseInv, HistoryOK, CountOK, FillsOK, TradesOf, Known
  <2>3. BracketOK'
    BY <2>1 DEF CloseInv, BracketOK, LegsAfterEntry, EntrySent, LegsUnsent, OpenedFor, SoldFor,
                OpenHasLots, Known
  <2>4. ClosedMeansSold' /\ ExitRecordedMeansClosed'
    BY <2>1 DEF CloseInv, ClosedMeansSold, Sold, Executed, ExitRecordedMeansClosed, ExitComplete,
                ClosesPosition, FilledQuantity
  <2> QED
    BY <2>2, <2>3, <2>4 DEF CloseInv
<1> QED
  BY <1>1, <1>2

\* Without a crash and without orders that execute in part, the ledger closes a
\* position exactly when its exit executed in full: whatever answers are lost or
\* garbled, however often the switch is armed, and in whatever lots the exits fill.
THEOREM ClosedExactlyWhenSoldAlways ==
    ASSUME WholeOrders
    PROVE  Spec => []ClosedExactlyWhenSold
<1>1. Init => CloseInv
  BY CloseInit
<1>2. TypeInv /\ CloseInv /\ [Next]_vars => CloseInv'
  BY CloseStep
<1>3. CloseInv => ClosedExactlyWhenSold
  BY DEF CloseInv, ClosedExactlyWhenSold
<1> QED
  BY <1>1, <1>2, <1>3, TypeInvariant, PTL DEF Spec
=============================================================================
