------------------------------- MODULE Sizing -------------------------------
(***************************************************************************)
(* Position sizing in whole numbers.                                       *)
(*                                                                         *)
(* A quantity is a number of lot steps and a price the price of one step,  *)
(* so rounding down to the step is whole division. Percentages are whole.  *)
(* Decimal arithmetic is taken to be exact.                                *)
(***************************************************************************)
EXTENDS Integers

CONSTANTS
    RiskPct,        \* risk_pct: of equity, lost if the stop is hit
    PositionPct,    \* max_position_pct: of equity, in one position
    DeployedPct,    \* max_deployed_pct: of equity, in all positions
    MaxConcurrent,  \* max_concurrent positions
    MinQty,         \* min_qty
    MinNotional     \* min_notional

ASSUME SizingAssumption ==
    /\ RiskPct \in 1..100 /\ PositionPct \in 1..100 /\ DeployedPct \in 1..100
    /\ MaxConcurrent \in Nat \ {0} /\ MinQty \in Nat /\ MinNotional \in Nat

\* What a sizing is asked about. The multiplier is a percentage.
Requests == [equity : Int, free : Int, entry : Nat, stop : Nat, side : {"LONG", "SHORT"},
             open : Nat, deployed : Nat, multiplier : 1..100]

Gap(a, b) == IF a > b THEN a - b ELSE b - a

\* The stop is on the wrong side of the entry, or something is not positive.
InvalidLevels(r) ==
    \/ r.entry = 0 \/ r.stop = 0 \/ r.equity <= 0
    \/ r.side = "LONG" /\ r.stop >= r.entry
    \/ r.side = "SHORT" /\ r.stop <= r.entry

\* The notional bounds, each as the steps it pays for.
ByRisk(r) == (r.equity * RiskPct * r.multiplier) \div (10000 * Gap(r.entry, r.stop))
ByPosition(r) == (r.equity * PositionPct) \div (100 * r.entry)
ByCash(r) == r.free \div r.entry
NoHeadroom(r) == r.equity * DeployedPct <= 100 * r.deployed
ByHeadroom(r) == (r.equity * DeployedPct - 100 * r.deployed) \div (100 * r.entry)

Least(a, b) == IF a <= b THEN a ELSE b

\* Rounded down, never up: up increases risk.
Quantity(r) == Least(Least(ByRisk(r), ByPosition(r)), Least(ByCash(r), ByHeadroom(r)))

\* Why the request is refused, in the order the code looks, or NONE.
Reason(r) ==
    IF InvalidLevels(r) THEN "INVALID_LEVELS"
    ELSE IF r.open >= MaxConcurrent THEN "MAX_CONCURRENT"
    ELSE IF r.free <= 0 THEN "NO_FREE_CASH"
    ELSE IF NoHeadroom(r) THEN "MAX_DEPLOYED"
    ELSE IF Quantity(r) = 0 THEN "ZERO_QUANTITY"
    ELSE IF Quantity(r) < MinQty THEN "BELOW_MIN_QTY"
    ELSE IF Quantity(r) * r.entry < MinNotional THEN "BELOW_MIN_NOTIONAL"
    ELSE "NONE"

Accepted(r) == Reason(r) = "NONE"
=============================================================================
