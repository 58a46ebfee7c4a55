----------------------------- MODULE RiskRules -----------------------------
(***************************************************************************)
(* The arithmetic of src/risk: what a position is worth, how many shares a *)
(* signal is given (position_sizing.py) and the four checks every order    *)
(* passes before it reaches the broker (guardrails.py).  All amounts are   *)
(* whole rupees; only the order of the comparisons matters to the users of *)
(* this module.                                                            *)
(***************************************************************************)
EXTENDS Integers

CONSTANTS
    MaxCapitalPerTrade,   \* risk.max_capital_per_trade
    MaxCapitalDeployed,   \* risk.max_capital_deployed
    MaxDailyLoss,         \* risk.max_daily_loss
    MaxOpenPositions,     \* risk.max_open_positions
    RiskBudget            \* capital * risk.per_trade_risk_pct

\* config/default.yaml and config/live.yaml set every limit above zero.
ASSUME LimitsAssumption ==
    /\ MaxCapitalPerTrade \in Nat
    /\ MaxCapitalDeployed \in Nat
    /\ MaxDailyLoss \in Nat \ {0}
    /\ MaxOpenPositions \in Nat \ {0}
    /\ RiskBudget \in Nat

Buy == 1
Sell == -1
Directions == {Buy, Sell}

Distance(a, b) == IF a >= b THEN a - b ELSE b - a

Smaller(a, b) == IF a <= b THEN a ELSE b

\* Shares such that the stop loses at most the risk budget; none when the
\* entry sits on the stop.
FixedPercentageSize(entry, stop) ==
    IF entry = stop THEN 0 ELSE RiskBudget \div Distance(entry, stop)

\* The approval path passes neither an ATR nor win statistics, so the sizing
\* dispatcher falls through to the fixed percentage whatever the method; the
\* per-trade cap is applied last.
CalculatePositionSize(entry, stop) ==
    IF entry > 0
        THEN Smaller(FixedPercentageSize(entry, stop), MaxCapitalPerTrade \div entry)
        ELSE FixedPercentageSize(entry, stop)

\* Faults seeded for TLC: check 2 leaves out the order itself, check 4 is off by
\* one.
ValidateOrderWithoutItself(qty, price, deployed, pnlToday, openPositions) ==
    /\ qty * price <= MaxCapitalPerTrade
    /\ deployed <= MaxCapitalDeployed
    /\ pnlToday > -MaxDailyLoss
    /\ openPositions < MaxOpenPositions

ValidateOrderOffByOne(qty, price, deployed, pnlToday, openPositions) ==
    /\ qty * price <= MaxCapitalPerTrade
    /\ deployed + qty * price <= MaxCapitalDeployed
    /\ pnlToday > -MaxDailyLoss
    /\ openPositions <= MaxOpenPositions

\* The four checks, on the price the signal expects.
ValidateOrder(qty, price, deployed, pnlToday, openPositions) ==
    /\ qty * price <= MaxCapitalPerTrade
    /\ deployed + qty * price <= MaxCapitalDeployed
    /\ pnlToday > -MaxDailyLoss
    /\ openPositions < MaxOpenPositions

\* Realised P&L of a trade in either direction.
RealizedPnl(dir, qty, entry, exit) == dir * (exit - entry) * qty

=============================================================================
