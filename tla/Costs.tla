-------------------------------- MODULE Costs --------------------------------
(***************************************************************************)
(* backtest/costs.py: what a round trip costs.  Amounts are baht a         *)
(* contract, so a point is Multiplier baht and nothing is divided.         *)
(***************************************************************************)
EXTENDS Session

CONSTANTS
  Multiplier,                 \* S50_MULTIPLIER
  Commission, ClearingFee,    \* per contract, round trip
  SlippagePerAtr,             \* slippage_atr_mult, in baht per point of ATR
  IlliquidMult,               \* illiquid_session_mult
  Spread,                     \* spread_ticks * tick_size, in baht
  RollCommission, RollSpread, \* rollover_*, the second in points
  QuarterEnds,                \* the last dates of March, June, September, December
  MonthDays                   \* dates of a month that are looked at

ASSUME CostAssumption ==
  /\ {Multiplier, Commission, ClearingFee, SlippagePerAtr, IlliquidMult, Spread,
      RollCommission, RollSpread, MonthDays} \subseteq Nat
  /\ QuarterEnds \subseteq Int

\* The last business day of the month.
expiry_for(monthEnd) ==
  CHOOSE d \in (monthEnd - MonthDays + 1) .. monthEnd :
    is_business_day(d) /\ \A e \in (d + 1) .. monthEnd : ~is_business_day(e)

\* By the dates in Bangkok, the entry's left out.
crosses_quarterly_expiry(entryTime, exitTime) ==
  LET entryDate == DateOf(to_bkk(entryTime))
      exitDate == DateOf(to_bkk(exitTime))
  IN \E q \in QuarterEnds : entryDate < expiry_for(q) /\ expiry_for(q) <= exitDate

is_illiquid_session(t) == session_of(t) = "night" \/ is_lunch_dead_zone(t)

Slippage(atr, illiquid) == SlippagePerAtr * atr * (IF illiquid THEN IlliquidMult ELSE 1)
RolloverCost == RollCommission + RollSpread * Multiplier

\* What apply_costs takes from the gross result, however long the roll.
CostOf(trade) ==
  Slippage(trade.atr, is_illiquid_session(trade.entry_time)) + Spread
  + Commission + ClearingFee
  + IF crosses_quarterly_expiry(trade.entry_time, trade.exit_time) THEN RolloverCost ELSE 0

SignedCosts(trade) ==
  [trade EXCEPT !.pnl = IF @ >= 0 THEN @ - CostOf(trade) ELSE @ + CostOf(trade)]
apply_costs(trade) == [trade EXCEPT !.pnl = @ - CostOf(trade)]
=============================================================================
