-------------------------------- MODULE Risk --------------------------------
(***************************************************************************)
(* The risk engine (risk/): pure functions over a session record, market   *)
(* health and ladder evidence.  R multiples are whole numbers of R, money  *)
(* is in units of the contract multiplier, size factors in halves.         *)
(***************************************************************************)
EXTENDS Integers, FiniteSets

CONSTANTS
  RiskPer,          \* 1 / risk_per_trade_pct
  DailyLossLimit,   \* daily_loss_limit_r
  MaxLosses,        \* max_consecutive_losses
  MaxTrades,        \* max_trades_per_day
  KillSwitchOn,     \* kill_switch_engaged, the manual override
  PanicNoTrade,     \* panic_no_trade
  HighVolHalves,    \* high_vol_size_factor, in halves
  MicroCap, ValidatedCap, ScaleCap,     \* *_max_contracts
  ValidatedMonths, ScaleMonths          \* *_min_months_live

ASSUME RiskAssumption ==
  /\ RiskPer \in Nat \ {0} /\ DailyLossLimit \in Nat \ {0}
  /\ MaxLosses \in Nat \ {0} /\ MaxTrades \in Nat \ {0}
  /\ KillSwitchOn \in BOOLEAN /\ PanicNoTrade \in BOOLEAN
  /\ HighVolHalves \in 0..2
  /\ MicroCap \in Nat /\ ValidatedCap \in Nat /\ ScaleCap \in Nat
  /\ ValidatedMonths \in Nat /\ ScaleMonths \in Nat

Regime == {"trend_up", "trend_down", "range_low_vol", "range_high_vol", "panic"}
Stage == {"paper", "micro_live", "validated", "scale"}
HealthTrigger == {"spread_anomaly", "latency_breach", "broker_disconnect", "market_halt"}
Evidence == [months : Nat, stable : BOOLEAN, drawdown : BOOLEAN]
SessionState ==
  [r : Int, losses : 0..MaxLosses, trades : 0..MaxTrades, halted : BOOLEAN]

Lesser(a, b) == IF a < b THEN a ELSE b

----------------------------------------------------------------------------
(* limits.py: the reducer of one trading day. *)

StartSession == [r |-> 0, losses |-> 0, trades |-> 0, halted |-> FALSE]

LimitReached(r, losses, trades) ==
  r <= -DailyLossLimit \/ losses >= MaxLosses \/ trades >= MaxTrades

RegisterOutcome(s, r) ==
  LET sum == s.r + r
      losses == IF r < 0 THEN s.losses + 1 ELSE 0
      trades == s.trades + 1
  IN [r |-> sum, losses |-> losses, trades |-> trades,
      halted |-> s.halted \/ LimitReached(sum, losses, trades)]

CanOpen(s) == ~s.halted /\ s.trades < MaxTrades

----------------------------------------------------------------------------
(* killswitch.py: stateless, so it clears by itself with its cause.  health *)
(* is the set of the budgets and conditions that MarketHealth breaches.     *)

KillSwitch(health, s) ==
  health \cup (IF KillSwitchOn THEN {"manual"} ELSE {})
         \cup (IF s.r <= -DailyLossLimit THEN {"daily_loss_limit"} ELSE {})

----------------------------------------------------------------------------
(* sizing.py and regime/policy.py *)

RegimeHalves(regime) ==
  CASE regime = "range_low_vol" -> 0
    [] regime = "panic" -> IF PanicNoTrade THEN 0 ELSE 1
    [] OTHER -> 2

\* The stricter of the regime's and the volatility percentile's factor.
VolatilityHalves(highVol, regime) ==
  Lesser(RegimeHalves(regime), IF highVol THEN HighVolHalves ELSE 2)

\* Whole contracts, rounded down; rounding up would breach the budget.
SizeRoundedUp(eq, dist, halves) == ((eq * halves) \div (2 * (RiskPer * dist))) + 1
PositionSize(eq, dist, halves) == (eq * halves) \div (2 * (RiskPer * dist))

----------------------------------------------------------------------------
(* ladder.py *)

\* A slip: the months alone decide.
MeetsByTime(evidence, months) == evidence.months >= months
Meets(evidence, months) ==
  evidence.months >= months /\ evidence.stable /\ evidence.drawdown

MaxContracts(stage, evidence) ==
  CASE stage = "paper" -> 0
    [] stage = "micro_live" -> MicroCap
    [] stage = "validated" ->
         IF Meets(evidence, ValidatedMonths) THEN ValidatedCap ELSE MicroCap
    [] stage = "scale" ->
         IF Meets(evidence, ScaleMonths) THEN ScaleCap
         ELSE IF Meets(evidence, ValidatedMonths) THEN ValidatedCap ELSE MicroCap

----------------------------------------------------------------------------
(* decision.py: the contracts an entry is allowed, 0 when it is not, in the *)
(* precedence kill switch, session, size, ladder.                           *)

EvaluateEntry(request, s, health, stage, evidence) ==
  IF KillSwitch(health, s) # {} \/ ~CanOpen(s)
  THEN 0
  ELSE Lesser(PositionSize(request.equity, request.dist,
                           VolatilityHalves(request.highVol, request.regime)),
              MaxContracts(stage, evidence))
=============================================================================
