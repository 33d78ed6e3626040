----------------------------- MODULE Evaluation -----------------------------
(***************************************************************************)
(* What a strategy is worth: scripts/run_walk_forward.py loads the models  *)
(* once; backtest/walk_forward.py then, a window at a time, detects,       *)
(* gates, simulates and costs, and reports the figures of all trades.      *)
(* backtest/per_strategy.py reports the same of the trades before costs.   *)
(*                                                                         *)
(* What is detected, and what a simulated trade comes to (TradeWalk), is   *)
(* arbitrary; every trade is taken (WalkForward is where the risk engine   *)
(* leaves some out).                                                       *)
(***************************************************************************)
EXTENDS ModelStore, MLFilter, Costs, Metrics

CONSTANTS
  Signals,      \* what may be detected: strategy_id, time
  Frames,       \* the aligned frames: sequences of rows
  Outcomes,     \* what a simulated trade may come to
  RUnit,        \* one R, in the smallest step the trades can tell apart
  MaxSignals, MaxTrades   \* bounds: signals of a window, trades of a run

ASSUME EvaluationAssumption ==
  /\ MaxSignals \in Nat /\ MaxTrades \in Nat /\ RUnit \in Nat
  /\ \A o \in Outcomes :
       /\ o \in [entry_time : Int, exit_time : Int, pnl : Int, risk : Nat, atr : Nat,
                 bars_held : Nat, regime : {o.regime}]
       /\ o.risk > 0 /\ RUnit % o.risk = 0

\* The targets of the code, frames as lists of rows, and probabilities that compare.
ASSUME FilterAssumption ==
  /\ Targets = {"trend_continuation", "fake_breakout"}
  /\ \A f \in Frames : f \in Seq({f[k] : k \in DOMAIN f})
  /\ \A t \in Targets : Threshold[t] \in Int
  /\ \A t \in Targets, m \in Save, f \in Frames : \A k \in DOMAIN f :
       Score(t, m, encode_row(f[k])) \in Int

VARIABLES
  stage,      \* loading, detecting, simulating, reported or aborted
  bundle,     \* the loaded models
  signals, frame, kept,   \* of the window: detected, aligned rows, left by the filter
  gross, net, \* the trades so far, before and after costs
  report
window == <<signals, frame, kept>>
evalVars == <<storeVars, stage, bundle, window, gross, net, report>>

EvaluationInit ==
  /\ StoreInit
  /\ stage = "loading" /\ bundle = Empty
  /\ signals = <<>> /\ frame = <<>> /\ kept = <<>> /\ gross = <<>> /\ net = <<>>
  /\ report = <<>>

StoreMoves ==
  /\ stage = "loading" /\ StoreNext
  /\ UNCHANGED <<stage, bundle, window, gross, net, report>>

\* Nothing below looks at the store again, so it is left behind as it was found.
LeavesTheStore ==
  /\ file' = NoFile /\ emptied' = {} /\ saves' = 0 /\ saving' = Rest
  /\ loader' = [l \in Loaders |-> Idle] /\ cache' = {} /\ lock' = None

\* _ml_factory: with no models, or none asked for, every signal passes.
Unfiltered ==
  /\ stage = "loading"
  /\ stage' = "detecting" /\ bundle' = Empty /\ LeavesTheStore
  /\ UNCHANGED <<window, gross, net, report>>
TakesBundle(l) ==
  /\ stage = "loading" /\ loader[l].pc = "bundle"
  /\ stage' = "detecting" /\ bundle' = loader[l].bundle /\ LeavesTheStore
  /\ UNCHANGED <<window, gross, net, report>>
LoadAborts(l) ==
  /\ stage = "loading" /\ loader[l].pc = "error"
  /\ stage' = "aborted" /\ LeavesTheStore
  /\ UNCHANGED <<bundle, window, gross, net, report>>

\* The signals of a window, and the ones the models leave.
Gated == \E target \in Targets : HasModel(bundle, target)
Detect ==
  /\ stage = "detecting" /\ Len(net) < MaxTrades
  /\ \E n \in 1 .. MaxSignals, f \in Frames : \E found \in [1 .. n -> Signals] :
       /\ Gated => require_feature_columns(f)
       /\ signals' = found /\ frame' = f
       /\ kept' = filter_signals(found, f, bundle)
  /\ stage' = "simulating"
  /\ UNCHANGED <<storeVars, bundle, gross, net, report>>

\* FeatureExtractionError ends the run.
DetectAborts ==
  /\ stage = "detecting" /\ Len(net) < MaxTrades
  /\ Gated /\ \E f \in Frames : ~require_feature_columns(f)
  /\ stage' = "aborted"
  /\ UNCHANGED <<storeVars, bundle, window, gross, net, report>>

InR(trade) == [r |-> trade.pnl * (RUnit \div trade.risk), bars_held |-> trade.bars_held,
               regime |-> trade.regime]

\* A kept signal is rejected at its fill, or becomes a trade that is costed.
Simulate ==
  /\ stage = "simulating" /\ kept # <<>>
  /\ kept' = Tail(kept) /\ signals' = <<>> /\ frame' = <<>>
  /\ \/ UNCHANGED <<gross, net>>
     \/ /\ Len(net) < MaxTrades
        /\ \E o \in Outcomes :
             /\ gross' = Append(gross, InR(o))
             /\ net' = Append(net, InR(apply_costs(o)))
  /\ UNCHANGED <<storeVars, stage, bundle, report>>

NextWindow ==
  /\ stage = "simulating" /\ kept = <<>>
  /\ stage' = "detecting" /\ signals' = <<>> /\ frame' = <<>>
  /\ UNCHANGED <<storeVars, bundle, kept, gross, net, report>>

\* run_per_strategy_backtest of the gross trades, _aggregate of the net ones.
Report ==
  /\ stage = "detecting"
  /\ stage' = "reported"
  /\ report' = [gross |-> compute_metrics(gross), overall |-> compute_metrics(net),
                drawdown |-> drawdown_profile(net)]
  /\ UNCHANGED <<storeVars, bundle, window, gross, net>>

EvaluationNext ==
  \/ StoreMoves \/ Unfiltered \/ Detect \/ DetectAborts \/ Simulate \/ NextWindow \/ Report
  \/ \E l \in Loaders : TakesBundle(l) \/ LoadAborts(l)

EvaluationSpec == EvaluationInit /\ [][EvaluationNext]_evalVars

-----------------------------------------------------------------------------
(* The filter drops exactly the signals a model of their own strategy turns
   down on the row of their own bar, and keeps the rest in order: whatever the
   mix of strategies, the rows that are missing or double, and the models that
   are there (ml/filter.py buckets them by model and puts them together again). *)
TurnedDown(s) ==
  LET target == IF s.strategy_id = "C" THEN "fake_breakout" ELSE "trend_continuation"
      rows == {k \in DOMAIN frame : frame[k].time = s.time}
      vector == encode_row(frame[CHOOSE k \in rows : \A m \in rows : m <= k])
      probability == Score(target, bundle.models[target], vector)
  IN /\ rows # {} /\ bundle.models[target] # 0
     /\ IF s.strategy_id = "C" THEN probability > Threshold[target]
        ELSE probability < Threshold[target]
FilterExact ==
  stage = "simulating" /\ signals # <<>> =>
    LET passed == {k \in DOMAIN signals : ~TurnedDown(signals[k])}
    IN /\ Len(kept) = Cardinality(passed)
       /\ \A k \in passed : kept[Rank(k, passed)] = signals[k]

(* The drawdown of a report, which the code folds in one pass and the recovery
   in another, is that of the equity curve: the depth is the furthest the curve
   is ever below an earlier point of it (or its start), a trade is under water
   if the curve stood higher before, and the recovery is counted from the first
   deepest trough to the first return to the peak before it. *)
Equity(k) == Sum(RMultiples(SubSeq(net, 1, k)))
Drop(k) == LET earlier == {Equity(m) : m \in 0 .. k}
           IN (CHOOSE e \in earlier : \A x \in earlier : x <= e) - Equity(k)
CurveExact ==
  stage = "reported" =>
    LET n == Len(net)
        depth == report.drawdown.depth_r
        troughs == {k \in 1 .. n : Drop(k) = depth}
        first == CHOOSE k \in troughs : \A m \in troughs : k <= m
        recovered == {k \in (first + 1) .. n : Equity(k) >= Equity(first) + depth}
    IN /\ \A k \in 0 .. n : Drop(k) <= depth
       /\ \E k \in 0 .. n : Drop(k) = depth
       /\ report.overall.max_drawdown_r = depth
       /\ report.drawdown.time_underwater = Cardinality({k \in 1 .. n : Drop(k) > 0})
       /\ report.drawdown.recovery_trades =
            IF depth = 0 \/ recovered = {} THEN Undefined
            ELSE (CHOOSE k \in recovered : \A m \in recovered : k <= m) - first

(* Costs never flatter: after them no figure of the run is better than before,
   over all trades and regime by regime, and the regimes' trades are the run's. *)
AtMost(a, b) == a.num * b.den <= b.num * a.den
NoBetter(after, before) ==
  /\ after.n_trades = before.n_trades /\ after.holding = before.holding
  /\ AtMost(after.expectancy_r, before.expectancy_r)
  /\ AtMost(after.win_rate, before.win_rate)
  /\ after.profit_factor # Undefined /\ before.profit_factor # Undefined =>
       AtMost(after.profit_factor, before.profit_factor)
  /\ after.profit_factor = Undefined => before.profit_factor = Undefined
CostsNeverFlatter ==
  stage = "reported" =>
    LET after == report.overall
        before == report.gross
    IN /\ NoBetter(after.figures, before.figures)
       /\ after.max_drawdown_r >= before.max_drawdown_r
       /\ DOMAIN after.per_regime = DOMAIN before.per_regime
       /\ \A g \in DOMAIN after.per_regime : NoBetter(after.per_regime[g], before.per_regime[g])
=============================================================================
