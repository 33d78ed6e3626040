------------------------------- MODULE Metrics -------------------------------
(***************************************************************************)
(* backtest/metrics.py: the figures of a list of trades, of which each has *)
(* its R-multiple r, the bars it was held and its regime.  A quotient is   *)
(* its numerator and denominator, None where the code says it is           *)
(* undefined.                                                              *)
(***************************************************************************)
EXTENDS Ranks, Sequences, SequencesExt

CONSTANTS Undefined, NoRegime,
          BarsPerDay     \* TFEX_BARS_PER_TRADING_DAY

\* None is no number and no quotient.
ASSUME UndefinedIsNone == Undefined \notin Int /\ Undefined \notin [num : Int, den : Int]

Quotient(a, b) == [num |-> a, den |-> b]
Sum(s) == FoldLeft(LAMBDA total, x : total + x, 0, s)
RMultiples(trades) == [k \in DOMAIN trades |-> trades[k].r]
Wins(s) == [k \in DOMAIN s |-> IF s[k] > 0 THEN s[k] ELSE 0]
Losses(s) == [k \in DOMAIN s |-> IF s[k] < 0 THEN s[k] ELSE 0]
Mean(s) == IF s = <<>> THEN Quotient(0, 1) ELSE Quotient(Sum(s), Len(s))

avg_holding(trades) ==
  IF trades = <<>> THEN Undefined
  ELSE LET bars == Sum([k \in DOMAIN trades |-> trades[k].bars_held])
       IN [hours |-> Quotient(bars, Len(trades)), days |-> Quotient(bars, Len(trades) * BarsPerDay)]

expectancy(trades) == Mean(RMultiples(trades))

profit_factor(trades) ==
  LET r == RMultiples(trades)
  IN IF Sum(Losses(r)) = 0 THEN Undefined ELSE Quotient(Sum(Wins(r)), -Sum(Losses(r)))

win_rate(trades) ==
  IF trades = <<>> THEN Quotient(0, 1)
  ELSE Quotient(Cardinality({k \in DOMAIN trades : trades[k].r > 0}), Len(trades))

Larger(a, b) == IF a > b THEN a ELSE b

max_drawdown(trades) ==
  FoldLeft(LAMBDA a, x :
             LET equity == a.equity + x
                 peak == Larger(a.peak, equity)
             IN [equity |-> equity, peak |-> peak, worst |-> Larger(a.worst, peak - equity)],
           [equity |-> 0, peak |-> 0, worst |-> 0], RMultiples(trades)).worst

\* One pass for the depth, the trades under water and the deepest trough, which
\* is the first of its depth, and one for the trades until its peak is reclaimed.
DeeperOrEqual(drop, worst) == drop >= worst
Deeper(drop, worst) == drop > worst
Pass(rs) ==
  FoldLeft(LAMBDA a, x :
             LET equity == a.equity + x
                 peak == Larger(a.peak, equity)
                 drop == peak - equity
             IN [at |-> a.at + 1, equity |-> equity, peak |-> peak,
                 underwater |-> a.underwater + (IF equity < peak THEN 1 ELSE 0),
                 worst |-> IF Deeper(drop, a.worst) THEN drop ELSE a.worst,
                 trough |-> IF Deeper(drop, a.worst) THEN a.at + 1 ELSE a.trough,
                 before |-> IF Deeper(drop, a.worst) THEN peak ELSE a.before],
           [at |-> 0, equity |-> 0, peak |-> 0, underwater |-> 0, worst |-> 0,
            trough |-> 0, before |-> 0], rs)
Reclaimed(rs, trough, before) ==
  FoldLeft(LAMBDA a, x :
             LET running == a.running + x
             IN [at |-> a.at + 1, running |-> running,
                 found |-> IF a.found = Undefined /\ a.at + 1 > trough /\ running >= before
                           THEN a.at + 1 - trough ELSE a.found],
           [at |-> 0, running |-> 0, found |-> Undefined], rs).found
drawdown_profile(trades) ==
  LET rs == RMultiples(trades)
      pass == Pass(rs)
  IN [depth_r |-> pass.worst, time_underwater |-> pass.underwater,
      recovery_trades |-> IF pass.trough = 0 THEN Undefined
                          ELSE Reclaimed(rs, pass.trough, pass.before)]

-----------------------------------------------------------------------------
\* The trades of a regime; those without one are in the aggregate only.
InRegime(trades, regime) == Sublist(trades, {k \in DOMAIN trades : trades[k].regime = regime})
RegimesOf(trades) == {trades[k].regime : k \in DOMAIN trades} \ {NoRegime}

Figures(trades) ==
  [n_trades |-> Len(trades), expectancy_r |-> expectancy(trades),
   profit_factor |-> profit_factor(trades), win_rate |-> win_rate(trades),
   holding |-> avg_holding(trades)]
regime_stratified(trades) ==
  [g \in RegimesOf(trades) |-> Figures(InRegime(trades, g))]

compute_metrics(trades) ==
  [figures |-> Figures(trades), max_drawdown_r |-> max_drawdown(trades),
   per_regime |-> regime_stratified(trades)]
=============================================================================
