--------------------------- MODULE MCWalkForward ---------------------------
(* Values for model checking WalkForward. *)
EXTENDS WalkForward

MCFloor == -4
MCOutcomes == {-2, -1, 0, 1}
MCRegimes == {"trend_up", "panic", "range_low_vol"}

\* No evidence, too little, and enough but for a drawdown or the expectancy.
MCEvidences ==
  {[months |-> 0, stable |-> TRUE, drawdown |-> TRUE],
   [months |-> 1, stable |-> TRUE, drawdown |-> TRUE],
   [months |-> 2, stable |-> TRUE, drawdown |-> TRUE],
   [months |-> 2, stable |-> FALSE, drawdown |-> TRUE]}
=============================================================================
