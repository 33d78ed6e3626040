---------------------------- MODULE MCEvaluation ----------------------------
(* Two targets, two calls of load_bundle and three saves, of which the
   second is by code with other columns.  A month that ends on
   a Sunday, whose Friday (date 4) is a holiday: the expiry is Thursday, 3. *)
EXTENDS TrainAndEvaluate

\* Folds as long as the steps, longer and shorter, from two or three rows on.
Spans == {[train_min_rows |-> m, test_span |-> span, step |-> step] :
            m \in {2, 3}, span \in {1, 2}, step \in {1, 2}}

At(d, h, m) == d * Day + h * 60 + m - 7 * 60   \* by the clock in Bangkok

Fridays == {4}
MonthEnds == {6}

Structures == [HH |-> 1, LL |-> 4]
Thresholds == [trend_continuation |-> 55, fake_breakout |-> 50]
Percent(target, model, row) ==
  LET number == IF row.number = Missing THEN 5 ELSE row.number
  IN (31 * number + 17 * row.code + 29 * row.flag + 23 * model
      + (IF target = "fake_breakout" THEN 11 ELSE 0)) % 100

Signal(sid, t) == [strategy_id |-> sid, time |-> t]
Detected == {Signal("A", 1), Signal("B", 2), Signal("C", 1), Signal("C", 3)}
Row(t, number, category, flag) ==
  [time |-> t, number |-> number, category |-> category, flag |-> flag]
BareFrames == {<<Row(1, Missing, "HH", 0)>>}
AlignedFrames ==
  {<<Row(1, 1, "HH", 1), Row(2, 2, "LL", 0), Row(3, Missing, "HH", 0)>>,
   <<Row(1, 0, "HH", 0), Row(1, 1, Missing, Missing), Row(2, 0, "LL", 1)>>} \cup BareFrames

Trade(entry, exit, pnl, risk, atr, bars, regime) ==
  [entry_time |-> entry, exit_time |-> exit, pnl |-> pnl, risk |-> risk, atr |-> atr,
   bars_held |-> bars, regime |-> regime]
Trades ==
  {Trade(At(0, 10, 0), At(0, 15, 0), 12, 4, 1, 4, "trend_up"),      \* three R
   Trade(At(1, 10, 0), At(1, 11, 0), 3, 4, 1, 2, "trend_up"),       \* eaten by its costs
   Trade(At(1, 20, 0), At(1, 22, 0), -4, 4, 2, 3, "range_high_vol"),\* lost at night
   Trade(At(2, 15, 0), At(3, 10, 0), 9, 8, 1, 5, "range_high_vol"), \* over the expiry
   Trade(At(3, 12, 15), At(3, 15, 0), 0, 4, 1, 3, NoRegime)}        \* at lunch
=============================================================================
