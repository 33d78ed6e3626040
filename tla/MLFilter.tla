------------------------------ MODULE MLFilter ------------------------------
(***************************************************************************)
(* ml/filter.py and ml/features.py: the probability gate.  The signals     *)
(* are bucketed by the model that judges their strategy, each bucket is    *)
(* scored as one matrix, and the verdicts go back to the positions the     *)
(* rows came from.                                                         *)
(***************************************************************************)
EXTENDS Ranks, Sequences

CONSTANTS
  Score(_, _, _),   \* external: what a model of a target says of a row, in percent
  Threshold,        \* threshold_for
  Codes,            \* what the categorical columns can say, coded from 1
  Missing,          \* a cell that is not there
  Bare              \* the aligned frames that lack a required column

target_for_strategy(sid) == IF sid = "C" THEN "fake_breakout" ELSE "trend_continuation"

\* One column of each kind: a number or NaN, a code or 0, a flag or 0.
encode_row(row) ==
  [number |-> row.number,
   code |-> IF row.category \in DOMAIN Codes THEN Codes[row.category] ELSE 0,
   flag |-> IF row.flag = Missing THEN 0 ELSE row.flag]

\* A frame of which every row lacks a required column cannot be encoded.
require_feature_columns(frame) == frame \notin Bare

\* build_row_index: the last row of a time wins.
HasRow(frame, t) == \E k \in DOMAIN frame : frame[k].time = t
RowOf(frame, t) ==
  LET k == CHOOSE k \in DOMAIN frame :
             frame[k].time = t /\ \A m \in DOMAIN frame : frame[m].time = t => m <= k
  IN frame[k]

keeps(target, probability) ==
  IF target = "trend_continuation" THEN probability >= Threshold[target]
  ELSE probability <= Threshold[target]

\* bundle.get: the target's model and card.
HasModel(bundle, target) == bundle.models[target] # 0 /\ bundle.cards[target] # 0

\* The positions of the signals a target's model can score, in order.
ScoredPositions(signals, frame, bundle, target) ==
  Ascending({k \in DOMAIN signals :
               /\ target_for_strategy(signals[k].strategy_id) = target
               /\ HasModel(bundle, target) /\ HasRow(frame, signals[k].time)})

\* A bucket is scored as one matrix; a verdict belongs to the position its row
\* came from.
RejectedRows(signals, frame, bundle, target) ==
  LET positions == ScoredPositions(signals, frame, bundle, target)
      matrix == [k \in DOMAIN positions |-> encode_row(RowOf(frame, signals[positions[k]].time))]
  IN {k \in DOMAIN matrix : ~keeps(target, Score(target, bundle.models[target], matrix[k]))}
RowsAsPositions(signals, frame, bundle, target) == RejectedRows(signals, frame, bundle, target)
Rejected(signals, frame, bundle, target) ==
  LET positions == ScoredPositions(signals, frame, bundle, target)
  IN {positions[k] : k \in RejectedRows(signals, frame, bundle, target)}

\* What filter_signals leaves.  A strategy without a model passes whole.
filter_signals(signals, frame, bundle) ==
  LET rejected == UNION {Rejected(signals, frame, bundle, target) :
                           target \in {"trend_continuation", "fake_breakout"}}
  IN Sublist(signals, {k \in DOMAIN signals : k \notin rejected})
=============================================================================
