------------------------------ MODULE Training ------------------------------
(***************************************************************************)
(* ml/training.py: walk_forward_train takes the rows of a target's signals *)
(* with their labels and times, refuses what it cannot walk over, fits and *)
(* tests a booster a fold, and ships one fitted on all rows unless a       *)
(* feature dominates it.                                                   *)
(*                                                                         *)
(* A row is its number, from 1; what it says, its label and what a booster *)
(* makes of them is left out.  ModelStore saves what is shipped.           *)
(***************************************************************************)
EXTENDS Integers, Sequences

CONSTANTS
  MaxRows,    \* bound: rows
  Instants,   \* the bars, by their time
  Configs     \* train_min_rows, test_span, step

ASSUME TrainingAssumption ==
  /\ MaxRows \in Nat /\ Instants \subseteq Int
  /\ Configs \subseteq [train_min_rows : Nat \ {0, 1}, test_span : Nat \ {0}, step : Nat \ {0}]

VARIABLES
  config,
  features, labels,   \* the number of rows and of labels
  times,        \* the rows' bars
  train_end,    \* where the next fold's training rows end
  windows,      \* the folds that were fitted and tested
  training      \* checking, walking, refused or shipped; over when it is left behind
trainingVars == <<config, features, labels, times, train_end, windows, training>>

TrainingTypes ==
  /\ config \in Configs /\ features \in Nat /\ labels \in Nat
  /\ times \in Seq(Instants)
  /\ train_end \in Nat /\ windows \in Seq([train_end : Nat, test_end : Nat])
  /\ training \in {"checking", "walking", "refused", "shipped", "over"}

TrainingInit ==
  /\ config \in Configs
  /\ \E n \in 0 .. MaxRows : times \in [1 .. n -> Instants]
  /\ features \in 0 .. MaxRows /\ labels \in 0 .. MaxRows
  /\ train_end = 0 /\ windows = <<>> /\ training = "checking"

\* Each time is compared with the next one.
SortedButTheLast == \A i \in 1 .. (Len(times) - 2) : times[i] <= times[i + 1]
Sorted == \A i \in 1 .. (Len(times) - 1) : times[i] <= times[i + 1]

\* LabelError
Accepted ==
  /\ features = labels /\ features = Len(times)
  /\ features >= config.train_min_rows + 1
  /\ Sorted
Refuses ==
  /\ training = "checking" /\ ~Accepted
  /\ training' = "refused"
  /\ UNCHANGED <<config, features, labels, times, train_end, windows>>
Begins ==
  /\ training = "checking" /\ Accepted
  /\ training' = "walking" /\ train_end' = config.train_min_rows
  /\ UNCHANGED <<config, features, labels, times, windows>>

\* make_windows: trained on the first train_end rows, tested on those up to
\* test_end.
LastRowLeftOut(n) ==
  IF n + config.test_span < features THEN n + config.test_span ELSE features - 1
test_end(n) ==
  IF n + config.test_span < features THEN n + config.test_span ELSE features
NextFold ==
  /\ training = "walking" /\ train_end < features
  /\ windows' = Append(windows, [train_end |-> train_end, test_end |-> test_end(train_end)])
  /\ train_end' = train_end + config.step
  /\ UNCHANGED <<config, features, labels, times, training>>

\* Fitted on all rows; audit_importance may refuse it, ImportanceAuditError.
Ships ==
  /\ training = "walking" /\ ~(train_end < features)
  /\ training' \in {"shipped", "refused"}
  /\ UNCHANGED <<config, features, labels, times, train_end, windows>>

TrainingNext == Refuses \/ Begins \/ NextFold \/ Ships

-----------------------------------------------------------------------------
TrainRows(w) == 1 .. windows[w].train_end
TestRows(w) == (windows[w].train_end + 1) .. windows[w].test_end
FoldsTesting(r) == {w \in DOMAIN windows : r \in TestRows(w)}

(* No fold trains on a row later than one it tests, wherever its boundary
   falls (the checks compare neighbours only, and folds overlap or leave rows
   out as span and step will have it). *)
FoldsInTime ==
  \A w \in DOMAIN windows :
    \A i \in TrainRows(w), k \in TestRows(w) : times[i] <= times[k]

(* What a shipped model's out-of-sample figures are of: every row after the
   first train_min_rows, unless the steps are longer than the tests, and none
   twice, unless they are shorter; the last fold is cut, not left out. *)
TestedOnce ==
  training = "shipped" => \A r \in 1 .. features :
    /\ r <= config.train_min_rows => FoldsTesting(r) = {}
    /\ r > config.train_min_rows /\ config.step <= config.test_span => FoldsTesting(r) # {}
    /\ config.step >= config.test_span => \A v, w \in FoldsTesting(r) : v = w
=============================================================================
