-------------------------- MODULE TrainAndEvaluate --------------------------
(***************************************************************************)
(* From the rows a model is trained on to the figures it is judged by:     *)
(* walk_forward_train ships or refuses it (Training), save_model and       *)
(* load_bundle hand it over (ModelStore), and the evaluation gates signals *)
(* with what was loaded.  scripts/ml_filter_demo.py takes these steps in   *)
(* this order; the files have saves of other trainings too.                *)
(***************************************************************************)
EXTENDS Evaluation, Training

RunInit == TrainingInit /\ EvaluationInit
runVars == <<trainingVars, evalVars>>

\* Only files are left of a training that is over, and none of a refused one.
TrainingOver ==
  /\ training \in {"shipped", "refused"} /\ training' = "over"
  /\ config' = (CHOOSE c \in Configs : TRUE)
  /\ features' = 0 /\ labels' = 0 /\ times' = <<>> /\ train_end' = 0 /\ windows' = <<>>

RunNext ==
  \/ (TrainingNext \/ TrainingOver) /\ UNCHANGED evalVars
  \/ training = "over" /\ EvaluationNext /\ UNCHANGED trainingVars

RunSpec == RunInit /\ [][RunNext]_runVars
=============================================================================
