---------------------------- MODULE SignalInputs ----------------------------
(***************************************************************************)
(* signals/inputs.py: the hourly panel is built first, the daily labels    *)
(* next, and a row of the one with what is joined of the other is what the *)
(* strategies read.  The prices, levels and flags of the row come from     *)
(* Panel, its volatility and volume are arbitrary, and it may be a row of  *)
(* any of the days Setups labels.                                          *)
(***************************************************************************)
EXTENDS Setups, Panel

CONSTANT Trailing   \* the columns of a trailing window: dist, atr_ratio, squeeze, volume

\* A column of the panel without a value is one of the row without a value.
ASSUME OneNull == Null = NULL

VARIABLE base       \* the followed row's columns, as its strategy reads them
signalVars == <<vars, panelVars, base>>

SignalInit == Init /\ PanelInit /\ base = NULL

Unlabelled == stage = "daily" /\ day = 0

FrameGrows == Unlabelled /\ base = NULL /\ BarCloses /\ UNCHANGED <<vars, base>>

\* Strategy B reads an opening range, A and C swing levels.
Columns(s, p) ==
  IF s = "B"
  THEN [strategy |-> s, close |-> p.close, lunch |-> p.lunch_zone_flag,
        or_low |-> p.or_low, or_high |-> p.or_high]
  ELSE [strategy |-> s, close |-> p.close, structure |-> p.structure,
        sweep |-> p.liquidity_sweep_flag, swing_low |-> p.swing_low, swing_high |-> p.swing_high]

(* _build_base: the frame is not looked at again. *)
FollowRow ==
  /\ Unlabelled /\ base = NULL
  /\ \E s \in Active, k \in DOMAIN panel : base' = Columns(s, panel[k])
  /\ bars' = <<>> /\ panel' = <<>>
  /\ UNCHANGED vars

LabelDay == base # NULL /\ ClassifyDay /\ UNCHANGED <<panelVars, base>>

Joined(c, x) ==
  IF c.strategy = "B"
  THEN [lunch |-> c.lunch, volume |-> x.volume, close |-> c.close,
        or_low |-> c.or_low, or_high |-> c.or_high]
  ELSE [dist |-> x.dist, atr_ratio |-> x.atr_ratio, squeeze |-> x.squeeze, volume |-> x.volume,
        structure |-> c.structure, sweep |-> c.sweep, close |-> c.close,
        swing_low |-> c.swing_low, swing_high |-> c.swing_high]

ClassifyRow ==
  /\ base # NULL /\ stage = "daily" /\ day > LastDay
  /\ \E t \in 0 .. LastTime, x \in Trailing[base.strategy] :
       row' = Classified(base.strategy, t, Joined(base, x))
  /\ stage' = "classified" /\ base' = NULL
  /\ UNCHANGED <<day, daily, gate, panelVars>>

SignalNext ==
  \/ FrameGrows \/ FollowRow \/ LabelDay \/ ClassifyRow
  \/ (ApplyRegimeGate \/ Materialise) /\ UNCHANGED <<panelVars, base>>
SignalSpec == SignalInit /\ [][SignalNext]_signalVars
=============================================================================
