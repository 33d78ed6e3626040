------------------------------- MODULE Labels -------------------------------
(***************************************************************************)
(* ml/labels.py: the triple-barrier label of a signal, on the bars on      *)
(* which execution/engine.py simulates the same signal (TradeWalk).  Both  *)
(* fill at the open of the bar after the trigger and leave a signal out    *)
(* that has no such bar or no usable ATR; only the engine also rejects a   *)
(* fill bar whose range is too wide.  The bars go on until both are done.  *)
(***************************************************************************)
EXTENDS TradeWalk

CONSTANTS TpMult, SlMult,   \* tp_atr_mult, sl_atr_mult, as whole numbers
          Horizon           \* horizon_bars

ASSUME LabelAssumption == TpMult \in Nat \ {0} /\ SlMult \in Nat \ {0} /\ Horizon \in Nat \ {0}

VARIABLES
  outcome,      \* none, skipped, open, or the barrier that was touched
  from, unit,   \* the fill bar's open and ATR
  j,            \* the bar to come; the fill bar is number 0
  seen,         \* the close of the last bar
  ret
label     == <<outcome, from, unit, j, seen, ret>>
labelVars == <<vars, label>>

LabelTypes ==
  /\ outcome \in {"none", "skipped", "open", "sl", "tp", "time"}
  /\ from \in Price /\ unit \in 1 .. MaxAtr /\ seen \in Price
  /\ j \in 0 .. Horizon /\ ret \in Int

tp == Move(from, TpMult * unit)
sl == Move(from, -(SlMult * unit))

LabelInit ==
  /\ Init
  /\ outcome = "none" /\ from = 1 /\ unit = 1 /\ j = 0 /\ seen = 1 /\ ret = 0

Skipped == outcome' = "skipped" /\ UNCHANGED <<from, unit, j, seen, ret>>
Opened(e, a) ==
  /\ outcome' = "open" /\ from' = e /\ unit' = a
  /\ UNCHANGED <<j, seen, ret>>

SlTouched(b) == Pnl(sl, WorstOf(b)) <= 0
TpTouched(b) == Pnl(tp, BestOf(b)) >= 0

Ends(o, r) == outcome' = o /\ ret' = r /\ UNCHANGED j

\* The order of the barriers on a bar: the stop, the target, then the time.
TargetFirst(b) ==
  /\ outcome = "open"
  /\ \/ TpTouched(b) /\ Ends("tp", Pnl(from, tp))
     \/ ~TpTouched(b) /\ SlTouched(b) /\ Ends("sl", Pnl(from, sl))
     \/ ~TpTouched(b) /\ ~SlTouched(b) /\ j >= Horizon /\ Ends("time", Pnl(from, b.close))
     \/ ~TpTouched(b) /\ ~SlTouched(b) /\ j < Horizon /\ j' = j + 1 /\ UNCHANGED <<outcome, ret>>
  /\ seen' = b.close /\ UNCHANGED <<from, unit>>
Resolve(b) ==
  /\ outcome = "open"
  /\ \/ SlTouched(b) /\ Ends("sl", Pnl(from, sl))
     \/ ~SlTouched(b) /\ TpTouched(b) /\ Ends("tp", Pnl(from, tp))
     \/ ~SlTouched(b) /\ ~TpTouched(b) /\ j >= Horizon /\ Ends("time", Pnl(from, b.close))
     \/ ~SlTouched(b) /\ ~TpTouched(b) /\ j < Horizon /\ j' = j + 1 /\ UNCHANGED <<outcome, ret>>
  /\ seen' = b.close /\ UNCHANGED <<from, unit>>

\* The bars end: the last one's close.
LastClose == outcome = "open" /\ Ends("time", Pnl(from, seen)) /\ UNCHANGED <<from, unit, seen>>
Settled == outcome # "open" /\ UNCHANGED label

BothSkip == Reject /\ Skipped
TooWide == Reject /\ \E e \in Price, a \in 1 .. MaxAtr : Opened(e, a)
BothFill == Fill /\ Opened(entry', atr')
BothMeet(b) ==
  /\ Stopped(b) \/ TakeProfit(b) \/ Walk(b)
  /\ Resolve(b) \/ Settled
LabelMeets(b) ==
  /\ phase \in {"closed", "rejected"}
  /\ b.lo <= b.close /\ b.close <= b.hi /\ (j = 0 => b.lo <= from /\ from <= b.hi)
  /\ Resolve(b) /\ UNCHANGED vars
BothEnd == EndOfData /\ (LastClose \/ Settled)
LabelEnds == phase \in {"closed", "rejected"} /\ j > 0 /\ LastClose /\ UNCHANGED vars

LabelNext ==
  \/ BothSkip \/ TooWide \/ BothFill \/ BothEnd \/ LabelEnds
  \/ \E b \in Bar : BothMeet(b)
  \/ \E b \in Bar : LabelMeets(b)

LabelSpec == LabelInit /\ [][LabelNext]_labelVars

-----------------------------------------------------------------------------
\* _label_for_target
Positive(target) ==
  IF target = "trend_continuation" THEN outcome = "tp" \/ (outcome = "time" /\ ret > 0)
  ELSE outcome = "sl" \/ (outcome = "time" /\ ret <= 0)

SameBarriers ==
  SlMult * unit = Risk /\ TpMult * unit = Risk * TpR /\ Horizon = TimeStopBars

(* "mirroring the execution engine's risk geometry" (ml/models.py): where the
   barriers are the trade's stop, target and time stop, the label is what the
   trade came to.  A label is sl exactly if the trade lost its 1R, tp exactly
   if it reached its target, and time only if it made ret; so what the filter
   is trained to keep makes money, unless the trade ends on the very bar that
   banked its part, and what it is trained to reject makes none. *)
LabelIsTheTrade ==
  phase = "closed" /\ SameBarriers =>
    /\ outcome = "sl" <=> reason = "stop_loss"
    /\ outcome = "tp" <=> partial \/ reason = "take_profit"
    /\ outcome = "time" => Result = Whole * ret
    /\ Positive("trend_continuation") /\ part > 0 /\ BarsHeld > banked => Result > 0
    /\ Positive("fake_breakout") => Result <= 0
=============================================================================
