------------------------------- MODULE Setups -------------------------------
(***************************************************************************)
(* From features to setup signals: regime/rules.py and bias/htf.py label   *)
(* the daily rows, features/align.py attaches the last closed one to each  *)
(* hourly row, signals/strategy_*.py fire on it, signals/gate.py blocks,   *)
(* and signals/base.py turns what is left into SetupSignals.               *)
(*                                                                         *)
(* All of it is computed row by row, over frames that hold the whole       *)
(* history: a behaviour labels the days and follows one hourly row, with   *)
(* later days in the daily frame as in a backtest.  Every feature may be   *)
(* NULL; a comparison with NULL is NULL and a gate fills it with false.    *)
(***************************************************************************)
EXTENDS Integers, FiniteSets

CONSTANTS NULL,
          LastDay,        \* the daily frame has days 0 .. LastDay
          DayLength,      \* hourly bars a day
          DailyRows,      \* the feature rows a day may have
          HourlyRows,     \* HourlyRows[s]: the columns strategy s reads
          PanicRv, PanicVolume, RangeLowRv,                 \* RegimeThresholds
          SlopeDeadband, VwapDeadband, NeutralRegimes,      \* BiasConfig
          PullbackBand, AtrContractionMax, VolumeContractionMax, SqueezeMax,
          AtrCompressionMax, VolumeExpansionMin, RequireStructureShift,
          Enabled,        \* enabled_strategy_ids
          Gates           \* the gate configurations: long and short regimes

Strategies == {"A", "B", "C"}
Regimes == {"trend_up", "trend_down", "range_low_vol", "range_high_vol", "panic"}
BullishStructure == {"HH", "HL"}
BearishStructure == {"LH", "LL"}
Num == Int \cup {NULL}
DailyRow == [ema_diff : Num, slope : Num, structure : BullishStructure \cup BearishStructure \cup {NULL},
             vwap : Num, rv : Num, volume : Num, compression : {0, 1, NULL}]

ASSUME NullAssumption ==
  NULL \notin Int \cup Strategies \cup Regimes \cup {"long", "short", "neutral", "none"}
ASSUME ConfigAssumption ==
  /\ {PanicRv, PanicVolume, RangeLowRv, PullbackBand, AtrContractionMax,
      VolumeContractionMax, SqueezeMax, AtrCompressionMax, VolumeExpansionMin} \subseteq Int
  /\ SlopeDeadband \in Nat /\ VwapDeadband \in Nat
  /\ LastDay \in Nat /\ DayLength \in Nat \ {0}
  /\ Enabled \subseteq Strategies
  /\ DailyRows \subseteq DailyRow
  /\ Gates \subseteq [long : SUBSET Regimes, short : SUBSET Regimes]

VARIABLES stage,   \* how far the row is
          day,     \* the next day to label
          daily,   \* day -> its regime and bias; days without a bar are missing
          gate,    \* the gate's configuration
          row      \* the hourly row that is followed
vars == <<stage, day, daily, gate, row>>

Above(x, y) == x # NULL /\ y # NULL /\ x > y
Below(x, y) == x # NULL /\ y # NULL /\ x < y
AtMost(x, y) == x # NULL /\ x <= y
AtLeast(x, y) == x # NULL /\ x >= y

-----------------------------------------------------------------------------
(* regime/rules.py: the first rule that applies labels the day. *)
InsufficientIfAll(f) == f.rv = NULL /\ f.compression = NULL /\ f.volume = NULL
Insufficient(f) == f.rv = NULL \/ f.compression = NULL \/ f.volume = NULL
Panic(f) == Above(f.rv, PanicRv) \/ Above(f.volume, PanicVolume)
TrendUp(f) ==
  Above(f.ema_diff, 0) /\ Above(f.slope, 0) /\ f.structure \in BullishStructure /\ Above(f.vwap, 0)
TrendDown(f) ==
  Below(f.ema_diff, 0) /\ Below(f.slope, 0) /\ f.structure \in BearishStructure /\ Below(f.vwap, 0)
RangeLow(f) == Below(f.rv, RangeLowRv) /\ f.compression = 1

Regime(f) ==
  IF Insufficient(f) THEN "range_low_vol"
  ELSE IF Panic(f) THEN "panic"
  ELSE IF TrendUp(f) THEN "trend_up"
  ELSE IF TrendDown(f) THEN "trend_down"
  ELSE IF RangeLow(f) THEN "range_low_vol"
  ELSE "range_high_vol"

\* regime/policy.py
allowed_strategies ==
  [r \in Regimes |-> CASE r \in {"trend_up", "trend_down"} -> {"A", "B"}
                       [] r = "range_high_vol" -> {"C"}
                       [] OTHER -> {}]
policy_directions ==
  [r \in Regimes |-> CASE r = "trend_up" -> {"long"}
                       [] r = "trend_down" -> {"short"}
                       [] r = "range_high_vol" -> {"long", "short"}
                       [] OTHER -> {}]
regimes_allowing(s) == {r \in Regimes : s \in allowed_strategies[r]}

\* bias/htf.py, on the same day's features and regime.
LongBias(f, r) ==
  /\ Above(f.ema_diff, 0) /\ Above(f.slope, SlopeDeadband)
  /\ f.structure \in BullishStructure /\ Above(f.vwap, VwapDeadband)
  /\ r \notin NeutralRegimes
ShortBias(f, r) ==
  /\ Below(f.ema_diff, 0) /\ Below(f.slope, -SlopeDeadband)
  /\ f.structure \in BearishStructure /\ Below(f.vwap, -VwapDeadband)
  /\ r \notin NeutralRegimes
Bias(f, r) ==
  IF LongBias(f, r) THEN "long" ELSE IF ShortBias(f, r) THEN "short" ELSE "neutral"

(* A labelled day.  "day" and "known" are for the properties: which day it is,
   and whether its volatility, volume and compression were there. *)
Label(n, f) == [day |-> n, regime |-> Regime(f), bias |-> Bias(f, Regime(f)),
                known |-> NULL \notin {f.rv, f.compression, f.volume}]

-----------------------------------------------------------------------------
(* features/align.py: bars carry their opening time, so a day can be used from
   the start of the next one, and the last such day is joined. *)
LastTime == (LastDay + 2) * DayLength - 1
AvailableWhenStamped(d) == d * DayLength
AvailableAt(d) == (d + 1) * DayLength
ClosedDays(t) == {d \in DOMAIN daily : AvailableAt(d) <= t}
LastClosed(t) == CHOOSE d \in ClosedDays(t) : \A e \in ClosedDays(t) : e <= d
NoDay == [day |-> NULL, regime |-> NULL, bias |-> NULL, known |-> FALSE]
DayAt(t) == IF ClosedDays(t) = {} THEN NoDay ELSE daily[LastClosed(t)]

-----------------------------------------------------------------------------
(* The strategies: b holds the hourly columns, d the day joined to them. *)
Compressed(b) == AtMost(b.squeeze, SqueezeMax) \/ AtMost(b.atr_ratio, AtrCompressionMax)
Pullback(b) ==
  /\ b.dist # NULL /\ b.dist <= PullbackBand /\ -PullbackBand <= b.dist
  /\ AtMost(b.atr_ratio, AtrContractionMax) /\ AtMost(b.volume, VolumeContractionMax)
  /\ Compressed(b) /\ AtLeast(b.volume, VolumeExpansionMin)
LongA(b, d) ==
  /\ d.bias = "long" /\ d.regime \in regimes_allowing("A")
  /\ Pullback(b) /\ b.structure \in BullishStructure /\ Above(b.dist, 0)
  /\ Above(b.close, b.swing_high) /\ b.swing_low # NULL
ShortA(b, d) ==
  /\ d.bias = "short" /\ d.regime \in regimes_allowing("A")
  /\ Pullback(b) /\ b.structure \in BearishStructure /\ Below(b.dist, 0)
  /\ Below(b.close, b.swing_low) /\ b.swing_high # NULL

LongB(b, d) ==
  /\ d.bias = "long" /\ d.regime \in regimes_allowing("B") /\ ~b.lunch
  /\ Above(b.close, b.or_high) /\ AtLeast(b.volume, VolumeExpansionMin) /\ b.or_low # NULL
ShortB(b, d) ==
  /\ d.bias = "short" /\ d.regime \in regimes_allowing("B") /\ ~b.lunch
  /\ Below(b.close, b.or_low) /\ AtLeast(b.volume, VolumeExpansionMin) /\ b.or_high # NULL

LongC(b, d) ==
  /\ d.regime \in regimes_allowing("C") /\ b.sweep
  /\ Above(b.dist, 0) /\ b.swing_low # NULL
  /\ RequireStructureShift => b.structure \in BullishStructure
ShortC(b, d) ==
  /\ d.regime \in regimes_allowing("C") /\ b.sweep
  /\ Below(b.dist, 0) /\ b.swing_high # NULL
  /\ RequireStructureShift => b.structure \in BearishStructure

LongGate(s, b, d) ==
  CASE s = "A" -> LongA(b, d) [] s = "B" -> LongB(b, d) [] s = "C" -> LongC(b, d)
ShortGate(s, b, d) ==
  CASE s = "A" -> ShortA(b, d) [] s = "B" -> ShortB(b, d) [] s = "C" -> ShortC(b, d)
\* The levels a stop is put at: below for a long setup, above for a short one.
LowLevel(s, b) == IF s = "B" THEN b.or_low ELSE b.swing_low
HighLevel(s, b) == IF s = "B" THEN b.or_high ELSE b.swing_high

(* The levels of a row are extremes of the same earlier bars: both there, the
   low below the high, or neither; the close is always there. *)
WellLevelled(s, b) ==
  /\ b.close \in Int
  /\ \/ LowLevel(s, b) = NULL /\ HighLevel(s, b) = NULL
     \/ LowLevel(s, b) \in Int /\ HighLevel(s, b) \in Int /\ LowLevel(s, b) <= HighLevel(s, b)
ASSUME HourlyAssumption ==
  \A s \in Strategies : \A b \in HourlyRows[s] : WellLevelled(s, b)

direction_swapped(long, short) == IF long THEN "short" ELSE IF short THEN "long" ELSE "none"
direction_expr(long, short) == IF long THEN "long" ELSE IF short THEN "short" ELSE "none"
stop_expr(s, b, direction) ==
  CASE direction = "long" -> LowLevel(s, b)
    [] direction = "short" -> HighLevel(s, b)
    [] OTHER -> NULL

\* build_detect_map: what is enabled and registered; C has no entry.
EveryEnabled == Enabled
Active == Enabled \cap {"A", "B"}

-----------------------------------------------------------------------------
NoRow == [strategy |-> NULL, time |-> NULL, joined |-> NULL, known |-> FALSE,
          regime |-> NULL, signal |-> "none", trigger |-> NULL, stop |-> NULL]

(* A classified row: what the strategy's columns say, with the day behind them. *)
Classified(s, t, b) ==
  LET d == DayAt(t)
      direction == direction_expr(LongGate(s, b, d), ShortGate(s, b, d))
  IN [strategy |-> s, time |-> t, joined |-> d.day, known |-> d.known,
      regime |-> d.regime, signal |-> direction,
      trigger |-> IF direction = "none" THEN NULL ELSE b.close,
      stop |-> stop_expr(s, b, direction)]

(* signals/gate.py: a signal stays if its regime is in the set of its direction. *)
KeptOrNull(r) ==
  IF \E w \in {"long", "short"} : r.signal = w /\ r.regime \in gate[w] THEN r.signal ELSE NULL
Kept(r) ==
  IF \E w \in {"long", "short"} : r.signal = w /\ r.regime \in gate[w] THEN r.signal ELSE "none"

Init ==
  /\ stage = "daily" /\ day = 0 /\ daily = <<>> /\ row = NoRow
  /\ gate \in Gates

(* The daily frame, row by row; a day may have no bar. *)
ClassifyDay ==
  /\ stage = "daily" /\ day <= LastDay
  /\ \/ \E f \in DailyRows :
          daily' = [d \in DOMAIN daily \cup {day} |-> IF d = day THEN Label(day, f) ELSE daily[d]]
     \/ UNCHANGED daily
  /\ day' = day + 1
  /\ UNCHANGED <<stage, gate, row>>

(* align_timeframes and classify_frame for one hourly row. *)
ClassifyBar ==
  /\ stage = "daily" /\ day > LastDay
  /\ \E s \in Active, t \in 0 .. LastTime : \E b \in HourlyRows[s] : row' = Classified(s, t, b)
  /\ stage' = "classified"
  /\ UNCHANGED <<day, daily, gate>>

ApplyRegimeGate ==
  /\ stage = "classified"
  /\ row' = [row EXCEPT !.signal = Kept(row)]
  /\ stage' = "gated"
  /\ UNCHANGED <<day, daily, gate>>

(* to_signals: a price that is missing raises SignalInputError. *)
Materialise ==
  /\ stage = "gated"
  /\ stage' = IF row.signal \in {NULL, "none"} THEN "no_setup"
              ELSE IF NULL \in {row.trigger, row.stop} THEN "error"
              ELSE "setup"
  /\ UNCHANGED <<day, daily, gate, row>>

Next == ClassifyDay \/ ClassifyBar \/ ApplyRegimeGate \/ Materialise
Spec == Init /\ [][Next]_vars

-----------------------------------------------------------------------------
Labels == [day : 0 .. LastDay, regime : Regimes, bias : {"long", "short", "neutral"}, known : BOOLEAN]
Rows == [strategy : Strategies, time : 0 .. LastTime, joined : 0 .. LastDay \cup {NULL},
         known : BOOLEAN, regime : Regimes \cup {NULL}, signal : {"long", "short", "none"},
         trigger : Num, stop : Num]

(* A day has one regime and one bias, a row one direction or none (rules.py,
   htf.py, base.py), and a row that is gated stays one of these. *)
TypeOK ==
  /\ stage \in {"daily", "classified", "gated", "setup", "no_setup", "error"}
  /\ day \in 0 .. LastDay + 1
  /\ DOMAIN daily \subseteq 0 .. day - 1 /\ daily \in [DOMAIN daily -> Labels]
  /\ gate \in Gates
  /\ IF stage = "daily" THEN row = NoRow ELSE row \in Rows

(* No look-ahead: the day whose labels an hourly row carries had closed when
   the row's bar opened, and no later day had (features/align.py:
   align_timeframes; bars carry their opening time). *)
EndOfDay(d) == d * DayLength + DayLength
NoLookAhead ==
  stage # "daily" =>
    /\ row.joined # NULL => EndOfDay(row.joined) <= row.time
    /\ \A d \in DOMAIN daily :
         EndOfDay(d) <= row.time => row.joined # NULL /\ d <= row.joined

(* A setup is of a strategy and in a direction that the regime's policy allows,
   and its regime is in the gate's set for its direction.  No strategy reads
   the policy's direction (regime/policy.py): that it agrees with the bias
   follows from both being computed from one day's features. *)
Permitted ==
  stage = "setup" =>
    /\ row.strategy \in allowed_strategies[row.regime]
    /\ row.signal \in policy_directions[row.regime]
    /\ row.regime \in gate[row.signal]

(* No setup on a day whose volatility, volume or compression is not known yet
   (the warm-up of the indicators), however the trend features look
   (regime/rules.py: the insufficient rule comes first). *)
NoSetupInWarmUp == stage = "setup" => row.known

(* Every setup can be sized and simulated: it has both prices, and its stop is
   on the losing side of its trigger (execution/engine.py takes the distance
   between them as the risk). *)
StopBehind ==
  /\ stage # "error"
  /\ stage = "setup" => IF row.signal = "long" THEN row.stop < row.trigger
                                              ELSE row.stop > row.trigger
=============================================================================
