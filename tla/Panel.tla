------------------------------- MODULE Panel -------------------------------
(***************************************************************************)
(* features/: the columns of an intraday frame.  build_panel computes them *)
(* over the whole frame at once, with windows over a trading day and with  *)
(* shifts from later bars; in production the frame then grows by a bar and *)
(* the panel is built again.                                               *)
(*                                                                         *)
(* The columns that look along the frame or at the clock are modelled.     *)
(* Averages, deviations and percentiles of a trailing window, and the      *)
(* division by the average range, are not: they see no later bar by form.  *)
(***************************************************************************)
EXTENDS Session, Sequences

CONSTANTS
  Null,              \* no value
  Instants, Candles, \* when a bar may open; its open, high, low and close
  MaxBars,           \* bound: bars of a frame
  MinBars,           \* FeatureConfig.max_lookback
  swing_lookback, liquidity_lookback, liquidity_confirm_bars,
  opening_range_minutes, initial_balance_minutes, close_auction_minutes,
  swing_window       \* SignalConfig

ASSUME PanelAssumption ==
  /\ Null \notin Int /\ Instants \subseteq Int
  /\ Candles \subseteq [open : Int, high : Int, low : Int, close : Int]
  /\ \A c \in Candles : /\ c.low <= c.open /\ c.open <= c.high
                        /\ c.low <= c.close /\ c.close <= c.high
  /\ MaxBars \in Nat /\ MinBars \in Nat
  /\ {swing_lookback, liquidity_lookback, liquidity_confirm_bars, opening_range_minutes,
      initial_balance_minutes, close_auction_minutes, swing_window} \subseteq Nat \ {0}

VARIABLES bars,   \* the frame: time, open, high, low, close
          panel   \* its panel, when it was built last
panelVars == <<bars, panel>>

Highest(S) == IF S = {} THEN Null ELSE CHOOSE x \in S : \A y \in S : y <= x
Lowest(S) == IF S = {} THEN Null ELSE CHOOSE x \in S : \A y \in S : x <= y
Over(x, y) == x # Null /\ y # Null /\ x > y

-----------------------------------------------------------------------------
(* features/time_of_day.py, on the minute of the day and the date in Bangkok. *)
minute(bar) == MinuteOf(to_bkk(bar.time))
session_date(bar) ==
  LET date == DateOf(to_bkk(bar.time)) IN IF minute(bar) < NightTail THEN date - 1 ELSE date

session_name(bar) ==
  LET m == minute(bar)
      date == DateOf(to_bkk(bar.time))
  IN IF ~((date % 7) + 1 <= 5 /\ date \notin Holidays) THEN "closed"
     ELSE IF m < NightTail THEN "night"
     ELSE IF m >= Opens.morning /\ m < Closes.morning THEN "morning"
     ELSE IF m >= Closes.morning /\ m < Opens.afternoon THEN "lunch"
     ELSE IF m >= Opens.afternoon /\ m < Closes.afternoon THEN "afternoon"
     ELSE IF m >= Opens.night THEN "night"
     ELSE "closed"

OpenFirst(bar) ==
  LET m == minute(bar)
  IN IF m < Opens.morning THEN "pre-open"
     ELSE IF m < NightTail THEN "night"
     ELSE IF m < Opens.morning + 30 THEN "open"
     ELSE IF m < Closes.morning THEN "mid-morning"
     ELSE IF m < Opens.afternoon THEN "lunch"
     ELSE IF m < Closes.afternoon - 15 THEN "afternoon"
     ELSE IF m < Closes.afternoon THEN "pre-close"
     ELSE IF m >= Opens.night THEN "night"
     ELSE "pre-open"
session_phase(bar) ==
  LET m == minute(bar)
  IN IF m < NightTail THEN "night"
     ELSE IF m < Opens.morning THEN "pre-open"
     ELSE IF m < Opens.morning + 30 THEN "open"
     ELSE IF m < Closes.morning THEN "mid-morning"
     ELSE IF m < Opens.afternoon THEN "lunch"
     ELSE IF m < Closes.afternoon - 15 THEN "afternoon"
     ELSE IF m < Closes.afternoon THEN "pre-close"
     ELSE IF m >= Opens.night THEN "night"
     ELSE "pre-open"

lunch_zone_flag(bar) == minute(bar) >= 12 * 60 /\ minute(bar) < 14 * 60
close_auction_flag(bar) ==
  minute(bar) >= Closes.afternoon - close_auction_minutes /\ minute(bar) < Closes.afternoon

\* The rows of a trading day, wherever they are in the frame.
SameDay(b, k) == {j \in DOMAIN b : session_date(b[j]) = session_date(b[k])}
\* The first minutes of its morning; their extremes are shown once they are over.
InWindow(bar, w) ==
  /\ session_name(bar) = "morning"
  /\ minute(bar) >= Opens.morning /\ minute(bar) < Opens.morning + w
WindowClosed(bar, w) == minute(bar) >= Opens.morning + w
WindowHigh(b, k, w) ==
  IF WindowClosed(b[k], w) THEN Highest({b[j].high : j \in {i \in SameDay(b, k) : InWindow(b[i], w)}})
                           ELSE Null
WindowLow(b, k, w) ==
  IF WindowClosed(b[k], w) THEN Lowest({b[j].low : j \in {i \in SameDay(b, k) : InWindow(b[i], w)}})
                           ELSE Null

-----------------------------------------------------------------------------
(* features/structure.py *)
\* The rows of the trading day before, the last one that the frame has.
EarlierDates(b, k) ==
  {d \in {session_date(b[j]) : j \in DOMAIN b} : d < session_date(b[k])}
DayBefore(b, k) ==
  {j \in DOMAIN b : /\ session_date(b[j]) \in EarlierDates(b, k)
                    /\ \A d \in EarlierDates(b, k) : d <= session_date(b[j])}
First(b, rows) == CHOOSE j \in rows : \A i \in rows : b[j].time <= b[i].time
Last(b, rows) == CHOOSE j \in rows : \A i \in rows : b[i].time <= b[j].time
session_open(b, k) == b[First(b, SameDay(b, k))].open
prev_close(b, k) ==
  IF DayBefore(b, k) = {} THEN Null ELSE b[Last(b, DayBefore(b, k))].close
prev_high(b, k) == Highest({b[j].high : j \in DayBefore(b, k)})
prev_low(b, k) == Lowest({b[j].low : j \in DayBefore(b, k)})

\* A rolling extreme of the bars before k, if there are that many.
HighBefore(b, k, w) == IF k <= w THEN Null ELSE Highest({b[j].high : j \in k - w .. k - 1})
LowBefore(b, k, w) == IF k <= w THEN Null ELSE Lowest({b[j].low : j \in k - w .. k - 1})

\* Row k takes out an extreme, and one of the next bars closes back inside.
NextCloses(b, k) == {b[j].close : j \in DOMAIN b \cap (k + 1 .. k + liquidity_confirm_bars)}
SweptUp(b, k) ==
  /\ Over(b[k].high, HighBefore(b, k, liquidity_lookback))
  /\ Over(HighBefore(b, k, liquidity_lookback), Lowest(NextCloses(b, k)))
SweptDown(b, k) ==
  /\ Over(LowBefore(b, k, liquidity_lookback), b[k].low)
  /\ Over(Highest(NextCloses(b, k)), LowBefore(b, k, liquidity_lookback))
\* It is told on the last of those bars.
liquidity_sweep_early(b, k) == SweptUp(b, k) \/ SweptDown(b, k)
liquidity_sweep_flag(b, k) ==
  LET j == k - liquidity_confirm_bars IN j >= 1 /\ (SweptUp(b, j) \/ SweptDown(b, j))

-----------------------------------------------------------------------------
(* features/indicators.py: row k confirms the pivot swing_lookback rows back,
   and features/trend.py: what the last two pivots of the later kind say. *)
Around(k) == k - 2 * swing_lookback .. k
Confirming(k) == k > 2 * swing_lookback
PivotHigh(b, k) ==
  Confirming(k) /\ \A j \in Around(k) : b[j].high <= b[k - swing_lookback].high
PivotLow(b, k) ==
  Confirming(k) /\ \A j \in Around(k) : b[k - swing_lookback].low <= b[j].low
HighRows(b, k) == {j \in 1 .. k : PivotHigh(b, j)}
LowRows(b, k) == {j \in 1 .. k : PivotLow(b, j)}
Latest(rows) == CHOOSE j \in rows : \A i \in rows : i <= j
AtLeastTwo(rows) == \E i \in rows, j \in rows : i < j
Pivot(k) == k - swing_lookback

structure(b, k) ==
  LET highs == HighRows(b, k)
      lows == LowRows(b, k)
      before(rows) == rows \ {Latest(rows)}
      recent_is_high == lows = {} \/ (highs # {} /\ Latest(highs) >= Latest(lows))
  IN IF recent_is_high /\ AtLeastTwo(highs)
     THEN IF b[Pivot(Latest(highs))].high > b[Pivot(Latest(before(highs)))].high THEN "HH" ELSE "LH"
     ELSE IF ~recent_is_high /\ AtLeastTwo(lows)
     THEN IF b[Pivot(Latest(lows))].low > b[Pivot(Latest(before(lows)))].low THEN "HL" ELSE "LL"
     ELSE Null

-----------------------------------------------------------------------------
\* A row of the panel, and of the frame the strategies read (signals/inputs.py).
PanelRow(b, k) ==
  [time |-> b[k].time, close |-> b[k].close,
   session_name |-> session_name(b[k]), session_phase |-> session_phase(b[k]),
   session_date |-> session_date(b[k]),
   lunch_zone_flag |-> lunch_zone_flag(b[k]), close_auction_flag |-> close_auction_flag(b[k]),
   or_high |-> WindowHigh(b, k, opening_range_minutes),
   or_low |-> WindowLow(b, k, opening_range_minutes),
   ib_high |-> WindowHigh(b, k, initial_balance_minutes),
   ib_low |-> WindowLow(b, k, initial_balance_minutes),
   session_open |-> session_open(b, k), prev_close |-> prev_close(b, k),
   prev_high |-> prev_high(b, k), prev_low |-> prev_low(b, k),
   liquidity_sweep_flag |-> liquidity_sweep_flag(b, k), structure |-> structure(b, k),
   swing_high |-> HighBefore(b, k, swing_window), swing_low |-> LowBefore(b, k, swing_window)]

\* Too short a frame raises InsufficientLookbackError.
build_panel(b) == IF Len(b) < MinBars THEN <<>> ELSE [k \in DOMAIN b |-> PanelRow(b, k)]

PanelInit == bars = <<>> /\ panel = <<>>

Bar(t, c) == [time |-> t, open |-> c.open, high |-> c.high, low |-> c.low, close |-> c.close]
\* _require_ohlcv: the times increase.
BarCloses ==
  /\ Len(bars) < MaxBars
  /\ \E t \in Instants, c \in Candles :
       /\ \A k \in DOMAIN bars : bars[k].time < t
       /\ bars' = Append(bars, Bar(t, c))
  /\ panel' = build_panel(bars')

PanelSpec == PanelInit /\ [][BarCloses]_panelVars

-----------------------------------------------------------------------------
(* The past stands: when the frame has grown and the panel is built again, no
   row that was there says anything else.  A column that peeked at a later bar
   would change with it (features/pipeline.py: every step is trailing-only or
   shifted forward; the windows of a day and the sweep are computed from rows
   on both sides). *)
Stands(old, new) == \A k \in DOMAIN old \cap DOMAIN new : new[k] = old[k]
PastStands == [][Stands(panel, panel')]_panelVars

(* The clock's columns, computed for the whole frame by expressions of their
   own, say of every row what SessionCalendar says of its instant, and the
   trading date they group a day by is the one whose sessions it falls in
   (features/time_of_day.py: "agrees with SessionCalendar row-by-row"). *)
SessionsAgree ==
  \A k \in DOMAIN panel :
    LET t == panel[k].time
    IN /\ panel[k].session_name = session_of(t)
       /\ panel[k].session_phase = time_of_day_bucket(t)
       /\ panel[k].lunch_zone_flag = is_lunch_dead_zone(t)
       /\ panel[k].session_date = TradingDate(t)
=============================================================================
