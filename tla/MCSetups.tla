------------------------------ MODULE MCSetups ------------------------------
(* Two days of two hourly bars and the day after.  Ratios are in tenths; the
   thresholds keep the order of the configuration's.  The hourly frame's bars
   are of a Friday (date 4), its night, and the Tuesday after a holiday. *)
EXTENDS SignalInputs

Up == [ema_diff |-> 1, slope |-> 2, structure |-> "HH", vwap |-> 2, rv |-> 5, volume |-> 1,
       compression |-> 0]
Down == [Up EXCEPT !.ema_diff = -1, !.slope = -2, !.structure = "LL", !.vwap = -2]
Days == {Up, Down,
         [Up EXCEPT !.rv = 10], [Down EXCEPT !.volume = 4],       \* panic
         [Up EXCEPT !.rv = NULL], [Down EXCEPT !.volume = NULL],  \* warm-up
         [Up EXCEPT !.compression = NULL],
         [Up EXCEPT !.slope = 1], [Down EXCEPT !.vwap = -1],      \* in the deadband
         [Up EXCEPT !.structure = NULL], [Down EXCEPT !.vwap = NULL],
         [Up EXCEPT !.ema_diff = 0, !.rv = 2, !.compression = 1]} \* range_low_vol

TrailingA == {[dist |-> x, atr_ratio |-> a, squeeze |-> q, volume |-> v] :
                x \in {-1, 0, 1}, a \in {1, NULL}, q \in {1, 2}, v \in {1, NULL}}
TrailingB == {[volume |-> v] : v \in {0, 1, NULL}}
TrailingColumns == [s \in Strategies |-> IF s = "B" THEN TrailingB ELSE TrailingA]

\* Every row that Joined can make.
Levels == {<<NULL, NULL>>} \cup {l \in {0, 1, 2} \X {0, 1, 2} : l[1] <= l[2]}
Structures == BullishStructure \cup BearishStructure \cup {NULL}
Prices == 0 .. 2
HourlySwing ==
  {Joined([strategy |-> "A", close |-> c, structure |-> h, sweep |-> z,
           swing_low |-> l[1], swing_high |-> l[2]], x) :
     c \in Prices, h \in Structures, z \in BOOLEAN, l \in Levels, x \in TrailingA}
HourlyB ==
  {Joined([strategy |-> "B", close |-> c, lunch |-> z, or_low |-> l[1], or_high |-> l[2]], x) :
     c \in Prices, z \in BOOLEAN, l \in Levels, x \in TrailingB}
Hourly == [s \in Strategies |-> IF s = "B" THEN HourlyB ELSE HourlySwing]

LongOnly == [long |-> {"trend_up"}, short |-> {}]
Open == [long |-> Regimes, short |-> Regimes]
GateConfigs == {LongOnly, Open}

Bangkok(d, h, m) == d * Day + (h - 7) * 60 + m
OpenHolidays == {7}
BarTimes == {Bangkok(4, 9, 45), Bangkok(4, 10, 15), Bangkok(4, 12, 15), Bangkok(4, 16, 45),
             Bangkok(4, 18, 45), Bangkok(5, 0, 30), Bangkok(8, 9, 45), Bangkok(8, 10, 45)}
Candle(o, h, l, c) == [open |-> o, high |-> h, low |-> l, close |-> c]
BarCandles == {Candle(1, 1, 1, 1), Candle(1, 2, 1, 2), Candle(1, 1, 0, 0)}
=============================================================================
