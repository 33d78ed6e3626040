------------------------- MODULE SignalInputsProofs -------------------------
(***************************************************************************)
(* Proofs about the signal pipeline: about Panel for all candles, instants *)
(* and window lengths, about Setups for all feature rows, thresholds and   *)
(* gates, and about SignalInputs, where the rows that Setups joins days to *)
(* come from the panel.                                                    *)
(***************************************************************************)
EXTENDS SignalInputs, SetInduction, TLAPS

-----------------------------------------------------------------------------
(* The panel. *)

Bars == [time : Int, open : Int, high : Int, low : Int, close : Int]
InOrder(b) == \A i \in DOMAIN b, j \in DOMAIN b : i < j => b[i].time < b[j].time

(* The inductive invariant: the frame is in the order of time, and the panel
   was built from it. *)
FrameInv ==
  /\ bars \in Seq(Bars) /\ InOrder(bars)
  /\ panel = build_panel(bars)
-----------------------------------------------------------------------------
\* The clock: date and minute of an instant determine it.
LEMMA ClockFacts ==
  ASSUME NEW t \in Int
  PROVE  /\ DateOf(t) \in Int /\ MinuteOf(t) \in 0 .. 1439
         /\ t = 1440 * DateOf(t) + MinuteOf(t)
<1>1. t \div 1440 \in Int /\ t % 1440 \in 0 .. 1439 /\ t = 1440 * (t \div 1440) + (t % 1440)
  OBVIOUS
<1>2. QED
  BY <1>1 DEF DateOf, MinuteOf, Day

LEMMA Constants ==
  /\ NightTail = 180 /\ Opens.morning = 585 /\ Closes.morning = 750
  /\ Opens.afternoon = 825 /\ Closes.afternoon = 1015 /\ Opens.night = 1125
BY DEF NightTail, Opens, Closes, Day

\* A bar's day is the one its session started on.
LEMMA DayOfBar ==
  ASSUME NEW bar \in Bars
  PROVE  /\ session_date(bar) = TradingDate(bar.time) /\ session_date(bar) \in Int
         /\ minute(bar) \in 0 .. 1439
         /\ bar.time + 420 = 1440 * DateOf(to_bkk(bar.time)) + minute(bar)
<1> DEFINE u == bar.time + 420
<1>1. u \in Int /\ to_bkk(bar.time) = u
  BY DEF Bars, to_bkk
<1> HIDE DEF u
<1>2. /\ DateOf(u) \in Int /\ MinuteOf(u) \in 0 .. 1439 /\ u = 1440 * DateOf(u) + MinuteOf(u)
  BY <1>1, ClockFacts
<1>3. PICK v \in Int : v = u - 180
  BY <1>1
<1>4. DateOf(v) \in Int /\ MinuteOf(v) \in 0 .. 1439 /\ v = 1440 * DateOf(v) + MinuteOf(v)
  BY ClockFacts
<1>5. DateOf(v) = IF MinuteOf(u) < 180 THEN DateOf(u) - 1 ELSE DateOf(u)
  <2> DEFINE d == DateOf(u)
             m == MinuteOf(u)
             e == DateOf(v)
             l == MinuteOf(v)
  <2>1. d \in Int /\ e \in Int /\ m \in 0 .. 1439 /\ l \in 0 .. 1439
        /\ 1440 * d + m - 180 = 1440 * e + l
    BY <1>1, <1>2, <1>3, <1>4
  <2> HIDE DEF d, m, e, l
  <2>2. e = IF m < 180 THEN d - 1 ELSE d
    BY <2>1
  <2>3. QED
    BY <2>2 DEF d, m, e
<1>6. minute(bar) = MinuteOf(u)
  BY <1>1 DEF minute
<1>7. session_date(bar) = IF MinuteOf(u) < 180 THEN DateOf(u) - 1 ELSE DateOf(u)
  BY <1>1, <1>6, Constants DEF session_date
<1>8. TradingDate(bar.time) = DateOf(v)
  BY <1>1, <1>3, Constants DEF TradingDate
<1>9. QED
  BY <1>1, <1>2, <1>5, <1>6, <1>7, <1>8 DEF u

\* A later bar is not of an earlier day, nor later in the morning of an earlier
\* minute.
LEMMA DaysAdvance ==
  ASSUME NEW p \in Bars, NEW q \in Bars, p.time < q.time
  PROVE  /\ session_date(p) <= session_date(q)
         /\ session_date(p) = session_date(q) /\ minute(p) >= 180 /\ minute(q) >= 180 =>
              minute(p) < minute(q)
<1> DEFINE d == DateOf(to_bkk(p.time))
           e == DateOf(to_bkk(q.time))
           m == minute(p)
           l == minute(q)
<1>1. /\ d \in Int /\ e \in Int /\ m \in 0 .. 1439 /\ l \in 0 .. 1439
      /\ p.time + 420 = 1440 * d + m /\ q.time + 420 = 1440 * e + l
  <2>1. to_bkk(p.time) \in Int /\ to_bkk(q.time) \in Int
    BY DEF Bars, to_bkk
  <2>2. QED
    BY <2>1, DayOfBar, ClockFacts
<1>2. p.time \in Int /\ q.time \in Int
  BY DEF Bars
<1>3. /\ session_date(p) = IF m < 180 THEN d - 1 ELSE d
      /\ session_date(q) = IF l < 180 THEN e - 1 ELSE e
  BY Constants DEF session_date
<1> HIDE DEF d, e, m, l
<1>4. 1440 * d + m < 1440 * e + l
  BY <1>1, <1>2
<1>5. d <= e /\ (d = e => m < l) 
  BY <1>1, <1>4
<1>6. /\ session_date(p) <= session_date(q)
      /\ session_date(p) = session_date(q) /\ m >= 180 /\ l >= 180 => m < l
  BY <1>1, <1>3, <1>5
<1>7. QED
  BY <1>6 DEF m, l

-----------------------------------------------------------------------------
\* What a frame looks like after another bar.
LEMMA Grows ==
  ASSUME NEW b \in Seq(Bars), NEW x \in Bars, InOrder(Append(b, x))
  PROVE  /\ Len(b) \in Nat /\ DOMAIN b = 1 .. Len(b)
         /\ DOMAIN Append(b, x) = 1 .. Len(b) + 1
         /\ \A j \in 1 .. Len(b) : Append(b, x)[j] = b[j] /\ b[j] \in Bars
         /\ Append(b, x)[Len(b) + 1] = x
         /\ \A j \in 1 .. Len(b) : b[j].time < x.time
         /\ InOrder(b)
<1>1. /\ Len(b) \in Nat /\ DOMAIN b = 1 .. Len(b)
      /\ DOMAIN Append(b, x) = 1 .. Len(b) + 1
      /\ Append(b, x)[Len(b) + 1] = x
  OBVIOUS
<1>2. \A j \in 1 .. Len(b) : Append(b, x)[j] = b[j] /\ b[j] \in Bars
  OBVIOUS
<1>3. \A i \in 1 .. Len(b) + 1, j \in 1 .. Len(b) + 1 :
        i < j => Append(b, x)[i].time < Append(b, x)[j].time
  BY <1>1 DEF InOrder
<1>4. \A j \in 1 .. Len(b) : b[j].time < x.time
  BY <1>1, <1>2, <1>3
<1>5. InOrder(b)
  <2>1. SUFFICES ASSUME NEW i \in 1 .. Len(b), NEW j \in 1 .. Len(b), i < j
                 PROVE  b[i].time < b[j].time
    BY <1>1 DEF InOrder
  <2>2. i \in 1 .. Len(b) + 1 /\ j \in 1 .. Len(b) + 1
    BY <1>1
  <2>3. QED
    BY <1>2, <1>3, <2>1, <2>2
<1>6. QED
  BY <1>1, <1>2, <1>4, <1>5

\* A window that is over for a row gets no bar more: a later bar is of a later
\* minute or of a later day.
LEMMA WindowStands ==
  ASSUME NEW b \in Seq(Bars), NEW x \in Bars, InOrder(Append(b, x)),
         NEW k \in 1 .. Len(b), NEW w \in Nat
  PROVE  /\ WindowHigh(Append(b, x), k, w) = WindowHigh(b, k, w)
         /\ WindowLow(Append(b, x), k, w) = WindowLow(b, k, w)
<1> DEFINE c == Append(b, x)
           In(f) == {i \in SameDay(f, k) : InWindow(f[i], w)}
<1>1. /\ Len(b) \in Nat /\ DOMAIN b = 1 .. Len(b) /\ DOMAIN c = 1 .. Len(b) + 1
      /\ \A j \in 1 .. Len(b) : c[j] = b[j] /\ b[j] \in Bars
      /\ c[Len(b) + 1] = x /\ b[k].time < x.time
  BY Grows
<1> HIDE DEF c
<1>2. ASSUME WindowClosed(b[k], w) PROVE Len(b) + 1 \notin In(c)
  <2>1. SUFFICES ASSUME session_date(x) = session_date(b[k]), InWindow(x, w) PROVE FALSE
    BY <1>1 DEF SameDay
  <2>2. minute(x) >= 585 /\ minute(x) < 585 + w /\ minute(b[k]) >= 585 + w
    BY <1>2, <2>1, Constants DEF InWindow, WindowClosed
  <2>3. b[k] \in Bars /\ minute(b[k]) \in 0 .. 1439 /\ minute(x) \in 0 .. 1439
    BY <1>1, DayOfBar
  <2> DEFINE m == minute(b[k])
             l == minute(x)
  <2>4. m >= 180 /\ l >= 180 => m < l
    BY <1>1, <2>1, <2>3, DaysAdvance
  <2>5. m \in 0 .. 1439 /\ l \in 0 .. 1439 /\ l >= 585 /\ l < 585 + w /\ m >= 585 + w
    BY <2>2, <2>3
  <2> HIDE DEF m, l
  <2>6. QED
    BY <2>4, <2>5
<1>3. \A j \in 1 .. Len(b) : j \in In(c) <=> j \in In(b)
  BY <1>1 DEF SameDay
<1>4. ASSUME WindowClosed(b[k], w) PROVE In(c) = In(b)
  <2>1. In(c) \subseteq 1 .. Len(b) + 1 /\ In(b) \subseteq 1 .. Len(b)
    BY <1>1 DEF SameDay
  <2>2. \A j \in 1 .. Len(b) + 1 : j \in 1 .. Len(b) \/ j = Len(b) + 1
    BY <1>1
  <2> HIDE DEF In
  <2>3. \A j \in In(c) : j \in In(b)
    BY <1>2, <1>3, <1>4, <2>1, <2>2
  <2>4. \A j \in In(b) : j \in In(c)
    BY <1>3, <2>1
  <2>5. QED
    BY <2>3, <2>4
<1>5. c[k] = b[k] /\ In(b) \subseteq 1 .. Len(b)
  BY <1>1 DEF SameDay
<1> HIDE DEF In
<1>6. WindowClosed(b[k], w) =>
        /\ {c[j].high : j \in In(c)} = {b[j].high : j \in In(b)}
        /\ {c[j].low : j \in In(c)} = {b[j].low : j \in In(b)}
  BY <1>1, <1>4, <1>5
<1>7. QED
  BY <1>5, <1>6 DEF WindowHigh, WindowLow, In, c

\* A day's first bar stays its first, and the day before is complete.
LEMMA DayStands ==
  ASSUME NEW b \in Seq(Bars), NEW x \in Bars, InOrder(Append(b, x)), NEW k \in 1 .. Len(b)
  PROVE  /\ session_open(Append(b, x), k) = session_open(b, k)
         /\ prev_close(Append(b, x), k) = prev_close(b, k)
         /\ prev_high(Append(b, x), k) = prev_high(b, k)
         /\ prev_low(Append(b, x), k) = prev_low(b, k)
<1> DEFINE c == Append(b, x)
           n == Len(b)
<1>1. /\ n \in Nat /\ DOMAIN b = 1 .. n /\ DOMAIN c = 1 .. n + 1
      /\ \A j \in 1 .. n : c[j] = b[j] /\ b[j] \in Bars
      /\ c[n + 1] = x /\ \A j \in 1 .. n : b[j].time < x.time
      /\ InOrder(b)
  BY Grows
<1> HIDE DEF c, n
<1>2. k \in 1 .. n
  BY DEF n
<1>3. \A j \in 1 .. n : session_date(b[j]) \in Int /\ b[j].time \in Int
  <2>1. \A bar \in Bars : bar.time \in Int
    BY DEF Bars
  <2>2. QED
    BY <1>1, <2>1, DayOfBar
<1>4. x.time \in Int /\ session_date(x) \in Int /\ session_date(b[k]) <= session_date(x)
  <2>1. \A bar \in Bars : bar.time \in Int
    BY DEF Bars
  <2>2. QED
    BY <1>1, <1>2, <2>1, DayOfBar, DaysAdvance
<1>5. session_open(c, k) = session_open(b, k)
  <2> DEFINE S == SameDay(b, k)
  <2>1. S \subseteq 1 .. n /\ k \in S
    BY <1>1, <1>2 DEF SameDay
  <2>2. SameDay(c, k) = S \/ SameDay(c, k) = S \cup {n + 1}
    <3>1. \A j \in 1 .. n : j \in SameDay(c, k) <=> j \in S
      BY <1>1, <1>2 DEF SameDay
    <3>2. SameDay(c, k) \subseteq 1 .. n + 1
      BY <1>1 DEF SameDay
    <3>3. \A j \in 1 .. n + 1 : j \in 1 .. n \/ j = n + 1
      BY <1>1
    <3> HIDE DEF S
    <3>4. SameDay(c, k) \subseteq S \cup {n + 1}
      BY <3>1, <3>2, <3>3
    <3>5. S \subseteq SameDay(c, k)
      BY <2>1, <3>1
    <3>6. QED
      BY <3>4, <3>5
  <2> HIDE DEF S
  <2>3. PICK m \in S : \A i \in S : m <= i
    <3>1. S \in SUBSET Int /\ S # {} /\ 1 \in Int /\ \A i \in S : 1 <= i
      BY <1>1, <2>1
    <3>2. QED
      BY <3>1, LeastExists, Zenon
  <2>4. m \in 1 .. n /\ \A i \in S : i \in 1 .. n
    BY <2>1
  <2>5. \A i \in S : i # m => b[m].time < b[i].time
    <3>1. ASSUME NEW i \in S, i # m PROVE b[m].time < b[i].time
      <4>1. m < i
        BY <1>1, <2>3, <2>4, <3>1
      <4>2. QED
        BY <1>1, <2>4, <4>1 DEF InOrder
    <3>2. QED
      BY <3>1
  <2>6. First(b, S) = m
    <3>1. \A i \in S : b[m].time <= b[i].time
      BY <1>3, <2>4, <2>5
    <3>2. \A j \in S : (\A i \in S : b[j].time <= b[i].time) => j = m
      BY <1>3, <2>3, <2>4, <2>5
    <3>3. QED
      BY <3>1, <3>2 DEF First
  <2>7. First(c, SameDay(c, k)) = m
    <3> DEFINE T == SameDay(c, k)
    <3>1. m \in T /\ \A i \in T : i # m => c[m].time < c[i].time
      BY <1>1, <2>2, <2>3, <2>4, <2>5
    <3>2. \A i \in T : c[i].time \in Int
      BY <1>1, <1>3, <1>4, <2>2, <2>4
    <3> HIDE DEF T
    <3>3. \A i \in T : c[m].time <= c[i].time
      BY <3>1, <3>2
    <3>4. \A j \in T : (\A i \in T : c[j].time <= c[i].time) => j = m
      BY <3>1, <3>2
    <3>5. First(c, T) = m
      BY <3>1, <3>3, <3>4 DEF First
    <3>6. QED
      BY <3>5 DEF T
  <2>8. QED
    BY <1>1, <2>4, <2>6, <2>7 DEF session_open, S
<1>6. EarlierDates(c, k) = EarlierDates(b, k)
  <2> DEFINE Dates(f) == {session_date(f[j]) : j \in DOMAIN f}
  <2>1. Dates(c) \subseteq Dates(b) \cup {session_date(x)}
    <3>1. \A j \in 1 .. n + 1 : j \in 1 .. n \/ j = n + 1
      BY <1>1
    <3>2. QED
      BY <1>1, <3>1
  <2>2. Dates(b) \subseteq Dates(c)
    <3>1. \A j \in 1 .. n : j \in 1 .. n + 1
      BY <1>1
    <3>2. QED
      BY <1>1, <3>1
  <2>3. EarlierDates(c, k) = {d \in Dates(c) : d < session_date(b[k])}
        /\ EarlierDates(b, k) = {d \in Dates(b) : d < session_date(b[k])}
    BY <1>1, <1>2 DEF EarlierDates
  <2>4. ~(session_date(x) < session_date(b[k]))
    BY <1>2, <1>3, <1>4
  <2> HIDE DEF Dates
  <2>5. QED
    BY <2>1, <2>2, <2>3, <2>4
<1>7. session_date(x) \notin EarlierDates(b, k)
  BY <1>2, <1>3, <1>4 DEF EarlierDates
<1>8. DayBefore(c, k) = DayBefore(b, k) /\ DayBefore(b, k) \subseteq 1 .. n
  <2>1. \A j \in 1 .. n : j \in DayBefore(c, k) <=> j \in DayBefore(b, k)
    BY <1>1, <1>6 DEF DayBefore
  <2>2. n + 1 \notin DayBefore(c, k)
    BY <1>1, <1>6, <1>7 DEF DayBefore
  <2>3. DayBefore(c, k) \subseteq 1 .. n + 1 /\ DayBefore(b, k) \subseteq 1 .. n
    BY <1>1 DEF DayBefore
  <2>4. \A j \in 1 .. n + 1 : j \in 1 .. n \/ j = n + 1
    BY <1>1
  <2>5. QED
    BY <2>1, <2>2, <2>3, <2>4
<1>9. DayBefore(b, k) # {} => Last(b, DayBefore(b, k)) \in 1 .. n
                             /\ Last(c, DayBefore(b, k)) = Last(b, DayBefore(b, k))
  <2> DEFINE S == DayBefore(b, k)
  <2>1. SUFFICES ASSUME S # {} PROVE Last(b, S) \in S /\ Last(c, S) = Last(b, S)
    BY <1>8
  <2> HIDE DEF S
  <2>2. \A i \in S : i \in 1 .. n /\ c[i] = b[i]
    BY <1>1, <1>8 DEF S
  <2>3. PICK m \in S : \A i \in S : i <= m
    <3>1. S \in SUBSET Int /\ n \in Int /\ \A i \in S : i <= n
      BY <1>1, <2>2
    <3>2. QED
      BY <2>1, <3>1, GreatestExists, Zenon
  <2>4. \A i \in S : i # m => b[i].time < b[m].time
    <3>1. ASSUME NEW i \in S, i # m PROVE b[i].time < b[m].time
      <4>1. i < m
        BY <1>1, <2>2, <2>3, <3>1
      <4>2. QED
        BY <1>1, <2>2, <4>1 DEF InOrder
    <3>2. QED
      BY <3>1
  <2>5. \A i \in S : b[i].time \in Int
    BY <1>3, <2>2
  <2>6. Last(b, S) = m
    <3>1. \A i \in S : b[i].time <= b[m].time
      BY <2>4, <2>5
    <3>2. \A j \in S : (\A i \in S : b[i].time <= b[j].time) => j = m
      BY <2>4, <2>5
    <3>3. QED
      BY <3>1, <3>2 DEF Last
  <2>7. Last(c, S) = m
    <3>1. \A i \in S : c[i].time <= c[m].time
      BY <2>2, <2>4, <2>5
    <3>2. \A j \in S : (\A i \in S : c[i].time <= c[j].time) => j = m
      BY <2>2, <2>4, <2>5
    <3>3. QED
      BY <3>1, <3>2 DEF Last
  <2>8. QED
    BY <2>6, <2>7
<1>10. prev_close(c, k) = prev_close(b, k)
  BY <1>1, <1>8, <1>9 DEF prev_close
<1>11. /\ {c[j].high : j \in DayBefore(c, k)} = {b[j].high : j \in DayBefore(b, k)}
       /\ {c[j].low : j \in DayBefore(c, k)} = {b[j].low : j \in DayBefore(b, k)}
  BY <1>1, <1>8
<1>12. QED
  BY <1>5, <1>10, <1>11 DEF prev_high, prev_low, c

-----------------------------------------------------------------------------
\* What is said of row k from bars that k has seen.
LEMMA LevelsStand ==
  ASSUME NEW b \in Seq(Bars), NEW x \in Bars, InOrder(Append(b, x)),
         NEW k \in 1 .. Len(b), NEW w \in Nat \ {0}
  PROVE  /\ HighBefore(Append(b, x), k, w) = HighBefore(b, k, w)
         /\ LowBefore(Append(b, x), k, w) = LowBefore(b, k, w)
<1> DEFINE c == Append(b, x)
<1>1. Len(b) \in Nat /\ \A j \in 1 .. Len(b) : c[j] = b[j]
  BY Grows
<1> HIDE DEF c
<1>2. k > w => \A j \in k - w .. k - 1 : c[j] = b[j]
  <2>1. k > w => \A j \in k - w .. k - 1 : j \in 1 .. Len(b)
    BY <1>1
  <2>2. QED
    BY <1>1, <2>1
<1>3. k > w => /\ {c[j].high : j \in k - w .. k - 1} = {b[j].high : j \in k - w .. k - 1}
               /\ {c[j].low : j \in k - w .. k - 1} = {b[j].low : j \in k - w .. k - 1}
  BY <1>2
<1>4. k \in Int /\ w \in Int
  OBVIOUS
<1>5. k <= w \/ k > w
  BY <1>4
<1>6. HighBefore(c, k, w) = HighBefore(b, k, w) /\ LowBefore(c, k, w) = LowBefore(b, k, w)
  BY <1>3, <1>5 DEF HighBefore, LowBefore
<1>7. QED
  BY <1>6 DEF c

\* The bars that confirm a sweep are all there when it is told.
LEMMA SweepStands ==
  ASSUME NEW b \in Seq(Bars), NEW x \in Bars, InOrder(Append(b, x)), NEW k \in 1 .. Len(b)
  PROVE  liquidity_sweep_flag(Append(b, x), k) = liquidity_sweep_flag(b, k)
<1> DEFINE c == Append(b, x)
           j == k - liquidity_confirm_bars
<1>1. liquidity_confirm_bars \in Nat \ {0} /\ liquidity_lookback \in Nat \ {0}
  BY PanelAssumption
<1>2. j >= 1 => j \in 1 .. Len(b)
  BY <1>1, Grows
<1>3. /\ DOMAIN b = 1 .. Len(b) /\ DOMAIN c = 1 .. Len(b) + 1 /\ Len(b) \in Nat
      /\ \A i \in 1 .. Len(b) : c[i] = b[i]
  BY Grows
<1>4. j + liquidity_confirm_bars = k /\ j \in Int
  BY <1>1
<1>5. j >= 1 => /\ HighBefore(c, j, liquidity_lookback) = HighBefore(b, j, liquidity_lookback)
                /\ LowBefore(c, j, liquidity_lookback) = LowBefore(b, j, liquidity_lookback)
  BY <1>1, <1>2, LevelsStand
<1> HIDE DEF c, j
<1>6. j >= 1 => NextCloses(c, j) = NextCloses(b, j)
  <2>1. SUFFICES ASSUME j >= 1 PROVE NextCloses(c, j) = NextCloses(b, j)
    OBVIOUS
  <2>2. j + 1 .. k \subseteq 1 .. Len(b)
    BY <1>3, <1>4, <2>1
  <2>3. (DOMAIN c) \cap (j + 1 .. k) = j + 1 .. k /\ (DOMAIN b) \cap (j + 1 .. k) = j + 1 .. k
    BY <1>3, <2>2
  <2>4. \A i \in j + 1 .. k : c[i] = b[i]
    BY <1>3, <2>2
  <2>5. /\ NextCloses(c, j) = {c[i].close : i \in j + 1 .. k}
        /\ NextCloses(b, j) = {b[i].close : i \in j + 1 .. k}
    BY <1>4, <2>3 DEF NextCloses
  <2>6. QED
    BY <2>4, <2>5
<1>7. j >= 1 => SweptUp(c, j) = SweptUp(b, j) /\ SweptDown(c, j) = SweptDown(b, j)
  BY <1>2, <1>3, <1>5, <1>6 DEF SweptUp, SweptDown
<1>8. QED
  BY <1>7 DEF liquidity_sweep_flag, c, j

\* A set of rows has a latest.
LEMMA LatestRow ==
  ASSUME NEW n \in Nat, NEW S \in SUBSET (1 .. n), S # {}
  PROVE  Latest(S) \in S
<1>1. S \in SUBSET Int /\ n \in Int /\ \A i \in S : i <= n
  OBVIOUS
<1>2. \E m \in S : \A i \in S : i <= m
  BY <1>1, GreatestExists, Zenon
<1>3. QED
  BY <1>2, Zenon DEF Latest

\* The pivots that rows up to k confirm are of bars up to k.
LEMMA StructureStands ==
  ASSUME NEW b \in Seq(Bars), NEW x \in Bars, InOrder(Append(b, x)), NEW k \in 1 .. Len(b)
  PROVE  structure(Append(b, x), k) = structure(b, k)
<1> DEFINE c == Append(b, x)
           n == Len(b)
<1>1. n \in Nat /\ \A j \in 1 .. n : c[j] = b[j]
  BY Grows
<1>2. swing_lookback \in Nat \ {0}
  BY PanelAssumption
<1> HIDE DEF c, n
<1>3. k \in 1 .. n
  BY DEF n
<1>4. \A j \in 1 .. k : Confirming(j) => Around(j) \subseteq 1 .. n /\ Pivot(j) \in 1 .. n
  BY <1>1, <1>2, <1>3 DEF Confirming, Around, Pivot
<1>5. \A j \in 1 .. k : PivotHigh(c, j) = PivotHigh(b, j) /\ PivotLow(c, j) = PivotLow(b, j)
  <2>1. SUFFICES ASSUME NEW j \in 1 .. k, Confirming(j)
                 PROVE  PivotHigh(c, j) = PivotHigh(b, j) /\ PivotLow(c, j) = PivotLow(b, j)
    BY DEF PivotHigh, PivotLow
  <2>2. c[j - swing_lookback] = b[j - swing_lookback] /\ \A i \in Around(j) : c[i] = b[i]
    BY <1>1, <1>4, <2>1 DEF Pivot
  <2>3. QED
    BY <2>2 DEF PivotHigh, PivotLow
<1>6. HighRows(c, k) = HighRows(b, k) /\ LowRows(c, k) = LowRows(b, k)
  BY <1>5 DEF HighRows, LowRows
<1>7. ASSUME NEW S \in SUBSET (1 .. k), S \in {HighRows(b, k), LowRows(b, k)}, AtLeastTwo(S)
      PROVE  /\ c[Pivot(Latest(S))] = b[Pivot(Latest(S))]
             /\ c[Pivot(Latest(S \ {Latest(S)}))] = b[Pivot(Latest(S \ {Latest(S)}))]
  <2>1. \A j \in S : j \in 1 .. k /\ Confirming(j)
    BY <1>7 DEF HighRows, LowRows, PivotHigh, PivotLow
  <2>2. k \in Nat /\ S # {} /\ S \ {Latest(S)} # {}
    <3>1. PICK i \in S, j \in S : i < j
      BY <1>7 DEF AtLeastTwo
    <3>2. i # j
      BY <2>1, <3>1
    <3>3. QED
      BY <1>1, <1>3, <3>1, <3>2
  <2>3. Latest(S) \in S
    BY <2>2, LatestRow
  <2>4. Latest(S \ {Latest(S)}) \in S
    <3>1. S \ {Latest(S)} \in SUBSET (1 .. k)
      OBVIOUS
    <3>2. QED
      BY <2>2, <3>1, LatestRow
  <2>5. QED
    BY <1>1, <1>4, <2>1, <2>3, <2>4
<1>8. HighRows(b, k) \in SUBSET (1 .. k) /\ LowRows(b, k) \in SUBSET (1 .. k)
  BY DEF HighRows, LowRows
<1>9. AtLeastTwo(HighRows(b, k)) =>
        /\ c[Pivot(Latest(HighRows(b, k)))] = b[Pivot(Latest(HighRows(b, k)))]
        /\ c[Pivot(Latest(HighRows(b, k) \ {Latest(HighRows(b, k))}))] =
             b[Pivot(Latest(HighRows(b, k) \ {Latest(HighRows(b, k))}))]
  BY <1>7, <1>8
<1>10. AtLeastTwo(LowRows(b, k)) =>
        /\ c[Pivot(Latest(LowRows(b, k)))] = b[Pivot(Latest(LowRows(b, k)))]
        /\ c[Pivot(Latest(LowRows(b, k) \ {Latest(LowRows(b, k))}))] =
             b[Pivot(Latest(LowRows(b, k) \ {Latest(LowRows(b, k))}))]
  BY <1>7, <1>8
<1>11. QED
  BY <1>6, <1>9, <1>10 DEF structure, c

\* No row of a panel changes when the frame grows by a bar.
LEMMA RowStands ==
  ASSUME NEW b \in Seq(Bars), NEW x \in Bars, InOrder(Append(b, x)), NEW k \in 1 .. Len(b)
  PROVE  PanelRow(Append(b, x), k) = PanelRow(b, k)
<1>1. Append(b, x)[k] = b[k]
  BY Grows
<1>2. /\ opening_range_minutes \in Nat /\ initial_balance_minutes \in Nat
      /\ swing_window \in Nat \ {0}
  BY PanelAssumption
<1>3. QED
  BY <1>1, <1>2, WindowStands, DayStands, LevelsStand, SweepStands, StructureStands DEF PanelRow

-----------------------------------------------------------------------------
LEMMA FrameInit == PanelInit => FrameInv
<1>1. ASSUME PanelInit PROVE FrameInv
  <2>1. bars = <<>> /\ panel = <<>>
    BY <1>1 DEF PanelInit
  <2>2. bars \in Seq(Bars) /\ DOMAIN bars = {} /\ Len(bars) = 0
    BY <2>1
  <2>3. InOrder(bars)
    BY <2>2 DEF InOrder
  <2>4. panel = build_panel(bars)
    BY <2>1, <2>2 DEF build_panel
  <2>5. QED
    BY <2>2, <2>3, <2>4 DEF FrameInv
<1>2. QED
  BY <1>1

\* The bar that closes comes after the others.
LEMMA StepInOrder ==
  ASSUME FrameInv, BarCloses
  PROVE  /\ FrameInv'
         /\ \E x \in Bars : bars' = Append(bars, x) /\ InOrder(Append(bars, x))
<1>1. PICK t \in Instants, c \in Candles :
        (\A k \in DOMAIN bars : bars[k].time < t) /\ bars' = Append(bars, Bar(t, c))
  BY DEF BarCloses
<1> DEFINE x == Bar(t, c)
<1>2. x \in Bars /\ x.time = t
  BY PanelAssumption DEF Bars, Bar
<1>3. bars \in Seq(Bars) /\ InOrder(bars)
  BY DEF FrameInv
<1>4. bars' = Append(bars, x)
  BY <1>1
<1> HIDE DEF x
<1>5. /\ Len(bars) \in Nat /\ DOMAIN bars = 1 .. Len(bars)
      /\ Append(bars, x) \in Seq(Bars) /\ DOMAIN Append(bars, x) = 1 .. Len(bars) + 1
      /\ Append(bars, x)[Len(bars) + 1] = x
      /\ \A k \in 1 .. Len(bars) : Append(bars, x)[k] = bars[k]
  BY <1>2, <1>3
<1>6. InOrder(Append(bars, x))
  <2>1. SUFFICES ASSUME NEW i \in 1 .. Len(bars) + 1, NEW j \in 1 .. Len(bars) + 1, i < j
                 PROVE  Append(bars, x)[i].time < Append(bars, x)[j].time
    BY <1>5 DEF InOrder
  <2>2. i \in 1 .. Len(bars)
    BY <1>5, <2>1
  <2>3. CASE j \in 1 .. Len(bars)
    BY <1>3, <1>5, <2>1, <2>2, <2>3 DEF InOrder
  <2>4. CASE j = Len(bars) + 1
    BY <1>1, <1>2, <1>5, <2>2, <2>4
  <2>5. QED
    BY <1>5, <2>3, <2>4
<1>7. panel' = build_panel(bars')
  BY DEF BarCloses
<1>8. QED
  BY <1>2, <1>4, <1>5, <1>6, <1>7 DEF FrameInv

LEMMA FrameStep == FrameInv /\ [BarCloses]_panelVars => FrameInv'
<1>1. ASSUME FrameInv, BarCloses PROVE FrameInv'
  BY <1>1, StepInOrder
<1>2. ASSUME FrameInv, UNCHANGED panelVars PROVE FrameInv'
  BY <1>2 DEF FrameInv, panelVars
<1>3. QED
  BY <1>1, <1>2

LEMMA StepStands == FrameInv /\ [BarCloses]_panelVars => [Stands(panel, panel')]_panelVars
<1>1. SUFFICES ASSUME FrameInv, BarCloses PROVE Stands(panel, panel')
  OBVIOUS
<1>2. PICK x \in Bars : bars' = Append(bars, x) /\ InOrder(Append(bars, x))
  BY <1>1, StepInOrder
<1>3. /\ bars \in Seq(Bars) /\ panel = build_panel(bars)
      /\ panel' = build_panel(Append(bars, x))
  BY <1>1, <1>2 DEF FrameInv, BarCloses
<1>4. SUFFICES ASSUME NEW k \in DOMAIN panel \cap DOMAIN panel' PROVE panel'[k] = panel[k]
  BY DEF Stands
<1>5. DOMAIN <<>> = {}
  OBVIOUS
<1>6. ~(Len(bars) < MinBars) /\ ~(Len(Append(bars, x)) < MinBars)
  BY <1>3, <1>4, <1>5 DEF build_panel
<1>7. /\ panel = [j \in DOMAIN bars |-> PanelRow(bars, j)]
      /\ panel' = [j \in DOMAIN Append(bars, x) |-> PanelRow(Append(bars, x), j)]
  BY <1>3, <1>6 DEF build_panel
<1>8. k \in DOMAIN bars /\ k \in DOMAIN Append(bars, x) /\ DOMAIN bars = 1 .. Len(bars)
  BY <1>3, <1>4, <1>7
<1>9. panel[k] = PanelRow(bars, k) /\ panel'[k] = PanelRow(Append(bars, x), k)
  BY <1>7, <1>8
<1>10. QED
  BY <1>2, <1>3, <1>8, <1>9, RowStands

(* However the frame grows and whatever the windows' lengths, a panel that is
   built again says of every earlier row what it said before: no column of
   build_panel looks ahead. *)
THEOREM NoColumnLooksAhead == PanelSpec => PastStands
<1>1. PanelSpec => []FrameInv
  BY FrameInit, FrameStep, PTL DEF PanelSpec
<1>2. QED
  BY <1>1, StepStands, PTL DEF PanelSpec, PastStands

-----------------------------------------------------------------------------
\* The clock's columns of one bar.
LEMMA BarAgrees ==
  ASSUME NEW bar \in Bars
  PROVE  /\ session_name(bar) = session_of(bar.time)
         /\ session_phase(bar) = time_of_day_bucket(bar.time)
         /\ lunch_zone_flag(bar) = is_lunch_dead_zone(bar.time)
         /\ session_date(bar) = TradingDate(bar.time)
<1> DEFINE m == minute(bar)
           d == DateOf(to_bkk(bar.time))
<1>1. m \in 0 .. 1439 /\ session_date(bar) = TradingDate(bar.time) /\ d \in Int
  <2>1. to_bkk(bar.time) \in Int
    BY DEF Bars, to_bkk
  <2>2. QED
    BY <2>1, DayOfBar, ClockFacts
<1>2. MinuteOf(to_bkk(bar.time)) = m
  BY DEF minute
<1>3. lunch_zone_flag(bar) = is_lunch_dead_zone(bar.time)
  BY <1>2 DEF lunch_zone_flag, is_lunch_dead_zone
<1>4. is_business_day(d) <=> (d % 7) + 1 <= 5 /\ d \notin Holidays
  <2>1. d % 7 \in 0 .. 6
    BY <1>1
  <2>2. QED
    BY <2>1 DEF is_business_day
<1> HIDE DEF m, d
<1>5. session_name(bar) = session_of(bar.time)
  <2>1. /\ session_name(bar) =
            IF ~is_business_day(d) THEN "closed"
            ELSE IF m < 180 THEN "night"
            ELSE IF m >= 585 /\ m < 750 THEN "morning"
            ELSE IF m >= 750 /\ m < 825 THEN "lunch"
            ELSE IF m >= 825 /\ m < 1015 THEN "afternoon"
            ELSE IF m >= 1125 THEN "night"
            ELSE "closed"
    BY <1>4, Constants DEF session_name, m, d
  <2>2. session_of(bar.time) =
          CASE ~is_business_day(d) -> "closed"
            [] OTHER ->
               CASE m < 180                -> "night"
                 [] 585 <= m /\ m < 750    -> "morning"
                 [] 750 <= m /\ m < 825    -> "lunch"
                 [] 825 <= m /\ m < 1015   -> "afternoon"
                 [] m >= 1125              -> "night"
                 [] OTHER                  -> "closed"
    BY <1>2, Constants DEF session_of, Within, d
  <2>3. QED
    BY <1>1, <2>1, <2>2
<1>6. session_phase(bar) = time_of_day_bucket(bar.time)
  <2>1. session_phase(bar) =
          IF m < 180 THEN "night" ELSE IF m < 585 THEN "pre-open"
          ELSE IF m < 615 THEN "open" ELSE IF m < 750 THEN "mid-morning"
          ELSE IF m < 825 THEN "lunch" ELSE IF m < 1000 THEN "afternoon"
          ELSE IF m < 1015 THEN "pre-close" ELSE IF m >= 1125 THEN "night" ELSE "pre-open"
    BY Constants DEF session_phase, m
  <2>2. time_of_day_bucket(bar.time) =
          CASE m < 180               -> "night"
            [] 180 <= m /\ m < 585   -> "pre-open"
            [] 585 <= m /\ m < 615   -> "open"
            [] 615 <= m /\ m < 750   -> "mid-morning"
            [] 750 <= m /\ m < 825   -> "lunch"
            [] 825 <= m /\ m < 1000  -> "afternoon"
            [] 1000 <= m /\ m < 1015 -> "pre-close"
            [] 1125 <= m             -> "night"
            [] OTHER                 -> "pre-open"
    BY <1>2, Constants DEF time_of_day_bucket
  <2>3. CASE m < 585
    BY <1>1, <2>1, <2>2, <2>3
  <2>4. CASE 585 <= m /\ m < 825
    BY <1>1, <2>1, <2>2, <2>4
  <2>5. CASE 825 <= m /\ m < 1125
    BY <1>1, <2>1, <2>2, <2>5
  <2>6. CASE 1125 <= m
    BY <1>1, <2>1, <2>2, <2>6
  <2>7. QED
    BY <1>1, <2>3, <2>4, <2>5, <2>6
<1>7. QED
  BY <1>1, <1>3, <1>5, <1>6

\* A panel that was built from its frame agrees with the calendar.
LEMMA AgreesByFrameInv == FrameInv => SessionsAgree
<1>1. SUFFICES ASSUME FrameInv, NEW k \in DOMAIN panel
               PROVE  LET t == panel[k].time
                      IN /\ panel[k].session_name = session_of(t)
                         /\ panel[k].session_phase = time_of_day_bucket(t)
                         /\ panel[k].lunch_zone_flag = is_lunch_dead_zone(t)
                         /\ panel[k].session_date = TradingDate(t)
  BY DEF SessionsAgree
<1>2. bars \in Seq(Bars) /\ panel = build_panel(bars)
  BY <1>1 DEF FrameInv
<1>3. DOMAIN <<>> = {}
  OBVIOUS
<1>4. panel = [j \in DOMAIN bars |-> PanelRow(bars, j)]
  BY <1>1, <1>2, <1>3 DEF build_panel
<1>5. k \in DOMAIN bars /\ panel[k] = PanelRow(bars, k) /\ bars[k] \in Bars
  BY <1>1, <1>2, <1>4
<1>6. /\ panel[k].time = bars[k].time
      /\ panel[k].session_name = session_name(bars[k])
      /\ panel[k].session_phase = session_phase(bars[k])
      /\ panel[k].lunch_zone_flag = lunch_zone_flag(bars[k])
      /\ panel[k].session_date = session_date(bars[k])
  BY <1>5 DEF PanelRow
<1>7. QED
  BY <1>5, <1>6, BarAgrees

(* The expressions that classify a whole frame and SessionCalendar, which
   classifies one instant, agree for every instant and list of holidays. *)
THEOREM ClocksAgree == PanelSpec => []SessionsAgree
BY AgreesByFrameInv, FrameInit, FrameStep, PTL DEF PanelSpec

-----------------------------------------------------------------------------
(* The setups. *)

(* What a day's labels say together: both come from the same features. *)
LabelAgrees(l) ==
  /\ l.bias = "long" => l.regime \in {"trend_up", "panic", "range_low_vol"}
  /\ l.bias = "short" => l.regime \in {"trend_down", "panic", "range_low_vol"}
  /\ ~l.known => l.regime = "range_low_vol"

(* What a signal says of its row. *)
RowAgrees(r) ==
  r.signal # "none" =>
    /\ r.strategy \in Active /\ r.known
    /\ r.regime = (IF r.signal = "long" THEN "trend_up" ELSE "trend_down")
    /\ r.trigger \in Int /\ r.stop \in Int
    /\ IF r.signal = "long" THEN r.stop < r.trigger ELSE r.stop > r.trigger

DaysAgree == \A d \in DOMAIN daily : daily[d].day = d /\ LabelAgrees(daily[d])
GateAgrees == stage \in {"gated", "setup"} /\ row.signal # "none" => row.regime \in gate[row.signal]

(* The inductive invariant: the days' labels agree with one another, and a row
   with a signal carries what makes it tradable, long before it is a setup. *)
IInv ==
  /\ TypeOK /\ DaysAgree /\ NoLookAhead /\ GateAgrees /\ stage # "error"
  /\ stage # "daily" => RowAgrees(row)
  /\ stage = "setup" => row.signal # "none"
-----------------------------------------------------------------------------
\* A label has its types, and its parts agree: a long bias needs what makes an
\* up trend unless an earlier rule of the regime applies.
LEMMA LabelFacts ==
  ASSUME NEW n \in 0 .. LastDay, NEW f \in DailyRows
  PROVE  Label(n, f) \in Labels /\ Label(n, f).day = n /\ LabelAgrees(Label(n, f))
<1>1. f \in DailyRow /\ SlopeDeadband \in Nat /\ VwapDeadband \in Nat
  BY ConfigAssumption
<1>2. Regime(f) \in Regimes /\ Bias(f, Regime(f)) \in {"long", "short", "neutral"}
  BY DEF Regime, Bias, Regimes
<1>3. LongBias(f, Regime(f)) => Regime(f) \in {"trend_up", "panic", "range_low_vol"}
  BY <1>1 DEF LongBias, Regime, TrendUp, Above, DailyRow, Num
<1>4. ShortBias(f, Regime(f)) => Regime(f) \in {"trend_down", "panic", "range_low_vol"}
  <2>1. SUFFICES ASSUME ShortBias(f, Regime(f)) PROVE TrendDown(f) /\ ~TrendUp(f)
    BY DEF Regime
  <2>2. QED
    BY <1>1, <2>1 DEF ShortBias, TrendUp, TrendDown, Above, Below, DailyRow, Num
<1>5. NULL \in {f.rv, f.compression, f.volume} => Regime(f) = "range_low_vol"
  BY DEF Regime, Insufficient
<1>6. QED
  BY <1>2, <1>3, <1>4, <1>5 DEF Label, Labels, LabelAgrees, Bias

\* A day can be used from its end.
LEMMA AvailableAtItsEnd ==
  ASSUME NEW d \in Int
  PROVE  AvailableAt(d) = EndOfDay(d)
BY ConfigAssumption DEF AvailableAt, EndOfDay

\* What is joined to an hour: the last day that has ended, or nothing.
LEMMA JoinedDay ==
  ASSUME TypeOK, DaysAgree, NEW t \in Int
  PROVE  /\ DayAt(t) = NoDay \/ (DayAt(t) \in Labels /\ LabelAgrees(DayAt(t)))
         /\ DayAt(t).day # NULL =>
              DayAt(t).day \in DOMAIN daily /\ EndOfDay(DayAt(t).day) <= t
         /\ \A d \in DOMAIN daily :
              EndOfDay(d) <= t => DayAt(t).day # NULL /\ d <= DayAt(t).day
<1>1. DOMAIN daily \in SUBSET Int /\ \A d \in DOMAIN daily : 0 <= d /\ d <= LastDay
  BY ConfigAssumption DEF TypeOK
<1>2. ClosedDays(t) = {d \in DOMAIN daily : EndOfDay(d) <= t}
  BY <1>1, AvailableAtItsEnd DEF ClosedDays
<1>3. CASE ClosedDays(t) = {}
  <2>1. DayAt(t) = NoDay /\ NoDay.day = NULL
    BY <1>3 DEF DayAt, NoDay
  <2>2. QED
    BY <1>2, <1>3, <2>1
<1>4. CASE ClosedDays(t) # {}
  <2> DEFINE m == LastClosed(t)
  <2>1. ClosedDays(t) \in SUBSET Int /\ LastDay \in Int
        /\ \A d \in ClosedDays(t) : d <= LastDay
    BY <1>1, <1>2, ConfigAssumption
  <2>2. \E x \in ClosedDays(t) : \A e \in ClosedDays(t) : e <= x
    BY <1>4, <2>1, GreatestExists, Zenon
  <2>3. m \in ClosedDays(t) /\ \A e \in ClosedDays(t) : e <= m
    BY <2>2, Zenon DEF LastClosed
  <2>4. DayAt(t) = daily[m]
    BY <1>4 DEF DayAt
  <2>5. m \in DOMAIN daily /\ EndOfDay(m) <= t /\ m # NULL
    BY <1>1, <1>2, <2>3, NullAssumption
  <2>6. daily[m] \in Labels /\ daily[m].day = m /\ LabelAgrees(daily[m])
    BY <2>5 DEF TypeOK, DaysAgree
  <2> HIDE DEF m
  <2>7. QED
    BY <1>2, <2>3, <2>4, <2>5, <2>6
<1>5. QED
  BY <1>3, <1>4

\* A strategy that is active fires only on a day of its trend, with its stop
\* behind its trigger.
LEMMA SignalFacts ==
  ASSUME NEW s \in Active, NEW t \in 0 .. LastTime, NEW b, WellLevelled(s, b),
         TypeOK, DaysAgree
  PROVE  Classified(s, t, b) \in Rows /\ RowAgrees(Classified(s, t, b))
<1> DEFINE d == DayAt(t)
           long == LongGate(s, b, d)
           short == ShortGate(s, b, d)
           r == Classified(s, t, b)
<1>1. t \in Int /\ s \in {"A", "B"} /\ s \in Strategies
  BY ConfigAssumption DEF Active, Strategies, LastTime
<1>2. d = NoDay \/ (d \in Labels /\ LabelAgrees(d))
  BY <1>1, JoinedDay
<1>3. d.regime \in Regimes \cup {NULL} /\ d.day \in 0 .. LastDay \cup {NULL} /\ d.known \in BOOLEAN
  <2>1. CASE d = NoDay
    BY <2>1 DEF NoDay
  <2>2. CASE d \in Labels
    BY <2>2 DEF Labels
  <2>3. QED
    BY <1>2, <2>1, <2>2
<1>4. /\ b.close \in Int
      /\ \/ LowLevel(s, b) = NULL /\ HighLevel(s, b) = NULL
         \/ LowLevel(s, b) \in Int /\ HighLevel(s, b) \in Int /\ LowLevel(s, b) <= HighLevel(s, b)
  BY DEF WellLevelled
<1>5. regimes_allowing(s) = {"trend_up", "trend_down"}
  BY <1>1 DEF regimes_allowing, allowed_strategies, Regimes
<1>6. long => /\ d.bias = "long" /\ d.regime \in {"trend_up", "trend_down"}
              /\ LowLevel(s, b) # NULL /\ HighLevel(s, b) # NULL /\ b.close > HighLevel(s, b)
  BY <1>1, <1>5 DEF LongGate, LongA, LongB, Above, LowLevel, HighLevel
<1>7. short => /\ d.bias = "short" /\ d.regime \in {"trend_up", "trend_down"}
               /\ LowLevel(s, b) # NULL /\ HighLevel(s, b) # NULL /\ b.close < LowLevel(s, b)
  BY <1>1, <1>5 DEF ShortGate, ShortA, ShortB, Below, LowLevel, HighLevel
<1>8. long => d.regime = "trend_up" /\ d.known
  BY <1>2, <1>6, NullAssumption DEF NoDay, LabelAgrees
<1>9. short => d.regime = "trend_down" /\ d.known
  BY <1>2, <1>7, NullAssumption DEF NoDay, LabelAgrees
<1> HIDE DEF long, short, d
<1>10. r = [strategy |-> s, time |-> t, joined |-> d.day, known |-> d.known,
            regime |-> d.regime, signal |-> direction_expr(long, short),
            trigger |-> IF direction_expr(long, short) = "none" THEN NULL ELSE b.close,
            stop |-> stop_expr(s, b, direction_expr(long, short))]
  BY DEF Classified, d, long, short
<1>11. CASE long
  <2>1. direction_expr(long, short) = "long" /\ stop_expr(s, b, "long") = LowLevel(s, b)
    BY <1>11 DEF direction_expr, stop_expr
  <2>2. /\ r.strategy = s /\ r.time = t /\ r.joined = d.day /\ r.known = d.known
        /\ r.regime = d.regime /\ r.signal = "long" /\ r.trigger = b.close
        /\ r.stop = LowLevel(s, b)
    BY <1>10, <2>1
  <2>3. r \in Rows
    BY <1>1, <1>3, <1>4, <1>10, <2>1 DEF Rows, Num
  <2>4. r.known /\ r.stop \in Int /\ r.trigger \in Int
    BY <1>4, <1>6, <1>8, <1>11, <2>2
  <2> HIDE DEF r
  <2>5. QED
    BY <1>1, <1>4, <1>6, <1>8, <1>11, <2>2, <2>3, <2>4 DEF RowAgrees, r
<1>12. CASE ~long /\ short
  <2>1. direction_expr(long, short) = "short" /\ stop_expr(s, b, "short") = HighLevel(s, b)
    BY <1>12 DEF direction_expr, stop_expr
  <2>2. /\ r.strategy = s /\ r.time = t /\ r.joined = d.day /\ r.known = d.known
        /\ r.regime = d.regime /\ r.signal = "short" /\ r.trigger = b.close
        /\ r.stop = HighLevel(s, b)
    BY <1>10, <2>1
  <2>3. r \in Rows
    BY <1>1, <1>3, <1>4, <1>10, <2>1 DEF Rows, Num
  <2>4. r.known /\ r.stop \in Int /\ r.trigger \in Int
    BY <1>4, <1>7, <1>9, <1>12, <2>2
  <2> HIDE DEF r
  <2>5. QED
    BY <1>1, <1>4, <1>7, <1>9, <1>12, <2>2, <2>3, <2>4 DEF RowAgrees, r
<1>13. CASE ~long /\ ~short
  <2>1. direction_expr(long, short) = "none" /\ stop_expr(s, b, "none") = NULL
    BY <1>13 DEF direction_expr, stop_expr
  <2>2. QED
    BY <1>1, <1>3, <1>10, <1>13, <2>1 DEF Rows, RowAgrees, Num
<1>14. QED
  BY <1>11, <1>12, <1>13

-----------------------------------------------------------------------------
LEMMA InitIInv ==
  ASSUME Init
  PROVE  IInv
<1>1. DOMAIN daily = {}
  BY DEF Init
<1>2. row.signal = "none"
  BY DEF Init, NoRow
<1>3. QED
  BY <1>1, <1>2, ConfigAssumption
     DEF Init, IInv, TypeOK, DaysAgree, NoLookAhead, GateAgrees

\* A row that is classified says what is known of the day before it.
LEMMA ClassifiedKeeps ==
  ASSUME IInv, NEW s \in Active, NEW t \in 0 .. LastTime, NEW b, WellLevelled(s, b),
         row' = Classified(s, t, b), stage' = "classified", UNCHANGED <<day, daily, gate>>
  PROVE  IInv'
<1>1. row' \in Rows /\ RowAgrees(row')
  BY SignalFacts DEF IInv
<1>2. t \in Int /\ row'.joined = DayAt(t).day /\ row'.time = t
  BY ConfigAssumption DEF Classified, LastTime
<1>3. NoLookAhead'
  <2>1. row'.joined # NULL => EndOfDay(row'.joined) <= row'.time
    BY <1>2, JoinedDay DEF IInv
  <2>2. \A d \in DOMAIN daily : EndOfDay(d) <= row'.time => row'.joined # NULL /\ d <= row'.joined
    BY <1>2, JoinedDay DEF IInv
  <2>3. QED
    BY <2>1, <2>2 DEF NoLookAhead, EndOfDay
<1>4. QED
  BY <1>1, <1>3 DEF IInv, TypeOK, DaysAgree, GateAgrees

LEMMA NextIInv ==
  ASSUME IInv, [Next]_vars
  PROVE  IInv'
<1>1. CASE ClassifyDay
  <2>1. stage' = stage /\ gate' = gate /\ row' = row /\ day' = day + 1 /\ stage = "daily" /\ day <= LastDay
    BY <1>1 DEF ClassifyDay
  <2>2. day \in 0 .. LastDay /\ LastDay \in Nat
    BY <2>1, ConfigAssumption DEF IInv, TypeOK
  <2>3. CASE daily' = daily
    BY <2>1, <2>2, <2>3 DEF IInv, TypeOK, DaysAgree, NoLookAhead, GateAgrees
  <2>4. ASSUME NEW f \in DailyRows,
               daily' = [d \in DOMAIN daily \cup {day} |-> IF d = day THEN Label(day, f) ELSE daily[d]]
        PROVE  IInv'
    <3>1. Label(day, f) \in Labels /\ Label(day, f).day = day /\ LabelAgrees(Label(day, f))
      BY <2>2, LabelFacts
    <3>2. DOMAIN daily' = DOMAIN daily \cup {day} /\ DOMAIN daily \subseteq 0 .. day - 1
      BY <2>4 DEF IInv, TypeOK
    <3>3. \A d \in DOMAIN daily' : daily'[d] \in Labels /\ daily'[d].day = d /\ LabelAgrees(daily'[d])
      BY <2>4, <3>1, <3>2 DEF IInv, TypeOK, DaysAgree
    <3>4. DOMAIN daily' \subseteq 0 .. day' - 1
      BY <2>1, <2>2, <3>2
    <3>5. daily' \in [DOMAIN daily' -> Labels]
      BY <2>4, <3>2, <3>3
    <3>6. QED
      BY <2>1, <2>2, <3>3, <3>4, <3>5 DEF IInv, TypeOK, DaysAgree, NoLookAhead, GateAgrees
  <2>5. QED
    BY <1>1, <2>3, <2>4 DEF ClassifyDay
<1>2. CASE ClassifyBar
  <2>1. stage' = "classified" /\ UNCHANGED <<day, daily, gate>>
    BY <1>2 DEF ClassifyBar
  <2>2. PICK s \in Active, t \in 0 .. LastTime : \E b \in HourlyRows[s] : row' = Classified(s, t, b)
    BY <1>2 DEF ClassifyBar
  <2>3. PICK b \in HourlyRows[s] : row' = Classified(s, t, b)
    BY <2>2
  <2>4. WellLevelled(s, b)
    BY HourlyAssumption DEF Active, Strategies
  <2>5. QED
    BY <2>1, <2>3, <2>4, ClassifiedKeeps
<1>3. CASE ApplyRegimeGate
  <2>1. /\ stage = "classified" /\ stage' = "gated"
        /\ UNCHANGED <<day, daily, gate>> /\ row' = [row EXCEPT !.signal = Kept(row)]
        /\ row \in Rows /\ RowAgrees(row)
    BY <1>3 DEF ApplyRegimeGate, IInv, TypeOK
  <2>2. \/ Kept(row) = "none"
        \/ Kept(row) = row.signal /\ row.signal \in {"long", "short"} /\ row.regime \in gate[row.signal]
    BY DEF Kept
  <2>3. row' \in Rows /\ RowAgrees(row') /\ row'.joined = row.joined /\ row'.time = row.time
    BY <2>1, <2>2 DEF Rows, RowAgrees
  <2>4. row'.signal # "none" => row'.regime \in gate[row'.signal]
    BY <2>1, <2>2 DEF Rows
  <2>5. NoLookAhead'
    BY <2>1, <2>3 DEF IInv, NoLookAhead, EndOfDay
  <2>6. QED
    BY <2>1, <2>3, <2>4, <2>5 DEF IInv, TypeOK, DaysAgree, GateAgrees
<1>4. CASE Materialise
  <2>1. /\ stage = "gated" /\ UNCHANGED <<day, daily, gate, row>>
        /\ row \in Rows /\ RowAgrees(row)
    BY <1>4 DEF Materialise, IInv, TypeOK
  <2>2. row.signal # "none" => row.trigger # NULL /\ row.stop # NULL
    BY <2>1, NullAssumption DEF RowAgrees
  <2>3. stage' = "no_setup" \/ (stage' = "setup" /\ row.signal # "none")
    BY <1>4, <2>2 DEF Materialise
  <2>4. NoLookAhead'
    BY <2>1, <2>3 DEF IInv, NoLookAhead, EndOfDay
  <2>5. QED
    BY <2>1, <2>3, <2>4 DEF IInv, TypeOK, DaysAgree, GateAgrees
<1>5. CASE UNCHANGED vars
  BY <1>5 DEF vars, IInv, TypeOK, DaysAgree, NoLookAhead, GateAgrees, EndOfDay
<1>6. QED
  BY <1>1, <1>2, <1>3, <1>4, <1>5 DEF Next

LEMMA Invariance == Spec => []IInv
<1>1. Init => IInv
  BY InitIInv
<1>2. IInv /\ [Next]_vars => IInv'
  BY NextIInv
<1>3. QED
  BY <1>1, <1>2, PTL DEF Spec

-----------------------------------------------------------------------------
(* A day has one regime and one bias, a row one direction or none
   (regime/rules.py, bias/htf.py, signals/base.py). *)
THEOREM SetupTypes == Spec => []TypeOK
<1>1. IInv => TypeOK
  BY DEF IInv
<1>2. QED
  BY <1>1, Invariance, PTL

(* Whatever days are missing, an hourly row carries the last day that had
   ended when it opened (features/align.py). *)
THEOREM NeverLooksAhead == Spec => []NoLookAhead
<1>1. IInv => NoLookAhead
  BY DEF IInv
<1>2. QED
  BY <1>1, Invariance, PTL

\* A setup with what the invariant says of its row is permitted.
LEMMA PermittedByIInv == IInv => Permitted
<1>1. ASSUME IInv, stage = "setup"
      PROVE  /\ row.strategy \in allowed_strategies[row.regime]
             /\ row.signal \in policy_directions[row.regime]
             /\ row.regime \in gate[row.signal]
  <2>1. row.signal \in {"long", "short"} /\ RowAgrees(row) /\ row.regime \in gate[row.signal]
    BY <1>1 DEF IInv, TypeOK, Rows, GateAgrees
  <2>2. row.strategy \in {"A", "B"} /\ row.regime = (IF row.signal = "long" THEN "trend_up" ELSE "trend_down")
    BY <2>1 DEF RowAgrees, Active
  <2>3. QED
    BY <2>1, <2>2 DEF allowed_strategies, policy_directions, Regimes
<1>2. QED
  BY <1>1 DEF Permitted

(* A setup has a strategy and a direction that its regime's policy allows,
   though no strategy reads the direction (regime/policy.py), and passed the
   gate. *)
THEOREM SetupsPermitted == Spec => []Permitted
BY PermittedByIInv, Invariance, PTL

(* No setup before the day's volatility, volume and compression are known
   (regime/rules.py). *)
THEOREM WarmUpIsQuiet == Spec => []NoSetupInWarmUp
<1>1. IInv => NoSetupInWarmUp
  BY DEF IInv, NoSetupInWarmUp, RowAgrees
<1>2. QED
  BY <1>1, Invariance, PTL

(* A setup always has a trigger and a stop on the losing side of it, so that
   to_signals never raises and the risk is positive (signals/base.py). *)
THEOREM StopsBehind == Spec => []StopBehind
<1>1. IInv => StopBehind
  BY DEF IInv, StopBehind, RowAgrees
<1>2. QED
  BY <1>1, Invariance, PTL

-----------------------------------------------------------------------------
(* The pipeline: what Setups assumes of the hourly rows holds of the rows that *)
(* the panel gives it.                                                       *)

Paired(low, high) ==
  \/ low = Null /\ high = Null
  \/ low \in Int /\ high \in Int /\ low <= high

CandlesStand(b) == \A j \in DOMAIN b : b[j].low <= b[j].high

\* The lowest low and the highest high of the same bars.
LEMMA RowLevels ==
  ASSUME NEW b \in Seq(Bars), CandlesStand(b), NEW R \in SUBSET DOMAIN b
  PROVE  Paired(Lowest({b[j].low : j \in R}), Highest({b[j].high : j \in R}))
<1> DEFINE n == Len(b)
           L == {b[j].low : j \in R}
           H == {b[j].high : j \in R}
<1>1. /\ n \in Nat /\ DOMAIN b = 1 .. n
      /\ \A j \in 1 .. n : /\ b[j].low \in Int /\ b[j].high \in Int
                           /\ b[j].low <= b[j].high
  <2>1. n \in Nat /\ DOMAIN b = 1 .. n /\ \A j \in 1 .. n : b[j] \in Bars
    OBVIOUS
  <2>2. \A j \in 1 .. n : b[j].low \in Int /\ b[j].high \in Int
    BY <2>1 DEF Bars
  <2>3. QED
    BY <2>1, <2>2 DEF CandlesStand
<1>2. CASE R = {}
  BY <1>2 DEF Lowest, Highest, Paired
<1>3. CASE R # {}
  <2>1. PICK j \in R : TRUE
    BY <1>3
  <2>2. L \in SUBSET Int /\ H \in SUBSET Int /\ L # {} /\ H # {}
        /\ b[j].low \in L /\ b[j].high \in H
    BY <1>1, <2>1
  <2>3. \E c \in Int : \A x \in L : c <= x
    <3> DEFINE v == [i \in 1 .. n |-> b[i].low]
    <3>1. v \in [1 .. n -> Int]
      BY <1>1
    <3>2. PICK c \in Nat : \A i \in 1 .. n : -c <= v[i] /\ v[i] <= c
      <4> HIDE DEF v
      <4>1. QED
        BY <1>1, <3>1, BoundExists
    <3>3. -c \in Int /\ \A x \in L : -c <= x
      BY <1>1, <3>2
    <3>4. QED
      BY <3>3
  <2>4. \E c \in Int : \A x \in H : x <= c
    <3> DEFINE v == [i \in 1 .. n |-> b[i].high]
    <3>1. v \in [1 .. n -> Int]
      BY <1>1
    <3>2. PICK c \in Nat : \A i \in 1 .. n : -c <= v[i] /\ v[i] <= c
      <4> HIDE DEF v
      <4>1. QED
        BY <1>1, <3>1, BoundExists
    <3>3. \A x \in H : x <= c
      BY <1>1, <3>2
    <3>4. QED
      BY <3>3
  <2> HIDE DEF L, H
  <2>5. \E x \in L : \A y \in L : x <= y
    BY <2>2, <2>3, LeastExists, Zenon
  <2>6. \E x \in H : \A y \in H : y <= x
    BY <2>2, <2>4, GreatestExists, Zenon
  <2>7. Lowest(L) \in L /\ \A y \in L : Lowest(L) <= y
    BY <2>2, <2>5, Zenon DEF Lowest
  <2>8. Highest(H) \in H /\ \A y \in H : y <= Highest(H)
    BY <2>2, <2>6, Zenon DEF Highest
  <2>9. Lowest(L) <= b[j].low /\ b[j].low <= b[j].high /\ b[j].high <= Highest(H)
    BY <1>1, <2>1, <2>2, <2>7, <2>8
  <2>10. Lowest(L) \in Int /\ Highest(H) \in Int /\ b[j].low \in Int /\ b[j].high \in Int
    BY <1>1, <2>1, <2>2, <2>7, <2>8
  <2>11. Paired(Lowest(L), Highest(H))
    BY <2>9, <2>10 DEF Paired
  <2>12. QED
    BY <2>11 DEF L, H
<1>4. QED
  BY <1>2, <1>3

\* The opening range and the swing levels of a row.
LEMMA PanelLevels ==
  ASSUME NEW b \in Seq(Bars), CandlesStand(b), NEW k \in DOMAIN b, NEW w \in Nat \ {0}
  PROVE  Paired(WindowLow(b, k, w), WindowHigh(b, k, w))
         /\ Paired(LowBefore(b, k, w), HighBefore(b, k, w))
<1>1. Len(b) \in Nat /\ DOMAIN b = 1 .. Len(b)
  OBVIOUS
<1>2. Paired(WindowLow(b, k, w), WindowHigh(b, k, w))
  <2> DEFINE R == {i \in SameDay(b, k) : InWindow(b[i], w)}
  <2>1. R \in SUBSET DOMAIN b
    BY DEF SameDay
  <2>2. Paired(Lowest({b[j].low : j \in R}), Highest({b[j].high : j \in R}))
    <3> HIDE DEF R
    <3>1. QED
      BY <2>1, RowLevels
  <2>3. Paired(Null, Null)
    BY DEF Paired
  <2>4. QED
    BY <2>2, <2>3 DEF WindowLow, WindowHigh
<1>3. Paired(LowBefore(b, k, w), HighBefore(b, k, w))
  <2> DEFINE R == k - w .. k - 1
  <2>1. CASE k <= w
    BY <2>1 DEF Paired, LowBefore, HighBefore
  <2>2. CASE ~(k <= w)
    <3>1. R \in SUBSET DOMAIN b
      BY <1>1, <2>2
    <3>2. Paired(Lowest({b[j].low : j \in R}), Highest({b[j].high : j \in R}))
      <4> HIDE DEF R
      <4>1. QED
        BY <3>1, RowLevels
    <3>3. QED
      BY <2>2, <3>2 DEF LowBefore, HighBefore
  <2>3. QED
    BY <2>1, <2>2
<1>4. QED
  BY <1>2, <1>3

\* A row that is followed has levels, whatever is computed over trailing
\* windows next to it.
BaseLevels(c) ==
  c.strategy \in Active /\ \A x : WellLevelled(c.strategy, Joined(c, x))

LEMMA ColumnsLevelled ==
  ASSUME FrameInv, CandlesStand(bars), NEW s \in Active, NEW k \in DOMAIN panel
  PROVE  BaseLevels(Columns(s, panel[k]))
<1> DEFINE p == panel[k]
           c == Columns(s, p)
<1>1. /\ bars \in Seq(Bars) /\ k \in DOMAIN bars /\ p = PanelRow(bars, k)
  <2>1. bars \in Seq(Bars) /\ panel = build_panel(bars) /\ DOMAIN <<>> = {}
    BY DEF FrameInv
  <2>2. panel = [j \in DOMAIN bars |-> PanelRow(bars, j)]
    BY <2>1 DEF build_panel
  <2>3. QED
    BY <2>1, <2>2
<1>2. p.close \in Int
  <2>1. bars[k] \in Bars /\ p.close = bars[k].close
    BY <1>1 DEF PanelRow
  <2>2. QED
    BY <2>1 DEF Bars
<1>3. Paired(p.or_low, p.or_high) /\ Paired(p.swing_low, p.swing_high)
  <2>1. opening_range_minutes \in Nat \ {0} /\ swing_window \in Nat \ {0}
    BY PanelAssumption
  <2>2. /\ p.or_low = WindowLow(bars, k, opening_range_minutes)
        /\ p.or_high = WindowHigh(bars, k, opening_range_minutes)
        /\ p.swing_low = LowBefore(bars, k, swing_window)
        /\ p.swing_high = HighBefore(bars, k, swing_window)
    BY <1>1 DEF PanelRow
  <2>3. QED
    BY <1>1, <2>1, <2>2, PanelLevels
<1> HIDE DEF p
<1>4. s \in {"A", "B"}
  BY DEF Active
<1>5. CASE s = "B"
  <2>1. /\ c.strategy = "B" /\ c.close = p.close /\ c.or_low = p.or_low /\ c.or_high = p.or_high
    BY <1>5 DEF Columns
  <2> HIDE DEF c
  <2>2. ASSUME NEW x PROVE WellLevelled("B", Joined(c, x))
    <3>1. /\ Joined(c, x).close = p.close /\ Joined(c, x).or_low = p.or_low
          /\ Joined(c, x).or_high = p.or_high
      BY <2>1 DEF Joined
    <3>2. QED
      BY <1>2, <1>3, <3>1, OneNull DEF WellLevelled, LowLevel, HighLevel, Paired
  <2>3. BaseLevels(c)
    BY <1>5, <2>1, <2>2 DEF BaseLevels
  <2>4. QED
    BY <2>3 DEF c, p
<1>6. CASE s = "A"
  <2>1. /\ c.strategy = "A" /\ c.close = p.close
        /\ c.swing_low = p.swing_low /\ c.swing_high = p.swing_high
    BY <1>6 DEF Columns
  <2> HIDE DEF c
  <2>2. ASSUME NEW x PROVE WellLevelled("A", Joined(c, x))
    <3>1. /\ Joined(c, x).close = p.close /\ Joined(c, x).swing_low = p.swing_low
          /\ Joined(c, x).swing_high = p.swing_high
      BY <2>1 DEF Joined
    <3>2. QED
      BY <1>2, <1>3, <3>1, OneNull DEF WellLevelled, LowLevel, HighLevel, Paired
  <2>3. BaseLevels(c)
    BY <1>6, <2>1, <2>2 DEF BaseLevels
  <2>4. QED
    BY <2>3 DEF c, p
<1>7. QED
  BY <1>4, <1>5, <1>6

(* The inductive invariant of the pipeline. *)
PipeInv ==
  /\ IInv /\ FrameInv /\ CandlesStand(bars)
  /\ base # NULL => BaseLevels(base)

LEMMA PipeInit == SignalInit => PipeInv
<1> SUFFICES ASSUME SignalInit PROVE PipeInv
  OBVIOUS
<1>1. IInv /\ FrameInv
  BY InitIInv, FrameInit DEF SignalInit
<1>2. CandlesStand(bars)
  BY DEF SignalInit, PanelInit, CandlesStand
<1> QED
  BY <1>1, <1>2 DEF PipeInv, SignalInit

LEMMA PipeStep == PipeInv /\ [SignalNext]_signalVars => PipeInv'
<1> SUFFICES ASSUME PipeInv, [SignalNext]_signalVars PROVE PipeInv'
  OBVIOUS
<1>1. ASSUME UNCHANGED vars PROVE IInv'
  BY <1>1, NextIInv DEF PipeInv
<1>2. ASSUME UNCHANGED panelVars PROVE FrameInv' /\ CandlesStand(bars)'
  BY <1>2, FrameStep DEF PipeInv, panelVars, CandlesStand
<1>3. CASE FrameGrows
  <2>1. UNCHANGED <<vars, base>> /\ BarCloses
    BY <1>3 DEF FrameGrows
  <2>2. FrameInv'
    BY <2>1, FrameStep DEF PipeInv
  <2>3. CandlesStand(bars)'
    <3>1. PICK t \in Instants, c \in Candles : bars' = Append(bars, Bar(t, c))
      BY <2>1 DEF BarCloses
    <3>2. bars \in Seq(Bars) /\ Bar(t, c).low <= Bar(t, c).high
      <4>1. c.low \in Int /\ c.open \in Int /\ c.high \in Int /\ c.low <= c.open /\ c.open <= c.high
        BY PanelAssumption
      <4>2. QED
        BY <4>1 DEF PipeInv, FrameInv, Bar
    <3>3. /\ DOMAIN bars = 1 .. Len(bars) /\ Len(bars) \in Nat
          /\ DOMAIN bars' = 1 .. Len(bars) + 1
          /\ \A j \in 1 .. Len(bars) : bars'[j] = bars[j]
          /\ bars'[Len(bars) + 1] = Bar(t, c)
      BY <3>1, <3>2
    <3>4. \A j \in DOMAIN bars' : j \in DOMAIN bars \/ j = Len(bars) + 1
      BY <3>3
    <3>5. \A j \in DOMAIN bars' : bars'[j].low <= bars'[j].high
      BY <3>2, <3>3, <3>4 DEF PipeInv, CandlesStand
    <3>6. QED
      BY <3>5 DEF CandlesStand
  <2>4. IInv' /\ base' = base
    BY <1>1, <2>1
  <2>5. QED
    BY <2>2, <2>3, <2>4 DEF PipeInv, FrameGrows, Unlabelled
<1>4. CASE FollowRow
  <2>1. IInv'
    BY <1>1, <1>4 DEF FollowRow
  <2>2. FrameInv' /\ CandlesStand(bars)'
    <3>1. bars' = <<>> /\ panel' = <<>>
      BY <1>4 DEF FollowRow
    <3>2. bars' \in Seq(Bars) /\ DOMAIN bars' = {} /\ Len(bars') = 0
      BY <3>1
    <3>3. InOrder(bars') /\ panel' = build_panel(bars')
      BY <3>1, <3>2 DEF InOrder, build_panel
    <3>4. QED
      BY <3>2, <3>3 DEF FrameInv, CandlesStand
  <2>3. BaseLevels(base')
    BY <1>4, ColumnsLevelled DEF FollowRow, PipeInv
  <2>4. QED
    BY <2>1, <2>2, <2>3 DEF PipeInv, BaseLevels
<1>5. CASE LabelDay
  <2>1. IInv'
    BY <1>5, NextIInv DEF LabelDay, PipeInv, Next
  <2>2. QED
    BY <1>2, <1>5, <2>1 DEF LabelDay, PipeInv
<1>6. CASE ClassifyRow
  <2>1. PICK t \in 0 .. LastTime, x \in Trailing[base.strategy] :
          row' = Classified(base.strategy, t, Joined(base, x))
    BY <1>6 DEF ClassifyRow
  <2>2. base.strategy \in Active /\ WellLevelled(base.strategy, Joined(base, x))
    BY <1>6 DEF ClassifyRow, PipeInv, BaseLevels
  <2>3. stage' = "classified" /\ UNCHANGED <<day, daily, gate, panelVars>> /\ base' = NULL
    BY <1>6 DEF ClassifyRow
  <2>4. IInv'
    BY <2>1, <2>2, <2>3, ClassifiedKeeps DEF PipeInv
  <2>5. QED
    BY <1>2, <2>3, <2>4 DEF PipeInv
<1>7. CASE (ApplyRegimeGate \/ Materialise) /\ UNCHANGED <<panelVars, base>>
  <2>1. IInv'
    BY <1>7, NextIInv DEF PipeInv, Next
  <2>2. QED
    BY <1>2, <1>7, <2>1 DEF PipeInv
<1>8. CASE UNCHANGED signalVars
  BY <1>1, <1>2, <1>8 DEF PipeInv, signalVars
<1>9. QED
  BY <1>3, <1>4, <1>5, <1>6, <1>7, <1>8 DEF SignalNext

LEMMA PipeInvariance == SignalSpec => []PipeInv
BY PipeInit, PipeStep, PTL DEF SignalSpec

(* In the pipeline too a row carries the last day that had ended when it
   opened. *)
THEOREM PipelineNeverLooksAhead == SignalSpec => []NoLookAhead
<1>1. PipeInv => NoLookAhead
  BY DEF PipeInv, IInv
<1>2. QED
  BY <1>1, PipeInvariance, PTL

(* Every setup of the pipeline is permitted by policy and gate, and of a day
   that is known. *)
THEOREM PipelinePermitted == SignalSpec => [](Permitted /\ NoSetupInWarmUp)
<1>1. PipeInv => Permitted /\ NoSetupInWarmUp
  BY PermittedByIInv DEF PipeInv, IInv, NoSetupInWarmUp, RowAgrees
<1>2. QED
  BY <1>1, PipeInvariance, PTL

(* Whatever the candles and the windows, the levels that the panel computes put
   the stop of every setup on the losing side of its trigger, and to_signals
   finds both prices: what Setups assumes of its rows is not needed. *)
THEOREM PipelineStopsBehind == SignalSpec => []StopBehind
<1>1. PipeInv => StopBehind
  BY DEF PipeInv, IInv, StopBehind, RowAgrees
<1>2. QED
  BY <1>1, PipeInvariance, PTL

(* A row that is followed is taken from a panel whose past stands and whose
   clock agrees with the calendar. *)
THEOREM PipelineFrame == SignalSpec => PastStands /\ []SessionsAgree
<1>1. PipeInv => SessionsAgree
  BY AgreesByFrameInv DEF PipeInv
<1>2. PipeInv /\ [SignalNext]_signalVars => [Stands(panel, panel')]_panelVars
  <2> SUFFICES ASSUME PipeInv, [SignalNext]_signalVars PROVE [Stands(panel, panel')]_panelVars
    OBVIOUS
  <2>1. CASE FrameGrows
    BY <2>1, StepStands DEF PipeInv, FrameGrows
  <2>2. CASE FollowRow
    <3>1. panel' = <<>> /\ DOMAIN <<>> = {}
      BY <2>2 DEF FollowRow
    <3>2. QED
      BY <3>1 DEF Stands
  <2>3. CASE UNCHANGED panelVars
    BY <2>3
  <2>4. QED
    BY <2>1, <2>2, <2>3 DEF SignalNext, LabelDay, ClassifyRow, signalVars
<1>3. QED
  BY <1>1, <1>2, PipeInvariance, PTL DEF SignalSpec, PastStands
=============================================================================
