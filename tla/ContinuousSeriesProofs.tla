----------------------- MODULE ContinuousSeriesProofs -----------------------
(***************************************************************************)
(* Proofs about ContinuousSeries for any number of contracts, any calendar *)
(* and all frames.                                                         *)
(***************************************************************************)
EXTENDS ContinuousSeries, SetInduction, SequenceTheorems, TLAPS

-----------------------------------------------------------------------------
\* A frame's days are numbers, its bars are bars, and there is one.
LEMMA FrameType ==
  ASSUME NEW c \in Contracts, NEW df \in Frames(c)
  PROVE  /\ DOMAIN df \in SUBSET Int
         /\ DOMAIN df # {}
         /\ df = [t \in DOMAIN df |-> df[t]]
         /\ \A t \in DOMAIN df : df[t] \in [close : Closes, volume : Volumes]
<1>1. PICK S \in (SUBSET Days[c]) \ {{}} : df \in [S -> [close : Closes, volume : Volumes]]
  BY DEF Frames
<1>2. Days[c] \in SUBSET Int
  BY SizesAssumption
<1>3. QED
  BY <1>1, <1>2

\* A contract expires in its month.
LEMMA ExpiryInMonth ==
  ASSUME NEW c \in Contracts
  PROVE  /\ expiry_for(c) \in Int
         /\ MonthEnd[c] - MonthLength + 1 <= expiry_for(c)
         /\ expiry_for(c) <= MonthEnd[c]
<1> DEFINE open == Month(c) \cap Business
<1>1. MonthEnd[c] \in Int /\ MonthLength \in Nat
  BY SizesAssumption
<1>2. open \in SUBSET Int /\ \A d \in open : MonthEnd[c] - MonthLength + 1 <= d /\ d <= MonthEnd[c]
  BY <1>1 DEF Month
<1>3. open # {}
  BY CalendarAssumption
<1>4. \E d \in open : \A e \in open : e <= d
  <2> HIDE DEF open
  <2>1. \A d \in open : d <= MonthEnd[c]
    BY <1>2
  <2>2. QED
    BY <1>1, <1>2, <1>3, <2>1, GreatestExists
<1>5. expiry_for(c) \in open
  BY <1>4, Zenon DEF expiry_for
<1>6. QED
  BY <1>2, <1>5

\* The roll is the expiry or the first crossover in the window before it.
LEMMA RollInWindow ==
  ASSUME NEW near, NEW far, NEW expiry \in Int, DOMAIN near \in SUBSET Int
  PROVE  LET t == find_roll_time(near, far, expiry)
         IN /\ t \in Int
            /\ expiry - Offset <= t /\ t <= expiry
            /\ \/ Crossovers(near, far, expiry) = {} /\ t = expiry
               \/ /\ t \in Crossovers(near, far, expiry)
                  /\ \A u \in Crossovers(near, far, expiry) : t <= u
<1> DEFINE C == Crossovers(near, far, expiry)
           t == find_roll_time(near, far, expiry)
<1>1. Offset \in Nat
  BY SizesAssumption
<1>2. CASE C = {}
  <2>1. t = expiry
    BY <1>2 DEF find_roll_time
  <2>2. QED
    BY <1>1, <1>2, <2>1
<1>3. CASE C # {}
  <2>1. C \in SUBSET Int /\ \A u \in C : expiry - Offset < u /\ u <= expiry
    BY DEF Crossovers, InWindow
  <2>2. \E m \in C : \A u \in C : m <= u
    <3> HIDE DEF C
    <3>1. expiry - Offset \in Int /\ \A u \in C : expiry - Offset <= u
      BY <1>1, <2>1
    <3>2. QED
      BY <1>3, <2>1, <3>1, LeastExists
  <2>3. t = CHOOSE m \in C : \A u \in C : m <= u
    BY <1>3, Zenon DEF find_roll_time
  <2>4. t \in C /\ \A u \in C : t <= u
    <3> HIDE DEF C, t
    <3> QED
      BY <2>2, <2>3, Zenon
  <2>5. t \in Int /\ expiry - Offset <= t /\ t <= expiry
    <3> HIDE DEF C, t
    <3> QED
      BY <1>1, <2>1, <2>4
  <2>6. QED
    BY <2>4, <2>5, Zenon
<1>4. QED
  BY <1>2, <1>3, Zenon

\* The close at or before a day is a bar's close, that day's if it has a bar.
LEMMA LastClose ==
  ASSUME NEW c \in Contracts, NEW df \in Frames(c), NEW t \in Int, Until(df, t) # {}
  PROVE  /\ close_at_or_before(df, t) \in Closes
         /\ t \in DOMAIN df => close_at_or_before(df, t) = df[t].close
<1> DEFINE U == Until(df, t)
           u == CHOOSE v \in U : \A w \in U : w <= v
<1>1. /\ DOMAIN df \in SUBSET Int
      /\ \A v \in DOMAIN df : df[v] \in [close : Closes, volume : Volumes]
  BY FrameType
<1>2. U \in SUBSET Int /\ U \subseteq DOMAIN df /\ U # {} /\ \A v \in U : v <= t
  BY <1>1 DEF Until
<1>3. u \in U /\ \A w \in U : w <= u
  <2>1. \E v \in U : \A w \in U : w <= v
    <3> HIDE DEF U
    <3> QED
      BY <1>2, GreatestExists
  <2>2. QED
    BY <2>1, Zenon
<1>4. close_at_or_before(df, t) = df[u].close
  BY Zenon DEF close_at_or_before
<1>5. t \in DOMAIN df => u = t
  <2>1. t \in DOMAIN df => t \in U
    BY DEF Until
  <2>2. QED
    <3> HIDE DEF U, u
    <3> QED
      BY <1>2, <1>3, <2>1
<1>6. df[u].close \in Closes
  <2> HIDE DEF U, u
  <2> QED
    BY <1>1, <1>2, <1>3
<1>7. QED
  <2> HIDE DEF U, u
  <2> QED
    BY <1>4, <1>5, <1>6

-----------------------------------------------------------------------------
\* A segment: rows on days.
Segment == UNION {[S -> Row] : S \in SUBSET Int}

(* What has been built so far is what the frames determine: the record and the
   segment of every pair that was walked, the last contract's segment, and in
   the end a choice among their rows.  TypeOK does not say where a segment
   ends, which is what the properties of the series are about. *)
Recorded ==
  \A k \in 1 .. Len(rolls) :
    /\ k < K /\ Splices(k)
    /\ rolls[k] = [roll_time |-> RollTime(k), ratio |-> RollRatio(k)]
Tagged ==
  \A k \in 1 .. Len(segments) :
    segments[k] = IF k < K THEN NearSegment(k) ELSE LastSegment
Counted ==
  /\ segments \in Seq(Segment)
  /\ rolls \in Seq([roll_time : Int, ratio : Int])
  /\ Len(segments) \in 0 .. K
  /\ Len(rolls) = IF Len(segments) < K THEN Len(segments) ELSE K - 1
Built ==
  /\ status \in {"walking", "walked", "built", "failed"}
  /\ status = "walking" \/ status = "failed" => series = <<>>
  /\ status = "walked" => series = <<>> /\ Len(segments) = K
  /\ status = "built" => series \in Stitched /\ Len(segments) = K
IInv == bars \in PerContract /\ Counted /\ Recorded /\ Tagged /\ Built

\* A pair's roll and ratio are numbers, and the roll lies in the near one's month's window.
LEMMA PairType ==
  ASSUME bars \in PerContract, NEW k \in 1 .. K - 1
  PROVE  /\ RollTime(k) \in Int
         /\ expiry_for(k) - Offset <= RollTime(k) /\ RollTime(k) <= expiry_for(k)
         /\ Splices(k) => RollRatio(k) \in Int
<1>1. k \in Contracts /\ k + 1 \in Contracts /\ Closes \subseteq Int
  BY SizesAssumption DEF Contracts
<1>2. bars[k] \in Frames(k) /\ bars[k + 1] \in Frames(k + 1)
  BY <1>1 DEF PerContract
<1>3. expiry_for(k) \in Int
  BY <1>1, ExpiryInMonth
<1>4. DOMAIN bars[k] \in SUBSET Int
  BY <1>1, <1>2, FrameType
<1>5. /\ RollTime(k) \in Int
      /\ expiry_for(k) - Offset <= RollTime(k) /\ RollTime(k) <= expiry_for(k)
  BY <1>3, <1>4, RollInWindow DEF RollTime
<1>6. ASSUME Splices(k) PROVE RollRatio(k) \in Int
  <2>1. Until(bars[k], RollTime(k)) # {} /\ Until(bars[k + 1], RollTime(k)) # {}
    BY <1>6 DEF Splices, HasRatio
  <2>2. close_at_or_before(bars[k], RollTime(k)) \in Int
    BY <1>1, <1>2, <1>5, <2>1, LastClose
  <2>3. close_at_or_before(bars[k + 1], RollTime(k)) \in Int
    BY <1>1, <1>2, <1>5, <2>1, LastClose
  <2>4. QED
    BY <2>2, <2>3 DEF RollRatio, compute_roll_ratio
<1>7. QED
  BY <1>5, <1>6

\* Earlier contracts roll earlier.
LEMMA PairsAdvance ==
  ASSUME bars \in PerContract, NEW j \in 1 .. K - 1, NEW k \in 1 .. K - 1, j < k
  PROVE  RollTime(j) < RollTime(k)
<1>1. j \in Contracts /\ k \in Contracts
  BY SizesAssumption DEF Contracts
<1>2. MonthEnd[j] + Offset < MonthEnd[k] - MonthLength + 1
  BY <1>1, CalendarAssumption
<1>3. expiry_for(j) \in Int /\ expiry_for(j) <= MonthEnd[j]
  BY <1>1, ExpiryInMonth
<1>4. expiry_for(k) \in Int /\ MonthEnd[k] - MonthLength + 1 <= expiry_for(k)
  BY <1>1, ExpiryInMonth
<1>5. RollTime(j) \in Int /\ RollTime(j) <= expiry_for(j)
  BY PairType
<1>6. RollTime(k) \in Int /\ expiry_for(k) - Offset <= RollTime(k)
  BY PairType
<1>7. MonthEnd[j] \in Int /\ MonthEnd[k] \in Int /\ MonthLength \in Nat /\ Offset \in Nat
  BY <1>1, SizesAssumption
<1>8. QED
  BY <1>2, <1>3, <1>4, <1>5, <1>6, <1>7

\* A row of a segment is one of its contract's bars with the segment's factor.
LEMMA TagType ==
  ASSUME NEW c \in Contracts, NEW df \in Frames(c), NEW days \in SUBSET DOMAIN df,
         NEW factor \in Int
  PROVE  tag_segment(df, days, c, factor) \in Segment
<1>1. days \in SUBSET Int
  BY FrameType
<1>2. \A t \in days : df[t].close \in Int
  BY FrameType, SizesAssumption
<1>3. \A t \in days : [contract |-> c, factor |-> factor, close |-> df[t].close] \in Row
  BY <1>2 DEF Row
<1>4. tag_segment(df, days, c, factor) \in [days -> Row]
  BY <1>3 DEF tag_segment
<1>5. QED
  BY <1>1, <1>4 DEF Segment

\* Every segment that is appended is one.
LEMMA SegmentType ==
  ASSUME bars \in PerContract
  PROVE  /\ \A k \in 1 .. K - 1 : Splices(k) => NearSegment(k) \in Segment
         /\ LastSegment \in Segment
<1>1. ASSUME NEW k \in 1 .. K - 1, Splices(k) PROVE NearSegment(k) \in Segment
  <2>1. k \in Contracts /\ bars[k] \in Frames(k)
    BY SizesAssumption DEF Contracts, PerContract
  <2>2. CumulativeFactor + RollRatio(k) \in Int
    BY <1>1, PairType DEF CumulativeFactor
  <2>3. near_segment(bars[k], RollTime(k)) \in SUBSET DOMAIN bars[k]
    BY DEF near_segment, Until
  <2>4. QED
    BY <2>1, <2>2, <2>3, TagType DEF NearSegment
<1>2. K \in Contracts /\ bars[K] \in Frames(K)
  BY SizesAssumption DEF Contracts, PerContract
<1>3. LastSegment \in Segment
  BY <1>2, TagType DEF LastSegment, CumulativeFactor
<1>4. QED
  BY <1>1, <1>3

-----------------------------------------------------------------------------
\* Before the first pair nothing is recorded.
LEMMA InitIInv == Init => IInv
<1> SUFFICES ASSUME Init PROVE IInv
  OBVIOUS
<1>1. bars \in PerContract /\ rolls = <<>> /\ segments = <<>> /\ series = <<>> /\ status = "walking"
  BY DEF Init
<1>2. Len(<<>>) = 0 /\ 0 \in 0 .. K /\ 0 < K
  BY SizesAssumption
<1>3. Counted
  BY <1>1, <1>2 DEF Counted
<1>4. Recorded /\ Tagged /\ Built
  BY <1>1, <1>2 DEF Recorded, Tagged, Built
<1>5. QED
  BY <1>1, <1>3, <1>4 DEF IInv

\* What the frames determine does not change, as the frames do not.
LEMMA FramesStay ==
  ASSUME bars' = bars
  PROVE  /\ \A k : /\ RollTime(k)' = RollTime(k) /\ RollRatio(k)' = RollRatio(k)
                   /\ Splices(k)' = Splices(k) /\ NearSegment(k)' = NearSegment(k)
         /\ LastSegment' = LastSegment
<1>1. ASSUME NEW k PROVE RollTime(k)' = RollTime(k)
  BY DEF RollTime
<1>2. ASSUME NEW k PROVE RollRatio(k)' = RollRatio(k)
  BY <1>1 DEF RollRatio
<1>3. ASSUME NEW k PROVE Splices(k)' = Splices(k)
  BY <1>1 DEF Splices
<1>4. ASSUME NEW k PROVE NearSegment(k)' = NearSegment(k)
  BY <1>1, <1>2 DEF NearSegment
<1>5. LastSegment' = LastSegment
  BY DEF LastSegment
<1>6. QED
  BY <1>1, <1>2, <1>3, <1>4, <1>5

\* Every step keeps the invariant.
LEMMA NextIInv == IInv /\ [Next]_vars => IInv'
<1> SUFFICES ASSUME IInv, [Next]_vars PROVE IInv'
  OBVIOUS
<1>a. bars' = bars
  BY DEF Next, vars, RollOut, MissingClose, LastContract, Stitch
<1>b. /\ bars \in PerContract /\ bars' \in PerContract
      /\ K \in Nat \ {0}
      /\ Counted /\ Recorded /\ Tagged /\ Built
  BY <1>a, SizesAssumption DEF IInv
<1>c. /\ \A k : /\ RollTime(k)' = RollTime(k) /\ RollRatio(k)' = RollRatio(k)
                /\ Splices(k)' = Splices(k) /\ NearSegment(k)' = NearSegment(k)
      /\ LastSegment' = LastSegment
  BY <1>a, FramesStay
<1>1. CASE RollOut
  <2> DEFINE k == Len(segments) + 1
             r == [roll_time |-> RollTime(k), ratio |-> RollRatio(k)]
  <2>1. /\ status = "walking" /\ k < K /\ Splices(k)
        /\ rolls' = Append(rolls, r) /\ segments' = Append(segments, NearSegment(k))
        /\ UNCHANGED <<series, status>>
    BY <1>1 DEF RollOut, Current
  <2>2. k \in 1 .. K - 1 /\ Len(rolls) = k - 1 /\ Len(segments) = k - 1
    BY <1>b, <2>1 DEF Counted
  <2>3. r \in [roll_time : Int, ratio : Int] /\ NearSegment(k) \in Segment
    BY <1>b, <2>1, <2>2, PairType, SegmentType
  <2> HIDE DEF k, r
  <2>4. /\ rolls' \in Seq([roll_time : Int, ratio : Int]) /\ Len(rolls') = k
        /\ \A i \in 1 .. k - 1 : rolls'[i] = rolls[i]
        /\ rolls'[k] = r
    BY <1>b, <2>1, <2>2, <2>3, AppendProperties DEF Counted
  <2>5. /\ segments' \in Seq(Segment) /\ Len(segments') = k
        /\ \A i \in 1 .. k - 1 : segments'[i] = segments[i]
        /\ segments'[k] = NearSegment(k)
    BY <1>b, <2>1, <2>2, <2>3, AppendProperties DEF Counted
  <2>6. Counted'
    BY <1>b, <2>1, <2>2, <2>4, <2>5 DEF Counted
  <2>7. Recorded'
    <3> SUFFICES ASSUME NEW i \in 1 .. Len(rolls')
                 PROVE  /\ i < K /\ Splices(i)
                        /\ rolls'[i] = [roll_time |-> RollTime(i), ratio |-> RollRatio(i)]
      BY <1>c, Zenon DEF Recorded
    <3>1. CASE i = k
      BY <2>1, <2>2, <2>4, <3>1 DEF r
    <3>2. CASE i # k
      <4>1. i \in 1 .. Len(rolls) /\ rolls'[i] = rolls[i]
        BY <2>2, <2>4, <3>2
      <4>2. QED
        BY <1>b, <4>1 DEF Recorded
    <3>3. QED
      BY <3>1, <3>2
  <2>8. Tagged'
    <3> SUFFICES ASSUME NEW i \in 1 .. Len(segments')
                 PROVE  segments'[i] = IF i < K THEN NearSegment(i) ELSE LastSegment
      BY <1>c, Zenon DEF Tagged
    <3>1. CASE i = k
      BY <2>1, <2>5, <3>1
    <3>2. CASE i # k
      <4>1. i \in 1 .. Len(segments) /\ segments'[i] = segments[i]
        BY <2>2, <2>5, <3>2
      <4>2. QED
        BY <1>b, <4>1 DEF Tagged
    <3>3. QED
      BY <3>1, <3>2
  <2>9. Built'
    BY <1>b, <2>1 DEF Built
  <2>10. QED
    BY <1>b, <2>6, <2>7, <2>8, <2>9 DEF IInv
<1>2. CASE MissingClose
  <2>1. status = "walking" /\ status' = "failed" /\ UNCHANGED <<rolls, segments, series>>
    BY <1>2 DEF MissingClose
  <2>2. Counted' /\ Built'
    BY <1>b, <2>1 DEF Counted, Built
  <2>3. Recorded' /\ Tagged'
    BY <1>b, <1>c, <2>1 DEF Recorded, Tagged
  <2>4. QED
    BY <1>b, <2>2, <2>3 DEF IInv
<1>3. CASE LastContract
  <2>1. /\ status = "walking" /\ status' = "walked" /\ Len(segments) + 1 = K
        /\ segments' = Append(segments, LastSegment) /\ UNCHANGED <<rolls, series>>
    BY <1>3 DEF LastContract, Current
  <2>2. LastSegment \in Segment
    BY <1>b, SegmentType
  <2>3. /\ segments' \in Seq(Segment) /\ Len(segments') = K
        /\ \A i \in 1 .. K - 1 : segments'[i] = segments[i]
        /\ segments'[K] = LastSegment
    BY <1>b, <2>1, <2>2, AppendProperties DEF Counted
  <2>4. Counted' /\ Built'
    BY <1>b, <2>1, <2>3 DEF Counted, Built
  <2>5. Recorded'
    BY <1>b, <1>c, <2>1 DEF Recorded
  <2>6. Tagged'
    <3> SUFFICES ASSUME NEW i \in 1 .. Len(segments')
                 PROVE  segments'[i] = IF i < K THEN NearSegment(i) ELSE LastSegment
      BY <1>c, Zenon DEF Tagged
    <3>1. CASE i = K
      BY <1>b, <2>3, <3>1
    <3>2. CASE i # K
      <4>1. i \in 1 .. Len(segments) /\ segments'[i] = segments[i]
        BY <1>b, <2>1, <2>3, <3>2
      <4>2. QED
        BY <1>b, <4>1 DEF Tagged
    <3>3. QED
      BY <3>1, <3>2
  <2>7. QED
    BY <1>b, <2>4, <2>5, <2>6 DEF IInv
<1>4. CASE Stitch
  <2>1. /\ status = "walked" /\ status' = "built" /\ series' \in Stitched
        /\ UNCHANGED <<rolls, segments>>
    BY <1>4 DEF Stitch
  <2>2. Stitched' = Stitched
    BY <2>1 DEF Stitched, SegmentDays, RowsOn
  <2>3. Counted' /\ Built'
    BY <1>b, <2>1, <2>2 DEF Counted, Built
  <2>4. Recorded' /\ Tagged'
    BY <1>b, <1>c, <2>1 DEF Recorded, Tagged
  <2>5. QED
    BY <1>b, <2>3, <2>4 DEF IInv
<1>5. CASE UNCHANGED vars
  <2>1. UNCHANGED <<rolls, segments, series, status>>
    BY <1>5 DEF vars
  <2>2. Stitched' = Stitched
    BY <2>1 DEF Stitched, SegmentDays, RowsOn
  <2>3. Counted' /\ Built'
    BY <1>b, <2>1, <2>2 DEF Counted, Built
  <2>4. Recorded' /\ Tagged'
    BY <1>b, <1>c, <2>1 DEF Recorded, Tagged
  <2>5. QED
    BY <1>b, <2>3, <2>4 DEF IInv
<1>6. QED
  BY <1>1, <1>2, <1>3, <1>4, <1>5 DEF Next

\* The invariant holds throughout.
LEMMA Invariance == Spec => []IInv
<1>1. Init => IInv
  BY InitIInv
<1>2. IInv /\ [Next]_vars => IInv'
  BY NextIInv
<1>3. QED
  BY <1>1, <1>2, PTL DEF Spec

-----------------------------------------------------------------------------
\* A recorded roll has the pair's time.
LEMMA RollRecord ==
  ASSUME IInv, NEW k \in 1 .. Len(rolls)
  PROVE  rolls[k].roll_time = RollTime(k)
<1>1. rolls[k] = [roll_time |-> RollTime(k), ratio |-> RollRatio(k)]
  BY DEF IInv, Recorded
<1>2. [roll_time |-> RollTime(k), ratio |-> RollRatio(k)].roll_time = RollTime(k)
  OBVIOUS
<1>3. QED
  BY <1>1, <1>2, Zenon

(* A row of the finished series is the row its contract's segment has on that
   day: for a contract that was rolled out of, one of its bars until the roll
   with the roll's ratio as its factor. *)
LEMMA RowOfSegment ==
  ASSUME IInv, NEW t \in DOMAIN series
  PROVE  /\ status = "built" /\ Len(rolls) = K - 1
         /\ series[t] \in Row
         /\ \A c : c = series[t].contract /\ c < K =>
              /\ t \in DOMAIN bars[c] /\ t <= RollTime(c)
              /\ Splices(c)
              /\ series[t].factor = RollRatio(c)
              /\ series[t].close = bars[c][t].close
<1>1. status = "built" /\ series \in Stitched /\ Len(segments) = K /\ K \in Nat \ {0}
  BY SizesAssumption DEF IInv, Built
<1>2. Len(rolls) = K - 1 /\ segments \in Seq(Segment)
  BY <1>1 DEF IInv, Counted
<1>3. series[t] \in RowsOn(t)
  BY <1>1 DEF Stitched
<1>4. PICK c \in Contracts : t \in DOMAIN segments[c] /\ series[t] = segments[c][t]
  BY <1>3 DEF RowsOn
<1>5. c \in 1 .. Len(segments)
  BY <1>1 DEF Contracts
<1>6. series[t] \in Row
  <2>1. segments[c] \in Segment
    BY <1>2, <1>5
  <2>2. QED
    BY <1>4, <2>1 DEF Segment
<1>7. CASE c < K
  <2>1. segments[c] = NearSegment(c)
    BY <1>5, <1>7 DEF IInv, Tagged
  <2>2. DOMAIN segments[c] = Until(bars[c], RollTime(c))
    BY <2>1 DEF NearSegment, tag_segment, near_segment
  <2>3. series[t] = [contract |-> c, factor |-> CumulativeFactor + RollRatio(c),
                     close |-> bars[c][t].close]
    BY <1>4, <2>1 DEF NearSegment, tag_segment, near_segment
  <2>4. t \in DOMAIN bars[c] /\ t <= RollTime(c)
    BY <1>4, <2>2 DEF Until
  <2>5. c \in 1 .. Len(rolls)
    BY <1>1, <1>2, <1>5, <1>7
  <2>6. Splices(c)
    BY <2>5 DEF IInv, Recorded
  <2>7. RollRatio(c) \in Int
    BY <1>1, <1>2, <2>5, <2>6, PairType DEF IInv
  <2>8. series[t].contract = c /\ series[t].factor = RollRatio(c)
        /\ series[t].close = bars[c][t].close
    BY <2>3, <2>7 DEF CumulativeFactor
  <2>9. QED
    BY <1>1, <1>2, <1>6, <2>4, <2>6, <2>8
<1>8. CASE ~(c < K)
  <2>1. c = K
    BY <1>1, <1>5, <1>8
  <2>2. segments[c] = LastSegment
    BY <1>5, <1>8 DEF IInv, Tagged
  <2>3. series[t].contract = K
    BY <1>4, <2>1, <2>2 DEF LastSegment, tag_segment
  <2>4. QED
    BY <1>1, <1>2, <1>6, <2>3
<1>9. QED
  BY <1>7, <1>8

-----------------------------------------------------------------------------
\* Every variable of the builder keeps its type, and a segment its roll.
THEOREM SeriesTypes == Spec => []TypeOK
<1>1. ASSUME IInv PROVE TypeOK
  <2>1. \A t \in DOMAIN series : series[t] \in Row
    BY <1>1, RowOfSegment
  <2>2. QED
    BY <1>1, <2>1 DEF IInv, Counted, Built, TypeOK
<1>2. QED
  BY <1>1, Invariance, PTL

(* Rolls follow one another in time for every calendar whose months are
   further apart than the roll window, however early a far contract trades. *)
THEOREM RollsInOrder == Spec => []RollsAdvance
<1>1. ASSUME IInv PROVE RollsAdvance
  <2> SUFFICES ASSUME NEW j \in 1 .. Len(rolls), NEW k \in 1 .. Len(rolls), j < k
               PROVE  rolls[j].roll_time < rolls[k].roll_time
    BY DEF RollsAdvance
  <2>1. bars \in PerContract /\ Len(rolls) \in Nat /\ Len(rolls) <= K - 1 /\ K \in Nat \ {0}
    BY <1>1, SizesAssumption DEF IInv, Counted
  <2>2. j \in 1 .. K - 1 /\ k \in 1 .. K - 1
    BY <2>1
  <2>3. rolls[j].roll_time = RollTime(j) /\ rolls[k].roll_time = RollTime(k)
    BY <1>1, RollRecord
  <2>4. QED
    BY <2>1, <2>2, <2>3, PairsAdvance
<1>2. QED
  BY <1>1, Invariance, PTL

\* No row of a contract survives the roll out of it or out of a later one.
THEOREM NoRowAfterRoll == Spec => []RolledOutIsGone
<1>1. ASSUME IInv PROVE RolledOutIsGone
  <2> SUFFICES ASSUME NEW t \in DOMAIN series, NEW k \in 1 .. Len(rolls),
                      rolls[k].roll_time < t, ~(series[t].contract > k)
               PROVE  FALSE
    BY DEF RolledOutIsGone
  <2>0. PICK c : c = series[t].contract
    OBVIOUS
  <2>1. /\ Len(rolls) = K - 1 /\ K \in Nat \ {0} /\ c \in 1 .. K
        /\ bars \in PerContract
    BY <1>1, <2>0, RowOfSegment, SizesAssumption DEF IInv, Row, Contracts
  <2>2. k \in 1 .. K - 1 /\ c \in 1 .. K - 1 /\ c <= k
    BY <2>0, <2>1
  <2>3. t \in DOMAIN bars[c] /\ t <= RollTime(c)
    BY <1>1, <2>0, <2>1, <2>2, RowOfSegment
  <2>4. rolls[k].roll_time = RollTime(k)
    BY <1>1, RollRecord
  <2>5. RollTime(c) \in Int /\ RollTime(k) \in Int
    BY <2>1, <2>2, PairType
  <2>6. RollTime(c) <= RollTime(k)
    BY <2>1, <2>2, <2>5, PairsAdvance
  <2>7. t \in Int
    <3>1. c \in Contracts /\ bars[c] \in Frames(c)
      BY <2>1 DEF Contracts, PerContract
    <3>2. QED
      BY <2>3, <3>1, FrameType
  <2>8. QED
    BY <2>3, <2>4, <2>5, <2>6, <2>7
<1>2. QED
  BY <1>1, Invariance, PTL

\* At a roll day both contracts trade on, the near one's row has the far one's price.
THEOREM RollJoins == Spec => []JoinsTheNext
<1>1. ASSUME IInv PROVE JoinsTheNext
  <2> SUFFICES ASSUME NEW t \in DOMAIN series, series[t].contract < K,
                      t = rolls[series[t].contract].roll_time,
                      t \in DOMAIN bars[series[t].contract + 1]
               PROVE  series[t].close + series[t].factor
                        = bars[series[t].contract + 1][t].close
    BY DEF JoinsTheNext
  <2>0. PICK c : c = series[t].contract
    OBVIOUS
  <2>1. K \in Nat \ {0} /\ c \in 1 .. K - 1 /\ bars \in PerContract
    BY <1>1, <2>0, RowOfSegment, SizesAssumption DEF IInv, Row, Contracts
  <2>2. /\ t \in DOMAIN bars[c] /\ t = RollTime(c) /\ Splices(c)
        /\ series[t].factor = RollRatio(c) /\ series[t].close = bars[c][t].close
    <3>1. c \in 1 .. Len(rolls) /\ c < K
      BY <1>1, <2>0, <2>1, RowOfSegment
    <3>2. t = RollTime(c)
      BY <1>1, <2>0, <3>1, RollRecord
    <3>3. QED
      BY <1>1, <2>0, <3>1, <3>2, RowOfSegment
  <2>3. /\ c \in Contracts /\ c + 1 \in Contracts
        /\ bars[c] \in Frames(c) /\ bars[c + 1] \in Frames(c + 1) /\ t \in Int
    <3>1. c \in Contracts /\ c + 1 \in Contracts
      BY <2>1 DEF Contracts
    <3>2. RollTime(c) \in Int
      BY <2>1, PairType
    <3>3. QED
      BY <2>1, <2>2, <3>1, <3>2 DEF PerContract
  <2>4. Until(bars[c], t) # {} /\ Until(bars[c + 1], t) # {}
    BY <2>2 DEF Splices, HasRatio
  <2>5. /\ close_at_or_before(bars[c], t) = bars[c][t].close
        /\ bars[c][t].close \in Int
    BY <2>2, <2>3, <2>4, LastClose, SizesAssumption
  <2>6. /\ close_at_or_before(bars[c + 1], t) = bars[c + 1][t].close
        /\ bars[c + 1][t].close \in Int
    BY <2>3, <2>4, <2>0, LastClose, SizesAssumption
  <2>7. RollRatio(c) = bars[c + 1][t].close - bars[c][t].close
    BY <2>2, <2>5, <2>6 DEF RollRatio, compute_roll_ratio
  <2>8. bars[c][t].close + (bars[c + 1][t].close - bars[c][t].close) = bars[c + 1][t].close
    BY <2>5, <2>6
  <2>9. QED
    BY <2>0, <2>2, <2>7, <2>8, Zenon
<1>2. QED
  BY <1>1, Invariance, PTL


(* A bar counts until the market has moved on from its contract: whatever days
   the frames have, and whichever row of a day is kept, its day is in the
   series. *)
THEOREM NoDayLost == Spec => []NothingLost
<1>1. ASSUME IInv PROVE NothingLost
  <2> SUFFICES ASSUME status = "built", NEW c \in Contracts, NEW t \in DOMAIN bars[c],
                      c = K \/ ~MovesOn(c, t)
               PROVE  t \in DOMAIN series
    BY DEF NothingLost
  <2>1. /\ series \in Stitched /\ Len(segments) = K /\ K \in Nat \ {0}
        /\ bars \in PerContract /\ c \in 1 .. Len(segments)
    BY <1>1, SizesAssumption DEF IInv, Built, Contracts
  <2>2. DOMAIN series = SegmentDays
    BY <2>1 DEF Stitched
  <2>3. t \in DOMAIN segments[c]
    <3>1. CASE c = K
      <4>1. segments[c] = LastSegment
        BY <1>1, <2>1, <3>1 DEF IInv, Tagged
      <4>2. QED
        BY <3>1, <4>1 DEF LastSegment, tag_segment
    <3>2. CASE c # K
      <4>1. c \in 1 .. K - 1 /\ c + 1 \in Contracts /\ segments[c] = NearSegment(c)
        BY <1>1, <2>1, <3>2 DEF IInv, Tagged, Contracts
      <4>2. bars[c] \in Frames(c) /\ DOMAIN bars[c] \in SUBSET Int
        BY <2>1, FrameType DEF PerContract
      <4>3. t \in Int /\ expiry_for(c) \in Int /\ t <= expiry_for(c)
        BY <3>2, <4>2, ExpiryInMonth DEF MovesOn
      <4>4. \A u \in Crossovers(bars[c], bars[c + 1], expiry_for(c)) : ~(u < t)
        BY <3>2 DEF MovesOn
      <4>5. /\ RollTime(c) \in Int
            /\ \/ RollTime(c) = expiry_for(c)
               \/ RollTime(c) \in Crossovers(bars[c], bars[c + 1], expiry_for(c))
        BY <4>2, <4>3, RollInWindow DEF RollTime
      <4>6. t <= RollTime(c)
        BY <4>3, <4>4, <4>5
      <4>7. DOMAIN segments[c] = Until(bars[c], RollTime(c))
        BY <4>1 DEF NearSegment, tag_segment, near_segment
      <4>8. QED
        BY <4>6, <4>7 DEF Until
    <3>3. QED
      BY <3>1, <3>2
  <2>4. QED
    BY <2>2, <2>3 DEF SegmentDays
<1>2. QED
  BY <1>1, Invariance, PTL
=============================================================================
