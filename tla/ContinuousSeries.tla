-------------------------- MODULE ContinuousSeries --------------------------
(***************************************************************************)
(* data/continuous.py: the contracts' bars are spliced into one series.    *)
(* The contracts are walked in order of expiry; each but the last gives up *)
(* at its roll and its earlier prices are moved onto the next one's scale. *)
(*                                                                         *)
(* Time is counted in days, a bar a day.  Closes are logarithms, so that   *)
(* the ratio of two closes is a difference and a factor is added; open,    *)
(* high and low are scaled as the close is, and the volume never is.       *)
(***************************************************************************)
EXTENDS Integers, Sequences

CONSTANTS K,          \* how many contracts, numbered in order of expiry
          MonthEnd,   \* MonthEnd[c]: the last day of contract c's month
          MonthLength,
          Business,   \* the days the calendar counts as business days
          Offset,     \* roll_offset_days
          Days,       \* Days[c]: the days contract c may have a bar on
          Closes, Volumes

Contracts == 1 .. K
Month(c) == (MonthEnd[c] - MonthLength + 1) .. MonthEnd[c]

(* Months have a business day (expiry_for raises otherwise) and are further
   apart than the roll window is long: quarters, and a setting of at most 30. *)
ASSUME SizesAssumption ==
  /\ K \in Nat \ {0}
  /\ MonthLength \in Nat \ {0}
  /\ Offset \in Nat
  /\ MonthEnd \in [Contracts -> Int]
  /\ Days \in [Contracts -> SUBSET Int]
  /\ Closes \subseteq Int
  /\ Volumes \subseteq Nat
ASSUME CalendarAssumption ==
  /\ \A c \in Contracts : Month(c) \cap Business # {}
  /\ \A c, d \in Contracts :
       c < d => MonthEnd[c] + Offset < MonthEnd[d] - MonthLength + 1

VARIABLES bars,      \* per_contract: contract -> day -> bar
          rolls,     \* the RollRecords so far: roll_time, ratio
          segments,  \* the tagged segments so far: day -> row
          series,    \* the continuous frame: day -> row, empty until stitched
          status
vars == <<bars, rolls, segments, series, status>>

Row == [contract : Contracts, factor : Int, close : Int]

-----------------------------------------------------------------------------
\* The last business day of the contract's month.
expiry_for(c) ==
  LET open == Month(c) \cap Business
  IN CHOOSE d \in open : \A e \in open : e <= d

(* Expiry is the last second of its day, so the window leaves out the day
   that lies Offset days before. *)
NoWindowStart(t, expiry) == t <= expiry
InWindow(t, expiry) == expiry - Offset < t /\ t <= expiry

Crossovers(near, far, expiry) ==
  {t \in DOMAIN near \cap DOMAIN far :
     InWindow(t, expiry) /\ far[t].volume >= near[t].volume}

\* The first crossover of the volumes in the window, or else the expiry.
find_roll_time(near, far, expiry) ==
  LET crossover == Crossovers(near, far, expiry)
  IN IF crossover = {} THEN expiry
     ELSE CHOOSE t \in crossover : \A u \in crossover : t <= u

\* The days of a frame's bars until t, and the close of the last of them.
Until(df, t) == {u \in DOMAIN df : u <= t}
close_at_or_before(df, t) ==
  df[CHOOSE u \in Until(df, t) : \A v \in Until(df, t) : v <= u].close

HasRatio(near, far, t) == Until(near, t) # {} /\ Until(far, t) # {}
InverseRatio(near, far, t) == close_at_or_before(near, t) - close_at_or_before(far, t)
compute_roll_ratio(near, far, t) ==
  close_at_or_before(far, t) - close_at_or_before(near, t)

\* cumulative_factor is 1 from the start and assigned to itself after a roll.
CumulativeFactor == 0

tag_segment(df, days, c, factor) ==
  [t \in days |-> [contract |-> c, factor |-> factor, close |-> df[t].close]]

AllOfNear(near, t) == DOMAIN near
BeforeTheRoll(near, t) == {u \in DOMAIN near : u < t}
near_segment(near, t) == Until(near, t)

-----------------------------------------------------------------------------
\* A frame without bars is not passed in: refresh leaves such a contract out.
Frames(c) ==
  UNION {[S -> [close : Closes, volume : Volumes]] : S \in (SUBSET Days[c]) \ {{}}}

PerContract == {f \in [Contracts -> UNION {Frames(c) : c \in Contracts}] :
                  \A c \in Contracts : f[c] \in Frames(c)}

Init ==
  /\ bars \in PerContract
  /\ rolls = <<>> /\ segments = <<>> /\ series = <<>> /\ status = "walking"

\* The contract the walk is at, and the roll out of it.
Current == Len(segments) + 1
RollTime(c) == find_roll_time(bars[c], bars[c + 1], expiry_for(c))
RollRatio(c) == compute_roll_ratio(bars[c], bars[c + 1], RollTime(c))
Splices(c) == HasRatio(bars[c], bars[c + 1], RollTime(c))
NearSegment(c) == tag_segment(bars[c], near_segment(bars[c], RollTime(c)), c,
                              CumulativeFactor + RollRatio(c))

RollUnrecorded ==
  /\ status = "walking" /\ Current < K /\ Splices(Current)
  /\ segments' = Append(segments, NearSegment(Current))
  /\ UNCHANGED <<bars, rolls, series, status>>

\* A pair: the roll, its ratio, and the near contract's bars until it.
RollOut ==
  /\ status = "walking" /\ Current < K /\ Splices(Current)
  /\ rolls' = Append(rolls, [roll_time |-> RollTime(Current), ratio |-> RollRatio(Current)])
  /\ segments' = Append(segments, NearSegment(Current))
  /\ UNCHANGED <<bars, series, status>>

\* No close at or before the roll: ContinuousContractError, nothing is built.
MissingClose ==
  /\ status = "walking" /\ Current < K /\ ~Splices(Current)
  /\ status' = "failed"
  /\ UNCHANGED <<bars, rolls, segments, series>>

\* The last contract keeps all of its bars.
LastSegment == tag_segment(bars[K], DOMAIN bars[K], K, CumulativeFactor)
LastContract ==
  /\ status = "walking" /\ Current = K
  /\ segments' = Append(segments, LastSegment)
  /\ status' = "walked"
  /\ UNCHANGED <<bars, rolls, series>>

(* concat, sort by time, one row a day.  The sort does not keep the order of
   rows of the same day, so any of them may be the one that stays. *)
RowsOn(t) == {segments[c][t] : c \in {d \in Contracts : t \in DOMAIN segments[d]}}
SegmentDays == UNION {DOMAIN segments[c] : c \in Contracts}
Stitched == {f \in [SegmentDays -> UNION {RowsOn(t) : t \in SegmentDays}] :
               \A t \in SegmentDays : f[t] \in RowsOn(t)}

Stitch ==
  /\ status = "walked"
  /\ series' \in Stitched
  /\ status' = "built"
  /\ UNCHANGED <<bars, rolls, segments>>

Next == RollOut \/ MissingClose \/ LastContract \/ Stitch
Spec == Init /\ [][Next]_vars

-----------------------------------------------------------------------------
\* Every variable has its type; a roll is recorded for each segment but the last.
TypeOK ==
  /\ status \in {"walking", "walked", "built", "failed"}
  /\ bars \in PerContract
  /\ rolls \in Seq([roll_time : Int, ratio : Int])
  /\ Len(segments) \in 0 .. K
  /\ Len(rolls) = IF Len(segments) < K THEN Len(segments) ELSE K - 1
  /\ \A t \in DOMAIN series : series[t] \in Row

(* The rolls follow one another in time, so every day belongs to one contract
   that is neither rolled out of nor waiting (_find_roll_time's window keeps a
   far contract that trades early from rolling before the near one). *)
RollsAdvance ==
  \A j, k \in 1 .. Len(rolls) : j < k => rolls[j].roll_time < rolls[k].roll_time

(* After the roll out of a contract no row of the series is that contract's or
   an earlier one's, whichever row of a day is kept (the filter at the roll). *)
RolledOutIsGone ==
  \A t \in DOMAIN series : \A k \in 1 .. Len(rolls) :
    rolls[k].roll_time < t => series[t].contract > k

(* The bars of a contract count until the market moves on: as long as its
   successor has not traded as much inside the roll window, and it has not
   expired, a day with a bar of it is a day of the series. *)
MovesOn(c, t) ==
  \/ expiry_for(c) < t
  \/ \E u \in Crossovers(bars[c], bars[c + 1], expiry_for(c)) : u < t
NothingLost ==
  status = "built" =>
    \A c \in Contracts : \A t \in DOMAIN bars[c] :
      (c = K \/ ~MovesOn(c, t)) => t \in DOMAIN series

(* At a roll, a row of the near contract carries the price the far contract
   has on that day, so the two last contracts join without a gap.  (The day
   must have a bar of both; the ratio is taken from older bars otherwise.) *)
JoinsTheNext ==
  \A t \in DOMAIN series :
    LET c == series[t].contract
    IN (/\ c < K /\ t = rolls[c].roll_time /\ t \in DOMAIN bars[c + 1])
       => series[t].close + series[t].factor = bars[c + 1][t].close

(* The promise of the module: the series is gap-free, that is a row of a
   contract is on the price scale of the last one, which is the sum of the
   ratios of every roll from its contract on. *)
SumFrom[k \in Nat] ==
  IF k = 0 \/ k >= K THEN 0 ELSE rolls[k].ratio + SumFrom[k + 1]
GapFree ==
  status = "built" =>
    \A t \in DOMAIN series : series[t].factor = SumFrom[series[t].contract]

=============================================================================
