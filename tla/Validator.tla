------------------------------ MODULE Validator ------------------------------
(***************************************************************************)
(* data/validator.py: the report about one contract's frame.  A frame is a *)
(* set of rows; rows of one time with different values are told apart by   *)
(* their revision, which stands for open, high, low, close and volume.     *)
(* The spread outliers (at least 30 bars) are left out.                    *)
(***************************************************************************)
EXTENDS Session, FiniteSets

CONSTANTS Contracts, Timeframes,
          Minutes,    \* TIMEFRAME_MINUTES
          Slots,      \* the times bars of the source may have
          Revisions

Row == [time : Slots, revision : Revisions]
Frames == SUBSET Row
Times(df) == {row.time : row \in df}

Surplus(df) == Cardinality(Times(df)) - Cardinality(df)
count_duplicate_timestamps(df) == Cardinality(df) - Cardinality(Times(df))

OnBangkokDate(df, d) == {t \in Times(df) : DateOf(to_bkk(t)) = d}
\* The frame's times on one UTC date, and what is expected between them.
OnDate(df, d) == {t \in Times(df) : DateOf(t) = d}
InObservedWindow(t, day) == (\E u \in day : u <= t) /\ (\E u \in day : t <= u)

ExpectedButAbsent(df, d, tf) ==
  {t \in expected_session_minutes(d, Minutes[tf]) :
     InObservedWindow(t, OnDate(df, d)) /\ t \notin Times(df)}

count_missing_bars_in_session(df, tf) ==
  Cardinality(UNION {ExpectedButAbsent(df, d, tf) :
                       d \in {DateOf(t) : t \in {u \in Times(df) : is_business_day(DateOf(u))}}})

\* A report is an error report from one missing bar in a thousand on.
IsClean(missing, df) == missing * 1000 < Cardinality(df) \/ missing = 0

NoCrossCheck == [timeframe |-> "none", aligned |-> 0]

validate(df, tf, c) ==
  LET missing == count_missing_bars_in_session(df, tf)
  IN [contract    |-> c,
      timeframe   |-> tf,
      bar_count   |-> Cardinality(df),
      missing     |-> missing,
      duplicates  |-> count_duplicate_timestamps(df),
      is_clean    |-> IsClean(missing, df),
      cross_check |-> NoCrossCheck]

\* The bars of two series at the same time; their returns are not told apart.
validate_continuous_against_reference(ours, s501, tf) ==
  [timeframe |-> tf, aligned |-> Cardinality(ours \cap s501)]
=============================================================================
