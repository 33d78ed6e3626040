------------------------------- MODULE Session -------------------------------
(***************************************************************************)
(* data/session.py: the trading sessions of a day in Bangkok.  An instant  *)
(* is a number of UTC minutes, a date a number of days; date 0 is a Monday *)
(* and Bangkok is seven hours ahead, without daylight saving.              *)
(***************************************************************************)
EXTENDS Integers

CONSTANT Holidays   \* the dates of THAI_HOLIDAYS_2024_2026

ASSUME HolidaysAssumption == Holidays \subseteq Int

Day == 24 * 60
to_bkk(t) == t + 7 * 60
DateOf(t) == t \div Day
MinuteOf(t) == t % Day

SessionNames == {"morning", "afternoon", "night"}
Opens == [morning |-> 9 * 60 + 45, afternoon |-> 13 * 60 + 45, night |-> 18 * 60 + 45]
Closes == [morning |-> 12 * 60 + 30, afternoon |-> 16 * 60 + 55, night |-> 27 * 60]
NightTail == Closes.night - Day   \* the night ends at this minute of the next date

Within(minute, name) == Opens[name] <= minute /\ minute < Closes[name]

is_business_day(d) == d % 7 < 5 /\ d \notin Holidays

\* The date that is asked about is the calendar's, after midnight too.
session_of(t) ==
  LET minute == MinuteOf(to_bkk(t))
  IN CASE ~is_business_day(DateOf(to_bkk(t)))    -> "closed"
       [] OTHER ->
          CASE minute < NightTail                 -> "night"
            [] Within(minute, "morning")          -> "morning"
            [] Closes.morning <= minute /\ minute < Opens.afternoon -> "lunch"
            [] Within(minute, "afternoon")        -> "afternoon"
            [] minute >= Opens.night              -> "night"
            [] OTHER                              -> "closed"

is_lunch_dead_zone(t) ==
  LET minute == MinuteOf(to_bkk(t)) IN 12 * 60 <= minute /\ minute < 14 * 60

\* Which part of the day it is, on any date.
time_of_day_bucket(t) ==
  LET minute == MinuteOf(to_bkk(t))
      open == Opens.morning
      close == Closes.afternoon
  IN CASE minute < NightTail                                          -> "night"
       [] NightTail <= minute /\ minute < open                        -> "pre-open"
       [] open <= minute /\ minute < open + 30                        -> "open"
       [] open + 30 <= minute /\ minute < Closes.morning              -> "mid-morning"
       [] Closes.morning <= minute /\ minute < Opens.afternoon        -> "lunch"
       [] Opens.afternoon <= minute /\ minute < close - 15            -> "afternoon"
       [] close - 15 <= minute /\ minute < close                      -> "pre-close"
       [] Opens.night <= minute                                       -> "night"
       [] OTHER                                                       -> "pre-open"

\* The instants of date d a bar of that many minutes should start at.
Grid(name, minutes) == {k \in 0 .. (Day \div minutes) : Opens[name] + k * minutes < Closes[name]}
expected_session_minutes(d, minutes) ==
  UNION {{d * Day - 7 * 60 + Opens[name] + k * minutes : k \in Grid(name, minutes)} :
           name \in SessionNames}

(* The date whose sessions an instant belongs to, by the sessions' own clock:
   the hours until the night's end are still the night of the date before. *)
TradingDate(t) == DateOf(to_bkk(t) - NightTail)
=============================================================================
