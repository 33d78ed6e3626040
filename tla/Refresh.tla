------------------------------- MODULE Refresh -------------------------------
(***************************************************************************)
(* data/refresh.py with what it drives: the fetcher of the selected source *)
(* and its retries, the Parquet store, the database mirror, the validator  *)
(* and the builder of the continuous series.  An operator starts it again  *)
(* and again; any run of it may fail or be killed at any step.             *)
(*                                                                         *)
(* The continuous series is a function of the frames it is built from (see *)
(* ContinuousSeries): a file, and a row of the database, is represented by *)
(* those frames.                                                           *)
(***************************************************************************)
EXTENDS Validator, Sequences

CONSTANTS Jobs,         \* the command lines: contracts, timeframes, start, end
          Answers,      \* Answers[tf][c]: what the source may answer for bars
          References,   \* References[tf]: and for S501!, the times of its bars
          Unserved,     \* the timeframes the engine declines
          MaxAttempts, MaxRuns,
          None, Torn,   \* a file that is not there, or not completely written
          S501          \* a file of the engine's own series (see DataJobs)

Sources == {"mirror", "engine"}

ASSUME JobsAssumption ==
  \A j \in Jobs : /\ j.contracts \in Seq(Contracts) /\ Len(j.contracts) > 0
                  /\ j.timeframes \in Seq(Timeframes) /\ Len(j.timeframes) > 0
                  /\ j.start \in Int /\ j.end \in Int
ASSUME SourceAssumption ==
  /\ Answers \in [Timeframes -> [Contracts -> SUBSET Frames]]
  /\ References \in [Timeframes -> SUBSET SUBSET Slots]
  /\ Slots \subseteq Int /\ \E lo, hi \in Slots : Slots \subseteq lo .. hi
  /\ IsFiniteSet(Revisions) /\ Minutes \in [Timeframes -> Nat \ {0}]
  /\ Unserved \in SUBSET Timeframes /\ "none" \notin Timeframes
  /\ MaxAttempts \in Nat \ {0} /\ MaxRuns \in Nat

VARIABLES
  settings,      \* ohlcv_source, and whether there is a database to write
  job, pc,       \* the command being run, and the step it is at or ended with
  i, k,          \* the timeframe and the contract of the loops
  attempt,       \* the attempt of the request that is open
  df,            \* the frame at hand (of S501!: its times)
  fetched,       \* per_contract of each timeframe of this run; {} is no entry
  reports,       \* summary.reports
  written,       \* how many of them are written
  raw, continuous, reference, report,   \* the files
  ohlcv_raw, ohlcv_continuous,          \* the tables
  runs
local  == <<i, k, attempt, df, fetched, reports, written>>
files  == <<raw, continuous, reference, report>>
tables == <<ohlcv_raw, ohlcv_continuous>>
vars   == <<settings, job, pc, local, files, tables, runs>>

Ended == {"idle", "done", "failed", "killed"}
tf == job.timeframes[i]
code == job.contracts[k]

\* One row for a time; which of several is not determined (the sort is not stable).
Stored(frame) == {f \in [Times(frame) -> Revisions] :
                    \A t \in Times(frame) : [time |-> t, revision |-> f[t]] \in frame}
DoNothing(rows, table) ==
  [t \in DOMAIN rows \cup DOMAIN table |-> IF t \in DOMAIN table THEN table[t] ELSE rows[t]]
\* INSERT ... ON CONFLICT DO UPDATE, in one transaction.
Upsert(rows, table) ==
  [t \in DOMAIN rows \cup DOMAIN table |-> IF t \in DOMAIN rows THEN rows[t] ELSE table[t]]

ToTheEnd(t) == job.start <= t /\ t <= job.end
InWindow(t) == job.start <= t /\ t < job.end
bars_to_frame(bars) == {row \in bars : InWindow(row.time)}

\* The continuous series has its rows at times of the frames it is built from.
TimesOf(basis) == UNION {Times(basis[c]) : c \in Contracts}
Empty == [c \in Contracts |-> {}]
PerContract == fetched[tf]

Init ==
  /\ settings \in [source : Sources, db : BOOLEAN]
  /\ job \in Jobs /\ pc = "idle"
  /\ i = 1 /\ k = 1 /\ attempt = 1 /\ df = {}
  /\ fetched = [t \in Timeframes |-> Empty] /\ reports = <<>> /\ written = 0
  /\ raw = [t \in Timeframes |-> [c \in Contracts |-> None]]
  /\ continuous = [t \in Timeframes |-> None]
  /\ reference = [t \in Timeframes |-> None]
  /\ report = None
  /\ ohlcv_raw = [t \in Timeframes |-> [c \in Contracts |-> <<>>]]
  /\ ohlcv_continuous = [t \in Timeframes |-> <<>>]
  /\ runs = 0

-----------------------------------------------------------------------------
\* The command is run; the pool of the database may not open.
Start ==
  /\ pc \in Ended /\ runs < MaxRuns /\ runs' = runs + 1
  /\ job' \in Jobs
  /\ pc' \in {"fetch"} \cup (IF settings.db THEN {"failed"} ELSE {})
  /\ i' = 1 /\ k' = 1 /\ attempt' = 1 /\ df' = {}
  /\ fetched' = [t \in Timeframes |-> Empty] /\ reports' = <<>> /\ written' = 0
  /\ UNCHANGED <<settings, files, tables>>

Fail ==
  /\ pc' = "failed"
  /\ UNCHANGED <<settings, job, local, files, tables, runs>>

Requesting == pc \in {"fetch", "reference"}

\* An empty window, or a timeframe the engine does not serve: no request is made.
Declined ==
  \/ job.start >= job.end
  \/ settings.source = "engine" /\ tf \in Unserved /\ pc = "fetch"
FetchDeclined == Requesting /\ Declined /\ Fail

\* The engine has no S501!: an empty frame without a request.
Requests == Requesting /\ ~Declined /\ ~(settings.source = "engine" /\ pc = "reference")

OneMore == attempt <= MaxAttempts
AttemptsLeft == attempt < MaxAttempts

RetryForever ==
  /\ Requests
  /\ attempt' = IF AttemptsLeft THEN attempt + 1 ELSE 1
  /\ UNCHANGED <<settings, job, pc, i, k, df, fetched, reports, written, files, tables, runs>>

\* A transient failure is tried again; an answer that is an error is not.
FetchRetry ==
  /\ Requests /\ AttemptsLeft
  /\ attempt' = attempt + 1
  /\ UNCHANGED <<settings, job, pc, i, k, df, fetched, reports, written, files, tables, runs>>
FetchFails == Requests /\ Fail

\* The loop over the contracts ends in the continuous series, if there is one.
AnyFetched(per_contract) == \E c \in Contracts : per_contract[c] # {}
AlwaysReference(per_contract) ==
  /\ attempt' = 1 /\ df' = {}
  /\ k' = IF k < Len(job.contracts) THEN k + 1 ELSE k
  /\ pc' = IF k < Len(job.contracts) THEN "fetch"
           ELSE IF AnyFetched(per_contract) THEN "build" ELSE "reference"
  /\ UNCHANGED i
NextContract(per_contract) ==
  /\ attempt' = 1 /\ df' = {}
  /\ k' = IF k < Len(job.contracts) THEN k + 1 ELSE k
  /\ pc' = IF k < Len(job.contracts) THEN "fetch"
           ELSE IF AnyFetched(per_contract) THEN "build" ELSE "next"
  /\ UNCHANGED i
EndOfTimeframe == attempt' = 1 /\ df' = {} /\ pc' = "next" /\ UNCHANGED <<i, k>>

\* The bars of one contract arrive; without one inside the window it is left out.
fetch_contract ==
  /\ pc = "fetch" /\ Requests
  /\ \E bars \in Answers[tf][code] :
       IF bars_to_frame(bars) = {} THEN NextContract(PerContract)
       ELSE /\ df' = bars_to_frame(bars) /\ pc' = "write_raw"
            /\ UNCHANGED <<i, k, attempt>>
  /\ UNCHANGED <<settings, job, fetched, reports, written, files, tables, runs>>

\* The whole file is replaced.
write_raw ==
  /\ pc = "write_raw"
  /\ raw' \in {[raw EXCEPT ![tf][code] = f] : f \in Stored(df)}
  /\ pc' = IF settings.db THEN "upsert_raw" ELSE "validate"
  /\ UNCHANGED <<settings, job, local, continuous, reference, report, tables, runs>>

upsert_raw_frame ==
  /\ pc = "upsert_raw"
  /\ ohlcv_raw' \in {[ohlcv_raw EXCEPT ![tf][code] = Upsert(f, @)] : f \in Stored(df)}
  /\ pc' = "validate"
  /\ UNCHANGED <<settings, job, local, files, ohlcv_continuous, runs>>

Validate ==
  /\ pc = "validate"
  /\ fetched' = [fetched EXCEPT ![tf][code] = df]
  /\ reports' = Append(reports, validate(df, tf, code))
  /\ NextContract(fetched'[tf])
  /\ UNCHANGED <<settings, job, written, files, tables, runs>>

\* A roll without a close before it: ContinuousContractError.
BuildFails ==
  /\ pc = "build"
  /\ \E c, d \in Contracts : c # d /\ PerContract[c] # {} /\ PerContract[d] # {}
  /\ Fail

write_continuous ==
  /\ pc = "build"
  /\ continuous' = [continuous EXCEPT ![tf] = PerContract]
  /\ pc' = IF settings.db THEN "upsert_continuous" ELSE "reference"
  /\ UNCHANGED <<settings, job, local, raw, reference, report, tables, runs>>

upsert_continuous_frame ==
  /\ pc = "upsert_continuous"
  /\ ohlcv_continuous' =
       [ohlcv_continuous EXCEPT
          ![tf] = Upsert([t \in TimesOf(PerContract) |-> PerContract], @)]
  /\ pc' = "reference"
  /\ UNCHANGED <<settings, job, local, files, ohlcv_raw, runs>>

UpsertFails == pc \in {"upsert_raw", "upsert_continuous"} /\ Fail

\* S501! arrives, or (the engine) nothing; the cross-check needs a bar of it.
fetch_continuous_reference ==
  /\ pc = "reference" /\ ~Declined
  /\ \E times \in IF Requests THEN References[tf] ELSE {{}} :
       LET s501 == {t \in times : InWindow(t)}
       IN IF s501 = {} THEN EndOfTimeframe
          ELSE /\ df' = s501 /\ pc' = "write_reference" /\ UNCHANGED <<i, k, attempt>>
  /\ UNCHANGED <<settings, job, fetched, reports, written, files, tables, runs>>

write_reference ==
  /\ pc = "write_reference"
  /\ reference' = [reference EXCEPT ![tf] = df]
  /\ reports' =
       IF reports = <<>> THEN reports
       ELSE [reports EXCEPT ![Len(reports)].cross_check =
               validate_continuous_against_reference(TimesOf(PerContract), df, tf)]
  /\ EndOfTimeframe
  /\ UNCHANGED <<settings, job, fetched, written, raw, continuous, report, tables, runs>>

\* The loop over the timeframes: per_contract is empty again.
NextTimeframe ==
  /\ pc = "next"
  /\ IF i < Len(job.timeframes)
     THEN /\ i' = i + 1 /\ k' = 1 /\ pc' = "fetch"
          /\ fetched' = [fetched EXCEPT ![job.timeframes[i + 1]] = Empty]
     ELSE pc' = "persist" /\ UNCHANGED <<i, k, fetched>>
  /\ UNCHANGED <<settings, job, attempt, df, reports, written, files, tables, runs>>

\* One report after the other, all of them into the file of the day.
write_validation_report ==
  /\ pc = "persist" /\ written < Len(reports)
  /\ written' = written + 1
  /\ report' = reports[written + 1]
  /\ UNCHANGED <<settings, job, pc, i, k, attempt, df, fetched, reports,
                 raw, continuous, reference, tables, runs>>

Return ==
  /\ pc = "persist" /\ written = Len(reports)
  /\ pc' = "done"
  /\ UNCHANGED <<settings, job, local, files, tables, runs>>

(* The process is killed.  A file that is being written is left torn, the
   transaction of an upsert is rolled back, the memory is gone. *)
Tear(file, step) == IF pc = step THEN {file, Torn} ELSE {file}
Kill ==
  /\ pc \notin Ended /\ pc' = "killed"
  /\ raw' \in {[raw EXCEPT ![tf][code] = f] : f \in Tear(raw[tf][code], "write_raw")}
  /\ continuous' \in {[continuous EXCEPT ![tf] = f] : f \in Tear(continuous[tf], "build")}
  /\ reference' \in {[reference EXCEPT ![tf] = f] : f \in Tear(reference[tf], "write_reference")}
  /\ report' \in IF written < Len(reports) THEN Tear(report, "persist") ELSE {report}
  /\ i' = 1 /\ k' = 1 /\ attempt' = 1 /\ df' = {} /\ written' = 0
  /\ fetched' = [t \in Timeframes |-> Empty] /\ reports' = <<>>
  /\ UNCHANGED <<settings, job, tables, runs>>

(* scripts/validate_ohlcv.py: the stored file once more, and its report over
   the one of the day; a file that is not there, or torn, gives none. *)
FileFrame(file) == {[time |-> t, revision |-> file[t]] : t \in DOMAIN file}
validate_ohlcv ==
  /\ pc \in Ended /\ runs < MaxRuns /\ runs' = runs + 1
  /\ pc' = "idle"
  /\ \E t \in Timeframes, c \in Contracts :
       /\ raw[t][c] \notin {None, Torn}
       /\ report' = validate(FileFrame(raw[t][c]), t, c)
  /\ UNCHANGED <<settings, job, local, raw, continuous, reference, tables>>

Step ==
  \/ FetchDeclined \/ FetchRetry \/ FetchFails \/ fetch_contract \/ write_raw
  \/ upsert_raw_frame \/ UpsertFails \/ Validate \/ BuildFails \/ write_continuous
  \/ upsert_continuous_frame \/ fetch_continuous_reference \/ write_reference
  \/ NextTimeframe \/ write_validation_report \/ Return
Next == Start \/ validate_ohlcv \/ Step \/ Kill
Spec == Init /\ [][Next]_vars

-----------------------------------------------------------------------------
Tables(rows) == UNION {[times -> rows] : times \in SUBSET Slots}
\* A file that is missing or torn is not a file with rows.
ASSUME MarkersAssumption == None \notin Tables(Revisions) /\ Torn \notin Tables(Revisions)

Basis == [Contracts -> Frames]
Missed(file) == file \in {None, Torn}
Report == [contract : Contracts, timeframe : Timeframes, bar_count : Nat, missing : Nat,
           duplicates : Int, is_clean : BOOLEAN,
           cross_check : [timeframe : Timeframes \cup {"none"}, aligned : Nat]]

\* Every variable has its type; a step that handles a frame has one.
TypeOK ==
  /\ settings \in [source : Sources, db : BOOLEAN] /\ job \in Jobs /\ runs \in 0 .. MaxRuns
  /\ pc \in Ended \cup {"fetch", "write_raw", "upsert_raw", "validate", "build",
                        "upsert_continuous", "reference", "write_reference", "next", "persist"}
  /\ i \in 1 .. Len(job.timeframes) /\ k \in 1 .. Len(job.contracts)
  /\ attempt \in 1 .. MaxAttempts
  /\ df \in IF pc = "write_reference" THEN SUBSET Slots ELSE Frames \cup SUBSET Slots
  /\ pc \in {"write_raw", "upsert_raw", "validate"} => df \in Frames \ {{}}
  /\ fetched \in [Timeframes -> Basis]
  /\ reports \in Seq(Report) /\ written \in 0 .. Len(reports)
  /\ raw \in [Timeframes -> [Contracts -> Tables(Revisions) \cup {None, Torn}]]
  /\ ohlcv_raw \in [Timeframes -> [Contracts -> Tables(Revisions)]]
  /\ continuous \in [Timeframes -> Basis \cup {S501, None, Torn}]
  /\ DOMAIN ohlcv_continuous = Timeframes
  /\ \A t \in Timeframes : \E times \in SUBSET Slots : ohlcv_continuous[t] \in [times -> Basis]
  /\ reference \in [Timeframes -> (SUBSET Slots) \cup {None, Torn}]
  /\ report \in Report \cup {None, Torn}

(* "Idempotent on re-run" (refresh.py): when a run is done, files and tables
   hold what this run was answered and nothing a run that failed or was killed
   in between has left, a torn file or a table behind its file; the tables keep
   in addition what they had at other times. *)
SameRow(frame, table, t) == [time |-> t, revision |-> table[t]] \in frame
RawMirrored(t, c) ==
  /\ raw[t][c] \in Stored(fetched[t][c])
  /\ settings.db => \A u \in Times(fetched[t][c]) :
                      u \in DOMAIN ohlcv_raw[t][c] /\ SameRow(fetched[t][c], ohlcv_raw[t][c], u)
ContinuousMirrored(t) ==
  /\ continuous[t] = fetched[t]
  /\ settings.db => \A u \in TimesOf(fetched[t]) :
                      u \in DOMAIN ohlcv_continuous[t] /\ ohlcv_continuous[t][u] = fetched[t]
Mirrored ==
  pc = "done" => \A t \in Timeframes :
                   /\ \A c \in Contracts : fetched[t][c] # {} => RawMirrored(t, c)
                   /\ AnyFetched(fetched[t]) => ContinuousMirrored(t)

(* Whatever the source answers, a run takes no bar from outside its window,
   whose end is left out (_bars_to_frame), and no such bar is ever stored. *)
Asked(t) == \E j \in Jobs : j.start <= t /\ t < j.end
WithinWindow ==
  \A t \in Timeframes : \A c \in Contracts :
    /\ \A row \in fetched[t][c] : job.start <= row.time /\ row.time < job.end
    /\ ~Missed(raw[t][c]) => \A u \in DOMAIN raw[t][c] : Asked(u)
    /\ \A u \in DOMAIN ohlcv_raw[t][c] : Asked(u)
    /\ \A u \in DOMAIN ohlcv_continuous[t] : Asked(u)

(* "Mutate the most recent report for this timeframe" (refresh.py): the last
   report in the list is one of the timeframe that is checked. *)
CrossCheckInPlace ==
  \A n \in 1 .. Len(reports) :
    reports[n].cross_check.timeframe \in {"none", reports[n].timeframe}

(* The reports of a run say what its files hold: of each contract, the last one
   has as many distinct times, and as many of them missing, as the file. *)
LastOfItsFrame(n) ==
  \A m \in (n + 1) .. Len(reports) :
    reports[m].contract # reports[n].contract \/ reports[m].timeframe # reports[n].timeframe
ReportTrue ==
  pc \in {"persist", "done"} =>
    \A n \in 1 .. Len(reports) :
      LET r == reports[n]
          file == raw[r.timeframe][r.contract]
      IN LastOfItsFrame(n) =>
           /\ ~Missed(file)
           /\ r.bar_count - r.duplicates = Cardinality(DOMAIN file)
           /\ r.missing = count_missing_bars_in_session(FileFrame(file), r.timeframe)

(* The missing bars are those a trading day should have between its first and
   its last bar.  The night runs past midnight in Bangkok, into a Saturday or a
   holiday, and is still of the day it began on; the code counts by UTC date. *)
Instants == (CHOOSE s \in Slots : \A u \in Slots : s <= u)
              .. (CHOOSE s \in Slots : \A u \in Slots : u <= s)
IsSlot(t, minutes) ==
  /\ is_business_day(TradingDate(t))
  /\ \E name \in SessionNames :
       LET minute == to_bkk(t) - TradingDate(t) * Day
       IN Within(minute, name) /\ (minute - Opens[name]) % minutes = 0
Missing(frame, t) ==
  {u \in Instants \ Times(frame) :
     /\ IsSlot(u, Minutes[t])
     /\ \E a, b \in Times(frame) : /\ a < u /\ u < b
                                   /\ TradingDate(a) = TradingDate(u)
                                   /\ TradingDate(b) = TradingDate(u)}
MissingExact ==
  pc = "validate" => count_missing_bars_in_session(df, tf) = Cardinality(Missing(df, tf))
=============================================================================
