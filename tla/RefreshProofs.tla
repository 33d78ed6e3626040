---------------------------- MODULE RefreshProofs ----------------------------
(***************************************************************************)
(* Proofs about Refresh and DataJobs for any contracts, timeframes and     *)
(* commands, and whatever the source and the engine answer.                *)
(***************************************************************************)
EXTENDS DataJobs, SetInduction, SequenceTheorems, TLAPS

-----------------------------------------------------------------------------
(* What the commands together do to the store of a refresh: the script starts
   when no refresh runs, and writes a file of the series while none does. *)
ScriptBegins ==
  /\ pc \in Ended /\ runs < MaxRuns /\ runs' = runs + 1 /\ pc' = "idle"
  /\ UNCHANGED <<settings, job, local, files, tables>>
ScriptWrites ==
  /\ pc = "idle"
  /\ \E t \in Timeframes, f \in {S501, Torn} :
       continuous' \in {continuous, [continuous EXCEPT ![t] = f], [continuous EXCEPT ![t] = @]}
  /\ UNCHANGED <<settings, job, pc, local, raw, reference, report, tables, runs>>
StoreNext == Next \/ ScriptBegins \/ ScriptWrites
StoreSpec == Init /\ [][StoreNext]_vars

\* No refresh runs beside the script.
OneCommand == script # "ended" => pc = "idle"

LEMMA OneCommandKept == OneCommand /\ [JobsNext]_jobVars => OneCommand'
<1> SUFFICES ASSUME OneCommand, [JobsNext]_jobVars PROVE OneCommand'
  OBVIOUS
<1>1. CASE RefreshNext /\ UNCHANGED scriptVars
  <2>1. CASE script = "ended"
    BY <1>1, <2>1 DEF scriptVars, OneCommand
  <2>2. CASE script # "ended"
    BY <1>1, <2>2 DEF OneCommand, RefreshNext, Quiet, Step, Kill, Ended, FetchDeclined, Declined,
       Requesting, FetchRetry, FetchFails, Requests, fetch_contract, write_raw, upsert_raw_frame,
       UpsertFails, Validate, BuildFails, write_continuous, upsert_continuous_frame,
       fetch_continuous_reference, write_reference, NextTimeframe, write_validation_report, Return
  <2>. QED
    BY <2>1, <2>2
<1>2. CASE ScriptStarts
  BY <1>2 DEF ScriptStarts, OneCommand
<1>3. CASE HistoryGrows \/ ScriptStep
  BY <1>3 DEF HistoryGrows, ScriptStep, NextPage, LastPage, ScriptDies, Write1h, Write1d, vars,
              OneCommand
<1>4. CASE run_post_refresh_hook \/ HookStep
  BY <1>4 DEF run_post_refresh_hook, HookStep, PostFails, PostSucceeds, GivesUp, vars,
              scriptVars, OneCommand
<1>5. CASE UNCHANGED jobVars
  BY <1>5 DEF jobVars, vars, scriptVars, OneCommand
<1> QED
  BY <1>1, <1>2, <1>3, <1>4, <1>5 DEF JobsNext

LEMMA JobStep == OneCommand /\ [JobsNext]_jobVars => [StoreNext]_vars
<1> SUFFICES ASSUME OneCommand, [JobsNext]_jobVars PROVE [StoreNext]_vars
  OBVIOUS
<1>1. CASE RefreshNext
  BY <1>1 DEF RefreshNext, StoreNext, Next
<1>2. CASE ScriptStarts
  BY <1>2 DEF ScriptStarts, Quiet, ScriptBegins, StoreNext
<1>3. CASE ScriptDies
  <2> DEFINE t == IF script = "write_1h" THEN Hourly ELSE Daily
  <2>1. /\ pc = "idle" /\ t \in Timeframes
        /\ UNCHANGED <<settings, job, pc, local, raw, reference, report, tables, runs>>
    BY <1>3, JobSizes DEF ScriptDies, OneCommand
  <2>2. PICK f : /\ continuous' = [continuous EXCEPT ![t] = f]
                 /\ f \in IF script = "paging" THEN {continuous[Daily]}
                          ELSE {continuous[t], Torn}
    BY <1>3 DEF ScriptDies
  <2>3. f = continuous[t] \/ f = Torn
    BY <2>2
  <2>4. continuous' \in {continuous, [continuous EXCEPT ![t] = Torn], [continuous EXCEPT ![t] = @]}
    BY <2>2, <2>3
  <2>. QED
    BY <2>1, <2>4 DEF ScriptWrites, StoreNext
<1>4. CASE Write1h \/ Write1d
  <2>1. PICK t \in {Hourly, Daily} : continuous' = [continuous EXCEPT ![t] = S501]
    BY <1>4 DEF Write1h, Write1d
  <2>2. /\ pc = "idle" /\ t \in Timeframes
        /\ UNCHANGED <<settings, job, pc, local, raw, reference, report, tables, runs>>
    BY <1>4, <2>1, JobSizes DEF Write1h, Write1d, OneCommand
  <2>. QED
    BY <2>1, <2>2 DEF ScriptWrites, StoreNext
<1>5. CASE HistoryGrows \/ NextPage \/ LastPage \/ run_post_refresh_hook \/ HookStep
  BY <1>5 DEF HistoryGrows, NextPage, LastPage, run_post_refresh_hook, HookStep, PostFails,
              PostSucceeds, GivesUp
<1>6. CASE UNCHANGED jobVars
  BY <1>6 DEF jobVars
<1> QED
  BY <1>1, <1>2, <1>3, <1>4, <1>5, <1>6 DEF JobsNext, ScriptStep

\* All that holds of the store under StoreSpec holds of it with all commands.
LEMMA JobsKeepTheStore == JobsSpec => StoreSpec
<1>1. JobsInit => OneCommand /\ Init
  BY DEF JobsInit, OneCommand
<1> QED
  BY <1>1, OneCommandKept, JobStep, PTL DEF JobsSpec, StoreSpec

-----------------------------------------------------------------------------
\* Times are numbers, and there are finitely many rows.
LEMMA SlotsFinite == IsFiniteSet(Slots) /\ Slots \in SUBSET Int
<1>1. PICK lo \in Slots, hi \in Slots : Slots \subseteq lo .. hi
  BY SourceAssumption
<1>2. lo \in Int /\ hi \in Int /\ IsFiniteSet(lo .. hi)
  BY FS_Interval, SourceAssumption
<1>3. IsFiniteSet(Slots)
  BY <1>1, <1>2, FS_Subset, Zenon
<1>4. Slots \in SUBSET Int
  BY <1>1
<1>5. QED
  BY <1>3, <1>4

LEMMA RowsFinite == IsFiniteSet(Row)
<1> DEFINE pairs == Slots \X Revisions
           row == [p \in pairs |-> [time |-> p[1], revision |-> p[2]]]
<1>1. IsFiniteSet(pairs)
  BY SlotsFinite, SourceAssumption, FS_Product
<1>2. row \in Surjection(pairs, Row)
  <2>1. row \in [pairs -> Row]
    BY DEF Row
  <2>2. ASSUME NEW r \in Row PROVE \E p \in pairs : row[p] = r
    <3>1. <<r.time, r.revision>> \in pairs /\ row[<<r.time, r.revision>>] = r
      BY DEF Row
    <3>2. QED
      BY <3>1
  <2>3. QED
    BY <2>1, <2>2 DEF Surjection
<1>3. QED
  BY <1>1, <1>2, FS_Surjection

\* A frame and its times are finite.
LEMMA FrameFinite ==
  ASSUME NEW frame \in Frames
  PROVE  /\ IsFiniteSet(frame) /\ Cardinality(frame) \in Nat
         /\ Times(frame) \in SUBSET Slots
         /\ IsFiniteSet(Times(frame)) /\ Cardinality(Times(frame)) \in Nat
<1>1. IsFiniteSet(frame)
  BY RowsFinite, FS_Subset DEF Frames
<1>2. Times(frame) \in SUBSET Slots
  BY DEF Frames, Row, Times
<1>3. IsFiniteSet(Times(frame))
  BY <1>2, SlotsFinite, FS_Subset
<1>4. QED
  BY <1>1, <1>2, <1>3, FS_CardinalityType

\* The times of a session's grid are numbers.
LEMMA GridType ==
  ASSUME NEW d \in Int, NEW t \in Timeframes
  PROVE  expected_session_minutes(d, Minutes[t]) \in SUBSET Int
<1>1. Minutes[t] \in Nat \ {0}
  BY SourceAssumption
<1>2. Opens \in [SessionNames -> Int]
  BY DEF Opens, SessionNames
<1>3. ASSUME NEW name \in SessionNames, NEW m \in Grid(name, Minutes[t])
      PROVE  d * Day - 7 * 60 + Opens[name] + m * Minutes[t] \in Int
  <2>1. m \in Int
    BY <1>1 DEF Grid, Day
  <2>2. m * Minutes[t] \in Int /\ d * Day \in Int
    BY <1>1, <2>1 DEF Day
  <2>3. QED
    BY <1>2, <2>2
<1>4. QED
  BY <1>3 DEF expected_session_minutes

\* What is missing lies between times of the frame, so it can be counted.
LEMMA MissingType ==
  ASSUME NEW frame \in Frames, NEW t \in Timeframes
  PROVE  count_missing_bars_in_session(frame, t) \in Nat
<1> DEFINE dates == {DateOf(u) : u \in {v \in Times(frame) : is_business_day(DateOf(v))}}
           absent == UNION {ExpectedButAbsent(frame, d, t) : d \in dates}
<1>1. PICK lo \in Slots, hi \in Slots : Slots \subseteq lo .. hi
  BY SourceAssumption
<1>2. Times(frame) \in SUBSET (lo .. hi) /\ lo \in Int /\ hi \in Int
  BY <1>1, FrameFinite, SourceAssumption
<1>3. dates \in SUBSET Int
  BY <1>2 DEF DateOf, Day
<1>4. \A d \in dates : ExpectedButAbsent(frame, d, t) \in SUBSET (lo .. hi)
  <2> SUFFICES ASSUME NEW d \in dates, NEW u \in ExpectedButAbsent(frame, d, t)
               PROVE  u \in lo .. hi
    OBVIOUS
  <2>1. u \in Int
    BY <1>3, GridType DEF ExpectedButAbsent
  <2>2. PICK a \in OnDate(frame, d), b \in OnDate(frame, d) : a <= u /\ u <= b
    BY DEF ExpectedButAbsent, InObservedWindow
  <2>3. a \in lo .. hi /\ b \in lo .. hi
    BY <1>2, <2>2 DEF OnDate
  <2>4. QED
    BY <1>2, <2>1, <2>2, <2>3
<1>5. absent \in SUBSET (lo .. hi)
  <2> HIDE DEF dates
  <2> QED
    BY <1>4
<1>6. IsFiniteSet(absent)
  BY <1>2, <1>5, FS_Interval, FS_Subset
<1>7. Cardinality(absent) \in Nat
  BY <1>6, FS_CardinalityType
<1>8. QED
  BY <1>7 DEF count_missing_bars_in_session

\* The validator's report has its type and carries no cross-check.
LEMMA ValidateType ==
  ASSUME NEW frame \in Frames, NEW t \in Timeframes, NEW c \in Contracts
  PROVE  /\ validate(frame, t, c) \in Report
         /\ validate(frame, t, c).timeframe = t
         /\ validate(frame, t, c).cross_check.timeframe = "none"
<1>1. Cardinality(frame) \in Nat /\ count_duplicate_timestamps(frame) \in Int
  BY FrameFinite DEF count_duplicate_timestamps
<1>2. count_missing_bars_in_session(frame, t) \in Nat
  BY MissingType
<1>3. \A n : IsClean(n, frame) \in BOOLEAN
  BY DEF IsClean
<1>4. QED
  BY <1>1, <1>2, <1>3 DEF validate, Report, NoCrossCheck

\* What is stored of a frame is a table, and so is a table it is put into.
LEMMA StoredType ==
  ASSUME NEW frame \in Frames, NEW f \in Stored(frame)
  PROVE  f \in Tables(Revisions) /\ DOMAIN f = Times(frame)
BY FrameFinite DEF Stored, Tables

LEMMA NothingStored ==
  ASSUME NEW values
  PROVE  <<>> \in Tables(values)
<1>1. <<>> \in [{} -> values]
  OBVIOUS
<1>2. QED
  BY <1>1 DEF Tables

LEMMA UpsertType ==
  ASSUME NEW values, NEW rows \in Tables(values), NEW table \in Tables(values)
  PROVE  /\ Upsert(rows, table) \in Tables(values)
         /\ DOMAIN Upsert(rows, table) = DOMAIN rows \cup DOMAIN table
         /\ \A t \in DOMAIN rows : Upsert(rows, table)[t] = rows[t]
<1>1. /\ DOMAIN rows \cup DOMAIN table \in SUBSET Slots
      /\ rows \in [DOMAIN rows -> values] /\ table \in [DOMAIN table -> values]
  BY DEF Tables
<1>2. Upsert(rows, table) \in [DOMAIN rows \cup DOMAIN table -> values]
  BY <1>1 DEF Upsert
<1>3. QED
  BY <1>1, <1>2 DEF Tables, Upsert

LEMMA BasisTable ==
  ASSUME NEW basis \in Basis
  PROVE  [t \in TimesOf(basis) |-> basis] \in Tables(Basis)
<1>1. \A c \in Contracts : Times(basis[c]) \in SUBSET Slots
  BY FrameFinite DEF Basis
<1>2. TimesOf(basis) \in SUBSET Slots
  BY <1>1 DEF TimesOf
<1>3. [t \in TimesOf(basis) |-> basis] \in [TimesOf(basis) -> Basis]
  OBVIOUS
<1>4. QED
  BY <1>2, <1>3 DEF Tables

\* A stored file read back is a frame.
LEMMA FileFrameType ==
  ASSUME NEW file \in Tables(Revisions)
  PROVE  FileFrame(file) \in Frames
BY DEF FileFrame, Tables, Frames, Row

\* The cross-check counts common times.
LEMMA CrossCheckType ==
  ASSUME NEW basis \in Basis, NEW s \in SUBSET Slots, NEW t \in Timeframes
  PROVE  validate_continuous_against_reference(TimesOf(basis), s, t)
           \in [timeframe : Timeframes \cup {"none"}, aligned : Nat]
<1>1. IsFiniteSet(TimesOf(basis) \cap s)
  BY SlotsFinite, FS_Subset
<1>2. Cardinality(TimesOf(basis) \cap s) \in Nat
  BY <1>1, FS_CardinalityType
<1>3. QED
  BY <1>2 DEF validate_continuous_against_reference

-----------------------------------------------------------------------------
\* The loops are at a timeframe and a contract of the command.
LEMMA Position ==
  ASSUME TypeOK
  PROVE  /\ tf \in Timeframes /\ code \in Contracts /\ PerContract \in Basis
         /\ \A n \in 1 .. Len(job.timeframes) : job.timeframes[n] \in Timeframes
BY JobsAssumption DEF TypeOK, tf, code, PerContract

Emptied == [t \in Timeframes |-> Empty]
LEMMA EmptiedType == Emptied \in [Timeframes -> Basis] /\ Empty \in Basis
BY DEF Emptied, Empty, Basis, Frames

LEMMA StoreTypes == StoreSpec => []TypeOK
<1>1. Init => TypeOK
  <2> SUFFICES ASSUME Init PROVE TypeOK
    OBVIOUS
  <2>1. fetched \in [Timeframes -> Basis]
    BY EmptiedType DEF Init, Emptied
  <2>2. 1 \in 1 .. Len(job.timeframes) /\ 1 \in 1 .. Len(job.contracts)
    BY JobsAssumption DEF Init
  <2>3. 1 \in 1 .. MaxAttempts /\ 0 \in 0 .. MaxRuns
    BY SourceAssumption
  <2>4. <<>> \in Tables(Revisions) /\ <<>> \in Tables(Basis)
    BY NothingStored
  <2>5. reports \in Seq(Report) /\ written \in 0 .. Len(reports)
    BY DEF Init
  <2>6. df \in Frames \cup SUBSET Slots
    BY DEF Init, Frames
  <2>7. /\ raw \in [Timeframes -> [Contracts -> Tables(Revisions) \cup {None, Torn}]]
        /\ ohlcv_raw \in [Timeframes -> [Contracts -> Tables(Revisions)]]
        /\ continuous \in [Timeframes -> Basis \cup {S501, None, Torn}]
        /\ reference \in [Timeframes -> (SUBSET Slots) \cup {None, Torn}]
    <3>1. raw \in [Timeframes -> [Contracts -> Tables(Revisions) \cup {None, Torn}]]
      BY DEF Init
    <3>2. ohlcv_raw \in [Timeframes -> [Contracts -> Tables(Revisions)]]
      <4> DEFINE none == <<>>
      <4>1. none \in Tables(Revisions)
        BY <2>4
      <4>2. ohlcv_raw = [t \in Timeframes |-> [c \in Contracts |-> none]]
        BY DEF Init
      <4> HIDE DEF none
      <4>3. QED
        BY <4>1, <4>2
    <3>3. continuous \in [Timeframes -> Basis \cup {S501, None, Torn}]
      BY DEF Init
    <3>4. reference \in [Timeframes -> (SUBSET Slots) \cup {None, Torn}]
      BY DEF Init
    <3>5. QED
      BY <3>1, <3>2, <3>3, <3>4
  <2>8. /\ DOMAIN ohlcv_continuous = Timeframes
        /\ \A t \in Timeframes :
             \E times \in SUBSET Slots : ohlcv_continuous[t] \in [times -> Basis]
    BY <2>4 DEF Init, Tables
  <2>9. settings \in [source : Sources, db : BOOLEAN] /\ job \in Jobs /\ pc = "idle"
    BY DEF Init
  <2>10. i = 1 /\ k = 1 /\ attempt = 1 /\ runs = 0 /\ report = None
    BY DEF Init
  <2>11. QED
    BY <2>1, <2>2, <2>3, <2>5, <2>6, <2>7, <2>8, <2>9, <2>10 DEF TypeOK, Ended
<1>2. TypeOK /\ [StoreNext]_vars => TypeOK'
  <2> SUFFICES ASSUME TypeOK, [StoreNext]_vars PROVE TypeOK'
    OBVIOUS
  <2> USE DEF Ended
  <2>0. /\ tf \in Timeframes /\ code \in Contracts /\ PerContract \in Basis
        /\ \A n \in 1 .. Len(job.timeframes) : job.timeframes[n] \in Timeframes
    BY Position
  <2>1. CASE Start
    <3>1. fetched' \in [Timeframes -> Basis]
      BY <2>1, EmptiedType DEF Start, Emptied
    <3>2. 1 \in 1 .. Len(job'.timeframes) /\ 1 \in 1 .. Len(job'.contracts)
      BY <2>1, JobsAssumption DEF Start
    <3>3. attempt' \in 1 .. MaxAttempts /\ runs' \in 0 .. MaxRuns
      BY <2>1, SourceAssumption DEF Start, TypeOK
    <3>4. reports' \in Seq(Report) /\ written' \in 0 .. Len(reports')
      BY <2>1 DEF Start
    <3>5. df' \in Frames \cup SUBSET Slots
      BY <2>1 DEF Start, Frames
    <3>6. QED
      BY <2>1, <3>1, <3>2, <3>3, <3>4, <3>5 DEF Start, TypeOK, files, tables
  <2>2. CASE validate_ohlcv
    <3>1. PICK t \in Timeframes, c \in Contracts :
            raw[t][c] \notin {None, Torn} /\ report' = validate(FileFrame(raw[t][c]), t, c)
      BY <2>2 DEF validate_ohlcv
    <3>2. raw[t][c] \in Tables(Revisions)
      BY <3>1 DEF TypeOK
    <3>3. report' \in Report
      BY <3>1, <3>2, FileFrameType, ValidateType
    <3>4. runs' \in 0 .. MaxRuns
      BY <2>2, SourceAssumption DEF validate_ohlcv, TypeOK
    <3>5. QED
      BY <2>2, <3>3, <3>4 DEF validate_ohlcv, TypeOK, local, tables
  <2>3. CASE Fail
    BY <2>3 DEF Fail, TypeOK, local, files, tables
  <2>4. CASE FetchRetry
    BY <2>4, SourceAssumption DEF FetchRetry, Requests, Requesting, AttemptsLeft, TypeOK, files, tables
  <2>5. ASSUME NEW per \in Basis, NextContract(per), UNCHANGED job
        PROVE  /\ i' \in 1 .. Len(job.timeframes) /\ k' \in 1 .. Len(job.contracts)
               /\ attempt' \in 1 .. MaxAttempts /\ df' = {} /\ pc' \in {"fetch", "build", "next"}
    BY <2>5, SourceAssumption, JobsAssumption DEF NextContract, TypeOK
  <2>6. CASE fetch_contract
    <3>1. PICK bars \in Answers[tf][code] :
            IF bars_to_frame(bars) = {} THEN NextContract(PerContract)
            ELSE df' = bars_to_frame(bars) /\ pc' = "write_raw" /\ UNCHANGED <<i, k, attempt>>
      BY <2>6 DEF fetch_contract
    <3>2. bars_to_frame(bars) \in Frames
      BY <2>0, SourceAssumption DEF bars_to_frame, Frames
    <3>3. CASE bars_to_frame(bars) = {}
      BY <2>0, <2>5, <2>6, <3>1, <3>2, <3>3 DEF fetch_contract, TypeOK, files, tables
    <3>4. CASE bars_to_frame(bars) # {}
      BY <2>6, <3>1, <3>2, <3>4 DEF fetch_contract, TypeOK, files, tables
    <3>5. QED
      BY <3>3, <3>4
  <2>7. CASE write_raw
    <3>1. PICK f \in Stored(df) : raw' = [raw EXCEPT ![tf][code] = f]
      BY <2>7 DEF write_raw
    <3>2. df \in Frames \ {{}}
      BY <2>7 DEF write_raw, TypeOK
    <3>3. f \in Tables(Revisions)
      BY <3>2, StoredType
    <3>4. raw' \in [Timeframes -> [Contracts -> Tables(Revisions) \cup {None, Torn}]]
      BY <2>0, <3>1, <3>3 DEF TypeOK
    <3>5. QED
      BY <2>7, <3>2, <3>4 DEF write_raw, TypeOK, local, tables
  <2>8. CASE upsert_raw_frame
    <3>1. PICK f \in Stored(df) :
            ohlcv_raw' = [ohlcv_raw EXCEPT ![tf][code] = Upsert(f, @)]
      BY <2>8 DEF upsert_raw_frame
    <3>2. df \in Frames \ {{}}
      BY <2>8 DEF upsert_raw_frame, TypeOK
    <3>3. Upsert(f, ohlcv_raw[tf][code]) \in Tables(Revisions)
      <4>1. f \in Tables(Revisions)
        BY <3>2, StoredType
      <4>2. ohlcv_raw[tf][code] \in Tables(Revisions)
        BY <2>0 DEF TypeOK
      <4>3. QED
        BY <4>1, <4>2, UpsertType
    <3>4. ohlcv_raw' \in [Timeframes -> [Contracts -> Tables(Revisions)]]
      BY <2>0, <3>1, <3>3 DEF TypeOK
    <3>5. QED
      BY <2>8, <3>2, <3>4 DEF upsert_raw_frame, TypeOK, local, files
  <2>9. CASE Validate
    <3>1. df \in Frames
      BY <2>9 DEF Validate, TypeOK
    <3>2. fetched' \in [Timeframes -> Basis] /\ fetched'[tf] \in Basis
      BY <2>0, <2>9, <3>1 DEF Validate, TypeOK, Basis
    <3>3. validate(df, tf, code) \in Report
      BY <2>0, <3>1, ValidateType
    <3>4. reports' \in Seq(Report) /\ Len(reports') = Len(reports) + 1
      BY <2>9, <3>3 DEF Validate, TypeOK
    <3>5. NextContract(fetched'[tf]) /\ UNCHANGED job
      BY <2>9 DEF Validate
    <3>6. written' \in 0 .. Len(reports')
      BY <2>9, <3>4 DEF Validate, TypeOK
    <3>7. df' \in Frames
      BY <2>5, <3>2, <3>5 DEF Frames
    <3>8. QED
      BY <2>5, <2>9, <3>2, <3>4, <3>5, <3>6, <3>7 DEF Validate, TypeOK, files, tables
  <2>10. CASE write_continuous
    <3>1. continuous' \in [Timeframes -> Basis \cup {S501, None, Torn}]
      BY <2>0, <2>10 DEF write_continuous, TypeOK
    <3>2. QED
      BY <2>10, <3>1 DEF write_continuous, TypeOK, local, tables
  <2>11. CASE upsert_continuous_frame
    <3>1. Upsert([t \in TimesOf(PerContract) |-> PerContract], ohlcv_continuous[tf])
            \in Tables(Basis)
      <4>1. [t \in TimesOf(PerContract) |-> PerContract] \in Tables(Basis)
        BY <2>0, BasisTable
      <4>2. ohlcv_continuous[tf] \in Tables(Basis)
        BY <2>0 DEF TypeOK, Tables
      <4>3. QED
        BY <4>1, <4>2, UpsertType
    <3>2. /\ DOMAIN ohlcv_continuous' = Timeframes
          /\ \A t \in Timeframes :
               \E times \in SUBSET Slots : ohlcv_continuous'[t] \in [times -> Basis]
      <4>1. ohlcv_continuous' = [ohlcv_continuous EXCEPT
              ![tf] = Upsert([t \in TimesOf(PerContract) |-> PerContract], ohlcv_continuous[tf])]
        BY <2>11 DEF upsert_continuous_frame
      <4>2. \E times \in SUBSET Slots :
              Upsert([t \in TimesOf(PerContract) |-> PerContract], ohlcv_continuous[tf])
                \in [times -> Basis]
        BY <3>1 DEF Tables
      <4>3. QED
        BY <2>0, <4>1, <4>2 DEF TypeOK
    <3>3. QED
      BY <2>11, <3>2 DEF upsert_continuous_frame, TypeOK, local, files
  <2>12. CASE fetch_continuous_reference
    <3>1. PICK times \in IF Requests THEN References[tf] ELSE {{}} :
            IF {t \in times : InWindow(t)} = {} THEN EndOfTimeframe
            ELSE /\ df' = {t \in times : InWindow(t)} /\ pc' = "write_reference"
                 /\ UNCHANGED <<i, k, attempt>>
      BY <2>12 DEF fetch_continuous_reference
    <3>2. {t \in times : InWindow(t)} \in SUBSET Slots
      BY <2>0, <3>1, SourceAssumption
    <3>3. CASE {t \in times : InWindow(t)} = {}
      BY <2>12, <3>1, <3>3, SourceAssumption
         DEF fetch_continuous_reference, EndOfTimeframe, TypeOK, Frames, files, tables
    <3>4. CASE {t \in times : InWindow(t)} # {}
      BY <2>12, <3>1, <3>2, <3>4 DEF fetch_continuous_reference, TypeOK, files, tables
    <3>5. QED
      BY <3>3, <3>4
  <2>13. CASE write_reference
    <3>1. df \in SUBSET Slots
      BY <2>13 DEF write_reference, TypeOK
    <3>2. reference' \in [Timeframes -> (SUBSET Slots) \cup {None, Torn}]
      BY <2>0, <2>13, <3>1 DEF write_reference, TypeOK
    <3>3. reports' \in Seq(Report) /\ Len(reports') = Len(reports)
      <4>1. CASE reports = <<>>
        BY <2>13, <4>1 DEF write_reference, TypeOK
      <4>2. CASE reports # <<>>
        <5> DEFINE check == validate_continuous_against_reference(TimesOf(PerContract), df, tf)
                   n == Len(reports)
        <5>1. n \in DOMAIN reports /\ reports[n] \in Report
          BY <4>2 DEF TypeOK
        <5>2. [reports[n] EXCEPT !.cross_check = check] \in Report
          BY <2>0, <3>1, <5>1, CrossCheckType DEF Report
        <5>3. reports' = [reports EXCEPT ![n] = [reports[n] EXCEPT !.cross_check = check]]
          BY <2>13, <4>2 DEF write_reference
        <5>4. QED
          BY <5>1, <5>2, <5>3 DEF TypeOK
      <4>3. QED
        BY <4>1, <4>2
    <3>4. QED
      BY <2>13, <3>2, <3>3, SourceAssumption
         DEF write_reference, EndOfTimeframe, TypeOK, Frames, tables
  <2>14. CASE NextTimeframe
    <3>1. CASE i < Len(job.timeframes)
      <4>1. job.timeframes[i + 1] \in Timeframes
        <5>1. Len(job.timeframes) \in Nat /\ i \in 1 .. Len(job.timeframes)
          BY JobsAssumption DEF TypeOK
        <5>2. i + 1 \in 1 .. Len(job.timeframes)
          BY <3>1, <5>1
        <5>3. QED
          BY <2>0, <5>2
      <4>2. fetched' \in [Timeframes -> Basis]
        BY <2>14, <3>1, <4>1, EmptiedType DEF NextTimeframe, TypeOK
      <4>3. i' \in 1 .. Len(job.timeframes) /\ k' \in 1 .. Len(job.contracts)
        BY <2>14, <3>1, JobsAssumption DEF NextTimeframe, TypeOK
      <4>4. QED
        BY <2>14, <3>1, <4>2, <4>3 DEF NextTimeframe, TypeOK, files, tables
    <3>2. CASE ~(i < Len(job.timeframes))
      BY <2>14, <3>2 DEF NextTimeframe, TypeOK, files, tables
    <3>3. QED
      BY <3>1, <3>2
  <2>15. CASE write_validation_report
    <3>1. reports[written + 1] \in Report
      BY <2>15 DEF write_validation_report, TypeOK
    <3>2. QED
      BY <2>15, <3>1 DEF write_validation_report, TypeOK, tables
  <2>16. CASE Return
    BY <2>16 DEF Return, TypeOK, local, files, tables
  <2>17. CASE Kill
    <3>1. fetched' \in [Timeframes -> Basis]
      BY <2>17, EmptiedType DEF Kill, Emptied
    <3>2. 1 \in 1 .. Len(job.timeframes) /\ 1 \in 1 .. Len(job.contracts) /\ 1 \in 1 .. MaxAttempts
      BY JobsAssumption, SourceAssumption DEF TypeOK
    <3>3. reports' \in Seq(Report) /\ written' \in 0 .. Len(reports') /\ df' \in Frames
      BY <2>17 DEF Kill, Frames
    <3>4. raw' \in [Timeframes -> [Contracts -> Tables(Revisions) \cup {None, Torn}]]
      <4>1. PICK f \in Tear(raw[tf][code], "write_raw") : raw' = [raw EXCEPT ![tf][code] = f]
        BY <2>17 DEF Kill
      <4>2. f \in {raw[tf][code], Torn}
        BY DEF Tear
      <4>3. f \in Tables(Revisions) \cup {None, Torn}
        BY <2>0, <4>2 DEF TypeOK
      <4>4. QED
        BY <2>0, <4>1, <4>3 DEF TypeOK
    <3>5. /\ continuous' \in [Timeframes -> Basis \cup {S501, None, Torn}]
          /\ reference' \in [Timeframes -> (SUBSET Slots) \cup {None, Torn}]
      <4>1. PICK f \in Tear(continuous[tf], "build") : continuous' = [continuous EXCEPT ![tf] = f]
        BY <2>17 DEF Kill
      <4>2. PICK g \in Tear(reference[tf], "write_reference") :
              reference' = [reference EXCEPT ![tf] = g]
        BY <2>17 DEF Kill
      <4>3. f \in {continuous[tf], Torn} /\ g \in {reference[tf], Torn}
        BY DEF Tear
      <4>4. f \in Basis \cup {S501, None, Torn} /\ g \in (SUBSET Slots) \cup {None, Torn}
        <5>1. /\ continuous[tf] \in Basis \cup {S501, None, Torn}
              /\ reference[tf] \in (SUBSET Slots) \cup {None, Torn}
          BY <2>0 DEF TypeOK
        <5>2. f = continuous[tf] \/ f = Torn
          BY <4>3
        <5>3. g = reference[tf] \/ g = Torn
          BY <4>3
        <5>4. f \in Basis \cup {S501, None, Torn}
          BY <5>1, <5>2
        <5>5. g \in (SUBSET Slots) \cup {None, Torn}
          BY <5>1, <5>3
        <5>6. QED
          BY <5>4, <5>5
      <4>5. QED
        BY <2>0, <4>1, <4>2, <4>4 DEF TypeOK
    <3>6. report' \in Report \cup {None, Torn}
      BY <2>17 DEF Kill, Tear, TypeOK
    <3>7. QED
      BY <2>17, <3>1, <3>2, <3>3, <3>4, <3>5, <3>6 DEF Kill, TypeOK, tables
  <2>18. CASE UNCHANGED vars
    BY <2>18 DEF vars, local, files, tables, TypeOK
  <2>19. CASE ScriptBegins
    <3>1. runs' \in 0 .. MaxRuns
      BY <2>19, SourceAssumption DEF ScriptBegins, TypeOK
    <3>2. QED
      BY <2>19, <3>1 DEF ScriptBegins, TypeOK, local, files, tables
  <2>20. CASE ScriptWrites
    <3>1. continuous' \in [Timeframes -> Basis \cup {S501, None, Torn}]
      BY <2>20 DEF ScriptWrites, TypeOK
    <3>2. QED
      BY <2>20, <3>1 DEF ScriptWrites, TypeOK, local, tables
  <2>21. QED
    BY <2>1, <2>2, <2>3, <2>4, <2>6, <2>7, <2>8, <2>9, <2>10, <2>11, <2>12, <2>13, <2>14,
       <2>15, <2>16, <2>17, <2>18, <2>19, <2>20
       DEF StoreNext, Next, Step, FetchDeclined, FetchFails, UpsertFails, BuildFails
<1>3. QED
  BY <1>1, <1>2, PTL DEF StoreSpec

\* Whatever commands run, the store and what a run has at hand have their types.
THEOREM TypeCorrect == JobsSpec => []TypeOK
BY StoreTypes, JobsKeepTheStore

-----------------------------------------------------------------------------
\* The frame at hand is of the window until it is in the run's own table.
Handling == {"write_raw", "upsert_raw", "validate"}
FrameWithinWindow == pc \in Handling => \A row \in df : InWindow(row.time)

LEMMA AskedOf ==
  ASSUME NEW t, InWindow(t), job \in Jobs
  PROVE  Asked(t)
BY DEF InWindow, Asked

\* No bar from outside the window of a command is taken or stored.
THEOREM TakesTheWindow == JobsSpec => []WithinWindow
<1> DEFINE Inv == WithinWindow /\ FrameWithinWindow
<1>1. Init => Inv
  BY DEF Init, WithinWindow, FrameWithinWindow, Handling, Empty, Missed
<1>2. TypeOK /\ Inv /\ [StoreNext]_vars => Inv'
  <2> SUFFICES ASSUME TypeOK, WithinWindow, FrameWithinWindow, [StoreNext]_vars
               PROVE  WithinWindow' /\ FrameWithinWindow'
    OBVIOUS
  <2> USE DEF Ended, Handling
  <2>0. tf \in Timeframes /\ code \in Contracts /\ PerContract \in Basis /\ job \in Jobs
    BY Position DEF TypeOK
  <2>1. CASE Start
    BY <2>1 DEF Start, WithinWindow, FrameWithinWindow, files, tables, Empty, Missed, Asked
  <2>2. CASE validate_ohlcv
    BY <2>2 DEF validate_ohlcv, WithinWindow, FrameWithinWindow, tables, local, Missed, Asked
  <2>3. CASE Fail
    BY <2>3 DEF Fail, WithinWindow, FrameWithinWindow, local, files, tables, Missed, Asked
  <2>4. CASE FetchRetry
    BY <2>4 DEF FetchRetry, Requests, Requesting, WithinWindow, FrameWithinWindow, files, tables,
                Missed, Asked
  <2>5. CASE fetch_contract
    <3>1. pc' \in Handling => \A row \in df' : InWindow(row.time)
      BY <2>5 DEF fetch_contract, NextContract, bars_to_frame
    <3>2. QED
      BY <2>5, <3>1 DEF fetch_contract, WithinWindow, FrameWithinWindow, InWindow, files, tables,
                        Missed, Asked
  <2>6. CASE write_raw
    <3>1. PICK f \in Stored(df) : raw' = [raw EXCEPT ![tf][code] = f]
      BY <2>6 DEF write_raw
    <3>2. \A u \in DOMAIN f : Asked(u)
      <4>1. DOMAIN f = Times(df)
        BY DEF Stored
      <4>2. QED
        BY <2>0, <2>6, <4>1, AskedOf DEF write_raw, FrameWithinWindow, Times
    <3>3. \A t \in Timeframes : \A c \in Contracts :
            ~Missed(raw'[t][c]) => \A u \in DOMAIN raw'[t][c] : Asked(u)
      BY <2>0, <3>1, <3>2 DEF TypeOK, WithinWindow
    <3>4. FrameWithinWindow'
      BY <2>6 DEF write_raw, FrameWithinWindow, local, InWindow
    <3>5. QED
      BY <2>6, <3>3, <3>4 DEF write_raw, WithinWindow, local, tables, Missed, Asked
  <2>7. CASE upsert_raw_frame
    <3>1. PICK f \in Stored(df) : ohlcv_raw' = [ohlcv_raw EXCEPT ![tf][code] = Upsert(f, @)]
      BY <2>7 DEF upsert_raw_frame
    <3>2. \A u \in DOMAIN f : Asked(u)
      <4>1. DOMAIN f = Times(df)
        BY DEF Stored
      <4>2. QED
        BY <2>0, <2>7, <4>1, AskedOf DEF upsert_raw_frame, FrameWithinWindow, Times
    <3>3. \A u \in DOMAIN Upsert(f, ohlcv_raw[tf][code]) : Asked(u)
      BY <2>0, <3>2 DEF Upsert, WithinWindow
    <3>4. \A t \in Timeframes : \A c \in Contracts : \A u \in DOMAIN ohlcv_raw'[t][c] : Asked(u)
      BY <2>0, <3>1, <3>3 DEF TypeOK, WithinWindow
    <3>5. FrameWithinWindow'
      BY <2>7 DEF upsert_raw_frame, FrameWithinWindow, local, InWindow
    <3>6. QED
      BY <2>7, <3>4, <3>5 DEF upsert_raw_frame, WithinWindow, local, files, Missed, Asked
  <2>8. CASE Validate
    <3>1. \A row \in df : job.start <= row.time /\ row.time < job.end
      BY <2>8 DEF Validate, FrameWithinWindow, InWindow
    <3>2. fetched' = [fetched EXCEPT ![tf][code] = df]
      BY <2>8 DEF Validate
    <3>3. \A t \in Timeframes : \A c \in Contracts :
            \A row \in fetched'[t][c] : job.start <= row.time /\ row.time < job.end
      BY <2>0, <3>1, <3>2 DEF TypeOK, Basis, WithinWindow
    <3>4. pc' \notin Handling
      BY <2>8 DEF Validate, NextContract
    <3>5. QED
      BY <2>8, <3>3, <3>4 DEF Validate, WithinWindow, FrameWithinWindow, files, tables, Missed, Asked
  <2>9. CASE write_continuous
    BY <2>9 DEF write_continuous, WithinWindow, FrameWithinWindow, local, tables, Missed, Asked
  <2>10. CASE upsert_continuous_frame
    <3> DEFINE rows == [t \in TimesOf(PerContract) |-> PerContract]
    <3>1. \A u \in TimesOf(PerContract) : Asked(u)
      <4>1. \A c \in Contracts : \A row \in PerContract[c] : InWindow(row.time)
        BY <2>0 DEF WithinWindow, InWindow, PerContract
      <4>2. QED
        BY <2>0, <4>1, AskedOf DEF TimesOf, Times
    <3>2. \A u \in DOMAIN Upsert(rows, ohlcv_continuous[tf]) : Asked(u)
      BY <2>0, <3>1 DEF Upsert, WithinWindow
    <3>3. \A t \in Timeframes : \A c \in Contracts : \A u \in DOMAIN ohlcv_continuous'[t] : Asked(u)
      BY <2>0, <2>10, <3>2 DEF upsert_continuous_frame, TypeOK, WithinWindow
    <3>4. QED
      BY <2>10, <3>3 DEF upsert_continuous_frame, WithinWindow, FrameWithinWindow, local, files,
                         Missed, Asked
  <2>11. CASE fetch_continuous_reference
    <3>1. pc' \notin Handling
      BY <2>11 DEF fetch_continuous_reference, EndOfTimeframe
    <3>2. QED
      BY <2>11, <3>1 DEF fetch_continuous_reference, WithinWindow, FrameWithinWindow, files, tables,
                         Missed, Asked
  <2>12. CASE write_reference
    BY <2>12 DEF write_reference, EndOfTimeframe, WithinWindow, FrameWithinWindow, tables, Missed,
                 Asked
  <2>13. CASE NextTimeframe
    <3>1. \A t \in Timeframes : \A c \in Contracts :
            fetched'[t][c] = fetched[t][c] \/ fetched'[t][c] = {}
      BY <2>13 DEF NextTimeframe, TypeOK, Empty
    <3>2. QED
      BY <2>13, <3>1 DEF NextTimeframe, WithinWindow, FrameWithinWindow, files, tables, Missed, Asked
  <2>14. CASE write_validation_report \/ Return
    BY <2>14 DEF write_validation_report, Return, WithinWindow, FrameWithinWindow, local, files,
                 tables, Missed, Asked
  <2>15. CASE Kill
    <3>1. PICK f \in Tear(raw[tf][code], "write_raw") : raw' = [raw EXCEPT ![tf][code] = f]
      BY <2>15 DEF Kill
    <3>2. f \in {raw[tf][code], Torn}
      BY DEF Tear
    <3>3. \A t \in Timeframes : \A c \in Contracts : raw'[t][c] \in {raw[t][c], Torn}
      BY <2>0, <3>1, <3>2 DEF TypeOK
    <3>4. QED
      BY <2>15, <3>3 DEF Kill, WithinWindow, FrameWithinWindow, tables, Empty, Missed, Asked
  <2>16. CASE UNCHANGED vars
    BY <2>16 DEF vars, local, files, tables, WithinWindow, FrameWithinWindow, InWindow, Missed, Asked
  <2>17. CASE ScriptBegins \/ ScriptWrites
    BY <2>17 DEF ScriptBegins, ScriptWrites, local, files, tables, WithinWindow, FrameWithinWindow,
                 Missed, Asked
  <2>18. QED
    BY <2>1, <2>2, <2>3, <2>4, <2>5, <2>6, <2>7, <2>8, <2>9, <2>10, <2>11, <2>12, <2>13, <2>14,
       <2>15, <2>16, <2>17
       DEF StoreNext, Next, Step, FetchDeclined, FetchFails, UpsertFails, BuildFails
<1>3. QED
  BY <1>1, <1>2, StoreTypes, JobsKeepTheStore, PTL DEF StoreSpec

-----------------------------------------------------------------------------
\* Once bars of a timeframe are in the run's own table the last report is its.
CrossChecking == {"build", "upsert_continuous", "reference", "write_reference"}
LastReport ==
  /\ pc \notin Ended /\ AnyFetched(PerContract) =>
       reports # <<>> /\ reports[Len(reports)].timeframe = tf
  /\ pc \in CrossChecking => AnyFetched(PerContract)

\* A cross-check is put into a report of its own timeframe.
THEOREM ChecksItsOwn == JobsSpec => []CrossCheckInPlace
<1> DEFINE Inv == CrossCheckInPlace /\ LastReport
<1> USE DEF Ended, CrossChecking
<1>1. Init => Inv
  BY DEF Init, CrossCheckInPlace, LastReport
<1>2. TypeOK /\ Inv /\ [StoreNext]_vars => Inv'
  <2> SUFFICES ASSUME TypeOK, CrossCheckInPlace, LastReport, [StoreNext]_vars
               PROVE  CrossCheckInPlace' /\ LastReport'
    OBVIOUS
  <2>0. tf \in Timeframes /\ code \in Contracts /\ PerContract \in Basis /\ reports \in Seq(Report)
    BY Position DEF TypeOK
  <2>1. CASE Start \/ Kill
    <3>1. reports' = <<>> /\ fetched' = [t \in Timeframes |-> Empty]
          /\ pc' \notin CrossChecking
      BY <2>1 DEF Start, Kill
    <3>2. job' \in Jobs /\ i' = 1
      BY <2>1 DEF Start, Kill, TypeOK
    <3>3. tf' \in Timeframes
      BY <3>2, JobsAssumption DEF tf
    <3>4. ~AnyFetched(PerContract)'
      BY <3>1, <3>3 DEF AnyFetched, PerContract, Empty
    <3>5. QED
      BY <3>1, <3>4 DEF CrossCheckInPlace, LastReport
  <2>2. CASE validate_ohlcv \/ Fail \/ Return \/ ScriptBegins \/ ScriptWrites
    BY <2>2 DEF validate_ohlcv, Fail, Return, ScriptBegins, ScriptWrites, CrossCheckInPlace, LastReport, local, tf, PerContract
  <2>3. ASSUME UNCHANGED <<reports, fetched, tf>>, pc \notin Ended,
               pc' \in CrossChecking => AnyFetched(PerContract)
        PROVE  CrossCheckInPlace' /\ LastReport'
    BY <2>3 DEF CrossCheckInPlace, LastReport, PerContract, AnyFetched
  <2>4. CASE FetchRetry
    BY <2>3, <2>4 DEF FetchRetry, Requests, Requesting, LastReport, tf
  <2>5. CASE fetch_contract
    <3>1. pc' \in CrossChecking => AnyFetched(PerContract)
      BY <2>5 DEF fetch_contract, NextContract
    <3>2. UNCHANGED <<reports, fetched, tf>> /\ pc \notin Ended
      BY <2>5 DEF fetch_contract, NextContract, tf
    <3>3. QED
      BY <2>3, <3>1, <3>2
  <2>6. CASE write_raw \/ upsert_raw_frame
    BY <2>3, <2>6 DEF write_raw, upsert_raw_frame, local, tf
  <2>7. CASE Validate
    <3> DEFINE last == validate(df, tf, code)
    <3>1. df \in Frames \ {{}}
      BY <2>7 DEF Validate, TypeOK
    <3>2. last \in Report /\ last.timeframe = tf /\ last.cross_check.timeframe = "none"
      BY <2>0, <3>1, ValidateType
    <3>3. reports' = Append(reports, last) /\ tf' = tf
      BY <2>7 DEF Validate, NextContract, tf
    <3> HIDE DEF last
    <3>4. /\ Len(reports') = Len(reports) + 1
          /\ reports'[Len(reports')] = last
          /\ \A n \in 1 .. Len(reports) : reports'[n] = reports[n]
      BY <2>0, <3>2, <3>3
    <3>5. CrossCheckInPlace'
      BY <2>0, <3>2, <3>4 DEF CrossCheckInPlace
    <3>6. pc' \in CrossChecking => AnyFetched(PerContract')
      BY <2>7, <3>3 DEF Validate, NextContract, PerContract
    <3>7. reports' # <<>>
      BY <2>0, <3>4
    <3>8. QED
      BY <3>2, <3>3, <3>4, <3>5, <3>6, <3>7 DEF LastReport, AnyFetched
  <2>8. CASE write_continuous \/ upsert_continuous_frame
    BY <2>3, <2>8 DEF write_continuous, upsert_continuous_frame, local, tf, LastReport
  <2>9. CASE fetch_continuous_reference
    <3>1. UNCHANGED <<reports, fetched, tf>> /\ pc = "reference"
      BY <2>9 DEF fetch_continuous_reference, EndOfTimeframe, tf
    <3>2. QED
      BY <2>3, <3>1 DEF LastReport
  <2>10. CASE write_reference
    <3> DEFINE check == validate_continuous_against_reference(TimesOf(PerContract), df, tf)
               n == Len(reports)
    <3>1. reports # <<>> /\ reports[n].timeframe = tf /\ AnyFetched(PerContract)
      BY <2>10 DEF write_reference, LastReport
    <3>2. n \in DOMAIN reports /\ reports[n] \in Report
      BY <2>0, <3>1
    <3>3. reports' = [reports EXCEPT ![n] = [reports[n] EXCEPT !.cross_check = check]]
      BY <2>10, <3>1 DEF write_reference
    <3>4. check.timeframe = tf
      BY DEF validate_continuous_against_reference
    <3> HIDE DEF check
    <3>5. /\ Len(reports') = n /\ reports'[n].timeframe = tf
          /\ reports'[n].cross_check = check
          /\ \A m \in 1 .. n : m # n => reports'[m] = reports[m]
      BY <2>0, <3>1, <3>2, <3>3 DEF Report
    <3>6. CrossCheckInPlace'
      BY <3>4, <3>5 DEF CrossCheckInPlace
    <3>7. UNCHANGED <<fetched, tf>> /\ pc' = "next"
      BY <2>10 DEF write_reference, EndOfTimeframe, tf
    <3>8. QED
      BY <3>1, <3>2, <3>3, <3>5, <3>6, <3>7 DEF LastReport
  <2>11. CASE NextTimeframe
    <3>1. CASE i < Len(job.timeframes)
      <4>1. tf' = job.timeframes[i + 1]
        BY <2>11, <3>1 DEF NextTimeframe, tf
      <4>2. Len(job.timeframes) \in Nat /\ i + 1 \in 1 .. Len(job.timeframes)
        BY <3>1, JobsAssumption DEF TypeOK
      <4>3. tf' \in Timeframes
        BY <4>1, <4>2, Position
      <4>4. fetched'[tf'] = Empty
        BY <2>11, <3>1, <4>1, <4>3 DEF NextTimeframe, TypeOK
      <4>5. ~AnyFetched(PerContract)'
        BY <4>4 DEF AnyFetched, PerContract, Empty
      <4>6. QED
        BY <2>11, <3>1, <4>5 DEF NextTimeframe, CrossCheckInPlace, LastReport
    <3>2. CASE ~(i < Len(job.timeframes))
      BY <2>3, <2>11, <3>2 DEF NextTimeframe, tf
    <3>3. QED
      BY <3>1, <3>2
  <2>12. CASE write_validation_report
    BY <2>3, <2>12 DEF write_validation_report, tf
  <2>13. CASE UNCHANGED vars
    BY <2>13 DEF vars, local, CrossCheckInPlace, LastReport, PerContract, tf
  <2>14. QED
    BY <2>1, <2>2, <2>4, <2>5, <2>6, <2>7, <2>8, <2>9, <2>10, <2>11, <2>12, <2>13
       DEF StoreNext, Next, Step, FetchDeclined, FetchFails, UpsertFails, BuildFails
<1>3. QED
  BY <1>1, <1>2, StoreTypes, JobsKeepTheStore, PTL DEF StoreSpec

-----------------------------------------------------------------------------
(* The induction behind Mirrored.  While a run is under way, and when it is
   done, whatever is in its own table is in the files and tables, but for the
   contract whose bars are just being stored, and the series of the timeframe
   it is at until both writes of the series are over. *)
Gone == {"idle", "failed", "killed"}
HalfStored == {"upsert_raw", "validate"}
SeriesOver == {"reference", "write_reference", "next", "persist", "done"}
RawInStep ==
  pc \notin Gone =>
    \A t \in Timeframes : \A c \in Contracts :
      fetched[t][c] # {} /\ ~(pc \in HalfStored /\ t = tf /\ c = code) => RawMirrored(t, c)
HalfInStep ==
  pc \in HalfStored =>
    /\ raw[tf][code] \in Stored(df)
    /\ pc = "validate" /\ settings.db =>
         \A u \in Times(df) : u \in DOMAIN ohlcv_raw[tf][code] /\ SameRow(df, ohlcv_raw[tf][code], u)
SeriesInStep ==
  pc \notin Gone =>
    \A t \in Timeframes :
      AnyFetched(fetched[t]) /\ (t # tf \/ pc \in SeriesOver) => ContinuousMirrored(t)
SeriesWritten == pc = "upsert_continuous" => continuous[tf] = PerContract
InStep == RawInStep /\ HalfInStep /\ SeriesInStep /\ SeriesWritten

\* What RawInStep and SeriesInStep are about: unchanged, they stay.
LEMMA Unstored ==
  ASSUME UNCHANGED <<settings, fetched, raw, ohlcv_raw, tf, code>>,
         RawInStep, pc \notin Gone, pc \in HalfStored => pc' \in HalfStored
  PROVE  RawInStep'
BY DEF RawInStep, RawMirrored, SameRow

LEMMA SeriesUntouched ==
  ASSUME UNCHANGED <<settings, fetched, continuous, ohlcv_continuous, tf>>,
         SeriesInStep, pc \notin Gone,
         pc' \in SeriesOver => pc \in SeriesOver \/ ~AnyFetched(PerContract)
  PROVE  SeriesInStep'
BY DEF SeriesInStep, ContinuousMirrored, PerContract

LEMMA RunInStep == StoreSpec => []InStep
<1> USE DEF Gone, HalfStored, SeriesOver
<1>1. Init => InStep
  BY DEF Init, InStep, RawInStep, HalfInStep, SeriesInStep, SeriesWritten
<1>2. TypeOK /\ InStep /\ [StoreNext]_vars => InStep'
  <2> SUFFICES ASSUME TypeOK, RawInStep, HalfInStep, SeriesInStep, SeriesWritten, [StoreNext]_vars
               PROVE  RawInStep' /\ HalfInStep' /\ SeriesInStep' /\ SeriesWritten'
    BY DEF InStep
  <2>0. tf \in Timeframes /\ code \in Contracts /\ PerContract \in Basis
    BY Position DEF TypeOK
  <2>1. CASE Start
    <3>1. fetched' = [t \in Timeframes |-> Empty] /\ pc' \notin HalfStored
          /\ pc' # "upsert_continuous"
      BY <2>1 DEF Start
    <3>2. QED
      BY <3>1 DEF RawInStep, HalfInStep, SeriesInStep, SeriesWritten, AnyFetched, Empty
  <2>2. CASE validate_ohlcv \/ Fail \/ Kill \/ ScriptBegins \/ ScriptWrites
    <3>1. pc' \in Gone
      BY <2>2 DEF validate_ohlcv, Fail, Kill, ScriptBegins, ScriptWrites
    <3>2. QED
      BY <3>1 DEF RawInStep, HalfInStep, SeriesInStep, SeriesWritten
  <2>3. CASE FetchRetry
    BY <2>3, Unstored, SeriesUntouched
       DEF FetchRetry, Requests, Requesting, files, tables, tf, code, HalfInStep, SeriesWritten
  <2>4. CASE fetch_contract
    <3>1. \/ pc' = "next" /\ ~AnyFetched(PerContract)
          \/ pc' \in {"fetch", "build", "write_raw"}
      BY <2>4 DEF fetch_contract, NextContract
    <3>2. pc = "fetch" /\ UNCHANGED <<settings, job, i, fetched, files, tables>>
      BY <2>4 DEF fetch_contract, NextContract
    <3>3. UNCHANGED tf
      BY <3>2 DEF tf
    <3>4. RawInStep'
      BY <3>1, <3>2 DEF RawInStep, RawMirrored, SameRow, files, tables
    <3>5. SeriesInStep'
      BY <3>1, <3>2, <3>3, SeriesUntouched DEF files, tables
    <3>6. QED
      BY <3>1, <3>4, <3>5 DEF HalfInStep, SeriesWritten
  <2>5. CASE write_raw
    <3>1. PICK f \in Stored(df) : raw' = [raw EXCEPT ![tf][code] = f]
      BY <2>5 DEF write_raw
    <3>2. /\ pc = "write_raw" /\ pc' \in HalfStored
          /\ pc' = "validate" => ~settings.db
          /\ UNCHANGED <<settings, fetched, continuous, ohlcv_raw, ohlcv_continuous, df, tf, code>>
      BY <2>5 DEF write_raw, local, tables, tf, code
    <3>3. /\ raw'[tf][code] = f
          /\ \A t \in Timeframes : \A c \in Contracts :
               ~(t = tf /\ c = code) => raw'[t][c] = raw[t][c]
      BY <2>0, <3>1 DEF TypeOK
    <3>4. RawInStep'
      BY <3>2, <3>3 DEF RawInStep, RawMirrored, SameRow
    <3>5. HalfInStep'
      BY <3>1, <3>2, <3>3 DEF HalfInStep, Stored, Times
    <3>6. SeriesInStep'
      BY <3>2, SeriesUntouched
    <3>7. QED
      BY <3>2, <3>4, <3>5, <3>6 DEF SeriesWritten
  <2>6. CASE upsert_raw_frame
    <3>1. PICK f \in Stored(df) : ohlcv_raw' = [ohlcv_raw EXCEPT ![tf][code] = Upsert(f, @)]
      BY <2>6 DEF upsert_raw_frame
    <3>2. /\ pc = "upsert_raw" /\ pc' = "validate"
          /\ UNCHANGED <<settings, fetched, raw, continuous, ohlcv_continuous, df, tf, code>>
      BY <2>6 DEF upsert_raw_frame, local, files, tf, code
    <3>3. /\ ohlcv_raw'[tf][code] = Upsert(f, ohlcv_raw[tf][code])
          /\ \A t \in Timeframes : \A c \in Contracts :
               ~(t = tf /\ c = code) => ohlcv_raw'[t][c] = ohlcv_raw[t][c]
      BY <2>0, <3>1 DEF TypeOK
    <3>4. RawInStep'
      BY <3>2, <3>3 DEF RawInStep, RawMirrored, SameRow
    <3>5. \A u \in Times(df) :
            u \in DOMAIN ohlcv_raw'[tf][code] /\ SameRow(df, ohlcv_raw'[tf][code], u)
      BY <3>1, <3>3 DEF Stored, Upsert, SameRow
    <3>6. HalfInStep'
      BY <3>2, <3>5 DEF HalfInStep, Stored, Times, SameRow
    <3>7. SeriesInStep'
      BY <3>2, SeriesUntouched
    <3>8. QED
      BY <3>2, <3>4, <3>6, <3>7 DEF SeriesWritten
  <2>7. CASE Validate
    <3>1. /\ pc = "validate" /\ fetched' = [fetched EXCEPT ![tf][code] = df]
          /\ UNCHANGED <<settings, job, i, files, tables>>
          /\ \/ pc' = "next" /\ ~AnyFetched(fetched'[tf])
             \/ pc' \in {"fetch", "build"}
      BY <2>7 DEF Validate, NextContract
    <3>2. df \in Frames \ {{}} /\ UNCHANGED tf
      BY <3>1 DEF TypeOK, tf
    <3>3. /\ fetched'[tf][code] = df
          /\ \A t \in Timeframes : \A c \in Contracts :
               ~(t = tf /\ c = code) => fetched'[t][c] = fetched[t][c]
      BY <2>0, <3>1, <3>2 DEF TypeOK, Basis
    <3>4. ASSUME NEW t \in Timeframes, NEW c \in Contracts, fetched'[t][c] # {}
          PROVE  RawMirrored(t, c)'
      <4>1. CASE t = tf /\ c = code
        BY <3>1, <3>3, <4>1 DEF HalfInStep, RawMirrored, SameRow, files, tables
      <4>2. CASE ~(t = tf /\ c = code)
        BY <3>1, <3>3, <3>4, <4>2 DEF RawInStep, RawMirrored, SameRow, files, tables
      <4>3. QED
        BY <4>1, <4>2
    <3>5. RawInStep'
      BY <3>1, <3>4 DEF RawInStep
    <3>6. \A t \in Timeframes \ {tf} : fetched'[t] = fetched[t]
      BY <3>1 DEF TypeOK
    <3>7. SeriesInStep'
      BY <3>1, <3>2, <3>6 DEF SeriesInStep, ContinuousMirrored, files, tables
    <3>8. QED
      BY <3>1, <3>5, <3>7 DEF HalfInStep, SeriesWritten
  <2>8. CASE write_continuous
    <3>1. /\ pc = "build" /\ continuous' = [continuous EXCEPT ![tf] = PerContract]
          /\ pc' = IF settings.db THEN "upsert_continuous" ELSE "reference"
          /\ UNCHANGED <<settings, fetched, raw, ohlcv_raw, ohlcv_continuous, tf, code>>
      BY <2>8 DEF write_continuous, local, tables, tf, code
    <3>2. /\ continuous'[tf] = PerContract
          /\ \A t \in Timeframes \ {tf} : continuous'[t] = continuous[t]
      BY <2>0, <3>1 DEF TypeOK
    <3>3. RawInStep'
      BY <3>1, Unstored
    <3>4. SeriesInStep'
      BY <3>1, <3>2 DEF SeriesInStep, ContinuousMirrored, PerContract
    <3>5. QED
      BY <3>1, <3>2, <3>3, <3>4 DEF HalfInStep, SeriesWritten, PerContract
  <2>9. CASE upsert_continuous_frame
    <3> DEFINE rows == [t \in TimesOf(PerContract) |-> PerContract]
    <3>1. /\ pc = "upsert_continuous" /\ pc' = "reference"
          /\ ohlcv_continuous' = [ohlcv_continuous EXCEPT ![tf] = Upsert(rows, ohlcv_continuous[tf])]
          /\ UNCHANGED <<settings, fetched, raw, continuous, ohlcv_raw, tf, code>>
      BY <2>9 DEF upsert_continuous_frame, local, files, tf, code
    <3>2. /\ ohlcv_continuous'[tf] = Upsert(rows, ohlcv_continuous[tf])
          /\ \A t \in Timeframes \ {tf} : ohlcv_continuous'[t] = ohlcv_continuous[t]
      BY <2>0, <3>1 DEF TypeOK
    <3>3. \A u \in TimesOf(PerContract) :
            u \in DOMAIN ohlcv_continuous'[tf] /\ ohlcv_continuous'[tf][u] = PerContract
      BY <3>2 DEF Upsert
    <3>4. ContinuousMirrored(tf)'
      BY <3>1, <3>3 DEF ContinuousMirrored, SeriesWritten, PerContract
    <3>5. RawInStep'
      BY <3>1, Unstored
    <3>6. SeriesInStep'
      BY <3>1, <3>2, <3>4 DEF SeriesInStep, ContinuousMirrored
    <3>7. QED
      BY <3>1, <3>5, <3>6 DEF HalfInStep, SeriesWritten
  <2>10. CASE fetch_continuous_reference \/ write_reference
    <3>1. /\ pc \in {"reference", "write_reference"} /\ pc' \in {"write_reference", "next"}
          /\ UNCHANGED <<settings, fetched, raw, continuous, ohlcv_raw, ohlcv_continuous, tf, code>>
      BY <2>10 DEF fetch_continuous_reference, write_reference, EndOfTimeframe, files, tables, tf, code
    <3>2. QED
      BY <3>1, Unstored, SeriesUntouched DEF HalfInStep, SeriesWritten
  <2>11. CASE NextTimeframe
    <3>1. CASE i < Len(job.timeframes)
      <4>1. /\ pc = "next" /\ pc' = "fetch" /\ tf' = job.timeframes[i + 1]
            /\ fetched' = [fetched EXCEPT ![tf'] = Empty]
            /\ UNCHANGED <<settings, raw, continuous, ohlcv_raw, ohlcv_continuous>>
        BY <2>11, <3>1 DEF NextTimeframe, files, tables, tf
      <4>2. \A t \in Timeframes : fetched'[t] = fetched[t] \/ (t = tf' /\ fetched'[t] = Empty)
        BY <4>1 DEF TypeOK
      <4>3. RawInStep'
        BY <4>1, <4>2 DEF RawInStep, RawMirrored, SameRow, Empty
      <4>4. SeriesInStep'
        BY <4>1, <4>2 DEF SeriesInStep, ContinuousMirrored, AnyFetched, Empty
      <4>5. QED
        BY <4>1, <4>3, <4>4 DEF HalfInStep, SeriesWritten
    <3>2. CASE ~(i < Len(job.timeframes))
      <4>1. /\ pc = "next" /\ pc' = "persist"
            /\ UNCHANGED <<settings, fetched, raw, continuous, ohlcv_raw, ohlcv_continuous, tf, code>>
        BY <2>11, <3>2 DEF NextTimeframe, files, tables, tf, code
      <4>2. QED
        BY <4>1, Unstored, SeriesUntouched DEF HalfInStep, SeriesWritten
    <3>3. QED
      BY <3>1, <3>2
  <2>12. CASE write_validation_report \/ Return
    <3>1. /\ pc = "persist" /\ pc' \in {"persist", "done"}
          /\ UNCHANGED <<settings, fetched, raw, continuous, ohlcv_raw, ohlcv_continuous, tf, code>>
      BY <2>12 DEF write_validation_report, Return, local, files, tables, tf, code
    <3>2. QED
      BY <3>1, Unstored, SeriesUntouched DEF HalfInStep, SeriesWritten
  <2>13. CASE UNCHANGED vars
    BY <2>13 DEF vars, local, files, tables, tf, code, PerContract, RawInStep, RawMirrored, SameRow,
                 HalfInStep, SeriesInStep, ContinuousMirrored, SeriesWritten
  <2>14. QED
    BY <2>1, <2>2, <2>3, <2>4, <2>5, <2>6, <2>7, <2>8, <2>9, <2>10, <2>11, <2>12, <2>13
       DEF StoreNext, Next, Step, FetchDeclined, FetchFails, UpsertFails, BuildFails
<1>3. QED
  BY <1>1, <1>2, StoreTypes, PTL DEF StoreSpec

\* A run that is done has stored what it was answered, in files and in tables.
THEOREM StoresWhatItFetched == JobsSpec => []Mirrored
<1>1. InStep => Mirrored
  BY DEF InStep, RawInStep, SeriesInStep, Mirrored, Gone, HalfStored, SeriesOver
<1>2. QED
  BY <1>1, RunInStep, JobsKeepTheStore, PTL

-----------------------------------------------------------------------------
\* What is missing depends on a frame's times only, and a file keeps them all.
LEMMA CountByTimes ==
  ASSUME NEW a, NEW b, NEW t, Times(a) = Times(b)
  PROVE  count_missing_bars_in_session(a, t) = count_missing_bars_in_session(b, t)
<1>1. \A d : OnDate(a, d) = OnDate(b, d)
  BY DEF OnDate
<1>2. \A d : ExpectedButAbsent(a, d, t) = ExpectedButAbsent(b, d, t)
  BY <1>1 DEF ExpectedButAbsent
<1>3. QED
  BY <1>2 DEF count_missing_bars_in_session

LEMMA FileKeepsTimes ==
  ASSUME NEW f PROVE Times(FileFrame(f)) = DOMAIN f
<1> DEFINE row(u) == [time |-> u, revision |-> f[u]]
<1>1. \A u \in DOMAIN f : row(u).time = u /\ row(u) \in FileFrame(f)
  BY DEF FileFrame
<1>2. \A r \in FileFrame(f) : \E u \in DOMAIN f : r = row(u)
  BY DEF FileFrame
<1> HIDE DEF row
<1>3. QED
  BY <1>1, <1>2 DEF Times

(* The induction behind ReportTrue: as long as a run is under way, the last
   report of a frame tells its file, but for the file that was just written
   and is not validated yet. *)
Tells(r) ==
  LET file == raw[r.timeframe][r.contract]
  IN /\ ~Missed(file)
     /\ r.bar_count - r.duplicates = Cardinality(DOMAIN file)
     /\ r.missing = count_missing_bars_in_session(FileFrame(file), r.timeframe)
AtHand(r) == pc \in HalfStored /\ r.timeframe = tf /\ r.contract = code
ReportsInStep ==
  pc \notin Gone => \A n \in 1 .. Len(reports) :
                      LastOfItsFrame(n) /\ ~AtHand(reports[n]) => Tells(reports[n])

LEMMA ReportsUntouched ==
  ASSUME UNCHANGED <<raw, reports, tf, code>>, ReportsInStep, pc \notin Gone,
         pc \in HalfStored => pc' \in HalfStored
  PROVE  ReportsInStep'
BY DEF ReportsInStep, LastOfItsFrame, AtHand, Tells

\* The report that is made of a frame tells every file made of that frame.
LEMMA ValidatedTells ==
  ASSUME NEW frame \in Frames, NEW f \in Stored(frame), NEW t, NEW c, raw[t][c] = f
  PROVE  Tells(validate(frame, t, c))
<1> DEFINE r == validate(frame, t, c)
<1>1. r.timeframe = t /\ r.contract = c
  BY DEF validate
<1>2. DOMAIN f = Times(frame) /\ f \in Tables(Revisions)
  BY FrameFinite DEF Stored, Tables
<1>3. ~Missed(f)
  BY <1>2, MarkersAssumption DEF Missed
<1>4. r.bar_count - r.duplicates = Cardinality(DOMAIN f)
  BY <1>2, FrameFinite DEF validate, count_duplicate_timestamps
<1>5. r.missing = count_missing_bars_in_session(FileFrame(f), t)
  <2>1. r.missing = count_missing_bars_in_session(frame, t)
    BY DEF validate
  <2>2. QED
    BY <1>2, <2>1, CountByTimes, FileKeepsTimes
<1>6. QED
  BY <1>1, <1>3, <1>4, <1>5 DEF Tells

\* The reports of a run say what its files hold.
THEOREM ReportsTellFiles == JobsSpec => []ReportTrue
<1> USE DEF Gone, HalfStored
<1>1. Init => ReportsInStep
  BY DEF Init, ReportsInStep
<1>2. TypeOK /\ InStep /\ ReportsInStep /\ [StoreNext]_vars => ReportsInStep'
  <2> SUFFICES ASSUME TypeOK, InStep, ReportsInStep, [StoreNext]_vars
               PROVE  ReportsInStep'
    OBVIOUS
  <2>0. tf \in Timeframes /\ code \in Contracts /\ reports \in Seq(Report)
    BY Position DEF TypeOK
  <2>1. CASE Start
    BY <2>1 DEF Start, ReportsInStep
  <2>2. CASE validate_ohlcv \/ Fail \/ Kill \/ ScriptBegins \/ ScriptWrites
    <3>1. pc' \in Gone
      BY <2>2 DEF validate_ohlcv, Fail, Kill, ScriptBegins, ScriptWrites
    <3>2. QED
      BY <3>1 DEF ReportsInStep
  <2>3. CASE FetchRetry \/ upsert_raw_frame \/ write_continuous \/ upsert_continuous_frame
             \/ write_validation_report \/ Return
    <3>1. /\ UNCHANGED <<raw, reports, tf, code>> /\ pc \notin Gone
          /\ pc \in HalfStored => pc' \in HalfStored
      BY <2>3 DEF FetchRetry, Requests, Requesting, upsert_raw_frame, write_continuous,
                  upsert_continuous_frame, write_validation_report, Return, files, local, tf, code
    <3>2. QED
      BY <3>1, ReportsUntouched
  <2>4. CASE fetch_contract \/ fetch_continuous_reference \/ NextTimeframe
    <3>1. /\ UNCHANGED <<raw, reports>> /\ pc \notin Gone
          /\ pc \notin HalfStored /\ pc' \notin HalfStored
      BY <2>4 DEF fetch_contract, NextContract, fetch_continuous_reference, EndOfTimeframe,
                  NextTimeframe, files
    <3>2. QED
      BY <3>1 DEF ReportsInStep, LastOfItsFrame, AtHand, Tells
  <2>5. CASE write_raw
    <3>1. PICK f \in Stored(df) : raw' = [raw EXCEPT ![tf][code] = f]
      BY <2>5 DEF write_raw
    <3>2. /\ pc = "write_raw" /\ pc' \in HalfStored
          /\ UNCHANGED <<reports, tf, code>>
      BY <2>5 DEF write_raw, local, tf, code
    <3>3. \A t \in Timeframes : \A c \in Contracts :
            ~(t = tf /\ c = code) => raw'[t][c] = raw[t][c]
      BY <2>0, <3>1 DEF TypeOK
    <3>4. \A n \in 1 .. Len(reports) :
            reports[n].timeframe \in Timeframes /\ reports[n].contract \in Contracts
      <4>1. \A n \in 1 .. Len(reports) : reports[n] \in Report
        BY <2>0
      <4>2. QED
        BY <4>1 DEF Report
    <3>5. \A n \in 1 .. Len(reports) : LastOfItsFrame(n)' <=> LastOfItsFrame(n)
      BY <3>2 DEF LastOfItsFrame
    <3>6. ASSUME NEW n \in 1 .. Len(reports), LastOfItsFrame(n), ~AtHand(reports[n])'
          PROVE  Tells(reports[n])'
      <4>1. ~(reports[n].timeframe = tf /\ reports[n].contract = code)
        BY <3>2, <3>6 DEF AtHand
      <4>2. Tells(reports[n])
        BY <3>2, <3>6, <4>1 DEF ReportsInStep, AtHand
      <4>3. UNCHANGED raw[reports[n].timeframe][reports[n].contract]
        BY <3>2, <3>3, <3>4, <4>1
      <4>4. QED
        BY <3>2, <4>2, <4>3 DEF Tells
    <3>7. QED
      BY <3>2, <3>5, <3>6 DEF ReportsInStep
  <2>6. CASE Validate
    <3> DEFINE new == validate(df, tf, code)
               last == Len(reports) + 1
    <3>1. /\ pc = "validate" /\ pc' \notin HalfStored /\ UNCHANGED raw
          /\ reports' = Append(reports, new)
      BY <2>6 DEF Validate, NextContract, files
    <3>2. df \in Frames /\ raw[tf][code] \in Stored(df)
      BY <3>1 DEF TypeOK, InStep, HalfInStep
    <3>3. Tells(new) /\ new.timeframe = tf /\ new.contract = code
      BY <3>2, ValidatedTells DEF validate
    <3> HIDE DEF new
    <3>4. /\ Len(reports) \in Nat /\ Len(reports') = last /\ reports'[last] = new
          /\ \A n \in 1 .. Len(reports) : reports'[n] = reports[n]
      BY <2>0, <3>1
    <3>5. ASSUME NEW n \in 1 .. Len(reports'), LastOfItsFrame(n)'
          PROVE  Tells(reports[n])'
      <4>1. CASE n = last
        BY <3>1, <3>3, <3>4, <4>1 DEF Tells
      <4>2. CASE n # last
        <5>1. n \in 1 .. Len(reports) /\ reports'[n] = reports[n]
          BY <3>4, <4>2
        <5>2. last \in (n + 1) .. Len(reports')
          BY <3>4, <5>1
        <5>3. ~AtHand(reports[n])
          BY <3>3, <3>4, <3>5, <5>1, <5>2 DEF LastOfItsFrame, AtHand
        <5>4. LastOfItsFrame(n)
          <6>1. \A m \in (n + 1) .. Len(reports) :
                  m \in (n + 1) .. Len(reports') /\ reports'[m] = reports[m]
            BY <3>4, <5>1
          <6>2. QED
            BY <3>5, <5>1, <6>1 DEF LastOfItsFrame
        <5>5. Tells(reports[n])
          BY <3>1, <5>1, <5>3, <5>4 DEF ReportsInStep
        <5>6. QED
          BY <3>1, <5>1, <5>5 DEF Tells
      <4>3. QED
        BY <4>1, <4>2
    <3>6. QED
      BY <3>5 DEF ReportsInStep
  <2>7. CASE write_reference
    <3>1. /\ pc = "write_reference" /\ pc' \notin HalfStored /\ UNCHANGED raw
          /\ \E check : reports' = IF reports = <<>> THEN reports
                                   ELSE [reports EXCEPT ![Len(reports)].cross_check = check]
      BY <2>7 DEF write_reference, EndOfTimeframe
    <3>2. /\ Len(reports') = Len(reports)
          /\ \A n \in 1 .. Len(reports) :
               /\ reports'[n].timeframe = reports[n].timeframe
               /\ reports'[n].contract = reports[n].contract
               /\ reports'[n].bar_count = reports[n].bar_count
               /\ reports'[n].duplicates = reports[n].duplicates
               /\ reports'[n].missing = reports[n].missing
      BY <2>0, <3>1 DEF Report
    <3>3. \A n \in 1 .. Len(reports) : LastOfItsFrame(n)' => LastOfItsFrame(n)
      <4>1. \A n \in 1 .. Len(reports) : \A m \in (n + 1) .. Len(reports) : m \in 1 .. Len(reports)
        BY <2>0
      <4>2. QED
        BY <3>2, <4>1 DEF LastOfItsFrame
    <3>4. QED
      BY <3>1, <3>2, <3>3 DEF ReportsInStep, AtHand, Tells
  <2>8. CASE UNCHANGED vars
    BY <2>8 DEF vars, local, files, tf, code, ReportsInStep, LastOfItsFrame, AtHand, Tells
  <2>9. QED
    BY <2>1, <2>2, <2>3, <2>4, <2>5, <2>6, <2>7, <2>8
       DEF StoreNext, Next, Step, FetchDeclined, FetchFails, UpsertFails, BuildFails
<1>3. ReportsInStep => ReportTrue
  BY DEF ReportsInStep, ReportTrue, AtHand, Tells
<1>4. QED
  BY <1>1, <1>2, <1>3, StoreTypes, RunInStep, JobsKeepTheStore, PTL DEF StoreSpec

-----------------------------------------------------------------------------
\* All of a trading day, the hours after midnight in Bangkok too, is on its UTC date.
THEOREM TradingDaysAreUtcDates ==
  ASSUME NEW d \in Int, NEW t \in Timeframes, NEW u \in expected_session_minutes(d, Minutes[t])
  PROVE  DateOf(u) = d /\ TradingDate(u) = d
<1>0. PICK name \in SessionNames : \E m \in Grid(name, Minutes[t]) :
        u = d * Day - 7 * 60 + Opens[name] + m * Minutes[t]
  BY DEF expected_session_minutes
<1>1. PICK m \in Grid(name, Minutes[t]) :
        u = d * Day - 7 * 60 + Opens[name] + m * Minutes[t]
  BY <1>0
<1> DEFINE minute == Opens[name] + m * Minutes[t]
<1>2. m \in Nat /\ Minutes[t] \in Nat
  BY SourceAssumption DEF Grid, Day
<1>3. m * Minutes[t] \in Nat
  BY <1>2
<1>4. minute \in Int /\ 585 <= minute /\ minute < 1620
  BY <1>3 DEF Grid, Opens, Closes, SessionNames
<1>5. u = d * 1440 - 420 + minute
  BY <1>1, <1>3, <1>4 DEF Day, Opens, SessionNames
<1> HIDE DEF minute
<1>6. u \div 1440 = d
  BY <1>4, <1>5
<1>7. (u + 420 - 180) \div 1440 = d
  BY <1>4, <1>5
<1>8. Day = 1440 /\ NightTail = 180
  BY DEF Day, NightTail, Closes
<1>9. TradingDate(u) = (u + 420 - 180) \div 1440
  BY <1>4, <1>5, <1>8 DEF TradingDate, DateOf, to_bkk
<1>10. QED
  BY <1>6, <1>7, <1>8, <1>9 DEF DateOf

-----------------------------------------------------------------------------
(* What the validator counts is what a trading day lacks. *)

\* Parts of equal length, none left over.
LEMMA WholeParts ==
  ASSUME NEW x \in Nat, NEW m \in Nat \ {0}, x % m = 0
  PROVE  x = (x \div m) * m /\ x \div m \in Nat
OBVIOUS

\* The bars a date should have are the slots of the trading day of that date.
LEMMA GridIsSlots ==
  ASSUME NEW u \in Int, NEW t \in Timeframes,
         IsSlot(u, Minutes[t])
  PROVE  u \in expected_session_minutes(TradingDate(u), Minutes[t])
<1> DEFINE d == TradingDate(u)
           minute == to_bkk(u) - d * Day
           minutes == Minutes[t]
<1>1. PICK name \in SessionNames :
        Within(minute, name) /\ (minute - Opens[name]) % minutes = 0
  BY DEF IsSlot
<1>2. d \in Int /\ minute \in Int /\ u = d * Day - 7 * 60 + minute
  BY DEF TradingDate, DateOf, to_bkk, Day, NightTail, Closes
<1>3. minutes \in Nat \ {0} /\ Opens[name] \in Int /\ Closes[name] \in Int
      /\ Closes[name] <= Opens[name] + Day
  BY SourceAssumption DEF Opens, Closes, SessionNames, Day
<1> DEFINE x == minute - Opens[name]
           n == x \div minutes
<1> HIDE DEF d, minute, minutes
<1>4. x \in Nat /\ x < Day
  BY <1>1, <1>2, <1>3 DEF Within, Day
<1>5. x = n * minutes /\ n \in Nat
  BY <1>1, <1>3, <1>4, WholeParts
<1>6. n <= Day \div minutes
  BY <1>3, <1>4 DEF Day
<1>7. Day \div minutes \in Nat
  BY <1>3 DEF Day
<1> HIDE DEF n
<1>8. minute = Opens[name] + n * minutes
  BY <1>2, <1>3, <1>5
<1>9. n \in Grid(name, minutes)
  BY <1>1, <1>5, <1>6, <1>7, <1>8 DEF Grid, Within
<1>10. u = d * Day - 7 * 60 + Opens[name] + n * minutes
  BY <1>2, <1>3, <1>5, <1>8 DEF Day
<1> QED
  BY <1>9, <1>10 DEF expected_session_minutes, d, minutes

LEMMA SlotsAreGrid ==
  ASSUME NEW d \in Int, NEW t \in Timeframes, is_business_day(d),
         NEW u \in expected_session_minutes(d, Minutes[t])
  PROVE  u \in Int /\ TradingDate(u) = d /\ DateOf(u) = d /\ IsSlot(u, Minutes[t])
<1>1. u \in Int /\ TradingDate(u) = d /\ DateOf(u) = d
  BY GridType, TradingDaysAreUtcDates
<1>0. PICK name \in SessionNames : \E n \in Grid(name, Minutes[t]) :
        u = d * Day - 7 * 60 + Opens[name] + n * Minutes[t]
  BY DEF expected_session_minutes
<1>2. PICK n \in Grid(name, Minutes[t]) :
        u = d * Day - 7 * 60 + Opens[name] + n * Minutes[t]
  BY <1>0
<1> DEFINE minute == to_bkk(u) - d * Day
           minutes == Minutes[t]
<1>3. minutes \in Nat \ {0} /\ Opens[name] \in Int
  BY SourceAssumption DEF Opens, SessionNames
<1>4. n \in Nat /\ n * minutes \in Nat /\ Opens[name] + n * minutes < Closes[name]
  BY <1>3 DEF Grid, Day
<1>5. minute = Opens[name] + n * minutes
  BY <1>2, <1>3, <1>4 DEF to_bkk, Day
<1> HIDE DEF minute, minutes
<1>6. minute - Opens[name] = n * minutes
  BY <1>3, <1>4, <1>5
<1>7. (n * minutes) % minutes = 0
  BY <1>3, <1>4
<1>8. Within(minute, name)
  BY <1>3, <1>4, <1>5 DEF Within
<1> QED
  BY <1>1, <1>6, <1>7, <1>8 DEF IsSlot, minute, minutes

\* Between two of its times a frame can miss every instant.
LEMMA InstantsBetween ==
  ASSUME NEW a \in Slots, NEW b \in Slots, NEW u \in Int, a <= u, u <= b
  PROVE  u \in Instants
<1> DEFINE least == CHOOSE s \in Slots : \A v \in Slots : s <= v
           greatest == CHOOSE s \in Slots : \A v \in Slots : v <= s
<1>1. PICK lo \in Slots, hi \in Slots : Slots \subseteq lo .. hi
  BY SourceAssumption
<1>2. /\ \E s \in Slots : \A v \in Slots : s <= v
      /\ \E s \in Slots : \A v \in Slots : v <= s
  BY <1>1
<1>3. least \in Slots /\ \A v \in Slots : least <= v
  BY <1>2
<1>4. greatest \in Slots /\ \A v \in Slots : v <= greatest
  BY <1>2
<1> HIDE DEF least, greatest
<1>5. least \in Int /\ greatest \in Int /\ a \in Int /\ b \in Int
  BY <1>3, <1>4, SlotsFinite
<1>6. u \in least .. greatest
  BY <1>3, <1>4, <1>5
<1> QED
  BY <1>6 DEF Instants, least, greatest

LEMMA AbsentIsMissing ==
  ASSUME NEW frame \in Frames, NEW t \in Timeframes
  PROVE  count_missing_bars_in_session(frame, t) = Cardinality(Missing(frame, t))
<1> DEFINE dates == {DateOf(v) : v \in {w \in Times(frame) : is_business_day(DateOf(w))}}
           absent == UNION {ExpectedButAbsent(frame, d, t) : d \in dates}
<1>1. Times(frame) \in SUBSET Slots /\ Slots \in SUBSET Int
  BY FrameFinite, SlotsFinite
<1>2. \A v \in Times(frame) : DateOf(v) = TradingDate(v)
  BY <1>1, TradedHours
<1>3. ASSUME NEW u \in absent PROVE u \in Missing(frame, t)
  <2>1. PICK w \in Times(frame) : is_business_day(DateOf(w))
                                  /\ u \in ExpectedButAbsent(frame, DateOf(w), t)
    OBVIOUS
  <2>2. DateOf(w) \in Int
    BY <1>1, <2>1 DEF DateOf, Day
  <2>3. u \in expected_session_minutes(DateOf(w), Minutes[t]) /\ u \notin Times(frame)
    BY <2>1 DEF ExpectedButAbsent
  <2>4. u \in Int /\ TradingDate(u) = DateOf(w) /\ IsSlot(u, Minutes[t])
    BY <2>1, <2>2, <2>3, SlotsAreGrid
  <2>5. PICK a \in OnDate(frame, DateOf(w)), b \in OnDate(frame, DateOf(w)) : a <= u /\ u <= b
    BY <2>1 DEF ExpectedButAbsent, InObservedWindow
  <2>6. a \in Times(frame) /\ b \in Times(frame) /\ DateOf(a) = DateOf(w) /\ DateOf(b) = DateOf(w)
    BY DEF OnDate
  <2>7. TradingDate(a) = TradingDate(u) /\ TradingDate(b) = TradingDate(u)
    BY <1>2, <2>4, <2>6
  <2>8. a \in Int /\ b \in Int /\ a # u /\ b # u
    BY <1>1, <2>3, <2>6
  <2>9. a < u /\ u < b
    BY <2>4, <2>5, <2>8
  <2>10. u \in Instants
    BY <1>1, <2>4, <2>5, <2>6, InstantsBetween
  <2>. QED
    BY <2>3, <2>4, <2>6, <2>7, <2>9, <2>10 DEF Missing
<1>4. ASSUME NEW u \in Missing(frame, t) PROVE u \in absent
  <2>1. u \notin Times(frame) /\ IsSlot(u, Minutes[t]) /\ u \in Instants
    BY DEF Missing
  <2>2. PICK a \in Times(frame), b \in Times(frame) :
          a < u /\ u < b /\ TradingDate(a) = TradingDate(u) /\ TradingDate(b) = TradingDate(u)
    BY DEF Missing
  <2>3. u \in Int /\ a \in Int /\ b \in Int
    <3>1. \A x, y : \A v \in x .. y : v \in Int
      OBVIOUS
    <3>. QED
      BY <1>1, <2>1, <2>2, <3>1 DEF Instants
  <2>4. DateOf(a) = TradingDate(u) /\ DateOf(b) = TradingDate(u)
    BY <1>2, <2>2
  <2>5. u \in expected_session_minutes(DateOf(a), Minutes[t])
    BY <2>1, <2>3, <2>4, GridIsSlots
  <2>6. a \in OnDate(frame, DateOf(a)) /\ b \in OnDate(frame, DateOf(a)) /\ a <= u /\ u <= b
    BY <2>2, <2>3, <2>4 DEF OnDate
  <2>7. u \in ExpectedButAbsent(frame, DateOf(a), t)
    BY <2>1, <2>5, <2>6 DEF ExpectedButAbsent, InObservedWindow
  <2>8. is_business_day(DateOf(a))
    BY <2>1, <2>4 DEF IsSlot
  <2>9. DateOf(a) \in dates
    BY <2>2, <2>8
  <2>. QED
    BY <2>7, <2>9
<1> HIDE DEF dates
<1>5. absent = Missing(frame, t)
  BY <1>3, <1>4
<1> QED
  BY <1>5 DEF count_missing_bars_in_session, dates

\* What count_missing_bars_in_session counts by UTC date is what the trading days
\* lack between their first and their last bar, the night's hours after midnight
\* in Bangkok included.
THEOREM MissingIsCounted == JobsSpec => []MissingExact
<1>1. TypeOK => MissingExact
  <2> SUFFICES ASSUME TypeOK, pc = "validate"
               PROVE  count_missing_bars_in_session(df, tf) = Cardinality(Missing(df, tf))
    BY DEF MissingExact
  <2>1. df \in Frames /\ tf \in Timeframes
    BY Position DEF TypeOK
  <2>. QED
    BY <2>1, AbsentIsMissing
<1> QED
  BY <1>1, TypeCorrect, PTL

-----------------------------------------------------------------------------
(* The pages of the engine's series. *)

\* A page lists its bars, each of them once and in order.
LEMMA Ordered ==
  ASSUME NEW S \in SUBSET Int, IsFiniteSet(S)
  PROVE  /\ Ascending(S) \in Seq(S) /\ Len(Ascending(S)) = Cardinality(S)
         /\ Increasing(Ascending(S)) /\ ToSet(Ascending(S)) = S
<1> DEFINE s == Ascending(S)
           N == Cardinality(S)
<1>1. /\ N \in Nat /\ s \in [1 .. N -> S]
      /\ \A m, n \in 1 .. N : m < n => s[m] < s[n]
      /\ \A t \in S : Rank(t, S) \in 1 .. N /\ s[Rank(t, S)] = t
  BY Listed
<1> HIDE DEF s
<1>2. s \in Seq(S) /\ Len(s) = N /\ DOMAIN s = 1 .. N
  BY <1>1, SeqDef
<1>3. ToSet(s) = S
  BY <1>1, <1>2 DEF ToSet
<1> QED
  BY <1>1, <1>2, <1>3 DEF Increasing, s

OnPage == {t \in From : Rank(t, From) <= Batch}

\* A page has the oldest bars from the cursor on, and all of them if it is not full.
LEMMA PageIs ==
  ASSUME history \in SUBSET Nat, IsFiniteSet(history), cursor \in Nat
  PROVE  /\ Page \in Seq(Nat) /\ Len(Page) \in Nat /\ Increasing(Page)
         /\ ToSet(Page) = OnPage /\ OnPage \in SUBSET history
         /\ \A t \in OnPage : cursor <= t
         /\ \A t \in OnPage, u \in history : cursor <= u /\ u <= t => u \in OnPage
         /\ Len(Page) < Batch => \A u \in history : cursor <= u => u \in OnPage
<1>1. From \in SUBSET history /\ From \in SUBSET Int /\ IsFiniteSet(From)
  <2>1. From \in SUBSET history
    BY DEF From
  <2>2. From \in SUBSET Int
    <3>1. \A t \in history : t \in Int
      OBVIOUS
    <3>. QED
      BY <2>1, <3>1
  <2>. QED
    BY <2>1, <2>2, FS_Subset, Zenon
<1>2. OnPage \in SUBSET From /\ OnPage \in SUBSET Int /\ IsFiniteSet(OnPage)
  BY <1>1, FS_Subset DEF OnPage
<1>3. /\ Page \in Seq(OnPage) /\ Len(Page) = Cardinality(OnPage)
      /\ Increasing(Page) /\ ToSet(Page) = OnPage
  BY <1>2, Ordered DEF Page, OnPage
<1>4. Page \in Seq(Nat) /\ Len(Page) \in Nat
  <2>1. OnPage \subseteq Nat
    BY <1>1, <1>2
  <2>2. Len(Page) \in Nat
    BY <1>2, <1>3, FS_CardinalityType, Zenon
  <2>3. DOMAIN Page = 1 .. Len(Page) /\ Page \in [1 .. Len(Page) -> OnPage]
    BY <1>3
  <2>4. Page \in [1 .. Len(Page) -> Nat]
    BY <2>1, <2>3
  <2>. QED
    BY <2>2, <2>4, SeqDef
<1>5. \A t \in From : Rank(t, From) \in Nat
  <2>1. \A t \in From : Rank(t, From) \in 1 .. Cardinality(From)
    BY <1>1, RankFound
  <2>. QED
    BY <2>1
<1>6. ASSUME NEW t \in OnPage, NEW u \in history, cursor <= u, u <= t PROVE u \in OnPage
  <2>1. u \in From /\ t \in From /\ Rank(t, From) <= Batch
    BY <1>6 DEF From, OnPage
  <2>2. u < t \/ u = t
    BY <1>1, <1>6, <2>1
  <2>3. Rank(u, From) <= Rank(t, From)
    <3>1. u < t => Rank(u, From) < Rank(t, From)
      BY <1>1, <2>1, RankGrows
    <3>. QED
      BY <1>5, <2>1, <2>2, <3>1
  <2>. QED
    BY <1>5, <2>1, <2>3, JobSizes DEF OnPage
<1>7. ASSUME Len(Page) < Batch, NEW w \in history, cursor <= w, w \notin OnPage PROVE FALSE
  <2> DEFINE left == From \ OnPage
  <2>1. left # {} /\ left \in SUBSET Int /\ \A t \in left : cursor <= t
    BY <1>1, <1>7 DEF From
  <2>2. PICK m \in left : \A t \in left : m <= t
    <3> HIDE DEF left
    <3>1. cursor \in Int
      OBVIOUS
    <3>2. \E m \in left : \A t \in left : m <= t
      BY <2>1, <3>1, LeastExists, Zenon
    <3>. QED
      BY <3>2, Zenon
  <2> DEFINE upto == {v \in From : v <= m}
  <2>3. m \in From /\ m \notin OnPage
    BY <2>2
  <2>4. upto \in SUBSET (OnPage \cup {m})
    <3> SUFFICES ASSUME NEW v \in From, v <= m, v \notin OnPage PROVE v = m
      OBVIOUS
    <3>1. v \in left /\ v \in Int /\ m \in Int
      BY <1>1, <2>3
    <3>2. m <= v
      BY <2>2, <3>1
    <3>. QED
      BY <3>1, <3>2
  <2>5. IsFiniteSet(OnPage \cup {m}) /\ Cardinality(OnPage \cup {m}) = Len(Page) + 1
    BY <1>2, <1>3, <2>3, FS_AddElement
  <2>6. Cardinality(upto) <= Len(Page) + 1
    <3> HIDE DEF upto
    <3>. QED
      BY <2>4, <2>5, FS_Subset
  <2>7. Rank(m, From) <= Len(Page) + 1
    BY <2>6 DEF Rank
  <2>8. Rank(m, From) <= Batch
    BY <1>4, <1>5, <1>7, <2>3, <2>7, JobSizes
  <2>. QED
    BY <2>3, <2>8 DEF OnPage
<1>8. \A t \in OnPage : cursor <= t
  BY <1>2 DEF From
<1> QED
  BY <1>1, <1>2, <1>3, <1>4, <1>6, <1>7, <1>8

(* The script while it pages: what it has is in order, of the history and
   before the cursor, and it has all that the history had there when it began. *)
ScriptInv ==
  /\ script \in {"ended", "paging", "write_1h", "write_1d"}
  /\ history \in {History, Grown} /\ began \subseteq history
  /\ all_bars \in Seq(Nat) /\ cursor \in Nat
  /\ script \in {"paging", "write_1h"} =>
       Increasing(all_bars) /\ ToSet(all_bars) \subseteq history
  /\ script = "paging" => /\ \A n \in 1 .. Len(all_bars) : all_bars[n] < cursor
                          /\ \A t \in began : t < cursor => t \in ToSet(all_bars)
  /\ script = "write_1h" => began \subseteq ToSet(all_bars)

LEMMA HistoryFinite ==
  ASSUME ScriptInv
  PROVE  history \in SUBSET Nat /\ IsFiniteSet(history) /\ history \subseteq Grown
<1>1. history \in SUBSET Grown
  BY HistoryAssumption DEF ScriptInv
<1> QED
  BY <1>1, HistoryAssumption, FS_Subset

\* Appending a page of later bars keeps the order, and adds the page's bars.
LEMMA PageAppended ==
  ASSUME NEW s \in Seq(Nat), NEW p \in Seq(Nat), Increasing(s), Increasing(p),
         \A m \in 1 .. Len(s), n \in 1 .. Len(p) : s[m] < p[n]
  PROVE  /\ s \o p \in Seq(Nat) /\ Increasing(s \o p)
         /\ ToSet(s \o p) = ToSet(s) \cup ToSet(p)
         /\ \A n \in 1 .. Len(s \o p) :
              \/ n \in 1 .. Len(s) /\ (s \o p)[n] = s[n]
              \/ n - Len(s) \in 1 .. Len(p) /\ (s \o p)[n] = p[n - Len(s)]
<1> DEFINE q == s \o p
<1>1. /\ q \in Seq(Nat) /\ Len(q) = Len(s) + Len(p)
      /\ \A n \in 1 .. Len(s) + Len(p) : q[n] = IF n <= Len(s) THEN s[n] ELSE p[n - Len(s)]
  BY ConcatProperties
<1>2. Len(s) \in Nat /\ Len(p) \in Nat /\ DOMAIN s = 1 .. Len(s) /\ DOMAIN p = 1 .. Len(p)
  OBVIOUS
<1> HIDE DEF q
<1>3. DOMAIN q = 1 .. Len(q)
  BY <1>1
<1>4. \A n \in 1 .. Len(q) : \/ n \in 1 .. Len(s) /\ q[n] = s[n]
                             \/ n - Len(s) \in 1 .. Len(p) /\ q[n] = p[n - Len(s)]
  BY <1>1, <1>2
<1>5. ASSUME NEW a \in 1 .. Len(q), NEW b \in 1 .. Len(q), a < b PROVE q[a] < q[b]
  <2>1. CASE b \in 1 .. Len(s)
    <3>1. a \in 1 .. Len(s)
      BY <1>1, <1>2, <1>5, <2>1
    <3>2. q[a] = s[a] /\ q[b] = s[b]
      BY <1>1, <1>2, <2>1, <3>1
    <3>. QED
      BY <1>2, <1>5, <2>1, <3>1, <3>2 DEF Increasing
  <2>2. CASE b \notin 1 .. Len(s)
    <3>1. b - Len(s) \in 1 .. Len(p) /\ q[b] = p[b - Len(s)]
      BY <1>4, <2>2
    <3>2. CASE a \in 1 .. Len(s)
      <4>1. q[a] = s[a]
        BY <1>1, <1>2, <3>2
      <4>. QED
        BY <3>1, <3>2, <4>1
    <3>3. CASE a \notin 1 .. Len(s)
      <4>1. a - Len(s) \in 1 .. Len(p) /\ q[a] = p[a - Len(s)]
        BY <1>4, <3>3
      <4>2. a - Len(s) < b - Len(s)
        BY <1>1, <1>2, <1>5
      <4>. QED
        BY <1>2, <3>1, <4>1, <4>2 DEF Increasing
    <3>. QED
      BY <3>2, <3>3
  <2>. QED
    BY <2>1, <2>2
<1>6. Increasing(q)
  BY <1>3, <1>5 DEF Increasing
<1>7. ToSet(q) \subseteq ToSet(s) \cup ToSet(p)
  BY <1>2, <1>3, <1>4 DEF ToSet
<1>8. ASSUME NEW n \in 1 .. Len(s) PROVE s[n] \in ToSet(q)
  <2>1. n \in 1 .. Len(q) /\ q[n] = s[n]
    BY <1>1, <1>2
  <2>. QED
    BY <1>3, <2>1 DEF ToSet
<1>9. ASSUME NEW n \in 1 .. Len(p) PROVE p[n] \in ToSet(q)
  <2>1. n + Len(s) \in 1 .. Len(q) /\ ~(n + Len(s) <= Len(s)) /\ (n + Len(s)) - Len(s) = n
    BY <1>1, <1>2
  <2>2. q[n + Len(s)] = p[n]
    BY <1>1, <2>1
  <2>. QED
    BY <1>3, <2>1, <2>2 DEF ToSet
<1>10. ToSet(s) \cup ToSet(p) \subseteq ToSet(q)
  BY <1>2, <1>8, <1>9 DEF ToSet
<1> QED
  BY <1>1, <1>4, <1>6, <1>7, <1>10 DEF q

\* What a page adds to what the script has.
LEMMA Paged ==
  ASSUME ScriptInv, script = "paging"
  PROVE  /\ all_bars \o Page \in Seq(Nat) /\ Increasing(all_bars \o Page)
         /\ ToSet(all_bars \o Page) = ToSet(all_bars) \cup OnPage
         /\ ToSet(all_bars \o Page) \subseteq history
         /\ \A n \in 1 .. Len(all_bars \o Page) :
              (all_bars \o Page)[n] < cursor \/ (all_bars \o Page)[n] \in OnPage
<1> DEFINE p == Page
<1>1. /\ all_bars \in Seq(Nat) /\ Increasing(all_bars) /\ cursor \in Nat
      /\ ToSet(all_bars) \subseteq history
      /\ \A n \in 1 .. Len(all_bars) : all_bars[n] < cursor
  BY DEF ScriptInv
<1>2. /\ p \in Seq(Nat) /\ Increasing(p) /\ ToSet(p) = OnPage /\ OnPage \in SUBSET history
      /\ \A t \in OnPage : cursor <= t
  BY <1>1, HistoryFinite, PageIs
<1> HIDE DEF p
<1>3. \A n \in 1 .. Len(p) : p[n] \in OnPage
  <2>1. DOMAIN p = 1 .. Len(p)
    BY <1>2
  <2>. QED
    BY <1>2, <2>1 DEF ToSet
<1>4. ASSUME NEW m \in 1 .. Len(all_bars), NEW n \in 1 .. Len(p) PROVE all_bars[m] < p[n]
  <2>1. all_bars[m] < cursor /\ cursor <= p[n]
    BY <1>1, <1>2, <1>3
  <2>2. all_bars[m] \in Nat /\ p[n] \in Nat
    BY <1>1, <1>2, ElementOfSeq
  <2>. QED
    BY <1>1, <2>1, <2>2
<1> DEFINE q == all_bars \o p
<1>5. /\ q \in Seq(Nat) /\ Increasing(q) /\ ToSet(q) = ToSet(all_bars) \cup ToSet(p)
      /\ \A n \in 1 .. Len(q) :
           \/ n \in 1 .. Len(all_bars) /\ q[n] = all_bars[n]
           \/ n - Len(all_bars) \in 1 .. Len(p) /\ q[n] = p[n - Len(all_bars)]
  BY <1>1, <1>2, <1>4, PageAppended
<1> HIDE DEF q
<1>6. \A n \in 1 .. Len(q) : q[n] < cursor \/ q[n] \in OnPage
  BY <1>1, <1>3, <1>5
<1> QED
  BY <1>1, <1>2, <1>5, <1>6 DEF p, q

LEMMA ScriptKeeps == ScriptInv /\ [JobsNext]_jobVars => ScriptInv'
<1> SUFFICES ASSUME ScriptInv, [JobsNext]_jobVars PROVE ScriptInv'
  OBVIOUS
<1> DEFINE q == all_bars \o Page
<1>1. CASE UNCHANGED scriptVars
  BY <1>1 DEF scriptVars, ScriptInv
<1>2. CASE HistoryGrows
  <2>1. history' = Grown /\ history \subseteq Grown
        /\ UNCHANGED <<script, began, all_bars, cursor>> /\ script = "paging"
    BY <1>2, HistoryFinite DEF HistoryGrows
  <2>. QED
    BY <2>1 DEF ScriptInv
<1>3. CASE ScriptStarts
  <2>1. /\ script' = "paging" /\ began' = history /\ history' = history /\ all_bars' = <<>>
        /\ cursor' = 0 /\ history \in SUBSET Nat
    BY <1>3, HistoryFinite DEF ScriptStarts
  <2>2. Increasing(<<>>) /\ ToSet(<<>>) = {}
    BY DEF Increasing, ToSet
  <2>3. \A t \in history : ~(t < 0)
    BY <2>1
  <2>. QED
    BY <2>1, <2>2, <2>3 DEF ScriptInv
<1>4. CASE NextPage
  <2>1. /\ script = "paging" /\ UNCHANGED <<script, history, began>>
        /\ all_bars' = q /\ cursor' = Last(Page) + 1 /\ ~(Len(Page) < Batch)
    BY <1>4 DEF NextPage, JustAfter
  <2>2. /\ q \in Seq(Nat) /\ Increasing(q) /\ ToSet(q) = ToSet(all_bars) \cup OnPage
        /\ ToSet(q) \subseteq history
        /\ \A n \in 1 .. Len(q) : q[n] < cursor \/ q[n] \in OnPage
    BY <2>1, Paged
  <2> HIDE DEF q
  <2> DEFINE p == Page
             newest == Last(p)
  <2>3. /\ p \in Seq(Nat) /\ Len(p) \in Nat /\ Increasing(p) /\ ToSet(p) = OnPage
        /\ \A t \in OnPage : cursor <= t
        /\ \A t \in OnPage, u \in history : cursor <= u /\ u <= t => u \in OnPage
    BY HistoryFinite, PageIs DEF ScriptInv
  <2>4. cursor \in Nat /\ history \in SUBSET Nat /\ began \subseteq history
        /\ all_bars \in Seq(Nat)
    BY HistoryFinite DEF ScriptInv
  <2>5. Len(p) \in 1 .. Len(p) /\ DOMAIN p = 1 .. Len(p)
    BY <2>1, <2>3, JobSizes
  <2> HIDE DEF p
  <2>6. newest \in OnPage /\ newest \in Nat
    BY <2>3, <2>5 DEF ToSet, Last
  <2>7. ASSUME NEW t \in OnPage PROVE t \in Nat /\ t <= newest
    <3>1. PICK n \in 1 .. Len(p) : p[n] = t
      BY <2>3, <2>5 DEF ToSet
    <3>2. n = Len(p) \/ n < Len(p)
      BY <2>3
    <3>3. n < Len(p) => t < newest
      BY <2>5, <2>3, <3>1 DEF Increasing, Last
    <3>4. t \in Nat
      BY <2>3, <3>1
    <3>. QED
      BY <2>6, <3>1, <3>2, <3>3, <3>4 DEF Last
  <2>8. cursor <= newest
    BY <2>3, <2>6
  <2> HIDE DEF newest
  <2>9. cursor' = newest + 1
    BY <2>1 DEF newest, p
  <2>10. ASSUME NEW n \in 1 .. Len(q) PROVE q[n] < newest + 1
    <3>1. q[n] \in Nat
      BY <2>2
    <3>2. CASE q[n] < cursor
      BY <2>4, <2>6, <2>8, <3>1, <3>2
    <3>3. CASE q[n] \in OnPage
      BY <2>6, <2>7, <3>1, <3>3
    <3>. QED
      BY <2>2, <3>2, <3>3
  <2>11. ASSUME NEW t \in began, t < newest + 1 PROVE t \in ToSet(q)
    <3>1. t \in Nat /\ t \in history
      BY <2>4
    <3>2. CASE t < cursor
      BY <2>1, <2>2, <3>2 DEF ScriptInv
    <3>3. CASE cursor <= t
      <4>1. t <= newest
        BY <2>6, <2>11, <3>1
      <4>. QED
        BY <2>2, <2>3, <2>6, <3>1, <3>3, <4>1
    <3>. QED
      BY <2>4, <3>1, <3>2, <3>3
  <2>12. newest + 1 \in Nat
    BY <2>6
  <2>. QED
    BY <2>1, <2>2, <2>9, <2>10, <2>11, <2>12 DEF ScriptInv
<1>5. CASE LastPage
  <2>0. ASSUME ~Advances PROVE Page = <<>>
    <3>1. Page \in Seq(Nat) /\ Len(Page) \in Nat /\ ToSet(Page) = OnPage
          /\ \A t \in OnPage : cursor <= t
      BY HistoryFinite, PageIs DEF ScriptInv
    <3> SUFFICES ASSUME Page # <<>> PROVE FALSE
      OBVIOUS
    <3>2. Len(Page) \in DOMAIN Page /\ Last(Page) = Page[Len(Page)]
      BY <3>1 DEF Last
    <3>3. Last(Page) \in OnPage /\ Last(Page) \in Nat
      BY <3>1, <3>2 DEF ToSet
    <3>4. cursor \in Nat /\ cursor <= Last(Page)
      BY <3>1, <3>3 DEF ScriptInv
    <3>. QED
      BY <2>0, <3>3, <3>4 DEF Advances
  <2>1. /\ script = "paging" /\ script' = "write_1h" /\ UNCHANGED <<history, began, cursor>>
        /\ all_bars' = q /\ Len(Page) < Batch
    <3>1. CASE Advances
      BY <1>5, <3>1 DEF LastPage
    <3>2. CASE ~Advances
      <4>1. Page = <<>> /\ Len(Page) < Batch
        BY <2>0, <3>2, JobSizes
      <4>2. q = all_bars
        BY <4>1 DEF ScriptInv
      <4>. QED
        BY <1>5, <3>2, <4>1, <4>2 DEF LastPage
    <3>. QED
      BY <3>1, <3>2
  <2>2. /\ q \in Seq(Nat) /\ Increasing(q) /\ ToSet(q) = ToSet(all_bars) \cup OnPage
        /\ ToSet(q) \subseteq history
    BY <2>1, Paged
  <2> HIDE DEF q
  <2>3. \A u \in history : cursor <= u => u \in OnPage
    BY <2>1, HistoryFinite, PageIs DEF ScriptInv
  <2>4. ASSUME NEW t \in began PROVE t \in ToSet(q)
    <3>1. t \in Nat /\ t \in history /\ cursor \in Nat
      BY HistoryFinite DEF ScriptInv
    <3>2. CASE t < cursor
      BY <2>1, <2>2, <3>2 DEF ScriptInv
    <3>3. CASE cursor <= t
      BY <2>2, <2>3, <3>1, <3>3
    <3>. QED
      BY <3>1, <3>2, <3>3
  <2>. QED
    BY <2>1, <2>2, <2>4 DEF ScriptInv
<1>6. CASE ScriptDies \/ Write1h \/ Write1d
  <2>1. /\ script' \in {"ended", "write_1d"} /\ history' = history
        /\ \/ UNCHANGED <<began, all_bars, cursor>>
           \/ began' = {} /\ all_bars' = <<>> /\ cursor' = 0
    BY <1>6 DEF ScriptDies, Write1h, Write1d, Forget
  <2>2. /\ history' \in {History, Grown} /\ began' \subseteq history'
        /\ all_bars' \in Seq(Nat) /\ cursor' \in Nat
    <3>1. CASE UNCHANGED <<began, all_bars, cursor>>
      BY <2>1, <3>1 DEF ScriptInv
    <3>2. CASE began' = {} /\ all_bars' = <<>> /\ cursor' = 0
      BY <2>1, <3>2 DEF ScriptInv
    <3>. QED
      BY <2>1, <3>1, <3>2
  <2>. QED
    BY <2>1, <2>2 DEF ScriptInv
<1> QED
  <2>1. CASE HookStep \/ run_post_refresh_hook
    BY <1>1, <2>1 DEF HookStep, PostFails, PostSucceeds, GivesUp, run_post_refresh_hook
  <2>2. CASE UNCHANGED jobVars
    BY <1>1, <2>2 DEF jobVars
  <2>. QED
    BY <1>1, <1>2, <1>3, <1>4, <1>5, <1>6, <2>1, <2>2 DEF JobsNext, ScriptStep

\* What the script writes is the engine's history as it was when it began, with
\* nothing twice and nothing invented, whatever is appended while it pages and
\* whatever the size of a page, and its days are the trading days.
THEOREM SeriesIsWhole == JobsSpec => []HistoryWhole
<1>1. JobsInit => ScriptInv
  BY HistoryAssumption DEF JobsInit, ScriptInv
<1>2. ScriptInv => HistoryWhole
  <2> SUFFICES ASSUME ScriptInv, script = "write_1h"
               PROVE  /\ Increasing(all_bars)
                      /\ began \subseteq ToSet(all_bars) /\ ToSet(all_bars) \subseteq history
                      /\ \A day \in resample_1h_to_1d(ToSet(all_bars)) : \A t \in day :
                           day = {u \in ToSet(all_bars) : TradingDate(u) = TradingDate(t)}
    BY DEF HistoryWhole
  <2> DEFINE bars == ToSet(all_bars)
  <2>1. /\ Increasing(all_bars) /\ began \subseteq bars /\ bars \subseteq history
    BY DEF ScriptInv
  <2>2. \A u \in bars : DateOf(u) = TradingDate(u)
    BY <2>1, HistoryFinite, TradedHours
  <2> HIDE DEF bars
  <2>3. ASSUME NEW day \in resample_1h_to_1d(bars), NEW t \in day
        PROVE  day = {u \in bars : TradingDate(u) = TradingDate(t)}
    <3>1. PICK d : day = {u \in bars : DateOf(u) = d}
      BY DEF resample_1h_to_1d
    <3>2. t \in bars /\ TradingDate(t) = d
      BY <2>2, <3>1
    <3>. QED
      BY <2>2, <3>1, <3>2
  <2>. QED
    BY <2>1, <2>3 DEF bars
<1> QED
  BY <1>1, <1>2, ScriptKeeps, PTL DEF JobsSpec

=============================================================================
