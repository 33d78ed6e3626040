------------------------------ MODULE DataJobs ------------------------------
(***************************************************************************)
(* The commands of an operator over one store: refresh_ohlcv and           *)
(* validate_ohlcv (Refresh), fetch_engine_continuous.py, which pages       *)
(* through the engine's own adjusted series and writes two of the files    *)
(* that a refresh writes, and the post-refresh hook of adapters/hooks.py,  *)
(* which reports to the gateway.  One command runs at a time (the store is *)
(* "not multi-process safe").                                              *)
(***************************************************************************)
EXTENDS Refresh, SequencesExt, Ranks

CONSTANTS Hourly, Daily,       \* the two timeframes of the script
          History, Grown,      \* the engine's bars at first, and more of them later
          Batch,               \* BATCH_SIZE
          Payloads             \* the daily reports that are built

ASSUME JobSizes == Batch \in Nat \ {0} /\ Hourly \in Timeframes /\ Daily \in Timeframes
\* The engine's series has no bar before 0, the script's first cursor, and grows.
ASSUME HistoryAssumption ==
  IsFiniteSet(Grown) /\ Grown \subseteq Nat /\ History \subseteq Grown
\* No bar starts while the market is closed and the two dates of a time differ,
\* between 03:00 and 07:00 in Bangkok.
ASSUME TradedHours == \A t \in Slots \cup Grown : DateOf(t) = TradingDate(t)

VARIABLES script,      \* the step of fetch_engine_continuous
          history,     \* the engine's series
          began,       \* and what it was when the script began
          all_bars, cursor,
          hook, posts, \* the step of run_post_refresh_hook, the attempts it made
          payload, gateway
scriptVars == <<script, history, began, all_bars, cursor>>
hookVars == <<hook, posts, payload, gateway>>
jobVars == <<vars, scriptVars, hookVars>>

Quiet == pc \in Ended /\ script = "ended" /\ hook # "posting"

JobsInit ==
  /\ Init
  /\ script = "ended" /\ history = History /\ began = {} /\ all_bars = <<>> /\ cursor = 0
  /\ hook = "none" /\ posts = 0 /\ payload = None /\ gateway = None

-----------------------------------------------------------------------------
\* The engine: it answers from the first bar at the cursor on, oldest first.
From == {t \in history : t >= cursor}
Page == Ascending({t \in From : Rank(t, From) <= Batch})
HistoryGrows ==
  /\ script = "paging" /\ history' = Grown
  /\ UNCHANGED <<vars, hookVars, script, began, all_bars, cursor>>

ScriptStarts ==
  /\ Quiet /\ runs < MaxRuns /\ runs' = runs + 1 /\ pc' = "idle"
  /\ script' = "paging" /\ began' = history /\ all_bars' = <<>> /\ cursor' = 0
  /\ UNCHANGED <<settings, job, local, files, tables, history, hookVars>>

Again(t) == t
JustAfter(t) == t + 1

\* An empty page ends the walk, and so would one that ends before the cursor.
Advances == Page # <<>> /\ ~(Last(Page) < cursor)

\* A full page is followed by another one, which may be empty.
NextPage ==
  /\ script = "paging" /\ Advances /\ ~(Len(Page) < Batch)
  /\ all_bars' = all_bars \o Page
  /\ cursor' = JustAfter(Last(Page))
  /\ UNCHANGED <<vars, hookVars, script, history, began>>
LastPage ==
  /\ script = "paging" /\ (Advances => Len(Page) < Batch)
  /\ all_bars' = IF Advances THEN all_bars \o Page ELSE all_bars
  /\ script' = "write_1h"
  /\ UNCHANGED <<vars, hookVars, history, began, cursor>>

Forget == began' = {} /\ all_bars' = <<>> /\ cursor' = 0

\* Killed, or an error of the engine that its client does not get over.
ScriptDies ==
  /\ script # "ended" /\ script' = "ended" /\ Forget
  /\ continuous' \in {[continuous EXCEPT
                         ![IF script = "write_1h" THEN Hourly ELSE Daily] = f] :
                      f \in IF script = "paging" THEN {continuous[Daily]}
                            ELSE {continuous[IF script = "write_1h" THEN Hourly ELSE Daily], Torn}}
  /\ UNCHANGED <<settings, job, pc, local, raw, reference, report, tables, runs, history, hookVars>>

Write1h ==
  /\ script = "write_1h" /\ script' = "write_1d"
  /\ continuous' = [continuous EXCEPT ![Hourly] = S501]
  /\ UNCHANGED <<settings, job, pc, local, raw, reference, report, tables, runs,
                 history, began, all_bars, cursor, hookVars>>

\* The bars of one UTC date become one, at the first one's time.
resample_1h_to_1d(bars) == {{t \in bars : DateOf(t) = d} : d \in {DateOf(t) : t \in bars}}
Write1d ==
  /\ script = "write_1d" /\ script' = "ended" /\ Forget
  /\ continuous' = [continuous EXCEPT ![Daily] = S501]
  /\ UNCHANGED <<settings, job, pc, local, raw, reference, report, tables, runs, history, hookVars>>

-----------------------------------------------------------------------------
\* What the models of adapters/payload.py accept; a float or an instant that is not UTC is refused too.
Accepted(p) ==
  /\ p.max_drawdown <= 0
  /\ p.total_value >= 0 /\ p.cash_balance >= 0 /\ p.positions_count >= 0
  /\ p.margin_usage >= 0

\* The other fields of the report are merged over the margin usage.
build_ingestion_payload(p) ==
  IF p.extra_report = None THEN p ELSE [p EXCEPT !.margin_usage = p.extra_report]

run_post_refresh_hook ==
  /\ Quiet /\ pc = "done" /\ hook = "none"
  /\ \E p \in Payloads :
       /\ Accepted(build_ingestion_payload(p))
       /\ payload' = build_ingestion_payload(p)
  /\ hook' = IF settings.db THEN "posting" ELSE "returned"
  /\ posts' = 0
  /\ UNCHANGED <<vars, scriptVars, gateway>>

\* An attempt that the gateway may have received although it counts as failed.
PostFails ==
  /\ hook = "posting" /\ posts < MaxAttempts
  /\ posts' = posts + 1
  /\ gateway' \in {gateway, payload}
  /\ UNCHANGED <<vars, scriptVars, hook, payload>>
PostSucceeds ==
  /\ hook = "posting" /\ posts < MaxAttempts
  /\ hook' = "returned" /\ posts' = posts + 1 /\ gateway' = payload
  /\ UNCHANGED <<vars, scriptVars, payload>>
\* Refused (4xx), or no attempt is left: GatewayClientError, which is swallowed.
GivesUp ==
  /\ hook = "posting"
  /\ hook' = "returned"
  /\ UNCHANGED <<vars, scriptVars, posts, payload, gateway>>

ScriptStep == NextPage \/ LastPage \/ ScriptDies \/ Write1h \/ Write1d
HookStep == PostFails \/ PostSucceeds \/ GivesUp
RefreshNext == (Start /\ Quiet) \/ (validate_ohlcv /\ Quiet) \/ Step \/ Kill

\* The next run is the next day's: its report is a new one.
JobsNext ==
  \/ RefreshNext /\ UNCHANGED scriptVars
     /\ IF pc \in Ended THEN hook' = "none" /\ posts' = 0 /\ payload' = None /\ UNCHANGED gateway
        ELSE UNCHANGED hookVars
  \/ ScriptStarts \/ HistoryGrows \/ ScriptStep
  \/ run_post_refresh_hook \/ HookStep

\* Requests have timeouts: the process that runs takes its next step.
JobsSpec ==
  /\ JobsInit /\ [][JobsNext]_jobVars
  /\ WF_jobVars(Step /\ UNCHANGED <<scriptVars, hookVars>>)
  /\ WF_jobVars(ScriptStep) /\ WF_jobVars(HookStep)

-----------------------------------------------------------------------------
(* The script's file is the engine's history: each of its bars once and in
   order, whatever is appended while it pages, and a bar a trading day (the
   night's hours after midnight in Bangkok included). *)
Increasing(s) == \A a, b \in DOMAIN s : a < b => s[a] < s[b]
HistoryWhole ==
  script = "write_1h" =>
    /\ Increasing(all_bars)
    /\ began \subseteq ToSet(all_bars) /\ ToSet(all_bars) \subseteq history
    /\ \A day \in resample_1h_to_1d(ToSet(all_bars)) : \A t \in day :
         day = {u \in ToSet(all_bars) : TradingDate(u) = TradingDate(t)}

(* Every command ends: a refresh however often its requests fail, the script
   however the history grows, and the hook without raising ("a gateway outage
   never blocks the upstream pipeline"). *)
CommandsEnd ==
  /\ pc \notin Ended ~> pc \in Ended
  /\ script # "ended" ~> script = "ended"
  /\ hook = "posting" ~> hook = "returned"
=============================================================================
