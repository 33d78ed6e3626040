---------------------------- MODULE WalkForward ----------------------------
(***************************************************************************)
(* The walk-forward harness (backtest/walk_forward.py) driving the risk    *)
(* engine: generate_windows, and drive_costed_trades called once a window  *)
(* with the equity the window before left.  What detection, execution and  *)
(* costs produce for a window is an arbitrary list of candidate trades in  *)
(* order of entry; time is in slots, DayLen of them to a Bangkok day.      *)
(*                                                                         *)
(* A candidate enters the books at its ENTRY with the net R it ends with.  *)
(***************************************************************************)
EXTENDS Risk

CONSTANTS
  Start, End,             \* the first slot of the data and the last, excluded
  DayLen,                 \* slots to a day
  TrainDays, TestDays, StepDays,
  StartEquity,            \* start_equity
  WindowFloor,            \* per_window_loss_limit_r, negative
  WorstR,                 \* no candidate loses more than WorstR R
  Outcomes,               \* net_r_multiple of the candidates
  Dists,                  \* their stop distances
  Regimes,                \* their regimes
  MaxCandidates,          \* bound: candidates a window
  Stages, Evidences       \* deployment_stage and ladder_evidence of the run

ASSUME WalkForwardAssumption ==
  /\ Start \in Nat /\ End \in Nat /\ DayLen \in Nat \ {0}
  /\ TrainDays \in Nat \ {0} /\ TestDays \in Nat \ {0} /\ StepDays \in Nat \ {0}
  /\ StartEquity \in Nat \ {0}
  /\ WindowFloor \in Int /\ WindowFloor < 0
  /\ WorstR \in Nat \ {0} /\ Outcomes \subseteq Int /\ \A r \in Outcomes : r >= -WorstR
  /\ Dists \subseteq Nat /\ Regimes \subseteq Regime
  /\ MaxCandidates \in Nat
  /\ Stages \subseteq Stage /\ Evidences \subseteq Evidence

Slots == Start..End
DayOf(t) == t \div DayLen
Days == {DayOf(t) : t \in Slots}
NoDay == -1

Candidate == [entry : Slots, dist : Dists, r : Outcomes, regime : Regimes]

VARIABLES
  stage, evidence,  \* fixed: what the run is configured with
  w,          \* the window, numbered from 0
  n,          \* candidates of it gone through
  clock,      \* entry of the candidate gone through last
  day,        \* current_day
  session,    \* the SessionRiskState
  equity,
  windowR,    \* window_cum_r
  tripped,    \* breaker_tripped
  daily       \* daily_r; with it, history: trades taken and losses in a row

run == <<stage, evidence>>
vars == <<stage, evidence, w, n, clock, day, session, equity, windowR, tripped, daily>>

Tally == [r : Int, trades : Nat, losses : Nat]

TypeOK ==
  /\ stage \in Stages /\ evidence \in Evidences
  /\ w \in Nat /\ n \in 0..MaxCandidates
  /\ clock \in Int
  /\ day \in Days \cup {NoDay}
  /\ session \in SessionState
  /\ equity \in Int /\ windowR \in Int
  /\ tripped \in BOOLEAN
  /\ daily \in [Days -> Tally]

----------------------------------------------------------------------------
(* generate_windows: the test block of window i.  Training, and so the     *)
(* anchored or rolling start, only matters to an ML filter.                *)

TestStart(i) == Start + DayLen * (TrainDays + i * StepDays)
TestEnd(i) == Lesser(TestStart(i) + DayLen * TestDays, End)

Untraded == [d \in Days |-> [r |-> 0, trades |-> 0, losses |-> 0]]

Init ==
  /\ stage \in Stages /\ evidence \in Evidences
  /\ TestStart(0) < End
  /\ w = 0 /\ n = 0 /\ clock = TestStart(0)
  /\ day = NoDay /\ session = StartSession
  /\ equity = StartEquity /\ windowR = 0 /\ tripped = FALSE
  /\ daily = Untraded

\* Candidates come in the order of their entries (sorted, ties in any order).
InWindow(c) == TestStart(w) <= c.entry /\ c.entry < TestEnd(w)
UnsortedCandidate(c) == n < MaxCandidates /\ InWindow(c)
NextCandidate(c) == n < MaxCandidates /\ InWindow(c) /\ clock <= c.entry

\* A new Bangkok date starts a session.
SessionFor(c) == IF DayOf(c.entry) = day THEN session ELSE StartSession

\* The harness knows no market health and no volatility percentile.
ContractsFor(c) ==
  IF equity <= 0 \/ c.dist <= 0 THEN 0
  ELSE EvaluateEntry([equity |-> equity, dist |-> c.dist, regime |-> c.regime,
                      highVol |-> FALSE],
                     SessionFor(c), {}, stage, evidence)

Suppress(c) ==
  /\ NextCandidate(c) /\ tripped
  /\ n' = n + 1 /\ clock' = c.entry
  /\ UNCHANGED <<run, w, day, session, equity, windowR, tripped, daily>>

Skip(c) ==
  /\ NextCandidate(c) /\ ~tripped /\ ContractsFor(c) = 0
  /\ n' = n + 1 /\ clock' = c.entry
  /\ day' = DayOf(c.entry) /\ session' = SessionFor(c)
  /\ UNCHANGED <<run, w, equity, windowR, tripped, daily>>

FloorPassed(r) == r < WindowFloor
FloorReached(r) == r <= WindowFloor

Take(c) ==
  /\ NextCandidate(c) /\ ~tripped /\ ContractsFor(c) >= 1
  /\ n' = n + 1 /\ clock' = c.entry
  /\ day' = DayOf(c.entry)
  /\ session' = RegisterOutcome(SessionFor(c), c.r)
  /\ equity' = equity + ContractsFor(c) * (c.r * c.dist)
  /\ windowR' = windowR + c.r
  /\ tripped' = FloorReached(windowR')
  /\ daily' = [daily EXCEPT ![DayOf(c.entry)] =
                 [r |-> @.r + c.r, trades |-> @.trades + 1,
                  losses |-> IF c.r < 0 THEN @.losses + 1 ELSE 0]]
  /\ UNCHANGED <<run, w>>

\* The next call of drive_costed_trades: everything is fresh but the equity.
NextWindow ==
  /\ TestStart(w + 1) < End
  /\ w' = w + 1 /\ n' = 0 /\ clock' = TestStart(w + 1)
  /\ day' = NoDay /\ session' = StartSession
  /\ windowR' = 0 /\ tripped' = FALSE /\ daily' = Untraded
  /\ UNCHANGED <<run, equity>>

Next ==
  \/ \E c \in Candidate : Suppress(c)
  \/ \E c \in Candidate : Skip(c)
  \/ \E c \in Candidate : Take(c)
  \/ NextWindow

Spec == Init /\ [][Next]_vars

----------------------------------------------------------------------------
\* A day of a window overshoots each limit by at most the trade that reached
\* it, however the sessions were started and halted: what daily_r adds up,
\* which the risk engine never sees, stays above the daily limit but for one
\* trade, and neither the trades nor the losses in a row pass their cap.
DayLimits ==
  \A d \in Days :
    /\ daily[d].r > -(DailyLossLimit + WorstR)
    /\ daily[d].trades <= MaxTrades
    /\ daily[d].losses <= MaxLosses

\* A window loses at most its floor and the trade that went through it.
WindowLimit == windowR > WindowFloor - WorstR

\* Sizing a fraction of the equity, rounded down, cannot ruin the account over
\* any number of windows, so long as no trade loses 1 / risk_per_trade_pct R.
Solvent == WorstR < RiskPer => equity > 0

\* What the evidence supports at the most, whichever stage is asked for: time
\* live counts only with a stable expectancy and a drawdown within limits.
Supported(e) ==
  LET live(months) == e.stable /\ e.drawdown /\ e.months >= months
  IN IF live(ScaleMonths) THEN ScaleCap
     ELSE IF live(ValidatedMonths) THEN ValidatedCap ELSE MicroCap

\* Every position taken is within the budget of the equity at that moment and
\* within the evidence, and none is opened in a regime that forbids trading.
WithinBudget ==
  [][\A c \in Candidate : Take(c) =>
       /\ ContractsFor(c) * (c.dist * RiskPer) <= equity
       /\ MicroCap <= ValidatedCap /\ ValidatedCap <= ScaleCap
            => ContractsFor(c) <= Supported(evidence)
       /\ c.regime # "range_low_vol"
       /\ PanicNoTrade => c.regime # "panic"]_vars

=============================================================================
