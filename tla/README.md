# Verification of tfex-s50-multi-tf-swing

TLA+ models of the SET50-futures swing strategy in `src/`, the TLC runs that
check them and the proofs the TLA+ proof system checks. Paths below are
relative to `src/src/tfex_s50_multi_tf_swing/` unless they start with `src/`.

## 1. The system

One Python package with two ways to run it: a simulated trade loop that talks to
an execution engine through a gateway (`execution/`), and a walk-forward backtest
(`backtest/`) that drives signals, the trade engine and the risk engine over
stored bars. A refresh job fills the bar store, a panel of features is computed
from it, and trained models may gate the signals. The models follow this
pipeline from the request for a bar to the figures of a report.

| Part | State it keeps | Operations | Talks to |
|---|---|---|---|
| Simulated trade loop `execution/sim_loop.py` | `_LoopState`: position, trackers, degraded flag, outcomes | `run_sim_loop`, `_process_one`, `_await_terminal`, `_reconcile_via_get`, `_consume_stream`, `_apply_event` | the adapter; two coroutines share the state |
| Execution engine adapter `execution/engine_adapter.py` | per stream: cursor, consecutive failures, the lines of a frame | `submit_order`, `get_order`, `stream_updates` | the engine over HTTP and SSE |
| Trade engine `execution/engine.py` | the walk's local state: stop level, partial, best close | `simulate_trade` | called by the harness, once a setup |
| Risk engine `risk/` | `SessionRiskState`, immutable | `start_session`, `register_outcome`, `can_open`, `evaluate_kill_switch`, `compute_position_size`, `max_contracts_for_stage`, `evaluate_entry` | called by the harness |
| Walk-forward harness `backtest/walk_forward.py` | equity, window R, breaker, current day and session | `generate_windows`, `drive_costed_trades`, `run_walk_forward` | signals, trade engine, costs, risk engine |
| Costs, metrics `backtest/` | none | `apply_costs`, `compute_metrics` | |
| Contracts, sessions, continuous series `data/` | none | `expiry_for`, `session_of`, `ContinuousBuilder.build` | refresh |
| Refresh, store, validator, DB writer `data/` | Parquet files, two tables, a report a day | `refresh_all`, reads and writes | fetchers, file system, TimescaleDB |
| Fetchers `data/`, `adapters/market_data_engine_client.py` | none | fetch with retries | TradingView, market data engine |
| Features `features/` | the panel, rebuilt from the frame | `build_panel` and its columns, `align_timeframes` | signals |
| Regime, bias, signals `regime/`, `bias/`, `signals/` | none | classification, gates, strategies A, B, C | features, harness |
| ML filter `ml/` | two files a model, a cache of bundles | labels, training, `save_model`, `load_bundle`, `filter_signals` | harness |
| Gateway report `adapters/` | none | `build_ingestion_payload`, post with retries, hook after refresh | gateway |
| Settings, API, scripts | none | | |

What is hard: a refresh that writes some hundred files and tables one by one and
may be killed between any two; a store that several commands write; a night
session that runs past midnight, into Saturdays and holidays, and code that asks
for its date in four ways; columns that are computed over a whole frame and may
look ahead; model files that are replaced while they are loaded; two coroutines
on one state with an await at every call; an engine
whose answers get lost, whose events come late, twice or never; timeouts that
race with answers; reconnects; a trade whose stop moves with the bars; limits
that must hold whatever the order of trades, days and windows. `PROJECT.json`
lists each such place under "hazards".

### What makes each part correct

* Loop: an outcome never counts a fill twice and never claims an end the engine
  does not hold; the position is the sum of the fills; the loop ends.
* Stream: in order, at most once, nothing skipped after the first event; what is left
  of a frame that a drop has cut is not taken for part of another.
* Trade: never more than 1R lost before costs; a stop that only tightens; a
  banked part that is kept.
* Refresh: a run that is done leaves files, tables and reports that agree with
  what it was answered, whatever failed before it; every command ends.
* Validator: the missing bars are those of the trading day.
* Panel: what a row says never changes when the frame grows, and the frame's
  clock is the calendar's.
* Models: what is loaded is what is on disk; the filter drops what its model turns
  down; a label tells how the trade it stands for came out; a fold is tested on rows
  none of its own is later than, and every row is tested once.
* Report: the drawdown is the curve's, and costs never flatter.
* Continuous series: rolls follow one another inside their windows, nothing that
  was traded before the market moved on is lost, nothing of a contract comes
  after its roll, and prices join at the roll.
* Setups: no daily value is used before its day has ended; what fires agrees with
  the regime's policy, is based on known values and has its stop behind it.
* Risk and harness: a day and a window overshoot a limit by at most the trade
  that reached it; sizes within budget and evidence; the account is never ruined.

## 2. Modules

| Module | Models | Role |
|---|---|---|
| `SimLoop` | `sim_loop.py`, the order calls of `engine_adapter.py`, the engine (external) | state machine |
| `SimLoopProofs` | | proofs about `SimLoop` |
| `EventFeed` | what the loop needs of a stream | abstract specification |
| `StreamClient`, `StreamClientProofs` | `stream_updates` and the engine's side of it (external) | implements `EventFeed`; proofs of both |
| `TradeWalk` | `engine.py` | state machine |
| `Risk` | `risk/`, the size factors of `regime/policy.py` | operators |
| `WalkForward` (extends `Risk`), `MCWalkForward`, `WalkForwardProofs` | `walk_forward.py` | state machine, its values for TLC, proofs |
| `ContinuousSeries`, `MCContinuousSeries`, `ContinuousSeriesProofs` | `continuous.py`, `contracts.py`, `is_business_day` of `session.py` | state machine, its values for TLC, proofs |
| `Session` | `data/session.py` | the calendar as operators |
| `Validator` (extends `Session`) | `data/validator.py` | operators |
| `Refresh` (extends `Validator`) | `data/refresh.py`, `store.py`, `db_writer.py`, both fetchers, `validate_ohlcv` | state machine |
| `DataJobs` (extends `Refresh`), `MCRefresh`, `RefreshProofs` | `fetch_engine_continuous.py`, `adapters/`, the commands over one store | composition, its values for TLC, proofs of both |
| `Panel` (extends `Session`) | `features/` | state machine |
| `Setups` | `regime/rules.py`, `regime/policy.py`, `bias/htf.py`, `features/align.py`, `signals/` | state machine |
| `SignalInputs` (extends `Setups`, `Panel`), `MCSetups`, `SignalInputsProofs` | `signals/inputs.py` | composition, its values for TLC, proofs of all three |
| `Labels` (extends `TradeWalk`) | `ml/labels.py` | composition of a trade and its label |
| `Training` | `ml/training.py` | state machine |
| `ModelStore`, `MLFilter` | `ml/store.py`; `ml/filter.py`, `ml/features.py` | state machine; operators |
| `Costs` (extends `Session`), `Metrics` | `backtest/costs.py`; `backtest/metrics.py` | operators |
| `Evaluation` (extends the four above) | `run_walk_forward.py`, `walk_forward.py`, `per_strategy.py` | composition |
| `TrainAndEvaluate` (extends `Evaluation`, `Training`), `MCEvaluation` | `src/scripts/ml_filter_demo.py` | composition, its values for TLC |
| `TradeProofs` | | proofs about `TradeWalk`, `Labels`, `Training` and `Evaluation` |
| `Ranks` | lists made of the elements of a set, and of chosen places of a list | operators |
| `SetInduction` | | lemmas: least elements, induction over naturals and parts of a set, sums, folds, `Ranks` |

### SimLoop

asyncio switches coroutines only at an await, so an action is what one coroutine
does between two awaits. `pc` says at which await the driver is: the handshake,
the answer to a POST or GET, or `tracker.done`. `cur` is the instruction it is
at; `effect`, `applied`, `final`, `done` are the fields of the trackers; `pos`
is `_LoopState.position` as a signed number. `net` is the request in flight.
`RequestFails` covers a transport error and a bare 5xx both before and after the
engine handled the request: an answer that is there may be lost, and the same
request is sent again. `ConsumeEvent` is `_apply_event`; it may run whenever the
driver is at an await. `Reconcile` runs on an answer that is as old as the
engine's reply. Prices are left out; an order has one when it has a fill (`Priced`),
which is what the guard on `avg_fill_price` asks.

The engine is external and modelled as the adapter and its tests use it: a POST
of a known `client_order_id` is answered without a second order; an order it has
accepted is not rejected when it is sent again; events are sent in seq order and
may be left out only with a gap advisory (`Gaps`). The SSE reconnect is not
repeated here: `SimLoop` uses the stream as `EventFeed` describes it, and
`StreamClient` shows that the client provides that.

### StreamClient and EventFeed

`log` is what the engine published, TRUE for an event of this strategy. The
client's variables are the locals of `stream_updates` and of the generator it reads
from. A frame comes in two steps: its `event:` and `data:` lines (`ReadLines`, which
`_iter_frames` collects in `frame`) and the blank line that has `_dispatch_frame`
read them (`Frame`, `Gap`, `Reset`, `Invalid`). `Drop` may come between the two. Each
connection starts with a new decoder (`NewDecoder`), as `_iter_frames` is called
again; that is what keeps the first half of a lost frame out of the next one, and
`EndsForCause` and `IsFeed` break when it is not done. A frame is one text or more
joined; only a single one of an event can be read. The engine resumes after
a `Last-Event-ID` and may repeat up to `Overlap` events; without an id it starts
at "now". `IsFeed` is the refinement, with `read` mapped to the larger of the
cursor and the point where the last connection without an id started.

### TradeWalk

One trade. The bars are not chosen in advance: each step meets any bar, which is
all a walk can tell apart that looks at one bar at a time. Prices are whole
ticks, `partial_fraction` is `part / Whole`. The order of the checks on a bar
(stop, target, trailing, time) is that of `_walk_forward`.

### Risk and WalkForward

`Risk` has the risk engine's functions with the code's names. R multiples are
whole numbers of R and money is in units of the contract multiplier; sizes are
rounded down as in the code. `WalkForward` has one action per way a candidate can
go (`Suppress`, `Skip`, `Take`) and `NextWindow`, the next call of
`drive_costed_trades`. The candidates of a window are any list in order of entry.

### ContinuousSeries

One build. Time is in days, a contract expires on the last business day of its
month, and the roll out of a contract is the first day of the window before its
expiry on which the next one trades more, or the expiry itself. The contracts are
walked in order of expiry, each leaving a segment behind and a roll record but the
last. Closes are logarithms, so that a ratio is a difference and applying a factor
an addition; the code's factors are real numbers that only ever multiply. What the
stitching keeps of a day on which several contracts have rows is left open (any
of them), as the sort is by time only and not declared stable. The calendar's
assumption is that the months of two contracts are further apart than a roll
window, as quarter months are.

### Setups

A behaviour labels the days of the daily frame one by one (a day may have no bar),
then follows one hourly row of one active strategy through `classify_frame`,
`apply_regime_gate` and `to_signals`. The frames are computed row by row, so one
row stands for all. The whole daily frame is there when an hour is joined to it,
as in a backtest: only the join keeps the future out. Features are numbers or
NULL; a comparison with NULL makes a gate fail, which is what `fill_null(False)`
does to the code's conjunctions. A model row is what the strategy's columns say,
`joined` and `known` are history for the properties: which day was attached and
whether its volatility, volume and compression were there.

### Session, Validator, Refresh and DataJobs

An instant is a number of UTC minutes, date 0 is a Monday. `Session` has the
calendar's questions as the code asks them, of the date in Bangkok; `TradingDate`
is not in the code and is what the properties compare with: the date a night
began on.

One run of `refresh_all` goes over timeframes and contracts with an action a
step: the request (retried, declined, failed or answered), the Parquet file, the
upsert, the report of the validator, then the continuous series, its upsert, the
reference and the cross-check, and at the end the reports. `Kill` may come at any
step and tear the file that is being written; the next run starts over. A frame is a
set of rows, of which several may have one time (`revision` tells them apart):
`Stored` is any choice among them, as the code's sort is not stable, and file and
table each make their own. A continuous file is represented by the frames it is
built from. `DataJobs` adds the script that pages through the engine's series and
writes two files that a refresh also writes, and the hook. Its walk goes on after a
full page that ends at or past the cursor (`Advances`) and stops after any other. One command runs at a
time, as the store requires (`data/store.py`: not multi-process safe).

### Panel and SignalInputs

`BarCloses` adds a bar to the frame and builds the panel of all of it again. The
columns are those that look along the frame (levels of the day before, opening
range, initial balance, sweeps confirmed by later closes, pivots and the structure
they show, swing levels) and those of the clock. `SignalInputs` follows one row of
the panel into `Setups`: prices, levels and flags come from the panel, what a
trailing window computes is arbitrary. The followed row may be joined at any hour
of the days `Setups` labels, which is more than the code does. `Setups`' own step
`ClassifyBar` meets any row that satisfies `HourlyAssumption`; in the pipeline
`ClassifyRow` takes its place, with rows of the panel, and that those satisfy the
assumption is proved (`PipelineStopsBehind`).

### Labels

The label of a signal meets the same bars as the simulated trade. Both go on until
both are done, each with its own end. `LabelIsTheTrade` is about barriers that are
the trade's own (`SameBarriers`); the run's constants reach both cases, since the
fill bar's ATR is chosen.

### ModelStore, MLFilter, Costs, Metrics and Evaluation

A save is a number that stands for its time and its text. Opening a file to write
empties it, the text comes later, and a load reads times, takes the lock, looks
into the cache and reads one file at a time. The saver may die at any step. Each save
has a time of its own: two saves within one tick of the file system's clock are not
in the model.
`Evaluation` waits for a load, then goes a window at a time through detection,
`filter_signals`, simulation and costs, and reports. With a model loaded, a frame
that lacks a required column (`Bare`) ends the run. The score a model gives a row
is external, any function. Amounts are whole numbers of baht a contract and whole
parts of an R, a figure is a numerator and a denominator.

### Training and TrainAndEvaluate

`walk_forward_train`: any number of rows, labels and times, of which it refuses lists
of different lengths, too few rows and times out of order (`Refuses`); then one fold
a step (`NextFold`), its rows cut as `make_windows` does, and the model of all rows,
which `audit_importance` may refuse (`Ships`). A row is its number.

`TrainAndEvaluate` is what the run checks: a training, then the store and the
evaluation. The two share nothing but files, so the training is left behind when it is
over (`TrainingOver`), and what is saved may be of this training or of others.

## 3. Runs

| Run | Shows | Bounds |
|---|---|---|
| `sim_loop` | outcomes exact and true, ledger, result, termination | 2 orders of 1 or 2 contracts, start in -1..1, 2 attempts, gaps |
| `sim_loop_late_open` (violation) | submitting without a stream loses fills no GET makes up for | 1 order |
| `sim_loop_twice` (violation) | a fill booked by GET is booked again by the stream | 2 orders |
| `stream_client` | refinement of `EventFeed`, ends for the engine's frames only, delivery | 3 events, lines and blank line of each, 2 attempts, 1 repeated event |
| `stream_client_lost` (violation) | a drop before the first event loses events | 3 events |
| `trade_walk` | 1R, kept part, stop; the label tells how the trade came out | prices 1..7, ATR 1 or 2, 3 bars |
| `walk_forward` | day, window, budget, solvency | 2 windows, 4 days, 4 candidates a window |
| `continuous` | order of rolls, nothing after a roll, nothing lost, join | 3 contracts, 3 possible days each for the middle one, 2 closes, 2 volumes |
| `continuous_gap` (violation) | earlier segments miss later ratios | 3 contracts, 1 volume |
| `setups` | a panel's past stands, its clock is the calendar's, look-ahead, policy and gate, warm-up, stop | 5 bars at 8 instants, 3 candles; 2 days of 2 hours and the day after, 12 daily rows or none; 2 gates |
| `refresh` | files, tables, reports and cross-check of a run that is done; missing bars; the script's history; every command ends | 2 commands of 2 contracts and 2 timeframes, 2 runs, 2 attempts, 4 instants, 2 revisions, pages of 2 bars |
| `evaluation` | folds and time, every row tested once; bundles, filter, drawdown, costs | 6 rows, 2 instants, folds from 2 or 3 rows, spans and steps of 1 or 2; 2 targets, 2 loads, 3 saves; 3 signals a window, 4 trades, 5 outcomes |

Two orders are enough for everything that crosses from one order to the next (a
late fill, an effect inferred too early), a quantity of 2 for a partial fill, a
start of one contract either side for a close, a flip and a cut at flat. Two
attempts give one lost answer and one retry. Three bars and a price range of 7
let a trade fill, bank its part, trail and end in each of the five ways, and touch
both barriers of a label on one bar. Four candidates a window reach every limit
(-3R a day, 2 losses in a row, 3 trades, -4R a window) and go on after it.

Three contracts are the fewest with two rolls, so that a segment can miss a later
ratio and a roll can come before the one before it. The first contract's month ends
on a holiday, and the days on which there may be bars lie before, in and at the end
of the windows. Two days and an hour range that goes one day further give a row
with no day, one day and a choice of two to join; the daily rows contain both
trends, the same with a panic, a missing value or a value inside a deadband, and a
quiet range; `NeutralRegimes` is empty, the weakest veto the configuration allows.
The thresholds let strategy A fire: with the defaults (at most 0.5 and at least 1.0
for the same column) no row can.

The panel's bars are of a Friday, its night and half past midnight on the Saturday,
and of the Tuesday after a holiday: opening range, lunch, the last quarter of an
hour, a day before that is not the date before. `MinBars` (3) stands for the
longest lookback, lookbacks are 1 or 2 bars, so that 5 bars complete a sweep, a
pivot and two pivots of one kind.

The refresh's instants are a Friday's late evening in Bangkok, two of the hours
after midnight, when it is Saturday, and the Monday morning. One contract may
answer with a bar of two revisions, one with nothing; one command's window ends
before the Monday; the engine declines one timeframe. Two runs let one
command repair what another has left half done. The three saves of `evaluation`
contain one by code with other columns, its trades a win, a win its costs eat, a
loss at night, one over an expiry that a holiday moves, and one at lunch.

The six rows of a training give up to four folds, a last one that is cut, rows between folds that none
tests (a step longer than a test) and folds that overlap; two instants give rows of one bar
on both sides of a boundary. Three events are one to begin with, one that a drop
cuts and one after it, so that the lines of two frames could meet.

Deadlock is not checked: a loop, a stream, a trade, a backtest, a build, a bounded
frame and a bounded number of commands end, and so does a row.

### Fairness

`SimLoop!FairSpec`: a coroutine that can go on does (the event loop is fair),
both timeouts expire (`asyncio.wait_for`), and a request ends one way or another
(httpx has a timeout). Nothing is assumed of the stream or of the engine's
fills. `StreamClient!FairSpec`: the client reconnects, and a
connection that comes back again and again gets past every frame of the log at
some time: strong fairness, for each position, of its lines and of the blank line
that ends it. A connection that always breaks at the same frame delivers nothing
beyond it, whatever the client does.

`DataJobs!JobsSpec`: the process that runs takes its next step (one weak fairness
for a refresh, one for the script, one for the hook). Every request has a timeout
and every retry a limit, so a command ends however often it fails; nothing is
assumed of the operator, who need not start anything, or of the engine's history.

## 4. Proofs

`tlapm` checks these for every value of the constants allowed by the ASSUMEs. Every
safety invariant, action property and refinement that a run checks is proved.

* `SimLoopProofs`. `TypeCorrect` needs `Cursor`, which ties the driver's place
  to `cur` and the number of outcomes. `LedgerCorrect` and
  `NoDoubleFillInFlight` rest on `LInv`: the order in flight is booked for at
  most what the engine filled; each event not read yet starts (`before`) where
  what has been booked of its order may already be, so a GET and the stream
  cannot both book a fill while the order is in flight; and what the order may
  still fill fits in the room its effect leaves. `TypeOK` is not enough: it does
  not relate the log, the snapshot in flight and the booked quantity.
  `OutcomesExact` and `OutcomesTrue` need an account of events: those of an order
  follow one another without a gap in what they count, its end last, so what the
  consumer has applied and missed of the order in flight is where its next event
  starts; an answer or event that says an end says the engine's last word.
  `BooksMatch` adds that what is booked is the sum of what was applied of every
  order, a fold over the orders.
* `StreamClientProofs`. `StreamIsFeed` maps every step of the client to a step of
  `EventFeed` or to none: a connection without an id moves the starting point, a new
  frame is a delivery, every way out is the feed's end, and drops, repeats and
  resumptions are hidden, as are lines that do not end a frame. The invariant says
  what the decoder holds: nothing between frames, and inside one the lines of that one
  frame (`Decoder`), from which follows that a text read at a blank line is the one that
  was sent, and `StreamEndsForCause`. It also says where an open connection is: it
  repeats nothing from before its base and leaves none of this strategy's events
  between what the reader has and what is sent next. `YieldedInOrder` is then
  proved of the feed alone and inherited.
* `TradeProofs`, the trade. `IInv` says where the stop is: at the initial stop before
  the part is banked, at breakeven or better after; from it follow
  `StopOnlyTightens`, `OneRAtMost` and `BankedStaysBanked`. `LabelTellsTheTrade`:
  while trade and label are both open on the same barriers they stand at the same
  bar, so the same touch ends both.
* `TradeProofs`, the evaluation. `LoadsAreSound` rests on `StoreInv`: no card is newer
  than its model, and until its card is opened a model is from the last save; a
  cached key is from before its bundle was read and that from before now, so a key
  that equals the files' times now has a bundle that equals the files. `FilterIsExact`
  adds that the loaded bundle has both halves of a target or neither; the buckets
  of the filter are then disjoint, and the rank of a position in its bucket leads
  back to it. `CostsFlatterNothing` and `DrawdownIsOfTheCurve` rest on `Books`: the
  trades before and after costs grow together, one and the same trade after costs.
  What a report says of them is a fact about folds, proved by going along the list:
  after any number of trades the drop below the peak is no smaller with costs than
  without, and the fold's peak, depth, first trough and trades under water are the
  curve's so far.
* `TradeProofs`, training. `TrainsOnThePast` and `EachRowTestedOnce` rest on where the
  folds are (`FoldsSoFar`): a step apart, the next one a step after the last, none
  beyond the rows, and no row left out between them when steps are no longer than
  tests. Neighbours in order make a list in order by induction (`NeighboursInOrder`).
* `WalkForwardProofs`. `IInv` relates the session in hand to the day's tally,
  which the code does not keep per session: while the day is the current one the
  tally is the session's record, and days ahead of the clock are untraded.
  `DaysAreLimited`, `WindowsAreLimited`, `NeverRuined`. `EntriesWithinBudget` needs
  that every rung of the sizing ladder that is passed is one its evidence reaches,
  and the cap of the regime's policy on what it allows.
* `ContinuousSeriesProofs`. `IInv` says that what has been built is what the
  frames determine: the pairs that were walked have their roll day, factor and
  segment, and the contract in hand is the next one. `RollInWindow` bounds each
  roll by its contract's expiry, and the assumption on the months then gives
  `RollsInOrder`; `NoRowAfterRoll`, `RollJoins` and `NoDayLost` read off a segment.
* `SignalInputsProofs`, the setups. `IInv` has two parts the properties do not have.
  The labels of a day agree: a long bias is only found where `trend_up` or an earlier
  rule applies (this needs deadbands of at least 0), and a day in warm-up is
  `range_low_vol`. And a row with a signal carries, from the moment it is
  classified, its trend's regime, both prices and the order between them. From it
  `SetupsPermitted`, `WarmUpIsQuiet`, `StopsBehind`; `NeverLooksAhead` rests on
  `JoinedDay`, what the as-of join returns. Assumed of the rows: the two levels
  are both there with the low one below, or neither.
* `SignalInputsProofs`, the panel. The inductive invariant is that the panel is built
  from a frame whose times increase. A bar that is later than all others can then
  neither join an earlier trading day nor change an extreme, a level or a pivot of
  rows before it; each column has a lemma that says so, for every lookback and window.
  `ClocksAgree` is a case distinction over the clock's boundaries.
* `SignalInputsProofs`, the pipeline (`PipelineNeverLooksAhead`, `PipelinePermitted`,
  `PipelineStopsBehind`, `PipelineFrame`): the same of `SignalSpec`, which is what the
  run checks. Here the levels are not assumed: an opening range, a balance and a
  swing are the lowest low and the highest high of the same bars.
* `RefreshProofs`. All its theorems are of `JobsSpec`, where the script and the hook
  write too: on the variables of a refresh each step of a job is a step of the refresh
  or one that leaves its invariants alone (`JobsKeepTheStore`). `TypeCorrect` is
  inductive with the places of the loops. `StoresWhatItFetched` rests on an invariant
  (`InStep`) that says how far this run has come: what is in `fetched` is in its file
  and its table, but for the contract whose bars are just being stored, and the series
  of the timeframe at hand until both its writes are over. What earlier runs left does
  not matter, since a run's own table starts empty. `ChecksItsOwn` needs that the last
  report is of the timeframe at hand once anything of it was fetched, which is what
  `build` is entered with. `ReportsTellFiles` adds to `InStep` that the last report of
  each frame tells its file, but for the file just written; missing bars are counted
  from a frame's times, which its file keeps all of (`CountByTimes`, `FileKeepsTimes`).
  `TakesTheWindow` follows every frame from the clip on. `TradingDaysAreUtcDates`: seven
  hours of difference and a night that ends at three put all instants of a trading day
  on one UTC date; with it `MissingIsCounted` sums, date by date, the slots of a trading
  day that its bars leave out. `SeriesIsWhole`: a page has the oldest bars from the
  cursor on, and all of them if it is not full, so what the script has is in order,
  all of the history up to its cursor, and what is left when a short page comes is
  nothing.

The type invariants of `SimLoop` and `Refresh` are proved and in a run, the others
(`StreamClient`, `TradeWalk`, `WalkForward`, `Setups`, `ContinuousSeries`) are proved.
The theorems about `Training`, the store and the evaluation are of `RunSpec`, which is
what the run checks; a run is an evaluation with a training before it (`RunEvaluates`).

### What is assumed

Each ASSUME is evaluated by the run that extends its module.

* `UndefinedIsNone`: None is neither a number nor a quotient.
* `EvaluationAssumption`: amounts are whole numbers, an ATR is not negative, a risk is
  positive and divides one R (the unit is chosen so).
* `TrainingAssumption`: instants are integers, and a fold trains on two rows at least,
  tests and steps at least one, as `WalkForwardConfig` validates.
* `FilterAssumption`: the two targets have the code's names, a score and a threshold
  are numbers that compare, an aligned frame is a list.
* `HistoryAssumption`: the engine's series is finite, has no bar before the script's
  first cursor, and grows.
* `TradedHours`: no bar starts where a bar's date and the trading day's differ with the
  market closed, 03:00 to 07:00 in Bangkok.
* `OneNull`: a column of the panel without a value is a column of the row without one.
* The rest bound constants (naturals, positive multiples) or order them as the
  configuration's validators do.

### What the proofs rest on

The library's induction rules take an operator, which no installed prover can
instantiate, so `SetInduction` states induction with the set of what is proved (`CountUp`,
`UpTo`, `PartsUp`). From it come `FoldExists` and `FoldRuns`: the function that a fold
over positions chooses exists, and goes along the list one element at a time. A sum
over a function's domain has `SumParts` and `SumGrows`, a list made of a set `Listed`.
`Ranks` says of a list what the provers can expand, each element at its rank, where
`SelectSeq` and `SetToSortSeq` are recursive.

Only model-checked: liveness (`LoopEnds`, `Delivered`, `CommandsEnd`), which the
prover cannot do, since it has no rule for fairness and ENABLED.

## 5. Findings

The four violation runs; `PROJECT.json` quotes the lines.

## 6. Seen, not run

What reading the code showed and no run asks about. Docstrings and the README say
one thing and the code another in these places:

* `src/README.md:388` forbids averaging down and `src/README.md:580` trading in the
  midday break; `assert_no_average_down` and `is_no_trade` have no caller.
* `run_walk_forward` takes `refit_ml` and never reads it; the filter's factory
  loads the same models for every window, whatever its training span.
* `ml/models.py:98`: the card's threshold "cannot drift", but the filter takes its
  threshold from the configuration, and card and model are two writes.
* `ml/training.py:4` promises that every train fold strictly precedes its test fold "so no
  future information leaks". Rows of one bar may be on both sides of a boundary, since
  only a later time before an earlier one is refused (line 194), and the labels of the
  last rows before it were decided by bars after it, up to 25 with the default horizon
  (`ml/labels.py:91`); no test looks at times across folds. `FoldsInTime` is what
  does hold.
* A run's daily returns are its windows' daily returns one after another
  (`walk_forward.py:394`): a day that two windows share counts as two periods of the
  Sharpe and Sortino ratios.
* Two saves of one model within a tick of the file system's clock have one time, and a
  cached bundle would answer for both (`ml/store.py:111`).
* `ml/models.py:80` mirrors the engine's risk geometry, but its defaults (1 ATR,
  24 bars) are not the engine's (2 ATR, 8 bars), and a signal the engine rejects
  for a wide fill bar is labelled. `LabelIsTheTrade` is about equal barriers.
* The "single aggregate report" (`data/refresh.py`) is written once a report under
  one name a day: the last one stays.
* `generate_windows` leaves the last bar out of the last window; test windows may
  overlap (`walk_forward.py:97`), and a trade then counts in each.
* A trade is registered with its final R at its entry (`walk_forward.py:202`):
  limits act on results that are not known yet.
* A session of the risk engine is a date in Bangkok, so a night is two sessions.
* `session_of` calls the hours after midnight on a Saturday or a holiday closed, so
  `is_illiquid_session` (`costs.py:94`) takes them for liquid, while
  `session_date` counts them to the night before.
* `crosses_quarterly_expiry` takes an entry on the expiry's own date as after it.
* `time_of_day_bucket` starts lunch at 12:30, its docstring at 12:00.
* Opening-range levels are NULL after midnight of the same trading day: the minute
  of the day is then small again.
* Of two equal highs in a window both confirm a pivot, and the structure turns to
  LH (`indicators.py:168`).
* A day that begins without volume has a NaN for its VWAP distance. Frame
  expressions compare NaN as larger than any number, the row form as neither
  (`bias/htf.py:185` calls them the same).
* The ratio of a roll takes each contract's last close (`continuous.py:303`), of
  different days if one did not trade.
* `continuous/1h.parquet` is written by a refresh (built here) and by
  `fetch_engine_continuous` (the engine's series): the last one stays.
* With the engine as source the default timeframes abort at the first it declines.

## 7. Not modelled

* Arithmetic over one column and a trailing window (averages, percentiles, VWAP,
  compression): it sees no later row by form, and what it computes is numbers no
  property tells apart. `Setups` takes any value and NULL; NaN is not a value of
  the models.
* The row forms of the classifiers and strategies, which repeat the frame's
  definitions for one row.
* Boosters, their scores and the out-of-sample figures: a library's arithmetic.
  `Training` has the folds and what is refused.
* The Sharpe and Sortino ratios and the regime concentration: real arithmetic on a
  finished list, of which no property could say more than the formula.
* Comment lines of a stream, and what the text of an event holds besides its number.
* The feature store, `data_source.py`, schemas, parsing, logging, notebooks: files
  and formats without control of their own.
* Settings are constants of the models; the API is a stub.
* `assert_no_average_down`, `assert_stop_not_widened`, `is_no_trade`: no caller.
