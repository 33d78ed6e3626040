------------------------------ MODULE SimLoop ------------------------------
(***************************************************************************)
(* The simulated trade loop of execution/sim_loop.py: a driver coroutine   *)
(* that sends one order at a time and waits for its end, a consumer        *)
(* coroutine that applies the stream's events to the same trackers and the *)
(* same position, and (external) the execution engine behind the gateway.  *)
(*                                                                         *)
(* An action of the driver or of the consumer is what the coroutine does   *)
(* between two awaits: asyncio runs nothing else meanwhile.  Orders are    *)
(* numbered by the instruction they come from; the uuid4 of the code is    *)
(* that number.  A position is a signed count of contracts (long positive, *)
(* short negative, 0 for None); prices are left out.                       *)
(***************************************************************************)
EXTENDS Integers, Sequences, Functions

CONSTANTS
  N,            \* number of instructions of the run
  MaxQty,       \* bound: contracts of one instruction
  MaxStart,     \* bound: contracts held when the run starts, either side
  MaxAttempts,  \* POST/GET attempts of ExecutionEngineAdapter
  Gaps          \* may the engine announce a gap (events it will never send)?

ASSUME LoopAssumption ==
  /\ N \in Nat /\ MaxQty \in Nat /\ MaxStart \in Nat
  /\ MaxAttempts \in Nat \ {0}
  /\ Gaps \in BOOLEAN

Orders == 1..N
Direction == {"long", "short"}
Effect == {"OPEN", "CLOSE"}
\* EXPIRED and a REJECTED reported by event are treated by the loop exactly as
\* CANCELLED is, so one value stands for the three.
Ended == {"FILLED", "CANCELLED"}
EngineState == {"absent", "working"} \cup Ended
FinalState == {"None", "REJECTED"} \cup Ended

Outcome == [final : FinalState, filled : Nat]
Event == [o : Orders, qty : Nat, before : Nat, end : {"no"} \cup Ended]

VARIABLES
  instr,     \* the instructions: direction and contracts, fixed during a run
  start,     \* the position the run starts from
  pc,        \* where the driver is
  cur,       \* the instruction the driver is at
  tries,     \* attempts spent on the request in flight
  net,       \* the request in flight: not answered yet, or its answer
  consumer,  \* the stream task: connecting, open or stopped
  degraded,  \* _LoopState.degraded
  pos,       \* _LoopState.position
  effect, applied, final, done,   \* the fields of each _OrderTracker
  outcomes,  \* _LoopState.outcomes; the i-th belongs to order i
  state,     \* engine: state of each order
  filled,    \* engine: contracts filled of each order
  log,       \* engine: the events of the stream, in seq order
  read,      \* how many events of log are behind the consumer
  missed,    \* history: contracts in events the stream never delivered
  late,      \* history: was a fill applied to an order already recorded?
  booked     \* history: start plus every applied fill, with its order's sign

driver == <<pc, cur, tries, net>>
trackers == <<effect, applied, final, done>>
engine == <<state, filled, log>>
history == <<missed, late, booked>>
vars == <<instr, start, driver, consumer, degraded, pos, trackers, outcomes,
          engine, read, history>>

Answer(k, s, f) == [kind |-> k, state |-> s, filled |-> f]
Waiting == Answer("waiting", "absent", 0)     \* sent, not answered yet
Ack == Answer("ack", "absent", 0)             \* 200 or 201
Envelope == Answer("envelope", "absent", 0)   \* a typed rejection
Snapshot(s, f) == Answer("order", s, f)       \* the order a GET returns

DriverType ==
  /\ pc \in {"connecting", "post", "waiting", "get", "finished", "aborted"}
  /\ cur \in 0..(N + 1)
  /\ tries \in 0..MaxAttempts
  /\ net \in [kind : {"waiting", "ack", "envelope", "order"},
              state : EngineState, filled : Nat]
  /\ outcomes \in Seq(Outcome)

TrackerType ==
  /\ effect \in [Orders -> Effect]
  /\ applied \in [Orders -> Nat]
  /\ final \in [Orders -> FinalState]
  /\ done \in [Orders -> BOOLEAN]

EngineType ==
  /\ state \in [Orders -> EngineState]
  /\ filled \in [Orders -> Nat]
  /\ log \in Seq(Event)
  /\ read \in 0..Len(log)

BookType ==
  /\ instr \in [Orders -> [dir : Direction, qty : 1..MaxQty]]
  /\ start \in (-MaxStart)..MaxStart
  /\ consumer \in {"connecting", "open", "stopped"}
  /\ degraded \in BOOLEAN
  /\ pos \in Int /\ booked \in Int
  /\ missed \in [Orders -> Nat]
  /\ late \in BOOLEAN

TypeOK == DriverType /\ TrackerType /\ EngineType /\ BookType

----------------------------------------------------------------------------
(* Position arithmetic. *)

Signed(d, q) == IF d = "long" THEN q ELSE -q
Side(p) == IF p > 0 THEN "long" ELSE "short"
Held(p) == IF p < 0 THEN -p ELSE p

\* An order against the held side for more than is held.
FlipsNever(p, i) == FALSE
Flips(p, i) == p # 0 /\ i.dir # Side(p) /\ i.qty > Held(p)
InferEffect(p, i) == IF p = 0 \/ i.dir = Side(p) THEN "OPEN" ELSE "CLOSE"

\* OPEN adds to the side held, whatever the order's own side is; CLOSE stops
\* at flat.
ApplyFill(p, d, e, q) ==
  IF e = "OPEN"
  THEN p + Signed(IF p = 0 THEN d ELSE Side(p), q)
  ELSE IF Held(p) <= q THEN 0 ELSE p - Signed(Side(p), q)

----------------------------------------------------------------------------
(* The driver.  It is parked at an await in every state but the last two:  *)
(*   connecting  for the handshake, at most stream_connect_timeout_seconds *)
(*   post, get   for the answer to a request                               *)
(*   waiting     for tracker.done, at most order_timeout_seconds           *)

Init ==
  /\ instr \in [Orders -> [dir : Direction, qty : 1..MaxQty]]
  /\ start \in (-MaxStart)..MaxStart
  /\ pc = "connecting" /\ cur = 0 /\ tries = 0 /\ net = Waiting
  /\ consumer = "connecting" /\ degraded = FALSE
  /\ pos = start
  /\ effect = [o \in Orders |-> "OPEN"]
  /\ applied = [o \in Orders |-> 0]
  /\ final = [o \in Orders |-> "None"]
  /\ done = [o \in Orders |-> FALSE]
  /\ outcomes = <<>>
  /\ state = [o \in Orders |-> "absent"]
  /\ filled = [o \in Orders |-> 0]
  /\ log = <<>> /\ read = 0
  /\ missed = [o \in Orders |-> 0] /\ late = FALSE /\ booked = start

Running == pc \notin {"finished", "aborted"}

\* An exception leaves a task: the TaskGroup cancels the other one.
Abort == pc' = "aborted" /\ consumer' = "stopped" /\ UNCHANGED <<tries, net>>

Send(i) == pc' = i /\ net' = Waiting /\ tries' = 1

\* The loop takes instruction i with the position at p: it infers the effect,
\* registers a tracker and sends the POST without an await in between.
Begin(i, p) ==
  /\ cur' = i
  /\ \/ /\ i > N
        /\ pc' = "finished" /\ consumer' = "stopped"
        /\ UNCHANGED <<tries, net, effect>>
     \/ /\ i <= N /\ Flips(p, instr[i])
        /\ Abort
        /\ UNCHANGED effect
     \/ /\ i <= N /\ ~Flips(p, instr[i])
        /\ effect' = [effect EXCEPT ![i] = InferEffect(p, instr[i])]
        /\ Send("post")
        /\ UNCHANGED consumer

\* Connected, or not within the timeout: the loop submits in both cases.
HandshakeEnds ==
  /\ pc = "connecting"
  /\ Begin(1, pos)
  /\ UNCHANGED <<instr, start, degraded, pos, applied, final, done, outcomes,
                 engine, read, history>>

\* A tracker's outcome is recorded and, with no await, the next order begins.
Record(f, a, p) ==
  /\ outcomes' = Append(outcomes, [final |-> f, filled |-> a])
  /\ Begin(cur + 1, p)

RecordDone ==
  /\ Record(final[cur], applied[cur], pos)
  /\ UNCHANGED <<instr, start, degraded, pos, applied, final, done, engine,
                 read, history>>

\* submit_order returns and _await_terminal looks at done, then at degraded.
SubmitAcked ==
  /\ pc = "post" /\ net = Ack
  /\ \/ done[cur] /\ RecordDone
     \/ /\ ~done[cur]
        /\ IF degraded THEN Send("get")
                       ELSE pc' = "waiting" /\ UNCHANGED <<tries, net>>
        /\ UNCHANGED <<instr, start, cur, consumer, degraded, pos, trackers,
                       outcomes, engine, read, history>>

SubmitRejected ==
  /\ pc = "post" /\ net = Envelope
  /\ final' = [final EXCEPT ![cur] = "REJECTED"]
  /\ done' = [done EXCEPT ![cur] = TRUE]
  /\ Record("REJECTED", applied[cur], pos)
  /\ UNCHANGED <<instr, start, degraded, pos, applied, engine, read, history>>

WakeDone == pc = "waiting" /\ done[cur] /\ RecordDone

\* The timeout may also win against a done that is already set.
TimeoutIfDegraded ==
  /\ pc = "waiting" /\ degraded
  /\ Send("get")
  /\ UNCHANGED <<instr, start, cur, consumer, degraded, pos, trackers,
                 outcomes, engine, read, history>>

OrderTimeout ==
  /\ pc = "waiting"
  /\ Send("get")
  /\ UNCHANGED <<instr, start, cur, consumer, degraded, pos, trackers,
                 outcomes, engine, read, history>>

\* What the GET adds to the fills already applied.
GainUnreduced(f, a) == f
Gain(f, a) == IF f > a THEN f - a ELSE 0

\* Only a fill with an avg_fill_price is booked; the engine states one as soon
\* as it has filled anything.
Priced(order) == order.filled > 0
Residual(order, a) == IF Priced(order) THEN Gain(order.filled, a) ELSE 0

\* _reconcile_via_get on the answer, which is as old as the engine's reply:
\* the consumer may have applied events since.
Reconcile ==
  /\ pc = "get" /\ net.kind = "order"
  /\ IF net.state \in Ended
     THEN LET gain == Residual(net, applied[cur])
              p == IF gain > 0
                   THEN ApplyFill(pos, instr[cur].dir, effect[cur], gain)
                   ELSE pos
          IN /\ pos' = p
             /\ applied' = [applied EXCEPT ![cur] = @ + gain]
             /\ booked' = booked + Signed(instr[cur].dir, gain)
             /\ final' = [final EXCEPT ![cur] = net.state]
             /\ done' = [done EXCEPT ![cur] = TRUE]
             /\ Record(net.state, applied[cur] + gain, p)
     ELSE /\ final' = [final EXCEPT ![cur] = "None"]
          /\ Record("None", applied[cur], pos)
          /\ UNCHANGED <<pos, applied, done, booked>>
  /\ UNCHANGED <<instr, start, degraded, engine, read, missed, late>>

\* A transport error or a bare 5xx, before or after the engine handled the
\* request: the same request again, until the attempts are spent.
AttemptsOffByOne(n) == n <= MaxAttempts
AttemptsLeft(n) == n < MaxAttempts

ExhaustedIsReject ==
  /\ pc = "post" /\ ~AttemptsLeft(tries)
  /\ final' = [final EXCEPT ![cur] = "REJECTED"]
  /\ Record("REJECTED", applied[cur], pos)
  /\ UNCHANGED <<instr, start, degraded, pos, applied, done, engine, read,
                 history>>

Exhausted ==
  /\ pc \in {"post", "get"} /\ ~AttemptsLeft(tries)
  /\ Abort
  /\ UNCHANGED <<instr, start, cur, degraded, pos, trackers, outcomes, engine,
                 read, history>>

RequestFails ==
  \/ /\ pc \in {"post", "get"} /\ AttemptsLeft(tries)
     /\ tries' = tries + 1 /\ net' = Waiting
     /\ UNCHANGED <<instr, start, pc, cur, consumer, degraded, pos, trackers,
                    outcomes, engine, read, history>>
  \/ Exhausted

\* An unparseable 4xx, or a typed envelope that answers a GET.
RequestRefused ==
  /\ pc \in {"post", "get"} /\ net = Waiting
  /\ Abort
  /\ UNCHANGED <<instr, start, cur, degraded, pos, trackers, outcomes, engine,
                 read, history>>

Driver == \/ HandshakeEnds \/ SubmitAcked \/ SubmitRejected \/ WakeDone
          \/ OrderTimeout \/ Reconcile

----------------------------------------------------------------------------
(* The consumer: _consume_stream over stream_updates.                      *)

Next1 == log[read + 1]

\* Without a last_event_id the engine sends what happens after the open.
StreamOpens ==
  /\ Running /\ consumer = "connecting"
  /\ consumer' = "open"
  /\ read' = Len(log)
  /\ missed' = [o \in Orders |-> filled[o]]
  /\ UNCHANGED <<instr, start, driver, degraded, pos, trackers, outcomes,
                 engine, late, booked>>

\* A fill moves the position and the tracker, also when the order has been
\* recorded; an end sets final and done.
ConsumeEvent ==
  /\ Running /\ consumer = "open" /\ read < Len(log)
  /\ LET e == Next1
         d == instr[e.o].dir
     IN /\ IF e.qty > 0
           THEN /\ pos' = ApplyFill(pos, d, effect[e.o], e.qty)
                /\ applied' = [applied EXCEPT ![e.o] = @ + e.qty]
                /\ booked' = booked + Signed(d, e.qty)
                /\ late' = (late \/ e.o < cur)
           ELSE UNCHANGED <<pos, applied, booked, late>>
        /\ IF e.end # "no"
           THEN /\ final' = [final EXCEPT ![e.o] = e.end]
                /\ done' = [done EXCEPT ![e.o] = TRUE]
           ELSE UNCHANGED <<final, done>>
  /\ read' = read + 1
  /\ UNCHANGED <<instr, start, driver, consumer, degraded, effect, outcomes,
                 engine, missed>>

\* A gap advisory: the engine dropped the event, the client logs and goes on.
EventDropped ==
  /\ Gaps /\ Running /\ consumer = "open" /\ read < Len(log)
  /\ missed' = [missed EXCEPT ![Next1.o] = @ + Next1.qty]
  /\ read' = read + 1
  /\ UNCHANGED <<instr, start, driver, consumer, degraded, pos, trackers,
                 outcomes, engine, late, booked>>

\* resync_required: degraded is set and the task returns.
StreamReset ==
  /\ Running /\ consumer = "open"
  /\ consumer' = "stopped" /\ degraded' = TRUE
  /\ UNCHANGED <<instr, start, driver, pos, trackers, outcomes, engine, read,
                 history>>

\* StreamError or a typed envelope at open: the exception leaves the task.
StreamFails ==
  /\ Running /\ consumer # "stopped"
  /\ Abort
  /\ UNCHANGED <<instr, start, cur, degraded, pos, trackers, outcomes, engine,
                 read, history>>

----------------------------------------------------------------------------
(* The engine (external), as the adapter and its tests use it: a POST of a *)
(* known client_order_id is answered without a second order.               *)

EngineAccepts ==
  /\ Running /\ pc = "post" /\ net = Waiting
  /\ net' = Ack
  /\ state' = [state EXCEPT ![cur] = IF @ = "absent" THEN "working" ELSE @]
  /\ UNCHANGED <<instr, start, pc, cur, tries, consumer, degraded, pos,
                 trackers, outcomes, filled, log, read, history>>

EngineRejects ==
  /\ Running /\ pc = "post" /\ net = Waiting /\ state[cur] = "absent"
  /\ net' = Envelope
  /\ UNCHANGED <<instr, start, pc, cur, tries, consumer, degraded, pos,
                 trackers, outcomes, engine, read, history>>

EngineAnswersGet ==
  /\ Running /\ pc = "get" /\ net = Waiting
  /\ net' = Snapshot(state[cur], filled[cur])
  /\ UNCHANGED <<instr, start, pc, cur, tries, consumer, degraded, pos,
                 trackers, outcomes, engine, read, history>>

\* "before" is a history field of the event, unknown to the loop.
Emit(o, q, end) ==
  log' = Append(log, [o |-> o, qty |-> q, before |-> filled[o], end |-> end])

EngineFills(o, q) ==
  /\ Running /\ state[o] = "working" /\ filled[o] + q <= instr[o].qty
  /\ LET end == IF filled[o] + q = instr[o].qty THEN "FILLED" ELSE "no"
     IN /\ filled' = [filled EXCEPT ![o] = @ + q]
        /\ state' = [state EXCEPT ![o] = IF end = "no" THEN @ ELSE end]
        /\ Emit(o, q, end)
  /\ UNCHANGED <<instr, start, driver, consumer, degraded, pos, trackers,
                 outcomes, read, history>>

EngineEnds(o) ==
  /\ Running /\ state[o] = "working"
  /\ state' = [state EXCEPT ![o] = "CANCELLED"]
  /\ Emit(o, 0, "CANCELLED")
  /\ UNCHANGED <<instr, start, driver, consumer, degraded, pos, trackers,
                 outcomes, filled, read, history>>

Engine == EngineAccepts \/ EngineRejects \/ EngineAnswersGet

Next ==
  \/ HandshakeEnds \/ SubmitAcked \/ SubmitRejected \/ WakeDone
  \/ OrderTimeout \/ Reconcile \/ RequestFails \/ RequestRefused
  \/ StreamOpens \/ ConsumeEvent \/ EventDropped \/ StreamReset \/ StreamFails
  \/ EngineAccepts \/ EngineRejects \/ EngineAnswersGet
  \/ \E o \in Orders : \E q \in 1..MaxQty : EngineFills(o, q)
  \/ \E o \in Orders : EngineEnds(o)

Spec == Init /\ [][Next]_vars

\* A coroutine that can go on does, both timeouts expire, and the HTTP client
\* gives up on a request that is not answered: a request ends one way or the
\* other.  Nothing is assumed of the stream or of the engine's fills.
FairSpec ==
  /\ Spec
  /\ WF_vars(Driver)
  /\ WF_vars(RequestFails \/ RequestRefused \/ Engine)

----------------------------------------------------------------------------
(* What the loop promises. *)

Inflight == pc \in {"post", "waiting", "get"}

\* An outcome with an end never reports more than the engine filled, and less
\* only by fills the stream never delivered: whatever way the POST, the events,
\* the timeout and the GET are interleaved, _build_outcome counts a fill once.
OutcomeExact ==
  \A o \in 1..Len(outcomes) : outcomes[o].final \in Ended =>
     /\ outcomes[o].filled <= filled[o]
     /\ filled[o] - outcomes[o].filled <= missed[o]

\* What an outcome says of the order's end is what the engine holds: a
\* rejected order was never accepted by a retried POST, an end is the engine's
\* own, and so an order still working behind the loop shows as a timeout (None).
OutcomeTrue ==
  \A o \in 1..Len(outcomes) :
     /\ outcomes[o].final \in Ended => state[o] = outcomes[o].final
     /\ outcomes[o].final = "REJECTED" => state[o] = "absent"
     /\ state[o] = "working" => outcomes[o].final = "None"

\* As long as no fill arrives after its order was recorded, the position that
\* _apply_fill rolls forward (adding to the side held, stopping at flat) is the
\* starting position plus every applied fill with the sign of its order: no
\* fill is added to the wrong side and no close is cut off at flat.
Ledger == ~late => pos = booked

\* The run's result is right when everything was heard of: if run_sim_loop
\* returns, no event was lost, no fill came after its order was recorded and
\* every order was recorded with an end, then SimLoopResult.position is the
\* starting position plus what the engine filled.
BooksMatchEngine ==
  /\ pc = "finished" /\ ~late
  /\ \A o \in Orders : missed[o] = 0 /\ outcomes[o].final # "None"
  => pos = start + FoldFunction(+, 0, [o \in Orders |->
                                        Signed(instr[o].dir, filled[o])])

\* run_sim_loop returns or raises, whatever the stream and the engine do.
LoopEnds == <>~Running

\* _reconcile_via_get: "apply the residual (filled_qty - applied_qty)"; the
\* single-source rule of the module's header: no order is booked for more
\* contracts than it has.
FilledOnce == \A o \in Orders : applied[o] <= instr[o].qty

\* run_sim_loop's warning: without a connected stream the "GET-residual
\* reconcile still guarantees correctness".
ReconcileGuarantees ==
  \A o \in 1..Len(outcomes) :
     outcomes[o].final \in Ended => outcomes[o].filled = filled[o]
=============================================================================
