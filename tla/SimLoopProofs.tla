--------------------------- MODULE SimLoopProofs ---------------------------
(***************************************************************************)
(* Proofs about SimLoop for any number of instructions, any contract       *)
(* counts and any number of attempts.                                      *)
(***************************************************************************)
EXTENDS SimLoop, SetInduction, SequenceTheorems, TLAPS

\* Where the driver is fixes which order it is at, and every order before that
\* one, and no other, has an outcome.
Cursor ==
  /\ pc = "connecting" => cur = 0
  /\ Inflight => cur \in Orders
  /\ cur > 0 => Len(outcomes) = cur - 1
  /\ cur = 0 => Len(outcomes) = 0

TInv == TypeOK /\ Cursor

\* The initial states have their types, with the driver at no order.
LEMMA TypeInit == Init => TInv
<1> SUFFICES ASSUME Init PROVE TInv
  OBVIOUS
<1> USE LoopAssumption DEF Init
<1>1. DriverType
  <2>1. Len(outcomes) = 0 /\ outcomes \in Seq(Outcome)
    OBVIOUS
  <2>2. QED
    BY <2>1 DEF DriverType, Waiting, Answer, EngineState
<1>2. TrackerType
  BY DEF TrackerType, Effect, FinalState
<1>3. EngineType
  <2>1. Len(log) = 0 /\ log \in Seq(Event)
    OBVIOUS
  <2>2. QED
    BY <2>1 DEF EngineType, EngineState
<1>4. BookType
  <2>1. missed \in [Orders -> Nat] /\ start \in Int
    OBVIOUS
  <2>2. QED
    BY <2>1 DEF BookType
<1>5. Cursor
  BY DEF Cursor, Inflight
<1>6. QED
  BY <1>1, <1>2, <1>3, <1>4, <1>5 DEF TInv, TypeOK

\* The event the consumer is about to handle is a well-formed event.
LEMMA NextEvent ==
  ASSUME EngineType, read < Len(log)
  PROVE  /\ Next1 \in Event
         /\ Next1.o \in Orders /\ Next1.qty \in Nat /\ Next1.before \in Nat
         /\ Next1.end \in {"no"} \cup Ended
         /\ read + 1 \in 1..Len(log)
<1>1. log \in Seq(Event) /\ Len(log) \in Nat /\ read \in 0..Len(log)
  BY LenProperties DEF EngineType
<1>2. read + 1 \in 1..Len(log)
  BY <1>1
<1>3. Next1 \in Event
  BY <1>1, <1>2, ElementOfSeq DEF Next1
<1>4. QED
  BY <1>2, <1>3 DEF Event

\* A fill rolls a position to a position.
LEMMA FillIsInt ==
  ASSUME NEW p \in Int, NEW d, NEW e, NEW q \in Nat
  PROVE  ApplyFill(p, d, e, q) \in Int /\ Signed(d, q) \in Int
  BY DEF ApplyFill, Signed, Side, Held

\* Taking the next instruction: the driver ends, stops on a flip or sends.
LEMMA BeginType ==
  ASSUME TypeOK, NEW i \in 1..(N + 1), NEW p, Begin(i, p)
  PROVE  /\ cur' = i
         /\ pc' \in {"finished", "aborted", "post"}
         /\ pc' = "post" => i \in Orders
         /\ pc' = "finished" => i = N + 1
         /\ tries' \in 0..MaxAttempts
         /\ net' \in [kind : {"waiting", "ack", "envelope", "order"},
                      state : EngineState, filled : Nat]
         /\ consumer' \in {"connecting", "open", "stopped"}
         /\ effect' \in [Orders -> Effect]
<1> USE LoopAssumption DEF TypeOK, DriverType, TrackerType, BookType
<1>1. CASE pc' = "finished"
  BY <1>1 DEF Begin, Send, Abort
<1>2. CASE pc' = "aborted"
  BY <1>2 DEF Begin, Send, Abort
<1>3. CASE pc' = "post"
  <2>1. /\ i \in Orders /\ cur' = i /\ tries' = 1 /\ net' = Waiting
        /\ consumer' = consumer
        /\ effect' = [effect EXCEPT ![i] = InferEffect(p, instr[i])]
    BY <1>3 DEF Begin, Send, Abort, Orders
  <2>2. InferEffect(p, instr[i]) \in Effect
    BY DEF InferEffect, Effect
  <2>3. effect' \in [Orders -> Effect]
    BY <2>1, <2>2
  <2>4. QED
    BY <1>3, <2>1, <2>3 DEF Waiting, Answer, EngineState
<1>4. QED
  BY <1>1, <1>2, <1>3 DEF Begin, Send, Abort

\* Recording an outcome keeps one outcome per order behind the driver.
LEMMA RecordType ==
  ASSUME TInv, Inflight, NEW f \in FinalState, NEW a \in Nat, NEW p,
         Record(f, a, p)
  PROVE  /\ DriverType' /\ Cursor'
         /\ effect' \in [Orders -> Effect]
         /\ consumer' \in {"connecting", "open", "stopped"}
<1> DEFINE new == [final |-> f, filled |-> a]
<1>1. cur \in 1..N /\ outcomes \in Seq(Outcome) /\ Len(outcomes) = cur - 1
  BY LoopAssumption DEF TInv, TypeOK, DriverType, Cursor, Orders
<1>2. new \in Outcome
  BY DEF Outcome
<1>3. outcomes' = Append(outcomes, new) /\ Begin(cur + 1, p)
  BY DEF Record
<1> HIDE DEF new
<1>4. outcomes' \in Seq(Outcome) /\ Len(outcomes') = cur
  BY <1>1, <1>2, <1>3, AppendProperties
<1>5. cur + 1 \in 1..(N + 1) /\ TypeOK
  BY <1>1, LoopAssumption DEF TInv
<1>6. QED
  BY <1>3, <1>4, <1>5, BeginType, LoopAssumption
     DEF DriverType, Cursor, Inflight, Orders

\* Every step of driver, consumer and engine keeps the types.
LEMMA TypeStep == TInv /\ [Next]_vars => TInv'
<1> SUFFICES ASSUME TInv, [Next]_vars PROVE TInv'
  OBVIOUS
<1> USE DEF TInv, TypeOK, driver, trackers, engine, history
<1>1. CASE HandshakeEnds
  <2>1. 1 \in 1..(N + 1) /\ Begin(1, pos) /\ cur = 0
    BY <1>1, LoopAssumption DEF HandshakeEnds, Cursor
  <2>2. DriverType' /\ Cursor' /\ BookType' /\ TrackerType'
    BY <1>1, <2>1, BeginType DEF HandshakeEnds, DriverType, Cursor, Inflight,
       BookType, TrackerType, Orders
  <2>3. QED
    BY <1>1, <2>2 DEF HandshakeEnds, EngineType
<1>2. ASSUME Inflight, RecordDone PROVE TInv'
  <2>1. final[cur] \in FinalState /\ applied[cur] \in Nat
        /\ Record(final[cur], applied[cur], pos)
    BY <1>2 DEF RecordDone, TrackerType, Cursor
  <2>2. DriverType' /\ Cursor' /\ effect' \in [Orders -> Effect]
        /\ consumer' \in {"connecting", "open", "stopped"}
    BY <1>2, <2>1, RecordType
  <2>3. QED
    BY <1>2, <2>2 DEF RecordDone, TrackerType, EngineType, BookType
<1>3. CASE SubmitAcked
  <2>1. CASE done[cur] /\ RecordDone
    BY <1>2, <1>3, <2>1 DEF SubmitAcked, Inflight
  <2>2. CASE ~(done[cur] /\ RecordDone)
    <3>1. DriverType' /\ Cursor'
      BY <1>3, <2>2, LoopAssumption DEF SubmitAcked, Send, DriverType, Cursor,
         Inflight, Waiting, Answer, EngineState
    <3>2. QED
      BY <1>3, <2>2, <3>1 DEF SubmitAcked, TrackerType, EngineType, BookType
  <2>3. QED
    BY <2>1, <2>2
<1>4. CASE SubmitRejected
  <2>1. Inflight /\ cur \in Orders /\ "REJECTED" \in FinalState
    BY <1>4 DEF SubmitRejected, Inflight, Cursor, FinalState
  <2>2. applied[cur] \in Nat /\ Record("REJECTED", applied[cur], pos)
    BY <1>4, <2>1 DEF SubmitRejected, TrackerType
  <2>3. DriverType' /\ Cursor' /\ effect' \in [Orders -> Effect]
        /\ consumer' \in {"connecting", "open", "stopped"}
    BY <2>1, <2>2, RecordType
  <2>4. QED
    BY <1>4, <2>1, <2>3 DEF SubmitRejected, TrackerType, EngineType, BookType
<1>5. CASE WakeDone
  BY <1>2, <1>5 DEF WakeDone, Inflight
<1>6. CASE OrderTimeout
  <2>1. DriverType' /\ Cursor'
    BY <1>6, LoopAssumption DEF OrderTimeout, Send, DriverType, Cursor, Inflight,
       Waiting, Answer, EngineState
  <2>2. QED
    BY <1>6, <2>1 DEF OrderTimeout, TrackerType, EngineType, BookType
<1>7. CASE Reconcile
  <2> DEFINE gain == Residual(net, applied[cur])
             moved == ApplyFill(pos, instr[cur].dir, effect[cur], gain)
             p == IF gain > 0 THEN moved ELSE pos
  <2>1. /\ Inflight /\ cur \in Orders /\ applied[cur] \in Nat
        /\ net.state \in EngineState /\ net.filled \in Nat /\ pos \in Int
    BY <1>7 DEF Reconcile, Inflight, Cursor, TrackerType, DriverType, BookType
  <2>2. gain \in Nat
    BY <2>1 DEF Residual, Priced, Gain
  <2>3. moved \in Int /\ Signed(instr[cur].dir, gain) \in Int
    BY <2>1, <2>2, FillIsInt
  <2>4. CASE net.state \in Ended
    <3>1. /\ pos' = p /\ applied' = [applied EXCEPT ![cur] = @ + gain]
          /\ booked' = booked + Signed(instr[cur].dir, gain)
          /\ final' = [final EXCEPT ![cur] = net.state]
          /\ done' = [done EXCEPT ![cur] = TRUE]
          /\ Record(net.state, applied[cur] + gain, p)
      BY <1>7, <2>4 DEF Reconcile
    <3>2. net.state \in FinalState /\ applied[cur] + gain \in Nat
      BY <2>1, <2>2, <2>4 DEF FinalState
    <3>3. DriverType' /\ Cursor' /\ effect' \in [Orders -> Effect]
          /\ consumer' \in {"connecting", "open", "stopped"}
      BY <2>1, <3>1, <3>2, RecordType
    <3> HIDE DEF gain, moved, p
    <3>4. TrackerType'
      BY <2>1, <2>2, <3>1, <3>2, <3>3 DEF TrackerType
    <3>5. pos' \in Int /\ booked' \in Int
      BY <2>1, <2>3, <3>1 DEF BookType, p
    <3>6. BookType' /\ EngineType'
      BY <1>7, <3>3, <3>5 DEF Reconcile, BookType, EngineType
    <3>7. QED
      BY <3>3, <3>4, <3>6
  <2>5. CASE net.state \notin Ended
    <3>1. "None" \in FinalState /\ Record("None", applied[cur], pos)
      BY <1>7, <2>5 DEF Reconcile, FinalState
    <3>2. DriverType' /\ Cursor' /\ effect' \in [Orders -> Effect]
          /\ consumer' \in {"connecting", "open", "stopped"}
      BY <2>1, <3>1, RecordType
    <3>3. QED
      BY <1>7, <2>1, <2>5, <3>1, <3>2
         DEF Reconcile, TrackerType, BookType, EngineType
  <2>6. QED
    BY <2>4, <2>5
<1>8. CASE RequestFails
  <2>1. DriverType' /\ Cursor'
    BY <1>8, LoopAssumption DEF RequestFails, Exhausted, AttemptsLeft, Abort,
       DriverType, Cursor, Inflight, Waiting, Answer, EngineState
  <2>2. TrackerType' /\ EngineType'
    BY <1>8 DEF RequestFails, Exhausted, TrackerType, EngineType
  <2>3. BookType'
    BY <1>8 DEF RequestFails, Exhausted, Abort, BookType
  <2>4. QED
    BY <2>1, <2>2, <2>3
<1>9. CASE RequestRefused
  BY <1>9 DEF RequestRefused, Abort, DriverType, Cursor, Inflight, TrackerType,
     EngineType, BookType
<1>10. CASE StreamOpens
  <2>1. Len(log) \in Nat
    BY LenProperties DEF EngineType
  <2>2. missed' \in [Orders -> Nat]
    BY <1>10 DEF StreamOpens, EngineType
  <2>3. DriverType' /\ Cursor' /\ TrackerType'
    BY <1>10 DEF StreamOpens, DriverType, Cursor, Inflight, TrackerType
  <2>4. EngineType' /\ BookType'
    BY <1>10, <2>1, <2>2 DEF StreamOpens, EngineType, BookType
  <2>5. QED
    BY <2>3, <2>4
<1>11. CASE ConsumeEvent
  <2> DEFINE e == Next1
             d == instr[e.o].dir
  <2>1. /\ e.o \in Orders /\ e.qty \in Nat /\ e.end \in {"no"} \cup Ended
        /\ read + 1 \in 1..Len(log)
    BY <1>11, NextEvent DEF ConsumeEvent
  <2>2. pos \in Int /\ booked \in Int /\ applied[e.o] \in Nat /\ cur \in Int
    BY <2>1, LoopAssumption DEF BookType, TrackerType, DriverType
  <2>3. /\ ApplyFill(pos, d, effect[e.o], e.qty) \in Int
        /\ Signed(d, e.qty) \in Int
    BY <2>1, <2>2, FillIsInt
  <2> HIDE DEF e, d
  <2>4. /\ IF e.qty > 0
           THEN /\ pos' = ApplyFill(pos, d, effect[e.o], e.qty)
                /\ applied' = [applied EXCEPT ![e.o] = @ + e.qty]
                /\ booked' = booked + Signed(d, e.qty)
                /\ late' = (late \/ e.o < cur)
           ELSE UNCHANGED <<pos, applied, booked, late>>
        /\ IF e.end # "no"
           THEN /\ final' = [final EXCEPT ![e.o] = e.end]
                /\ done' = [done EXCEPT ![e.o] = TRUE]
           ELSE UNCHANGED <<final, done>>
        /\ effect' = effect
    BY <1>11 DEF ConsumeEvent, e, d
  <2>5. applied' \in [Orders -> Nat]
    BY <2>1, <2>2, <2>4 DEF TrackerType
  <2>6. final' \in [Orders -> FinalState]
    BY <2>1, <2>4 DEF TrackerType, FinalState
  <2>7. done' \in [Orders -> BOOLEAN]
    BY <2>1, <2>4 DEF TrackerType
  <2>8. TrackerType'
    BY <2>4, <2>5, <2>6, <2>7 DEF TrackerType
  <2>9. pos' \in Int /\ booked' \in Int
    BY <2>2, <2>3, <2>4
  <2>10. late' \in BOOLEAN
    BY <2>4 DEF BookType
  <2>11. BookType' /\ EngineType'
    BY <1>11, <2>1, <2>9, <2>10 DEF ConsumeEvent, BookType, EngineType
  <2>12. QED
    BY <1>11, <2>8, <2>11 DEF ConsumeEvent, DriverType, Cursor, Inflight
<1>12. CASE EventDropped
  <2>1. Next1.o \in Orders /\ Next1.qty \in Nat /\ read + 1 \in 1..Len(log)
    BY <1>12, NextEvent DEF EventDropped
  <2>2. missed' \in [Orders -> Nat]
    BY <1>12, <2>1 DEF EventDropped, BookType
  <2>3. QED
    BY <1>12, <2>1, <2>2 DEF EventDropped, DriverType, Cursor, Inflight,
       TrackerType, EngineType, BookType
<1>13. CASE StreamReset
  BY <1>13 DEF StreamReset, DriverType, Cursor, Inflight, TrackerType,
     EngineType, BookType
<1>14. CASE StreamFails
  BY <1>14 DEF StreamFails, Abort, DriverType, Cursor, Inflight, TrackerType,
     EngineType, BookType
<1>15. CASE EngineAccepts \/ EngineRejects \/ EngineAnswersGet
  <2>1. cur \in Orders
    BY <1>15 DEF EngineAccepts, EngineRejects, EngineAnswersGet, Cursor, Inflight
  <2>2. DriverType' /\ Cursor'
    BY <1>15, <2>1 DEF EngineAccepts, EngineRejects, EngineAnswersGet, DriverType,
       EngineType, Cursor, Inflight, Ack, Envelope, Snapshot, Answer, EngineState
  <2>3. TrackerType' /\ BookType'
    BY <1>15 DEF EngineAccepts, EngineRejects, EngineAnswersGet, TrackerType, BookType
  <2>4. EngineType'
    BY <1>15, <2>1 DEF EngineAccepts, EngineRejects, EngineAnswersGet, EngineType,
       EngineState
  <2>5. QED
    BY <2>2, <2>3, <2>4
<1>16. ASSUME NEW o \in Orders, NEW q \in Nat, NEW end \in {"no"} \cup Ended,
              Emit(o, q, end), filled[o] \in Nat
       PROVE  log' \in Seq(Event) /\ Len(log') = Len(log) + 1 /\ Len(log) \in Nat
  <2> DEFINE new == [o |-> o, qty |-> q, before |-> filled[o], end |-> end]
  <2>1. new \in Event
    BY <1>16 DEF Event
  <2>2. log' = Append(log, new) /\ log \in Seq(Event)
    BY <1>16 DEF Emit, EngineType
  <2> HIDE DEF new
  <2>3. QED
    BY <2>1, <2>2, AppendProperties, LenProperties
<1>17. CASE \E o \in Orders : \E q \in 1..MaxQty : EngineFills(o, q)
  <2>1. PICK o \in Orders, q \in 1..MaxQty : EngineFills(o, q)
    BY <1>17
  <2> DEFINE end == IF filled[o] + q = instr[o].qty THEN "FILLED" ELSE "no"
  <2>2. q \in Nat /\ filled[o] \in Nat /\ end \in {"no"} \cup Ended
    BY LoopAssumption DEF EngineType, Ended
  <2>3. /\ Emit(o, q, end) /\ filled' = [filled EXCEPT ![o] = @ + q]
        /\ state' = [state EXCEPT ![o] = IF end = "no" THEN @ ELSE end]
    BY <2>1 DEF EngineFills
  <2> HIDE DEF end
  <2>4. log' \in Seq(Event) /\ Len(log') = Len(log) + 1 /\ Len(log) \in Nat
    BY <1>16, <2>2, <2>3
  <2>5. EngineType'
    BY <2>1, <2>2, <2>3, <2>4 DEF EngineFills, EngineType, EngineState
  <2>6. QED
    BY <2>1, <2>5 DEF EngineFills, DriverType, Cursor, Inflight, TrackerType, BookType
<1>18. CASE \E o \in Orders : EngineEnds(o)
  <2>1. PICK o \in Orders : EngineEnds(o)
    BY <1>18
  <2>2. filled[o] \in Nat /\ "CANCELLED" \in Ended /\ Emit(o, 0, "CANCELLED")
    BY <2>1 DEF EngineEnds, EngineType, Ended
  <2>3. log' \in Seq(Event) /\ Len(log') = Len(log) + 1 /\ Len(log) \in Nat
    BY <1>16, <2>2
  <2>4. EngineType'
    BY <2>1, <2>2, <2>3 DEF EngineEnds, EngineType, EngineState
  <2>5. QED
    BY <2>1, <2>4 DEF EngineEnds, DriverType, Cursor, Inflight, TrackerType, BookType
<1>19. CASE UNCHANGED vars
  BY <1>19 DEF vars, DriverType, Cursor, Inflight, TrackerType, EngineType, BookType
<1>20. QED
  BY <1>1, <1>3, <1>4, <1>5, <1>6, <1>7, <1>8, <1>9, <1>10, <1>11, <1>12,
     <1>13, <1>14, <1>15, <1>17, <1>18, <1>19 DEF Next

\* TypeOK holds in every reachable state: cur never leaves 0..N+1 and the
\* attempts of a request never exceed the limit.
THEOREM TypeCorrect == Spec => []TypeOK
<1>1. Spec => []TInv
  BY TypeInit, TypeStep, PTL DEF Spec
<1>2. TInv => TypeOK
  BY DEF TInv
<1>3. QED
  BY <1>1, <1>2, PTL

----------------------------------------------------------------------------
(* The ledger.  An order in flight has room: an OPEN goes with the side    *)
(* held, a CLOSE against at least as many contracts as it has still to     *)
(* fill.  Room lasts because nothing but this order's fills moves the      *)
(* position while it is in flight, and those never exceed its quantity:    *)
(* every event still to come starts from at least what was applied.        *)

Room(p, i, e, a) ==
  IF e = "OPEN"
  THEN IF i.dir = "long" THEN p >= 0 ELSE p <= 0
  ELSE IF i.dir = "long" THEN -p >= i.qty - a ELSE p >= i.qty - a

\* The engine never fills more than the order, and its events add up.
Fills ==
  /\ \A o \in Orders : filled[o] <= instr[o].qty
  /\ \A j \in 1..Len(log) : log[j].before + log[j].qty <= filled[log[j].o]
  /\ \A i, j \in 1..Len(log) : i < j /\ log[i].o = log[j].o =>
        log[i].before + log[i].qty <= log[j].before

\* Nothing is known of an order the driver has not reached.
Fresh ==
  /\ \A o \in Orders : o > cur => state[o] = "absent" /\ applied[o] = 0
  /\ \A j \in 1..Len(log) : log[j].o <= cur

Current ==
  Inflight =>
    /\ applied[cur] <= filled[cur]
    /\ \A j \in 1..Len(log) : read < j /\ log[j].o = cur =>
          applied[cur] <= log[j].before
    /\ pc = "get" /\ net.kind = "order" => net.filled <= filled[cur]

Booked ==
  ~late => /\ pos = booked
           /\ Inflight => Room(pos, instr[cur], effect[cur], applied[cur])

LInv == Fills /\ Fresh /\ Current /\ Booked

\* A fill within the room is booked with the order's sign, and leaves room.
LEMMA FillInRoom ==
  ASSUME NEW p \in Int, NEW i \in [dir : Direction, qty : 1..MaxQty],
         NEW e \in Effect, NEW a \in Nat, NEW q \in Nat,
         q > 0, a + q <= i.qty, Room(p, i, e, a)
  PROVE  /\ ApplyFill(p, i.dir, e, q) = p + Signed(i.dir, q)
         /\ Room(p + Signed(i.dir, q), i, e, a + q)
<1> i.dir \in Direction /\ i.qty \in Nat
  BY LoopAssumption
<1> USE DEF Room, ApplyFill, Signed, Side, Held, Direction, Effect
<1>1. CASE i.dir = "long"
  BY <1>1
<1>2. CASE i.dir = "short"
  BY <1>2
<1>3. QED
  BY <1>1, <1>2

\* The effect the loop infers gives the order room.
LEMMA BeginRoom ==
  ASSUME NEW p \in Int, NEW i \in [dir : Direction, qty : 1..MaxQty], ~Flips(p, i)
  PROVE  Room(p, i, InferEffect(p, i), 0)
<1> i.dir \in Direction /\ i.qty \in Nat
  BY LoopAssumption
<1> USE DEF Room, InferEffect, Flips, Side, Held, Direction
<1>1. CASE i.dir = "long"
  BY <1>1
<1>2. CASE i.dir = "short"
  BY <1>2
<1>3. QED
  BY <1>1, <1>2

\* At the start the position is the start and nothing is booked.
LEMMA LedgerInit == TInv /\ Init => LInv
<1> SUFFICES ASSUME TInv, Init PROVE LInv
  OBVIOUS
<1>1. Len(log) = 0
  BY DEF Init
<1>2. Fills
  BY <1>1, LoopAssumption DEF Init, Fills
<1>3. Fresh /\ Current /\ Booked
  BY <1>1 DEF Init, Fresh, Current, Booked, Inflight
<1>4. QED
  BY <1>2, <1>3 DEF LInv

\* The events of the stream are events of orders, by its type.
LEMMA LogTyped ==
  ASSUME EngineType
  PROVE  \A j \in 1..Len(log) : /\ log[j].o \in Orders /\ log[j].qty \in Nat
                                /\ log[j].before \in Nat
                                /\ log[j].end \in {"no"} \cup Ended
<1> SUFFICES ASSUME NEW j \in 1..Len(log) PROVE log[j] \in Event
  BY DEF Event
<1>1. log \in Seq(Event)
  BY DEF EngineType
<1>2. QED
  BY <1>1, ElementOfSeq

\* The engine's part is not disturbed by taking the next instruction.
LEMMA BeginLedger ==
  ASSUME TInv, Fills, Fresh, Fills', NEW i \in 1..(N + 1), i > cur, NEW p \in Int,
         Begin(i, p), pos' = p, ~late' => p = booked',
         UNCHANGED <<instr, state, filled, log, read>>,
         \A o \in Orders : o > cur => applied'[o] = applied[o]
  PROVE  LInv'
<1> USE DEF TInv, TypeOK
<1>1. cur \in Int /\ cur' = i /\ cur' > cur /\ Len(log) \in Nat
  BY LoopAssumption, BeginType, LenProperties DEF DriverType, EngineType
<1>2. \A j \in 1..Len(log) : log[j].o \in Orders /\ log[j].before \in Nat
  BY LogTyped
<1>3. Fresh'
  <2>1. \A o \in Orders : o > cur' => state'[o] = "absent" /\ applied'[o] = 0
    BY <1>1 DEF Fresh, Orders
  <2>2. ASSUME NEW j \in 1..Len(log) PROVE log[j].o <= cur'
    BY <1>1, <1>2 DEF Fresh, Orders
  <2>3. log' = log
    OBVIOUS
  <2>4. QED
    BY <2>1, <2>2, <2>3 DEF Fresh
<1>4. CASE pc' = "post"
  <2>1. /\ i \in Orders /\ ~Flips(p, instr[i]) /\ net'.kind = "waiting"
        /\ effect' = [effect EXCEPT ![i] = InferEffect(p, instr[i])]
    BY <1>4 DEF Begin, Send, Abort, Orders, Waiting, Answer
  <2>2. applied'[i] = 0 /\ effect'[i] = InferEffect(p, instr[i])
    BY <2>1 DEF Fresh, TrackerType
  <2>3. instr[i] \in [dir : Direction, qty : 1..MaxQty]
    BY <2>1 DEF BookType
  <2>4. Room(p, instr[i], effect'[i], applied'[i])
    BY <2>1, <2>2, <2>3, BeginRoom
  <2>5. filled[i] \in Nat
    BY <2>1 DEF EngineType
  <2>6. Current'
    BY <1>1, <1>2, <1>4, <2>2, <2>5 DEF Current
  <2>7. Booked'
    BY <1>1, <2>4 DEF Booked
  <2>8. QED
    BY <1>3, <2>6, <2>7 DEF LInv
<1>5. CASE pc' # "post"
  <2>1. ~Inflight'
    BY <1>5, BeginType DEF Inflight
  <2>2. QED
    BY <1>3, <2>1 DEF LInv, Current, Booked
<1>6. QED
  BY <1>4, <1>5

\* A step that moves neither the books, the fills nor the driver's order.
LEMMA QuietLedger ==
  ASSUME TInv, LInv, TInv',
         UNCHANGED <<instr, cur, pos, effect, applied, filled, log, late, booked>>,
         read <= read', Inflight' => Inflight,
         \A o \in Orders : o > cur => state'[o] = state[o],
         Inflight' /\ pc' = "get" /\ net'.kind = "order" => net'.filled <= filled[cur]
  PROVE  LInv'
<1>1. Fills' /\ Fresh' /\ Booked'
  BY DEF LInv, Fills, Fresh, Booked
<1>2. read \in Int /\ read' \in Int /\ Len(log) \in Nat
  BY LenProperties DEF TInv, TypeOK, EngineType
<1>3. Current'
  BY <1>2 DEF LInv, Current
<1>4. QED
  BY <1>1, <1>3 DEF LInv

\* A new event of an order the driver has reached, for what it filled.
LEMMA EmitLedger ==
  ASSUME TInv, LInv, TInv', NEW o \in Orders, o <= cur, NEW q \in Nat,
         NEW end \in {"no"} \cup Ended,
         Emit(o, q, end), filled[o] + q <= instr[o].qty,
         filled' = [filled EXCEPT ![o] = @ + q],
         UNCHANGED <<instr, driver, pos, effect, applied, read, late, booked>>,
         \A k \in Orders : k > cur => state'[k] = state[k]
  PROVE  LInv'
<1> USE DEF TInv, TypeOK
<1> DEFINE new == [o |-> o, qty |-> q, before |-> filled[o], end |-> end]
<1>1. /\ filled \in [Orders -> Nat] /\ applied \in [Orders -> Nat]
      /\ cur \in Int /\ read \in Int /\ cur' = cur /\ pc' = pc /\ net' = net
      /\ \A k \in Orders : instr[k].qty \in Int
  BY LoopAssumption DEF EngineType, TrackerType, DriverType, BookType, driver
<1>2. /\ Len(log) \in Nat /\ Len(log') = Len(log) + 1
      /\ \A j \in 1..Len(log) : log'[j] = log[j]
      /\ log'[Len(log) + 1].o = o
      /\ log'[Len(log) + 1].qty = q /\ log'[Len(log) + 1].before = filled[o]
  <2>1. log \in Seq(Event) /\ log' = Append(log, new) /\ new \in Event
    BY <1>1 DEF Emit, EngineType, Event
  <2>2. new.o = o /\ new.qty = q /\ new.before = filled[o]
    OBVIOUS
  <2> HIDE DEF new
  <2>3. QED
    BY <2>1, <2>2, AppendProperties, LenProperties
<1>3. \A j \in 1..Len(log) : /\ log[j].o \in Orders /\ log[j].qty \in Nat
                             /\ log[j].before \in Nat
  BY LogTyped
<1>4. \A j \in 1..Len(log') : j \in 1..Len(log) \/ j = Len(log) + 1
  BY <1>2
<1>5. \A k \in Orders : filled[k] <= filled'[k]
  BY <1>1
<1>6. \A k \in Orders : filled'[k] <= instr[k].qty
  BY <1>1 DEF LInv, Fills
<1>7. ASSUME NEW j \in 1..Len(log')
      PROVE  log'[j].before + log'[j].qty <= filled'[log'[j].o]
  <2>1. CASE j \in 1..Len(log)
    <3>1. log'[j] = log[j] /\ log[j].before + log[j].qty <= filled[log[j].o]
      BY <2>1, <1>2 DEF LInv, Fills
    <3>2. /\ filled[log[j].o] <= filled'[log[j].o] /\ log[j].o \in Orders
          /\ log[j].before + log[j].qty \in Nat
      BY <2>1, <1>3, <1>5
    <3>3. filled[log[j].o] \in Nat /\ filled'[log[j].o] \in Nat
      BY <3>2, <1>1
    <3>4. QED
      BY <3>1, <3>2, <3>3
  <2>2. CASE j = Len(log) + 1
    BY <2>2, <1>1, <1>2
  <2>3. QED
    BY <2>1, <2>2, <1>4
<1>8. ASSUME NEW i \in 1..Len(log'), NEW j \in 1..Len(log'), i < j,
             log'[i].o = log'[j].o
      PROVE  log'[i].before + log'[i].qty <= log'[j].before
  <2>1. i \in 1..Len(log)
    BY <1>2, <1>8
  <2>2. CASE j \in 1..Len(log)
    BY <2>1, <2>2, <1>2, <1>8 DEF LInv, Fills
  <2>3. CASE j = Len(log) + 1
    BY <2>1, <2>3, <1>2, <1>8 DEF LInv, Fills
  <2>4. QED
    BY <2>2, <2>3, <1>4
<1>9. Fills'
  BY <1>6, <1>7, <1>8 DEF Fills
<1>10. ASSUME NEW j \in 1..Len(log') PROVE log'[j].o <= cur'
  BY <1>1, <1>2, <1>4 DEF LInv, Fresh
<1>11. Fresh'
  BY <1>1, <1>10 DEF LInv, Fresh
<1>12. ASSUME Inflight' PROVE applied'[cur'] <= filled'[cur']
  BY <1>1, <1>5, <1>12 DEF LInv, Current, Inflight, Cursor
<1>13. ASSUME Inflight', NEW j \in 1..Len(log'), read' < j, log'[j].o = cur'
       PROVE  applied'[cur'] <= log'[j].before
  BY <1>1, <1>2, <1>4, <1>13 DEF LInv, Current, Inflight, Cursor
<1>14. ASSUME Inflight', pc' = "get", net'.kind = "order"
       PROVE  net'.filled <= filled'[cur']
  <2>1. net.filled <= filled[cur] /\ net.filled \in Nat /\ cur \in Orders
    BY <1>1, <1>14 DEF LInv, Current, Inflight, Cursor, DriverType
  <2>2. QED
    BY <1>1, <1>5, <2>1
<1>15. Current'
  BY <1>12, <1>13, <1>14 DEF Current
<1>16. Booked'
  BY <1>1 DEF LInv, Booked, Inflight
<1>17. QED
  BY <1>9, <1>11, <1>15, <1>16 DEF LInv

\* A delivered fill of the order in flight fits in its room, and every later
\* event of that order starts from at least what is applied now.
LEMMA ConsumeLedger == TInv /\ LInv /\ TInv' /\ ConsumeEvent => LInv'
<1> SUFFICES ASSUME TInv, LInv, TInv', ConsumeEvent PROVE LInv'
  OBVIOUS
<1> USE DEF TInv, TypeOK
<1> DEFINE o == Next1.o
           q == Next1.qty
           d == instr[o].dir
<1>1. /\ o \in Orders /\ q \in Nat /\ Next1.before \in Nat
      /\ read + 1 \in 1..Len(log) /\ Next1 = log[read + 1]
  BY NextEvent DEF ConsumeEvent, Next1
<1>2. /\ pos \in Int /\ booked \in Int /\ applied \in [Orders -> Nat]
      /\ filled \in [Orders -> Nat] /\ cur \in Int /\ read \in Int
      /\ instr[o] \in [dir : Direction, qty : 1..MaxQty] /\ effect[o] \in Effect
      /\ late \in BOOLEAN
  <2>1. pos \in Int /\ booked \in Int /\ late \in BOOLEAN
        /\ instr[o] \in [dir : Direction, qty : 1..MaxQty]
    BY <1>1 DEF BookType
  <2>2. applied \in [Orders -> Nat] /\ effect[o] \in Effect
    BY <1>1 DEF TrackerType
  <2>3. filled \in [Orders -> Nat] /\ cur \in Int /\ read \in Int
    BY LoopAssumption, LenProperties DEF DriverType, EngineType
  <2>4. QED
    BY <2>1, <2>2, <2>3
<1>3. o <= cur /\ Next1.before + q <= filled[o] /\ filled[o] <= instr[o].qty
  BY <1>1 DEF LInv, Fresh, Fills
<1>4. /\ Running /\ UNCHANGED <<instr, pc, cur, net, effect, state, filled, log>>
      /\ read' = read + 1
      /\ IF q > 0
         THEN /\ pos' = ApplyFill(pos, d, effect[o], q)
              /\ applied' = [applied EXCEPT ![o] = @ + q]
              /\ booked' = booked + Signed(d, q)
              /\ late' = (late \/ o < cur)
         ELSE UNCHANGED <<pos, applied, booked, late>>
  BY DEF ConsumeEvent, driver, engine
<1>5. Inflight /\ cur \in Orders
  BY <1>1, <1>3, <1>4, LoopAssumption
     DEF Running, Inflight, Cursor, DriverType, Orders
<1> HIDE DEF o, q, d
<1>6. CASE q = 0
  <2>1. UNCHANGED <<pos, applied, booked, late>>
    BY <1>4, <1>6
  <2>2. QED
    BY <1>2, <1>4, <2>1, QuietLedger DEF Inflight, LInv, Current
<1>7. CASE q > 0 /\ o < cur
  <2>1. late' /\ applied' = [applied EXCEPT ![o] = @ + q]
    BY <1>4, <1>7, <1>2
  <2>2. Booked'
    BY <2>1 DEF Booked
  <2>3. Fills'
    BY <1>4 DEF LInv, Fills
  <2>4. \A k \in Orders : k >= cur => applied'[k] = applied[k]
    BY <1>1, <1>2, <1>7, <2>1 DEF Orders
  <2>5. Fresh'
    BY <1>2, <1>4, <2>4 DEF LInv, Fresh, Orders
  <2>6. Current'
    BY <1>2, <1>4, <1>5, <2>4 DEF LInv, Current, Inflight, Orders
  <2>7. QED
    BY <2>2, <2>3, <2>5, <2>6 DEF LInv
<1>8. CASE q > 0 /\ o = cur
  <2>1. /\ pos' = ApplyFill(pos, d, effect[cur], q)
        /\ applied' = [applied EXCEPT ![cur] = @ + q]
        /\ booked' = booked + Signed(d, q)
        /\ late' = late
    BY <1>2, <1>4, <1>8
  <2>2. applied[cur] <= Next1.before
    BY <1>1, <1>2, <1>5, <1>8 DEF LInv, Current, o
  <2>3. /\ applied'[cur] = applied[cur] + q /\ applied[cur] \in Nat
        /\ filled[cur] \in Nat /\ instr[cur].qty \in Nat
    BY <1>2, <1>5, <2>1, LoopAssumption DEF BookType
  <2>4. applied[cur] + q <= Next1.before + q /\ applied[cur] + q <= filled[cur]
        /\ applied[cur] + q <= instr[cur].qty
    BY <1>1, <1>3, <1>8, <2>2, <2>3
  <2>5. Fills'
    BY <1>4 DEF LInv, Fills
  <2>6. Fresh'
    BY <1>2, <1>4, <1>5, <2>1 DEF LInv, Fresh, Orders
  <2>7. ASSUME NEW j \in 1..Len(log), read + 1 < j, log[j].o = cur
        PROVE  applied'[cur] <= log[j].before
    <3>1. log[read + 1].before + log[read + 1].qty <= log[j].before
      BY <1>1, <1>8, <2>7 DEF LInv, Fills, o
    <3>2. log[j].before \in Nat
      BY LogTyped
    <3>3. QED
      BY <1>1, <2>3, <2>4, <3>1, <3>2 DEF q
  <2>8. Current'
    BY <1>4, <1>5, <2>3, <2>4, <2>7 DEF LInv, Current, Inflight
  <2>9. ASSUME ~late' PROVE pos' = booked' /\ Room(pos', instr[cur], effect[cur], applied'[cur])
    <3>1. pos = booked /\ Room(pos, instr[cur], effect[cur], applied[cur])
      BY <1>5, <2>1, <2>9 DEF LInv, Booked
    <3>2. d = instr[cur].dir
      BY <1>8 DEF d
    <3>3. QED
      BY <1>1, <1>2, <1>8, <2>1, <2>3, <2>4, <3>1, <3>2, FillInRoom
  <2>10. Booked'
    BY <1>4, <2>9 DEF Booked
  <2>11. QED
    BY <2>5, <2>6, <2>8, <2>10 DEF LInv
<1>9. QED
  BY <1>1, <1>2, <1>3, <1>6, <1>7, <1>8 DEF Orders

\* The residual of a GET is no more than the engine filled, so it fits too.
LEMMA ReconcileLedger == TInv /\ LInv /\ TInv' /\ Reconcile => LInv'
<1> SUFFICES ASSUME TInv, LInv, TInv', Reconcile PROVE LInv'
  OBVIOUS
<1> USE DEF TInv, TypeOK
<1> DEFINE gain == Residual(net, applied[cur])
           d == instr[cur].dir
           p == IF gain > 0 THEN ApplyFill(pos, d, effect[cur], gain) ELSE pos
<1>1. /\ pos \in Int /\ booked \in Int /\ applied \in [Orders -> Nat]
      /\ filled \in [Orders -> Nat] /\ cur \in Orders /\ cur \in Int
      /\ instr[cur] \in [dir : Direction, qty : 1..MaxQty] /\ effect[cur] \in Effect
      /\ instr[cur].qty \in Nat /\ net.filled \in Nat /\ late \in BOOLEAN
      /\ Inflight /\ cur + 1 \in 1..(N + 1) /\ cur + 1 > cur
  <2>1. Inflight /\ cur \in Orders
    BY DEF Reconcile, Inflight, Cursor
  <2>2. cur \in Int /\ cur + 1 \in 1..(N + 1) /\ cur + 1 > cur
    BY <2>1, LoopAssumption DEF Orders
  <2>3. /\ pos \in Int /\ booked \in Int /\ late \in BOOLEAN
        /\ instr[cur] \in [dir : Direction, qty : 1..MaxQty]
        /\ instr[cur].qty \in Nat
    BY <2>1, LoopAssumption DEF BookType
  <2>4. /\ applied \in [Orders -> Nat] /\ effect[cur] \in Effect
        /\ filled \in [Orders -> Nat] /\ net.filled \in Nat
    BY <2>1 DEF TrackerType, EngineType, DriverType
  <2>5. QED
    BY <2>1, <2>2, <2>3, <2>4
<1>2. UNCHANGED <<instr, state, filled, log, read, late>>
  BY DEF Reconcile, engine
<1>3. Fills /\ Fresh /\ Fills'
  BY <1>2 DEF LInv, Fills
<1>4. CASE net.state \in Ended
  <2>1. /\ pos' = p /\ applied' = [applied EXCEPT ![cur] = @ + gain]
        /\ booked' = booked + Signed(d, gain)
        /\ Begin(cur + 1, p)
    BY <1>4 DEF Reconcile, Record
  <2>2. gain \in Nat /\ applied[cur] + gain <= instr[cur].qty
    <3>1. /\ net.filled <= filled[cur] /\ applied[cur] <= filled[cur]
          /\ filled[cur] <= instr[cur].qty
      BY <1>1 DEF Reconcile, LInv, Current, Fills
    <3>2. QED
      BY <1>1, <3>1 DEF Residual, Priced, Gain
  <2> HIDE DEF gain, d
  <2>3. ASSUME ~late PROVE p = booked + Signed(d, gain)
    <3>1. pos = booked /\ Room(pos, instr[cur], effect[cur], applied[cur])
      BY <1>1, <2>3 DEF LInv, Booked
    <3>2. CASE gain = 0
      BY <1>1, <3>1, <3>2 DEF Signed
    <3>3. CASE gain > 0
      <4>1. ApplyFill(pos, d, effect[cur], gain) = pos + Signed(d, gain)
        BY <1>1, <2>2, <3>1, <3>3, FillInRoom DEF d
      <4>2. QED
        BY <3>1, <3>3, <4>1
    <3>4. QED
      BY <2>2, <3>2, <3>3
  <2>4. p \in Int
    BY <1>1, <2>2, FillIsInt
  <2>5. \A o \in Orders : o > cur => applied'[o] = applied[o]
    BY <1>1, <2>1 DEF Orders
  <2> HIDE DEF p
  <2>6. QED
    BY <1>1, <1>2, <1>3, <2>1, <2>3, <2>4, <2>5, BeginLedger
<1>5. CASE net.state \notin Ended
  <2>1. Begin(cur + 1, pos) /\ UNCHANGED <<pos, applied, booked>>
    BY <1>5 DEF Reconcile, Record
  <2>2. ~late => pos = booked
    BY DEF LInv, Booked
  <2>3. QED
    BY <1>1, <1>2, <1>3, <2>1, <2>2, BeginLedger
<1>6. QED
  BY <1>4, <1>5

\* Every step keeps the books balanced: only fills and records disturb them.
LEMMA LedgerStep == TInv /\ LInv /\ TInv' /\ [Next]_vars => LInv'
<1> SUFFICES ASSUME TInv, LInv, TInv', [Next]_vars PROVE LInv'
  OBVIOUS
<1> USE DEF driver, trackers, engine, history
<1>0. /\ LInv => Fills /\ Fresh /\ (~late => pos = booked)
      /\ pos \in Int /\ cur \in Int /\ read \in Int /\ Len(log) \in Nat
      /\ cur = 0 => 1 \in 1..(N + 1) /\ 1 > cur
      /\ Inflight => cur + 1 \in 1..(N + 1) /\ cur + 1 > cur
  BY LoopAssumption, LenProperties DEF LInv, Booked, TInv, TypeOK, BookType,
     DriverType, EngineType, Cursor, Orders
<1>1. CASE HandshakeEnds
  <2>1. cur = 0 /\ Begin(1, pos) /\ Fills'
    BY <1>1, <1>0 DEF HandshakeEnds, TInv, Cursor, Fills
  <2>2. QED
    BY <1>0, <1>1, <2>1, BeginLedger DEF HandshakeEnds
<1>2. ASSUME Inflight, RecordDone PROVE LInv'
  <2>1. Begin(cur + 1, pos) /\ Fills'
    BY <1>2, <1>0 DEF RecordDone, Record, Fills
  <2>2. QED
    BY <1>0, <1>2, <2>1, BeginLedger DEF RecordDone
<1>3. CASE SubmitAcked
  <2>1. CASE done[cur] /\ RecordDone
    BY <1>2, <1>3, <2>1 DEF SubmitAcked, Inflight
  <2>2. CASE ~(done[cur] /\ RecordDone)
    BY <1>0, <1>3, <2>2, QuietLedger DEF SubmitAcked, Send, Inflight, Waiting, Answer
  <2>3. QED
    BY <2>1, <2>2
<1>4. CASE SubmitRejected
  <2>1. Begin(cur + 1, pos) /\ Fills' /\ Inflight
    BY <1>4, <1>0 DEF SubmitRejected, Record, Fills, Inflight
  <2>2. QED
    BY <1>0, <1>4, <2>1, BeginLedger DEF SubmitRejected
<1>5. CASE WakeDone
  BY <1>2, <1>5 DEF WakeDone, Inflight
<1>6. CASE OrderTimeout
  BY <1>0, <1>6, QuietLedger DEF OrderTimeout, Send, Inflight, Waiting, Answer
<1>7. CASE Reconcile
  BY <1>7, ReconcileLedger
<1>8. CASE RequestFails
  BY <1>0, <1>8, QuietLedger DEF RequestFails, Exhausted, Abort, Inflight, Waiting, Answer
<1>9. CASE RequestRefused
  BY <1>0, <1>9, QuietLedger DEF RequestRefused, Abort, Inflight
<1>10. CASE StreamOpens
  <2>1. read <= read'
    BY <1>0, <1>10 DEF StreamOpens, TInv, TypeOK, EngineType
  <2>2. QED
    BY <1>0, <1>10, <2>1, QuietLedger DEF StreamOpens, Inflight, LInv, Current
<1>11. CASE ConsumeEvent
  BY <1>11, ConsumeLedger
<1>12. CASE EventDropped
  BY <1>0, <1>12, QuietLedger DEF EventDropped, Inflight, LInv, Current
<1>13. CASE StreamReset
  BY <1>0, <1>13, QuietLedger DEF StreamReset, Inflight, LInv, Current
<1>14. CASE StreamFails
  BY <1>0, <1>14, QuietLedger DEF StreamFails, Abort, Inflight
<1>15. CASE EngineAccepts
  <2>1. \A o \in Orders : o > cur => state'[o] = state[o]
    BY <1>0, <1>15 DEF EngineAccepts, TInv, TypeOK, EngineType, Orders
  <2>2. QED
    BY <1>0, <1>15, <2>1, QuietLedger DEF EngineAccepts, Inflight, Ack, Answer
<1>16. CASE EngineRejects
  BY <1>0, <1>16, QuietLedger DEF EngineRejects, Inflight, Envelope, Answer
<1>17. CASE EngineAnswersGet
  <2>1. net'.filled = filled[cur] /\ filled[cur] \in Nat
    BY <1>17 DEF EngineAnswersGet, Snapshot, Answer, TInv, TypeOK, EngineType,
       Cursor, Inflight
  <2>2. QED
    BY <1>0, <1>17, <2>1, QuietLedger DEF EngineAnswersGet, Inflight
<1>18. CASE \E o \in Orders : \E q \in 1..MaxQty : EngineFills(o, q)
  <2>1. PICK o \in Orders, q \in 1..MaxQty : EngineFills(o, q)
    BY <1>18
  <2> DEFINE end == IF filled[o] + q = instr[o].qty THEN "FILLED" ELSE "no"
  <2>2. /\ Emit(o, q, end) /\ filled' = [filled EXCEPT ![o] = @ + q]
        /\ state[o] = "working" /\ filled[o] + q <= instr[o].qty
        /\ state' = [state EXCEPT ![o] = IF end = "no" THEN @ ELSE end]
        /\ end \in {"no"} \cup Ended /\ q \in Nat
        /\ UNCHANGED <<instr, driver, pos, effect, applied, read, late, booked>>
    BY <2>1, LoopAssumption DEF EngineFills, Ended
  <2> HIDE DEF end
  <2>3. o <= cur
    BY <1>0, <2>2 DEF LInv, Fresh, Orders
  <2>4. \A k \in Orders : k > cur => state'[k] = state[k]
    BY <1>0, <2>2, <2>3 DEF TInv, TypeOK, EngineType, Orders
  <2>5. QED
    BY <2>2, <2>3, <2>4, EmitLedger
<1>19. CASE \E o \in Orders : EngineEnds(o)
  <2>1. PICK o \in Orders : EngineEnds(o)
    BY <1>19
  <2>2. /\ Emit(o, 0, "CANCELLED") /\ state[o] = "working"
        /\ filled' = filled /\ state' = [state EXCEPT ![o] = "CANCELLED"]
        /\ "CANCELLED" \in {"no"} \cup Ended
        /\ UNCHANGED <<instr, driver, pos, effect, applied, read, late, booked>>
    BY <2>1 DEF EngineEnds, Ended
  <2>3. /\ filled \in [Orders -> Nat]
        /\ filled[o] + 0 <= instr[o].qty
        /\ filled' = [filled EXCEPT ![o] = @ + 0]
    BY <2>2 DEF LInv, Fills, TInv, TypeOK, EngineType
  <2>4. o <= cur
    BY <1>0, <2>2 DEF LInv, Fresh, Orders
  <2>5. \A k \in Orders : k > cur => state'[k] = state[k]
    BY <1>0, <2>2, <2>4 DEF TInv, TypeOK, EngineType, Orders
  <2>6. QED
    BY <2>2, <2>3, <2>4, <2>5, EmitLedger
<1>20. CASE UNCHANGED vars
  BY <1>0, <1>20, QuietLedger DEF vars, Inflight, LInv, Current
<1>21. QED
  BY <1>1, <1>3, <1>4, <1>5, <1>6, <1>7, <1>8, <1>9, <1>10, <1>11, <1>12, <1>13,
     <1>14, <1>15, <1>16, <1>17, <1>18, <1>19, <1>20 DEF Next

\* While no fill arrives late, the position of the loop is exactly the start
\* plus the applied fills with the sign of their orders.
THEOREM LedgerCorrect == Spec => []Ledger
<1>1. TInv /\ LInv => Ledger
  BY DEF LInv, Booked, Ledger
<1>2. Init => TInv /\ LInv
  BY TypeInit, LedgerInit
<1>3. TInv /\ LInv /\ [Next]_vars => TInv' /\ LInv'
  BY TypeStep, LedgerStep
<1>4. QED
  BY <1>1, <1>2, <1>3, PTL DEF Spec

\* The order in flight is never booked for more than the engine filled, nor for
\* more than it asked: a GET and the stream do not add the same fill twice
\* before the outcome is recorded.
FilledOnceInFlight == Inflight => /\ applied[cur] <= filled[cur]
                                  /\ applied[cur] <= instr[cur].qty

\* While an order is in flight the loop has booked no more of it than the
\* engine filled and the order has: stream and GET never count a fill twice.
THEOREM NoDoubleFillInFlight == Spec => []FilledOnceInFlight
<1>1. TInv /\ LInv => FilledOnceInFlight
  <2> SUFFICES ASSUME TInv, LInv, Inflight
               PROVE  applied[cur] <= filled[cur] /\ applied[cur] <= instr[cur].qty
    BY DEF FilledOnceInFlight
  <2>1. /\ cur \in Orders /\ applied[cur] \in Nat /\ filled[cur] \in Nat
        /\ instr[cur].qty \in Nat
    BY LoopAssumption DEF TInv, TypeOK, Cursor, TrackerType, EngineType, BookType
  <2>2. QED
    BY <2>1 DEF LInv, Current, Fills
<1>2. Init => TInv /\ LInv
  BY TypeInit, LedgerInit
<1>3. TInv /\ LInv /\ [Next]_vars => TInv' /\ LInv'
  BY TypeStep, LedgerStep
<1>4. QED
  BY <1>1, <1>2, <1>3, PTL DEF Spec
----------------------------------------------------------------------------
(* The outcomes.  The events of an order follow one another without a gap  *)
(* in what they count, so what the consumer has applied and missed of the  *)
(* order in flight is where its next event starts, or all the engine       *)
(* filled.  An order that is done has no event left, and an answer that    *)
(* says an end says the last word of the engine on that order.             *)

LastOf(l, o, r) == \A j \in 1..Len(l) : r < j => l[j].o # o
Follows(l, o, r, j) ==
  r < j /\ l[j].o = o /\ \A k \in 1..Len(l) : r < k /\ k < j => l[k].o # o

\* The log tells all of an order, its end last.
EngineLog ==
  /\ \A o \in Orders : state[o] = "absent" => filled[o] = 0
  /\ \A i \in 1..Len(log) :
       /\ log[i].end # "no" => state[log[i].o] = log[i].end /\ LastOf(log, log[i].o, i)
       /\ LastOf(log, log[i].o, i) => log[i].before + log[i].qty = filled[log[i].o]
       /\ \A j \in 1..Len(log) :
            Follows(log, log[i].o, i, j) => log[j].before = log[i].before + log[i].qty

Accounted ==
  Inflight =>
    IF consumer = "connecting" THEN applied[cur] = 0 /\ ~done[cur]
    ELSE /\ LastOf(log, cur, read) => applied[cur] + missed[cur] = filled[cur]
         /\ \A j \in 1..Len(log) :
              Follows(log, cur, read, j) => applied[cur] + missed[cur] = log[j].before
         /\ done[cur] => /\ LastOf(log, cur, read)
                         /\ final[cur] \in Ended /\ state[cur] = final[cur]

\* Nothing is missed before the stream is open, nor of an order to come.
Unheard ==
  /\ consumer = "connecting" => \A o \in Orders : missed[o] = 0
  /\ \A o \in Orders : o > cur => missed[o] = 0 /\ ~done[o]

Answered ==
  /\ pc = "post" /\ net = Envelope => state[cur] = "absent"
  /\ pc = "get" /\ net.kind = "order" /\ net.state \in Ended =>
       state[cur] = net.state /\ net.filled = filled[cur]

\* What is recorded of an order stays what the engine says of it.
Recorded ==
  \A o \in 1..Len(outcomes) :
    /\ outcomes[o].filled <= filled[o]
    /\ outcomes[o].final \in Ended => /\ state[o] = outcomes[o].final
                                      /\ filled[o] - outcomes[o].filled <= missed[o]
    /\ outcomes[o].final = "REJECTED" => state[o] = "absent"
    /\ ~late => applied[o] = outcomes[o].filled

OInv == EngineLog /\ Accounted /\ Unheard /\ Answered /\ Recorded

\* The types that the steps below keep needing.
LEMMA BookTypes ==
  ASSUME TInv
  PROVE  /\ filled \in [Orders -> Nat] /\ applied \in [Orders -> Nat]
         /\ missed \in [Orders -> Nat] /\ done \in [Orders -> BOOLEAN]
         /\ final \in [Orders -> FinalState] /\ state \in [Orders -> EngineState]
         /\ cur \in 0..(N + 1) /\ cur \in Int /\ read \in Int /\ Len(log) \in Nat
         /\ read \in 0..Len(log) /\ Orders = 1..N /\ N \in Nat
         /\ Inflight => cur \in Orders
         /\ outcomes \in Seq(Outcome) /\ Len(outcomes) \in Nat
         /\ \A o \in 1..Len(outcomes) : /\ o \in Orders /\ o < cur
                                        /\ outcomes[o].filled \in Nat
                                        /\ outcomes[o].final \in FinalState
         /\ \A o \in Orders : o < cur => o \in 1..Len(outcomes)
<1>1. /\ outcomes \in Seq(Outcome) /\ Len(outcomes) \in Nat /\ Len(log) \in Nat
      /\ cur \in 0..(N + 1) /\ N \in Nat /\ cur \in Int
      /\ cur > 0 => Len(outcomes) = cur - 1
      /\ cur = 0 => Len(outcomes) = 0
  BY LoopAssumption, LenProperties
     DEF TInv, TypeOK, DriverType, EngineType, Cursor
<1>2. \A o \in 1..Len(outcomes) : outcomes[o] \in Outcome
  BY <1>1, ElementOfSeq
<1>3. \A o \in 1..Len(outcomes) : /\ outcomes[o].filled \in Nat
                                  /\ outcomes[o].final \in FinalState
  BY <1>2 DEF Outcome
<1>4. \A o \in 1..Len(outcomes) : o \in Orders /\ o < cur
  BY <1>1 DEF Orders
<1>5. \A o \in Orders : o < cur => o \in 1..Len(outcomes)
  BY <1>1 DEF Orders
<1>6. QED
  BY <1>1, <1>3, <1>4, <1>5
     DEF TInv, TypeOK, TrackerType, EngineType, BookType, Cursor, Orders

\* At the start nothing is sent, heard or recorded.
LEMMA OutcomesInit == TInv /\ Init => OInv
<1> SUFFICES ASSUME TInv, Init PROVE OInv
  OBVIOUS
<1>1. Len(log) = 0 /\ Len(outcomes) = 0
  BY DEF Init
<1>2. EngineLog /\ Recorded
  BY <1>1 DEF Init, EngineLog, Recorded
<1>3. Accounted /\ Unheard /\ Answered
  BY DEF Init, Accounted, Unheard, Answered, Inflight
<1>4. QED
  BY <1>2, <1>3 DEF OInv

\* A step that leaves the books, the engine and the trackers alone.
LEMMA QuietOutcomes ==
  ASSUME OInv, Answered', Inflight' => Inflight,
         UNCHANGED <<state, filled, log, read, missed, applied, done, final,
                     outcomes, cur, late>>,
         consumer' = "connecting" => consumer = "connecting",
         Inflight' /\ consumer = "connecting" => consumer' = "connecting"
  PROVE  OInv'
<1>1. EngineLog' /\ Recorded' /\ Unheard'
  BY DEF OInv, EngineLog, LastOf, Follows, Recorded, Unheard
<1>2. Accounted'
  BY DEF OInv, Accounted, LastOf, Follows
<1>3. QED
  BY <1>1, <1>2 DEF OInv

\* The next order begins with nothing of it sent, filled or missed.
LEMMA BeginOutcomes ==
  ASSUME TInv, LInv, OInv, NEW i \in 1..(N + 1), i > cur, NEW p, Begin(i, p),
         UNCHANGED <<state, filled, log, read, missed>>,
         \A o \in Orders : o > cur => applied'[o] = applied[o] /\ done'[o] = done[o]
  PROVE  EngineLog' /\ Accounted' /\ Unheard' /\ Answered'
<1>1. cur' = i /\ i \in Int /\ TypeOK
  BY BeginType, BookTypes DEF TInv
<1>2. EngineLog'
  BY DEF OInv, EngineLog, LastOf, Follows
<1>3. Unheard'
  <2>1. consumer' \in {consumer, "stopped"}
    BY DEF Begin, Abort
  <2>2. QED
    BY <1>1, <2>1, BookTypes DEF OInv, Unheard
<1>4. CASE pc' = "post"
  <2>1. i \in Orders /\ net'.kind = "waiting" /\ consumer' = consumer
    BY <1>4 DEF Begin, Send, Abort, Orders, Waiting, Answer
  <2>2. applied'[i] = 0 /\ state[i] = "absent" /\ ~done'[i] /\ missed[i] = 0
    BY <2>1 DEF LInv, Fresh, OInv, Unheard
  <2>3. filled[i] = 0
    BY <2>1, <2>2 DEF OInv, EngineLog
  <2>4. \A j \in 1..Len(log) : log[j].o # i
    BY <1>1, BookTypes, LogTyped DEF LInv, Fresh, TInv, TypeOK
  <2>5. Accounted'
    BY <1>1, <2>1, <2>2, <2>3, <2>4 DEF Accounted, Follows
  <2>6. Answered'
    BY <1>4, <2>1 DEF Answered, Envelope, Answer
  <2>7. QED
    BY <1>2, <1>3, <2>5, <2>6
<1>5. CASE pc' # "post"
  <2>1. pc' \in {"finished", "aborted"}
    BY <1>1, <1>5, BeginType
  <2>2. QED
    BY <1>2, <1>3, <2>1 DEF Accounted, Answered, Inflight
<1>6. QED
  BY <1>4, <1>5

\* An outcome that says what the engine has is recorded as such.
LEMMA RecordOutcomes ==
  ASSUME TInv, LInv, OInv, Inflight, NEW f \in FinalState, NEW a \in Nat, NEW p,
         Record(f, a, p), UNCHANGED <<state, filled, log, read, missed, late>>,
         applied' \in [Orders -> Nat], applied'[cur] = a,
         \A o \in Orders : o # cur => applied'[o] = applied[o] /\ done'[o] = done[o],
         a <= filled[cur],
         f \in Ended => state[cur] = f /\ filled[cur] - a <= missed[cur],
         f = "REJECTED" => state[cur] = "absent"
  PROVE  OInv'
<1> DEFINE new == [final |-> f, filled |-> a]
<1>1. cur \in Orders /\ cur + 1 \in 1..(N + 1) /\ cur + 1 > cur /\ Begin(cur + 1, p)
  BY BookTypes DEF Record
<1>2. EngineLog' /\ Accounted' /\ Unheard' /\ Answered'
  BY <1>1, BeginOutcomes, BookTypes
<1>3. /\ Len(outcomes) = cur - 1 /\ Len(outcomes') = cur
      /\ outcomes'[cur] = new
      /\ \A o \in 1..Len(outcomes) : outcomes'[o] = outcomes[o]
  <2>1. Len(outcomes) = cur - 1
    BY <1>1, BookTypes DEF TInv, Cursor
  <2>2. new \in Outcome
    BY DEF Outcome
  <2>3. outcomes' = Append(outcomes, new)
    BY DEF Record
  <2> HIDE DEF new
  <2>4. QED
    BY <2>1, <2>2, <2>3, BookTypes, AppendProperties
<1>4. ASSUME NEW o \in 1..Len(outcomes')
      PROVE  /\ outcomes'[o].filled <= filled'[o]
             /\ outcomes'[o].final \in Ended =>
                  /\ state'[o] = outcomes'[o].final
                  /\ filled'[o] - outcomes'[o].filled <= missed'[o]
             /\ outcomes'[o].final = "REJECTED" => state'[o] = "absent"
             /\ ~late' => applied'[o] = outcomes'[o].filled
  <2>1. CASE o = cur
    BY <1>3, <2>1
  <2>2. CASE o # cur
    <3>1. o \in 1..Len(outcomes) /\ o \in Orders
      BY <1>1, <1>3, <2>2, BookTypes
    <3>2. outcomes'[o] = outcomes[o] /\ applied'[o] = applied[o]
      BY <1>3, <2>2, <3>1
    <3>3. QED
      BY <3>1, <3>2 DEF OInv, Recorded
  <2>3. QED
    BY <2>1, <2>2
<1>5. QED
  BY <1>2, <1>4 DEF OInv, Recorded

\* A new event goes on where the last one of its order stopped.
LEMMA EmitOutcomes ==
  ASSUME TInv, LInv, OInv, NEW o \in Orders, o <= cur, NEW q \in Nat,
         NEW end \in {"no"} \cup Ended, Emit(o, q, end), state[o] = "working",
         filled' = [filled EXCEPT ![o] = @ + q],
         state' = [state EXCEPT ![o] = IF end = "no" THEN @ ELSE end],
         UNCHANGED <<driver, consumer, read, missed, applied, done, final, outcomes, late>>
  PROVE  OInv'
<1> DEFINE new == [o |-> o, qty |-> q, before |-> filled[o], end |-> end]
           n == Len(log) + 1
<1>1. /\ n \in Nat /\ Len(log') = n /\ log'[n] = new
      /\ \A j \in 1..Len(log) : log'[j] = log[j]
  <2>1. log \in Seq(Event) /\ log' = Append(log, new) /\ new \in Event
    BY BookTypes DEF Emit, TInv, TypeOK, EngineType, Event
  <2> HIDE DEF new
  <2>2. QED
    BY <2>1, AppendProperties, LenProperties
<1>2. \A j \in 1..Len(log') : j \in 1..Len(log) \/ j = n
  BY <1>1
<1>3. \A j \in 1..Len(log) : j \in 1..Len(log') /\ j # n /\ j < n /\ log[j].o \in Orders
  BY <1>1, LogTyped DEF TInv, TypeOK
<1>4. n \in 1..Len(log') /\ new.o = o /\ new.qty = q /\ new.before = filled[o] /\ new.end = end
  BY <1>1
<1> HIDE DEF new
<1>5. /\ \A k \in Orders : k # o => filled'[k] = filled[k] /\ state'[k] = state[k]
      /\ filled'[o] = filled[o] + q /\ state'[o] = (IF end = "no" THEN "working" ELSE end)
      /\ filled[o] \in Nat
  BY BookTypes
\* What the new event changes in the order of events.
<1>6. \A k \in Orders : \A r \in 0..Len(log) :
        LastOf(log', k, r) <=> LastOf(log, k, r) /\ k # o
  <2> SUFFICES ASSUME NEW k \in Orders, NEW r \in 0..Len(log)
               PROVE  LastOf(log', k, r) <=> LastOf(log, k, r) /\ k # o
    OBVIOUS
  <2>1. r < n
    BY <1>1
  <2>2. ASSUME LastOf(log', k, r) PROVE LastOf(log, k, r) /\ k # o
    BY <1>1, <1>3, <1>4, <2>1, <2>2 DEF LastOf
  <2>3. ASSUME LastOf(log, k, r), k # o PROVE LastOf(log', k, r)
    BY <1>1, <1>2, <1>4, <2>3 DEF LastOf
  <2>4. QED
    BY <2>2, <2>3
<1>7. \A k \in Orders : \A r \in 0..Len(log) : \A j \in 1..Len(log) :
        Follows(log', k, r, j) => Follows(log, k, r, j)
  BY <1>1, <1>3 DEF Follows
<1>8. \A k \in Orders : \A r \in 0..Len(log) :
        Follows(log', k, r, n) => LastOf(log, k, r) /\ k = o
  BY <1>1, <1>3, <1>4 DEF Follows, LastOf
<1>9. \A k \in Orders : \A j \in 1..Len(log') : ~Follows(log', k, n, j)
  BY <1>1, <1>2 DEF Follows
<1>10. LastOf(log', o, n)
  BY <1>1 DEF LastOf
<1>11. EngineLog'
  <2>1. \A k \in Orders : state'[k] = "absent" => filled'[k] = 0
    BY <1>5 DEF OInv, EngineLog, Ended
  <2>2. ASSUME NEW i \in 1..Len(log')
        PROVE  /\ log'[i].end # "no" => state'[log'[i].o] = log'[i].end /\ LastOf(log', log'[i].o, i)
               /\ LastOf(log', log'[i].o, i) => log'[i].before + log'[i].qty = filled'[log'[i].o]
               /\ \A j \in 1..Len(log') : Follows(log', log'[i].o, i, j) =>
                    log'[j].before = log'[i].before + log'[i].qty
    <3>1. CASE i \in 1..Len(log)
      <4>1. log'[i] = log[i] /\ log[i].o \in Orders /\ i \in 0..Len(log)
        BY <1>1, <1>3, <3>1
      <4>2. ASSUME log[i].end # "no" PROVE log[i].o # o
        BY <3>1, <4>2, LogTyped DEF OInv, EngineLog, Ended, TInv, TypeOK, Event
      <4>3. log'[i].end # "no" => state'[log'[i].o] = log'[i].end /\ LastOf(log', log'[i].o, i)
        BY <1>5, <1>6, <3>1, <4>1, <4>2 DEF OInv, EngineLog
      <4>4. LastOf(log', log'[i].o, i) => log'[i].before + log'[i].qty = filled'[log'[i].o]
        BY <1>5, <1>6, <3>1, <4>1 DEF OInv, EngineLog
      <4>5. ASSUME NEW j \in 1..Len(log'), Follows(log', log'[i].o, i, j)
            PROVE  log'[j].before = log'[i].before + log'[i].qty
        <5>1. CASE j \in 1..Len(log)
          BY <1>1, <1>7, <3>1, <4>1, <4>5, <5>1 DEF OInv, EngineLog
        <5>2. CASE j = n
          BY <1>1, <1>4, <1>8, <3>1, <4>1, <4>5, <5>2 DEF OInv, EngineLog
        <5>3. QED
          BY <1>2, <5>1, <5>2
      <4>6. QED
        BY <4>3, <4>4, <4>5
    <3>2. CASE i = n
      <4>1. log'[i] = new
        BY <1>1, <3>2
      <4>2. \A j \in 1..Len(log') : ~Follows(log', log'[i].o, i, j)
        BY <1>4, <1>9, <3>2, <4>1
      <4>3. LastOf(log', log'[i].o, i)
        BY <1>4, <1>10, <3>2, <4>1
      <4>4. QED
        BY <1>4, <1>5, <4>1, <4>2, <4>3
    <3>3. QED
      BY <1>2, <3>1, <3>2
  <2>3. QED
    BY <2>1, <2>2 DEF EngineLog
<1>12. Accounted'
  <2> SUFFICES ASSUME Inflight PROVE Accounted'
    BY DEF Accounted, Inflight, driver
  <2>1. cur \in Orders /\ read \in 0..Len(log)
    BY BookTypes
  <2>2. CASE consumer = "connecting"
    BY <2>2 DEF OInv, Accounted, driver
  <2>3. CASE consumer # "connecting"
    <3>1. LastOf(log', cur, read) => applied[cur] + missed[cur] = filled'[cur]
      BY <1>5, <1>6, <2>1, <2>3 DEF OInv, Accounted
    <3>2. ASSUME NEW j \in 1..Len(log'), Follows(log', cur, read, j)
          PROVE  applied[cur] + missed[cur] = log'[j].before
      <4>1. CASE j \in 1..Len(log)
        BY <1>1, <1>7, <2>1, <2>3, <3>2, <4>1 DEF OInv, Accounted, driver
      <4>2. CASE j = n
        BY <1>1, <1>4, <1>8, <2>1, <2>3, <3>2, <4>2 DEF OInv, Accounted, driver
      <4>3. QED
        BY <1>2, <4>1, <4>2
    <3>3. ASSUME done[cur]
          PROVE  LastOf(log', cur, read) /\ final[cur] \in Ended /\ state'[cur] = final[cur]
      <4>1. LastOf(log, cur, read) /\ final[cur] \in Ended /\ state[cur] = final[cur]
        BY <2>3, <3>3 DEF OInv, Accounted
      <4>2. cur # o
        BY <4>1 DEF Ended
      <4>3. QED
        BY <1>5, <1>6, <2>1, <4>1, <4>2
    <3>4. QED
      BY <2>3, <3>1, <3>2, <3>3 DEF Accounted, driver
  <2>4. QED
    BY <2>2, <2>3
<1>13. Unheard'
  BY DEF OInv, Unheard, driver
<1>14. Answered'
  <2>1. pc \in {"post", "get"} => cur \in Orders
    BY BookTypes DEF Inflight
  <2>2. QED
    BY <1>5, <2>1 DEF OInv, Answered, Ended, driver
<1>15. Recorded'
  <2> SUFFICES ASSUME NEW k \in 1..Len(outcomes)
               PROVE  /\ outcomes[k].filled <= filled'[k]
                      /\ outcomes[k].final \in Ended =>
                           /\ state'[k] = outcomes[k].final
                           /\ filled'[k] - outcomes[k].filled <= missed[k]
                      /\ outcomes[k].final = "REJECTED" => state'[k] = "absent"
                      /\ ~late => applied[k] = outcomes[k].filled
    BY DEF Recorded
  <2>1. k \in Orders /\ outcomes[k].filled \in Nat /\ filled[k] \in Nat
    BY BookTypes
  <2>2. CASE k = o
    BY <1>5, <2>1, <2>2 DEF OInv, Recorded, Ended
  <2>3. CASE k # o
    BY <1>5, <2>1, <2>3 DEF OInv, Recorded
  <2>4. QED
    BY <2>2, <2>3
<1>16. QED
  BY <1>11, <1>12, <1>13, <1>14, <1>15 DEF OInv


\* The consumer moves past one event, which it applies or the engine dropped:
\* either way the count of its order goes on to where the next event starts.
LEMMA AdvanceOutcomes ==
  ASSUME TInv, LInv, OInv, consumer = "open", read < Len(log), read' = read + 1,
         UNCHANGED <<state, filled, log, outcomes, driver, consumer>>,
         NEW e, e = log[read + 1],
         applied' \in [Orders -> Nat], missed' \in [Orders -> Nat],
         \A k \in Orders : k # e.o =>
           /\ applied'[k] = applied[k] /\ missed'[k] = missed[k]
           /\ done'[k] = done[k] /\ final'[k] = final[k],
         applied'[e.o] + missed'[e.o] = applied[e.o] + missed[e.o] + e.qty,
         missed[e.o] <= missed'[e.o],
         \/ done'[e.o] = done[e.o] /\ final'[e.o] = final[e.o]
         \/ e.end # "no" /\ final'[e.o] = e.end,
         ~late' => ~late /\ (e.o < cur => applied'[e.o] = applied[e.o])
  PROVE  OInv'
<1>1. /\ read + 1 \in 1..Len(log) /\ read \in 0..Len(log) /\ read \in Int
      /\ e.o \in Orders /\ e.qty \in Nat /\ e.before \in Nat
      /\ e.end \in {"no"} \cup Ended /\ e.o <= cur
  <2>1. read + 1 \in 1..Len(log) /\ read \in 0..Len(log) /\ read \in Int
    BY BookTypes
  <2>2. e.o <= cur
    BY <2>1 DEF LInv, Fresh
  <2>3. QED
    BY <2>1, <2>2, LogTyped DEF TInv, TypeOK
<1>2. EngineLog' /\ Answered'
  BY DEF OInv, EngineLog, Answered, driver
<1>3. Unheard'
  <2>1. \A k \in Orders : k > cur => k # e.o
    BY <1>1, BookTypes
  <2>2. QED
    BY <2>1 DEF OInv, Unheard, driver
<1>4. ASSUME Inflight, e.o = cur
      PROVE  /\ applied[cur] + missed[cur] = e.before /\ ~done[cur]
             /\ LastOf(log, cur, read + 1) => e.before + e.qty = filled[cur]
             /\ \A j \in 1..Len(log) :
                  Follows(log, cur, read + 1, j) => e.before + e.qty = log[j].before
             /\ e.end # "no" => LastOf(log, cur, read + 1) /\ state[cur] = e.end
  <2>1. Follows(log, cur, read, read + 1) /\ ~LastOf(log, cur, read)
    BY <1>1, <1>4 DEF Follows, LastOf
  <2>2. applied[cur] + missed[cur] = e.before /\ ~done[cur]
    BY <1>1, <1>4, <2>1 DEF OInv, Accounted
  <2>3. QED
    BY <1>1, <1>4, <2>2 DEF OInv, EngineLog
<1>5. ASSUME e.o # cur
      PROVE  /\ LastOf(log, cur, read + 1) <=> LastOf(log, cur, read)
             /\ \A j \in 1..Len(log) :
                  Follows(log, cur, read + 1, j) => Follows(log, cur, read, j)
  <2>1. \A j \in 1..Len(log) : read < j => j = read + 1 \/ read + 1 < j
    BY <1>1
  <2>2. \A j \in 1..Len(log) : read + 1 < j => read < j
    BY <1>1
  <2>3. QED
    BY <1>5, <2>1, <2>2 DEF LastOf, Follows
<1>6. Accounted'
  <2> SUFFICES ASSUME Inflight
               PROVE  /\ LastOf(log, cur, read + 1) => applied'[cur] + missed'[cur] = filled[cur]
                      /\ \A j \in 1..Len(log) : Follows(log, cur, read + 1, j) =>
                           applied'[cur] + missed'[cur] = log[j].before
                      /\ done'[cur] => /\ LastOf(log, cur, read + 1)
                                       /\ final'[cur] \in Ended /\ state[cur] = final'[cur]
    BY DEF Accounted, Inflight, driver
  <2>1. cur \in Orders
    BY BookTypes
  <2>2. CASE e.o = cur
    BY <1>1, <1>4, <2>2
  <2>3. CASE e.o # cur
    BY <1>5, <2>1, <2>3 DEF OInv, Accounted
  <2>4. QED
    BY <2>2, <2>3
<1>7. Recorded'
  <2> SUFFICES ASSUME NEW k \in 1..Len(outcomes)
               PROVE  /\ outcomes[k].filled <= filled[k]
                      /\ outcomes[k].final \in Ended =>
                           /\ state[k] = outcomes[k].final
                           /\ filled[k] - outcomes[k].filled <= missed'[k]
                      /\ outcomes[k].final = "REJECTED" => state[k] = "absent"
                      /\ ~late' => applied'[k] = outcomes[k].filled
    BY DEF Recorded
  <2>1. /\ k \in Orders /\ k < cur /\ outcomes[k].filled \in Nat /\ filled[k] \in Nat
        /\ missed[k] \in Nat /\ missed'[k] \in Nat /\ missed[k] <= missed'[k]
    <3>1. k \in Orders
      BY BookTypes
    <3>2. missed[k] \in Nat /\ missed'[k] \in Nat
      BY <3>1, BookTypes
    <3>3. missed'[k] = missed[k] \/ missed[k] <= missed'[k]
      BY <3>1
    <3>4. QED
      BY <3>1, <3>2, <3>3, BookTypes
  <2>2. ~late' => applied'[k] = outcomes[k].filled
    BY <2>1 DEF OInv, Recorded
  <2>3. QED
    BY <2>1, <2>2 DEF OInv, Recorded
<1>8. QED
  BY <1>2, <1>3, <1>6, <1>7 DEF OInv

\* A stream that opens counts all that was filled before as missed.
LEMMA OpenOutcomes == TInv /\ LInv /\ OInv /\ StreamOpens => OInv'
<1> SUFFICES ASSUME TInv, LInv, OInv, StreamOpens PROVE OInv'
  OBVIOUS
<1>1. /\ consumer = "connecting" /\ read' = Len(log)
      /\ consumer' = "open" /\ missed' = [o \in Orders |-> filled[o]]
      /\ UNCHANGED <<driver, trackers, outcomes, engine, late>>
  BY DEF StreamOpens
<1> USE DEF driver, trackers, engine
<1>2. EngineLog' /\ Answered'
  BY <1>1 DEF OInv, EngineLog, Answered
<1>3. Unheard'
  <2>1. \A o \in Orders : o > cur => filled[o] = 0 /\ ~done[o]
    BY DEF OInv, EngineLog, Unheard, LInv, Fresh
  <2>2. QED
    BY <1>1, <2>1 DEF Unheard
<1>4. Accounted'
  <2> SUFFICES ASSUME Inflight PROVE Accounted'
    BY <1>1 DEF Accounted, Inflight
  <2>1. cur \in Orders /\ applied[cur] = 0 /\ ~done[cur] /\ filled[cur] \in Nat
    BY <1>1, BookTypes DEF OInv, Accounted
  <2>2. \A j \in 1..Len(log) : ~(Len(log) < j)
    BY BookTypes
  <2>3. QED
    BY <1>1, <2>1, <2>2 DEF Accounted, Follows
<1>5. Recorded'
  <2>1. ASSUME NEW k \in 1..Len(outcomes), outcomes[k].final \in Ended
        PROVE  filled[k] - outcomes[k].filled <= missed'[k]
    <3>1. k \in Orders /\ filled[k] \in Nat /\ outcomes[k].filled \in Nat
      BY <2>1, BookTypes
    <3>2. QED
      BY <1>1, <3>1
  <2>2. QED
    BY <1>1, <2>1 DEF OInv, Recorded
<1>6. QED
  BY <1>2, <1>3, <1>4, <1>5 DEF OInv

\* An order that is done is recorded with the engine's own end.
LEMMA DoneOutcomes ==
  ASSUME TInv, LInv, OInv, Inflight, done[cur], RecordDone
  PROVE  OInv'
<1>1. /\ cur \in Orders /\ applied[cur] \in Nat /\ missed[cur] \in Nat
      /\ filled[cur] \in Nat /\ final[cur] \in FinalState
      /\ applied \in [Orders -> Nat]
  BY BookTypes
<1>2. final[cur] \in Ended /\ state[cur] = final[cur]
      /\ applied[cur] + missed[cur] = filled[cur]
  BY DEF OInv, Accounted
<1>3. /\ Record(final[cur], applied[cur], pos)
      /\ UNCHANGED <<state, filled, log, read, missed, late, applied, done>>
  BY DEF RecordDone, engine, history
<1>4. applied[cur] <= filled[cur] /\ filled[cur] - applied[cur] <= missed[cur]
  BY <1>1, <1>2
<1>5. final[cur] # "REJECTED"
  BY <1>2 DEF Ended
<1> QED
  BY <1>1, <1>2, <1>3, <1>4, <1>5, RecordOutcomes

\* A rejected order is one the engine does not have.
LEMMA RejectOutcomes == TInv /\ LInv /\ OInv /\ SubmitRejected => OInv'
<1> SUFFICES ASSUME TInv, LInv, OInv, SubmitRejected PROVE OInv'
  OBVIOUS
<1>1. Inflight /\ state[cur] = "absent"
  BY DEF SubmitRejected, Inflight, OInv, Answered
<1>2. cur \in Orders /\ applied \in [Orders -> Nat] /\ done \in [Orders -> BOOLEAN]
  BY <1>1, BookTypes
<1>3. /\ Record("REJECTED", applied[cur], pos) /\ done' = [done EXCEPT ![cur] = TRUE]
      /\ UNCHANGED <<state, filled, log, read, missed, late, applied>>
  BY DEF SubmitRejected, engine, history
<1>4. applied[cur] <= filled[cur] /\ "REJECTED" \in FinalState /\ "REJECTED" \notin Ended
  BY <1>1 DEF LInv, Current, FinalState, Ended
<1> QED
  BY <1>1, <1>2, <1>3, <1>4, RecordOutcomes

\* A GET that says an end says all that was filled.
LEMMA ReconcileOutcomes == TInv /\ LInv /\ OInv /\ Reconcile => OInv'
<1> SUFFICES ASSUME TInv, LInv, OInv, Reconcile PROVE OInv'
  OBVIOUS
<1>1. /\ pc = "get" /\ net.kind = "order" /\ Inflight
      /\ UNCHANGED <<state, filled, log, read, missed, late>>
  BY DEF Reconcile, Inflight, engine
<1>2. /\ cur \in Orders /\ applied \in [Orders -> Nat] /\ done \in [Orders -> BOOLEAN]
      /\ applied[cur] \in Nat /\ filled[cur] \in Nat /\ missed[cur] \in Nat
      /\ applied[cur] <= filled[cur]
  BY <1>1, BookTypes DEF LInv, Current
<1>3. CASE net.state \in Ended
  <2> DEFINE gain == Residual(net, applied[cur])
             p == IF gain > 0 THEN ApplyFill(pos, instr[cur].dir, effect[cur], gain)
                              ELSE pos
  <2>1. /\ applied' = [applied EXCEPT ![cur] = @ + gain]
        /\ done' = [done EXCEPT ![cur] = TRUE]
        /\ Record(net.state, applied[cur] + gain, p)
    BY <1>3 DEF Reconcile
  <2>2. net.filled = filled[cur] /\ state[cur] = net.state
    BY <1>1, <1>3 DEF OInv, Answered
  <2>3. gain = filled[cur] - applied[cur]
    BY <1>2, <2>2 DEF Residual, Priced, Gain
  <2> HIDE DEF gain, p
  <2>4. applied[cur] + gain = filled[cur]
    BY <1>2, <2>3
  <2>5. /\ applied'[cur] = filled[cur] /\ applied' \in [Orders -> Nat]
        /\ \A o \in Orders : o # cur => applied'[o] = applied[o] /\ done'[o] = done[o]
    BY <1>2, <2>1, <2>4
  <2>6. net.state \in FinalState /\ net.state # "REJECTED" /\ filled[cur] - filled[cur] = 0
    BY <1>2, <1>3 DEF FinalState, Ended
  <2>7. Record(net.state, filled[cur], p)
    BY <2>1, <2>4
  <2>8. filled[cur] <= filled[cur] /\ filled[cur] - filled[cur] <= missed[cur]
    BY <1>2
  <2> QED
    BY <1>1, <1>2, <2>2, <2>5, <2>6, <2>7, <2>8, RecordOutcomes
<1>4. CASE net.state \notin Ended
  <2>1. Record("None", applied[cur], pos) /\ UNCHANGED <<applied, done>>
    BY <1>4 DEF Reconcile
  <2>2. "None" \in FinalState /\ "None" \notin Ended /\ "None" # "REJECTED"
    BY DEF FinalState, Ended
  <2> QED
    BY <1>1, <1>2, <2>1, <2>2, RecordOutcomes
<1> QED
  BY <1>3, <1>4

\* The engine takes an order it does not have.
LEMMA AcceptOutcomes == TInv /\ LInv /\ OInv /\ EngineAccepts => OInv'
<1> SUFFICES ASSUME TInv, LInv, OInv, EngineAccepts PROVE OInv'
  OBVIOUS
<1>1. /\ pc = "post" /\ Inflight /\ net' = Ack
      /\ state' = [state EXCEPT ![cur] = IF @ = "absent" THEN "working" ELSE @]
      /\ UNCHANGED <<pc, cur, consumer, trackers, outcomes, filled, log, read, missed, late>>
  BY DEF EngineAccepts, Inflight, history
<1> USE DEF trackers
<1>2. /\ cur \in Orders /\ state \in [Orders -> EngineState]
      /\ \A o \in Orders : /\ state'[o] # state[o] => state[o] = "absent" /\ o = cur
                           /\ state'[o] = "absent" => state[o] = "absent"
  BY <1>1, BookTypes
<1>3. EngineLog'
  <2>1. \A i \in 1..Len(log) : log[i].end # "no" =>
           log[i].o \in Orders /\ state[log[i].o] # "absent"
    BY LogTyped DEF OInv, EngineLog, TInv, TypeOK, Ended
  <2>2. \A i \in 1..Len(log) : log[i].end # "no" => state'[log[i].o] = log[i].end
    BY <1>2, <2>1 DEF OInv, EngineLog
  <2>3. QED
    BY <1>1, <1>2, <2>2 DEF OInv, EngineLog
<1>4. Accounted'
  <2>1. done[cur] /\ consumer # "connecting" => state'[cur] = state[cur]
    BY <1>1, <1>2 DEF OInv, Accounted, Ended
  <2>2. QED
    BY <1>1, <2>1 DEF OInv, Accounted, Inflight
<1>5. Unheard' /\ Answered'
  BY <1>1 DEF OInv, Unheard, Answered, Ack, Envelope, Answer
<1>6. Recorded'
  <2>1. \A o \in 1..Len(outcomes) : state'[o] = state[o]
    BY <1>2, BookTypes
  <2>2. QED
    BY <1>1, <2>1 DEF OInv, Recorded
<1> QED
  BY <1>3, <1>4, <1>5, <1>6 DEF OInv

\* Every step keeps the account of the outcomes.
LEMMA OutcomesStep == TInv /\ LInv /\ OInv /\ TInv' /\ [Next]_vars => OInv'
<1> SUFFICES ASSUME TInv, LInv, OInv, TInv', [Next]_vars PROVE OInv'
  OBVIOUS
<1> USE DEF driver, trackers, engine, history
<1>0. /\ cur \in Int /\ filled \in [Orders -> Nat]
      /\ \A o \in Orders : o \in Int /\ (state[o] = "working" => o <= cur)
  <2>1. cur \in Int /\ filled \in [Orders -> Nat] /\ \A o \in Orders : o \in Int
    BY BookTypes
  <2>2. QED
    BY <2>1 DEF LInv, Fresh
<1>1. CASE HandshakeEnds
  <2>1. cur = 0 /\ Begin(1, pos) /\ 1 \in 1..(N + 1) /\ 1 > cur
        /\ UNCHANGED <<applied, done, outcomes, state, filled, log, read, missed, late>>
    BY <1>1, LoopAssumption DEF HandshakeEnds, TInv, Cursor
  <2>2. EngineLog' /\ Accounted' /\ Unheard' /\ Answered'
    BY <2>1, BeginOutcomes
  <2>3. Recorded'
    BY <2>1 DEF OInv, Recorded
  <2>4. QED
    BY <2>2, <2>3 DEF OInv
<1>2. CASE SubmitAcked
  <2>1. Inflight
    BY <1>2 DEF SubmitAcked, Inflight
  <2>2. CASE done[cur] /\ RecordDone
    BY <2>1, <2>2, DoneOutcomes
  <2>3. CASE ~(done[cur] /\ RecordDone)
    <3>1. Answered'
      BY <1>2, <2>3 DEF SubmitAcked, Send, Answered, Waiting, Answer
    <3>2. QED
      BY <1>2, <2>1, <2>3, <3>1, QuietOutcomes DEF SubmitAcked, Send
  <2>4. QED
    BY <2>2, <2>3
<1>3. CASE SubmitRejected
  BY <1>3, RejectOutcomes
<1>4. CASE WakeDone
  BY <1>4, DoneOutcomes DEF WakeDone, Inflight
<1>5. CASE OrderTimeout
  <2>1. Answered' /\ Inflight
    BY <1>5 DEF OrderTimeout, Send, Answered, Waiting, Answer, Inflight
  <2>2. QED
    BY <1>5, <2>1, QuietOutcomes DEF OrderTimeout
<1>6. CASE Reconcile
  BY <1>6, ReconcileOutcomes
<1>7. CASE RequestFails
  <2>1. CASE Exhausted
    <3>1. Answered' /\ ~Inflight'
      BY <2>1 DEF Exhausted, Abort, Answered, Inflight
    <3>2. QED
      BY <2>1, <3>1, QuietOutcomes DEF Exhausted, Abort
  <2>2. CASE ~Exhausted
    <3>1. Answered'
      BY <1>7, <2>2 DEF RequestFails, Answered, Waiting, Envelope, Answer
    <3>2. QED
      BY <1>7, <2>2, <3>1, QuietOutcomes DEF RequestFails, Inflight
  <2>3. QED
    BY <2>1, <2>2
<1>8. CASE RequestRefused
  <2>1. Answered' /\ ~Inflight'
    BY <1>8 DEF RequestRefused, Abort, Answered, Inflight
  <2>2. QED
    BY <1>8, <2>1, QuietOutcomes DEF RequestRefused, Abort
<1>9. CASE StreamOpens
  BY <1>9, OpenOutcomes
<1>10. CASE ConsumeEvent
  <2> DEFINE e == log[read + 1]
  <2>1. /\ consumer = "open" /\ read < Len(log) /\ read' = read + 1
        /\ UNCHANGED <<state, filled, log, outcomes, driver, consumer, missed>>
        /\ IF e.qty > 0 THEN /\ applied' = [applied EXCEPT ![e.o] = @ + e.qty]
                             /\ late' = (late \/ e.o < cur)
                        ELSE UNCHANGED <<applied, late>>
        /\ IF e.end # "no" THEN /\ final' = [final EXCEPT ![e.o] = e.end]
                                /\ done' = [done EXCEPT ![e.o] = TRUE]
                           ELSE UNCHANGED <<final, done>>
    BY <1>10 DEF ConsumeEvent, Next1
  <2>2. e.o \in Orders /\ e.qty \in Nat
    BY <2>1, BookTypes, LogTyped DEF TInv, TypeOK
  <2> HIDE DEF e
  <2>3. /\ applied \in [Orders -> Nat] /\ missed \in [Orders -> Nat] /\ late \in BOOLEAN
        /\ done \in [Orders -> BOOLEAN] /\ final \in [Orders -> FinalState]
    BY BookTypes DEF TInv, TypeOK, BookType
  <2>4. /\ applied' \in [Orders -> Nat] /\ missed' \in [Orders -> Nat]
        /\ \A k \in Orders : k # e.o => applied'[k] = applied[k] /\ missed'[k] = missed[k]
        /\ applied'[e.o] + missed'[e.o] = applied[e.o] + missed[e.o] + e.qty
        /\ missed[e.o] <= missed'[e.o]
    <3>1. CASE e.qty > 0
      <4>1. /\ applied' = [applied EXCEPT ![e.o] = @ + e.qty] /\ missed' = missed
            /\ applied[e.o] \in Nat /\ missed[e.o] \in Nat
        BY <2>1, <2>2, <2>3, <3>1
      <4>2. applied'[e.o] = applied[e.o] + e.qty
        BY <2>2, <2>3, <4>1
      <4>3. QED
        BY <2>2, <2>3, <4>1, <4>2
    <3>2. CASE e.qty = 0
      BY <2>1, <2>2, <2>3, <3>2
    <3>3. QED
      BY <2>2, <3>1, <3>2
  <2>5. /\ \A k \in Orders : k # e.o => done'[k] = done[k] /\ final'[k] = final[k]
        /\ \/ done'[e.o] = done[e.o] /\ final'[e.o] = final[e.o]
           \/ e.end # "no" /\ final'[e.o] = e.end
    BY <2>1, <2>2, <2>3
  <2>6. ~late' => ~late /\ (e.o < cur => applied'[e.o] = applied[e.o])
    BY <2>1, <2>3
  <2>7. e = log[read + 1]
    BY DEF e
  <2>8. QED
    BY <2>1, <2>4, <2>5, <2>6, <2>7, AdvanceOutcomes
<1>11. CASE EventDropped
  <2> DEFINE e == log[read + 1]
  <2>1. /\ consumer = "open" /\ read < Len(log) /\ read' = read + 1
        /\ UNCHANGED <<state, filled, log, outcomes, driver, consumer, trackers, late>>
        /\ missed' = [missed EXCEPT ![e.o] = @ + e.qty]
    BY <1>11 DEF EventDropped, Next1
  <2>2. e.o \in Orders /\ e.qty \in Nat
    BY <2>1, BookTypes, LogTyped DEF TInv, TypeOK
  <2> HIDE DEF e
  <2>3. applied \in [Orders -> Nat] /\ missed \in [Orders -> Nat]
    BY BookTypes
  <2>4. /\ missed' \in [Orders -> Nat]
        /\ \A k \in Orders : k # e.o => missed'[k] = missed[k]
        /\ applied'[e.o] + missed'[e.o] = applied[e.o] + missed[e.o] + e.qty
        /\ missed[e.o] <= missed'[e.o]
    BY <2>1, <2>2, <2>3
  <2>5. e = log[read + 1] /\ applied' \in [Orders -> Nat]
    BY <2>1, <2>3 DEF e
  <2>6. QED
    BY <2>1, <2>4, <2>5, AdvanceOutcomes
<1>12. CASE StreamReset
  <2>1. Answered'
    BY <1>12 DEF StreamReset, OInv, Answered
  <2>2. QED
    BY <1>12, <2>1, QuietOutcomes DEF StreamReset, Inflight
<1>13. CASE StreamFails
  <2>1. Answered' /\ ~Inflight'
    BY <1>13 DEF StreamFails, Abort, Answered, Inflight
  <2>2. QED
    BY <1>13, <2>1, QuietOutcomes DEF StreamFails, Abort
<1>14. CASE EngineAccepts
  BY <1>14, AcceptOutcomes
<1>15. CASE EngineRejects
  <2>1. Answered'
    BY <1>15 DEF EngineRejects, Answered
  <2>2. QED
    BY <1>15, <2>1, QuietOutcomes DEF EngineRejects, Inflight
<1>16. CASE EngineAnswersGet
  <2>1. Answered'
    BY <1>16 DEF EngineAnswersGet, Answered, Snapshot, Answer
  <2>2. QED
    BY <1>16, <2>1, QuietOutcomes DEF EngineAnswersGet, Inflight
<1>17. CASE \E o \in Orders : \E q \in 1..MaxQty : EngineFills(o, q)
  <2>1. PICK o \in Orders, q \in 1..MaxQty : EngineFills(o, q)
    BY <1>17
  <2> DEFINE end == IF filled[o] + q = instr[o].qty THEN "FILLED" ELSE "no"
  <2>2. /\ Emit(o, q, end) /\ filled' = [filled EXCEPT ![o] = @ + q]
        /\ state[o] = "working"
        /\ state' = [state EXCEPT ![o] = IF end = "no" THEN @ ELSE end]
        /\ end \in {"no"} \cup Ended /\ q \in Nat
        /\ UNCHANGED <<driver, consumer, read, missed, applied, done, final, outcomes, late>>
    BY <2>1, LoopAssumption DEF EngineFills, Ended
  <2> HIDE DEF end
  <2>3. o <= cur
    BY <1>0, <2>2
  <2>4. QED
    BY <2>2, <2>3, EmitOutcomes
<1>18. CASE \E o \in Orders : EngineEnds(o)
  <2>1. PICK o \in Orders : EngineEnds(o)
    BY <1>18
  <2>2. /\ Emit(o, 0, "CANCELLED") /\ state[o] = "working" /\ filled' = filled
        /\ state' = [state EXCEPT ![o] = IF "CANCELLED" = "no" THEN @ ELSE "CANCELLED"]
        /\ "CANCELLED" \in {"no"} \cup Ended
        /\ UNCHANGED <<driver, consumer, read, missed, applied, done, final, outcomes, late>>
    BY <2>1 DEF EngineEnds, Ended
  <2>3. filled' = [filled EXCEPT ![o] = @ + 0] /\ o <= cur
    BY <1>0, <2>2
  <2>4. QED
    BY <2>2, <2>3, EmitOutcomes
<1>19. CASE UNCHANGED vars
  <2>1. Answered'
    BY <1>19 DEF vars, OInv, Answered
  <2>2. QED
    BY <1>19, <2>1, QuietOutcomes DEF vars, Inflight
<1>20. QED
  BY <1>1, <1>2, <1>3, <1>4, <1>5, <1>6, <1>7, <1>8, <1>9, <1>10, <1>11, <1>12,
     <1>13, <1>14, <1>15, <1>16, <1>17, <1>18, <1>19 DEF Next

\* What is recorded of an order never says more than the engine filled, and
\* less only by what the stream lost.
THEOREM OutcomesExact == Spec => []OutcomeExact
<1>1. OInv => OutcomeExact
  BY DEF OInv, Recorded, OutcomeExact
<1>2. Init => TInv /\ LInv /\ OInv
  BY TypeInit, LedgerInit, OutcomesInit
<1>3. TInv /\ LInv /\ OInv /\ [Next]_vars => TInv' /\ LInv' /\ OInv'
  BY TypeStep, LedgerStep, OutcomesStep
<1>4. QED
  BY <1>1, <1>2, <1>3, PTL DEF Spec

\* An end that is recorded is the engine's, and a rejection that is recorded is
\* of an order the engine does not have.
THEOREM OutcomesTrue == Spec => []OutcomeTrue
<1>1. TInv /\ OInv => OutcomeTrue
  <2> SUFFICES ASSUME TInv, OInv, NEW o \in 1..Len(outcomes)
               PROVE  /\ outcomes[o].final \in Ended => state[o] = outcomes[o].final
                      /\ outcomes[o].final = "REJECTED" => state[o] = "absent"
                      /\ state[o] = "working" => outcomes[o].final = "None"
    BY DEF OutcomeTrue
  <2>1. outcomes[o].final \in FinalState
    BY BookTypes
  <2>2. QED
    BY <2>1 DEF OInv, Recorded, FinalState, Ended
<1>2. Init => TInv /\ LInv /\ OInv
  BY TypeInit, LedgerInit, OutcomesInit
<1>3. TInv /\ LInv /\ OInv /\ [Next]_vars => TInv' /\ LInv' /\ OInv'
  BY TypeStep, LedgerStep, OutcomesStep
<1>4. QED
  BY <1>1, <1>2, <1>3, PTL DEF Spec

----------------------------------------------------------------------------
(* The books.  What is booked is the sum of what was applied of every      *)
(* order, and a run that finishes has recorded every order.                *)

Contribution == [o \in Orders |-> Signed(instr[o].dir, applied[o])]

BInv ==
  /\ booked = start + Total(Contribution)
  /\ pc = "finished" => cur = N + 1

\* Applying a fill to an order books it with the order's sign.
LEMMA BookingMoves ==
  ASSUME TInv, BInv, UNCHANGED <<instr, start>>, NEW o \in Orders, NEW q \in Nat,
         applied' = [applied EXCEPT ![o] = @ + q],
         booked' = booked + Signed(instr[o].dir, q)
  PROVE  booked' = start' + Total(Contribution')
<1>1. Contribution \in [Orders -> Int] /\ applied \in [Orders -> Nat]
  BY BookTypes DEF Contribution, Signed
<1>2. IsFiniteSet(Orders)
  BY LoopAssumption, FS_Interval DEF Orders
<1>3. Signed(instr[o].dir, q) \in Int
  BY DEF Signed
<1>4. Contribution' = [Contribution EXCEPT ![o] = @ + Signed(instr[o].dir, q)]
  <2>1. \A k \in Orders : k # o => applied'[k] = applied[k]
    BY <1>1
  <2>2. applied'[o] = applied[o] + q /\ applied[o] \in Nat
    BY <1>1
  <2>3. Signed(instr[o].dir, applied[o] + q) =
          Signed(instr[o].dir, applied[o]) + Signed(instr[o].dir, q)
    BY <2>2 DEF Signed
  <2>4. /\ \A k \in Orders : k # o => Contribution'[k] = Contribution[k]
        /\ Contribution'[o] = Contribution[o] + Signed(instr[o].dir, q)
    BY <2>1, <2>2, <2>3 DEF Contribution
  <2>5. Contribution' = [k \in Orders |-> Contribution'[k]]
    BY DEF Contribution
  <2>6. QED
    BY <1>1, <2>4, <2>5
<1>5. /\ Total(Contribution') =
           Total(Contribution) + Signed(instr[o].dir, q)
      /\ Total(Contribution) \in Int
  <2> DEFINE f == Contribution
             v == Signed(instr[o].dir, q)
  <2>1. f \in [Orders -> Int] /\ v \in Int /\ Contribution' = [f EXCEPT ![o] = @ + v]
    BY <1>1, <1>3, <1>4
  <2> HIDE DEF f, v
  <2>2. /\ Total([f EXCEPT ![o] = @ + v]) = Total(f) + v
        /\ Total(f) \in Int
    BY <1>2, <2>1, SumGrows
  <2>3. QED
    BY <2>1, <2>2 DEF f, v
<1>6. start \in Int
  BY LoopAssumption DEF TInv, TypeOK, BookType
<1> QED
  BY <1>3, <1>5, <1>6 DEF BInv

\* At the start nothing is applied and nothing is booked.
LEMMA BookingInit == TInv /\ Init => BInv
<1> SUFFICES ASSUME TInv, Init PROVE BInv
  OBVIOUS
<1>1. IsFiniteSet(Orders)
  BY LoopAssumption, FS_Interval DEF Orders
<1>2. Contribution \in [Orders -> Int] /\ \A o \in Orders : Contribution[o] = 0
  <2>1. \A o \in Orders : applied[o] = 0
    BY DEF Init
  <2>2. \A q \in Int : \A d :
           Signed(d, q) \in Int /\ (Signed(d, q) = q \/ Signed(d, q) + q = 0)
    BY DEF Signed
  <2>3. \A o \in Orders : Contribution[o] = 0
    BY <2>1, <2>2 DEF Contribution
  <2>4. Contribution = [o \in Orders |-> Contribution[o]]
    BY DEF Contribution
  <2>5. QED
    BY <2>3, <2>4
<1>3. Total(Contribution) = 0
  BY <1>1, <1>2, SumOfZeros
<1>4. start \in Int
  BY LoopAssumption DEF TInv, TypeOK, BookType
<1> QED
  BY <1>3, <1>4 DEF Init, BInv

\* Every step books what it applies.
LEMMA BookingStep == TInv /\ BInv /\ [Next]_vars => BInv'
<1> SUFFICES ASSUME TInv, BInv, [Next]_vars PROVE BInv'
  OBVIOUS
<1> USE DEF driver, trackers, engine, history
<1>1. TypeOK /\ cur \in Int /\ N \in Nat
      /\ (Inflight => cur + 1 \in 1..(N + 1)) /\ (cur = 0 => 1 \in 1..(N + 1))
  BY BookTypes DEF TInv
<1>2. ASSUME UNCHANGED <<instr, start, applied, booked>>
      PROVE  booked' = start' + Total(Contribution')
  BY <1>2 DEF BInv, Contribution
<1>3. ASSUME NEW f, NEW a, NEW p, Inflight, Record(f, a, p)
      PROVE  pc' = "finished" => cur' = N + 1
  BY <1>1, <1>3, BeginType DEF Record
<1>4. CASE HandshakeEnds
  <2>1. Begin(1, pos) /\ cur = 0
    BY <1>4 DEF HandshakeEnds, TInv, Cursor
  <2>2. pc' = "finished" => cur' = N + 1
    BY <1>1, <2>1, BeginType
  <2>3. QED
    BY <1>2, <1>4, <2>2 DEF BInv, HandshakeEnds
<1>5. CASE SubmitAcked \/ SubmitRejected \/ WakeDone
  <2>1. UNCHANGED <<instr, start, applied, booked>> /\ Inflight
    BY <1>5 DEF SubmitAcked, SubmitRejected, WakeDone, RecordDone, Inflight
  <2>2. pc' = "finished" => cur' = N + 1
    BY <1>3, <1>5, <2>1 DEF SubmitAcked, SubmitRejected, WakeDone, RecordDone, Send
  <2>3. QED
    BY <1>2, <2>1, <2>2 DEF BInv
<1>6. CASE Reconcile
  <2>1. Inflight /\ cur \in Orders /\ UNCHANGED <<instr, start>>
    BY <1>6, BookTypes DEF Reconcile, Inflight
  <2>2. CASE net.state \in Ended
    <3> DEFINE gain == Residual(net, applied[cur])
    <3>1. /\ applied' = [applied EXCEPT ![cur] = @ + gain]
          /\ booked' = booked + Signed(instr[cur].dir, gain)
          /\ \E p : Record(net.state, applied[cur] + gain, p)
      BY <1>6, <2>2 DEF Reconcile
    <3>2. gain \in Nat
      BY <2>1, BookTypes DEF Residual, Priced, Gain, TInv, TypeOK, DriverType
    <3> HIDE DEF gain
    <3>3. pc' = "finished" => cur' = N + 1
      BY <1>3, <2>1, <3>1
    <3>4. QED
      BY <2>1, <3>1, <3>2, <3>3, BookingMoves DEF BInv
  <2>3. CASE net.state \notin Ended
    <3>1. UNCHANGED <<applied, booked>> /\ Record("None", applied[cur], pos)
      BY <1>6, <2>3 DEF Reconcile
    <3>2. QED
      BY <1>2, <1>3, <2>1, <3>1 DEF BInv
  <2>4. QED
    BY <2>2, <2>3
<1>7. CASE ConsumeEvent
  <2> DEFINE e == Next1
  <2>1. /\ read < Len(log) /\ UNCHANGED <<instr, start, pc, cur>>
        /\ IF e.qty > 0
           THEN /\ applied' = [applied EXCEPT ![e.o] = @ + e.qty]
                /\ booked' = booked + Signed(instr[e.o].dir, e.qty)
           ELSE UNCHANGED <<applied, booked>>
    BY <1>7 DEF ConsumeEvent
  <2>2. e.o \in Orders /\ e.qty \in Nat
    BY <2>1, NextEvent DEF TInv, TypeOK
  <2> HIDE DEF e
  <2>3. booked' = start' + Total(Contribution')
    BY <1>2, <2>1, <2>2, BookingMoves
  <2>4. QED
    BY <2>1, <2>3 DEF BInv
<1>8. CASE OrderTimeout \/ RequestFails \/ RequestRefused
  BY <1>2, <1>8 DEF BInv, OrderTimeout, RequestFails, Exhausted, RequestRefused, Abort, Send
<1>9. CASE StreamOpens \/ EventDropped \/ StreamReset \/ StreamFails
  BY <1>2, <1>9 DEF BInv, StreamOpens, EventDropped, StreamReset, StreamFails, Abort
<1>10. CASE EngineAccepts \/ EngineRejects \/ EngineAnswersGet
  BY <1>2, <1>10 DEF BInv, EngineAccepts, EngineRejects, EngineAnswersGet
<1>11. CASE \E o \in Orders : \E q \in 1..MaxQty : EngineFills(o, q)
  BY <1>2, <1>11 DEF BInv, EngineFills
<1>12. CASE \E o \in Orders : EngineEnds(o)
  BY <1>2, <1>12 DEF BInv, EngineEnds
<1>13. CASE UNCHANGED vars
  BY <1>2, <1>13 DEF BInv, vars
<1>14. QED
  BY <1>4, <1>5, <1>6, <1>7, <1>8, <1>9, <1>10, <1>11, <1>12, <1>13 DEF Next

\* If the run finishes with every order at an end it heard all of, and no fill
\* after the order was recorded, its position is the start plus all that the
\* engine filled.
THEOREM BooksMatch == Spec => []BooksMatchEngine
<1>1. TInv /\ LInv /\ OInv /\ BInv => BooksMatchEngine
  <2> SUFFICES ASSUME TInv, LInv, OInv, BInv, pc = "finished", ~late,
                      \A o \in Orders : missed[o] = 0 /\ outcomes[o].final # "None"
               PROVE  pos = start + Total([o \in Orders |->
                                              Signed(instr[o].dir, filled[o])])
    BY Zenon DEF BooksMatchEngine, Total
  <2>1. pos = start + Total(Contribution)
    BY DEF LInv, Booked, BInv
  <2>2. ASSUME NEW o \in Orders PROVE applied[o] = filled[o]
    <3>1. o \in 1..Len(outcomes)
      BY BookTypes DEF BInv
    <3>2. /\ outcomes[o].filled \in Nat /\ outcomes[o].final \in FinalState
          /\ filled[o] \in Nat /\ outcomes[o].final # "None" /\ missed[o] = 0
      BY <3>1, BookTypes
    <3>3. /\ applied[o] = outcomes[o].filled /\ outcomes[o].filled <= filled[o]
          /\ outcomes[o].final \in Ended => filled[o] - outcomes[o].filled <= missed[o]
          /\ outcomes[o].final = "REJECTED" => state[o] = "absent"
      BY <3>1 DEF OInv, Recorded
    <3>4. CASE outcomes[o].final = "REJECTED"
      BY <3>2, <3>3, <3>4 DEF OInv, EngineLog
    <3>5. CASE outcomes[o].final \in Ended
      BY <3>2, <3>3, <3>5
    <3>6. QED
      BY <3>2, <3>4, <3>5 DEF FinalState
  <2>3. Contribution = [o \in Orders |-> Signed(instr[o].dir, filled[o])]
    BY <2>2 DEF Contribution
  <2>4. QED
    BY <2>1, <2>3
<1>2. Init => TInv /\ LInv /\ OInv /\ BInv
  BY TypeInit, LedgerInit, OutcomesInit, BookingInit
<1>3. TInv /\ LInv /\ OInv /\ BInv /\ [Next]_vars => TInv' /\ LInv' /\ OInv' /\ BInv'
  BY TypeStep, LedgerStep, OutcomesStep, BookingStep
<1>4. QED
  BY <1>1, <1>2, <1>3, PTL DEF Spec
=============================================================================
