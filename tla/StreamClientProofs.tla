------------------------- MODULE StreamClientProofs -------------------------
(***************************************************************************)
(* The SSE client's invariants and the proof that it is an event feed, for *)
(* any length of the log, limit of attempts and overlap.                   *)
(***************************************************************************)
EXTENDS StreamClient, SequenceTheorems, TLAPS

\* Only a stream that has not ended counts failures, and they are below the
\* limit.
AttemptsLeft == phase # "ended" => failures < MaxAttempts

\* A first connection has the caller's starting point; the first yielded event
\* moves the cursor off 0, and from then on it is not behind the base.
StartingPoint ==
  /\ first => phase = "connecting" /\ got = <<>> /\ base = cursor
  /\ first /\ ~given => cursor = 0
  /\ ~first /\ cursor = 0 => got = <<>>
  /\ cursor > 0 => base <= cursor

\* Where an open connection is: it repeats nothing from before its base, and
\* unless the engine leaves events out, none of this strategy lies between what
\* is behind the reader and what is sent next.
Connection ==
  phase = "open" =>
    /\ at <= Len(log) + 1
    /\ base <= cursor \/ base < at
    /\ Gaps \/ \A i \in (Max2(cursor, base) + 1)..(at - 1) : ~log[i]

\* What has been read of a frame is exactly what was sent of it, and the engine
\* could send it; nothing is left of a frame that a drop has cut.
Decoder ==
  phase = "open" =>
    /\ frame = IF sending = "nothing" THEN NoFrame ELSE Collected(NoFrame, sending, at)
    /\ sending # "nothing" => MaySend(sending)

\* Why it ended: nothing, before the end.
Cause == (phase # "ended" => exit = "none") /\ EndsForCause

IInv == TypeOK /\ AttemptsLeft /\ StartingPoint /\ Connection /\ Decoder /\ Cause

----------------------------------------------------------------------------
LEMMA InitIInv == Init => IInv
<1> SUFFICES ASSUME Init PROVE IInv
  OBVIOUS
<1>1. PICK n \in 0..MaxSeq : log \in [1..n -> BOOLEAN]
  BY DEF Init
<1>2. log \in Seq(BOOLEAN) /\ Len(log) = n
  BY <1>1, StreamAssumption, SeqDef DEF StreamAssumption
<1>3. cursor \in 0..Len(log)
  BY <1>2, StreamAssumption DEF Init, StreamAssumption
<1>4. base \in 0..Len(log) /\ heard \in 0..Len(log)
  BY <1>2, <1>3 DEF Init
<1>5. oldest \in 1..(MaxSeq + 1) /\ at \in 0..(MaxSeq + 1) /\ failures \in 0..MaxAttempts
  BY StreamAssumption DEF Init, StreamAssumption
<1>6. got \in Seq(1..MaxSeq)
  BY DEF Init
<1>7. first \in BOOLEAN /\ connected \in BOOLEAN /\ given \in BOOLEAN
  BY DEF Init
<1>8. frame \in [event_name : Advisories \cup {"update", "None"}, data_lines : Seq(Int)]
  BY DEF Init, NoFrame
<1>9. TypeOK
  BY <1>2, <1>3, <1>4, <1>5, <1>6, <1>7, <1>8 DEF Init, TypeOK
<1> QED
  BY <1>3, <1>9, StreamAssumption
  DEF Init, IInv, AttemptsLeft, StartingPoint, Connection, Decoder, Cause,
      EndsForCause, StreamAssumption

\* The blank line finds the lines of the frame that was sent, and no others.
LEMMA FrameRead ==
  ASSUME TypeOK, Decoder, BlankLine
  PROVE  /\ MaySend(sending)
         /\ sending \in Kinds
         /\ \A kind \in Advisories : frame.event_name = kind <=> sending = kind
         /\ Readable(frame.data_lines) <=> sending # "unreadable"
         /\ sending # "unreadable" => frame.data_lines[1] = at
<1>1. frame = Collected(NoFrame, sending, at) /\ MaySend(sending) /\ sending \in Kinds
  BY DEF TypeOK, Decoder, BlankLine
<1>2. at # Unreadable
  BY StreamAssumption DEF TypeOK, Unreadable, StreamAssumption
<1>3. frame.data_lines = <<IF sending = "unreadable" THEN Unreadable ELSE at>>
  BY <1>1 DEF Collected, NoFrame
<1>4. frame.event_name = IF sending = "unreadable" THEN "update" ELSE sending
  BY <1>1 DEF Collected
<1> QED
  BY <1>1, <1>2, <1>3, <1>4 DEF Readable, Kinds, Advisories

\* A step that ends the stream keeps the rest.
LEMMA Ended ==
  ASSUME IInv, NEW why \in {"refused", "reset", "invalid", "exhausted"}, End(why),
         UNCHANGED <<log, oldest, at, sending, given, frame, cursor, connected, got,
                     base, heard>>,
         first' = FALSE, failures' \in 0..MaxAttempts,
         why = "reset" => sending = "resync_required",
         why = "invalid" => sending = "unreadable"
  PROVE  IInv'
<1>1. TypeOK'
  BY DEF End, IInv, TypeOK
<1>2. first \in BOOLEAN
  BY DEF IInv, TypeOK
<1>3. StartingPoint'
  BY <1>2 DEF End, IInv, StartingPoint
<1> QED
  BY <1>1, <1>3 DEF End, IInv, AttemptsLeft, Connection, Decoder, Cause, EndsForCause

\* What an event of the log says, a later event leaves as it is.
LEMMA LogStands ==
  ASSUME TypeOK, NEW own \in BOOLEAN, log' = Append(log, own)
  PROVE  /\ log' \in Seq(BOOLEAN) /\ Len(log') = Len(log) + 1
         /\ \A i \in 1..Len(log) : log'[i] = log[i]
<1>1. log \in Seq(BOOLEAN)
  BY DEF TypeOK
<1> QED
  BY <1>1, AppendProperties

\* An interval that ends before it starts.
LEMMA NothingBetween ==
  \A a \in Nat, b \in Nat : b <= a + 1 => \A i \in (a + 1)..(b - 1) : FALSE
  OBVIOUS

LEMMA StepIInv == IInv /\ [Next]_vars => IInv'
<1> SUFFICES ASSUME IInv, [Next]_vars PROVE IInv'
  OBVIOUS
<1> USE StreamAssumption DEF StreamAssumption
<1>0. /\ Len(log) \in Nat /\ cursor \in 0..Len(log) /\ base \in 0..Len(log)
      /\ at \in 0..(MaxSeq + 1) /\ Len(log) <= MaxSeq
  BY DEF IInv, TypeOK
<1>1. CASE Open
  <2>1. /\ phase = "connecting" /\ phase' = "open" /\ first' = FALSE
        /\ connected' = TRUE /\ frame' = NoFrame /\ sending' = "nothing"
        /\ UNCHANGED <<log, oldest, given, exit, cursor, failures, got>>
    BY <1>1 DEF Open, NewDecoder
  <2>2. heard' \in 0..Len(log)
    <3>1. heard' = heard \/ heard' = Len(log)
      BY <1>1 DEF Open
    <3>. QED
      BY <1>0, <3>1 DEF IInv, TypeOK
  <2>3. NoFrame \in [event_name : Advisories \cup {"update", "None"}, data_lines : Seq(Int)]
    BY DEF NoFrame
  <2>4. AttemptsLeft' /\ Decoder' /\ Cause'
    BY <2>1 DEF IInv, AttemptsLeft, Decoder, Cause, EndsForCause
  <2>5. ASSUME at' \in 0..(MaxSeq + 1), base' \in 0..Len(log) PROVE TypeOK'
    BY <2>1, <2>2, <2>3, <2>5 DEF IInv, TypeOK
  <2>6. CASE ~HasId /\ at' = Len(log) + 1 /\ base' = Len(log)
    <3>1. got = <<>> /\ cursor = 0
      <4>1. CASE first
        BY <2>6, <4>1 DEF IInv, StartingPoint, HasId
      <4>2. CASE ~first
        BY <1>0, <2>6, <4>2 DEF IInv, StartingPoint, HasId
      <4>. QED
        BY <4>1, <4>2
    <3>2. TypeOK'
      BY <1>0, <2>5, <2>6
    <3>3. Connection'
      BY <1>0, <2>1, <2>6, <3>1 DEF Connection, Max2
    <3>. QED
      BY <2>1, <2>4, <2>6, <3>1, <3>2, <3>3 DEF IInv, StartingPoint
  <2>7. CASE HasId /\ at' \in 0..(cursor + 1) /\ UNCHANGED base
    <3>1. base <= cursor
      <4>1. CASE first
        BY <1>0, <4>1 DEF IInv, StartingPoint
      <4>2. CASE ~first
        BY <2>7, <4>2 DEF IInv, StartingPoint, HasId
      <4>. QED
        BY <4>1, <4>2
    <3>2. TypeOK'
      BY <1>0, <2>5, <2>7
    <3>3. Max2(cursor, base)' = cursor
      BY <1>0, <2>1, <2>7, <3>1 DEF Max2
    <3>4. at' \in Nat /\ at' <= cursor + 1 /\ at' <= Len(log) + 1
      BY <1>0, <2>7
    <3>5. \A i \in (cursor + 1)..(at' - 1) : FALSE
      <4>1. cursor \in Nat
        BY <1>0
      <4>. QED
        BY <3>4, <4>1, NothingBetween
    <3>6. Connection'
      BY <2>1, <2>7, <3>1, <3>3, <3>4, <3>5, Zenon DEF Connection
    <3>. QED
      BY <2>1, <2>4, <2>7, <3>1, <3>2, <3>6 DEF IInv, StartingPoint
  <2>8. at' \in {s \in oldest..(cursor + 1) : s >= cursor + 1 - Overlap} \/ at' = 0
          => at' \in 0..(cursor + 1)
    BY <1>0 DEF IInv, TypeOK
  <2>. QED
    BY <1>1, <2>6, <2>7, <2>8 DEF Open
<1>2. CASE OpenRefused
  BY <1>2, Ended DEF OpenRefused, IInv, TypeOK
<1>3. CASE Drop
  <2>1. failures' \in 0..MaxAttempts /\ (phase' # "ended" => failures' < MaxAttempts)
    BY <1>3 DEF Drop, Exhausted, IInv, TypeOK, AttemptsLeft
  <2>2. phase # "ended" /\ first' = FALSE
        /\ UNCHANGED <<log, oldest, at, sending, given, frame, cursor, connected, got,
                       base, heard>>
    BY <1>3 DEF Drop
  <2>3. CASE End("exhausted")
    BY <2>1, <2>2, <2>3, Ended
  <2>4. CASE phase' = "connecting" /\ UNCHANGED exit
    <3>1. TypeOK'
      BY <2>1, <2>2, <2>4 DEF IInv, TypeOK
    <3>2. StartingPoint'
      BY <2>2, <2>4 DEF IInv, TypeOK, StartingPoint
    <3>. QED
      BY <2>1, <2>2, <2>4, <3>1, <3>2
      DEF IInv, AttemptsLeft, Connection, Decoder, Cause, EndsForCause
  <2>. QED
    BY <1>3, <2>3, <2>4 DEF Drop, End
<1>4. CASE ReadLines
  <2>1. /\ phase = "open" /\ sending = "nothing" /\ frame = NoFrame
        /\ sending' \in Kinds /\ MaySend(sending') /\ frame' = Collected(NoFrame, sending', at)
        /\ UNCHANGED <<log, oldest, at, given, phase, exit, cursor, first, failures,
                       connected, got, base, heard>>
    BY <1>4 DEF ReadLines, IInv, Decoder
  <2>2. frame' \in [event_name : Advisories \cup {"update", "None"}, data_lines : Seq(Int)]
    BY <1>0, <2>1 DEF Collected, NoFrame, Kinds, Unreadable
  <2>3. TypeOK'
    BY <2>1, <2>2 DEF IInv, TypeOK
  <2>4. MaySend(sending)' /\ sending' # "nothing"
    BY <2>1 DEF MaySend, Kinds, Advisories
  <2>5. Decoder'
    BY <2>1, <2>4 DEF Decoder, Collected, NoFrame
  <2>. QED
    BY <2>1, <2>3, <2>5
    DEF IInv, AttemptsLeft, StartingPoint, Connection, Cause, EndsForCause
<1>5. CASE Frame
  <2>1. /\ phase = "open" /\ frame' = NoFrame /\ sending' = "nothing" /\ at' = at + 1
        /\ failures' = 0
        /\ UNCHANGED <<log, oldest, given, phase, exit, first, connected, base, heard>>
    BY <1>5 DEF Frame, BlankLine, NextFrame
  <2>2. at \in 1..Len(log) /\ log[at] /\ frame.data_lines[1] = at
    BY <1>0, <1>5, FrameRead DEF Frame, IInv, MaySend, Kinds, Advisories
  <2>3. first = FALSE
    BY <2>1 DEF IInv, TypeOK, StartingPoint
  <2>4. frame' \in [event_name : Advisories \cup {"update", "None"}, data_lines : Seq(Int)]
    BY <2>1 DEF NoFrame
  <2>5. Decoder' /\ Cause'
    BY <2>1 DEF IInv, Decoder, Cause, EndsForCause
  <2>6. CASE at > cursor
    <3>1. got' = Append(got, at) /\ cursor' = at
      BY <1>5, <2>2, <2>6 DEF Frame, IsNew
    <3>2. got' \in Seq(1..MaxSeq)
      BY <1>0, <2>2, <3>1 DEF IInv, TypeOK
    <3>3. TypeOK'
      BY <1>0, <2>1, <2>2, <2>4, <3>1, <3>2 DEF IInv, TypeOK
    <3>4. base < at
      BY <1>0, <2>1, <2>6 DEF IInv, Connection
    <3>5. StartingPoint' /\ Connection'
      BY <1>0, <2>1, <2>2, <2>3, <3>1, <3>4 DEF StartingPoint, Connection, Max2
    <3>. QED
      BY <2>1, <2>5, <3>3, <3>5 DEF IInv, AttemptsLeft
  <2>7. CASE ~(at > cursor)
    <3>1. UNCHANGED <<cursor, got>>
      BY <1>5, <2>2, <2>7 DEF Frame, IsNew
    <3>2. TypeOK'
      BY <1>0, <2>1, <2>2, <2>4, <3>1 DEF IInv, TypeOK
    <3>3. StartingPoint'
      BY <2>1, <3>1 DEF IInv, StartingPoint
    <3>4. Connection'
      BY <1>0, <2>1, <2>2, <2>7, <3>1 DEF IInv, Connection, Max2
    <3>. QED
      BY <2>1, <2>5, <3>2, <3>3, <3>4 DEF IInv, AttemptsLeft
  <2>. QED
    BY <2>6, <2>7
<1>6. CASE Gap
  <2>1. /\ phase = "open" /\ frame' = NoFrame /\ sending' = "nothing" /\ at' = at + 1
        /\ UNCHANGED <<log, oldest, given, phase, exit, cursor, first, failures,
                       connected, got, base, heard>>
    BY <1>6 DEF Gap, BlankLine, NextFrame
  <2>2. at \in 1..Len(log) /\ (~log[at] \/ Gaps)
    BY <1>0, <1>6, FrameRead DEF Gap, IInv, MaySend, Advisories
  <2>3. frame' \in [event_name : Advisories \cup {"update", "None"}, data_lines : Seq(Int)]
    BY <2>1 DEF NoFrame
  <2>4. TypeOK'
    BY <1>0, <2>1, <2>2, <2>3 DEF IInv, TypeOK
  <2>5. Connection'
    BY <1>0, <2>1, <2>2 DEF IInv, Connection, Max2
  <2>. QED
    BY <2>1, <2>4, <2>5
    DEF IInv, AttemptsLeft, StartingPoint, Decoder, Cause, EndsForCause
<1>7. CASE Reset
  <2>1. sending = "resync_required"
    BY <1>7, FrameRead DEF Reset, IInv, Advisories
  <2>2. first = FALSE
    BY <1>7 DEF Reset, BlankLine, IInv, TypeOK, StartingPoint
  <2>. QED
    BY <1>7, <2>1, <2>2, Ended DEF Reset, IInv, TypeOK
<1>8. CASE Invalid
  <2>1. sending = "unreadable"
    BY <1>8, FrameRead DEF Invalid, IInv
  <2>2. first = FALSE
    BY <1>8 DEF Invalid, BlankLine, IInv, TypeOK, StartingPoint
  <2>. QED
    BY <1>8, <2>1, <2>2, Ended DEF Invalid, IInv, TypeOK
<1>9. CASE Publish
  <2>1. PICK own \in BOOLEAN : log' = Append(log, own)
    BY <1>9 DEF Publish
  <2>2. /\ log' \in Seq(BOOLEAN) /\ Len(log') = Len(log) + 1
        /\ \A i \in 1..Len(log) : log'[i] = log[i]
    BY <2>1, LogStands DEF IInv
  <2>3. Len(log) < MaxSeq /\ UNCHANGED <<oldest, at, sending, given, client, base, heard>>
    BY <1>9 DEF Publish
  <2>4. TypeOK'
    BY <1>0, <2>2, <2>3 DEF client, IInv, TypeOK
  <2>5. Connection'
    BY <1>0, <2>2, <2>3 DEF client, IInv, Connection, Max2
  <2>6. \A kind \in Kinds : MaySend(kind) => MaySend(kind)'
    BY <1>0, <2>2, <2>3 DEF MaySend
  <2>7. Decoder'
    BY <2>3, <2>6 DEF client, IInv, TypeOK, Decoder
  <2>. QED
    BY <2>3, <2>4, <2>5, <2>7
    DEF client, IInv, AttemptsLeft, StartingPoint, Cause, EndsForCause
<1>10. CASE Forget
  <2>1. TypeOK'
    BY <1>0, <1>10 DEF Forget, client, IInv, TypeOK
  <2>. QED
    BY <1>10, <2>1 DEF Forget, client, IInv, AttemptsLeft, StartingPoint, Connection,
                       Decoder, MaySend, Cause, EndsForCause
<1>11. CASE PassOver
  <2>1. /\ phase = "open" /\ sending = "nothing" /\ at \in 1..Len(log) /\ ~log[at]
        /\ at' = at + 1 /\ UNCHANGED <<log, oldest, sending, given, client, base, heard>>
    BY <1>11 DEF PassOver
  <2>2. TypeOK'
    BY <1>0, <2>1 DEF client, IInv, TypeOK
  <2>3. Connection'
    BY <1>0, <2>1 DEF client, IInv, Connection, Max2
  <2>. QED
    BY <2>1, <2>2, <2>3
    DEF client, IInv, AttemptsLeft, StartingPoint, Decoder, Cause, EndsForCause
<1>12. CASE UNCHANGED vars
  BY <1>12 DEF vars, client, IInv, TypeOK, AttemptsLeft, StartingPoint, Connection,
               Decoder, MaySend, Cause, EndsForCause
<1> QED
  BY <1>1, <1>2, <1>3, <1>4, <1>5, <1>6, <1>7, <1>8, <1>9, <1>10, <1>11, <1>12 DEF Next

LEMMA Inductive == Spec => []IInv
  BY InitIInv, StepIInv, PTL DEF Spec

\* The stream's failures stay within the limit and every yielded event, cursor
\* and position is one of the log's (stream_updates).
THEOREM StreamTypes == Spec => []TypeOK
<1>1. IInv => TypeOK
  BY DEF IInv
<1> QED
  BY <1>1, Inductive, PTL

\* The stream ends in a reset or an unreadable text only for the frame that the
\* engine was sending: nothing of a frame cut by a drop gets into a later one
\* (_iter_frames, _dispatch_frame).
THEOREM StreamEndsForCause == Spec => []EndsForCause
<1>1. IInv => EndsForCause
  BY DEF IInv, Cause
<1> QED
  BY <1>1, Inductive, PTL

----------------------------------------------------------------------------
(* The refinement, step by step. *)

LEMMA InitFeed == Init => Feed!Init
<1> SUFFICES ASSUME Init PROVE Feed!Init
  OBVIOUS
<1>1. TypeOK
  BY InitIInv DEF IInv
<1> QED
  BY <1>1 DEF Init, TypeOK, Feed!Init, Max2

\* A connection without an id moves the starting point before any delivery, a
\* new event is a delivery, every way out is the feed's end, and all else that
\* the client does (drops, lines, advisories, repeats, resumptions) is hidden
\* from the reader.
LEMMA StepFeed == IInv /\ [Next]_vars => [Feed!Next]_Feed!vars
<1> SUFFICES ASSUME IInv, [Next]_vars PROVE [Feed!Next]_Feed!vars
  OBVIOUS
<1>0. Len(log) \in Nat /\ cursor \in 0..Len(log) /\ base \in 0..Len(log)
  BY DEF IInv, TypeOK
<1>1. CASE Open
  <2>1. phase = "connecting" /\ phase' = "open" /\ UNCHANGED <<log, cursor, got>>
    BY <1>1 DEF Open
  <2>2. CASE ~HasId /\ base' = Len(log)
    <3>1. got = <<>>
      BY <2>2 DEF IInv, StartingPoint, HasId, TypeOK
    <3>2. Max2(cursor, base)' \in Max2(cursor, base)..Len(log)
      BY <1>0, <2>1, <2>2 DEF Max2
    <3>3. Feed!Start
      BY <2>1, <3>1, <3>2 DEF Feed!Start
    <3>. QED
      BY <3>3 DEF Feed!Next
  <2>3. CASE UNCHANGED base
    BY <2>1, <2>3 DEF Feed!vars, Max2
  <2>. QED
    BY <1>1, <2>2, <2>3 DEF Open
<1>2. CASE OpenRefused
  BY <1>2 DEF OpenRefused, End, Feed!Next, Feed!End, Max2
<1>3. CASE Drop
  <2>1. CASE phase' = "ended"
    BY <1>3, <2>1 DEF Drop, Feed!Next, Feed!End, Max2
  <2>2. CASE phase' # "ended"
    BY <1>3, <2>2 DEF Drop, Feed!vars, Max2
  <2>. QED
    BY <2>1, <2>2
<1>4. CASE ReadLines
  BY <1>4 DEF ReadLines, Feed!vars, Max2
<1>5. CASE Frame
  <2>1. at \in 1..Len(log) /\ log[at] /\ frame.data_lines[1] = at
    BY <1>0, <1>5, FrameRead, StreamAssumption
    DEF Frame, IInv, TypeOK, MaySend, Kinds, Advisories, StreamAssumption
  <2>2. /\ phase = "open" /\ UNCHANGED <<log, phase, base>>
        /\ IF at > cursor THEN cursor' = at /\ got' = Append(got, at)
                           ELSE UNCHANGED <<cursor, got>>
    BY <1>5, <2>1 DEF Frame, BlankLine, IsNew
  <2>3. CASE at > cursor
    <3>1. base < at
      BY <1>0, <2>1, <2>2, <2>3 DEF IInv, Connection
    <3>2. at \in (Max2(cursor, base) + 1)..Len(log)
      BY <1>0, <2>1, <2>3, <3>1 DEF Max2
    <3>3. Max2(cursor, base)' = at
      BY <1>0, <2>1, <2>2, <2>3, <3>1 DEF Max2
    <3>4. Gaps \/ \A i \in (Max2(cursor, base) + 1)..(at - 1) : ~log[i]
      BY <2>2 DEF IInv, Connection
    <3>5. Feed!Deliver
      BY <2>1, <2>2, <2>3, <3>2, <3>3, <3>4 DEF Feed!Deliver
    <3>. QED
      BY <3>5 DEF Feed!Next
  <2>4. CASE ~(at > cursor)
    BY <2>2, <2>4 DEF Feed!vars, Max2
  <2>. QED
    BY <2>3, <2>4
<1>6. CASE Gap
  BY <1>6 DEF Gap, Feed!vars, Max2
<1>7. CASE Reset
  BY <1>7 DEF Reset, End, Feed!Next, Feed!End, Max2
<1>8. CASE Invalid
  BY <1>8 DEF Invalid, End, Feed!Next, Feed!End, Max2
<1>9. CASE Publish
  BY <1>9 DEF Publish, client, Feed!Next, Feed!Publish, Max2
<1>10. CASE Forget
  BY <1>10 DEF Forget, client, Feed!vars, Max2
<1>11. CASE PassOver
  BY <1>11 DEF PassOver, client, Feed!vars, Max2
<1>12. CASE UNCHANGED vars
  BY <1>12 DEF vars, client, Feed!vars, Max2
<1> QED
  BY <1>1, <1>2, <1>3, <1>4, <1>5, <1>6, <1>7, <1>8, <1>9, <1>10, <1>11, <1>12 DEF Next

\* Whatever drops there are, between frames or inside one, and whatever is
\* repeated, resumed or forgotten, stream_updates' decoder, watermark and
\* reconnects together are an event feed.
THEOREM StreamIsFeed == Spec => IsFeed
<1>1. Spec => Feed!Init /\ [][Feed!Next]_Feed!vars
  BY InitFeed, StepFeed, Inductive, PTL DEF Spec
<1> QED
  BY <1>1 DEF IsFeed, Feed!Spec
----------------------------------------------------------------------------
(* What being a feed gives the reader. *)

Behind == Max2(cursor, base)

\* What was delivered: this strategy's events, in the order of the log.
InOrder ==
  /\ \A k \in 1..Len(got) : got[k] \in 1..Behind /\ log[got[k]]
  /\ \A j, k \in 1..Len(got) : j < k => got[j] < got[k]

\* None after the first one was left out.
Whole ==
  Gaps \/ \A k \in 1..Len(got) : \A s \in got[k]..Behind :
            log[s] => \E n \in 1..Len(got) : got[n] = s

FeedInv ==
  /\ log \in Seq(BOOLEAN) /\ got \in Seq(Nat) /\ Behind \in 0..Len(log)
  /\ InOrder /\ Whole

LEMMA FeedKeeps == FeedInv /\ [Feed!Next]_Feed!vars => FeedInv'
<1> SUFFICES ASSUME FeedInv, [Feed!Next]_Feed!vars PROVE FeedInv'
  OBVIOUS
<1>0. /\ log \in Seq(BOOLEAN) /\ got \in Seq(Nat) /\ Len(log) \in Nat
      /\ Len(got) \in Nat /\ Behind \in 0..Len(log)
  BY DEF FeedInv
<1>1. CASE Feed!Publish
  <2>1. PICK own \in BOOLEAN : log' = Append(log, own)
    BY <1>1 DEF Feed!Publish
  <2>2. /\ log' \in Seq(BOOLEAN) /\ Len(log') = Len(log) + 1
        /\ \A i \in 1..Len(log) : log'[i] = log[i]
    BY <1>0, <2>1, AppendProperties
  <2>3. Behind' = Behind /\ got' = got
    BY <1>1 DEF Feed!Publish, Behind
  <2>4. Behind' \in 0..Len(log')
    BY <1>0, <2>2, <2>3
  <2>5. \A i \in 1..Behind : i \in 1..Len(log)
    BY <1>0
  <2>6. InOrder'
    BY <2>2, <2>3, <2>5 DEF FeedInv, InOrder
  <2>7. \A k \in 1..Len(got) : \A s \in got[k]..Behind : s \in 1..Behind
    BY <1>0 DEF FeedInv, InOrder
  <2>8. Whole'
    BY <2>2, <2>3, <2>5, <2>7 DEF FeedInv, Whole
  <2>. QED
    BY <1>0, <2>2, <2>3, <2>4, <2>6, <2>8 DEF FeedInv
<1>2. CASE Feed!Start
  <2>1. log' = log /\ got' = got /\ got = <<>> /\ Behind' \in Behind..Len(log)
    BY <1>2 DEF Feed!Start, Behind
  <2>2. Behind' \in 0..Len(log)
    BY <1>0, <2>1
  <2>. QED
    BY <1>0, <2>1, <2>2 DEF FeedInv, InOrder, Whole
<1>3. CASE Feed!Deliver
  <2>1. PICK j \in (Behind + 1)..Len(log) :
          /\ log[j] /\ got' = Append(got, j) /\ Behind' = j
          /\ Gaps \/ \A i \in (Behind + 1)..(j - 1) : ~log[i]
    BY <1>3 DEF Feed!Deliver, Behind
  <2>2. log' = log
    BY <1>3 DEF Feed!Deliver
  <2>3. j \in Nat /\ j > Behind /\ j <= Len(log)
    BY <1>0, <2>1
  <2>4. /\ got' \in Seq(Nat) /\ Len(got') = Len(got) + 1 /\ got'[Len(got) + 1] = j
        /\ \A k \in 1..Len(got) : got'[k] = got[k]
    BY <1>0, <2>1, <2>3, AppendProperties
  <2>5. \A k \in 1..Len(got') : k \in 1..Len(got) \/ k = Len(got) + 1
    BY <1>0, <2>4
  <2>6. \A k \in 1..Len(got) : got[k] \in 1..Behind /\ log[got[k]]
    BY DEF FeedInv, InOrder
  <2>7. \A k \in 1..Len(got') : got'[k] \in 1..j /\ log[got'[k]]
    <3> SUFFICES ASSUME NEW k \in 1..Len(got')
                 PROVE  got'[k] \in 1..j /\ log[got'[k]]
      OBVIOUS
    <3>1. CASE k \in 1..Len(got)
      <4>1. got'[k] = got[k] /\ got[k] \in 1..Behind /\ log[got[k]]
        BY <2>4, <2>6, <3>1
      <4>2. got[k] \in 1..j
        BY <1>0, <2>3, <4>1
      <4>. QED
        BY <4>1, <4>2
    <3>2. CASE k = Len(got) + 1
      <4>1. got'[k] = j
        BY <2>4, <3>2
      <4>. QED
        BY <1>0, <2>1, <2>3, <4>1
    <3>. QED
      BY <2>5, <3>1, <3>2
  <2>8. \A i, k \in 1..Len(got') : i < k => got'[i] < got'[k]
    <3> SUFFICES ASSUME NEW i \in 1..Len(got'), NEW k \in 1..Len(got'), i < k
                 PROVE  got'[i] < got'[k]
      OBVIOUS
    <3>1. i \in 1..Len(got)
      BY <1>0, <2>4
    <3>2. CASE k \in 1..Len(got)
      BY <2>4, <3>1, <3>2 DEF FeedInv, InOrder
    <3>3. CASE k = Len(got) + 1
      <4>1. got'[k] = j /\ got'[i] = got[i] /\ got[i] \in 1..Behind
        BY <2>4, <2>6, <3>1, <3>3
      <4>. QED
        BY <1>0, <2>3, <4>1
    <3>. QED
      BY <2>5, <3>2, <3>3
  <2>9. Whole'
    <3> SUFFICES ASSUME ~Gaps, NEW k \in 1..Len(got'), NEW s \in got'[k]..j, log[s]
                 PROVE  \E n \in 1..Len(got') : got'[n] = s
      BY <2>1, <2>2 DEF Whole
    <3>1. s \in Int /\ s <= j /\ got'[k] <= s
      BY <2>3, <2>7
    <3>2. CASE s = j
      BY <1>0, <2>4, <3>2
    <3>3. CASE s \in (Behind + 1)..(j - 1)
      BY <2>1, <3>3
    <3>4. CASE s <= Behind
      <4>1. k \in 1..Len(got)
        BY <1>0, <2>3, <2>4, <2>5, <3>1, <3>4
      <4>2. s \in got[k]..Behind
        BY <1>0, <2>4, <2>6, <3>1, <3>4, <4>1
      <4>3. PICK n \in 1..Len(got) : got[n] = s
        BY <4>1, <4>2 DEF FeedInv, Whole
      <4>. QED
        BY <1>0, <2>4, <4>3
    <3>. QED
      BY <1>0, <2>3, <3>1, <3>2, <3>3, <3>4
  <2>. QED
    BY <1>0, <2>1, <2>2, <2>3, <2>4, <2>7, <2>8, <2>9 DEF FeedInv, InOrder
<1>4. CASE Feed!End
  BY <1>4 DEF Feed!End, FeedInv, InOrder, Whole, Behind
<1>5. CASE UNCHANGED Feed!vars
  BY <1>5 DEF Feed!vars, FeedInv, InOrder, Whole, Behind
<1> QED
  BY <1>1, <1>2, <1>3, <1>4, <1>5 DEF Feed!Next

\* The caller of stream_updates gets its own events only, each once and in the
\* order of the log, and, unless the engine left some out, every one between
\* the first yielded and the watermark.
THEOREM YieldedInOrder == Spec => [](InOrder /\ Whole)
<1>1. Feed!Init => FeedInv
  BY DEF Feed!Init, FeedInv, InOrder, Whole, Behind
<1>2. FeedInv => InOrder /\ Whole
  BY DEF FeedInv
<1>3. Feed!Init /\ [][Feed!Next]_Feed!vars => []FeedInv
  BY <1>1, FeedKeeps, PTL
<1>4. IsFeed => []FeedInv
  BY <1>3 DEF IsFeed, Feed!Spec
<1> QED
  BY <1>2, <1>4, StreamIsFeed, PTL
=============================================================================
