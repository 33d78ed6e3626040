---------------------------- MODULE StreamClient ----------------------------
(***************************************************************************)
(* ExecutionEngineAdapter.stream_updates (execution/engine_adapter.py):    *)
(* the SSE client that reconnects on a drop and keeps a watermark on seq.  *)
(* _iter_frames collects the lines of a frame and _dispatch_frame reads    *)
(* them; a connection may be lost between any two lines.                   *)
(*                                                                         *)
(* The engine's side of the connection is external: it numbers all events  *)
(* 1, 2, ..., sends a strategy its own ones in that order, resumes after a *)
(* Last-Event-ID (perhaps repeating a few), starts from "now" without one, *)
(* and answers resync_required when what is asked for is no longer kept.   *)
(***************************************************************************)
EXTENDS Integers, Sequences

CONSTANTS
  MaxSeq,       \* bound: events the engine ever publishes
  MaxAttempts,  \* consecutive drops that end the stream
  Overlap,      \* bound: events a resumed connection may repeat
  Gaps          \* may the engine leave events out and send a gap advisory?

Advisories == {"gap", "resync_required"}
Kinds == Advisories \cup {"update", "unreadable"}
Unreadable == -1    \* a text that OrderUpdateEvent does not accept

ASSUME StreamAssumption ==
  /\ MaxSeq \in Nat /\ MaxAttempts \in Nat \ {0} /\ Overlap \in Nat
  /\ Gaps \in BOOLEAN

VARIABLES
  log,        \* engine: published events, TRUE for one of this strategy
  oldest,     \* engine: the first event it still keeps
  at,         \* engine: the next event to send on the open connection, or 0
              \* for resync_required and nothing else
  sending,    \* engine: the frame whose lines, but for the blank one, are sent
  given,      \* was last_event_id given by the caller?
  phase,      \* connecting (also between attempts), open or ended
  exit,       \* why it ended
  frame,      \* _iter_frames: event_name and data_lines of the frame being read
  cursor, first, failures,  \* cursor, first_connect, consecutive_failures
  connected,  \* the caller's handshake event
  got,        \* events yielded to the caller
  base,       \* history: where the last connection without an id started
  heard       \* history: published when connected was set first

client == <<phase, exit, frame, cursor, first, failures, connected, got>>
vars == <<log, oldest, at, sending, given, client, base, heard>>

NoFrame == [event_name |-> "None", data_lines |-> <<>>]

TypeOK ==
  /\ log \in Seq(BOOLEAN) /\ Len(log) <= MaxSeq
  /\ oldest \in 1..(MaxSeq + 1) /\ at \in 0..(MaxSeq + 1)
  /\ sending \in Kinds \cup {"nothing"}
  /\ frame \in [event_name : Advisories \cup {"update", "None"}, data_lines : Seq(Int)]
  /\ given \in BOOLEAN
  /\ phase \in {"connecting", "open", "ended"}
  /\ exit \in {"none", "reset", "refused", "exhausted", "invalid"}
  /\ cursor \in 0..Len(log) /\ first \in BOOLEAN
  /\ failures \in 0..MaxAttempts
  /\ connected \in BOOLEAN
  /\ got \in Seq(1..MaxSeq)
  /\ base \in 0..Len(log) /\ heard \in 0..Len(log)

\* A caller that gives last_event_id has seen the log up to there.
Init ==
  /\ given \in BOOLEAN
  /\ \E n \in 0..MaxSeq : log \in [1..n -> BOOLEAN]
  /\ cursor \in IF given THEN 0..Len(log) ELSE {0}
  /\ oldest = 1 /\ at = 0 /\ sending = "nothing" /\ frame = NoFrame
  /\ phase = "connecting" /\ exit = "none"
  /\ first = TRUE /\ failures = 0 /\ connected = FALSE
  /\ got = <<>> /\ base = cursor /\ heard = 0

----------------------------------------------------------------------------
(* The client. *)

\* last_event_id goes with the first request, Last-Event-ID with the others,
\* but only once an event has been seen.
HasIdOnlyFirst == first /\ given
HasId == IF first THEN given ELSE cursor > 0

End(why) == phase' = "ended" /\ exit' = why

\* 200: connected is set, and the frames are read from the first line on.  An
\* engine that has forgotten what is asked for has only resync_required to send.
NewDecoderKept == frame
NewDecoder == NoFrame
Open ==
  /\ phase = "connecting" /\ phase' = "open"
  /\ first' = FALSE /\ connected' = TRUE
  /\ frame' = NewDecoder /\ sending' = "nothing"
  /\ heard' = IF connected THEN heard ELSE Len(log)
  /\ \/ /\ ~HasId
        /\ at' = Len(log) + 1 /\ base' = Len(log)
     \/ /\ HasId /\ cursor + 1 >= oldest
        /\ at' \in {s \in oldest..(cursor + 1) : s >= cursor + 1 - Overlap}
        /\ UNCHANGED base
     \/ /\ HasId /\ cursor + 1 < oldest
        /\ at' = 0 /\ UNCHANGED base
  /\ UNCHANGED <<log, oldest, given, exit, cursor, failures, got>>

\* A non-200 answer: OrderRejectedError or StreamError.
OpenRefused ==
  /\ phase = "connecting"
  /\ End("refused") /\ first' = FALSE
  /\ UNCHANGED <<log, oldest, at, sending, given, frame, cursor, failures,
                 connected, got, base, heard>>

Exhausted(n) == n >= MaxAttempts

\* A transport error while connecting or reading, or a clean end of the body.
Drop ==
  /\ phase # "ended"
  /\ first' = FALSE
  /\ failures' = failures + 1
  /\ IF Exhausted(failures + 1)
     THEN phase' = "ended" /\ exit' = "exhausted"
     ELSE phase' = "connecting" /\ UNCHANGED exit
  /\ UNCHANGED <<log, oldest, at, sending, given, frame, cursor, connected, got,
                 base, heard>>

----------------------------------------------------------------------------
(* The frames of an open connection. *)

\* What the engine may send: events of this strategy, and advisories.
MaySend(kind) ==
  IF at = 0 THEN kind = "resync_required"
  ELSE kind = "resync_required" \/
       /\ at <= Len(log)
       /\ kind = "gap" => ~log[at] \/ Gaps
       /\ kind # "gap" => log[at]

\* The event: line replaces the name, a data: line is added to those before it.
Collected(f, kind, seq) ==
  [event_name |-> IF kind = "unreadable" THEN "update" ELSE kind,
   data_lines |-> Append(f.data_lines, IF kind = "unreadable" THEN Unreadable ELSE seq)]

ReadLines ==
  /\ phase = "open" /\ sending = "nothing"
  /\ sending' \in {kind \in Kinds : MaySend(kind)}
  /\ frame' = Collected(frame, sending', at)
  /\ UNCHANGED <<log, oldest, at, given, phase, exit, cursor, first, failures,
                 connected, got, base, heard>>

\* The blank line that ends a frame.  Its text is one event's or no event's.
BlankLine == phase = "open" /\ sending # "nothing"
Readable(lines) == Len(lines) = 1 /\ lines[1] # Unreadable
NextFrame(next) == frame' = NoFrame /\ sending' = "nothing" /\ at' = next

\* An event: the failures are forgotten and, above the watermark, it is
\* yielded.
IsNewAlways(s) == TRUE
IsNew(s) == s > cursor

Frame ==
  /\ BlankLine /\ frame.event_name \notin Advisories /\ Readable(frame.data_lines)
  /\ NextFrame(at + 1) /\ failures' = 0
  /\ LET seq == frame.data_lines[1]
     IN IF IsNew(seq) THEN cursor' = seq /\ got' = Append(got, seq)
                      ELSE UNCHANGED <<cursor, got>>
  /\ UNCHANGED <<log, oldest, given, phase, exit, first, connected, base, heard>>

\* A gap advisory is logged, whatever it says.
Gap ==
  /\ BlankLine /\ frame.event_name = "gap"
  /\ NextFrame(at + 1)
  /\ UNCHANGED <<log, oldest, given, phase, exit, cursor, first, failures,
                 connected, got, base, heard>>

\* resync_required, with an after_seq that can be read: StreamResetError.
Reset ==
  /\ BlankLine /\ frame.event_name = "resync_required" /\ Readable(frame.data_lines)
  /\ End("reset")
  /\ UNCHANGED <<log, oldest, at, sending, given, frame, cursor, first, failures,
                 connected, got, base, heard>>

\* A text that cannot be read: no handler of stream_updates takes the error.
Invalid ==
  /\ BlankLine /\ frame.event_name # "gap" /\ ~Readable(frame.data_lines)
  /\ End("invalid")
  /\ UNCHANGED <<log, oldest, at, sending, given, frame, cursor, first, failures,
                 connected, got, base, heard>>

----------------------------------------------------------------------------
(* The engine (external). *)

Publish ==
  /\ Len(log) < MaxSeq
  /\ \E own \in BOOLEAN : log' = Append(log, own)
  /\ UNCHANGED <<oldest, at, sending, given, client, base, heard>>

Forget ==
  /\ oldest <= Len(log)
  /\ oldest' = oldest + 1
  /\ UNCHANGED <<log, at, sending, given, client, base, heard>>

\* Another strategy's event: nothing of it is sent.
PassOver ==
  /\ phase = "open" /\ sending = "nothing"
  /\ at \in 1..Len(log) /\ ~log[at]
  /\ at' = at + 1
  /\ UNCHANGED <<log, oldest, sending, given, client, base, heard>>

FrameEnds == Frame \/ Gap \/ Reset \/ Invalid
Next == Open \/ OpenRefused \/ Drop \/ ReadLines \/ Frame \/ Gap \/ Reset
        \/ Invalid \/ Publish \/ Forget \/ PassOver

Spec == Init /\ [][Next]_vars

\* The client reconnects, and a connection that comes back again and again gets
\* past every line of the log at some time.
FairSpec ==
  /\ Spec
  /\ WF_vars(Open \/ OpenRefused)
  /\ \A s \in 0..MaxSeq : /\ SF_vars((ReadLines \/ PassOver) /\ at = s)
                         /\ SF_vars(FrameEnds /\ at = s)

----------------------------------------------------------------------------
Max2(a, b) == IF a > b THEN a ELSE b

Feed == INSTANCE EventFeed WITH
          read <- Max2(cursor, base), over <- phase = "ended"

\* stream_updates is an event feed: whatever drops, repeats and resumptions
\* there are, what it yields is in seq order, has no event twice and (without
\* gaps) leaves none out between two yielded ones.
IsFeed == Feed!Spec

\* The stream ends in a reset or an unreadable text only when the frame that the
\* engine was sending is one: no line of a frame that a drop has cut, and of none
\* before it, is taken for a line of the next.
EndsForCause ==
  /\ exit = "reset" => sending = "resync_required"
  /\ exit = "invalid" => sending = "unreadable"

\* An event of this strategy published after the first yielded one is yielded
\* in the end, or the stream ends with an exception, or the engine announced
\* that it left events out.
Delivered ==
  \A s \in 1..MaxSeq :
    (got # <<>> /\ s <= Len(log) /\ s > got[1] /\ log[s])
      ~> (Gaps \/ phase = "ended" \/ cursor >= s)

\* stream_updates' docstring: "reconnects send Last-Event-ID: <cursor>" and
\* connected is a "subscribe-before-submit handshake": no event published after
\* the handshake is behind the reader without having been yielded.
NoneLostSinceConnected ==
  connected /\ phase = "open" =>
    \A s \in (heard + 1)..Max2(cursor, base) :
      log[s] => \E k \in 1..Len(got) : got[k] = s
=============================================================================
