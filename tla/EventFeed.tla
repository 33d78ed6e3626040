----------------------------- MODULE EventFeed -----------------------------
(***************************************************************************)
(* What the sim loop needs of an order-update stream, whatever carries it: *)
(* events reach the reader in the order they were published, each at most  *)
(* once, and none in between is skipped unless gaps are allowed.  Only     *)
(* before the first delivery may the reader's starting point move.         *)
(***************************************************************************)
EXTENDS Naturals, Sequences

CONSTANT Gaps     \* may the publisher leave events out?

VARIABLES
  log,    \* published so far: TRUE for an event of this reader
  read,   \* events up to here are behind the reader
  got,    \* the positions in log of the events delivered, in order
  over    \* has the feed ended?

vars == <<log, read, got, over>>

Init ==
  /\ log \in Seq(BOOLEAN) /\ read \in 0..Len(log)
  /\ got = <<>> /\ over = FALSE

Publish ==
  /\ \E own \in BOOLEAN : log' = Append(log, own)
  /\ UNCHANGED <<read, got, over>>

Start ==
  /\ ~over /\ got = <<>>
  /\ read' \in read..Len(log)
  /\ UNCHANGED <<log, got, over>>

Deliver ==
  /\ ~over
  /\ \E j \in (read + 1)..Len(log) :
       /\ log[j]
       /\ Gaps \/ \A i \in (read + 1)..(j - 1) : ~log[i]
       /\ got' = Append(got, j)
       /\ read' = j
  /\ UNCHANGED <<log, over>>

End == over' = TRUE /\ UNCHANGED <<log, read, got>>

Next == Publish \/ Start \/ Deliver \/ End

Spec == Init /\ [][Next]_vars
=============================================================================
