------------------------------ MODULE LineQueue ------------------------------
(***************************************************************************)
(* What a hook outbox promises: a queue of lines that one consumer at a    *)
(* time settles in order.  A line is settled any number of times while it  *)
(* is the oldest one (delivery is at least once), and left behind only     *)
(* when it has been settled; nothing is settled before what is older, or   *)
(* left behind unsettled.  The consumer may lose its place and go through  *)
(* lines again that it has settled before.  No file, lock, cursor,         *)
(* repacking or process is visible here: HookOutbox has them.              *)
(***************************************************************************)
EXTENDS OutboxLines

VARIABLES
  lines,   \* every line that was ever in the queue, oldest first
  head,    \* how many of them have been left behind
  settled  \* records whose line was settled

vars == <<lines, head, settled>>

Init ==
  /\ lines = <<>>
  /\ head = 0
  /\ settled = {}

\* A record, or a part of one, arrives.
Arrive(r) ==
  /\ \E e \in {Whole(r), Unended(r), Cut(r)} : lines' = Put(lines, e)
  /\ UNCHANGED <<head, settled>>

\* A torn line is ended.
End ==
  /\ lines' = Terminated(lines)
  /\ UNCHANGED <<head, settled>>

\* The oldest line is settled, perhaps not for the first time.
Settle ==
  /\ head < Len(lines)
  /\ lines[head + 1].ended
  /\ settled' = settled \cup lines[head + 1].recs
  /\ UNCHANGED <<lines, head>>

\* It is left behind.
Advance ==
  /\ head < Len(lines)
  /\ lines[head + 1].recs \subseteq settled
  /\ head' = head + 1
  /\ UNCHANGED <<lines, settled>>

\* The consumer goes back to an older line.
Rewind ==
  /\ head' \in 0..head
  /\ UNCHANGED <<lines, settled>>

Next ==
  \/ \E r \in Records : Arrive(r)
  \/ End
  \/ Settle
  \/ Advance
  \/ Rewind

Spec == Init /\ [][Next]_vars
=============================================================================
