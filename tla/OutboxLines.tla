----------------------------- MODULE OutboxLines -----------------------------
(***************************************************************************)
(* The lines of a hook outbox file, as a sequence of entries.  An entry    *)
(* stands for the bytes up to a newline: the records it was made of,       *)
(* whether they can be read back as one JSON record, and whether the       *)
(* newline is there.  Only the last entry can lack it: a write that was    *)
(* cut short leaves it, and the next append goes on in the same line.      *)
(*                                                                         *)
(* Code: append_outbox_line, ensure_trailing_newline and next_pending_line *)
(* of darkmux-flow/src/hooks.rs.                                           *)
(***************************************************************************)
EXTENDS Naturals, Sequences

CONSTANT MaxRecords   \* bound: records written, numbered as they are

Records == 1..MaxRecords
Entries == [recs : SUBSET Records, valid : BOOLEAN, ended : BOOLEAN]

\* The last line of the file has no newline (a torn tail).
Torn(s) == s # <<>> /\ ~s[Len(s)].ended

\* What a write of record r leaves behind: all of it with its newline, all but
\* the newline, or a prefix that is no JSON.
Whole(r) == [recs |-> {r}, valid |-> TRUE, ended |-> TRUE]
Unended(r) == [recs |-> {r}, valid |-> TRUE, ended |-> FALSE]
Cut(r) == [recs |-> {r}, valid |-> FALSE, ended |-> FALSE]

\* The bytes of e written behind those of a torn line f.
Glued(f, e) == [recs |-> f.recs \cup e.recs, valid |-> FALSE, ended |-> e.ended]

\* The file after the bytes of e were written at its end.
Put(s, e) ==
  IF Torn(s) THEN [s EXCEPT ![Len(s)] = Glued(@, e)] ELSE Append(s, e)

\* The file after its last line was given the newline it lacks.
Terminated(s) ==
  IF Torn(s) THEN [s EXCEPT ![Len(s)].ended = TRUE] ELSE s
=============================================================================
