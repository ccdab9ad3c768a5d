----------------------------- MODULE HookOutbox ------------------------------
(***************************************************************************)
(* One hook rule's outbox, shared by several darkmux processes.  A write   *)
(* to the flow log that matches the rule appends a line to the outbox file *)
(* under an flock on that file; a drainer thread per process delivers the  *)
(* lines in order, one at a time, under a drain lock, and keeps its place  *)
(* in a cursor file.  When the cursor has gone far enough the drainer      *)
(* repacks the file to what is undelivered and renames the copy over it.   *)
(*                                                                         *)
(* Covered: every interleaving of the appends, of the drop counter's       *)
(* read-modify-write and of the steps of a repacking; a process killed     *)
(* between any two steps or in the middle of a write, and started again;   *)
(* appends that fail or stop short, counter writes, cursor writes and      *)
(* renames that fail, a cursor that cannot be read and is taken for 0; a   *)
(* receiver that answers 2xx, 4xx, a redirect, or nothing usable; a        *)
(* transform that fails, times out or is counted for its backlog.  Not     *)
(* covered: a power loss (the outbox is deliberately not fsynced), a drop  *)
(* counter that is misread.                                                *)
(*                                                                         *)
(* Code: darkmux-flow/src/hooks.rs and darkmux-types/src/flock.rs.  The    *)
(* passage of time is left out: a backoff that has to run out is a cycle   *)
(* that may be any number of steps later.                                  *)
(***************************************************************************)
EXTENDS OutboxLines, FiniteSets

CONSTANTS
  Procs,        \* processes with a HookSink for the rule
  MaxEvents,    \* bound: records and faults together (kills, failed reads, writes
                \* and transforms, answers that do not come)
  Cap,          \* max_outbox_mb, in lines; 0 is no cap
  CompactAt,    \* DEFAULT_COMPACTION_THRESHOLD_BYTES, in lines
  ClientMax,    \* MAX_CLIENT_ERROR_ATTEMPTS
  CursorStall,  \* CURSOR_WRITE_STALL_THRESHOLD
  BusyStall,    \* MAX_CONSECUTIVE_BUSY_BEFORE_STALL
  OrphanCap,    \* MAX_ORPHANED_TRANSFORM_THREADS_PER_RULE
  Transforms    \* whether the rule has a transform

ASSUME OutboxAssumption ==
  /\ MaxRecords \in Nat
  /\ IsFiniteSet(Procs)
  /\ MaxEvents \in Nat
  /\ Cap \in Nat
  /\ CompactAt \in Nat \ {0}
  /\ ClientMax \in Nat \ {0}
  /\ CursorStall \in Nat \ {0}
  /\ BusyStall \in Nat \ {0}
  /\ OrphanCap \in Nat \ {0}
  /\ Transforms \in BOOLEAN

VARIABLES
  outbox,    \* the file at the outbox path
  cursor,    \* the cursor file: lines of the outbox that are behind it
  copied,    \* whether the repacked copy (.compact.tmp) is there
  copy,      \* its lines
  marker,    \* whether the .compacting marker is there
  dropped,   \* the .dropped counter
  wpc,       \* where the persisting thread of each process is
  rec,       \* the record it is persisting, or 0
  seen,      \* the cursor it read for the cap, or the counter it read
  age,       \* renames over the outbox since it opened the file
  dpc,       \* where the drainer of each process is
  line,      \* the line the drainer has in hand
  next,      \* the cursor just past that line
  fails,     \* cursor_write_failures, counted up to CursorStall
  clients,   \* client_error_count, counted up to ClientMax
  busy,      \* consecutive_busy, counted up to BusyStall
  orphans,   \* orphaned_transforms
  stalled,   \* whether the rule is stalled in this process
  issued,    \* records persisted so far (bound)
  faults,    \* faults so far (bound)
  log,       \* history: the lines of the outbox, the repacked-away included
  base,      \* history: how many of them were repacked away
  settled,   \* history: records whose line was delivered, given up or put in
             \* quarantine, at least once
  accepted,  \* history: records whose append returned Ok
  counted,   \* history: how often the counter of drops was written
  strayed    \* history: records appended, or counted, under a lock on a file
             \* that was no longer the outbox

files == <<outbox, cursor, copied, copy, marker, dropped>>
writers == <<wpc, rec, seen, age>>
counts == <<fails, clients, busy, orphans, stalled>>
drainers == <<dpc, line, next, counts>>
bounds == <<issued, faults>>
history == <<log, base, settled, accepted, counted, strayed>>
vars == <<files, writers, drainers, bounds, history>>

WriterPlaces == {"idle", "stat", "append", "append waits", "count",
                 "count waits", "counting", "down", "start waits"}
DrainerPlaces == {"idle", "recover", "check", "repack", "mark", "rename",
                  "reset", "unmark", "look", "transform", "post",
                  "advance", "off"}

NoLine == [recs |-> {}, valid |-> FALSE, ended |-> FALSE]

Init ==
  /\ outbox = <<>> /\ cursor = 0 /\ dropped = 0
  /\ copied = FALSE /\ copy = <<>> /\ marker = FALSE
  /\ wpc = [p \in Procs |-> "idle"]
  /\ rec = [p \in Procs |-> 0]
  /\ seen = [p \in Procs |-> 0]
  /\ age = [p \in Procs |-> 0]
  /\ dpc = [p \in Procs |-> "idle"]
  /\ line = [p \in Procs |-> NoLine]
  /\ next = [p \in Procs |-> 0]
  /\ fails = [p \in Procs |-> 0]
  /\ clients = [p \in Procs |-> 0]
  /\ busy = [p \in Procs |-> 0]
  /\ orphans = [p \in Procs |-> 0]
  /\ stalled = [p \in Procs |-> FALSE]
  /\ issued = 0 /\ faults = 0
  /\ log = <<>> /\ base = 0
  /\ settled = {} /\ accepted = {} /\ counted = 0 /\ strayed = {}

\* Something goes wrong.
Fault == issued + faults < MaxEvents /\ faults' = faults + 1

\* read_cursor: a file that cannot be read or parsed is a cursor of 0.
Reads(c) == \/ c = cursor /\ UNCHANGED faults
            \/ c = 0 /\ cursor > 0 /\ Fault

(***************************************************************************)
(* The locks.  An flock belongs to the file that was opened, which after a *)
(* rename is no longer the one at the path; files are told apart by their  *)
(* age, 0 being the outbox.                                                *)
(***************************************************************************)
Repacking(p) == dpc[p] \in {"repack", "mark", "rename"}

Locked(a) ==
  \/ \E p \in Procs : wpc[p] = "counting" /\ age[p] = a
  \/ a = 0 /\ \E p \in Procs : Repacking(p)

\* Mutant: the drain lock is not taken.
MutDrainUnlocked == FALSE

\* A cycle holds the drain lock from end to end (try_lock_exclusive).
DrainLocked == \E p \in Procs : dpc[p] \notin {"idle", "off"}

(***************************************************************************)
(* The persisting thread: HookSink::persist, for one matching record.      *)
(***************************************************************************)
WGoto(p, there) == wpc' = [wpc EXCEPT ![p] = there]

\* persist returns.
Return(p) ==
  /\ WGoto(p, "idle")
  /\ rec' = [rec EXCEPT ![p] = 0]
  /\ seen' = [seen EXCEPT ![p] = 0]
  /\ age' = [age EXCEPT ![p] = 0]

\* The cursor is read for the cap.
Persist(p) ==
  /\ wpc[p] = "idle" /\ issued < MaxRecords
  /\ WGoto(p, "stat")
  /\ issued' = issued + 1
  /\ rec' = [rec EXCEPT ![p] = issued + 1]
  /\ \E c \in {0, cursor} : Reads(c) /\ seen' = [seen EXCEPT ![p] = c]
  /\ issued' + faults' <= MaxEvents
  /\ UNCHANGED <<age, files, drainers, history>>

\* rule_over_cap, with the cursor read before: saturating subtraction.
OverCap(c) == Cap > 0 /\ Len(outbox) > c + Cap

\* The length is read, and the cap decides.
Measure(p) ==
  /\ wpc[p] = "stat"
  /\ WGoto(p, IF OverCap(seen[p]) THEN "count" ELSE "append")
  /\ seen' = [seen EXCEPT ![p] = 0]
  /\ UNCHANGED <<rec, age, files, drainers, bounds, history>>

\* lock_exclusive opens the path and, when the file is locked, waits with the
\* file it has opened.
Wait(p) ==
  /\ Locked(0)
  /\ \/ wpc[p] = "append" /\ WGoto(p, "append waits")
     \/ wpc[p] = "count" /\ WGoto(p, "count waits")
     \/ wpc[p] = "down" /\ WGoto(p, "start waits")
  /\ UNCHANGED <<rec, seen, age, files, drainers, bounds, history>>

\* It gets the lock, at once or after it has waited.
GetsLock(p, before, waiting) ==
  wpc[p] \in {before, waiting} /\ ~Locked(age[p])

\* What is written goes to the file that was opened: the outbox, or one that a
\* rename has taken away.
Write(p, e) ==
  IF age[p] = 0
  THEN /\ outbox' = Put(outbox, e)
       /\ log' = Put(log, e)
       /\ UNCHANGED strayed
  ELSE /\ strayed' = strayed \cup {rec[p]}
       /\ UNCHANGED <<outbox, log>>

\* append_outbox_line writes the line and returns Ok.
AppendLine(p) ==
  /\ GetsLock(p, "append", "append waits")
  /\ Write(p, Whole(rec[p]))
  /\ accepted' = accepted \cup {rec[p]}
  /\ Return(p)
  /\ UNCHANGED <<cursor, copied, copy, marker, dropped, drainers, bounds,
                 base, settled, counted>>

\* The append returns an error: the write stops short (a full disk), or the file
\* is not opened, locked or written at all.
AppendFails(p) ==
  /\ \/ /\ GetsLock(p, "append", "append waits")
        /\ \E e \in {Unended(rec[p]), Cut(rec[p])} : Write(p, e)
     \/ /\ wpc[p] \in {"append", "append waits"}
        /\ UNCHANGED <<outbox, log, strayed>>
  /\ WGoto(p, "count")
  /\ age' = [age EXCEPT ![p] = 0]
  /\ Fault
  /\ UNCHANGED <<rec, seen, cursor, copied, copy, marker, dropped, drainers,
                 issued, base, settled, accepted, counted>>

\* Mutant: the counter is read without the outbox's lock.
MutCountReadUnlocked(p) ==
  /\ wpc[p] \in {"count", "count waits"}
  /\ WGoto(p, "counting")
  /\ seen' = [seen EXCEPT ![p] = dropped]
  /\ UNCHANGED <<rec, age, files, drainers, bounds, history>>

\* increment_dropped_appends: the counter is read under the outbox's lock ...
CountRead(p) ==
  /\ GetsLock(p, "count", "count waits")
  /\ WGoto(p, "counting")
  /\ seen' = [seen EXCEPT ![p] = dropped]
  /\ UNCHANGED <<rec, age, files, drainers, bounds, history>>

\* ... and written back, and the lock is released.
CountWrite(p) ==
  /\ wpc[p] = "counting"
  /\ dropped' = seen[p] + 1
  /\ counted' = counted + 1
  /\ strayed' = IF age[p] = 0 THEN strayed ELSE strayed \cup {rec[p]}
  /\ Return(p)
  /\ UNCHANGED <<outbox, cursor, copied, copy, marker, drainers, bounds,
                 log, base, settled, accepted>>

\* The lock or the write fails, which is reported; the drop is not counted.
CountFails(p) ==
  /\ wpc[p] \in {"count", "count waits", "counting"}
  /\ Return(p)
  /\ Fault
  /\ UNCHANGED <<files, drainers, issued, history>>

(***************************************************************************)
(* The drainer: drain_rule.                                                *)
(***************************************************************************)
DGoto(p, there) == dpc' = [dpc EXCEPT ![p] = there]

\* The cycle ends and the drain lock is released.
EndCycle(p) ==
  /\ DGoto(p, "idle")
  /\ line' = [line EXCEPT ![p] = NoLine]
  /\ next' = [next EXCEPT ![p] = 0]

\* A cycle begins.  In a stalled rule it first probes the cursor by writing
\* what it reads there, which is not tried while the backlog of transforms is
\* full; a probe that fails ends the cycle where it began.
Begin(p) ==
  /\ dpc[p] = "idle" /\ ~DrainLocked
  /\ stalled[p] => orphans[p] < OrphanCap
  /\ DGoto(p, "recover")
  /\ IF stalled[p]
     THEN /\ stalled' = [stalled EXCEPT ![p] = FALSE]
          /\ fails' = [fails EXCEPT ![p] = 0]
          /\ busy' = [busy EXCEPT ![p] = 0]
          /\ clients' = [clients EXCEPT ![p] = 0]
          /\ \E c \in {0, cursor} : Reads(c) /\ cursor' = c
     ELSE UNCHANGED <<stalled, fails, busy, clients, cursor, faults>>
  /\ UNCHANGED <<orphans, line, next, outbox, copied, copy, marker, dropped,
                 writers, issued, history>>

\* Mutant: the marker is removed and the cursor left where it was.
MutRecoverUnreset(p) ==
  /\ dpc[p] = "recover"
  /\ DGoto(p, IF marker THEN "unmark" ELSE "check")
  /\ UNCHANGED <<line, next, counts, files, writers, bounds, history>>

\* Mutant: a compaction that did not come to its rename is left as it is.
MutRecoverOnlyRenamed(p) ==
  /\ dpc[p] = "recover"
  /\ IF ~marker THEN DGoto(p, "check") /\ UNCHANGED <<cursor, line, next>>
     ELSE IF copied THEN EndCycle(p) /\ UNCHANGED cursor
     ELSE DGoto(p, "unmark") /\ cursor' = 0 /\ UNCHANGED <<line, next>>
  /\ UNCHANGED <<counts, outbox, copied, copy, marker, dropped, writers,
                 bounds, history>>

\* recover_compaction: a marker without the copy means that the outbox was
\* repacked under a cursor of the old layout.
Recover(p) ==
  /\ dpc[p] = "recover"
  /\ IF ~marker THEN DGoto(p, "check") /\ UNCHANGED cursor
     ELSE /\ DGoto(p, "unmark")
          /\ cursor' = IF copied THEN cursor ELSE 0
  /\ UNCHANGED <<line, next, counts, outbox, copied, copy, marker, dropped,
                 writers, bounds, history>>

\* The marker is removed once the cursor is right, by recover_compaction or at
\* the end of compact_outbox.
Unmark(p) ==
  /\ dpc[p] = "unmark"
  /\ marker' = FALSE
  /\ DGoto(p, "check")
  /\ UNCHANGED <<line, next, counts, outbox, cursor, copied, copy, dropped,
                 writers, bounds, history>>

\* maybe_compact_outbox: below the threshold nothing is repacked; at it the
\* outbox is locked.  (The cursor is read again under the lock, but only the
\* holder of the drain lock writes it: what can come of that is a misread 0.)
Check(p) ==
  /\ dpc[p] = "check"
  /\ \E c \in {0, cursor} :
       /\ Reads(c)
       /\ \/ c < CompactAt /\ DGoto(p, "look")
          \/ c >= CompactAt /\ ~Locked(0) /\ DGoto(p, "repack")
  /\ UNCHANGED <<line, next, counts, files, writers, issued, history>>

\* Mutant: the whole outbox is copied, delivered lines included.
MutRepackAll(p) ==
  /\ dpc[p] = "repack"
  /\ copied' = TRUE
  /\ copy' = outbox
  /\ DGoto(p, "mark")
  /\ UNCHANGED <<line, next, counts, outbox, cursor, marker, dropped, writers,
                 bounds, history>>

\* compact_outbox copies what is behind the cursor ...
Repack(p) ==
  /\ dpc[p] = "repack"
  /\ copied' = TRUE
  /\ copy' = SubSeq(outbox, cursor + 1, Len(outbox))
  /\ DGoto(p, "mark")
  /\ UNCHANGED <<line, next, counts, outbox, cursor, marker, dropped, writers,
                 bounds, history>>

\* ... puts the marker down ...
Mark(p) ==
  /\ dpc[p] = "mark"
  /\ marker' = TRUE
  /\ DGoto(p, "rename")
  /\ UNCHANGED <<line, next, counts, outbox, cursor, copied, copy, dropped,
                 writers, bounds, history>>

\* ... renames the copy over the outbox and releases the lock, which leaves
\* those who wait for it with the file they opened ...
HasOpen(p) ==
  wpc[p] \in {"append waits", "count waits", "counting", "start waits"}

Rename(p) ==
  /\ dpc[p] = "rename"
  /\ outbox' = copy
  /\ copied' = FALSE /\ copy' = <<>>
  /\ base' = base + Len(outbox) - Len(copy)
  /\ age' = [q \in Procs |-> IF HasOpen(q) THEN age[q] + 1 ELSE age[q]]
  /\ DGoto(p, "reset")
  /\ UNCHANGED <<line, next, counts, cursor, marker, dropped, wpc, rec, seen,
                 bounds, log, settled, accepted, counted, strayed>>

\* ... and resets the cursor.
Reset(p) ==
  /\ dpc[p] = "reset"
  /\ cursor' = 0
  /\ DGoto(p, "unmark")
  /\ UNCHANGED <<line, next, counts, outbox, copied, copy, marker, dropped,
                 writers, bounds, history>>

\* The rename, the reset of the cursor (here or in the recovery) or the
\* removal of the marker fails: the cursor cannot be trusted in this cycle.
CompactionFails(p) ==
  /\ \/ dpc[p] \in {"rename", "reset", "unmark"}
     \/ dpc[p] = "recover" /\ marker /\ ~copied
  /\ EndCycle(p)
  /\ Fault
  /\ UNCHANGED <<counts, files, writers, issued, history>>

\* The copy or the marker cannot be written: nothing was repacked, the cursor is
\* right, and the cycle goes on with it.
RepackFails(p) ==
  /\ dpc[p] \in {"repack", "mark"}
  /\ DGoto(p, "look")
  /\ Fault
  /\ UNCHANGED <<line, next, counts, files, writers, issued, history>>

\* Mutant: what is there of a torn line is taken as a line.
MutLookAtTorn(p) ==
  /\ dpc[p] = "look"
  /\ \E c \in {0, cursor} :
       /\ Reads(c)
       /\ IF c < Len(outbox)
          THEN /\ DGoto(p, "transform")
               /\ line' = [line EXCEPT ![p] = outbox[c + 1]]
               /\ next' = [next EXCEPT ![p] = c + 1]
          ELSE EndCycle(p)
  /\ UNCHANGED <<counts, files, writers, issued, history>>

\* The cursor is read; next_pending_line: a torn tail is not pending.
Look(p) ==
  /\ dpc[p] = "look"
  /\ \E c \in {0, cursor} :
       /\ Reads(c)
       /\ IF c < Len(outbox) /\ outbox[c + 1].ended
          THEN /\ DGoto(p, "transform")
               /\ line' = [line EXCEPT ![p] = outbox[c + 1]]
               /\ next' = [next EXCEPT ![p] = c + 1]
          ELSE EndCycle(p)
  /\ UNCHANGED <<counts, files, writers, issued, history>>

\* The outbox cannot be read: the cycle takes it for empty.
LookFails(p) ==
  /\ dpc[p] = "look"
  /\ EndCycle(p)
  /\ Fault
  /\ UNCHANGED <<counts, files, writers, issued, history>>

\* The line in hand has come to an outcome; the cursor is to be advanced.
Settle(p) ==
  /\ settled' = settled \cup line[p].recs
  /\ DGoto(p, "advance")
  /\ UNCHANGED <<line, next>>

\* A line that is not one JSON record goes to the quarantine file.
QuarantineInvalid(p) ==
  /\ dpc[p] = "transform" /\ ~line[p].valid
  /\ Settle(p)
  /\ UNCHANGED <<counts, files, writers, bounds, log, base, accepted, counted,
                 strayed>>

\* There is a body to send: the line, or what the transform made of it.
Body(p) ==
  /\ dpc[p] = "transform" /\ line[p].valid
  /\ Transforms => orphans[p] < OrphanCap
  /\ DGoto(p, "post")
  /\ busy' = [busy EXCEPT ![p] = 0]
  /\ UNCHANGED <<line, next, fails, clients, orphans, stalled, files, writers,
                 bounds, history>>

\* The transform fails, and its thread may be left running (a timeout).
TransformFails(p) ==
  /\ Transforms
  /\ dpc[p] = "transform" /\ line[p].valid
  /\ orphans[p] < OrphanCap
  /\ Settle(p)
  /\ busy' = [busy EXCEPT ![p] = 0]
  /\ \E left \in {0, 1} : orphans' = [orphans EXCEPT ![p] = @ + left]
  /\ Fault
  /\ UNCHANGED <<fails, clients, stalled, files, writers, issued, log, base,
                 accepted, counted, strayed>>

\* n counted up to its limit, beyond which the code tells no values apart.
UpTo(n, limit) == IF n < limit THEN n + 1 ELSE n

\* on_busy: too many transforms are still running; not the line's fault.
Busy(p) ==
  /\ Transforms
  /\ dpc[p] = "transform" /\ line[p].valid
  /\ orphans[p] >= OrphanCap
  /\ busy' = [busy EXCEPT ![p] = UpTo(@, BusyStall)]
  /\ stalled' = [stalled EXCEPT ![p] = @ \/ busy'[p] >= BusyStall]
  /\ EndCycle(p)
  /\ UNCHANGED <<fails, clients, orphans, files, writers, bounds, history>>

OrphanEnds(p) ==
  /\ orphans[p] > 0
  /\ orphans' = [orphans EXCEPT ![p] = @ - 1]
  /\ UNCHANGED <<dpc, line, next, fails, clients, busy, stalled, files, writers,
                 bounds, history>>

\* The receiver takes the line (on_success), or answers with a redirect, on
\* which the line is given up at once (on_redirect).
Answered(p) ==
  /\ dpc[p] = "post"
  /\ Settle(p)
  /\ UNCHANGED <<counts, files, writers, bounds, log, base, accepted, counted,
                 strayed>>

\* It refuses the line: on_client_error.
ClientError(p) ==
  /\ dpc[p] = "post"
  /\ clients' = [clients EXCEPT ![p] = UpTo(@, ClientMax)]
  /\ IF clients'[p] >= ClientMax
     THEN Settle(p)
     ELSE EndCycle(p) /\ UNCHANGED settled
  /\ UNCHANGED <<fails, busy, orphans, stalled, files, writers, bounds, log,
                 base, accepted, counted, strayed>>

\* A 5xx, a 408 or 429, or no answer: on_retryable.
Unanswered(p) ==
  /\ dpc[p] = "post"
  /\ EndCycle(p)
  /\ Fault
  /\ UNCHANGED <<counts, files, writers, issued, history>>

\* advance_cursor, when the cursor is written ...
AdvanceCursor(p) ==
  /\ dpc[p] = "advance"
  /\ cursor' = next[p]
  /\ fails' = [fails EXCEPT ![p] = 0]
  /\ stalled' = [stalled EXCEPT ![p] = FALSE]
  /\ clients' = [clients EXCEPT ![p] = 0]
  /\ EndCycle(p)
  /\ UNCHANGED <<busy, orphans, outbox, copied, copy, marker, dropped, writers,
                 bounds, history>>

\* ... and when it is not: the line will be taken up again.
AdvanceFails(p) ==
  /\ dpc[p] = "advance"
  /\ fails' = [fails EXCEPT ![p] = UpTo(@, CursorStall)]
  /\ stalled' = [stalled EXCEPT ![p] = @ \/ fails'[p] >= CursorStall]
  /\ EndCycle(p)
  /\ Fault
  /\ UNCHANGED <<clients, busy, orphans, files, writers, issued, history>>

(***************************************************************************)
(* Processes are killed and started.                                       *)
(***************************************************************************)
\* What a process knows is gone, and its locks are released.
Die(p) ==
  /\ Fault
  /\ WGoto(p, "down")
  /\ rec' = [rec EXCEPT ![p] = 0]
  /\ seen' = [seen EXCEPT ![p] = 0]
  /\ age' = [age EXCEPT ![p] = 0]
  /\ DGoto(p, "off")
  /\ line' = [line EXCEPT ![p] = NoLine]
  /\ next' = [next EXCEPT ![p] = 0]
  /\ fails' = [fails EXCEPT ![p] = 0]
  /\ clients' = [clients EXCEPT ![p] = 0]
  /\ busy' = [busy EXCEPT ![p] = 0]
  /\ orphans' = [orphans EXCEPT ![p] = 0]
  /\ stalled' = [stalled EXCEPT ![p] = FALSE]

Kill(p) ==
  /\ wpc[p] # "down"
  /\ Die(p)
  /\ UNCHANGED <<files, issued, history>>

\* It dies in the middle of the write of a line.
KillMidWrite(p) ==
  /\ GetsLock(p, "append", "append waits")
  /\ \E e \in {Unended(rec[p]), Cut(rec[p])} : Write(p, e)
  /\ Die(p)
  /\ UNCHANGED <<cursor, copied, copy, marker, dropped, issued, base, settled,
                 accepted, counted>>

\* HookSink::new ends the last line if it is torn (ensure_trailing_newline),
\* and starts the drainer.
Start(p) ==
  /\ GetsLock(p, "down", "start waits")
  /\ IF age[p] = 0
     THEN outbox' = Terminated(outbox) /\ log' = Terminated(log)
     ELSE UNCHANGED <<outbox, log>>
  /\ Return(p)
  /\ DGoto(p, "idle")
  /\ UNCHANGED <<cursor, copied, copy, marker, dropped, line, next, counts,
                 bounds, base, settled, accepted, counted, strayed>>

WriterStep(p) ==
  \/ Persist(p) \/ Measure(p) \/ Wait(p) \/ AppendLine(p) \/ AppendFails(p)
  \/ CountRead(p) \/ CountWrite(p) \/ CountFails(p)

CompactionStep(p) ==
  \/ Recover(p) \/ Unmark(p) \/ Check(p) \/ Repack(p) \/ Mark(p) \/ Rename(p)
  \/ Reset(p) \/ CompactionFails(p) \/ RepackFails(p)

DeliveryStep(p) ==
  \/ Look(p) \/ LookFails(p) \/ QuarantineInvalid(p) \/ Body(p) \/ TransformFails(p)
  \/ Busy(p) \/ Answered(p) \/ ClientError(p) \/ Unanswered(p)
  \/ AdvanceCursor(p) \/ AdvanceFails(p)

DrainerStep(p) == Begin(p) \/ CompactionStep(p) \/ DeliveryStep(p)

Next == \E p \in Procs :
  \/ WriterStep(p) \/ DrainerStep(p)
  \/ Kill(p) \/ KillMidWrite(p) \/ Start(p) \/ OrphanEnds(p)

(***************************************************************************)
(* Fairness.  A drainer polls for ever (drainer_loop), a counter that was  *)
(* read is written back, and a killed process is started again.  Nothing   *)
(* makes a process write, and nothing makes a transform that was left      *)
(* running end.  That faults are bounded says the rest: a receiver that is *)
(* asked again and again answers at last, and a full disk is cleared.      *)
(***************************************************************************)
Fairness == \A p \in Procs :
  /\ WF_vars(DrainerStep(p))
  /\ WF_vars(CountWrite(p))
  /\ WF_vars(Start(p))

Spec == Init /\ [][Next]_vars
FairSpec == Spec /\ Fairness

(***************************************************************************)
(* Properties.                                                             *)
(***************************************************************************)
\* Every variable has its type, and what is held only in some places is empty
\* in the others (the fields of HookSink, RuleRuntime and Pending).
TypeOK ==
  /\ outbox \in Seq(Entries) /\ log \in Seq(Entries) /\ copy \in Seq(Entries)
  /\ cursor \in Nat /\ base \in Nat /\ dropped \in Nat
  /\ copied \in BOOLEAN /\ marker \in BOOLEAN
  /\ wpc \in [Procs -> WriterPlaces]
  /\ rec \in [Procs -> 0..MaxRecords]
  /\ seen \in [Procs -> Nat] /\ age \in [Procs -> Nat]
  /\ dpc \in [Procs -> DrainerPlaces]
  /\ line \in [Procs -> Entries]
  /\ next \in [Procs -> Nat]
  /\ fails \in [Procs -> 0..CursorStall]
  /\ clients \in [Procs -> 0..ClientMax]
  /\ busy \in [Procs -> 0..BusyStall]
  /\ orphans \in [Procs -> 0..OrphanCap]
  /\ stalled \in [Procs -> BOOLEAN]
  /\ issued \in 0..MaxRecords /\ faults \in 0..MaxEvents
  /\ settled \subseteq Records /\ accepted \subseteq Records
  /\ counted \in Nat
  /\ strayed \subseteq Records

\* The lines that are behind the drainers for good.  Between the rename and
\* the reset the cursor file still counts lines of the old layout.
Behind == base + (IF marker /\ ~copied THEN 0 ELSE cursor)

\* A record whose append returned Ok is in a line that was settled, or in the
\* outbox and still in front of the cursor, whatever was repacked, killed or
\* cut short since: unless it was appended to a file that the rename of a
\* repacking had taken away from the path (compact_outbox).
NothingLost == \A r \in accepted \ strayed :
  \/ r \in settled
  \/ \E i \in 1..Len(outbox) : base + i > Behind /\ r \in outbox[i].recs

\* Lines are settled in the order in which they were written, although the
\* cursor may go back when it is misread: all that is behind the cursor has come
\* to something, and when a record has, all that is in the lines before its own
\* has (drain_rule).
SettledInOrder == \A i \in 1..Len(log) :
  /\ i <= Behind => log[i].recs \subseteq settled
  /\ log[i].recs \cap settled # {} => \A j \in 1..i - 1 : log[j].recs \subseteq settled

\* The counter of drops counts every record that was counted, although many
\* processes read and write it back: unless one of them had its lock on a
\* file that was no longer the outbox (add_counter_sidecar).
DropsCounted == strayed = {} => dropped = counted

\* The file stays bounded when nothing is delivered: by the cap, a line for
\* each writer that decided at the same time, and what is behind a cursor that
\* awaits its reset, or that failing repackings left, which the cap overlooks
\* (rule_over_cap).
FileBounded ==
  Cap > 0 => Len(outbox) <= CompactAt + faults + Cap + Cardinality(Procs)

\* Every record whose append returned Ok stays in the outbox until its line is
\* settled: what the doc of maybe_compact_outbox says ("so an appender can
\* never interleave with the rewrite").
AcceptedIsKept == \A r \in accepted :
  \/ r \in settled
  \/ \E i \in 1..Len(outbox) : base + i > Behind /\ r \in outbox[i].recs

\* Every line that is complete is settled in the end, unless in all processes
\* the transforms left running fill the backlog (a transform need not end).
Pending(r) == \E i \in 1..Len(outbox) :
  base + i > Behind /\ outbox[i].ended /\ r \in outbox[i].recs
Backlogged == \A p \in Procs : orphans[p] >= OrphanCap
PendingIsSettled == \A r \in Records :
  Pending(r) ~> (r \in settled \/ Backlogged)

(***************************************************************************)
(* The implementation of the abstract queue.                               *)
(***************************************************************************)
Queue == INSTANCE LineQueue WITH lines <- log, head <- Behind

\* Seen through its history, the outbox with its cursor, marker, repackings and
\* crashes is a queue of lines that are settled and left behind in order.
ImplementsQueue == Queue!Spec

(***************************************************************************)
(* The inductive invariant.                                                *)
(***************************************************************************)
\* The cursor file still counts lines of the layout before a rename.
ResetPending == marker /\ ~copied

\* The outbox is what was not repacked away, and a copy about to be renamed is
\* what is behind the cursor.
Windows ==
  /\ Len(log) = base + Len(outbox)
  /\ \A i \in 1..Len(outbox) : outbox[i] = log[base + i]
  /\ ResetPending \/ cursor <= Len(outbox)
  /\ cursor <= CompactAt + faults
  /\ \A p \in Procs : dpc[p] \in {"mark", "rename"} =>
       /\ Len(copy) = Len(outbox) - cursor
       /\ \A i \in 1..Len(copy) : copy[i] = outbox[cursor + i]

\* One drainer is in a cycle at a time, and what the marker, the copy and the
\* cursor are at each of its places.
Cycles ==
  /\ \A p, q \in Procs :
       dpc[p] \notin {"idle", "off"} /\ dpc[q] \notin {"idle", "off"} => p = q
  /\ \A p \in Procs :
       /\ dpc[p] \in {"rename", "unmark"} => marker
       /\ dpc[p] \in {"mark", "rename"} => copied
       /\ dpc[p] = "reset" => ResetPending
       /\ dpc[p] = "unmark" => copied \/ cursor = 0
       /\ dpc[p] \in {"check", "repack", "mark", "look", "transform", "post",
                     "advance"} => ~marker
       /\ dpc[p] \in {"look", "transform", "post", "advance"} =>
            cursor < CompactAt + faults
       /\ dpc[p] \in {"transform", "post", "advance"} =>
            /\ next[p] \in 1..cursor + 1 /\ next[p] <= Len(outbox)
            /\ line[p] = outbox[next[p]] /\ line[p].ended
       /\ dpc[p] = "advance" => line[p].recs \subseteq settled

\* A file has one holder of its lock.
Locks ==
  /\ \A p, q \in Procs :
       wpc[p] = "counting" /\ wpc[q] = "counting" /\ age[p] = age[q] => p = q
  /\ \A p, q \in Procs : ~(Repacking(p) /\ wpc[q] = "counting" /\ age[q] = 0)

\* Only the last line may lack its newline, and no line behind the cursor does;
\* those are settled, and so are the lines before one that is.
Lines ==
  /\ \A i \in 1..Len(log) : i < Len(log) \/ i <= Behind => log[i].ended
  /\ \A i \in 1..Behind : log[i].recs \subseteq settled
  /\ \A i, j \in 1..Len(log) :
       j < i /\ log[i].recs \cap settled # {} => log[j].recs \subseteq settled

\* No record is in two lines, none that is not yet written is in any, and what
\* was settled is in one.
Unwritten(p) == wpc[p] \in {"stat", "append", "append waits"}
Numbers ==
  /\ \A i, j \in 1..Len(log) : log[i].recs \cap log[j].recs # {} => i = j
  /\ \A i \in 1..Len(log) : log[i].recs \subseteq 1..issued
  /\ \A r \in settled : \E i \in 1..Len(log) : r \in log[i].recs
  /\ \A p \in Procs : wpc[p] \notin {"idle", "down", "start waits"} =>
       rec[p] \in 1..issued
  /\ \A p \in Procs : Unwritten(p) =>
       \A i \in 1..Len(log) : rec[p] \notin log[i].recs
  /\ \A p, q \in Procs : Unwritten(p) /\ Unwritten(q) /\ rec[p] = rec[q] => p = q

\* What was accepted is in a line.
Kept == \A r \in accepted \ strayed : \E i \in 1..Len(log) : r \in log[i].recs

\* The counter, while a writer is between its read and its write.
Counts == strayed = {} =>
  /\ dropped = counted
  /\ \A p \in Procs : wpc[p] = "counting" /\ age[p] = 0 => seen[p] = dropped

\* The writers that are allowed to append and have not.
Allowed == {p \in Procs : wpc[p] \in {"append", "append waits"}}
Bounded ==
  /\ \A p \in Procs : wpc[p] = "stat" => seen[p] <= CompactAt + faults
  /\ Cap > 0 =>
       Len(outbox) + Cardinality(Allowed)
         <= CompactAt + faults + Cap + Cardinality(Procs)

IInv ==
  /\ TypeOK /\ Windows /\ Cycles /\ Locks /\ Lines /\ Numbers /\ Kept
  /\ Counts /\ Bounded
=============================================================================
