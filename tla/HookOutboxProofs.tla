-------------------------- MODULE HookOutboxProofs --------------------------
(***************************************************************************)
(* Safety of HookOutbox for every number of processes and records and      *)
(* every bound: one inductive invariant, through lemmas on what a write    *)
(* does to a file and on what the steps of a writer, of a drainer and of   *)
(* the end of a process leave alone.                                       *)
(***************************************************************************)
EXTENDS HookOutbox, TLAPS, FiniteSetTheorems

-----------------------------------------------------------------------------
(* Files. *)

\* The entries a write may leave are entries of one record.
LEMMA WrittenTyped ==
  ASSUME NEW r \in Records, NEW e \in {Whole(r), Unended(r), Cut(r)}
  PROVE  e \in Entries /\ e.recs = {r}
<1>1. {r} \in SUBSET Records
  OBVIOUS
<1>2. Whole(r) \in Entries /\ Unended(r) \in Entries /\ Cut(r) \in Entries
  BY <1>1 DEF Whole, Unended, Cut, Entries
<1>3. Whole(r).recs = {r} /\ Unended(r).recs = {r} /\ Cut(r).recs = {r}
  BY DEF Whole, Unended, Cut
<1> QED BY <1>2, <1>3

\* A write keeps the lines but a torn last one, which it may only make longer.
LEMMA PutKeeps ==
  ASSUME NEW s \in Seq(Entries), NEW e \in Entries
  PROVE  /\ Put(s, e) \in Seq(Entries)
         /\ Len(s) <= Len(Put(s, e)) /\ Len(Put(s, e)) <= Len(s) + 1
         /\ \A i \in 1..Len(s) : s[i].ended \/ i # Len(s) => Put(s, e)[i] = s[i]
         /\ \A i \in 1..Len(s) : s[i].recs \subseteq Put(s, e)[i].recs
         /\ \A i \in 1..Len(Put(s, e)) :
              Put(s, e)[i].recs \subseteq
                (IF i \in 1..Len(s) THEN s[i].recs ELSE {})
                  \cup (IF i = Len(Put(s, e)) THEN e.recs ELSE {})
         /\ \A i \in 1..Len(Put(s, e)) : i \in 1..Len(s) \/ s = <<>> \/ s[Len(s)].ended
         /\ Len(Put(s, e)) > 0 /\ e.recs \subseteq Put(s, e)[Len(Put(s, e))].recs
<1>1. CASE Torn(s)
  <2>1. Put(s, e) = [s EXCEPT ![Len(s)] = Glued(s[Len(s)], e)]
    BY <1>1 DEF Put
  <2>2. Len(s) \in 1..Len(s) /\ ~s[Len(s)].ended /\ s[Len(s)] \in Entries
    BY <1>1 DEF Torn
  <2>3. /\ Glued(s[Len(s)], e) \in Entries
        /\ Glued(s[Len(s)], e).recs = s[Len(s)].recs \cup e.recs
    BY <2>2 DEF Glued, Entries
  <2>4. /\ Put(s, e) \in Seq(Entries) /\ Len(Put(s, e)) = Len(s)
        /\ Put(s, e)[Len(s)] = Glued(s[Len(s)], e)
        /\ \A i \in 1..Len(s) : i # Len(s) => Put(s, e)[i] = s[i]
    BY <2>1, <2>2, <2>3
  <2> QED BY <2>2, <2>3, <2>4
<1>2. CASE ~Torn(s)
  <2>1. Put(s, e) = Append(s, e)
    BY <1>2 DEF Put
  <2>2. s = <<>> \/ s[Len(s)].ended
    BY <1>2 DEF Torn
  <2>3. /\ Put(s, e) \in Seq(Entries) /\ Len(Put(s, e)) = Len(s) + 1
        /\ Put(s, e)[Len(s) + 1] = e
        /\ \A i \in 1..Len(s) : Put(s, e)[i] = s[i]
    BY <2>1
  <2> QED BY <2>2, <2>3
<1> QED BY <1>1, <1>2

\* Ending the last line keeps everything else.
LEMMA TerminatedKeeps ==
  ASSUME NEW s \in Seq(Entries)
  PROVE  /\ Terminated(s) \in Seq(Entries)
         /\ Len(Terminated(s)) = Len(s)
         /\ \A i \in 1..Len(s) :
              /\ Terminated(s)[i].recs = s[i].recs
              /\ s[i].ended \/ i # Len(s) => Terminated(s)[i] = s[i]
<1>1. CASE Torn(s)
  <2> DEFINE last == [s[Len(s)] EXCEPT !.ended = TRUE]
  <2>1. Terminated(s) = [s EXCEPT ![Len(s)] = last]
    BY <1>1 DEF Terminated
  <2>2. Len(s) \in 1..Len(s) /\ ~s[Len(s)].ended /\ s[Len(s)] \in Entries
    BY <1>1 DEF Torn
  <2>3. last \in Entries /\ last.recs = s[Len(s)].recs
    BY <2>2 DEF Entries
  <2> HIDE DEF last
  <2>4. /\ Terminated(s) \in Seq(Entries) /\ Len(Terminated(s)) = Len(s)
        /\ Terminated(s)[Len(s)] = last
        /\ \A i \in 1..Len(s) : i # Len(s) => Terminated(s)[i] = s[i]
    BY <2>1, <2>2, <2>3
  <2> QED BY <2>2, <2>3, <2>4
<1>2. CASE ~Torn(s)
  <2>1. Terminated(s) = s
    BY <1>2 DEF Terminated
  <2> QED BY <2>1
<1> QED BY <1>1, <1>2

\* What is behind a place in a file.
LEMMA SuffixOf ==
  ASSUME NEW s \in Seq(Entries), NEW c \in 0..Len(s)
  PROVE  /\ SubSeq(s, c + 1, Len(s)) \in Seq(Entries)
         /\ Len(SubSeq(s, c + 1, Len(s))) = Len(s) - c
         /\ \A i \in 1..Len(s) - c : SubSeq(s, c + 1, Len(s))[i] = s[c + i]
<1>1. Len(s) \in Nat /\ c + 1 \in Int
  OBVIOUS
<1>2. \A i \in c + 1..Len(s) : s[i] \in Entries
  OBVIOUS
<1> QED BY <1>1, <1>2

-----------------------------------------------------------------------------
(* What a step leaves alone. *)

\* A step of a persisting thread leaves the drainers and their files alone.
LEMMA WriterFrame ==
  ASSUME NEW p \in Procs, WriterStep(p)
  PROVE  /\ cursor' = cursor /\ copied' = copied /\ copy' = copy
         /\ marker' = marker /\ base' = base /\ settled' = settled
         /\ dpc' = dpc /\ line' = line /\ next' = next
         /\ fails' = fails /\ clients' = clients /\ busy' = busy
         /\ orphans' = orphans /\ stalled' = stalled
<1> USE DEF files, drainers, counts, bounds, history
<1>1. CASE Persist(p) BY <1>1 DEF Persist
<1>2. CASE Measure(p) BY <1>2 DEF Measure
<1>3. CASE Wait(p) BY <1>3 DEF Wait
<1>4. CASE AppendLine(p) BY <1>4 DEF AppendLine
<1>5. CASE AppendFails(p) BY <1>5 DEF AppendFails
<1>6. CASE CountRead(p) BY <1>6 DEF CountRead
<1>7. CASE CountWrite(p) BY <1>7 DEF CountWrite
<1>8. CASE CountFails(p) BY <1>8 DEF CountFails
<1> QED BY <1>1, <1>2, <1>3, <1>4, <1>5, <1>6, <1>7, <1>8 DEF WriterStep

\* A step of a drainer leaves the persisting threads alone and, unless it is
\* the rename of a repacking, the outbox.
LEMMA DrainerFrame ==
  ASSUME NEW p \in Procs, DrainerStep(p)
  PROVE  /\ wpc' = wpc /\ rec' = rec /\ seen' = seen
         /\ dropped' = dropped /\ issued' = issued
         /\ log' = log /\ accepted' = accepted /\ counted' = counted
         /\ strayed' = strayed
         /\ Rename(p) \/ (age' = age /\ outbox' = outbox /\ base' = base)
         /\ faults' = faults \/ Fault
<1> USE DEF files, writers, counts, bounds, history
<1>0. ASSUME NEW c, Reads(c) PROVE faults' = faults \/ Fault
  BY <1>0 DEF Reads
<1>1. CASE Begin(p) BY <1>0, <1>1 DEF Begin
<1>2. CASE Rename(p) BY <1>2 DEF Rename
<1>3. CASE Recover(p) \/ Unmark(p) \/ Check(p) \/ Repack(p) \/ Mark(p) \/ Reset(p)
  BY <1>0, <1>3 DEF Recover, Unmark, Check, Repack, Mark, Reset
<1>4. CASE CompactionFails(p) \/ RepackFails(p)
  BY <1>4 DEF CompactionFails, RepackFails, Fault
<1>5. CASE Look(p) \/ QuarantineInvalid(p) \/ Body(p) \/ Busy(p)
  BY <1>0, <1>5 DEF Look, QuarantineInvalid, Body, Busy
<1>6. CASE Answered(p) \/ ClientError(p) \/ AdvanceCursor(p)
  BY <1>6 DEF Answered, ClientError, AdvanceCursor
<1>7. CASE TransformFails(p) \/ LookFails(p) \/ Unanswered(p) \/ AdvanceFails(p)
  BY <1>7 DEF TransformFails, LookFails, Unanswered, AdvanceFails, Fault
<1> QED
  BY <1>1, <1>2, <1>3, <1>4, <1>5, <1>6, <1>7
  DEF DrainerStep, CompactionStep, DeliveryStep

\* So do the end and the start of a process, but for what that process has in
\* hand, and a transform that ends.
Ending(p) == Kill(p) \/ KillMidWrite(p) \/ Start(p) \/ OrphanEnds(p)

LEMMA EndingFrame ==
  ASSUME TypeOK, NEW p \in Procs, Ending(p)
  PROVE  /\ cursor' = cursor /\ copied' = copied /\ copy' = copy
         /\ marker' = marker /\ dropped' = dropped /\ issued' = issued
         /\ base' = base /\ settled' = settled /\ accepted' = accepted
         /\ counted' = counted
         /\ \A q \in Procs : q # p =>
              /\ wpc'[q] = wpc[q] /\ rec'[q] = rec[q] /\ seen'[q] = seen[q]
              /\ age'[q] = age[q]
              /\ dpc'[q] = dpc[q] /\ line'[q] = line[q] /\ next'[q] = next[q]
         /\ \/ /\ OrphanEnds(p)
               /\ wpc' = wpc /\ rec' = rec /\ seen' = seen /\ age' = age
               /\ dpc' = dpc /\ line' = line /\ next' = next
               /\ outbox' = outbox /\ log' = log /\ strayed' = strayed
            \/ /\ wpc'[p] \in {"down", "idle"} /\ dpc'[p] \in {"off", "idle"}
               /\ wpc[p] = "down" => dpc'[p] = "idle"
         /\ faults' = faults \/ Fault
<1> USE DEF files, counts, bounds, history, writers, WGoto, DGoto, TypeOK
<1>1. CASE Kill(p)
  BY <1>1 DEF Kill, Die, Fault
<1>2. CASE KillMidWrite(p)
  BY <1>2 DEF KillMidWrite, Die, Fault, GetsLock
<1>3. CASE Start(p)
  BY <1>3 DEF Start, Return
<1>4. CASE OrphanEnds(p)
  BY <1>4 DEF OrphanEnds
<1> QED BY <1>1, <1>2, <1>3, <1>4 DEF Ending

\* A step is one of these.
LEMMA StepOf ==
  ASSUME Next
  PROVE  \E p \in Procs : WriterStep(p) \/ DrainerStep(p) \/ Ending(p)
BY DEF Next, Ending

-----------------------------------------------------------------------------
(* Types. *)

LEMMA CountedUpTo ==
  ASSUME NEW n \in Nat, NEW limit \in Nat, n <= limit
  PROVE  UpTo(n, limit) \in 0..limit
BY DEF UpTo

\* What a write does to the files and what is recorded of it.
LEMMA WriteTyped ==
  ASSUME TypeOK, NEW p \in Procs, rec[p] \in Records,
         NEW e \in {Whole(rec[p]), Unended(rec[p]), Cut(rec[p])}, Write(p, e)
  PROVE  /\ outbox' \in Seq(Entries) /\ log' \in Seq(Entries)
         /\ strayed' \subseteq Records
<1>1. e \in Entries
  BY WrittenTyped
<1>2. Put(outbox, e) \in Seq(Entries) /\ Put(log, e) \in Seq(Entries)
  BY <1>1, PutKeeps DEF TypeOK
<1> QED BY <1>2 DEF Write, TypeOK

\* The constants are numbers, but for the processes and the transforms.
LEMMA ConstantsTyped ==
  /\ MaxRecords \in Nat /\ MaxEvents \in Nat
  /\ Cap \in Nat /\ CompactAt \in Nat
  /\ ClientMax \in Nat /\ CursorStall \in Nat
  /\ BusyStall \in Nat /\ OrphanCap \in Nat
BY OutboxAssumption

\* What a process is persisting is a record.
Persisting(p) == wpc[p] \notin {"idle", "down", "start waits"}

LEMMA RecordInHand ==
  ASSUME TypeOK, Numbers, NEW p \in Procs, Persisting(p)
  PROVE  rec[p] \in Records /\ rec[p] \in 1..issued
<1>1. rec[p] \in 1..issued
  BY DEF Numbers, Persisting
<1>2. issued \in 0..MaxRecords
  BY DEF TypeOK
<1> QED BY <1>1, <1>2, ConstantsTyped DEF Records

\* The types, by who has the variables.
FilesTyped ==
  /\ outbox \in Seq(Entries) /\ log \in Seq(Entries) /\ copy \in Seq(Entries)
  /\ cursor \in Nat /\ base \in Nat /\ dropped \in Nat
  /\ copied \in BOOLEAN /\ marker \in BOOLEAN
WritersTyped ==
  /\ wpc \in [Procs -> WriterPlaces]
  /\ rec \in [Procs -> 0..MaxRecords]
  /\ seen \in [Procs -> Nat] /\ age \in [Procs -> Nat]
DrainersTyped ==
  /\ dpc \in [Procs -> DrainerPlaces]
  /\ line \in [Procs -> Entries]
  /\ next \in [Procs -> Nat]
  /\ fails \in [Procs -> 0..CursorStall]
  /\ clients \in [Procs -> 0..ClientMax]
  /\ busy \in [Procs -> 0..BusyStall]
  /\ orphans \in [Procs -> 0..OrphanCap]
  /\ stalled \in [Procs -> BOOLEAN]
BoundsTyped == issued \in 0..MaxRecords /\ faults \in 0..MaxEvents
HistoryTyped ==
  /\ settled \subseteq Records /\ accepted \subseteq Records
  /\ counted \in Nat
  /\ strayed \subseteq Records

LEMMA TypeParts ==
  /\ TypeOK <=> FilesTyped /\ WritersTyped /\ DrainersTyped /\ BoundsTyped
                /\ HistoryTyped
  /\ TypeOK' <=> FilesTyped' /\ WritersTyped' /\ DrainersTyped' /\ BoundsTyped'
                /\ HistoryTyped'
BY DEF TypeOK, FilesTyped, WritersTyped, DrainersTyped, BoundsTyped, HistoryTyped

\* Where a thread is, and what it leaves when it returns, is typed.
LEMMA PlaceTypes ==
  ASSUME WritersTyped, NEW p \in Procs, NEW there \in WriterPlaces, WGoto(p, there)
  PROVE  wpc' \in [Procs -> WriterPlaces]
BY DEF WritersTyped, WGoto

LEMMA ReturnTypes ==
  ASSUME WritersTyped, NEW p \in Procs, Return(p)
  PROVE  WritersTyped'
<1>1. "idle" \in WriterPlaces /\ WGoto(p, "idle")
  BY DEF WriterPlaces, Return
<1>2. wpc' \in [Procs -> WriterPlaces]
  BY <1>1, PlaceTypes
<1>3. 0 \in 0..MaxRecords
  BY ConstantsTyped
<1> QED BY <1>2, <1>3 DEF Return, WritersTyped

\* A fault is counted within its bound.
LEMMA FaultTypes ==
  ASSUME BoundsTyped, Fault, issued' = issued
  PROVE  BoundsTyped'
BY ConstantsTyped DEF BoundsTyped, Fault

\* A step of a persisting thread keeps the types.
LEMMA WriterTypes ==
  ASSUME TypeOK, Numbers, NEW p \in Procs, WriterStep(p)
  PROVE  TypeOK'
<1> USE ConstantsTyped
<1>1. FilesTyped /\ WritersTyped /\ DrainersTyped /\ BoundsTyped /\ HistoryTyped
  BY TypeParts
<1>2. DrainersTyped'
  BY <1>1, WriterFrame DEF DrainersTyped
<1>3. copy' \in Seq(Entries) /\ cursor' \in Nat /\ base' \in Nat
      /\ copied' \in BOOLEAN /\ marker' \in BOOLEAN /\ settled' \subseteq Records
  BY <1>1, WriterFrame DEF FilesTyped, HistoryTyped
<1>4. CASE Persist(p)
  <2>0. cursor \in Nat /\ issued \in Nat /\ issued + 1 \in 0..MaxRecords
    BY <1>1, <1>4 DEF Persist, FilesTyped, BoundsTyped
  <2>1. WritersTyped'
    <3>1. PICK c \in {0, cursor} : seen' = [seen EXCEPT ![p] = c]
      BY <1>4 DEF Persist
    <3>0. c \in Nat
      BY <2>0, <3>1
    <3>2. seen' \in [Procs -> Nat]
      BY <1>1, <3>0, <3>1 DEF WritersTyped
    <3> QED BY <1>1, <1>4, <2>0, <3>2 DEF Persist, WritersTyped, WriterPlaces, WGoto
  <2>2. BoundsTyped'
    <3>1. faults' \in Nat
      BY <1>1, <1>4 DEF Persist, Reads, Fault, BoundsTyped
    <3>2. issued' = issued + 1 /\ issued' + faults' <= MaxEvents
      BY <1>4 DEF Persist
    <3>3. issued' \in Nat
      BY <2>0, <3>2
    <3>4. faults' <= MaxEvents
      BY <3>1, <3>2, <3>3
    <3> QED BY <2>0, <3>1, <3>2, <3>4 DEF BoundsTyped
  <2>3. FilesTyped' /\ HistoryTyped'
    BY <1>1, <1>4 DEF Persist, files, history, FilesTyped, HistoryTyped
  <2> QED BY <1>2, <2>1, <2>2, <2>3, TypeParts
<1>5. CASE Measure(p) \/ Wait(p) \/ CountRead(p)
  <2>0. dropped \in Nat
    BY <1>1 DEF FilesTyped
  <2>1. \E there \in WriterPlaces : WGoto(p, there)
    BY <1>5 DEF Measure, Wait, CountRead, WriterPlaces
  <2>3. wpc' \in [Procs -> WriterPlaces]
    BY <1>1, <2>1, PlaceTypes
  <2>4. rec' = rec /\ age' = age /\ seen' \in [Procs -> Nat]
    <3>1. seen \in [Procs -> Nat]
      BY <1>1 DEF WritersTyped
    <3>2. CASE Measure(p) BY <3>1, <3>2 DEF Measure
    <3>3. CASE Wait(p) BY <3>1, <3>3 DEF Wait
    <3>4. CASE CountRead(p) BY <2>0, <3>1, <3>4 DEF CountRead
    <3> QED BY <1>5, <3>2, <3>3, <3>4
  <2>5. WritersTyped'
    BY <1>1, <2>3, <2>4 DEF WritersTyped
  <2>2. FilesTyped' /\ HistoryTyped' /\ BoundsTyped'
    BY <1>1, <1>5 DEF Measure, Wait, CountRead, files, history, bounds, FilesTyped,
      HistoryTyped, BoundsTyped
  <2> QED BY <1>2, <2>2, <2>5, TypeParts
<1>6. CASE AppendLine(p)
  <2>0. rec[p] \in Records
    BY <1>6, RecordInHand DEF AppendLine, GetsLock, Persisting
  <2>1. /\ outbox' \in Seq(Entries) /\ log' \in Seq(Entries)
        /\ strayed' \subseteq Records
    BY <1>6, <2>0, WriteTyped DEF AppendLine
  <2>2. WritersTyped'
    BY <1>1, <1>6, ReturnTypes DEF AppendLine
  <2>3. FilesTyped' /\ HistoryTyped' /\ BoundsTyped'
    BY <1>1, <1>3, <1>6, <2>0, <2>1
    DEF AppendLine, bounds, FilesTyped, HistoryTyped, BoundsTyped
  <2> QED BY <1>2, <2>2, <2>3, TypeParts
<1>7. CASE AppendFails(p)
  <2>0. rec[p] \in Records
    BY <1>7, RecordInHand DEF AppendFails, GetsLock, Persisting
  <2>1. /\ outbox' \in Seq(Entries) /\ log' \in Seq(Entries)
        /\ strayed' \subseteq Records
    <3>1. CASE UNCHANGED <<outbox, log, strayed>>
      BY <1>1, <3>1 DEF FilesTyped, HistoryTyped
    <3> QED BY <1>7, <2>0, <3>1, WriteTyped DEF AppendFails
  <2>2. WritersTyped'
    BY <1>1, <1>7 DEF AppendFails, WritersTyped, WriterPlaces, WGoto
  <2>3. FilesTyped' /\ HistoryTyped'
    BY <1>1, <1>3, <1>7, <2>1 DEF AppendFails, FilesTyped, HistoryTyped
  <2>4. BoundsTyped'
    BY <1>1, <1>7, FaultTypes DEF AppendFails
  <2> QED BY <1>2, <2>2, <2>3, <2>4, TypeParts
<1>8. CASE CountWrite(p)
  <2>0. rec[p] \in Records
    BY <1>8, RecordInHand DEF CountWrite, Persisting
  <2>1. WritersTyped' /\ seen[p] \in Nat
    BY <1>1, <1>8, ReturnTypes DEF CountWrite, WritersTyped
  <2>2. FilesTyped' /\ HistoryTyped' /\ BoundsTyped'
    BY <1>1, <1>3, <1>8, <2>0, <2>1
    DEF CountWrite, bounds, FilesTyped, HistoryTyped, BoundsTyped
  <2> QED BY <1>2, <2>1, <2>2, TypeParts
<1>9. CASE CountFails(p)
  <2>1. WritersTyped' /\ BoundsTyped'
    BY <1>1, <1>9, ReturnTypes, FaultTypes DEF CountFails
  <2>2. FilesTyped' /\ HistoryTyped'
    BY <1>1, <1>9 DEF CountFails, files, history, FilesTyped, HistoryTyped
  <2> QED BY <1>2, <2>1, <2>2, TypeParts
<1> QED BY <1>4, <1>5, <1>6, <1>7, <1>8, <1>9 DEF WriterStep

\* Where a drainer is is typed.
LEMMA GotoTypes ==
  ASSUME DrainersTyped, NEW p \in Procs, NEW there \in DrainerPlaces, DGoto(p, there)
  PROVE  dpc' \in [Procs -> DrainerPlaces]
BY DEF DrainersTyped, DGoto

\* Its variables leave the end of a cycle with their types.
LEMMA EndCycleTypes ==
  ASSUME DrainersTyped, NEW p \in Procs, EndCycle(p)
  PROVE  /\ dpc' \in [Procs -> DrainerPlaces] /\ line' \in [Procs -> Entries]
         /\ next' \in [Procs -> Nat]
<1>1. NoLine \in Entries
  BY DEF NoLine, Entries
<1> QED BY <1>1 DEF EndCycle, DGoto, DrainersTyped, DrainerPlaces

\* A step of a drainer keeps the types.
LEMMA DrainerTypes ==
  ASSUME TypeOK, Windows, NEW p \in Procs, DrainerStep(p)
  PROVE  TypeOK'
<1> USE ConstantsTyped
<1>1. FilesTyped /\ WritersTyped /\ DrainersTyped /\ BoundsTyped /\ HistoryTyped
  BY TypeParts
<1>2. BoundsTyped'
  BY <1>1, DrainerFrame DEF BoundsTyped, Fault
<1>3. accepted' \subseteq Records /\ counted' \in Nat /\ strayed' \subseteq Records
      /\ dropped' \in Nat /\ log' \in Seq(Entries)
  BY <1>1, DrainerFrame DEF HistoryTyped, FilesTyped
<1>4. ASSUME ~Rename(p)
      PROVE  WritersTyped' /\ outbox' \in Seq(Entries) /\ base' \in Nat
  BY <1>1, <1>4, DrainerFrame DEF WritersTyped, FilesTyped
<1>5. CASE Rename(p)
  <2>1. WritersTyped'
    BY <1>1, <1>5 DEF Rename, WritersTyped
  <2>2. Len(copy) <= Len(outbox) /\ Len(copy) \in Nat /\ Len(outbox) \in Nat
    BY <1>1, <1>5 DEF FilesTyped, Windows, Rename
  <2>3. base' \in Nat
    BY <1>1, <1>5, <2>2 DEF Rename, FilesTyped
  <2>4. FilesTyped'
    <3>1. outbox' \in Seq(Entries) /\ copy' \in Seq(Entries)
      BY <1>1, <1>5 DEF Rename, FilesTyped
    <3>2. copied' \in BOOLEAN /\ marker' \in BOOLEAN /\ cursor' \in Nat
      BY <1>1, <1>5 DEF Rename, FilesTyped
    <3> QED BY <1>3, <2>3, <3>1, <3>2 DEF FilesTyped
  <2>5. DrainersTyped'
    BY <1>1, <1>5 DEF Rename, DrainersTyped, DrainerPlaces, DGoto, counts
  <2>6. HistoryTyped'
    BY <1>1, <1>3, <1>5 DEF Rename, HistoryTyped
  <2> QED BY <1>2, <2>1, <2>4, <2>5, <2>6, TypeParts
<1>6. CASE Begin(p)
  <2>0. cursor' = cursor \/ cursor' = 0
    BY <1>6 DEF Begin
  <2>1. FilesTyped' /\ HistoryTyped'
    BY <1>1, <1>6, <2>0 DEF Begin, history, FilesTyped, HistoryTyped
  <2>2. DrainersTyped'
    <3>1. "recover" \in DrainerPlaces /\ DGoto(p, "recover")
      BY <1>6 DEF Begin, DrainerPlaces
    <3>2. dpc' \in [Procs -> DrainerPlaces]
      BY <1>1, <3>1, GotoTypes
    <3>3. /\ fails' \in [Procs -> 0..CursorStall] /\ clients' \in [Procs -> 0..ClientMax]
          /\ busy' \in [Procs -> 0..BusyStall] /\ stalled' \in [Procs -> BOOLEAN]
      <4>1. CASE stalled[p]
        <5>1. 0 \in 0..CursorStall /\ 0 \in 0..ClientMax /\ 0 \in 0..BusyStall
          OBVIOUS
        <5>2. /\ fails' = [fails EXCEPT ![p] = 0] /\ clients' = [clients EXCEPT ![p] = 0]
              /\ busy' = [busy EXCEPT ![p] = 0]
              /\ stalled' = [stalled EXCEPT ![p] = FALSE]
          BY <1>6, <4>1 DEF Begin
        <5> QED BY <1>1, <5>1, <5>2 DEF DrainersTyped
      <4>2. CASE ~stalled[p]
        BY <1>1, <1>6, <4>2 DEF Begin, DrainersTyped
      <4> QED BY <4>1, <4>2
    <3> QED BY <1>1, <1>6, <3>2, <3>3 DEF Begin, DrainersTyped
  <2> QED BY <1>2, <1>4, <1>6, <2>1, <2>2, TypeParts DEF Begin, Rename
<1>7. CASE Recover(p) \/ Unmark(p) \/ Check(p) \/ Mark(p) \/ Reset(p)
  <2>0. /\ copied' = copied /\ copy' = copy /\ outbox' = outbox /\ base' = base
        /\ settled' = settled
        /\ cursor' = cursor \/ cursor' = 0
        /\ marker' = marker \/ marker' \in BOOLEAN
    BY <1>7 DEF Recover, Unmark, Check, Mark, Reset, files, history
  <2>1. FilesTyped' /\ HistoryTyped'
    BY <1>1, <1>3, <2>0 DEF FilesTyped, HistoryTyped
  <2>2. DrainersTyped'
    BY <1>1, <1>7 DEF Recover, Unmark, Check, Mark, Reset, DrainersTyped,
      DrainerPlaces, DGoto, counts
  <2>3. WritersTyped'
    BY <1>1, <1>7 DEF Recover, Unmark, Check, Mark, Reset, WritersTyped, writers
  <2> QED BY <1>2, <2>1, <2>2, <2>3, TypeParts
<1>8. CASE Repack(p)
  <2>1. SubSeq(outbox, cursor + 1, Len(outbox)) \in Seq(Entries)
    BY <1>1 DEF FilesTyped
  <2>2. FilesTyped' /\ HistoryTyped'
    BY <1>1, <1>8, <2>1 DEF Repack, history, FilesTyped, HistoryTyped
  <2>3. DrainersTyped'
    BY <1>1, <1>8 DEF Repack, DrainersTyped, DrainerPlaces, DGoto, counts
  <2>4. WritersTyped'
    BY <1>1, <1>8 DEF Repack, WritersTyped, writers
  <2> QED BY <1>2, <2>2, <2>3, <2>4, TypeParts
<1>9. CASE CompactionFails(p) \/ LookFails(p) \/ Unanswered(p)
  <2>1. FilesTyped' /\ HistoryTyped' /\ WritersTyped'
    BY <1>1, <1>9 DEF CompactionFails, LookFails, Unanswered, files, history,
      writers, FilesTyped, HistoryTyped, WritersTyped
  <2>2. DrainersTyped'
    BY <1>1, <1>9, EndCycleTypes
    DEF CompactionFails, LookFails, Unanswered, DrainersTyped, counts
  <2> QED BY <1>2, <2>1, <2>2, TypeParts
<1>10. CASE RepackFails(p) \/ Body(p)
  <2>1. FilesTyped' /\ HistoryTyped' /\ WritersTyped'
    BY <1>1, <1>10 DEF RepackFails, Body, files, history, writers, FilesTyped,
      HistoryTyped, WritersTyped
  <2>2. DrainersTyped'
    BY <1>1, <1>10 DEF RepackFails, Body, DrainersTyped, DrainerPlaces, DGoto, counts
  <2> QED BY <1>2, <2>1, <2>2, TypeParts
<1>11. CASE Look(p)
  <2>1. FilesTyped' /\ HistoryTyped' /\ WritersTyped'
    BY <1>1, <1>11 DEF Look, files, history, writers, FilesTyped, HistoryTyped,
      WritersTyped
  <2>2. DrainersTyped'
    <3>1. PICK c \in {0, cursor} :
            IF c < Len(outbox) /\ outbox[c + 1].ended
            THEN /\ DGoto(p, "transform")
                 /\ line' = [line EXCEPT ![p] = outbox[c + 1]]
                 /\ next' = [next EXCEPT ![p] = c + 1]
            ELSE EndCycle(p)
      BY <1>11 DEF Look
    <3>2. c \in Nat /\ (c < Len(outbox) => outbox[c + 1] \in Entries)
      BY <1>1 DEF FilesTyped
    <3>3. CASE c < Len(outbox) /\ outbox[c + 1].ended
      <4>1. "transform" \in DrainerPlaces /\ DGoto(p, "transform")
        BY <3>1, <3>3 DEF DrainerPlaces
      <4>2. dpc' \in [Procs -> DrainerPlaces]
        BY <1>1, <4>1, GotoTypes
      <4>3. c + 1 \in Nat /\ outbox[c + 1] \in Entries
        BY <3>2, <3>3
      <4>4. line' = [line EXCEPT ![p] = outbox[c + 1]] /\ next' = [next EXCEPT ![p] = c + 1]
        BY <3>1, <3>3
      <4>5. line' \in [Procs -> Entries] /\ next' \in [Procs -> Nat]
        BY <1>1, <4>3, <4>4 DEF DrainersTyped
      <4> QED BY <1>1, <1>11, <4>2, <4>5 DEF Look, DrainersTyped, counts
    <3>4. CASE ~(c < Len(outbox) /\ outbox[c + 1].ended)
      <4>1. EndCycle(p)
        BY <3>1, <3>4
      <4> QED BY <1>1, <1>11, <4>1, EndCycleTypes DEF Look, DrainersTyped, counts
    <3> QED BY <3>3, <3>4
  <2> QED BY <1>2, <2>1, <2>2, TypeParts
<1>12. ASSUME Settle(p)
       PROVE  /\ settled' \subseteq Records
              /\ dpc' \in [Procs -> DrainerPlaces] /\ line' \in [Procs -> Entries]
              /\ next' \in [Procs -> Nat]
  <2>1. line[p] \in Entries
    BY <1>1 DEF DrainersTyped
  <2>2. line[p].recs \subseteq Records
    BY <2>1 DEF Entries
  <2> QED BY <1>1, <1>12, <2>2 DEF Settle, DGoto, HistoryTyped, DrainersTyped,
        DrainerPlaces
<1>13. CASE QuarantineInvalid(p) \/ Answered(p) \/ TransformFails(p)
  <2>1. FilesTyped' /\ HistoryTyped' /\ WritersTyped'
    BY <1>1, <1>3, <1>12, <1>13 DEF QuarantineInvalid, Answered, TransformFails, files,
      writers, FilesTyped, HistoryTyped, WritersTyped
  <2>2. DrainersTyped'
    BY <1>1, <1>12, <1>13 DEF QuarantineInvalid, Answered, TransformFails,
      DrainersTyped, counts
  <2> QED BY <1>2, <2>1, <2>2, TypeParts
<1>14. CASE Busy(p)
  <2>1. FilesTyped' /\ HistoryTyped' /\ WritersTyped'
    BY <1>1, <1>14 DEF Busy, files, history, writers, FilesTyped, HistoryTyped,
      WritersTyped
  <2>2. UpTo(busy[p], BusyStall) \in 0..BusyStall
    BY <1>1, CountedUpTo DEF DrainersTyped
  <2>3. DrainersTyped'
    BY <1>1, <1>14, <2>2, EndCycleTypes DEF Busy, DrainersTyped
  <2> QED BY <1>2, <2>1, <2>3, TypeParts
<1>15. CASE ClientError(p)
  <2>1. FilesTyped' /\ HistoryTyped' /\ WritersTyped'
    BY <1>1, <1>3, <1>12, <1>15 DEF ClientError, files, writers, FilesTyped,
      HistoryTyped, WritersTyped
  <2>2. UpTo(clients[p], ClientMax) \in 0..ClientMax
    BY <1>1, CountedUpTo DEF DrainersTyped
  <2>3. DrainersTyped'
    BY <1>1, <1>12, <1>15, <2>2, EndCycleTypes DEF ClientError, DrainersTyped
  <2> QED BY <1>2, <2>1, <2>3, TypeParts
<1>16. CASE AdvanceCursor(p)
  <2>0. next[p] \in Nat
    BY <1>1 DEF DrainersTyped
  <2>1. FilesTyped' /\ HistoryTyped' /\ WritersTyped'
    BY <1>1, <1>16, <2>0 DEF AdvanceCursor, history, writers, FilesTyped,
      HistoryTyped, WritersTyped
  <2>2. DrainersTyped'
    BY <1>1, <1>16, EndCycleTypes DEF AdvanceCursor, DrainersTyped
  <2> QED BY <1>2, <2>1, <2>2, TypeParts
<1>17. CASE AdvanceFails(p)
  <2>1. FilesTyped' /\ HistoryTyped' /\ WritersTyped'
    BY <1>1, <1>17 DEF AdvanceFails, files, history, writers, FilesTyped,
      HistoryTyped, WritersTyped
  <2>2. UpTo(fails[p], CursorStall) \in 0..CursorStall
    BY <1>1, CountedUpTo DEF DrainersTyped
  <2>3. DrainersTyped'
    BY <1>1, <1>17, <2>2, EndCycleTypes DEF AdvanceFails, DrainersTyped
  <2> QED BY <1>2, <2>1, <2>3, TypeParts
<1> QED
  BY <1>5, <1>6, <1>7, <1>8, <1>9, <1>10, <1>11, <1>13, <1>14, <1>15, <1>16, <1>17
  DEF DrainerStep, CompactionStep, DeliveryStep

\* The end and the start of a process keep the types.
LEMMA EndingTypes ==
  ASSUME TypeOK, Numbers, NEW p \in Procs, Ending(p)
  PROVE  TypeOK'
<1> USE ConstantsTyped
<1>1. FilesTyped /\ WritersTyped /\ DrainersTyped /\ BoundsTyped /\ HistoryTyped
  BY TypeParts
<1>2. BoundsTyped'
  BY <1>1, EndingFrame, FaultTypes DEF BoundsTyped
<1>3. /\ copy' \in Seq(Entries) /\ cursor' \in Nat /\ base' \in Nat /\ dropped' \in Nat
      /\ copied' \in BOOLEAN /\ marker' \in BOOLEAN /\ settled' \subseteq Records
      /\ accepted' \subseteq Records /\ counted' \in Nat
  BY <1>1, EndingFrame DEF FilesTyped, HistoryTyped
<1>4. ASSUME Die(p)
      PROVE  WritersTyped' /\ DrainersTyped'
  <2>1. "down" \in WriterPlaces /\ "off" \in DrainerPlaces
    BY DEF WriterPlaces, DrainerPlaces
  <2>2. wpc' \in [Procs -> WriterPlaces] /\ dpc' \in [Procs -> DrainerPlaces]
    BY <1>1, <1>4, <2>1, PlaceTypes, GotoTypes DEF Die
  <2>3. /\ 0 \in 0..MaxRecords /\ 0 \in 0..CursorStall /\ 0 \in 0..ClientMax
        /\ 0 \in 0..BusyStall /\ 0 \in 0..OrphanCap /\ NoLine \in Entries
    BY DEF NoLine, Entries
  <2>4. WritersTyped'
    BY <1>1, <1>4, <2>2, <2>3 DEF Die, WritersTyped
  <2>5. /\ line' \in [Procs -> Entries] /\ next' \in [Procs -> Nat]
        /\ stalled' \in [Procs -> BOOLEAN]
    BY <1>1, <1>4, <2>3 DEF Die, DrainersTyped
  <2>6. /\ fails' \in [Procs -> 0..CursorStall] /\ clients' \in [Procs -> 0..ClientMax]
        /\ busy' \in [Procs -> 0..BusyStall] /\ orphans' \in [Procs -> 0..OrphanCap]
    BY <1>1, <1>4, <2>3 DEF Die, DrainersTyped
  <2> QED BY <2>2, <2>4, <2>5, <2>6 DEF DrainersTyped
<1>5. CASE Kill(p)
  <2>1. FilesTyped' /\ HistoryTyped'
    BY <1>1, <1>5 DEF Kill, files, history, FilesTyped, HistoryTyped
  <2> QED BY <1>2, <1>4, <1>5, <2>1, TypeParts DEF Kill
<1>6. CASE KillMidWrite(p)
  <2>1. rec[p] \in Records
    BY <1>6, RecordInHand DEF KillMidWrite, GetsLock, Persisting
  <2>2. /\ outbox' \in Seq(Entries) /\ log' \in Seq(Entries)
        /\ strayed' \subseteq Records
    BY <1>6, <2>1, WriteTyped DEF KillMidWrite
  <2>3. FilesTyped' /\ HistoryTyped'
    BY <1>3, <2>2 DEF FilesTyped, HistoryTyped
  <2> QED BY <1>2, <1>4, <1>6, <2>3, TypeParts DEF KillMidWrite
<1>7. CASE Start(p)
  <2>1. Terminated(outbox) \in Seq(Entries) /\ Terminated(log) \in Seq(Entries)
    BY <1>1, TerminatedKeeps DEF FilesTyped
  <2>2. outbox' \in Seq(Entries) /\ log' \in Seq(Entries) /\ strayed' = strayed
    BY <1>1, <1>7, <2>1 DEF Start, FilesTyped
  <2>3. FilesTyped' /\ HistoryTyped'
    BY <1>1, <1>3, <2>2 DEF FilesTyped, HistoryTyped
  <2>4. WritersTyped'
    BY <1>1, <1>7, ReturnTypes DEF Start
  <2>5. "idle" \in DrainerPlaces
    BY DEF DrainerPlaces
  <2>6. DrainersTyped'
    BY <1>1, <1>7, <2>5, GotoTypes DEF Start, DrainersTyped, counts
  <2> QED BY <1>2, <2>3, <2>4, <2>6, TypeParts
<1>8. CASE OrphanEnds(p)
  <2>1. orphans' \in [Procs -> 0..OrphanCap]
    BY <1>1, <1>8 DEF OrphanEnds, DrainersTyped
  <2>2. FilesTyped' /\ HistoryTyped' /\ WritersTyped'
    BY <1>1, <1>8 DEF OrphanEnds, files, history, writers, FilesTyped, HistoryTyped,
      WritersTyped
  <2>3. DrainersTyped'
    BY <1>1, <1>8, <2>1 DEF OrphanEnds, DrainersTyped
  <2> QED BY <1>2, <2>2, <2>3, TypeParts
<1> QED BY <1>5, <1>6, <1>7, <1>8 DEF Ending

-----------------------------------------------------------------------------
(* What a step does to the lines. *)

\* t is s with records R at its end.
Grown(s, t, R) ==
  /\ Len(s) <= Len(t) /\ Len(t) <= Len(s) + 1
  /\ \A i \in 1..Len(s) : s[i].ended \/ i # Len(s) => t[i] = s[i]
  /\ \A i \in 1..Len(s) : s[i].recs \subseteq t[i].recs
  /\ \A i \in 1..Len(t), r \in Records : r \in t[i].recs =>
       \/ i \in 1..Len(s) /\ r \in s[i].recs
       \/ i = Len(t) /\ r \in R
  /\ Len(t) > Len(s) => s = <<>> \/ s[Len(s)].ended
  /\ \A r \in R : Len(t) \in 1..Len(t) /\ r \in t[Len(t)].recs

LEMMA PutGrows ==
  ASSUME NEW s \in Seq(Entries), NEW e \in Entries
  PROVE  Grown(s, Put(s, e), e.recs)
<1> DEFINE t == Put(s, e)
<1>0. t \in Seq(Entries)
  BY PutKeeps
<1>1. /\ Len(s) <= Len(t) /\ Len(t) <= Len(s) + 1
      /\ \A i \in 1..Len(s) : s[i].ended \/ i # Len(s) => t[i] = s[i]
      /\ \A i \in 1..Len(s) : s[i].recs \subseteq t[i].recs
      /\ Len(t) > 0 /\ e.recs \subseteq t[Len(t)].recs
  BY PutKeeps
<1>2. \A i \in 1..Len(t) :
        t[i].recs \subseteq (IF i \in 1..Len(s) THEN s[i].recs ELSE {})
                             \cup (IF i = Len(t) THEN e.recs ELSE {})
  BY PutKeeps
<1>3. \A i \in 1..Len(t) : i \in 1..Len(s) \/ s = <<>> \/ s[Len(s)].ended
  BY PutKeeps
<1> HIDE DEF t
<1>4. \A i \in 1..Len(t), r \in Records : r \in t[i].recs =>
        \/ i \in 1..Len(s) /\ r \in s[i].recs
        \/ i = Len(t) /\ r \in e.recs
  BY <1>2
<1>5. Len(t) > Len(s) => s = <<>> \/ s[Len(s)].ended
  BY <1>0, <1>1, <1>3
<1>6. \A r \in e.recs : Len(t) \in 1..Len(t) /\ r \in t[Len(t)].recs
  BY <1>0, <1>1
<1> QED BY <1>1, <1>4, <1>5, <1>6 DEF Grown, t

LEMMA TerminatedGrows ==
  ASSUME NEW s \in Seq(Entries)
  PROVE  Grown(s, Terminated(s), {})
BY TerminatedKeeps DEF Grown

LEMMA SameGrows ==
  ASSUME NEW s \in Seq(Entries)
  PROVE  Grown(s, s, {})
BY DEF Grown

\* The outbox is the end of the log.
Window(o, l, b) ==
  /\ Len(l) = b + Len(o)
  /\ \A i \in 1..Len(o) : o[i] = l[b + i]

\* What is written at the end of the outbox is written at the end of the log:
\* the last line of the one is that of the other.
LEMMA WindowKept ==
  ASSUME NEW o \in Seq(Entries), NEW l \in Seq(Entries), NEW b \in Nat,
         Window(o, l, b), o = <<>> => ~Torn(l), NEW e \in Entries
  PROVE  /\ Window(Put(o, e), Put(l, e), b)
         /\ Window(Terminated(o), Terminated(l), b)
<1>1. Torn(o) <=> Torn(l)
  BY DEF Torn, Window
<1>2. CASE Torn(o)
  <2>1. Len(o) \in 1..Len(o) /\ Len(l) = b + Len(o) /\ o[Len(o)] = l[Len(l)]
    BY <1>2 DEF Window, Torn
  <2>2. /\ Put(o, e) = [o EXCEPT ![Len(o)] = Glued(o[Len(o)], e)]
        /\ Put(l, e) = [l EXCEPT ![Len(l)] = Glued(o[Len(o)], e)]
    BY <1>1, <1>2, <2>1 DEF Put
  <2> DEFINE last == [o[Len(o)] EXCEPT !.ended = TRUE]
  <2>3. /\ Terminated(o) = [o EXCEPT ![Len(o)] = last]
        /\ Terminated(l) = [l EXCEPT ![Len(l)] = last]
    BY <1>1, <1>2, <2>1 DEF Terminated
  <2> HIDE DEF last
  <2>4. ASSUME NEW x
        PROVE  Window([o EXCEPT ![Len(o)] = x], [l EXCEPT ![Len(l)] = x], b)
    BY <2>1 DEF Window
  <2> QED BY <2>2, <2>3, <2>4
<1>3. CASE ~Torn(o)
  <2>1. Put(o, e) = Append(o, e) /\ Put(l, e) = Append(l, e)
    BY <1>1, <1>3 DEF Put
  <2>2. Terminated(o) = o /\ Terminated(l) = l
    BY <1>1, <1>3 DEF Terminated
  <2>3. Window(Append(o, e), Append(l, e), b)
    BY DEF Window
  <2> QED BY <2>1, <2>2, <2>3
<1> QED BY <1>2, <1>3

\* What a thread writes, to a file it has opened and whose lock it gets.
LEMMA WriteGrows ==
  ASSUME TypeOK, Windows, Lines, NEW p \in Procs, rec[p] \in Records,
         ~Locked(age[p]),
         NEW e \in {Whole(rec[p]), Unended(rec[p]), Cut(rec[p])}, Write(p, e)
  PROVE  /\ \/ Grown(log, log', {rec[p]}) /\ age[p] = 0 /\ strayed' = strayed
            \/ log' = log /\ outbox' = outbox /\ age[p] # 0
               /\ strayed' = strayed \cup {rec[p]}
         /\ Window(outbox', log', base)
         /\ outbox' # outbox => ~Locked(0)
         /\ \E R : Grown(outbox, outbox', R)
         /\ Len(outbox') \in {Len(outbox), Len(outbox) + 1}
<1>1. e \in Entries /\ e.recs = {rec[p]}
  BY WrittenTyped
<1>2. outbox \in Seq(Entries) /\ log \in Seq(Entries) /\ base \in Nat /\ cursor \in Nat
  BY DEF TypeOK
<1>3. Window(outbox, log, base)
  BY DEF Windows, Window
<1>4. outbox = <<>> => ~Torn(log)
  BY <1>2, <1>3 DEF Torn, Lines, Window, Behind
<1>5. CASE age[p] = 0
  <2>1. outbox' = Put(outbox, e) /\ log' = Put(log, e) /\ strayed' = strayed
    BY <1>5 DEF Write
  <2>2. Grown(log, log', {rec[p]}) /\ Window(outbox', log', base)
    <3>1. Grown(log, Put(log, e), {rec[p]})
      BY <1>1, <1>2, PutGrows
    <3>2. Window(Put(outbox, e), Put(log, e), base)
      BY <1>1, <1>2, <1>3, <1>4, WindowKept
    <3> QED BY <2>1, <3>1, <3>2
  <2>3. Len(outbox') \in {Len(outbox), Len(outbox) + 1}
    <3>1. /\ Put(outbox, e) \in Seq(Entries)
          /\ Len(outbox) <= Len(Put(outbox, e)) /\ Len(Put(outbox, e)) <= Len(outbox) + 1
      BY <1>1, <1>2, PutKeeps
    <3>2. Len(outbox) \in Nat /\ Len(outbox') \in Nat
      BY <1>2, <2>1, <3>1
    <3> QED BY <2>1, <3>1, <3>2
  <2>4. Grown(outbox, outbox', {rec[p]})
    BY <1>1, <1>2, <2>1, PutGrows
  <2> QED BY <1>5, <2>1, <2>2, <2>3, <2>4
<1>6. CASE age[p] # 0
  <2>1. outbox' = outbox /\ log' = log /\ strayed' = strayed \cup {rec[p]}
    BY <1>6 DEF Write
  <2>2. Grown(outbox, outbox', {})
    BY <1>2, <2>1, SameGrows
  <2> QED BY <1>2, <1>3, <1>6, <2>1, <2>2
<1> QED BY <1>5, <1>6

\* The step is p's, and it leaves the log as it was or writes p's record there,
\* which p then no longer has to write.
Writes(p, R) ==
  /\ Grown(log, log', R)
  /\ R = {} \/ (R = {rec[p]} /\ Unwritten(p) /\ ~Unwritten(p)')

\* Every step leaves the outbox the end of the log, and only adds to them.
LEMMA StepWrites ==
  ASSUME TypeOK, Windows, Cycles, Lines, Numbers, NEW p \in Procs,
         WriterStep(p) \/ DrainerStep(p) \/ Ending(p)
  PROVE  \E R \in {{}, {rec[p]}} : Writes(p, R)
<1>1. log \in Seq(Entries) /\ outbox \in Seq(Entries) /\ wpc \in [Procs -> WriterPlaces]
  BY DEF TypeOK
<1>2. ASSUME log' = log
      PROVE  Writes(p, {})
  BY <1>1, <1>2, SameGrows DEF Writes
<1>3. CASE (AppendLine(p) \/ AppendFails(p) \/ KillMidWrite(p)) /\ log' # log
  <2>1. ~Locked(age[p]) /\ Unwritten(p) /\ Persisting(p)
    BY <1>3 DEF AppendLine, AppendFails, KillMidWrite, GetsLock, Unwritten, Persisting
  <2>2. rec[p] \in Records
    BY <2>1, RecordInHand
  <2>3. ~Unwritten(p)'
    BY <1>1, <1>3 DEF AppendLine, AppendFails, KillMidWrite, Die, Return, WGoto, Unwritten
  <2>4. PICK e \in {Whole(rec[p]), Unended(rec[p]), Cut(rec[p])} : Write(p, e)
    BY <1>3 DEF AppendLine, AppendFails, KillMidWrite
  <2>5. Grown(log, log', {rec[p]}) \/ log' = log
    BY <2>1, <2>2, <2>4, WriteGrows
  <2> QED BY <1>2, <2>1, <2>3, <2>5 DEF Writes
<1>4. CASE Start(p)
  <2>1. log' = Terminated(log) \/ log' = log
    BY <1>4 DEF Start
  <2> QED BY <1>1, <1>2, <2>1, TerminatedGrows DEF Writes
<1>5. CASE Persist(p) \/ Measure(p) \/ Wait(p) \/ CountRead(p) \/ CountWrite(p)
           \/ CountFails(p)
  BY <1>2, <1>5 DEF Persist, Measure, Wait, CountRead, CountWrite, CountFails, history
<1>6. CASE DrainerStep(p)
  BY <1>2, <1>6, DrainerFrame
<1>7. CASE Kill(p) \/ OrphanEnds(p)
  BY <1>2, <1>7 DEF Kill, OrphanEnds, history
<1> QED BY <1>2, <1>3, <1>4, <1>5, <1>6, <1>7 DEF WriterStep, Ending

\* How a drainer's step moves the place that lines have been left behind, and
\* what it settles: nothing, a line up to the oldest that is left, or the place,
\* by one line or back.
Drains ==
  \/ Behind' = Behind /\ settled' = settled
  \/ /\ Behind' = Behind
     /\ \E k \in 1..Len(log) : /\ k <= Behind + 1 /\ log[k].ended
                               /\ settled' = settled \cup log[k].recs
  \/ /\ Behind' = Behind + 1 /\ Behind < Len(log) /\ log[Behind + 1].ended
     /\ log[Behind + 1].recs \subseteq settled
     /\ settled' = settled
  \/ Behind' \in 0..Behind /\ settled' = settled

LEMMA DrainerDrains ==
  ASSUME TypeOK, Windows, Cycles, NEW p \in Procs, DrainerStep(p)
  PROVE  Drains
<1>1. /\ cursor \in Nat /\ base \in Nat /\ outbox \in Seq(Entries)
      /\ log \in Seq(Entries) /\ copy \in Seq(Entries) /\ copied \in BOOLEAN
      /\ marker \in BOOLEAN
  BY DEF TypeOK
<1>2. ASSUME cursor' = cursor, base' = base, copied' = copied, marker' = marker
      PROVE  Behind' = Behind
  BY <1>2 DEF Behind
<1>3. ASSUME dpc[p] \in {"transform", "post", "advance"}
      PROVE  /\ Behind = base + cursor /\ ~marker
             /\ next[p] \in 1..cursor + 1 /\ base + next[p] \in 1..Len(log)
             /\ line[p] = log[base + next[p]] /\ line[p].ended
             /\ dpc[p] = "advance" => line[p].recs \subseteq settled
  <2>1. /\ ~marker /\ next[p] \in 1..cursor + 1 /\ next[p] <= Len(outbox)
        /\ line[p] = outbox[next[p]] /\ line[p].ended
        /\ dpc[p] = "advance" => line[p].recs \subseteq settled
    BY <1>3 DEF Cycles
  <2>2. Len(log) = base + Len(outbox) /\ outbox[next[p]] = log[base + next[p]]
    <3>1. next[p] \in 1..Len(outbox)
      BY <1>1, <2>1
    <3>2. /\ Len(log) = base + Len(outbox)
          /\ \A i \in 1..Len(outbox) : outbox[i] = log[base + i]
      BY DEF Windows
    <3> QED BY <3>1, <3>2
  <2>3. Behind = base + cursor
    BY <2>1 DEF Behind
  <2> QED BY <1>1, <2>1, <2>2, <2>3
<1>4. CASE QuarantineInvalid(p) \/ Answered(p) \/ TransformFails(p) \/ ClientError(p)
  <2>1. dpc[p] \in {"transform", "post", "advance"}
    BY <1>4 DEF QuarantineInvalid, Answered, TransformFails, ClientError
  <2>2. settled' = settled \/ settled' = settled \cup line[p].recs
    BY <1>4 DEF QuarantineInvalid, Answered, TransformFails, ClientError, Settle
  <2>3. Behind' = Behind
    BY <1>2, <1>4 DEF QuarantineInvalid, Answered, TransformFails, ClientError, files
  <2>4. CASE settled' = settled \cup line[p].recs
    <3> DEFINE k == base + next[p]
    <3>1. k \in 1..Len(log) /\ k <= Behind + 1 /\ log[k] = line[p] /\ line[p].ended
      BY <1>1, <1>3, <2>1
    <3> QED BY <2>3, <2>4, <3>1 DEF Drains
  <2> QED BY <2>2, <2>3, <2>4 DEF Drains
<1>5. CASE AdvanceCursor(p)
  <2>1. /\ Behind = base + cursor /\ ~marker
        /\ next[p] \in 1..cursor + 1 /\ base + next[p] \in 1..Len(log)
        /\ log[base + next[p]].ended
        /\ log[base + next[p]].recs \subseteq settled
    BY <1>3, <1>5 DEF AdvanceCursor
  <2>2. cursor' = next[p] /\ base' = base /\ marker' = marker /\ settled' = settled
    BY <1>5 DEF AdvanceCursor, history
  <2>3. Behind' = base + next[p]
    BY <2>1, <2>2 DEF Behind
  <2>4. CASE next[p] = cursor + 1
    <3>1. Behind + 1 = base + next[p] /\ Behind < Len(log)
      BY <1>1, <2>1, <2>4
    <3> QED BY <2>1, <2>2, <2>3, <3>1 DEF Drains
  <2>5. CASE next[p] # cursor + 1
    BY <1>1, <2>1, <2>2, <2>3, <2>5 DEF Drains
  <2> QED BY <2>4, <2>5
<1>6. CASE Rename(p)
  <2>1. /\ marker /\ copied /\ Len(copy) = Len(outbox) - cursor
        /\ cursor <= Len(outbox)
    BY <1>6 DEF Rename, Cycles, Windows, ResetPending
  <2>2. /\ marker' /\ ~copied' /\ base' = base + Len(outbox) - Len(copy)
        /\ settled' = settled
    BY <1>6, <2>1 DEF Rename
  <2>3. Behind = base + cursor /\ Behind' = base'
    BY <1>1, <2>1, <2>2 DEF Behind
  <2> QED BY <1>1, <2>1, <2>2, <2>3 DEF Drains
<1>7. CASE Recover(p) \/ Reset(p)
  <2>1. /\ cursor' = cursor \/ (ResetPending /\ cursor' = 0)
        /\ base' = base /\ marker' = marker /\ copied' = copied /\ settled' = settled
    BY <1>7 DEF Recover, Reset, history, Cycles, ResetPending
  <2> QED BY <1>1, <2>1 DEF Behind, ResetPending, Drains
<1>8. CASE Unmark(p)
  <2>1. /\ copied \/ cursor = 0
        /\ cursor' = cursor /\ base' = base /\ marker' = FALSE /\ settled' = settled
    BY <1>8 DEF Unmark, history, Cycles
  <2> QED BY <1>1, <2>1 DEF Behind, Drains
<1>9. CASE Repack(p) \/ Mark(p)
  <2>1. /\ cursor' = cursor /\ base' = base /\ settled' = settled
        /\ (marker' = marker /\ ~marker) \/ (copied' = copied /\ copied)
    BY <1>9 DEF Repack, Mark, history, Cycles
  <2> QED BY <1>1, <2>1 DEF Behind, Drains
<1>10. CASE Check(p) \/ CompactionFails(p) \/ RepackFails(p) \/ Look(p)
            \/ Body(p) \/ Busy(p) \/ LookFails(p) \/ Unanswered(p) \/ AdvanceFails(p)
  <2>1. /\ cursor' = cursor /\ base' = base /\ marker' = marker /\ copied' = copied
        /\ settled' = settled
    BY <1>10 DEF Check, CompactionFails, RepackFails, Look, Body, Busy, LookFails, Unanswered,
       AdvanceFails, files, history
  <2> QED BY <1>2, <2>1 DEF Drains
<1>11. CASE Begin(p)
  <2>1. /\ cursor' = cursor \/ cursor' = 0
        /\ base' = base /\ marker' = marker /\ copied' = copied /\ settled' = settled
    BY <1>11 DEF Begin, history
  <2> QED BY <1>1, <2>1 DEF Behind, Drains
<1> QED
  BY <1>4, <1>5, <1>6, <1>7, <1>8, <1>9, <1>10, <1>11
  DEF DrainerStep, CompactionStep, DeliveryStep

\* Persisting threads, and the end and start of a process, do not.
LEMMA OthersDrainNothing ==
  ASSUME TypeOK, NEW p \in Procs, WriterStep(p) \/ Ending(p)
  PROVE  Behind' = Behind /\ settled' = settled
BY WriterFrame, EndingFrame DEF Behind

-----------------------------------------------------------------------------
(* The lines and their records. *)

\* What is left behind is in the log.
LEMMA BehindBound ==
  ASSUME TypeOK, Windows
  PROVE  Behind \in Nat /\ base <= Behind /\ Behind <= Len(log)
<1>1. /\ cursor \in Nat /\ base \in Nat /\ Len(outbox) \in Nat
      /\ Len(log) = base + Len(outbox)
      /\ ResetPending \/ cursor <= Len(outbox)
  BY DEF TypeOK, Windows
<1> QED BY <1>1 DEF Behind, ResetPending

\* A step that settles or leaves behind writes nothing.
LEMMA StepDrains ==
  ASSUME TypeOK, Windows, Cycles, NEW p \in Procs,
         WriterStep(p) \/ DrainerStep(p) \/ Ending(p)
  PROVE  /\ Drains
         /\ log' = log \/ (Behind' = Behind /\ settled' = settled)
BY DrainerDrains, DrainerFrame, OthersDrainNothing DEF Drains

\* The order of the lines is kept.
LEMMA LinesKept ==
  ASSUME TypeOK, TypeOK', Windows, Lines, Numbers, NEW p \in Procs,
         NEW R \in {{}, {rec[p]}}, Writes(p, R),
         Drains, log' = log \/ (Behind' = Behind /\ settled' = settled)
  PROVE  Lines'
<1>0. log \in Seq(Entries) /\ log' \in Seq(Entries)
  BY DEF TypeOK
<1>1. Len(log) \in Nat /\ Len(log') \in Nat
  BY <1>0
<1>2. Behind \in Nat /\ Behind <= Len(log)
  BY BehindBound
<1>3. /\ \A i \in 1..Len(log) : i < Len(log) \/ i <= Behind => log[i].ended
      /\ \A i \in 1..Behind : log[i].recs \subseteq settled
      /\ \A i, j \in 1..Len(log) :
           j < i /\ log[i].recs \cap settled # {} => log[j].recs \subseteq settled
  BY DEF Lines
<1>4. CASE log' = log
  <2>1. CASE Behind' = Behind /\ settled' = settled
    BY <1>3, <1>4, <2>1 DEF Lines
  <2>2. ASSUME Behind' = Behind, NEW k \in 1..Len(log), k <= Behind + 1,
               settled' = settled \cup log[k].recs
        PROVE  Lines'
    <3>1. \A i, j \in 1..Len(log) : log[i].recs \cap log[j].recs # {} => i = j
      BY DEF Numbers
    <3>2. ASSUME NEW i \in 1..Len(log), NEW j \in 1..Len(log), j < i,
                 log[i].recs \cap settled' # {}
          PROVE  log[j].recs \subseteq settled'
      <4>1. CASE log[i].recs \cap settled # {}
        BY <1>3, <2>2, <3>2, <4>1
      <4>2. CASE log[i].recs \cap log[k].recs # {}
        <5>1. j \in 1..Behind
          BY <1>1, <1>2, <2>2, <3>1, <3>2, <4>2
        <5> QED BY <1>3, <2>2, <5>1
      <4> QED BY <2>2, <3>2, <4>1, <4>2
    <3> QED BY <1>3, <1>4, <2>2, <3>2 DEF Lines
  <2>3. CASE /\ Behind' = Behind + 1 /\ Behind < Len(log) /\ log[Behind + 1].ended
             /\ log[Behind + 1].recs \subseteq settled /\ settled' = settled
    BY <1>1, <1>2, <1>3, <1>4, <2>3 DEF Lines
  <2>4. CASE Behind' \in 0..Behind /\ settled' = settled
    BY <1>1, <1>2, <1>3, <1>4, <2>4 DEF Lines
  <2> QED BY <2>1, <2>2, <2>3, <2>4 DEF Drains
<1>5. CASE Behind' = Behind /\ settled' = settled
  <2>1. Grown(log, log', R)
    BY DEF Writes
  <2>2. ASSUME NEW i \in 1..Len(log), log[i].ended
        PROVE  log'[i] = log[i]
    BY <2>1, <2>2 DEF Grown
  <2>3. \A i \in 1..Len(log') : i < Len(log') \/ i <= Behind =>
          i \in 1..Len(log) /\ log[i].ended
    BY <1>1, <1>2, <1>3, <2>1 DEF Grown
  <2>4. \A i \in 1..Behind : log'[i].recs \subseteq settled
    BY <1>1, <1>2, <1>3, <2>2
  <2>5. ASSUME NEW i \in 1..Len(log'), NEW r \in log'[i].recs, r \in settled
        PROVE  i \in 1..Len(log) /\ r \in log[i].recs
    <3>1. r \in Records
      BY <2>5 DEF TypeOK
    <3>2. (i \in 1..Len(log) /\ r \in log[i].recs) \/ r \in R
      BY <2>1, <2>5, <3>1 DEF Grown
    <3>3. PICK j \in 1..Len(log) : r \in log[j].recs
      BY <2>5 DEF Numbers
    <3>4. ~(r = rec[p] /\ Unwritten(p))
      BY <3>3 DEF Numbers
    <3> QED BY <3>2, <3>4 DEF Writes
  <2>6. ASSUME NEW i \in 1..Len(log'), NEW j \in 1..Len(log'), j < i,
               log'[i].recs \cap settled # {}
        PROVE  log'[j].recs \subseteq settled
    <3>1. PICK r \in log'[i].recs : r \in settled
      BY <2>6
    <3>2. i \in 1..Len(log) /\ log[i].recs \cap settled # {}
      BY <2>5, <3>1
    <3>3. j \in 1..Len(log) /\ j < Len(log)
      BY <1>1, <2>6, <3>2
    <3>4. log'[j] = log[j]
      BY <1>3, <2>2, <3>3
    <3> QED BY <1>3, <2>6, <3>2, <3>3, <3>4
  <2> QED BY <1>5, <2>2, <2>3, <2>4, <2>6 DEF Lines
<1> QED BY <1>4, <1>5

\* What a step makes of the records that are being persisted.
LEMMA HandMoves ==
  ASSUME TypeOK, NEW p \in Procs, WriterStep(p) \/ DrainerStep(p) \/ Ending(p)
  PROVE  /\ \A q \in Procs \ {p} : wpc'[q] = wpc[q] /\ rec'[q] = rec[q]
         /\ \/ /\ rec'[p] = issued + 1 /\ issued' = issued + 1 /\ log' = log
            \/ /\ issued' = issued
               /\ Persisting(p)' => Persisting(p) /\ rec'[p] = rec[p]
               /\ Unwritten(p)' => Unwritten(p) /\ rec'[p] = rec[p]
<1>1. wpc \in [Procs -> WriterPlaces] /\ rec \in [Procs -> 0..MaxRecords]
  BY DEF TypeOK
<1> USE DEF Persisting, Unwritten, WGoto
<1>2. CASE Persist(p)
  BY <1>1, <1>2 DEF Persist, files, history
<1>3. CASE Measure(p) \/ Wait(p) \/ CountRead(p)
  BY <1>1, <1>3 DEF Measure, Wait, CountRead, GetsLock, bounds
<1>4. CASE AppendLine(p) \/ CountWrite(p) \/ CountFails(p) \/ Start(p)
  BY <1>1, <1>4 DEF AppendLine, CountWrite, CountFails, Start, Return, bounds
<1>5. CASE AppendFails(p)
  BY <1>1, <1>5 DEF AppendFails, GetsLock
<1>6. CASE Kill(p) \/ KillMidWrite(p)
  BY <1>1, <1>6 DEF Kill, KillMidWrite, Die
<1>7. CASE DrainerStep(p) \/ OrphanEnds(p)
  BY <1>7, DrainerFrame DEF OrphanEnds, writers, bounds
<1> QED BY <1>2, <1>3, <1>4, <1>5, <1>6, <1>7 DEF WriterStep, Ending

\* Every record stays in one line at most.
LEMMA NumbersKept ==
  ASSUME TypeOK, TypeOK', Windows, Numbers, NEW p \in Procs,
         WriterStep(p) \/ DrainerStep(p) \/ Ending(p),
         NEW R \in {{}, {rec[p]}}, Writes(p, R),
         Drains, log' = log \/ (Behind' = Behind /\ settled' = settled)
  PROVE  Numbers'
<1>0. log \in Seq(Entries) /\ log' \in Seq(Entries) /\ issued \in Nat
  BY DEF TypeOK
<1>1. /\ log \in Seq(Entries) /\ Len(log) \in Nat /\ log' \in Seq(Entries)
      /\ Len(log') \in Nat /\ issued \in Nat
  BY <1>0
<1>2. Behind \in Nat
  BY BehindBound
<1>3. ASSUME NEW i \in 1..Len(log'), NEW r \in log'[i].recs
      PROVE  \/ i \in 1..Len(log) /\ r \in log[i].recs
             \/ i = Len(log') /\ R = {rec[p]} /\ r = rec[p]
  <2>1. log'[i] \in Entries
    BY <1>1
  <2>2. r \in Records
    BY <2>1 DEF Entries
  <2> QED BY <2>2 DEF Writes, Grown
<1>4. R = {rec[p]} => Unwritten(p) /\ Persisting(p) /\ ~Unwritten(p)'
  BY DEF Writes, Unwritten, Persisting
<1>5. /\ \A i, j \in 1..Len(log) : log[i].recs \cap log[j].recs # {} => i = j
      /\ \A i \in 1..Len(log) : log[i].recs \subseteq 1..issued
      /\ \A r \in settled : \E i \in 1..Len(log) : r \in log[i].recs
      /\ \A q \in Procs : Persisting(q) => rec[q] \in 1..issued
      /\ \A q \in Procs : Unwritten(q) =>
           \A i \in 1..Len(log) : rec[q] \notin log[i].recs
      /\ \A q, r \in Procs : Unwritten(q) /\ Unwritten(r) /\ rec[q] = rec[r] => q = r
  BY DEF Numbers, Persisting
<1>6. /\ \A q \in Procs \ {p} : wpc'[q] = wpc[q] /\ rec'[q] = rec[q]
      /\ \/ rec'[p] = issued + 1 /\ issued' = issued + 1 /\ log' = log
         \/ /\ issued' = issued
            /\ Persisting(p)' => Persisting(p) /\ rec'[p] = rec[p]
            /\ Unwritten(p)' => Unwritten(p) /\ rec'[p] = rec[p]
  BY HandMoves
<1>7. \A q \in Procs \ {p} : /\ Persisting(q)' => Persisting(q)
                             /\ Unwritten(q)' => Unwritten(q)
  BY <1>6 DEF Persisting, Unwritten
<1>8. ASSUME NEW i \in 1..Len(log'), NEW j \in 1..Len(log'),
             NEW r \in log'[i].recs, r \in log'[j].recs
      PROVE  i = j
  BY <1>3, <1>4, <1>5, <1>8
<1>9. ASSUME NEW i \in 1..Len(log'), NEW r \in log'[i].recs
      PROVE  r \in 1..issued'
  <2>1. r \in 1..issued
    BY <1>3, <1>4, <1>5
  <2> QED BY <1>1, <1>6, <2>1
<1>10. ASSUME NEW r \in settled'
       PROVE  \E i \in 1..Len(log') : r \in log'[i].recs
  <2>1. PICK i \in 1..Len(log) : r \in log[i].recs
    <3>1. CASE r \in settled
      BY <1>5, <3>1
    <3>2. CASE r \notin settled
      BY <1>1, <1>2, <1>10, <3>2 DEF Drains
    <3> QED BY <3>1, <3>2
  <2>2. i \in 1..Len(log') /\ log[i].recs \subseteq log'[i].recs
    BY <1>1, <2>1 DEF Writes, Grown
  <2> QED BY <2>1, <2>2
<1>11. ASSUME NEW q \in Procs, Persisting(q)'
       PROVE  rec'[q] \in 1..issued'
  <2>1. CASE q # p
    BY <1>1, <1>5, <1>6, <1>7, <1>11, <2>1
  <2>2. CASE q = p
    BY <1>1, <1>5, <1>6, <1>11, <2>2
  <2> QED BY <2>1, <2>2
<1>12. ASSUME NEW q \in Procs, Unwritten(q)'
       PROVE  \/ rec'[q] = rec[q] /\ Unwritten(q) /\ (R = {rec[p]} => q # p)
              \/ q = p /\ rec'[q] = issued + 1 /\ log' = log
  BY <1>4, <1>6, <1>7, <1>12
<1>13. ASSUME NEW q \in Procs, Unwritten(q)', NEW i \in 1..Len(log'),
              rec'[q] \in log'[i].recs
       PROVE  FALSE
  <2>1. CASE rec'[q] = rec[q] /\ Unwritten(q) /\ (R = {rec[p]} => q # p)
    BY <1>3, <1>4, <1>5, <1>13, <2>1
  <2>2. CASE rec'[q] = issued + 1 /\ log' = log
    BY <1>1, <1>5, <1>13, <2>2
  <2> QED BY <1>12, <1>13, <2>1, <2>2
<1>14. ASSUME NEW q \in Procs, NEW r \in Procs, Unwritten(q)', Unwritten(r)',
              rec'[q] = rec'[r]
       PROVE  q = r
  <2>1. \A x \in Procs : Unwritten(x) => rec[x] \in 1..issued
    BY <1>5 DEF Unwritten, Persisting
  <2> QED BY <1>1, <1>5, <1>12, <1>14, <2>1
<1> QED
  BY <1>8, <1>9, <1>10, <1>11, <1>13, <1>14 DEF Numbers, Persisting

\* What was accepted stays in a line.
LEMMA KeptKept ==
  ASSUME TypeOK, Windows, Lines, Numbers, Kept, NEW p \in Procs,
         WriterStep(p) \/ DrainerStep(p) \/ Ending(p),
         NEW R \in {{}, {rec[p]}}, Writes(p, R), strayed \subseteq strayed'
  PROVE  Kept'
<1>1. /\ Len(log) <= Len(log')
      /\ \A i \in 1..Len(log) : log[i].recs \subseteq log'[i].recs
  BY DEF Writes, Grown
<1>2. log \in Seq(Entries)
  BY DEF TypeOK
<1>3. Len(log) \in Nat
  BY <1>2
<1>4. ASSUME NEW r \in accepted, r \notin strayed'
      PROVE  \E i \in 1..Len(log') : r \in log'[i].recs
  <2>1. PICK i \in 1..Len(log) : r \in log[i].recs
    BY <1>4 DEF Kept
  <2>2. r \in log'[i].recs
    BY <1>1, <2>1
  <2>3. i \in 1..Len(log')
    BY <1>1, <1>3, <2>1, SMT DEF Writes, Grown
  <2> QED BY <2>2, <2>3
<1>5. CASE AppendLine(p)
  <2>1. rec[p] \in Records
    BY <1>5, RecordInHand DEF AppendLine, GetsLock, Persisting
  <2>2. /\ Write(p, Whole(rec[p])) /\ ~Locked(age[p])
        /\ accepted' = accepted \cup {rec[p]}
    BY <1>5 DEF AppendLine, GetsLock
  <2>3. Grown(log, log', {rec[p]}) \/ strayed' = strayed \cup {rec[p]}
    BY <2>1, <2>2, WriteGrows
  <2>4. rec[p] \in strayed' \/ \E i \in 1..Len(log') : rec[p] \in log'[i].recs
    BY <2>3 DEF Grown
  <2> QED BY <1>4, <2>2, <2>4 DEF Kept
<1>6. ASSUME accepted' = accepted
      PROVE  Kept'
  BY <1>4, <1>6 DEF Kept
<1>7. CASE WriterStep(p) /\ ~AppendLine(p)
  <2>1. accepted' = accepted
    BY <1>7 DEF WriterStep, Persist, Measure, Wait, AppendFails, CountRead, CountWrite,
       CountFails, history
  <2> QED BY <1>6, <2>1
<1> QED BY <1>5, <1>6, <1>7, DrainerFrame, EndingFrame

\* What has strayed has strayed.
LEMMA StrayedGrows ==
  ASSUME NEW p \in Procs, WriterStep(p) \/ DrainerStep(p) \/ Ending(p)
  PROVE  strayed \subseteq strayed'
<1>1. CASE AppendLine(p) \/ AppendFails(p) \/ KillMidWrite(p) \/ CountWrite(p)
  BY <1>1 DEF AppendLine, AppendFails, KillMidWrite, CountWrite, Write
<1>2. CASE Persist(p) \/ Measure(p) \/ Wait(p) \/ CountRead(p) \/ CountFails(p)
  BY <1>2 DEF Persist, Measure, Wait, CountRead, CountFails, history
<1>3. CASE Kill(p) \/ Start(p) \/ OrphanEnds(p)
  BY <1>3 DEF Kill, Start, OrphanEnds, history
<1> QED BY <1>1, <1>2, <1>3, DrainerFrame DEF WriterStep, Ending

-----------------------------------------------------------------------------
(* The locks and the counter. *)

Counting(p) == wpc[p] = "counting"

\* Who comes to hold the counter found the file's lock free, and who does when
\* the outbox is renamed away holds another file from then on.
LEMMA CountingMoves ==
  ASSUME TypeOK, NEW p \in Procs, WriterStep(p) \/ DrainerStep(p) \/ Ending(p)
  PROVE  /\ \A q \in Procs \ {p} : wpc'[q] = wpc[q]
         /\ Counting(p)' => Counting(p) \/ ~Locked(age[p])
         /\ \/ Rename(p) /\ (\A q \in Procs : wpc'[q] = wpc[q]
                              /\ (Counting(q) => age'[q] = age[q] + 1))
            \/ \A q \in Procs : q # p \/ Counting(q)' => age'[q] = age[q]
<1>1. wpc \in [Procs -> WriterPlaces] /\ age \in [Procs -> Nat]
  BY DEF TypeOK
<1> USE DEF Counting, WGoto
<1>2. CASE Persist(p) \/ Measure(p) \/ Wait(p)
  BY <1>1, <1>2 DEF Persist, Measure, Wait
<1>3. CASE CountRead(p)
  BY <1>1, <1>3 DEF CountRead, GetsLock
<1>4. CASE AppendLine(p) \/ CountWrite(p) \/ CountFails(p) \/ Start(p)
  BY <1>1, <1>4 DEF AppendLine, CountWrite, CountFails, Start, Return
<1>5. CASE AppendFails(p)
  BY <1>1, <1>5 DEF AppendFails
<1>6. CASE Kill(p) \/ KillMidWrite(p)
  BY <1>1, <1>6 DEF Kill, KillMidWrite, Die
<1>7. CASE Rename(p)
  BY <1>1, <1>7 DEF Rename, HasOpen
<1>8. CASE (DrainerStep(p) /\ ~Rename(p)) \/ OrphanEnds(p)
  BY <1>8, DrainerFrame DEF OrphanEnds, writers
<1> QED BY <1>2, <1>3, <1>4, <1>5, <1>6, <1>7, <1>8 DEF WriterStep, Ending

\* Who comes to repack found the outbox's lock free.
LEMMA RepackingMoves ==
  ASSUME TypeOK, NEW p \in Procs, WriterStep(p) \/ DrainerStep(p) \/ Ending(p)
  PROVE  /\ \A q \in Procs \ {p} : dpc'[q] = dpc[q]
         /\ Repacking(p)' =>
              /\ Repacking(p) \/ (~Locked(0) /\ wpc' = wpc /\ age' = age)
              /\ ~Rename(p)
<1>1. dpc \in [Procs -> DrainerPlaces]
  BY DEF TypeOK
<1> USE DEF Repacking, DGoto
<1>2. CASE WriterStep(p)
  BY <1>1, <1>2, WriterFrame DEF Rename
<1>3. CASE Check(p)
  BY <1>1, <1>3 DEF Check, writers, Rename
<1>4. CASE Repack(p) \/ Mark(p)
  BY <1>1, <1>4 DEF Repack, Mark, Rename
<1>5. CASE Begin(p) \/ Recover(p) \/ Unmark(p) \/ Rename(p) \/ Reset(p) \/ RepackFails(p)
  BY <1>1, <1>5 DEF Begin, Recover, Unmark, Rename, Reset, RepackFails
<1>6. CASE CompactionFails(p) \/ Busy(p) \/ LookFails(p) \/ Unanswered(p) \/ AdvanceCursor(p)
           \/ AdvanceFails(p)
  BY <1>1, <1>6 DEF CompactionFails, Busy, LookFails, Unanswered, AdvanceCursor, AdvanceFails,
     EndCycle
<1>7. CASE Look(p) \/ Body(p) \/ QuarantineInvalid(p) \/ Answered(p) \/ TransformFails(p)
           \/ ClientError(p)
  BY <1>1, <1>7 DEF Look, Body, QuarantineInvalid, Answered, TransformFails, ClientError,
     EndCycle, Settle
<1>8. CASE Ending(p)
  BY <1>1, <1>8, EndingFrame DEF Rename, OrphanEnds
<1> QED BY <1>2, <1>3, <1>4, <1>5, <1>6, <1>7, <1>8
      DEF DrainerStep, CompactionStep, DeliveryStep

\* A file's lock has one holder.
LEMMA LocksKept ==
  ASSUME TypeOK, Cycles, Locks, NEW p \in Procs,
         WriterStep(p) \/ DrainerStep(p) \/ Ending(p)
  PROVE  Locks'
<1>1. age \in [Procs -> Nat]
  BY DEF TypeOK
<1>2. /\ \A q, r \in Procs : Counting(q) /\ Counting(r) /\ age[q] = age[r] => q = r
      /\ \A q, r \in Procs : ~(Repacking(q) /\ Counting(r) /\ age[r] = 0)
  BY DEF Locks, Counting
<1>3. \A q \in Procs \ {p} : (Counting(q)' <=> Counting(q))
                             /\ (Repacking(q)' <=> Repacking(q))
  BY CountingMoves, RepackingMoves DEF Counting, Repacking
<1>4. ~Locked(age[p]) => \A q \in Procs : Counting(q) => age[q] # age[p]
  BY DEF Locked, Counting
<1>5. ~Locked(0) => \A q \in Procs : Counting(q) => age[q] # 0
  BY DEF Locked, Counting
<1>6. CASE Rename(p)
  <2>1. \A q \in Procs : (Counting(q)' <=> Counting(q))
                         /\ (Counting(q) => age'[q] = age[q] + 1)
    BY <1>6, DrainerFrame, CountingMoves DEF Counting, Rename, HasOpen, DrainerStep,
       CompactionStep
  <2>2. \A q, r \in Procs : Counting(q)' /\ Counting(r)' /\ age'[q] = age'[r] => q = r
    BY <1>1, <1>2, <2>1
  <2>3. \A r \in Procs : Counting(r)' => age'[r] # 0
    BY <1>1, <2>1
  <2> QED BY <2>2, <2>3 DEF Locks, Counting
<1>7. CASE ~Rename(p)
  <2>1. \A q \in Procs : q # p \/ Counting(q)' => age'[q] = age[q]
    BY <1>7, CountingMoves
  <2>2. Counting(p)' => Counting(p) \/ ~Locked(age[p])
    BY CountingMoves
  <2>3. \A q, r \in Procs : Counting(q)' /\ Counting(r)' /\ age'[q] = age'[r] => q = r
    BY <1>2, <1>3, <1>4, <2>1, <2>2
  <2>4. ASSUME NEW q \in Procs, NEW r \in Procs, Repacking(q)', Counting(r)', age'[r] = 0
        PROVE  FALSE
    <3>1. age[r] = 0
      BY <2>1, <2>4
    <3>2. CASE Repacking(q)
      <4>1. Locked(0)
        BY <3>2 DEF Locked
      <4> QED BY <1>2, <1>3, <2>2, <2>4, <3>1, <3>2, <4>1
    <3>3. CASE ~Repacking(q)
      <4>1. q = p /\ ~Locked(0) /\ wpc' = wpc
        BY <1>3, <2>4, <3>3, RepackingMoves
      <4>2. Counting(r)
        BY <2>4, <4>1 DEF Counting
      <4> QED BY <1>5, <3>1, <4>1, <4>2
    <3> QED BY <3>2, <3>3
  <2> QED BY <2>3, <2>4 DEF Locks, Counting
<1> QED BY <1>6, <1>7

\* The counter of drops counts every drop.
LEMMA CountsKept ==
  ASSUME TypeOK, Locks, Counts, NEW p \in Procs,
         WriterStep(p) \/ DrainerStep(p) \/ Ending(p)
  PROVE  Counts'
<1> SUFFICES ASSUME strayed' = {}
             PROVE  /\ dropped' = counted'
                    /\ \A q \in Procs : Counting(q)' /\ age'[q] = 0 => seen'[q] = dropped'
  BY DEF Counts, Counting
<1>1. strayed = {}
  BY StrayedGrows
<1>2. /\ dropped = counted
      /\ \A q \in Procs : Counting(q) /\ age[q] = 0 => seen[q] = dropped
  BY <1>1 DEF Counts, Counting
<1>3. age \in [Procs -> Nat] /\ dropped \in Nat
      /\ wpc \in [Procs -> WriterPlaces] /\ seen \in [Procs -> Nat]
  BY DEF TypeOK
<1>4. CASE CountRead(p)
  BY <1>2, <1>3, <1>4 DEF CountRead, Counting, files, history, WGoto
<1>5. CASE CountWrite(p)
  <2>1. age[p] = 0 /\ Counting(p)
    BY <1>5 DEF CountWrite, Counting
  <2>2. dropped' = counted'
    BY <1>2, <1>5, <2>1 DEF CountWrite
  <2>3. \A q \in Procs : ~(Counting(q)' /\ age'[q] = 0)
    BY <1>3, <1>5, <2>1 DEF CountWrite, Counting, Locks, Return, WGoto
  <2> QED BY <2>2, <2>3
<1>6. CASE Rename(p)
  <2>1. \A q \in Procs : Counting(q)' => age'[q] # 0
    <3>1. wpc' = wpc /\ \A q \in Procs : HasOpen(q) => age'[q] = age[q] + 1
      BY <1>6 DEF Rename
    <3>2. \A q \in Procs : Counting(q)' => HasOpen(q)
      BY <3>1 DEF Counting, HasOpen
    <3> QED BY <1>3, <3>1, <3>2
  <2>2. dropped' = dropped /\ counted' = counted
    BY <1>6 DEF Rename
  <2> QED BY <1>2, <2>1, <2>2
<1>7. CASE /\ ~CountRead(p) /\ ~CountWrite(p) /\ ~Rename(p)
  <2>1. dropped' = dropped /\ counted' = counted
    <3>1. CASE WriterStep(p)
      BY <1>7, <3>1 DEF WriterStep, Persist, Measure, Wait, AppendLine, AppendFails,
         CountFails, files, history
    <3> QED BY <3>1, DrainerFrame, EndingFrame
  <2>2. ASSUME NEW q \in Procs, Counting(q)'
        PROVE  Counting(q) /\ age'[q] = age[q] /\ seen'[q] = seen[q]
    <3>1. CASE DrainerStep(p)
      BY <1>7, <2>2, <3>1, DrainerFrame DEF Counting
    <3>2. CASE Ending(p)
      BY <1>3, <2>2, <3>2, EndingFrame DEF Counting
    <3>3. CASE Persist(p) \/ Measure(p) \/ Wait(p)
      BY <1>3, <2>2, <3>3 DEF Persist, Measure, Wait, Counting, WGoto
    <3>4. CASE AppendLine(p) \/ CountFails(p)
      BY <1>3, <2>2, <3>4 DEF AppendLine, CountFails, Return, Counting, WGoto
    <3>5. CASE AppendFails(p)
      BY <1>3, <2>2, <3>5 DEF AppendFails, Counting, WGoto
    <3> QED BY <1>7, <3>1, <3>2, <3>3, <3>4, <3>5 DEF WriterStep
  <2> QED BY <1>2, <2>1, <2>2
<1> QED BY <1>4, <1>5, <1>6, <1>7

-----------------------------------------------------------------------------
(* The cycle of a drainer. *)

Active(p) == dpc[p] \notin {"idle", "off"}

\* What is true of the files while drainer p is where it is.
AtPlace(p) ==
  /\ dpc[p] \in {"rename", "unmark"} => marker
  /\ dpc[p] \in {"mark", "rename"} => copied
  /\ dpc[p] = "reset" => ResetPending
  /\ dpc[p] = "unmark" => copied \/ cursor = 0
  /\ dpc[p] \in {"check", "repack", "mark", "look", "transform", "post",
                "advance"} => ~marker
  /\ dpc[p] \in {"look", "transform", "post", "advance"} => cursor < CompactAt + faults
  /\ dpc[p] \in {"transform", "post", "advance"} =>
       /\ next[p] \in 1..cursor + 1 /\ next[p] <= Len(outbox)
       /\ line[p] = outbox[next[p]] /\ line[p].ended
  /\ dpc[p] = "advance" => line[p].recs \subseteq settled

CopyAt(p) == dpc[p] \in {"mark", "rename"} =>
  /\ Len(copy) = Len(outbox) - cursor
  /\ \A i \in 1..Len(copy) : copy[i] = outbox[cursor + i]

\* The two parts of the invariant that a drainer's steps disturb, taken apart.
LEMMA CyclesAt ==
  /\ Cycles <=> /\ \A p, q \in Procs : Active(p) /\ Active(q) => p = q
                /\ \A p \in Procs : AtPlace(p)
  /\ Windows <=> /\ Window(outbox, log, base)
                 /\ ResetPending \/ cursor <= Len(outbox)
                 /\ cursor <= CompactAt + faults
                 /\ \A p \in Procs : CopyAt(p)
BY DEF Cycles, Windows, Window, Active, AtPlace, CopyAt

\* The same of the state after a step.
LEMMA CyclesAtNext ==
  /\ Cycles' <=> /\ \A p, q \in Procs : Active(p)' /\ Active(q)' => p = q
                 /\ \A p \in Procs : AtPlace(p)'
  /\ Windows' <=> /\ Window(outbox', log', base')
                  /\ ResetPending' \/ cursor' <= Len(outbox')
                  /\ cursor' <= CompactAt + faults'
                  /\ \A p \in Procs : CopyAt(p)'
BY DEF Cycles, Windows, Window, Active, AtPlace, CopyAt

\* A drainer that is at rest asks nothing of the files.
LEMMA AtRest ==
  ASSUME NEW p \in Procs
  PROVE  /\ ~Active(p) => AtPlace(p) /\ CopyAt(p)
         /\ ~Active(p)' => AtPlace(p)' /\ CopyAt(p)'
BY DEF Active, AtPlace, CopyAt

\* No step takes a fault back.
LEMMA FaultsGrow ==
  ASSUME TypeOK, NEW p \in Procs, WriterStep(p) \/ DrainerStep(p) \/ Ending(p)
  PROVE  faults \in Nat /\ faults' \in Nat /\ faults <= faults'
<1>1. faults \in Nat
  BY DEF TypeOK
<1>2. CASE WriterStep(p)
  <2>1. faults' = faults \/ Fault
    BY <1>2 DEF WriterStep, Persist, Reads, Measure, Wait, AppendLine, AppendFails,
       CountRead, CountWrite, CountFails, bounds
  <2> QED BY <1>1, <2>1 DEF Fault
<1> QED BY <1>1, <1>2, DrainerFrame, EndingFrame DEF Fault

\* So a bound that counts them is kept.
LEMMA BoundGrows ==
  ASSUME NEW n \in Nat, NEW f \in Nat, NEW g \in Nat, f <= g
  PROVE  /\ n < CompactAt + f => n < CompactAt + g
         /\ n <= CompactAt + f => n <= CompactAt + g
         /\ n <= CompactAt + f + Cap => n <= CompactAt + g + Cap
BY ConstantsTyped

\* A cursor below the threshold, or where it stopped before one more fault.
LEMMA LessThanSum ==
  ASSUME NEW n \in Nat, NEW f \in Nat, n < CompactAt
  PROVE  n < CompactAt + f
BY ConstantsTyped

LEMMA OneMoreFault ==
  ASSUME NEW n \in Nat, NEW f \in Nat, NEW g \in Nat, g = f + 1, n <= CompactAt + f
  PROVE  n < CompactAt + g
BY ConstantsTyped

LEMMA ZeroWithin ==
  ASSUME NEW f \in Nat
  PROVE  0 <= CompactAt + f
BY ConstantsTyped

LEMMA NextWithin ==
  ASSUME NEW n \in Nat, NEW f \in Nat, n < CompactAt + f, NEW m \in 1..n + 1
  PROVE  m <= CompactAt + f
BY ConstantsTyped

\* Other steps than a drainer's make the outbox longer, and that only while
\* nobody repacks it.
LEMMA OutboxGrows ==
  ASSUME TypeOK, Windows, Lines, Numbers, NEW p \in Procs, WriterStep(p) \/ Ending(p)
  PROVE  /\ Window(outbox', log', base')
         /\ \E R : Grown(outbox, outbox', R)
         /\ outbox' # outbox => ~Locked(0)
<1>1. /\ outbox \in Seq(Entries) /\ log \in Seq(Entries) /\ base \in Nat
      /\ cursor \in Nat
  BY DEF TypeOK
<1>2. Window(outbox, log, base) /\ base' = base
  BY WriterFrame, EndingFrame DEF Windows, Window
<1>3. ASSUME outbox' = outbox, log' = log
      PROVE  /\ Window(outbox', log', base')
             /\ \E R : Grown(outbox, outbox', R)
             /\ outbox' # outbox => ~Locked(0)
  <2>1. Grown(outbox, outbox', {})
    BY <1>1, <1>3, SameGrows
  <2> QED BY <1>2, <1>3, <2>1
<1>4. CASE (AppendLine(p) \/ AppendFails(p) \/ KillMidWrite(p))
           /\ ~(outbox' = outbox /\ log' = log)
  <2>1. ~Locked(age[p]) /\ Persisting(p)
    BY <1>4 DEF AppendLine, AppendFails, KillMidWrite, GetsLock, Persisting
  <2>2. rec[p] \in Records
    BY <2>1, RecordInHand
  <2>3. PICK e \in {Whole(rec[p]), Unended(rec[p]), Cut(rec[p])} : Write(p, e)
    BY <1>4 DEF AppendLine, AppendFails, KillMidWrite
  <2>4. /\ Window(outbox', log', base)
        /\ outbox' # outbox => ~Locked(0)
        /\ \E R : Grown(outbox, outbox', R)
    BY <2>1, <2>2, <2>3, WriteGrows
  <2> QED BY <1>2, <2>4
<1>5. CASE Start(p)
  <2>1. CASE age[p] = 0
    <3>1. /\ outbox' = Terminated(outbox) /\ log' = Terminated(log) /\ ~Locked(0)
      BY <1>5, <2>1 DEF Start, GetsLock
    <3>2. outbox = <<>> => ~Torn(log)
      BY <1>1, <1>2 DEF Torn, Lines, Window, Behind
    <3>3. NoLine \in Entries
      BY DEF NoLine, Entries
    <3>4. Window(Terminated(outbox), Terminated(log), base)
      BY <1>1, <1>2, <3>2, <3>3, WindowKept
    <3>5. Grown(outbox, Terminated(outbox), {})
      BY <1>1, TerminatedGrows
    <3> QED BY <1>2, <3>1, <3>4, <3>5
  <2>2. CASE age[p] # 0
    BY <1>3, <1>5, <2>2 DEF Start
  <2> QED BY <2>1, <2>2
<1>6. CASE Persist(p) \/ Measure(p) \/ Wait(p) \/ CountRead(p) \/ CountWrite(p)
           \/ CountFails(p)
  BY <1>3, <1>6 DEF Persist, Measure, Wait, CountRead, CountWrite, CountFails, files, history
<1>7. CASE Kill(p) \/ OrphanEnds(p)
  BY <1>3, <1>7 DEF Kill, OrphanEnds, files, history
<1> QED BY <1>3, <1>4, <1>5, <1>6, <1>7 DEF WriterStep, Ending

\* They leave each drainer what it relies on.
LEMMA OthersLeaveCycles ==
  ASSUME TypeOK, TypeOK', Windows, Cycles, Lines, Numbers, NEW p \in Procs,
         WriterStep(p) \/ Ending(p)
  PROVE  Windows' /\ Cycles'
<1>1. /\ outbox \in Seq(Entries) /\ outbox' \in Seq(Entries) /\ cursor \in Nat
      /\ dpc \in [Procs -> DrainerPlaces]
  BY DEF TypeOK
<1>2. Len(outbox) \in Nat /\ Len(outbox') \in Nat
  BY <1>1
<1>3. /\ cursor' = cursor /\ copied' = copied /\ copy' = copy /\ marker' = marker
      /\ base' = base /\ settled' = settled
  BY WriterFrame, EndingFrame
<1>4. faults \in Nat /\ faults' \in Nat /\ faults <= faults'
  BY FaultsGrow
<1>0. \A n \in Nat : /\ n < CompactAt + faults => n < CompactAt + faults'
                     /\ n <= CompactAt + faults => n <= CompactAt + faults'
  BY <1>4, BoundGrows
<1>5. PICK R : Grown(outbox, outbox', R)
  BY OutboxGrows
<1>6. outbox' # outbox => ~Locked(0)
  BY OutboxGrows
<1>7. ASSUME NEW q \in Procs
      PROVE  \/ dpc'[q] = dpc[q] /\ line'[q] = line[q] /\ next'[q] = next[q]
             \/ ~Active(q)'
  BY WriterFrame, EndingFrame DEF Active
<1>8. ASSUME NEW q \in Procs, Active(q)'
      PROVE  Active(q) /\ AtPlace(q)' /\ CopyAt(q)'
  <2>1. dpc'[q] = dpc[q] /\ line'[q] = line[q] /\ next'[q] = next[q]
    BY <1>7, <1>8
  <2>2. Active(q) /\ AtPlace(q) /\ CopyAt(q)
    BY <1>8, <2>1, CyclesAt DEF Active
  <2>3. ASSUME NEW n \in 1..cursor + 1, n <= Len(outbox), outbox[n].ended
        PROVE  n <= Len(outbox') /\ outbox'[n] = outbox[n]
    <3>1. n \in 1..Len(outbox)
      BY <1>1, <1>2, <2>3
    <3> QED BY <1>1, <1>2, <1>5, <2>3, <3>1 DEF Grown
  <2>4. AtPlace(q)'
    <3>1. cursor < CompactAt + faults => cursor' < CompactAt + faults'
      BY <1>0, <1>1, <1>3
    <3>2. /\ cursor' = cursor /\ marker' = marker /\ copied' = copied
          /\ settled' = settled /\ (ResetPending' <=> ResetPending)
      BY <1>3 DEF ResetPending
    <3>3. dpc[q] \in {"transform", "post", "advance"} =>
            /\ next[q] \in 1..cursor + 1 /\ next[q] <= Len(outbox')
            /\ line[q] = outbox'[next[q]] /\ line[q].ended
      BY <2>2, <2>3 DEF AtPlace
    <3> HIDE <1>1, <1>2, <1>3
    <3> QED BY <2>1, <2>2, <3>1, <3>2, <3>3 DEF AtPlace
  <2>5. CopyAt(q)'
    <3>1. dpc[q] \in {"mark", "rename"} => Locked(0)
      BY DEF Locked, Repacking
    <3> QED BY <1>3, <1>6, <2>1, <2>2, <3>1 DEF CopyAt
  <2> QED BY <2>2, <2>4, <2>5
<1>9. ResetPending' \/ cursor' <= Len(outbox')
  <2>1. Len(outbox) <= Len(outbox')
    BY <1>5 DEF Grown
  <2> QED BY <1>1, <1>2, <1>3, <2>1, CyclesAt DEF ResetPending
<1>10. cursor' <= CompactAt + faults'
  <2>1. cursor <= CompactAt + faults
    BY CyclesAt
  <2> QED BY <1>0, <1>1, <1>3, <2>1
<1>11. Windows'
  BY <1>8, <1>9, <1>10, AtRest, CyclesAtNext, OutboxGrows
<1>12. Cycles'
  BY <1>8, AtRest, CyclesAt, CyclesAtNext
<1> QED BY <1>11, <1>12

\* The other drainers are at rest during a drainer's step.
LEMMA OthersRest ==
  ASSUME TypeOK, Cycles, NEW p \in Procs, DrainerStep(p)
  PROVE  \A q \in Procs \ {p} : ~Active(q) /\ ~Active(q)'
<1>1. \A q \in Procs \ {p} : dpc'[q] = dpc[q]
  BY RepackingMoves
<1>2. CASE Begin(p)
  BY <1>1, <1>2 DEF Begin, DrainLocked, Active
<1>3. CASE ~Begin(p)
  <2>1. Active(p)
    <3>1. CASE CompactionStep(p)
      BY <3>1 DEF CompactionStep, Recover, Unmark, Check, Repack, Mark, Rename, Reset,
         CompactionFails, RepackFails, Active
    <3>2. CASE DeliveryStep(p)
      BY <3>2 DEF DeliveryStep, Look, QuarantineInvalid, Body, TransformFails, Busy,
         Answered, ClientError, LookFails, Unanswered, AdvanceCursor, AdvanceFails, Active
    <3> QED BY <1>3, <3>1, <3>2 DEF DrainerStep
  <2> QED BY <1>1, <2>1, CyclesAt DEF Active
<1> QED BY <1>2, <1>3

\* What has to be shown of a drainer's step.
LEMMA CyclesSuffice ==
  ASSUME TypeOK, Cycles, NEW p \in Procs, DrainerStep(p),
         Window(outbox', log', base'), ResetPending' \/ cursor' <= Len(outbox'),
         cursor' <= CompactAt + faults', AtPlace(p)', CopyAt(p)'
  PROVE  Windows' /\ Cycles'
<1>1. \A q \in Procs \ {p} : ~Active(q)'
  BY OthersRest
<1>2. \A q \in Procs : AtPlace(q)' /\ CopyAt(q)'
  BY <1>1, AtRest
<1>3. \A q, r \in Procs : Active(q)' /\ Active(r)' => q = r
  BY <1>1
<1> QED BY <1>2, <1>3, CyclesAtNext

\* A drainer's step keeps the window, the cursor and the copy in order.
LEMMA DrainerKeepsCycles ==
  ASSUME TypeOK, TypeOK', Windows, Cycles, NEW p \in Procs, DrainerStep(p)
  PROVE  Windows' /\ Cycles'
<1>1. /\ outbox \in Seq(Entries) /\ log \in Seq(Entries) /\ copy \in Seq(Entries)
      /\ cursor \in Nat /\ base \in Nat
  BY DEF TypeOK
<1>2. Len(outbox) \in Nat /\ Len(log) \in Nat /\ Len(copy) \in Nat
  BY <1>1
<1>3. /\ marker \in BOOLEAN /\ copied \in BOOLEAN
      /\ dpc \in [Procs -> DrainerPlaces] /\ line \in [Procs -> Entries]
      /\ next \in [Procs -> Nat]
  BY DEF TypeOK
<1>4. /\ Window(outbox, log, base)
      /\ ResetPending \/ cursor <= Len(outbox)
      /\ cursor <= CompactAt + faults
      /\ AtPlace(p) /\ CopyAt(p)
  BY CyclesAt
<1>5. faults \in Nat /\ faults' \in Nat /\ faults <= faults'
  BY FaultsGrow
<1>6. \A n \in Nat : /\ n < CompactAt + faults => n < CompactAt + faults'
                     /\ n <= CompactAt + faults => n <= CompactAt + faults'
  BY <1>5, BoundGrows
<1>7. log' = log
  BY DrainerFrame
\* The steps that leave the files as they are.
<1>8. ASSUME UNCHANGED files, base' = base, AtPlace(p)', CopyAt(p)'
      PROVE  Windows' /\ Cycles'
  <2>1. /\ outbox' = outbox /\ cursor' = cursor
        /\ (ResetPending' <=> ResetPending)
    BY <1>8 DEF files, ResetPending
  <2>2. cursor' <= CompactAt + faults'
    BY <1>1, <1>4, <1>6, <2>1
  <2> QED BY <1>4, <1>7, <1>8, <2>1, <2>2, CyclesSuffice
<1>9. CASE Begin(p)
  <2>1. /\ outbox' = outbox /\ copied' = copied /\ marker' = marker /\ base' = base
        /\ dpc'[p] = "recover" /\ cursor' \in {0, cursor}
    BY <1>3, <1>9 DEF Begin, history, DGoto
  <2>2. cursor' <= CompactAt + faults' /\ (ResetPending' \/ cursor' <= Len(outbox))
    <3>1. CASE cursor' = cursor
      BY <1>1, <1>4, <1>6, <2>1, <3>1 DEF ResetPending
    <3>2. CASE cursor' = 0
      BY <1>2, <1>5, <3>2, ZeroWithin
    <3> QED BY <2>1, <3>1, <3>2
  <2>3. AtPlace(p)' /\ CopyAt(p)'
    BY <2>1 DEF AtPlace, CopyAt
  <2> QED BY <1>4, <1>7, <2>1, <2>2, <2>3, CyclesSuffice
<1>10. CASE CompactionFails(p) \/ Busy(p) \/ LookFails(p) \/ Unanswered(p) \/ AdvanceFails(p)
  <2>1. UNCHANGED files /\ base' = base /\ dpc'[p] = "idle"
    BY <1>3, <1>10 DEF CompactionFails, Busy, LookFails, Unanswered, AdvanceFails, history,
       EndCycle, DGoto
  <2> QED BY <1>8, <2>1 DEF AtPlace, CopyAt
<1>11. CASE Check(p)
  <2>1. /\ UNCHANGED files /\ base' = base /\ ~marker
        /\ \/ dpc'[p] = "look" /\ (cursor < CompactAt \/ faults' = faults + 1)
           \/ dpc'[p] = "repack"
    BY <1>3, <1>4, <1>11 DEF Check, Reads, Fault, history, DGoto, AtPlace
  <2>2. dpc'[p] = "look" => cursor < CompactAt + faults'
    BY <1>1, <1>4, <1>5, <2>1, LessThanSum, OneMoreFault
  <2> QED BY <1>8, <2>1, <2>2 DEF AtPlace, CopyAt, files
<1>12. CASE RepackFails(p)
  <2>1. /\ UNCHANGED files /\ base' = base /\ ~marker /\ dpc'[p] = "look"
        /\ faults' = faults + 1
    BY <1>3, <1>4, <1>12 DEF RepackFails, history, DGoto, AtPlace, Fault
  <2>2. cursor < CompactAt + faults'
    BY <1>1, <1>4, <1>5, <2>1, OneMoreFault
  <2> QED BY <1>8, <2>1, <2>2 DEF AtPlace, CopyAt, files
<1>13. CASE Look(p)
  <2>1. UNCHANGED files /\ base' = base /\ ~marker /\ cursor < CompactAt + faults'
    BY <1>1, <1>4, <1>6, <1>13 DEF Look, history, AtPlace
  <2>0. PICK c \in {0, cursor} :
          IF c < Len(outbox) /\ outbox[c + 1].ended
          THEN /\ DGoto(p, "transform")
               /\ line' = [line EXCEPT ![p] = outbox[c + 1]]
               /\ next' = [next EXCEPT ![p] = c + 1]
          ELSE EndCycle(p)
    BY <1>13 DEF Look
  <2>2. CASE c < Len(outbox) /\ outbox[c + 1].ended
    <3>1. /\ dpc'[p] = "transform" /\ line'[p] = outbox[c + 1]
          /\ next'[p] = c + 1
      BY <1>3, <2>0, <2>2 DEF DGoto
    <3>2. c + 1 \in 1..cursor + 1 /\ c + 1 <= Len(outbox)
      BY <1>1, <1>2, <2>2
    <3> QED BY <1>8, <2>1, <2>2, <3>1, <3>2 DEF AtPlace, CopyAt, files
  <2>3. CASE ~(c < Len(outbox) /\ outbox[c + 1].ended)
    <3>1. dpc'[p] = "idle"
      BY <1>3, <2>0, <2>3 DEF DGoto, EndCycle
    <3> QED BY <1>8, <2>1, <3>1 DEF AtPlace, CopyAt
  <2> QED BY <2>2, <2>3
<1>14. CASE Body(p)
  <2>1. /\ UNCHANGED files /\ base' = base /\ dpc[p] = "transform" /\ dpc'[p] = "post"
        /\ line' = line /\ next' = next
    BY <1>3, <1>14 DEF Body, history, DGoto
  <2>2. ~marker /\ cursor < CompactAt + faults' /\ next[p] \in 1..cursor + 1
        /\ next[p] <= Len(outbox) /\ line[p] = outbox[next[p]] /\ line[p].ended
    BY <1>1, <1>4, <1>6, <2>1 DEF AtPlace
  <2> QED BY <1>8, <2>1, <2>2 DEF AtPlace, CopyAt, files
<1>15. CASE QuarantineInvalid(p) \/ Answered(p) \/ TransformFails(p) \/ ClientError(p)
  <2>1. UNCHANGED files /\ base' = base /\ dpc[p] \in {"transform", "post"}
    BY <1>15 DEF QuarantineInvalid, Answered, TransformFails, ClientError
  <2>2. \/ EndCycle(p)
        \/ Settle(p)
    BY <1>15 DEF QuarantineInvalid, Answered, TransformFails, ClientError
  <2>3. CASE EndCycle(p)
    <3>1. dpc'[p] = "idle"
      BY <1>3, <2>3 DEF EndCycle, DGoto
    <3> QED BY <1>8, <2>1, <3>1 DEF AtPlace, CopyAt
  <2>4. CASE Settle(p)
    <3>1. /\ dpc'[p] = "advance" /\ line' = line /\ next' = next
          /\ line[p].recs \subseteq settled'
      BY <1>3, <2>4 DEF Settle, DGoto
    <3>2. ~marker /\ cursor < CompactAt + faults' /\ next[p] \in 1..cursor + 1
          /\ next[p] <= Len(outbox) /\ line[p] = outbox[next[p]] /\ line[p].ended
      BY <1>1, <1>4, <1>6, <2>1 DEF AtPlace
    <3> QED BY <1>8, <2>1, <3>1, <3>2 DEF AtPlace, CopyAt, files
  <2> QED BY <2>2, <2>3, <2>4
\* The steps of a repacking and of its recovery, and the cursor.
<1>16. CASE Recover(p)
  <2>1. /\ outbox' = outbox /\ copy' = copy /\ copied' = copied /\ marker' = marker
        /\ base' = base
        /\ \/ dpc'[p] = "check" /\ ~marker /\ cursor' = cursor
           \/ dpc'[p] = "unmark" /\ marker /\ cursor' = (IF copied THEN cursor ELSE 0)
    BY <1>3, <1>16 DEF Recover, history, DGoto
  <2>2. cursor' <= CompactAt + faults' /\ (ResetPending' \/ cursor' <= Len(outbox))
    <3>1. CASE cursor' = cursor /\ (marker => copied)
      BY <1>1, <1>4, <1>6, <2>1, <3>1 DEF ResetPending
    <3>2. CASE cursor' = 0
      BY <1>2, <1>5, <2>1, <3>2, ZeroWithin
    <3> QED BY <2>1, <3>1, <3>2
  <2>3. AtPlace(p)' /\ CopyAt(p)'
    BY <2>1 DEF AtPlace, CopyAt
  <2> QED BY <1>4, <1>7, <2>1, <2>2, <2>3, CyclesSuffice
<1>17. CASE Unmark(p)
  <2>1. /\ outbox' = outbox /\ copy' = copy /\ copied' = copied /\ ~marker'
        /\ base' = base /\ cursor' = cursor /\ dpc[p] = "unmark" /\ dpc'[p] = "check"
    BY <1>3, <1>17 DEF Unmark, history, DGoto
  <2>2. marker /\ (copied \/ cursor = 0)
    BY <1>4, <2>1 DEF AtPlace
  <2>3. cursor' <= CompactAt + faults' /\ cursor' <= Len(outbox)
    BY <1>1, <1>2, <1>4, <1>6, <2>1, <2>2 DEF ResetPending
  <2>4. AtPlace(p)' /\ CopyAt(p)'
    BY <2>1 DEF AtPlace, CopyAt
  <2> QED BY <1>4, <1>7, <2>1, <2>3, <2>4, CyclesSuffice
<1>18. CASE Repack(p)
  <2>1. /\ outbox' = outbox /\ copied' /\ marker' = marker /\ base' = base
        /\ cursor' = cursor /\ dpc[p] = "repack" /\ dpc'[p] = "mark"
        /\ copy' = SubSeq(outbox, cursor + 1, Len(outbox))
    BY <1>3, <1>18 DEF Repack, history, DGoto
  <2>2. ~marker /\ cursor <= Len(outbox)
    BY <1>4, <2>1 DEF AtPlace, ResetPending
  <2>3. cursor' <= CompactAt + faults'
    BY <1>1, <1>4, <1>6, <2>1
  <2>4. /\ Len(copy') = Len(outbox) - cursor
        /\ \A i \in 1..Len(copy') : copy'[i] = outbox[cursor + i]
    <3>1. outbox \in Seq(Entries) /\ cursor \in 0..Len(outbox)
      BY <1>1, <1>2, <2>2 DEF TypeOK, FilesTyped
    <3> QED BY <2>1, <3>1, SuffixOf
  <2>5. AtPlace(p)' /\ CopyAt(p)'
    BY <2>1, <2>2, <2>4 DEF AtPlace, CopyAt
  <2> QED BY <1>4, <1>7, <2>1, <2>2, <2>3, <2>5, CyclesSuffice
<1>19. CASE Mark(p)
  <2>1. /\ outbox' = outbox /\ copied' = copied /\ marker' /\ base' = base
        /\ copy' = copy /\ cursor' = cursor /\ dpc[p] = "mark" /\ dpc'[p] = "rename"
    BY <1>3, <1>19 DEF Mark, history, DGoto
  <2>2. ~marker /\ copied /\ cursor <= Len(outbox)
    BY <1>4, <2>1 DEF AtPlace, ResetPending
  <2>3. cursor' <= CompactAt + faults'
    BY <1>1, <1>4, <1>6, <2>1
  <2>4. AtPlace(p)' /\ CopyAt(p)'
    BY <1>4, <2>1, <2>2 DEF AtPlace, CopyAt
  <2> QED BY <1>4, <1>7, <2>1, <2>2, <2>3, <2>4, CyclesSuffice
<1>20. CASE Rename(p)
  <2>1. /\ outbox' = copy /\ ~copied' /\ marker' = marker /\ cursor' = cursor
        /\ base' = base + Len(outbox) - Len(copy)
        /\ dpc[p] = "rename" /\ dpc'[p] = "reset"
    BY <1>3, <1>20 DEF Rename, DGoto
  <2>2. /\ marker /\ copied /\ cursor <= Len(outbox)
        /\ Len(copy) = Len(outbox) - cursor
        /\ \A i \in 1..Len(copy) : copy[i] = outbox[cursor + i]
    BY <1>4, <2>1 DEF AtPlace, CopyAt, ResetPending
  <2>3. cursor' <= CompactAt + faults'
    BY <1>1, <1>4, <1>6, <2>1
  <2>4. base' = base + cursor
    BY <1>1, <1>2, <2>1, <2>2
  <2>5. Window(outbox', log', base')
    <3>1. Len(log) = base' + Len(copy)
      BY <1>1, <1>2, <1>4, <2>2, <2>4 DEF Window
    <3>2. ASSUME NEW i \in 1..Len(copy)
          PROVE  copy[i] = log[base' + i]
      <4>1. cursor + i \in 1..Len(outbox) /\ base + (cursor + i) = base' + i
        BY <1>1, <1>2, <2>2, <2>4
      <4>2. outbox[cursor + i] = log[base + (cursor + i)]
        BY <1>4, <4>1 DEF Window
      <4> QED BY <2>2, <4>1, <4>2
    <3> QED BY <1>7, <2>1, <3>1, <3>2 DEF Window
  <2>6. ResetPending' /\ AtPlace(p)' /\ CopyAt(p)'
    BY <2>1, <2>2 DEF ResetPending, AtPlace, CopyAt
  <2> QED BY <2>3, <2>5, <2>6, CyclesSuffice
<1>21. CASE Reset(p)
  <2>1. /\ outbox' = outbox /\ copied' = copied /\ marker' = marker /\ base' = base
        /\ cursor' = 0 /\ dpc[p] = "reset" /\ dpc'[p] = "unmark"
    BY <1>3, <1>21 DEF Reset, history, DGoto
  <2>2. marker
    BY <1>4, <2>1 DEF AtPlace, ResetPending
  <2>3. cursor' <= CompactAt + faults' /\ cursor' <= Len(outbox)
    BY <1>2, <1>5, <2>1, ZeroWithin
  <2>4. AtPlace(p)' /\ CopyAt(p)'
    BY <2>1, <2>2 DEF AtPlace, CopyAt
  <2> QED BY <1>4, <1>7, <2>1, <2>3, <2>4, CyclesSuffice
<1>22. CASE AdvanceCursor(p)
  <2>1. /\ outbox' = outbox /\ copied' = copied /\ marker' = marker /\ base' = base
        /\ cursor' = next[p] /\ dpc[p] = "advance" /\ dpc'[p] = "idle"
        /\ faults' = faults
    BY <1>3, <1>22 DEF AdvanceCursor, history, bounds, EndCycle, DGoto
  <2>2. /\ next[p] \in 1..cursor + 1 /\ next[p] <= Len(outbox)
        /\ cursor < CompactAt + faults
    BY <1>4, <2>1 DEF AtPlace
  <2>3. cursor' <= CompactAt + faults
    BY <1>1, <1>5, <2>1, <2>2, NextWithin
  <2>4. cursor' <= Len(outbox)
    BY <2>1, <2>2
  <2>5. AtPlace(p)' /\ CopyAt(p)'
    BY <2>1 DEF AtPlace, CopyAt
  <2> QED BY <1>4, <1>7, <2>1, <2>2, <2>3, <2>4, <2>5, CyclesSuffice
<1> QED
  BY <1>9, <1>10, <1>11, <1>12, <1>13, <1>14, <1>15, <1>16, <1>17, <1>18, <1>19,
     <1>20, <1>21, <1>22
  DEF DrainerStep, CompactionStep, DeliveryStep

-----------------------------------------------------------------------------
(* The size of the file. *)

LEMMA SumWithin ==
  ASSUME NEW l \in Nat, NEW m \in Nat, NEW a \in Nat, NEW b \in Nat, m + b <= l + a,
         NEW f \in Nat, NEW g \in Nat, f <= g, NEW n \in Nat,
         l + a <= CompactAt + f + Cap + n
  PROVE  m + b <= CompactAt + g + Cap + n
BY ConstantsTyped

LEMMA MeasuredWithin ==
  ASSUME NEW l \in Nat, NEW s \in Nat, NEW a \in Nat, NEW f \in Nat, NEW n \in Nat,
         l <= s + Cap, s <= CompactAt + f, a <= n
  PROVE  l + a <= CompactAt + f + Cap + n
BY ConstantsTyped

\* Who is allowed to append was below the cap when it measured, and who makes the
\* outbox longer is no longer among those who may.
LEMMA AllowedMoves ==
  ASSUME TypeOK, Windows, Cycles, Lines, Numbers, NEW p \in Procs,
         WriterStep(p) \/ DrainerStep(p) \/ Ending(p)
  PROVE  \/ Allowed' \subseteq Allowed /\ Len(outbox') <= Len(outbox)
         \/ /\ p \in Allowed /\ Allowed' \subseteq Allowed \ {p}
            /\ Len(outbox') <= Len(outbox) + 1
         \/ /\ wpc[p] = "stat" /\ ~OverCap(seen[p]) /\ outbox' = outbox
            /\ faults' = faults
<1>1. /\ wpc \in [Procs -> WriterPlaces]
      /\ outbox \in Seq(Entries) /\ copy \in Seq(Entries) /\ cursor \in Nat
  BY DEF TypeOK
<1>2. Len(outbox) \in Nat /\ Len(copy) \in Nat
  BY <1>1
<1>3. \A q \in Procs \ {p} : wpc'[q] = wpc[q]
  BY HandMoves
<1>4. ASSUME wpc'[p] \in {"append", "append waits"} => wpc[p] \in {"append", "append waits"}
      PROVE  Allowed' \subseteq Allowed
  BY <1>3, <1>4 DEF Allowed
<1>5. CASE (AppendLine(p) \/ AppendFails(p) \/ KillMidWrite(p)) /\ outbox' # outbox
  <2>1. /\ wpc[p] \in {"append", "append waits"} /\ ~Locked(age[p]) /\ Persisting(p)
        /\ wpc'[p] \in {"idle", "count", "down"}
    BY <1>1, <1>5 DEF AppendLine, AppendFails, KillMidWrite, Die, Return, GetsLock, WGoto,
       Persisting
  <2>2. rec[p] \in Records
    BY <2>1, RecordInHand
  <2>3. PICK e \in {Whole(rec[p]), Unended(rec[p]), Cut(rec[p])} : Write(p, e)
    BY <1>5 DEF AppendLine, AppendFails, KillMidWrite
  <2>4. Len(outbox') \in {Len(outbox), Len(outbox) + 1}
    BY <2>1, <2>2, <2>3, WriteGrows
  <2>5. p \in Allowed /\ Allowed' \subseteq Allowed \ {p}
    BY <1>3, <2>1 DEF Allowed
  <2>6. Len(outbox') <= Len(outbox) + 1
    BY <1>2, <2>4
  <2> QED BY <2>5, <2>6
<1>6. CASE Measure(p)
  <2>1. outbox' = outbox /\ faults' = faults /\ wpc[p] = "stat"
    BY <1>6 DEF Measure, files, bounds
  <2>2. CASE OverCap(seen[p])
    <3>1. wpc'[p] = "count"
      BY <1>1, <1>6, <2>2 DEF Measure, WGoto
    <3>2. Allowed' \subseteq Allowed
      BY <1>4, <3>1
    <3>3. Len(outbox') <= Len(outbox)
      BY <1>2, <2>1
    <3> QED BY <3>2, <3>3
  <2> QED BY <2>1, <2>2
<1>7. CASE \/ Persist(p) \/ Wait(p) \/ CountRead(p) \/ CountWrite(p) \/ CountFails(p)
           \/ ((AppendLine(p) \/ AppendFails(p) \/ KillMidWrite(p)) /\ outbox' = outbox)
  <2>1. outbox' = outbox
    BY <1>7 DEF Persist, Wait, CountRead, CountWrite, CountFails, files
  <2>2. wpc'[p] \in {"append", "append waits"} => wpc[p] \in {"append", "append waits"}
    BY <1>1, <1>7 DEF Persist, Wait, CountRead, CountWrite, CountFails, AppendLine,
       AppendFails, KillMidWrite, Die, WGoto, Return
  <2>3. Allowed' \subseteq Allowed
    BY <1>4, <2>2
  <2>4. Len(outbox') <= Len(outbox)
    BY <1>2, <2>1
  <2> QED BY <2>3, <2>4
<1>8. CASE DrainerStep(p)
  <2>1. wpc' = wpc
    BY <1>8, DrainerFrame
  <2>2. Len(outbox') <= Len(outbox)
    <3>1. CASE Rename(p)
      BY <1>1, <1>2, <3>1 DEF Rename, Windows
    <3> QED BY <1>2, <1>8, <3>1, DrainerFrame
  <2> QED BY <1>4, <2>1, <2>2
<1>9. CASE Kill(p) \/ Start(p) \/ OrphanEnds(p)
  <2>1. wpc'[p] \in {"append", "append waits"} => wpc[p] \in {"append", "append waits"}
    BY <1>1, <1>9 DEF Kill, Die, Start, Return, OrphanEnds, writers, WGoto
  <2>2. outbox' = outbox \/ outbox' = Terminated(outbox)
    BY <1>9 DEF Kill, Start, OrphanEnds, files
  <2>3. Len(outbox') <= Len(outbox)
    BY <1>1, <1>2, <2>2, TerminatedKeeps
  <2> QED BY <1>4, <2>1, <2>3
<1>10. CASE AppendLine(p) \/ AppendFails(p) \/ KillMidWrite(p)
  BY <1>5, <1>7, <1>10
<1> QED BY <1>6, <1>7, <1>8, <1>9, <1>10 DEF WriterStep, Ending

\* What a thread has measured with was the cursor, or a cursor misread as 0.
LEMMA MeasuredKept ==
  ASSUME TypeOK, Windows, Bounded, NEW p \in Procs,
         WriterStep(p) \/ DrainerStep(p) \/ Ending(p), NEW q \in Procs, wpc'[q] = "stat"
  PROVE  seen'[q] <= CompactAt + faults'
<1>1. /\ wpc \in [Procs -> WriterPlaces] /\ seen \in [Procs -> Nat] /\ cursor \in Nat
  BY DEF TypeOK
<1>2. faults \in Nat /\ faults' \in Nat /\ faults <= faults'
  BY FaultsGrow
<1>3. ASSUME NEW n \in Nat, n <= CompactAt + faults
      PROVE  n <= CompactAt + faults'
  BY <1>2, <1>3, BoundGrows
<1>4. CASE wpc[q] = "stat" /\ seen'[q] = seen[q]
  BY <1>1, <1>3, <1>4 DEF Bounded
<1>5. CASE seen'[q] = cursor
  BY <1>1, <1>3, <1>5 DEF Windows
<1>12. CASE seen'[q] = 0
  BY <1>2, <1>12, ZeroWithin
<1>6. CASE Persist(p)
  BY <1>1, <1>4, <1>5, <1>6, <1>12 DEF Persist, WGoto
<1>7. CASE Measure(p) \/ Wait(p) \/ CountRead(p)
  BY <1>1, <1>4, <1>7 DEF Measure, Wait, CountRead, WGoto
<1>8. CASE AppendLine(p) \/ CountWrite(p) \/ CountFails(p) \/ Start(p)
  BY <1>1, <1>4, <1>8 DEF AppendLine, CountWrite, CountFails, Start, Return, WGoto
<1>9. CASE AppendFails(p)
  BY <1>1, <1>4, <1>9 DEF AppendFails, WGoto
<1>10. CASE Kill(p) \/ KillMidWrite(p)
  BY <1>1, <1>4, <1>10 DEF Kill, KillMidWrite, Die, WGoto
<1>11. CASE DrainerStep(p) \/ OrphanEnds(p)
  BY <1>4, <1>11, DrainerFrame DEF OrphanEnds, writers
<1> QED BY <1>6, <1>7, <1>8, <1>9, <1>10, <1>11 DEF WriterStep, Ending

\* The file stays bounded.
LEMMA BoundedKept ==
  ASSUME TypeOK, TypeOK', Windows, Cycles, Lines, Numbers, Bounded, NEW p \in Procs,
         WriterStep(p) \/ DrainerStep(p) \/ Ending(p)
  PROVE  Bounded'
<1>1. outbox \in Seq(Entries) /\ outbox' \in Seq(Entries) /\ seen \in [Procs -> Nat]
  BY DEF TypeOK
<1>2. Len(outbox) \in Nat /\ Len(outbox') \in Nat
  BY <1>1
<1>3. faults \in Nat /\ faults' \in Nat /\ faults <= faults'
  BY FaultsGrow
<1>4. IsFiniteSet(Procs)
  BY OutboxAssumption
<1>5. Allowed \in SUBSET Procs /\ Allowed' \in SUBSET Procs
  BY DEF Allowed
<1>6. IsFiniteSet(Allowed) /\ IsFiniteSet(Allowed')
  BY <1>4, <1>5, FS_Subset
<1>7. /\ Cardinality(Allowed) \in Nat /\ Cardinality(Allowed') \in Nat
      /\ Cardinality(Procs) \in Nat /\ Cardinality(Allowed') <= Cardinality(Procs)
  BY <1>4, <1>5, <1>6, FS_CardinalityType, FS_Subset
<1>8. ASSUME Cap > 0
      PROVE  Len(outbox') + Cardinality(Allowed')
               <= CompactAt + faults' + Cap + Cardinality(Procs)
  <2>1. Len(outbox) + Cardinality(Allowed)
          <= CompactAt + faults + Cap + Cardinality(Procs)
    BY <1>8 DEF Bounded
  <2>2. CASE Allowed' \subseteq Allowed /\ Len(outbox') <= Len(outbox)
    <3>1. Cardinality(Allowed') <= Cardinality(Allowed)
      BY <1>6, <2>2, FS_Subset
    <3>2. Len(outbox') + Cardinality(Allowed') <= Len(outbox) + Cardinality(Allowed)
      BY <1>2, <1>7, <2>2, <3>1
    <3> QED BY <1>2, <1>3, <1>7, <2>1, <3>2, SumWithin
  <2>3. CASE /\ p \in Allowed /\ Allowed' \subseteq Allowed \ {p}
             /\ Len(outbox') <= Len(outbox) + 1
    <3>1. /\ IsFiniteSet(Allowed \ {p})
          /\ Cardinality(Allowed \ {p}) = Cardinality(Allowed) - 1
      BY <1>6, <2>3, FS_RemoveElement
    <3>2. Cardinality(Allowed') <= Cardinality(Allowed) - 1
      BY <2>3, <3>1, FS_Subset
    <3>3. Len(outbox') + Cardinality(Allowed') <= Len(outbox) + Cardinality(Allowed)
      BY <1>2, <1>7, <2>3, <3>2
    <3> QED BY <1>2, <1>3, <1>7, <2>1, <3>3, SumWithin
  <2>4. CASE /\ wpc[p] = "stat" /\ ~OverCap(seen[p]) /\ outbox' = outbox
             /\ faults' = faults
    <3>1. seen[p] \in Nat /\ seen[p] <= CompactAt + faults
      BY <1>1, <2>4 DEF Bounded
    <3>2. Len(outbox) <= seen[p] + Cap
      BY <1>2, <1>8, <2>4, <3>1, ConstantsTyped DEF OverCap
    <3>3. Len(outbox) + Cardinality(Allowed')
            <= CompactAt + faults + Cap + Cardinality(Procs)
      BY <1>2, <1>3, <1>7, <3>1, <3>2, MeasuredWithin
    <3> QED BY <2>4, <3>3
  <2> QED BY <2>2, <2>3, <2>4, AllowedMoves
<1>9. \A q \in Procs : wpc'[q] = "stat" => seen'[q] <= CompactAt + faults'
  BY MeasuredKept
<1> QED BY <1>8, <1>9 DEF Bounded

-----------------------------------------------------------------------------
(* The invariant. *)

LEMMA InitHolds == Init => IInv
<1> SUFFICES ASSUME Init
             PROVE  IInv
  OBVIOUS
<1>1. /\ outbox = <<>> /\ log = <<>> /\ copy = <<>> /\ cursor = 0 /\ base = 0
      /\ copied = FALSE /\ marker = FALSE /\ dropped = 0 /\ counted = 0
      /\ issued = 0 /\ faults = 0
      /\ settled = {} /\ accepted = {} /\ strayed = {}
      /\ wpc = [p \in Procs |-> "idle"] /\ dpc = [p \in Procs |-> "idle"]
  BY DEF Init
<1>2. TypeOK
  <2>1. FilesTyped /\ HistoryTyped
    <3>1. outbox \in Seq(Entries) /\ log \in Seq(Entries) /\ copy \in Seq(Entries)
      BY <1>1
    <3>2. cursor \in Nat /\ base \in Nat /\ dropped \in Nat /\ counted \in Nat
      BY <1>1
    <3>3. copied \in BOOLEAN /\ marker \in BOOLEAN
      BY <1>1
    <3>4. /\ settled \subseteq Records /\ accepted \subseteq Records
          /\ strayed \subseteq Records
      BY <1>1
    <3> QED BY <3>1, <3>2, <3>3, <3>4 DEF FilesTyped, HistoryTyped
  <2>2. WritersTyped
    BY ConstantsTyped DEF Init, WritersTyped, WriterPlaces
  <2>3. DrainersTyped
    <3>1. NoLine \in Entries
      BY DEF NoLine, Entries
    <3> QED BY <3>1, ConstantsTyped DEF Init, DrainersTyped, DrainerPlaces
  <2>4. BoundsTyped
    BY <1>1, ConstantsTyped DEF BoundsTyped
  <2> QED BY <2>1, <2>2, <2>3, <2>4, TypeParts
<1>3. Windows
  BY <1>1, ConstantsTyped DEF Windows
<1>4. Cycles /\ Locks
  BY <1>1 DEF Cycles, Locks, Repacking
<1>5. Behind = 0
  BY <1>1 DEF Behind
<1>6. Lines
  BY <1>1, <1>5 DEF Lines
<1>7. Numbers
  BY <1>1 DEF Numbers, Unwritten
<1>8. Kept /\ Counts
  BY <1>1 DEF Kept, Counts
<1>9. Bounded
  <2>1. IsFiniteSet(Procs) /\ Allowed = {}
    BY <1>1, OutboxAssumption DEF Allowed
  <2>2. Cardinality(Procs) \in Nat /\ Cardinality(Allowed) = 0 /\ Len(outbox) = 0
    BY <1>1, <2>1, FS_CardinalityType, FS_EmptySet
  <2>3. Len(outbox) + Cardinality(Allowed)
          <= CompactAt + faults + Cap + Cardinality(Procs)
    BY <1>1, <2>2, ConstantsTyped
  <2>4. \A p \in Procs : wpc[p] # "stat"
    BY <1>1
  <2> QED BY <2>3, <2>4 DEF Bounded
<1> QED BY <1>2, <1>3, <1>4, <1>6, <1>7, <1>8, <1>9 DEF IInv

LEMMA StepHolds == IInv /\ [Next]_vars => IInv'
<1> SUFFICES ASSUME IInv, [Next]_vars
             PROVE  IInv'
  OBVIOUS
<1>1. /\ TypeOK /\ Windows /\ Cycles /\ Locks /\ Lines /\ Numbers /\ Kept /\ Counts
      /\ Bounded
  BY DEF IInv
<1>2. CASE UNCHANGED vars
  <2>1. /\ UNCHANGED files /\ UNCHANGED writers /\ UNCHANGED drainers
        /\ UNCHANGED bounds /\ UNCHANGED history
    BY <1>2 DEF vars
  <2>2. TypeOK'
    BY <1>1, <2>1
    DEF TypeOK, files, writers, drainers, counts, bounds, history
  <2>3. Windows' /\ Cycles'
    BY <1>1, <2>1
    DEF Windows, Cycles, ResetPending, files, drainers, bounds, history
  <2>4. Locks' /\ Counts' /\ Kept'
    BY <1>1, <2>1
    DEF Locks, Counts, Kept, Repacking, files, writers, drainers, history
  <2>5. Lines' /\ Numbers'
    BY <1>1, <2>1
    DEF Lines, Numbers, Behind, Unwritten, files, writers, bounds, history
  <2>6. Bounded'
    BY <1>1, <2>1 DEF Bounded, Allowed, files, writers, bounds
  <2> QED BY <2>2, <2>3, <2>4, <2>5, <2>6 DEF IInv
<1>3. CASE Next
  <2>1. PICK p \in Procs : WriterStep(p) \/ DrainerStep(p) \/ Ending(p)
    BY <1>3, StepOf
  <2>2. TypeOK'
    BY <1>1, <2>1, WriterTypes, DrainerTypes, EndingTypes
  <2>3. Windows' /\ Cycles'
    BY <1>1, <2>1, <2>2, OthersLeaveCycles, DrainerKeepsCycles
  <2>4. PICK R \in {{}, {rec[p]}} : Writes(p, R)
    BY <1>1, <2>1, StepWrites
  <2>5. Drains /\ (log' = log \/ (Behind' = Behind /\ settled' = settled))
    BY <1>1, <2>1, StepDrains
  <2>6. Lines'
    BY <1>1, <2>2, <2>4, <2>5, LinesKept
  <2>7. Numbers'
    BY <1>1, <2>1, <2>2, <2>4, <2>5, NumbersKept
  <2>8. Kept'
    BY <1>1, <2>1, <2>4, StrayedGrows, KeptKept
  <2>9. Locks' /\ Counts'
    BY <1>1, <2>1, LocksKept, CountsKept
  <2>10. Bounded'
    BY <1>1, <2>1, <2>2, BoundedKept
  <2> QED BY <2>2, <2>3, <2>6, <2>7, <2>8, <2>9, <2>10 DEF IInv
<1> QED BY <1>2, <1>3

\* The invariant is inductive: the outbox is what the repackings left of the log,
\* each place of a drainer says what the marker, the copy and the cursor are,
\* the lines behind the cursor are settled, and so are those before a settled one.
THEOREM Invariance == Spec => []IInv
<1> QED BY InitHolds, StepHolds, PTL DEF Spec

-----------------------------------------------------------------------------
(* What it says. *)

\* Every variable has its type.
THEOREM TypeCorrect == Spec => []TypeOK
<1>1. IInv => TypeOK
  BY DEF IInv
<1> QED BY <1>1, Invariance, PTL

\* No record whose append returned Ok is lost: its line was settled, or is in the
\* outbox in front of the cursor, whatever was killed, cut short or repacked,
\* unless the append waited for a lock through a repacking.
THEOREM NoneLost == Spec => []NothingLost
<1>1. IInv => NothingLost
  <2> SUFFICES ASSUME IInv, NEW r \in accepted \ strayed, r \notin settled
               PROVE  \E i \in 1..Len(outbox) :
                         base + i > Behind /\ r \in outbox[i].recs
    BY DEF NothingLost
  <2>1. TypeOK /\ Windows /\ Lines /\ Kept
    BY DEF IInv
  <2>2. Behind \in Nat /\ base <= Behind
    BY <2>1, BehindBound
  <2>3. base \in Nat /\ outbox \in Seq(Entries)
    BY <2>1 DEF TypeOK
  <2>4. Len(outbox) \in Nat
    BY <2>3
  <2>5. PICK k \in 1..Len(log) : r \in log[k].recs
    BY <2>1 DEF Kept
  <2>6. ~(k \in 1..Behind)
    BY <2>1, <2>5 DEF Lines
  <2>7. /\ Len(log) = base + Len(outbox)
        /\ \A i \in 1..Len(outbox) : outbox[i] = log[base + i]
    BY <2>1 DEF Windows
  <2>8. k - base \in 1..Len(outbox) /\ base + (k - base) = k /\ k > Behind
    BY <2>2, <2>3, <2>4, <2>6, <2>7
  <2>9. outbox[k - base] = log[k]
    BY <2>7, <2>8
  <2> QED BY <2>5, <2>8, <2>9
<1> QED BY <1>1, Invariance, PTL

\* Whatever is killed or repacked, lines are settled in the order in which they
\* were written, and left behind only when they were settled.
THEOREM InOrder == Spec => []SettledInOrder
<1>1. IInv => SettledInOrder
  <2> SUFFICES ASSUME IInv, NEW i \in 1..Len(log)
               PROVE  /\ i <= Behind => log[i].recs \subseteq settled
                      /\ log[i].recs \cap settled # {} =>
                           \A j \in 1..i - 1 : log[j].recs \subseteq settled
    BY DEF SettledInOrder
  <2>1. TypeOK /\ Windows /\ Lines
    BY DEF IInv
  <2>2. Behind \in Nat
    BY <2>1, BehindBound
  <2>3. i <= Behind => log[i].recs \subseteq settled
    BY <2>1, <2>2 DEF Lines
  <2>4. log \in Seq(Entries)
    BY <2>1 DEF TypeOK
  <2>5. \A j \in 1..i - 1 : j \in 1..Len(log) /\ j < i
    BY <2>4
  <2> QED BY <2>1, <2>3, <2>5 DEF Lines
<1> QED BY <1>1, Invariance, PTL

\* The counter of drops, which every process reads and writes back, loses no
\* count, unless a count waited for a lock through a repacking.
THEOREM NoDropUncounted == Spec => []DropsCounted
<1>1. IInv => DropsCounted
  BY DEF IInv, Counts, DropsCounted
<1> QED BY <1>1, Invariance, PTL

\* The cap holds for every number of processes, up to a line for each of them
\* and what a cursor that has not been reset hides from it.
THEOREM SizeBounded == Spec => []FileBounded
<1>1. IInv => FileBounded
  <2> SUFFICES ASSUME IInv, Cap > 0
               PROVE  Len(outbox) <= CompactAt + faults + Cap + Cardinality(Procs)
    BY DEF FileBounded
  <2>1. outbox \in Seq(Entries) /\ faults \in 0..MaxEvents
    BY DEF IInv, TypeOK
  <2>2. Len(outbox) \in Nat /\ faults \in Nat
    BY <2>1, ConstantsTyped
  <2>3. IsFiniteSet(Procs) /\ Allowed \in SUBSET Procs
    BY OutboxAssumption DEF Allowed
  <2>4. Cardinality(Procs) \in Nat /\ Cardinality(Allowed) \in Nat
    BY <2>3, FS_CardinalityType, FS_Subset
  <2>5. Len(outbox) + Cardinality(Allowed)
          <= CompactAt + faults + Cap + Cardinality(Procs)
    BY DEF IInv, Bounded
  <2> QED BY <2>2, <2>4, <2>5, ConstantsTyped
<1> QED BY <1>1, Invariance, PTL

-----------------------------------------------------------------------------
(* The implementation of the queue. *)

\* The operators on files are those of the queue.
LEMMA SameFiles ==
  ASSUME NEW s, NEW e
  PROVE  Queue!Put(s, e) = Put(s, e) /\ Queue!Terminated(s) = Terminated(s)
BY DEF Queue!Put, Put, Queue!Terminated, Terminated, Queue!Torn, Torn, Queue!Glued, Glued

\* What a step writes to the log.
LEMMA StepLogs ==
  ASSUME TypeOK, Numbers, NEW p \in Procs,
         WriterStep(p) \/ DrainerStep(p) \/ Ending(p)
  PROVE  \/ log' = log
         \/ log' = Terminated(log)
         \/ \E r \in Records : \E e \in {Whole(r), Unended(r), Cut(r)} :
              log' = Put(log, e)
<1>1. CASE (AppendLine(p) \/ AppendFails(p) \/ KillMidWrite(p)) /\ log' # log
  <2>1. Persisting(p)
    BY <1>1 DEF AppendLine, AppendFails, KillMidWrite, GetsLock, Persisting
  <2>2. rec[p] \in Records
    BY <2>1, RecordInHand
  <2>3. PICK e \in {Whole(rec[p]), Unended(rec[p]), Cut(rec[p])} : Write(p, e)
    BY <1>1 DEF AppendLine, AppendFails, KillMidWrite
  <2>4. log' = log \/ log' = Put(log, e)
    BY <2>3 DEF Write
  <2> QED BY <2>2, <2>3, <2>4
<1>2. CASE Start(p)
  BY <1>2 DEF Start
<1>3. CASE Persist(p) \/ Measure(p) \/ Wait(p) \/ CountRead(p) \/ CountWrite(p)
           \/ CountFails(p)
  BY <1>3 DEF Persist, Measure, Wait, CountRead, CountWrite, CountFails, history
<1>4. CASE DrainerStep(p)
  BY <1>4, DrainerFrame
<1>5. CASE Kill(p) \/ OrphanEnds(p)
  BY <1>5 DEF Kill, OrphanEnds, history
<1> QED BY <1>1, <1>2, <1>3, <1>4, <1>5 DEF WriterStep, Ending

\* For every number of processes and records, the outbox with its cursor, marker,
\* repackings and crashes is the queue of LineQueue: a line is settled only when
\* it is the oldest or has been before, and left behind only once it has been.
THEOREM QueueImplemented == Spec => ImplementsQueue
<1>1. Init => Queue!Init
  BY DEF Init, Queue!Init, Behind
<1>2. IInv /\ [Next]_vars => [Queue!Next]_Queue!vars
  <2> SUFFICES ASSUME IInv, [Next]_vars
               PROVE  Queue!Next \/ UNCHANGED Queue!vars
    OBVIOUS
  <2>1. CASE UNCHANGED vars
    BY <2>1 DEF vars, files, history, Behind, Queue!vars
  <2>2. CASE Next
    <3>1. TypeOK /\ Windows /\ Cycles /\ Lines /\ Numbers
      BY DEF IInv
    <3>2. PICK p \in Procs : WriterStep(p) \/ DrainerStep(p) \/ Ending(p)
      BY <2>2, StepOf
    <3>3. Drains /\ (log' = log \/ (Behind' = Behind /\ settled' = settled))
      BY <3>1, <3>2, StepDrains
    <3>4. CASE log' = log
      <4>1. CASE Behind' = Behind /\ settled' = settled
        BY <3>4, <4>1 DEF Queue!vars
      <4>2. ASSUME Behind' = Behind, NEW k \in 1..Len(log), k <= Behind + 1,
                   log[k].ended, settled' = settled \cup log[k].recs
            PROVE  Queue!Next \/ UNCHANGED Queue!vars
        <5>1. log \in Seq(Entries) /\ Behind \in Nat
          BY <3>1, BehindBound DEF TypeOK
        <5>2. CASE k = Behind + 1
          BY <3>4, <4>2, <5>1, <5>2 DEF Queue!Next, Queue!Settle
        <5>3. CASE k # Behind + 1
          <6>1. log[k].recs \subseteq settled
            BY <3>1, <4>2, <5>1, <5>3 DEF Lines
          <6> QED BY <3>4, <4>2, <6>1 DEF Queue!vars
        <5> QED BY <5>2, <5>3
      <4>3. CASE /\ Behind' = Behind + 1 /\ Behind < Len(log)
                 /\ log[Behind + 1].ended
                 /\ log[Behind + 1].recs \subseteq settled
                 /\ settled' = settled
        BY <3>4, <4>3 DEF Queue!Next, Queue!Advance
      <4>4. CASE Behind' \in 0..Behind /\ settled' = settled
        BY <3>4, <4>4 DEF Queue!Next, Queue!Rewind
      <4> QED BY <3>3, <4>1, <4>2, <4>3, <4>4 DEF Drains
    <3>5. CASE Behind' = Behind /\ settled' = settled /\ log' = Terminated(log)
      <4>1. log' = Queue!Terminated(log)
        BY <3>5, SameFiles
      <4> QED BY <3>5, <4>1 DEF Queue!Next, Queue!End
    <3>6. CASE /\ Behind' = Behind /\ settled' = settled
               /\ \E r \in Records : \E e \in {Whole(r), Unended(r), Cut(r)} :
                     log' = Put(log, e)
      <4>1. PICK r \in Records : \E e \in {Whole(r), Unended(r), Cut(r)} :
                                    log' = Put(log, e)
        BY <3>6
      <4>2. \E e \in {Queue!Whole(r), Queue!Unended(r), Queue!Cut(r)} :
               log' = Queue!Put(log, e)
        BY <4>1, SameFiles
        DEF Whole, Unended, Cut, Queue!Whole, Queue!Unended, Queue!Cut
      <4>3. r \in Queue!Records
        BY <4>1 DEF Records, Queue!Records
      <4> QED BY <3>6, <4>2, <4>3 DEF Queue!Next, Queue!Arrive
    <3> QED BY <3>1, <3>2, <3>3, <3>4, <3>5, <3>6, StepLogs
  <2> QED BY <2>1, <2>2
<1> QED BY <1>1, <1>2, Invariance, PTL DEF Spec, ImplementsQueue, Queue!Spec
=============================================================================
