--------------------------- MODULE FleetWorkProofs ---------------------------
(***************************************************************************)
(* Safety of FleetWork for every number of jobs, nodes, profiles and seats *)
(* and every bound: one inductive invariant, through lemmas on what a step *)
(* of one job leaves alone of the others, and on how it moves the job in   *)
(* the seat book.                                                          *)
(***************************************************************************)
EXTENDS FleetWork, TLAPS, FiniteSetTheorems, WellFoundedInduction

-----------------------------------------------------------------------------
(* Frames. *)

\* A step of one job: of its thread, or around it.
Moves(j) == JobStep(j) \/ Around(j)

LEMMA StepOf ==
  ASSUME Next
  PROVE  Observe /\ (WorldChanges \/ \E j \in Jobs : Moves(j))
BY DEF Next, Moves

\* The types, in parts.
BookTyped ==
  /\ held \in [Keys -> SUBSET Claims]
  /\ waiting \subseteq Waiters
  /\ nextTicket \in Nat
PlacesTyped ==
  /\ pc \in [Jobs -> Places]
  /\ queued \in [Jobs -> BOOLEAN]
  /\ ticket \in [Jobs -> Nat] /\ arrival \in [Jobs -> Nat]
ChecksTyped ==
  /\ seat \in [Jobs -> Seats \cup {NoSeat}]
  /\ fingerprint \in [Jobs -> Tokens]
  /\ node \in [Jobs -> Nodes \cup {NoNode}]
  /\ admitted \in [Jobs -> Nodes \cup {NoNode}]
AnswersTyped ==
  /\ outcome \in [Jobs -> Answers] /\ told \in [Jobs -> Answers]
  /\ gone \in [Jobs -> BOOLEAN] /\ late \in [Jobs -> BOOLEAN]
  /\ ran \subseteq Jobs
WorldTyped ==
  /\ policy \in {"queue", "refuse"}
  /\ token \in Tokens
  /\ owner \in [Addresses -> Nodes \cup {NoNode}]
  /\ trusted \subseteq Nodes
  /\ configOK \in BOOLEAN
  /\ resolve \in [Profiles -> Seats \cup {NoSeat}]
  /\ changes \in 0..MaxChanges

LEMMA TypeParts ==
  /\ TypeOK <=> /\ BookTyped /\ PlacesTyped /\ ChecksTyped /\ AnswersTyped
                /\ WorldTyped /\ slots \in [Nodes -> Nat]
                /\ since \in [Jobs -> SUBSET Gates]
  /\ TypeOK' <=> /\ BookTyped' /\ PlacesTyped' /\ ChecksTyped' /\ AnswersTyped'
                 /\ WorldTyped' /\ slots' \in [Nodes -> Nat]
                 /\ since' \in [Jobs -> SUBSET Gates]
BY DEF TypeOK, BookTyped, PlacesTyped, ChecksTyped, AnswersTyped, WorldTyped

LEMMA ConstantsTyped ==
  /\ MaxJobs \in Nat /\ QueueCap \in Nat /\ MaxChanges \in Nat
  /\ NoNode \notin Nodes
  /\ Home \in [Addresses -> Nodes \ {Self}]
  /\ AddressOf \in [Jobs -> Addresses] /\ ProfileOf \in [Jobs -> Profiles]
  /\ SessionOf \in [Jobs -> Sessions]
  /\ LocalKeys \subseteq Keys /\ Widths \subseteq Nat
BY WorkAssumption, BookAssumption

LEMMA JobsFinite == IsFiniteSet(Jobs)
BY ConstantsTyped, FS_Interval DEF Jobs

\* A seat has a key and a width, which is not zero.
LEMMA SeatTyped ==
  ASSUME NEW s \in Seats
  PROVE  s.key \in Keys /\ s.width \in Nat /\ s # NoSeat
<1>1. s.key \in Keys /\ s.width \in Nat /\ s.width # 0
  <2>1. CASE s \in [key : LocalKeys, width : {1}]
    <3>1. s.key \in LocalKeys /\ s.width = 1
      BY <2>1
    <3> QED BY <3>1, BookAssumption
  <2>2. CASE s \in [key : Keys \ LocalKeys, width : Widths]
    <3>1. s.key \in Keys /\ s.width \in Widths
      BY <2>2
    <3> QED BY <3>1, BookAssumption
  <2> QED BY <2>1, <2>2 DEF Seats
<1>2. NoSeat.width = 0
  BY DEF NoSeat
<1> QED BY <1>1, <1>2

\* A step of one job leaves the places of the others, but for waking them, and
\* all else that is theirs.
Elsewhere(i) ==
  /\ pc'[i] = pc[i] \/ (pc[i] = "asleep" /\ pc'[i] = "turn")
  /\ queued'[i] = queued[i] /\ ticket'[i] = ticket[i] /\ arrival'[i] = arrival[i]
  /\ seat'[i] = seat[i] /\ fingerprint'[i] = fingerprint[i]
  /\ node'[i] = node[i] /\ admitted'[i] = admitted[i]
  /\ outcome'[i] = outcome[i] /\ told'[i] = told[i]
  /\ gone'[i] = gone[i] /\ late'[i] = late[i]
  /\ i \in ran' <=> i \in ran

LEMMA RefuseElsewhere ==
  ASSUME TypeOK, NEW j \in Jobs, Refuse(j), NEW i \in Jobs \ {j}
  PROVE  pc'[i] = pc[i] /\ outcome'[i] = outcome[i] /\ told'[i] = told[i]
BY DEF TypeOK, Refuse, Hears, Goto

LEMMA TurnElsewhere ==
  ASSUME TypeOK, NEW j \in Jobs, NEW t, NEW queue, NEW n, NEW announces \in BOOLEAN,
         Turn(j, t, queue, n, announces), NEW i \in Jobs \ {j}
  PROVE  /\ pc'[i] = pc[i] \/ (pc[i] = "asleep" /\ pc'[i] = "turn")
         /\ ticket'[i] = ticket[i] /\ told'[i] = told[i]
BY DEF TypeOK, Turn, Leave, Woken, Hears, Goto

LEMMA OthersFrame ==
  ASSUME TypeOK, NEW j \in Jobs, Moves(j), NEW i \in Jobs \ {j}
  PROVE  Elsewhere(i)
<1>1. /\ pc \in [Jobs -> Places] /\ queued \in [Jobs -> BOOLEAN]
      /\ ticket \in [Jobs -> Nat] /\ arrival \in [Jobs -> Nat]
      /\ seat \in [Jobs -> Seats \cup {NoSeat}] /\ fingerprint \in [Jobs -> Tokens]
      /\ node \in [Jobs -> Nodes \cup {NoNode}]
      /\ admitted \in [Jobs -> Nodes \cup {NoNode}]
      /\ outcome \in [Jobs -> Answers] /\ told \in [Jobs -> Answers]
      /\ gone \in [Jobs -> BOOLEAN] /\ late \in [Jobs -> BOOLEAN]
  BY DEF TypeOK
<1>2. CASE CheckToken(j) \/ Preflight(j)
  BY <1>1, <1>2, RefuseElsewhere
  DEF CheckToken, Preflight, Elsewhere, Goto, checks, telling, tracing
<1>3. CASE Identify(j) \/ Authorize(j)
  BY <1>1, <1>3, RefuseElsewhere DEF Identify, Authorize, Elsewhere, Goto, telling, tracing
<1>4. CASE Scope(j)
  BY <1>1, <1>4, RefuseElsewhere DEF Scope, Elsewhere, Goto, telling, tracing
<1>5. CASE TryClaim(j)
  BY <1>1, <1>5, RefuseElsewhere DEF TryClaim, Elsewhere, Goto, checks, telling
<1>6. CASE TakeSlot(j)
  BY <1>1, <1>6, RefuseElsewhere DEF TakeSlot, Elsewhere, Goto, checks, telling, tracing
<1>7. CASE Spawn(j)
  BY <1>1, <1>7 DEF Spawn, Elsewhere, Goto, Hears, checks, tracing
<1>8. CASE Enqueue(j)
  <2>1. Turn(j, nextTicket, waiting \cup {[ticket |-> nextTicket, key |-> seat[j].key]},
             nextTicket + 1, TRUE)
    BY <1>8 DEF Enqueue
  <2>2. /\ pc'[i] = pc[i] \/ (pc[i] = "asleep" /\ pc'[i] = "turn")
        /\ ticket'[i] = ticket[i] /\ told'[i] = told[i]
    BY <2>1, TurnElsewhere
  <2> QED BY <1>1, <1>8, <2>1, <2>2 DEF Enqueue, Turn, Elsewhere, checks
<1>9. CASE TakeTurn(j) \/ Heartbeat(j)
  <2>1. PICK b \in BOOLEAN : Turn(j, ticket[j], waiting, nextTicket, b)
    BY <1>9 DEF TakeTurn, Heartbeat
  <2>2. /\ pc'[i] = pc[i] \/ (pc[i] = "asleep" /\ pc'[i] = "turn")
        /\ ticket'[i] = ticket[i] /\ told'[i] = told[i]
    BY <2>1, TurnElsewhere
  <2> QED BY <1>9, <2>1, <2>2 DEF TakeTurn, Heartbeat, Turn, Elsewhere, checks
<1>10. CASE EndWait(j)
  BY <1>1, <1>10 DEF EndWait, Elsewhere, Goto, Woken, Hears, checks, tracing
<1>11. CASE Start(j)
  BY <1>1, <1>11 DEF Start, Elsewhere, Goto, checks
<1>12. CASE Finish(j) \/ FreeSeat(j)
  BY <1>1, <1>12 DEF Finish, FreeSeat, Elsewhere, Goto, checks, telling, tracing
<1>13. CASE Notify(j)
  BY <1>1, <1>13 DEF Notify, Elsewhere, Woken, Hears, checks, tracing
<1>14. CASE Send(j)
  BY <1>1, <1>14 DEF Send, Elsewhere, Goto, telling, tracing
<1>15. CASE HangUp(j) \/ Expire(j)
  BY <1>1, <1>15 DEF HangUp, Expire, Elsewhere, checks, telling, tracing
<1>16. CASE RefuseForWant(j)
  BY <1>1, <1>16, RefuseElsewhere DEF RefuseForWant, Elsewhere, checks, tracing
<1>17. CASE SpawnFails(j)
  BY <1>1, <1>17 DEF SpawnFails, Elsewhere, Goto, Hears, checks, tracing
<1> QED
  BY <1>2, <1>3, <1>4, <1>5, <1>6, <1>7, <1>8, <1>9, <1>10, <1>11, <1>12, <1>13,
     <1>14, <1>15, <1>16, <1>17
  DEF Moves, JobStep, Around

\* A job's step changes nothing that the gates read, and the world's nothing else.
LEMMA MovesFrame ==
  ASSUME NEW j \in Jobs, Moves(j)
  PROVE  /\ UNCHANGED <<policy, world>>
         /\ changes' = changes \/ Change
<1>1. CASE JobStep(j)
  BY <1>1 DEF JobStep, CheckToken, Identify, Authorize, Preflight, Scope, TryClaim,
     TakeSlot, Spawn, Enqueue, TakeTurn, Turn, EndWait, Start, Finish, FreeSeat, Notify
<1>2. CASE Around(j)
  BY <1>2 DEF Around, Send, Heartbeat, Turn, HangUp, Expire, RefuseForWant, SpawnFails
<1> QED BY <1>1, <1>2 DEF Moves

-----------------------------------------------------------------------------
(* Types. *)

LEMMA GotoTypes ==
  ASSUME TypeOK, NEW j \in Jobs, NEW there \in Places, Goto(j, there)
  PROVE  pc' \in [Jobs -> Places]
BY DEF TypeOK, Goto

LEMMA WokenTypes ==
  ASSUME NEW places \in [Jobs -> Places]
  PROVE  Woken(places) \in [Jobs -> Places]
<1>1. "turn" \in Places
  BY DEF Places, WaitPlaces
<1> QED BY <1>1 DEF Woken

LEMMA HearsTypes ==
  ASSUME TypeOK, NEW j \in Jobs, NEW a \in Answers, Hears(j, a)
  PROVE  told' \in [Jobs -> Answers]
<1>1. told \in [Jobs -> Answers]
  BY DEF TypeOK
<1> QED BY <1>1 DEF Hears

LEMMA RefuseTypes ==
  ASSUME TypeOK, NEW j \in Jobs, Refuse(j)
  PROVE  /\ pc' \in [Jobs -> Places]
         /\ outcome' \in [Jobs -> Answers] /\ told' \in [Jobs -> Answers]
<1>1. "refused" \in Answers /\ "free" \in Places /\ "done" \in Places
  BY DEF Answers, Places
<1>2. outcome \in [Jobs -> Answers] /\ told \in [Jobs -> Answers]
  BY DEF TypeOK
<1>3. CASE queued[j]
  BY <1>1, <1>2, <1>3, GotoTypes DEF Refuse
<1>4. CASE ~queued[j]
  BY <1>1, <1>2, <1>4, GotoTypes, HearsTypes DEF Refuse
<1> QED BY <1>3, <1>4

LEMMA ObserveTypes ==
  ASSUME TypeOK, Observe
  PROVE  since' \in [Jobs -> SUBSET Gates]
<1>1. \A j \in Jobs : since[j] \subseteq Gates
  BY DEF TypeOK
<1>2. \A j \in Jobs : Open(j)' \subseteq Gates
  BY DEF Open
<1> QED BY <1>1, <1>2 DEF Observe

\* The world's types.
LEMMA WorldTypes ==
  ASSUME TypeOK, WorldChanges
  PROVE  WorldTyped' /\ UNCHANGED <<book, jobVars>>
<1>1. WorldTyped
  BY TypeParts
<1>2. changes' \in 0..MaxChanges
  BY <1>1, ConstantsTyped DEF WorldChanges, Change, WorldTyped
<1>3. UNCHANGED <<book, jobVars, policy>>
  BY DEF WorldChanges
<1>4. CASE Rotate
  BY <1>1, <1>2, <1>3, <1>4 DEF Rotate, WorldTyped
<1>5. CASE Reassign
  BY <1>1, <1>2, <1>3, <1>5 DEF Reassign, WorldTyped
<1>6. CASE Trust
  BY <1>1, <1>2, <1>3, <1>6 DEF Trust, WorldTyped
<1>7. CASE Configure
  BY <1>1, <1>2, <1>3, <1>7 DEF Configure, WorldTyped
<1>8. CASE Redefine
  BY <1>1, <1>2, <1>3, <1>8 DEF Redefine, WorldTyped
<1> QED BY <1>3, <1>4, <1>5, <1>6, <1>7, <1>8 DEF WorldChanges

\* A claim that is entered has its type, and so has a waiter.
LEMMA TakeTypes ==
  ASSUME TypeOK, NEW j \in Jobs, NEW s \in Seats, NEW t \in Nat,
         Take(s, t, SessionOf[j])
  PROVE  held' \in [Keys -> SUBSET Claims]
<1>1. held \in [Keys -> SUBSET Claims] /\ SessionOf[j] \in Sessions
  BY ConstantsTyped DEF TypeOK
<1>2. Claim(t, SessionOf[j]) \in Claims
  BY <1>1 DEF Claim, Claims
<1> QED BY <1>1, <1>2 DEF Take

LEMMA TurnTypes ==
  ASSUME TypeOK, NEW j \in Jobs, seat[j] \in Seats,
         NEW t \in Nat, NEW queue \in SUBSET Waiters, NEW n \in Nat,
         NEW announces \in BOOLEAN, Turn(j, t, queue, n, announces)
  PROVE  /\ BookTyped'
         /\ pc' \in [Jobs -> Places] /\ ticket' \in [Jobs -> Nat]
         /\ told' \in [Jobs -> Answers]
<1>1. /\ held \in [Keys -> SUBSET Claims] /\ pc \in [Jobs -> Places]
      /\ ticket \in [Jobs -> Nat] /\ told \in [Jobs -> Answers]
  BY DEF TypeOK
<1>2. "cancelled" \in Places /\ "expired" \in Places /\ "seated" \in Places
      /\ "turn" \in Places /\ "asleep" \in Places /\ "queued" \in Answers
  BY DEF Places, WaitPlaces, Answers
<1>3. Without(queue, t) \in SUBSET Waiters
  BY DEF Without
<1>4. \A there \in Places : Leave(j, t, queue, there) =>
        waiting' \in SUBSET Waiters /\ pc' \in [Jobs -> Places]
  <2> SUFFICES ASSUME NEW there \in Places, Leave(j, t, queue, there)
               PROVE  waiting' \in SUBSET Waiters /\ pc' \in [Jobs -> Places]
    OBVIOUS
  <2>1. [pc EXCEPT ![j] = there] \in [Jobs -> Places]
    BY <1>1
  <2>2. pc' \in [Jobs -> Places]
    BY <2>1, WokenTypes DEF Leave
  <2> QED BY <1>3, <2>2 DEF Leave
<1>5. CASE /\ Leave(j, t, queue, "cancelled") \/ Leave(j, t, queue, "expired")
           /\ nextTicket' = n
           /\ ticket' = [ticket EXCEPT ![j] = t]
           /\ UNCHANGED <<held, told>>
  <2>1. waiting' \in SUBSET Waiters /\ pc' \in [Jobs -> Places]
    BY <1>2, <1>4, <1>5
  <2> QED BY <1>1, <1>5, <2>1 DEF BookTyped
<1>6. CASE /\ waiting' = Without(queue, t)
           /\ Take(seat[j], n, SessionOf[j])
           /\ nextTicket' = n + 1
           /\ ticket' = [ticket EXCEPT ![j] = n]
           /\ Goto(j, "seated")
           /\ UNCHANGED told
  BY <1>1, <1>2, <1>3, <1>6, TakeTypes, GotoTypes DEF BookTyped
<1>7. CASE /\ waiting' = queue
           /\ nextTicket' = n
           /\ ticket' = [ticket EXCEPT ![j] = t]
           /\ Goto(j, IF announces THEN "turn" ELSE "asleep")
           /\ IF announces /\ j \in Waited THEN Hears(j, "queued")
              ELSE UNCHANGED told
           /\ UNCHANGED held
  <2>1. pc' \in [Jobs -> Places]
    BY <1>2, <1>7, GotoTypes
  <2>2. told' \in [Jobs -> Answers]
    BY <1>1, <1>2, <1>7, HearsTypes
  <2> QED BY <1>1, <1>7, <2>1, <2>2 DEF BookTyped
<1> QED BY <1>5, <1>6, <1>7 DEF Turn

LEMMA PlaceNames ==
  /\ \A x \in {"token", "identify", "authorize", "preflight", "scope", "turn", "asleep",
               "unsent", "claim", "slot", "spawn", "enqueue", "seated", "cancelled",
               "expired", "start", "run", "free", "notify", "done"} : x \in Places
  /\ \A x \in {"nothing", "accepted", "queued", "refused", "failed", "completed"} :
       x \in Answers
BY DEF Places, GatePlaces, WaitPlaces, Answers

\* The types of what a job's step changes, but for the queue slots.
LEMMA MovesTypes ==
  ASSUME TypeOK, Stages, NEW j \in Jobs, Moves(j)
  PROVE  BookTyped' /\ PlacesTyped' /\ ChecksTyped' /\ AnswersTyped'
<1>1. BookTyped /\ PlacesTyped /\ ChecksTyped /\ AnswersTyped /\ WorldTyped
  BY TypeParts
<1>2. /\ pc \in [Jobs -> Places] /\ queued \in [Jobs -> BOOLEAN]
      /\ ticket \in [Jobs -> Nat] /\ arrival \in [Jobs -> Nat]
      /\ outcome \in [Jobs -> Answers] /\ told \in [Jobs -> Answers]
      /\ nextTicket \in Nat
  BY <1>1 DEF BookTyped, PlacesTyped, AnswersTyped
<1>3. CASE CheckToken(j) \/ Preflight(j)
  <2>1. /\ pc' \in [Jobs -> Places]
        /\ outcome' \in [Jobs -> Answers] /\ told' \in [Jobs -> Answers]
    BY <1>2, <1>3, PlaceNames, GotoTypes, RefuseTypes DEF CheckToken, Preflight, telling
  <2> QED BY <1>1, <1>3, <2>1
  DEF CheckToken, Preflight, book, checks, tracing, BookTyped, PlacesTyped, ChecksTyped,
      AnswersTyped
<1>4. CASE Identify(j)
  <2>1. /\ pc' \in [Jobs -> Places]
        /\ outcome' \in [Jobs -> Answers] /\ told' \in [Jobs -> Answers]
    BY <1>2, <1>4, PlaceNames, GotoTypes, RefuseTypes DEF Identify, telling
  <2>2. node' \in [Jobs -> Nodes \cup {NoNode}]
    BY <1>1, <1>4 DEF Identify, ChecksTyped
  <2> QED BY <1>1, <1>4, <2>1, <2>2
  DEF Identify, book, tracing, BookTyped, PlacesTyped, ChecksTyped, AnswersTyped
<1>5. CASE Authorize(j)
  <2>1. /\ pc' \in [Jobs -> Places]
        /\ outcome' \in [Jobs -> Answers] /\ told' \in [Jobs -> Answers]
    BY <1>2, <1>5, PlaceNames, GotoTypes, RefuseTypes DEF Authorize, telling
  <2>2. admitted' \in [Jobs -> Nodes \cup {NoNode}]
    BY <1>1, <1>5 DEF Authorize, ChecksTyped
  <2> QED BY <1>1, <1>5, <2>1, <2>2
  DEF Authorize, book, tracing, BookTyped, PlacesTyped, ChecksTyped, AnswersTyped
<1>6. CASE Scope(j)
  <2>1. /\ pc' \in [Jobs -> Places]
        /\ outcome' \in [Jobs -> Answers] /\ told' \in [Jobs -> Answers]
    BY <1>2, <1>6, PlaceNames, GotoTypes, RefuseTypes DEF Scope, telling
  <2>2. resolve[ProfileOf[j]] \in Seats \cup {NoSeat}
    BY <1>1, ConstantsTyped DEF WorldTyped
  <2>3. seat' \in [Jobs -> Seats \cup {NoSeat}]
    BY <1>1, <1>6, <2>2 DEF Scope, ChecksTyped
  <2> QED BY <1>1, <1>6, <2>1, <2>3
  DEF Scope, book, tracing, BookTyped, PlacesTyped, ChecksTyped, AnswersTyped
<1>7. CASE TryClaim(j)
  <2>1. /\ pc' \in [Jobs -> Places]
        /\ outcome' \in [Jobs -> Answers] /\ told' \in [Jobs -> Answers]
    BY <1>2, <1>7, PlaceNames, GotoTypes, RefuseTypes DEF TryClaim, telling
  <2>2. seat[j] \in Seats
    BY <1>7 DEF TryClaim, Stages
  <2>3. held' \in [Keys -> SUBSET Claims]
    BY <1>1, <1>2, <1>7, <2>2, TakeTypes DEF TryClaim, BookTyped
  <2>4. nextTicket' \in Nat /\ ticket' \in [Jobs -> Nat] /\ arrival' \in [Jobs -> Nat]
    BY <1>2, <1>7 DEF TryClaim
  <2> QED BY <1>1, <1>7, <2>1, <2>3, <2>4
  DEF TryClaim, checks, BookTyped, PlacesTyped, ChecksTyped, AnswersTyped
<1>8. CASE TakeSlot(j)
  <2>1. /\ pc' \in [Jobs -> Places]
        /\ outcome' \in [Jobs -> Answers] /\ told' \in [Jobs -> Answers]
    BY <1>2, <1>8, PlaceNames, GotoTypes, RefuseTypes DEF TakeSlot, telling
  <2>2. queued' \in [Jobs -> BOOLEAN]
    BY <1>2, <1>8 DEF TakeSlot
  <2> QED BY <1>1, <1>8, <2>1, <2>2
  DEF TakeSlot, book, checks, tracing, BookTyped, PlacesTyped, ChecksTyped, AnswersTyped
<1>9. CASE Spawn(j)
  <2>1. pc' \in [Jobs -> Places] /\ told' \in [Jobs -> Answers]
    BY <1>2, <1>9, PlaceNames, GotoTypes, HearsTypes DEF Spawn
  <2> QED BY <1>1, <1>9, <2>1
  DEF Spawn, book, checks, tracing, BookTyped, PlacesTyped, ChecksTyped, AnswersTyped
<1>10. CASE Enqueue(j)
  <2>1. seat[j] \in Seats
    BY <1>10 DEF Enqueue, Stages
  <2>2. waiting \cup {[ticket |-> nextTicket, key |-> seat[j].key]} \in SUBSET Waiters
    BY <1>1, <1>2, <2>1, SeatTyped DEF BookTyped, Waiters
  <2> DEFINE queue == waiting \cup {[ticket |-> nextTicket, key |-> seat[j].key]}
  <2>3. Turn(j, nextTicket, queue, nextTicket + 1, TRUE)
    BY <1>10 DEF Enqueue
  <2>6. nextTicket + 1 \in Nat
    BY <1>2
  <2> HIDE DEF queue
  <2>4. /\ BookTyped'
        /\ pc' \in [Jobs -> Places] /\ ticket' \in [Jobs -> Nat]
        /\ told' \in [Jobs -> Answers]
    BY <1>2, <2>1, <2>2, <2>3, <2>6, TurnTypes DEF queue
  <2>5. arrival' \in [Jobs -> Nat]
    BY <1>2, <1>10 DEF Enqueue
  <2> QED BY <1>1, <2>3, <2>4, <2>5 DEF Turn, checks, PlacesTyped, ChecksTyped, AnswersTyped
<1>11. CASE TakeTurn(j) \/ Heartbeat(j)
  <2>1. seat[j] \in Seats
    BY <1>11 DEF TakeTurn, Heartbeat, Stages, Waits, WaitPlaces
  <2>2. PICK b \in BOOLEAN : Turn(j, ticket[j], waiting, nextTicket, b)
    BY <1>11 DEF TakeTurn, Heartbeat
  <2>3. ticket[j] \in Nat /\ waiting \in SUBSET Waiters
    BY <1>1, <1>2 DEF BookTyped
  <2>4. /\ BookTyped'
        /\ pc' \in [Jobs -> Places] /\ ticket' \in [Jobs -> Nat]
        /\ told' \in [Jobs -> Answers]
    BY <1>2, <2>1, <2>2, <2>3, TurnTypes
  <2>5. arrival' = arrival
    BY <1>11 DEF TakeTurn, Heartbeat
  <2> QED BY <1>1, <2>2, <2>4, <2>5 DEF Turn, checks, PlacesTyped, ChecksTyped, AnswersTyped
<1>12. CASE EndWait(j)
  <2>1. [pc EXCEPT ![j] = "token"] \in [Jobs -> Places]
    BY <1>2, PlaceNames
  <2>2. pc' \in [Jobs -> Places]
    BY <1>12, <2>1, PlaceNames, GotoTypes, WokenTypes DEF EndWait
  <2>3. told' \in [Jobs -> Answers]
    BY <1>2, <1>12, PlaceNames, HearsTypes DEF EndWait
  <2> QED BY <1>1, <1>12, <2>2, <2>3
  DEF EndWait, book, checks, tracing, BookTyped, PlacesTyped, ChecksTyped, AnswersTyped
<1>13. CASE Start(j)
  <2>1. pc' \in [Jobs -> Places] /\ outcome' \in [Jobs -> Answers]
    BY <1>2, <1>13, PlaceNames, GotoTypes DEF Start
  <2>2. ran' \subseteq Jobs
    BY <1>1, <1>13 DEF Start, AnswersTyped
  <2> QED BY <1>1, <1>13, <2>1, <2>2
  DEF Start, book, checks, BookTyped, PlacesTyped, ChecksTyped, AnswersTyped
<1>14. CASE Finish(j)
  <2>1. pc' \in [Jobs -> Places] /\ outcome' \in [Jobs -> Answers]
    BY <1>2, <1>14, PlaceNames, GotoTypes DEF Finish
  <2> QED BY <1>1, <1>14, <2>1
  DEF Finish, book, checks, tracing, BookTyped, PlacesTyped, ChecksTyped, AnswersTyped
<1>15. CASE FreeSeat(j)
  <2>1. pc' \in [Jobs -> Places]
    BY <1>15, PlaceNames, GotoTypes DEF FreeSeat
  <2>2. held' \in [Keys -> SUBSET Claims]
    BY <1>1, <1>15 DEF FreeSeat, Free, BookTyped
  <2> QED BY <1>1, <1>15, <2>1, <2>2
  DEF FreeSeat, checks, telling, tracing, BookTyped, PlacesTyped, ChecksTyped, AnswersTyped
<1>16. CASE Notify(j)
  <2>1. [pc EXCEPT ![j] = "done"] \in [Jobs -> Places]
    BY <1>2, PlaceNames
  <2>2. pc' \in [Jobs -> Places]
    BY <1>16, <2>1, WokenTypes DEF Notify
  <2>3. told' \in [Jobs -> Answers]
    BY <1>2, <1>16, HearsTypes DEF Notify
  <2>4. outcome' \in [Jobs -> Answers]
    BY <1>2, <1>16, PlaceNames DEF Notify
  <2> QED BY <1>1, <1>16, <2>2, <2>3, <2>4
  DEF Notify, book, checks, tracing, BookTyped, PlacesTyped, ChecksTyped, AnswersTyped
<1>17. CASE Send(j)
  <2>1. pc' \in [Jobs -> Places]
    BY <1>17, PlaceNames, GotoTypes DEF Send
  <2>2. fingerprint' \in [Jobs -> Tokens]
    BY <1>1, <1>17 DEF Send, ChecksTyped
  <2> QED BY <1>1, <1>17, <2>1, <2>2
  DEF Send, book, telling, tracing, BookTyped, PlacesTyped, ChecksTyped, AnswersTyped
<1>18. CASE HangUp(j) \/ Expire(j)
  <2>1. gone' \in [Jobs -> BOOLEAN] /\ late' \in [Jobs -> BOOLEAN]
    BY <1>1, <1>18 DEF HangUp, Expire, AnswersTyped
  <2> QED BY <1>1, <1>18, <2>1
  DEF HangUp, Expire, book, checks, telling, tracing, BookTyped, PlacesTyped,
      ChecksTyped, AnswersTyped
<1>19. CASE RefuseForWant(j)
  <2>1. /\ pc' \in [Jobs -> Places]
        /\ outcome' \in [Jobs -> Answers] /\ told' \in [Jobs -> Answers]
    BY <1>19, RefuseTypes DEF RefuseForWant
  <2> QED BY <1>1, <1>19, <2>1
  DEF RefuseForWant, book, checks, tracing, BookTyped, PlacesTyped, ChecksTyped,
      AnswersTyped
<1>20. CASE SpawnFails(j)
  <2>1. pc' \in [Jobs -> Places]
    BY <1>20, PlaceNames, GotoTypes DEF SpawnFails
  <2>2. told' \in [Jobs -> Answers] /\ outcome' \in [Jobs -> Answers]
    BY <1>2, <1>20, PlaceNames, HearsTypes DEF SpawnFails
  <2> QED BY <1>1, <1>20, <2>1, <2>2
  DEF SpawnFails, book, checks, tracing, BookTyped, PlacesTyped, ChecksTyped, AnswersTyped
<1> QED
  BY <1>3, <1>4, <1>5, <1>6, <1>7, <1>8, <1>9, <1>10, <1>11, <1>12, <1>13, <1>14,
     <1>15, <1>16, <1>17, <1>18, <1>19, <1>20
  DEF Moves, JobStep, Around

-----------------------------------------------------------------------------
(* Places. *)

\* What is known of one job.
Stage(j) ==
  /\ pc[j] \in WaitPlaces \cup {"enqueue", "seated", "cancelled", "expired"} =>
       queued[j]
  /\ pc[j] \in {"unsent", "claim", "slot"} => ~queued[j]
  /\ Owns(j) \/ Waits(j) \/ pc[j] \in {"claim", "slot", "spawn", "enqueue"} =>
       seat[j] \in Seats
  /\ HasSlot(j) \/ pc[j] \in {"claim", "slot"} => admitted[j] \in Nodes
  /\ pc[j] \in {"preflight", "scope"} => admitted[j] \in Nodes

LEMMA StageOfAll ==
  /\ Stages <=> \A j \in Jobs : Stage(j)
  /\ Stages' <=> \A j \in Jobs : Stage(j)'
BY DEF Stages, Stage

\* A job that only was woken is where it was, but for its sleep.
LEMMA ElsewhereStays ==
  ASSUME NEW i \in Jobs, Elsewhere(i)
  PROVE  /\ Owns(i)' <=> Owns(i)
         /\ Waits(i)' <=> Waits(i)
         /\ HasSlot(i)' <=> HasSlot(i)
         /\ Counted(i)' <=> Counted(i)
         /\ Stage(i) => Stage(i)'
         /\ \A x \in Places \ {"asleep", "turn"} : pc'[i] = x <=> pc[i] = x
<1>1. CASE pc'[i] = pc[i]
  BY <1>1 DEF Elsewhere, Owns, Waits, HasSlot, Counted, Stage
<1>2. CASE pc[i] = "asleep" /\ pc'[i] = "turn"
  BY <1>2 DEF Elsewhere, Owns, Waits, HasSlot, Counted, Stage, GatePlaces, WaitPlaces
<1> QED BY <1>1, <1>2 DEF Elsewhere

\* Where a refused job goes.
LEMMA RefuseMoves ==
  ASSUME TypeOK, NEW j \in Jobs, Refuse(j)
  PROVE  /\ queued[j] => pc'[j] = "free"
         /\ ~queued[j] => pc'[j] = "done"
BY DEF TypeOK, Refuse, Goto

LEMMA TurnMoves ==
  ASSUME TypeOK, NEW j \in Jobs, NEW t, NEW queue, NEW n, NEW announces \in BOOLEAN,
         Turn(j, t, queue, n, announces)
  PROVE  /\ pc'[j] \in {"cancelled", "expired", "seated", "turn", "asleep"}
         /\ queued' = queued /\ seat' = seat /\ admitted' = admitted
BY DEF TypeOK, Turn, Leave, Woken, Goto, checks

LEMMA StageKept ==
  ASSUME TypeOK, NEW j \in Jobs, Stage(j), Moves(j)
  PROVE  Stage(j)'
<1>1. /\ pc \in [Jobs -> Places] /\ queued \in [Jobs -> BOOLEAN]
      /\ seat \in [Jobs -> Seats \cup {NoSeat}]
      /\ admitted \in [Jobs -> Nodes \cup {NoNode}]
      /\ node \in [Jobs -> Nodes \cup {NoNode}]
      /\ resolve \in [Profiles -> Seats \cup {NoSeat}] /\ trusted \subseteq Nodes
  BY DEF TypeOK
<1>2. CASE CheckToken(j)
  <2>1. /\ pc[j] = "token" /\ UNCHANGED <<queued, seat, admitted>>
        /\ pc'[j] = "identify" \/ Refuse(j)
    BY <1>1, <1>2 DEF CheckToken, Goto, checks
  <2> QED BY <2>1, RefuseMoves DEF Stage, Owns, Waits, HasSlot, GatePlaces, WaitPlaces
<1>3. CASE Identify(j)
  <2>1. /\ pc[j] = "identify" /\ UNCHANGED <<queued, seat, admitted>>
        /\ pc'[j] = "authorize" \/ Refuse(j)
    BY <1>1, <1>3 DEF Identify, Goto
  <2> QED BY <2>1, RefuseMoves DEF Stage, Owns, Waits, HasSlot, GatePlaces, WaitPlaces
<1>4. CASE Authorize(j)
  <2>1. /\ pc[j] = "authorize" /\ UNCHANGED <<queued, seat>>
        /\ \/ pc'[j] = "preflight" /\ admitted'[j] \in Nodes
           \/ Refuse(j) /\ admitted' = admitted
    BY <1>1, <1>4 DEF Authorize, Goto
  <2> QED BY <2>1, RefuseMoves DEF Stage, Owns, Waits, HasSlot, GatePlaces, WaitPlaces
<1>5. CASE Preflight(j)
  <2>1. /\ pc[j] = "preflight" /\ UNCHANGED <<queued, seat, admitted>>
        /\ pc'[j] = "scope" \/ Refuse(j)
    BY <1>1, <1>5 DEF Preflight, Goto, checks
  <2> QED BY <2>1, RefuseMoves DEF Stage, Owns, Waits, HasSlot, GatePlaces, WaitPlaces
<1>6. CASE Scope(j)
  <2>1. resolve[ProfileOf[j]] \in Seats \cup {NoSeat}
    BY <1>1, ConstantsTyped
  <2>2. /\ pc[j] = "scope" /\ UNCHANGED <<queued, admitted>>
        /\ \/ /\ seat'[j] \in Seats
              /\ pc'[j] = (IF queued[j] THEN "start" ELSE "claim")
           \/ Refuse(j) /\ seat' = seat
    BY <1>1, <1>6, <2>1 DEF Scope, Goto
  <2> QED BY <2>2, RefuseMoves DEF Stage, Owns, Waits, HasSlot, GatePlaces, WaitPlaces
<1>7. CASE TryClaim(j)
  <2>1. /\ pc[j] = "claim" /\ UNCHANGED <<queued, seat, admitted>>
        /\ pc'[j] = "spawn" \/ pc'[j] = "slot" \/ Refuse(j)
    BY <1>1, <1>7 DEF TryClaim, Goto, checks
  <2> QED BY <2>1, RefuseMoves DEF Stage, Owns, Waits, HasSlot, GatePlaces, WaitPlaces
<1>8. CASE TakeSlot(j)
  <2>1. /\ pc[j] = "slot" /\ UNCHANGED <<seat, admitted>>
        /\ \/ pc'[j] = "spawn" /\ queued'[j]
           \/ Refuse(j) /\ queued' = queued
    BY <1>1, <1>8 DEF TakeSlot, Goto, checks
  <2> QED BY <2>1, RefuseMoves DEF Stage, Owns, Waits, HasSlot, GatePlaces, WaitPlaces
<1>9. CASE Spawn(j)
  <2>1. /\ pc[j] = "spawn" /\ UNCHANGED <<queued, seat, admitted>>
        /\ pc'[j] = IF queued[j] THEN "enqueue" ELSE "start"
    BY <1>1, <1>9 DEF Spawn, Goto, checks
  <2> QED BY <2>1 DEF Stage, Owns, Waits, HasSlot, GatePlaces, WaitPlaces
<1>10. CASE Enqueue(j) \/ TakeTurn(j) \/ Heartbeat(j)
  <2>1. /\ pc[j] \in {"enqueue", "turn", "asleep"}
        /\ pc'[j] \in {"cancelled", "expired", "seated", "turn", "asleep"}
        /\ UNCHANGED <<queued, seat, admitted>>
    BY <1>10, TurnMoves DEF Enqueue, TakeTurn, Heartbeat
  <2> QED BY <2>1 DEF Stage, Owns, Waits, HasSlot, GatePlaces, WaitPlaces
<1>11. CASE EndWait(j)
  <2>1. /\ pc[j] \in {"seated", "cancelled", "expired"}
        /\ UNCHANGED <<queued, seat, admitted>>
        /\ pc'[j] = IF pc[j] = "seated" THEN "token" ELSE "done"
    BY <1>1, <1>11 DEF EndWait, Goto, Woken, checks
  <2> QED BY <2>1 DEF Stage, Owns, Waits, HasSlot, GatePlaces, WaitPlaces
<1>12. CASE Start(j) \/ Finish(j) \/ FreeSeat(j) \/ Notify(j)
  <2>1. /\ pc[j] \in {"start", "run", "free", "notify"}
        /\ UNCHANGED <<queued, seat, admitted>>
        /\ pc'[j] \in {"run", "free", "notify", "done"}
        /\ Owns(j)' => Owns(j)
    BY <1>1, <1>12 DEF Start, Finish, FreeSeat, Notify, Goto, Woken, checks, Owns, GatePlaces
  <2> QED BY <2>1 DEF Stage, Owns, Waits, HasSlot, GatePlaces, WaitPlaces
<1>13. CASE Send(j)
  <2>1. /\ pc[j] = "unsent" /\ UNCHANGED <<queued, seat, admitted>>
        /\ pc'[j] = "token"
    BY <1>1, <1>13 DEF Send, Goto
  <2> QED BY <2>1 DEF Stage, Owns, Waits, HasSlot, GatePlaces, WaitPlaces
<1>14. CASE HangUp(j) \/ Expire(j)
  BY <1>14 DEF HangUp, Expire, checks, Stage, Owns, Waits, HasSlot
<1>15. CASE RefuseForWant(j)
  <2>1. /\ pc[j] \in {"authorize", "slot"} /\ UNCHANGED <<queued, seat, admitted>>
        /\ Refuse(j) /\ (pc[j] = "authorize" => ~queued[j])
    BY <1>15 DEF RefuseForWant, checks
  <2> QED BY <2>1, RefuseMoves DEF Stage, Owns, Waits, HasSlot, GatePlaces, WaitPlaces
<1>16. CASE SpawnFails(j)
  <2>1. /\ pc[j] = "spawn" /\ UNCHANGED <<queued, seat, admitted>>
        /\ pc'[j] = IF queued[j] THEN "done" ELSE "free"
    BY <1>1, <1>16 DEF SpawnFails, Goto, checks
  <2> QED BY <2>1 DEF Stage, Owns, Waits, HasSlot, GatePlaces, WaitPlaces
<1> QED
  BY <1>2, <1>3, <1>4, <1>5, <1>6, <1>7, <1>8, <1>9, <1>10, <1>11, <1>12, <1>13,
     <1>14, <1>15, <1>16
  DEF Moves, JobStep, Around

-----------------------------------------------------------------------------
(* The seat book. *)

\* How a step of job j moves it in the book: not at all, ...
Rests(j) ==
  /\ UNCHANGED book
  /\ Owns(j)' <=> Owns(j)
  /\ Waits(j)' <=> Waits(j)
  /\ Owns(j) \/ Waits(j) =>
       seat'[j] = seat[j] /\ ticket'[j] = ticket[j] /\ arrival'[j] = arrival[j]

\* ... to a seat, ...
Others(queue, j) == {e \in queue : Waits(j) => e.ticket # ticket[j]}
Sits(j) ==
  /\ ~Owns(j) /\ Owns(j)' /\ ~Waits(j)'
  /\ seat[j] \in Seats /\ seat'[j] = seat[j]
  /\ ticket'[j] \in Nat /\ nextTicket <= ticket'[j] /\ ticket'[j] < nextTicket'
  /\ arrival'[j] <= ticket'[j]
  /\ ~Occupied(seat[j]) /\ Take(seat[j], ticket'[j], SessionOf[j])
  /\ waiting' = Others(waiting, j)
  /\ \A i \in Jobs \ {j} :
       Waits(i) /\ seat[i].key = seat[j].key => arrival'[j] < arrival[i]

\* ... to a place in the queue, ...
Queues(j) ==
  /\ ~Owns(j) /\ ~Waits(j) /\ ~Owns(j)' /\ Waits(j)'
  /\ seat[j] \in Seats /\ seat'[j] = seat[j]
  /\ ticket'[j] = nextTicket /\ arrival'[j] = nextTicket
  /\ nextTicket' = nextTicket + 1 /\ held' = held
  /\ waiting' = waiting \cup {[ticket |-> nextTicket, key |-> seat[j].key]}

\* ... out of the queue, ...
Leaves(j) ==
  /\ ~Owns(j) /\ ~Owns(j)' /\ ~Waits(j)'
  /\ held' = held /\ nextTicket <= nextTicket'
  /\ waiting' = Others(waiting, j)

\* ... or off its seat.
Frees(j) ==
  /\ Owns(j) /\ ~Owns(j)' /\ ~Waits(j)'
  /\ Free(seat[j], ticket[j]) /\ UNCHANGED <<waiting, nextTicket>>

\* A job that owns a seat does not wait for it.
LEMMA OneRole ==
  ASSUME NEW j \in Jobs
  PROVE  ~(Owns(j) /\ Waits(j)) /\ ~(Owns(j)' /\ Waits(j)')
BY DEF Owns, Waits, GatePlaces, WaitPlaces

\* A turn in the loop, of a job that waits or that is just about to.
LEMMA TurnBook ==
  ASSUME TypeOK, QueueIsOfWaiters, Tickets, NEW j \in Jobs, seat[j] \in Seats,
         NEW t \in Nat, NEW n \in Nat, NEW queue \in SUBSET Waiters,
         NEW announces \in BOOLEAN, Turn(j, t, queue, n, announces),
         ~Owns(j), t < n, nextTicket <= n,
         \/ /\ Waits(j) /\ arrival' = arrival /\ t = ticket[j]
            /\ queue = waiting /\ n = nextTicket
         \/ /\ ~Waits(j) /\ arrival' = [arrival EXCEPT ![j] = t] /\ t = nextTicket
            /\ queue = waiting \cup {[ticket |-> t, key |-> seat[j].key]}
            /\ n = nextTicket + 1
  PROVE  Rests(j) \/ Sits(j) \/ Queues(j) \/ Leaves(j)
<1>1. /\ pc \in [Jobs -> Places] /\ ticket \in [Jobs -> Nat]
      /\ arrival \in [Jobs -> Nat] /\ nextTicket \in Nat
  BY DEF TypeOK
<1>2. seat' = seat
  BY DEF Turn, checks
<1>3. \A e \in waiting : \E i \in Jobs :
        Waits(i) /\ e.ticket = ticket[i] /\ e.key = seat[i].key
  BY DEF QueueIsOfWaiters
<1>4. \A i \in Jobs : Waits(i) =>
        /\ \E e \in waiting : e.ticket = ticket[i] /\ e.key = seat[i].key
        /\ ticket[i] < nextTicket /\ arrival[i] = ticket[i]
  <2>1. \A i \in Jobs : Waits(i) =>
          [ticket |-> ticket[i], key |-> seat[i].key] \in waiting
    BY DEF QueueIsOfWaiters
  <2>2. \A i \in Jobs : Waits(i) => ticket[i] < nextTicket /\ arrival[i] = ticket[i]
    BY DEF Tickets
  <2> QED BY <2>1, <2>2
<1>5. Without(queue, t) = Others(waiting, j)
  <2>1. CASE Waits(j)
    BY <2>1 DEF Without, Others
  <2>2. CASE ~Waits(j)
    <3>1. \A e \in waiting : e.ticket # t
      <4> SUFFICES ASSUME NEW e \in waiting
                   PROVE  e.ticket # t
        OBVIOUS
      <4>1. PICK i \in Jobs : Waits(i) /\ e.ticket = ticket[i]
        BY <1>3
      <4>2. ticket[i] \in Nat /\ ticket[i] < nextTicket
        BY <1>1, <1>4, <4>1
      <4> QED BY <1>1, <2>2, <4>1, <4>2
    <3> QED BY <2>2, <3>1 DEF Without, Others
  <2> QED BY <2>1, <2>2
<1>6. ASSUME pc'[j] \in {"cancelled", "expired", "seated"}
      PROVE  ~Waits(j)' /\ (Owns(j)' <=> pc'[j] = "seated")
  BY <1>6 DEF Owns, Waits, GatePlaces, WaitPlaces
<1>7. CASE /\ Leave(j, t, queue, "cancelled") \/ Leave(j, t, queue, "expired")
           /\ nextTicket' = n
           /\ held' = held
  <2>1. pc'[j] \in {"cancelled", "expired"}
    BY <1>1, <1>7 DEF Leave, Woken
  <2>2. waiting' = Others(waiting, j)
    BY <1>5, <1>7 DEF Leave
  <2> QED BY <1>6, <1>7, <2>1, <2>2 DEF Leaves
<1>8. CASE /\ First(queue, seat[j].key, t) /\ ~Occupied(seat[j])
           /\ waiting' = Without(queue, t)
           /\ Take(seat[j], n, SessionOf[j])
           /\ nextTicket' = n + 1
           /\ ticket' = [ticket EXCEPT ![j] = n]
           /\ Goto(j, "seated")
  <2>1. pc'[j] = "seated" /\ ticket'[j] = n
    BY <1>1, <1>8 DEF Goto
  <2>2. arrival'[j] = t
    BY <1>1, <1>4 DEF Tickets
  <2>3. ASSUME NEW i \in Jobs \ {j}, Waits(i), seat[i].key = seat[j].key
        PROVE  t < arrival[i]
    <3>1. PICK e \in waiting : e.ticket = ticket[i] /\ e.key = seat[i].key
      BY <1>4, <2>3
    <3>2. e \in queue
      BY <3>1
    <3>3. t <= ticket[i]
      BY <1>8, <2>3, <3>1, <3>2 DEF First
    <3>4. ticket[i] # t
      <4>1. CASE Waits(j)
        BY <2>3, <4>1 DEF Tickets
      <4>2. CASE ~Waits(j)
        BY <1>1, <1>4, <2>3, <4>2
      <4> QED BY <4>1, <4>2
    <3>5. arrival[i] = ticket[i] /\ ticket[i] \in Nat
      BY <1>1, <1>4, <2>3
    <3> QED BY <3>3, <3>4, <3>5
  <2>4. \A i \in Jobs \ {j} :
          Waits(i) /\ seat[i].key = seat[j].key => arrival'[j] < arrival[i]
    BY <2>2, <2>3
  <2>5. Owns(j)' /\ ~Waits(j)'
    BY <1>6, <2>1
  <2>6. waiting' = Others(waiting, j)
    BY <1>5, <1>8
  <2>7. n < nextTicket' /\ t <= n
    BY <1>8
  <2> QED BY <1>2, <1>8, <2>1, <2>2, <2>4, <2>5, <2>6, <2>7 DEF Sits
<1>9. CASE /\ waiting' = queue
           /\ nextTicket' = n
           /\ ticket' = [ticket EXCEPT ![j] = t]
           /\ Goto(j, IF announces THEN "turn" ELSE "asleep")
           /\ held' = held
  <2>1. pc'[j] \in {"turn", "asleep"} /\ ticket'[j] = t
    BY <1>1, <1>9 DEF Goto
  <2>2. ~Owns(j)' /\ Waits(j)'
    BY <2>1 DEF Owns, Waits, GatePlaces, WaitPlaces
  <2>3. CASE Waits(j)
    BY <1>2, <1>9, <2>1, <2>2, <2>3 DEF Rests, book
  <2>4. CASE ~Waits(j)
    BY <1>1, <1>2, <1>9, <2>1, <2>2, <2>4 DEF Queues
  <2> QED BY <2>3, <2>4
<1> QED BY <1>7, <1>8, <1>9 DEF Turn

\* A step that leaves the book alone.
LEMMA RestsSuffice ==
  ASSUME NEW j \in Jobs, UNCHANGED <<book, ticket, arrival>>, ~Waits(j), ~Waits(j)',
         Owns(j) <=> Owns(j)', Owns(j) => seat'[j] = seat[j]
  PROVE  Rests(j)
BY DEF Rests

\* Refusing does not take a seat away: a job that has one goes to give it up.
LEMMA RefuseRests ==
  ASSUME TypeOK, NEW j \in Jobs, Refuse(j), UNCHANGED <<book, queued, seat, ticket, arrival>>,
         pc[j] \in GatePlaces \cup {"claim", "slot"},
         pc[j] \in {"claim", "slot"} => ~queued[j]
  PROVE  Rests(j)
<1>1. ~Waits(j) /\ ~Waits(j)'
  BY RefuseMoves DEF Waits, GatePlaces, WaitPlaces
<1>2. Owns(j) <=> Owns(j)'
  BY RefuseMoves DEF Owns, GatePlaces
<1> QED BY <1>1, <1>2, RestsSuffice

LEMMA BookMoves ==
  ASSUME TypeOK, QueueIsOfWaiters, Tickets, NEW j \in Jobs, Stage(j), Moves(j)
  PROVE  Rests(j) \/ Sits(j) \/ Queues(j) \/ Leaves(j) \/ Frees(j)
<1>1. /\ pc \in [Jobs -> Places] /\ queued \in [Jobs -> BOOLEAN]
      /\ seat \in [Jobs -> Seats \cup {NoSeat}]
      /\ ticket \in [Jobs -> Nat] /\ arrival \in [Jobs -> Nat] /\ nextTicket \in Nat
      /\ waiting \in SUBSET Waiters
  BY DEF TypeOK
<1>2. CASE CheckToken(j) \/ Identify(j) \/ Authorize(j) \/ Preflight(j)
  <2>1. /\ pc[j] \in GatePlaces
        /\ UNCHANGED <<book, queued, seat, ticket, arrival>>
        /\ pc'[j] \in GatePlaces \/ Refuse(j)
    BY <1>1, <1>2 DEF CheckToken, Identify, Authorize, Preflight, Goto, GatePlaces,
       checks, tracing
  <2>2. CASE pc'[j] \in GatePlaces
    <3>1. ~Waits(j) /\ ~Waits(j)' /\ (Owns(j) <=> Owns(j)')
      BY <2>1, <2>2 DEF Owns, Waits, GatePlaces, WaitPlaces
    <3> QED BY <2>1, <3>1, RestsSuffice
  <2>3. CASE Refuse(j)
    <3>1. pc[j] \notin {"claim", "slot"}
      BY <2>1 DEF GatePlaces
    <3> QED BY <2>1, <2>3, <3>1, RefuseRests
  <2> QED BY <2>1, <2>2, <2>3
<1>3. CASE Scope(j)
  <2>1. /\ pc[j] = "scope" /\ UNCHANGED <<book, queued, ticket, arrival>>
        /\ \/ /\ queued[j] => seat'[j] = seat[j]
              /\ pc'[j] = (IF queued[j] THEN "start" ELSE "claim")
           \/ Refuse(j) /\ seat' = seat
    BY <1>1, <1>3 DEF Scope, Goto, tracing
  <2>2. CASE /\ queued[j] => seat'[j] = seat[j]
             /\ pc'[j] = (IF queued[j] THEN "start" ELSE "claim")
    <3>1. /\ ~Waits(j) /\ ~Waits(j)' /\ (Owns(j) <=> Owns(j)')
          /\ Owns(j) => seat'[j] = seat[j]
      BY <2>1, <2>2 DEF Owns, Waits, GatePlaces, WaitPlaces
    <3> QED BY <2>1, <3>1, RestsSuffice
  <2>3. CASE Refuse(j) /\ seat' = seat
    <3>1. pc[j] \in GatePlaces /\ pc[j] \notin {"claim", "slot"}
      BY <2>1 DEF GatePlaces
    <3> QED BY <2>1, <2>3, <3>1, RefuseRests
  <2> QED BY <2>1, <2>2, <2>3
<1>4. CASE TryClaim(j)
  <2>1. /\ pc[j] = "claim" /\ ~queued[j] /\ seat[j] \in Seats
        /\ UNCHANGED <<queued, seat, waiting>>
    BY <1>4 DEF TryClaim, Stage, checks
  <2>2. CASE ~Blocked(seat[j])
    <3>1. /\ Take(seat[j], nextTicket, SessionOf[j])
          /\ nextTicket' = nextTicket + 1
          /\ ticket'[j] = nextTicket /\ arrival'[j] = nextTicket
          /\ pc'[j] = "spawn"
      BY <1>1, <1>4, <2>2 DEF TryClaim, Goto
    <3>2. ~Owns(j) /\ Owns(j)' /\ ~Waits(j)' /\ ~Waits(j)
      BY <2>1, <3>1 DEF Owns, Waits, GatePlaces, WaitPlaces
    <3>3. \A i \in Jobs : Waits(i) => seat[i].key # seat[j].key
      <4>1. \A i \in Jobs : Waits(i) =>
              [ticket |-> ticket[i], key |-> seat[i].key] \in waiting
        BY DEF QueueIsOfWaiters
      <4>2. \A e \in waiting : e.key # seat[j].key
        BY <2>2 DEF Blocked
      <4> QED BY <4>1, <4>2
    <3>4. ~Occupied(seat[j])
      BY <2>2 DEF Blocked
    <3>5. waiting' = Others(waiting, j)
      BY <2>1, <3>2 DEF Others
    <3>6. /\ ticket'[j] \in Nat /\ nextTicket <= ticket'[j] /\ ticket'[j] < nextTicket'
          /\ arrival'[j] <= ticket'[j] /\ Take(seat[j], ticket'[j], SessionOf[j])
      BY <1>1, <3>1
    <3>7. seat'[j] = seat[j]
      BY <2>1
    <3> QED BY <2>1, <3>2, <3>3, <3>4, <3>5, <3>6, <3>7 DEF Sits
  <2>3. CASE Blocked(seat[j])
    <3>1. /\ UNCHANGED <<book, ticket, arrival>>
          /\ Refuse(j) \/ pc'[j] = "slot"
      BY <1>1, <1>4, <2>1, <2>3 DEF TryClaim, Goto, book
    <3>2. CASE pc'[j] = "slot"
      <4>1. ~Waits(j) /\ ~Waits(j)' /\ ~Owns(j) /\ ~Owns(j)'
        BY <2>1, <3>2 DEF Owns, Waits, GatePlaces, WaitPlaces
      <4> QED BY <3>1, <4>1, RestsSuffice
    <3>3. CASE Refuse(j)
      BY <2>1, <3>1, <3>3, RefuseRests
    <3> QED BY <3>1, <3>2, <3>3
  <2> QED BY <2>2, <2>3
<1>5. CASE TakeSlot(j)
  <2>1. pc[j] = "slot" /\ ~queued[j] /\ UNCHANGED <<book, seat, ticket, arrival>>
        /\ \/ Refuse(j) /\ queued' = queued
           \/ pc'[j] = "spawn" /\ queued'[j]
    BY <1>1, <1>5 DEF TakeSlot, Stage, checks, tracing, Goto
  <2>2. CASE pc'[j] = "spawn" /\ queued'[j]
    <3>1. ~Waits(j) /\ ~Waits(j)' /\ ~Owns(j) /\ ~Owns(j)'
      BY <2>1, <2>2 DEF Owns, Waits, GatePlaces, WaitPlaces
    <3> QED BY <2>1, <3>1, RestsSuffice
  <2>3. CASE Refuse(j) /\ queued' = queued
    BY <2>1, <2>3, RefuseRests
  <2> QED BY <2>1, <2>2, <2>3
<1>6. CASE Spawn(j) \/ SpawnFails(j)
  <2>1. /\ pc[j] = "spawn" /\ UNCHANGED <<book, queued, seat, ticket, arrival>>
        /\ pc'[j] \in (IF queued[j] THEN {"enqueue", "done"} ELSE {"start", "free"})
    BY <1>1, <1>6 DEF Spawn, SpawnFails, Goto, checks, tracing
  <2>2. ~Waits(j) /\ ~Waits(j)' /\ (Owns(j) <=> Owns(j)')
    BY <2>1 DEF Owns, Waits, GatePlaces, WaitPlaces
  <2> QED BY <2>1, <2>2, RestsSuffice
<1>7. CASE Enqueue(j)
  <2>1. seat[j] \in Seats /\ ~Waits(j) /\ ~Owns(j)
    BY <1>7 DEF Enqueue, Stage, Owns, Waits, GatePlaces, WaitPlaces
  <2> DEFINE queue == waiting \cup {[ticket |-> nextTicket, key |-> seat[j].key]}
  <2>2. queue \in SUBSET Waiters
    BY <1>1, <2>1, SeatTyped DEF Waiters
  <2>3. Turn(j, nextTicket, queue, nextTicket + 1, TRUE)
    BY <1>7 DEF Enqueue
  <2>4. arrival' = [arrival EXCEPT ![j] = nextTicket]
    BY <1>7 DEF Enqueue
  <2>5. nextTicket + 1 \in Nat /\ nextTicket < nextTicket + 1
        /\ nextTicket <= nextTicket + 1
    BY <1>1
  <2>6. queue = waiting \cup {[ticket |-> nextTicket, key |-> seat[j].key]}
    OBVIOUS
  <2> HIDE DEF queue
  <2> QED BY <1>1, <2>1, <2>2, <2>3, <2>4, <2>5, <2>6, TurnBook
<1>8. CASE TakeTurn(j) \/ Heartbeat(j)
  <2>1. seat[j] \in Seats /\ Waits(j) /\ ~Owns(j)
    BY <1>8 DEF TakeTurn, Heartbeat, Stage, Owns, Waits, GatePlaces, WaitPlaces
  <2>2. PICK t \in Nat, n \in Nat, queue \in SUBSET Waiters, b \in BOOLEAN :
          Turn(j, t, queue, n, b) /\ t = ticket[j] /\ queue = waiting /\ n = nextTicket
    BY <1>1, <1>8 DEF TakeTurn, Heartbeat
  <2>3. arrival' = arrival
    BY <1>8 DEF TakeTurn, Heartbeat
  <2>4. t < n /\ nextTicket <= n
    BY <1>1, <2>1, <2>2 DEF Tickets
  <2> QED BY <2>1, <2>2, <2>3, <2>4, TurnBook
<1>9. CASE EndWait(j)
  <2>1. /\ pc[j] \in {"seated", "cancelled", "expired"} /\ queued[j]
        /\ UNCHANGED <<book, queued, seat, ticket, arrival>>
        /\ pc'[j] = (IF pc[j] = "seated" THEN "token" ELSE "done")
    BY <1>1, <1>9 DEF EndWait, Goto, Woken, Stage, checks, tracing
  <2>2. ~Waits(j) /\ ~Waits(j)' /\ (Owns(j) <=> Owns(j)')
    BY <2>1 DEF Owns, Waits, GatePlaces, WaitPlaces
  <2> QED BY <2>1, <2>2, RestsSuffice
<1>10. CASE Start(j) \/ Finish(j)
  <2>1. /\ pc[j] \in {"start", "run"} /\ pc'[j] \in {"run", "free"}
        /\ UNCHANGED <<book, seat, ticket, arrival>>
    BY <1>1, <1>10 DEF Start, Finish, Goto, checks, tracing
  <2>2. ~Waits(j) /\ ~Waits(j)' /\ Owns(j) /\ Owns(j)'
    BY <2>1 DEF Owns, Waits, GatePlaces, WaitPlaces
  <2> QED BY <2>1, <2>2, RestsSuffice
<1>11. CASE FreeSeat(j)
  <2>1. /\ pc[j] = "free" /\ pc'[j] = "notify"
        /\ Free(seat[j], ticket[j]) /\ UNCHANGED <<waiting, nextTicket>>
    BY <1>1, <1>11 DEF FreeSeat, Goto
  <2>2. Owns(j) /\ ~Owns(j)' /\ ~Waits(j)'
    BY <2>1 DEF Owns, Waits, GatePlaces, WaitPlaces
  <2> QED BY <2>1, <2>2 DEF Frees
<1>12. CASE Notify(j)
  <2>1. /\ pc[j] = "notify" /\ pc'[j] = "done"
        /\ UNCHANGED <<book, seat, ticket, arrival>>
    BY <1>1, <1>12 DEF Notify, Woken, checks, tracing
  <2>2. ~Waits(j) /\ ~Waits(j)' /\ ~Owns(j) /\ ~Owns(j)'
    BY <2>1 DEF Owns, Waits, GatePlaces, WaitPlaces
  <2> QED BY <2>1, <2>2, RestsSuffice
<1>13. CASE Send(j)
  <2>1. /\ pc[j] = "unsent" /\ pc'[j] = "token" /\ ~queued[j] /\ queued' = queued
        /\ UNCHANGED <<book, seat, ticket, arrival>>
    BY <1>1, <1>13 DEF Send, Goto, Stage, tracing
  <2>2. ~Waits(j) /\ ~Waits(j)' /\ ~Owns(j) /\ ~Owns(j)'
    BY <2>1 DEF Owns, Waits, GatePlaces, WaitPlaces
  <2> QED BY <2>1, <2>2, RestsSuffice
<1>14. CASE HangUp(j) \/ Expire(j)
  BY <1>14 DEF HangUp, Expire, Rests, Owns, Waits, checks, tracing
<1>15. CASE RefuseForWant(j)
  <2>1. /\ pc[j] \in {"authorize", "slot"} /\ Refuse(j)
        /\ UNCHANGED <<book, queued, seat, ticket, arrival>>
    BY <1>15 DEF RefuseForWant, checks, tracing
  <2>2. pc[j] \in {"claim", "slot"} => ~queued[j]
    BY DEF Stage
  <2>3. pc[j] \in GatePlaces \cup {"claim", "slot"}
    BY <2>1 DEF GatePlaces
  <2> QED BY <2>1, <2>2, <2>3, RefuseRests
<1> QED
  BY <1>2, <1>3, <1>4, <1>5, <1>6, <1>7, <1>8, <1>9, <1>10, <1>11, <1>12, <1>13,
     <1>14, <1>15
  DEF Moves, JobStep, Around

\* What a step of job j does to the book, and to no other job's part in it.
BookStep(j) ==
  /\ Rests(j) \/ Sits(j) \/ Queues(j) \/ Leaves(j) \/ Frees(j)
  /\ \A i \in Jobs \ {j} :
       /\ Owns(i)' <=> Owns(i)
       /\ Waits(i)' <=> Waits(i)
       /\ seat'[i] = seat[i] /\ ticket'[i] = ticket[i] /\ arrival'[i] = arrival[i]

LEMMA MovesBook ==
  ASSUME TypeOK, QueueIsOfWaiters, Tickets, NEW j \in Jobs, Stage(j), Moves(j)
  PROVE  BookStep(j)
<1>1. \A i \in Jobs \ {j} : Elsewhere(i)
  BY OthersFrame
<1>2. ASSUME NEW i \in Jobs \ {j}
      PROVE  /\ Owns(i)' <=> Owns(i)
             /\ Waits(i)' <=> Waits(i)
             /\ seat'[i] = seat[i] /\ ticket'[i] = ticket[i] /\ arrival'[i] = arrival[i]
  <2>1. Elsewhere(i)
    BY <1>1
  <2>2. (Owns(i)' <=> Owns(i)) /\ (Waits(i)' <=> Waits(i))
    BY <2>1, ElsewhereStays
  <2> QED BY <2>1, <2>2 DEF Elsewhere
<1> QED BY <1>2, BookMoves DEF BookStep

\* Who has a part in the book.
Takes(i) == Owns(i) \/ Waits(i)

\* Tickets stay in order and apart.
LEMMA TicketsKept ==
  ASSUME TypeOK, TypeOK', Tickets, NEW j \in Jobs, BookStep(j)
  PROVE  Tickets'
<1>1. /\ ticket \in [Jobs -> Nat] /\ ticket' \in [Jobs -> Nat]
      /\ arrival \in [Jobs -> Nat] /\ arrival' \in [Jobs -> Nat]
      /\ nextTicket \in Nat /\ nextTicket' \in Nat
  BY DEF TypeOK
<1>2. nextTicket <= nextTicket'
  BY <1>1 DEF BookStep, Rests, Sits, Queues, Leaves, Frees, book
<1>3. ASSUME NEW i \in Jobs, Takes(i)
      PROVE  /\ arrival[i] <= ticket[i] /\ ticket[i] < nextTicket
             /\ Waits(i) => arrival[i] = ticket[i]
  BY <1>3 DEF Tickets, Takes
<1>4. ASSUME NEW i \in Jobs, NEW k \in Jobs, Takes(i), Takes(k), ticket[i] = ticket[k]
      PROVE  i = k
  BY <1>4 DEF Tickets, Takes
<1>5. ASSUME NEW i \in Jobs \ {j}, Takes(i)'
      PROVE  /\ Takes(i) /\ ticket'[i] = ticket[i] /\ arrival'[i] = arrival[i]
             /\ Waits(i)' => Waits(i)
  BY <1>5 DEF BookStep, Takes
<1>6. ASSUME Takes(j)'
      PROVE  /\ arrival'[j] <= ticket'[j] /\ ticket'[j] < nextTicket'
             /\ Waits(j)' => arrival'[j] = ticket'[j]
             /\ \/ Takes(j) /\ ticket'[j] = ticket[j]
                \/ nextTicket <= ticket'[j]
  <2>1. CASE Rests(j)
    <3>1. /\ Takes(j) /\ (Waits(j)' <=> Waits(j))
          /\ ticket'[j] = ticket[j] /\ arrival'[j] = arrival[j]
      BY <1>6, <2>1 DEF Rests, Takes
    <3>2. arrival[j] <= ticket[j] /\ ticket[j] < nextTicket
          /\ (Waits(j) => arrival[j] = ticket[j])
      BY <1>3, <3>1
    <3>3. ticket[j] < nextTicket'
      BY <1>1, <1>2, <3>2
    <3> QED BY <3>1, <3>2, <3>3
  <2>2. CASE Sits(j)
    BY <1>1, <2>2 DEF Sits
  <2>3. CASE Queues(j)
    BY <1>1, <2>3 DEF Queues
  <2>4. CASE Leaves(j) \/ Frees(j)
    BY <1>6, <2>4 DEF Leaves, Frees, Takes
  <2> QED BY <2>1, <2>2, <2>3, <2>4 DEF BookStep
<1>7. ASSUME NEW i \in Jobs, Takes(i)'
      PROVE  /\ arrival'[i] <= ticket'[i] /\ ticket'[i] < nextTicket'
             /\ Waits(i)' => arrival'[i] = ticket'[i]
  <2>1. CASE i # j
    <3>1. Takes(i) /\ ticket'[i] = ticket[i] /\ arrival'[i] = arrival[i]
          /\ (Waits(i)' => Waits(i))
      BY <1>5, <1>7, <2>1
    <3>2. arrival[i] <= ticket[i] /\ ticket[i] < nextTicket
          /\ (Waits(i) => arrival[i] = ticket[i])
      BY <1>3, <3>1
    <3>3. ticket[i] < nextTicket'
      BY <1>1, <1>2, <3>2
    <3> QED BY <3>1, <3>2, <3>3
  <2> QED BY <1>6, <1>7, <2>1
<1>8. ASSUME NEW i \in Jobs \ {j}, Takes(i)', Takes(j)'
      PROVE  ticket'[i] # ticket'[j]
  <2>1. Takes(i) /\ ticket'[i] = ticket[i]
    BY <1>5, <1>8
  <2>2. CASE Takes(j) /\ ticket'[j] = ticket[j]
    BY <1>4, <2>1, <2>2
  <2>3. CASE nextTicket <= ticket'[j]
    <3>1. ticket[i] < nextTicket /\ ticket[i] \in Nat /\ ticket'[j] \in Nat
      BY <1>1, <1>3, <2>1
    <3> QED BY <1>1, <2>1, <2>3, <3>1
  <2> QED BY <1>6, <1>8, <2>2, <2>3
<1>9. ASSUME NEW i \in Jobs, NEW k \in Jobs, Takes(i)', Takes(k)',
             ticket'[i] = ticket'[k]
      PROVE  i = k
  <2>1. CASE i # j /\ k # j
    <3>1. Takes(i) /\ Takes(k) /\ ticket[i] = ticket[k]
      BY <1>5, <1>9, <2>1
    <3> QED BY <1>4, <3>1
  <2> QED BY <1>8, <1>9, <2>1
<1> QED BY <1>7, <1>9 DEF Tickets, Takes

\* The queue stays the waiters'.
LEMMA QueueKept ==
  ASSUME TypeOK, QueueIsOfWaiters, Tickets, NEW j \in Jobs, BookStep(j)
  PROVE  QueueIsOfWaiters'
<1> DEFINE Entry(i) == [ticket |-> ticket[i], key |-> seat[i].key]
<1>1. \A e : e \in waiting <=> \E i \in Jobs : Waits(i) /\ e = Entry(i)
  BY DEF QueueIsOfWaiters
<1>2. \A i \in Jobs \ {j} : (Waits(i)' <=> Waits(i)) /\ Entry(i)' = Entry(i)
  BY DEF BookStep
<1>3. \A e : e \in waiting' <=> \E i \in Jobs : Waits(i)' /\ e = Entry(i)'
  <2>1. CASE Rests(j)
    <3>1. waiting' = waiting /\ (Waits(j)' <=> Waits(j)) /\ (Waits(j) => Entry(j)' = Entry(j))
      BY <2>1 DEF Rests, book
    <3> HIDE DEF Entry
    <3> QED BY <1>1, <1>2, <3>1
  <2>2. CASE Sits(j) \/ Leaves(j)
    <3>1. waiting' = Others(waiting, j) /\ ~Waits(j)'
      BY <2>2 DEF Sits, Leaves
    <3>2. \A e : e \in waiting' <=> \E i \in Jobs \ {j} : Waits(i) /\ e = Entry(i)
      <4>1. ASSUME NEW e \in waiting'
            PROVE  \E i \in Jobs \ {j} : Waits(i) /\ e = Entry(i)
        <5>1. e \in waiting /\ (Waits(j) => e.ticket # ticket[j])
          BY <3>1 DEF Others
        <5>2. PICK i \in Jobs : Waits(i) /\ e = Entry(i)
          BY <1>1, <5>1
        <5>3. i # j
          BY <5>1, <5>2
        <5> QED BY <5>2, <5>3
      <4>2. ASSUME NEW i \in Jobs \ {j}, Waits(i)
            PROVE  Entry(i) \in waiting'
        <5>1. Entry(i) \in waiting
          BY <1>1, <4>2
        <5>2. Waits(j) => ticket[i] # ticket[j]
          BY <4>2 DEF Tickets
        <5>3. Entry(i).ticket = ticket[i]
          OBVIOUS
        <5> QED BY <3>1, <5>1, <5>2, <5>3 DEF Others
      <4> HIDE DEF Entry
      <4> QED BY <4>1, <4>2
    <3> HIDE DEF Entry
    <3> QED BY <1>2, <3>1, <3>2
  <2>3. CASE Queues(j)
    <3>1. /\ waiting' = waiting \cup {Entry(j)'} /\ Waits(j)' /\ ~Waits(j)
      BY <2>3 DEF Queues
    <3> HIDE DEF Entry
    <3> QED BY <1>1, <1>2, <3>1
  <2>4. CASE Frees(j)
    <3>1. waiting' = waiting /\ ~Waits(j) /\ ~Waits(j)'
      BY <2>4, OneRole DEF Frees
    <3> HIDE DEF Entry
    <3> QED BY <1>1, <1>2, <3>1
  <2> QED BY <2>1, <2>2, <2>3, <2>4 DEF BookStep
<1> QED BY <1>3 DEF QueueIsOfWaiters

\* Who has a seat came before all who wait for it.
LEMMA OrderKept ==
  ASSUME TypeOK, TypeOK', Tickets, ServedInOrder, NEW j \in Jobs, BookStep(j)
  PROVE  ServedInOrder'
<1>1. /\ ticket \in [Jobs -> Nat] /\ arrival \in [Jobs -> Nat] /\ nextTicket \in Nat
  BY DEF TypeOK
<1> SUFFICES ASSUME NEW i \in Jobs, NEW k \in Jobs, Owns(i)', Waits(k)',
                    seat'[i].key = seat'[k].key
             PROVE  arrival'[i] < arrival'[k]
  BY DEF ServedInOrder
<1>2. \A m \in Jobs \ {j} :
        /\ Owns(m)' <=> Owns(m)
        /\ Waits(m)' <=> Waits(m)
        /\ seat'[m] = seat[m] /\ arrival'[m] = arrival[m]
  BY DEF BookStep
<1>3. CASE i # j /\ k # j
  BY <1>2, <1>3 DEF ServedInOrder
<1>4. CASE i = j /\ k # j
  <2>1. Waits(k) /\ seat'[k] = seat[k] /\ arrival'[k] = arrival[k]
    BY <1>2, <1>4
  <2>2. CASE Rests(j)
    <3>1. Owns(j) /\ seat'[j] = seat[j] /\ arrival'[j] = arrival[j]
      BY <1>4, <2>2 DEF Rests
    <3> QED BY <1>4, <2>1, <3>1 DEF ServedInOrder
  <2>3. CASE Sits(j)
    BY <1>4, <2>1, <2>3 DEF Sits
  <2>4. CASE Queues(j) \/ Leaves(j) \/ Frees(j)
    BY <1>4, <2>4 DEF Queues, Leaves, Frees
  <2> QED BY <2>2, <2>3, <2>4 DEF BookStep
<1>5. CASE i # j /\ k = j
  <2>1. Owns(i) /\ seat'[i] = seat[i] /\ arrival'[i] = arrival[i]
    BY <1>2, <1>5
  <2>2. CASE Rests(j)
    <3>1. Waits(j) /\ seat'[j] = seat[j] /\ arrival'[j] = arrival[j]
      BY <1>5, <2>2 DEF Rests
    <3> QED BY <1>5, <2>1, <3>1 DEF ServedInOrder
  <2>3. CASE Queues(j)
    <3>1. arrival'[j] = nextTicket
      BY <2>3 DEF Queues
    <3>2. arrival[i] <= ticket[i] /\ ticket[i] < nextTicket
      BY <2>1 DEF Tickets
    <3> QED BY <1>1, <1>5, <2>1, <3>1, <3>2
  <2>4. CASE Sits(j) \/ Leaves(j) \/ Frees(j)
    BY <1>5, <2>4 DEF Sits, Leaves, Frees
  <2> QED BY <2>2, <2>3, <2>4 DEF BookStep
<1>6. CASE i = j /\ k = j
  BY <1>6, OneRole
<1> QED BY <1>3, <1>4, <1>5, <1>6

\* The jobs whose guards hold a key.
Owners(k) == {i \in Jobs : Owns(i) /\ seat[i].key = k}

\* The book holds a claim for each guard that is alive.
LEMMA SeatsKept ==
  ASSUME TypeOK, Stages, Tickets, SeatsAreOwned, NEW j \in Jobs, BookStep(j)
  PROVE  SeatsAreOwned'
<1> DEFINE C(i) == Claim(ticket[i], SessionOf[i])
<1>1. held \in [Keys -> SUBSET Claims]
  BY DEF TypeOK
<1>2. ASSUME NEW k \in Keys
      PROVE  \A c : c \in held[k] <=> \E i \in Jobs : Owns(i) /\ seat[i].key = k /\ c = C(i)
  BY <1>2 DEF SeatsAreOwned
<1>3. \A i \in Jobs \ {j} : (Owns(i)' <=> Owns(i)) /\ seat'[i] = seat[i] /\ C(i)' = C(i)
  BY DEF BookStep
<1>4. ASSUME NEW k \in Keys
      PROVE  \A c : c \in held'[k] <=>
               \E i \in Jobs : Owns(i)' /\ seat'[i].key = k /\ c = C(i)'
  <2>1. CASE Rests(j) \/ Queues(j) \/ Leaves(j)
    <3>1. /\ held'[k] = held[k] /\ (Owns(j)' <=> Owns(j))
          /\ Owns(j) => seat'[j] = seat[j] /\ C(j)' = C(j)
      BY <2>1 DEF Rests, Queues, Leaves, book
    <3> HIDE DEF C
    <3> QED BY <1>2, <1>3, <3>1
  <2>2. CASE Sits(j)
    <3>1. /\ ~Owns(j) /\ Owns(j)' /\ seat'[j] = seat[j]
          /\ held'[k] = IF k = seat[j].key THEN held[k] \cup {C(j)'} ELSE held[k]
      BY <1>1, <2>2 DEF Sits, Take
    <3> HIDE DEF C
    <3> QED BY <1>2, <1>3, <3>1
  <2>3. CASE Frees(j)
    <3>1. /\ Owns(j) /\ ~Owns(j)'
          /\ held'[k] = IF k = seat[j].key THEN {h \in held[k] : h.ticket # ticket[j]}
                        ELSE held[k]
      BY <1>1, <2>3 DEF Frees, Free
    <3>2. \A i \in Jobs : C(i).ticket = ticket[i]
      BY DEF Claim
    <3>3. \A i \in Jobs \ {j} : Owns(i) => ticket[i] # ticket[j]
      BY <3>1 DEF Tickets
    <3> HIDE DEF C
    <3>4. \A c : c \in held'[k] <=>
            \E i \in Jobs \ {j} : Owns(i) /\ seat[i].key = k /\ c = C(i)
      BY <1>2, <3>1, <3>2, <3>3
    <3> QED BY <1>3, <3>1, <3>4
  <2> QED BY <2>1, <2>2, <2>3 DEF BookStep
<1> QED BY <1>4 DEF SeatsAreOwned

\* The claims on a key are as many as the guards that hold it.
LEMMA ClaimsCounted ==
  ASSUME TypeOK, Tickets, SeatsAreOwned, NEW k \in Keys
  PROVE  /\ IsFiniteSet(Owners(k)) /\ IsFiniteSet(held[k])
         /\ Cardinality(held[k]) = Cardinality(Owners(k))
         /\ Cardinality(Owners(k)) \in Nat
<1>1. IsFiniteSet(Owners(k)) /\ Cardinality(Owners(k)) \in Nat
  <2>1. Owners(k) \in SUBSET Jobs
    BY DEF Owners
  <2> QED BY <2>1, JobsFinite, FS_Subset, FS_CardinalityType
<1> DEFINE f == [i \in Owners(k) |-> Claim(ticket[i], SessionOf[i])]
<1>2. held[k] = {Claim(ticket[i], SessionOf[i]) : i \in Owners(k)}
  BY DEF SeatsAreOwned, Owners
<1>3. f \in [Owners(k) -> held[k]]
  BY <1>2
<1>4. ASSUME NEW a \in Owners(k), NEW b \in Owners(k), f[a] = f[b]
      PROVE  a = b
  <2>1. f[a].ticket = ticket[a] /\ f[b].ticket = ticket[b]
    BY DEF Claim
  <2>2. a \in Jobs /\ b \in Jobs /\ Owns(a) /\ Owns(b) /\ ticket[a] = ticket[b]
    BY <1>4, <2>1 DEF Owners
  <2> QED BY <2>2 DEF Tickets
<1>5. \A c \in held[k] : \E i \in Owners(k) : f[i] = c
  BY <1>2
<1> HIDE DEF f
<1>6. f \in Injection(Owners(k), held[k])
  BY <1>3, <1>4 DEF Injection, IsInjective
<1>7. f \in Surjection(Owners(k), held[k])
  BY <1>3, <1>5 DEF Surjection
<1> QED BY <1>1, <1>6, <1>7, FS_Surjection

\* When a job took its seat, its width was not used up.
LEMMA WidthsKeptKept ==
  ASSUME TypeOK, TypeOK', Tickets, SeatsAreOwned, WidthsKept, NEW j \in Jobs, BookStep(j)
  PROVE  WidthsKept'
<1>1. /\ ticket \in [Jobs -> Nat] /\ ticket' \in [Jobs -> Nat] /\ nextTicket \in Nat
  BY DEF TypeOK
<1>2. \A m \in Jobs \ {j} : (Owns(m)' <=> Owns(m)) /\ seat'[m] = seat[m] /\ ticket'[m] = ticket[m]
  BY DEF BookStep
<1>3. \A m \in Jobs : Owns(m) => ticket[m] < nextTicket
  BY DEF Tickets
<1>4. ASSUME NEW i \in Jobs, Owns(i), Owns(i)', seat'[i] = seat[i], Before(i)' \subseteq Before(i)
      PROVE  Cardinality(Before(i)') <= seat'[i].width
  <2>1. Cardinality(Before(i)) <= seat[i].width
    BY <1>4 DEF WidthsKept
  <2>2. Before(i) \in SUBSET Jobs
    BY DEF Before
  <2>3. IsFiniteSet(Before(i))
    BY <2>2, JobsFinite, FS_Subset
  <2>4. /\ IsFiniteSet(Before(i)') /\ Cardinality(Before(i)') <= Cardinality(Before(i))
    BY <1>4, <2>3, FS_Subset
  <2>5. Cardinality(Before(i)) \in Nat /\ Cardinality(Before(i)') \in Nat
    BY <2>3, <2>4, FS_CardinalityType
  <2>6. seat[i].width \in Nat
    <3>1. seat[i] \in Seats \cup {NoSeat}
      BY DEF TypeOK
    <3> QED BY <3>1, SeatTyped DEF NoSeat
  <2> QED BY <1>4, <2>1, <2>4, <2>5, <2>6
<1>5. ASSUME NEW i \in Jobs \ {j}, Owns(i)'
      PROVE  Cardinality(Before(i)') <= seat'[i].width
  <2>1. Owns(i) /\ seat'[i] = seat[i] /\ ticket'[i] = ticket[i]
    BY <1>2, <1>5
  <2>2. ASSUME j \in Before(i)'
        PROVE  j \in Before(i)
    <3>1. Owns(j)' /\ seat'[j].key = seat[i].key /\ ticket'[j] <= ticket[i]
      BY <2>1, <2>2 DEF Before
    <3>2. CASE Rests(j)
      BY <3>1, <3>2 DEF Rests, Before
    <3>3. CASE Sits(j)
      <4>1. nextTicket <= ticket'[j] /\ ticket[i] < nextTicket
        BY <1>3, <2>1, <3>3 DEF Sits
      <4> QED BY <1>1, <3>1, <4>1
    <3>4. CASE Queues(j) \/ Leaves(j) \/ Frees(j)
      BY <3>1, <3>4 DEF Queues, Leaves, Frees
    <3> QED BY <3>2, <3>3, <3>4 DEF BookStep
  <2>3. \A m \in Jobs \ {j} : m \in Before(i)' => m \in Before(i)
    BY <1>2, <2>1 DEF Before
  <2>4. Before(i)' \subseteq Before(i)
    BY <2>2, <2>3 DEF Before
  <2> QED BY <1>4, <1>5, <2>1, <2>4
<1>6. ASSUME Owns(j)'
      PROVE  Cardinality(Before(j)') <= seat'[j].width
  <2>1. CASE Rests(j)
    <3>1. Owns(j) /\ seat'[j] = seat[j] /\ ticket'[j] = ticket[j]
      BY <1>6, <2>1 DEF Rests
    <3>2. Before(j)' \subseteq Before(j)
      BY <1>2, <3>1 DEF Before
    <3> QED BY <1>4, <1>6, <3>1, <3>2
  <2>2. CASE Sits(j)
    <3>1. /\ seat[j] \in Seats /\ seat'[j] = seat[j] /\ ~Owns(j)
          /\ ~Occupied(seat[j])
      BY <2>2 DEF Sits
    <3> DEFINE k == seat[j].key
    <3>2. k \in Keys /\ seat[j].width \in Nat
      BY <3>1, SeatTyped
    <3>3. /\ IsFiniteSet(Owners(k)) /\ Cardinality(held[k]) = Cardinality(Owners(k))
          /\ Cardinality(Owners(k)) \in Nat
      BY <3>2, ClaimsCounted
    <3>4. Cardinality(Owners(k)) + 1 <= seat[j].width
      BY <3>1, <3>2, <3>3 DEF Occupied
    <3>5. Before(j)' \subseteq Owners(k) \cup {j}
      BY <1>2, <3>1 DEF Before, Owners
    <3>6. /\ IsFiniteSet(Owners(k) \cup {j})
          /\ Cardinality(Owners(k) \cup {j}) = Cardinality(Owners(k)) + 1
      <4>1. j \notin Owners(k)
        BY <3>1 DEF Owners
      <4> QED BY <3>3, <4>1, FS_AddElement
    <3>7. /\ IsFiniteSet(Before(j)')
          /\ Cardinality(Before(j)') <= Cardinality(Owners(k)) + 1
      BY <3>5, <3>6, FS_Subset
    <3>8. Cardinality(Before(j)') \in Nat
      BY <3>7, FS_CardinalityType
    <3> QED BY <3>1, <3>2, <3>3, <3>4, <3>7, <3>8
  <2>3. CASE Queues(j) \/ Leaves(j) \/ Frees(j)
    BY <1>6, <2>3 DEF Queues, Leaves, Frees
  <2> QED BY <2>1, <2>2, <2>3 DEF BookStep
<1> QED BY <1>5, <1>6 DEF WidthsKept

-----------------------------------------------------------------------------
(* Sleep. *)

\* How a step moves those who sleep: it wakes them all; it leaves one who is about
\* to wake them; it takes nothing from the queue and frees nothing; or it sends
\* its own job to sleep, which could not take the seat.
Wakes == \A i \in Jobs : pc'[i] # "asleep"
Quiet(j) ==
  /\ \A k \in Keys : held[k] \subseteq held'[k]
  /\ waiting \subseteq waiting'
  /\ pc'[j] # "asleep" /\ pc[j] \notin {"seated", "notify"}
Dozes(j) ==
  /\ UNCHANGED book /\ pc[j] = "turn" /\ pc'[j] = "asleep"
  /\ ticket'[j] = ticket[j] /\ seat'[j] = seat[j]
  /\ ~(First(waiting, seat[j].key, ticket[j]) /\ ~Occupied(seat[j]))
Same(j) ==
  /\ UNCHANGED book /\ pc'[j] = pc[j] /\ ticket'[j] = ticket[j] /\ seat'[j] = seat[j]

LEMMA LeaveWakes ==
  ASSUME TypeOK, NEW j \in Jobs, NEW t, NEW queue, NEW there, there # "asleep",
         Leave(j, t, queue, there)
  PROVE  Wakes
BY DEF TypeOK, Leave, Woken, Wakes

LEMMA RefuseQuiet ==
  ASSUME TypeOK, NEW j \in Jobs, Refuse(j), UNCHANGED book,
         pc[j] \in GatePlaces \cup {"claim", "slot"}
  PROVE  Quiet(j)
<1>1. pc'[j] # "asleep"
  BY RefuseMoves
<1>2. pc[j] \notin {"seated", "notify"}
  BY DEF GatePlaces
<1> QED BY <1>1, <1>2 DEF Quiet, book

LEMMA SleepMoves ==
  ASSUME TypeOK, NEW j \in Jobs, Moves(j), BookStep(j)
  PROVE  Wakes \/ pc'[j] \in {"seated", "notify"} \/ Quiet(j) \/ Dozes(j) \/ Same(j)
<1>1. pc \in [Jobs -> Places] /\ held \in [Keys -> SUBSET Claims]
      /\ ticket \in [Jobs -> Nat]
  BY DEF TypeOK
<1>2. CASE CheckToken(j) \/ Identify(j) \/ Authorize(j) \/ Preflight(j) \/ Scope(j)
  <2>1. /\ pc[j] \in GatePlaces
        /\ UNCHANGED book
        /\ pc'[j] \in GatePlaces \cup {"start", "claim"} \/ Refuse(j)
    BY <1>1, <1>2 DEF CheckToken, Identify, Authorize, Preflight, Scope, Goto, GatePlaces
  <2>2. CASE pc'[j] \in GatePlaces \cup {"start", "claim"}
    <3>1. pc'[j] # "asleep" /\ pc[j] \notin {"seated", "notify"}
      BY <2>1, <2>2 DEF GatePlaces
    <3> QED BY <2>1, <3>1 DEF Quiet, book
  <2> QED BY <2>1, <2>2, RefuseQuiet
<1>3. CASE TryClaim(j)
  <2>1. pc[j] = "claim" /\ waiting' = waiting
    BY <1>3 DEF TryClaim
  <2>2. CASE ~Blocked(seat[j])
    <3>1. pc'[j] = "spawn" /\ Take(seat[j], nextTicket, SessionOf[j])
      BY <1>1, <1>3, <2>2 DEF TryClaim, Goto
    <3>2. \A k \in Keys : held[k] \subseteq held'[k]
      BY <1>1, <3>1 DEF Take
    <3> QED BY <2>1, <3>1, <3>2 DEF Quiet
  <2>3. CASE Blocked(seat[j])
    <3>1. UNCHANGED book /\ (pc'[j] = "slot" \/ Refuse(j))
      BY <1>1, <1>3, <2>3 DEF TryClaim, Goto, book
    <3>2. CASE pc'[j] = "slot"
      BY <2>1, <3>1, <3>2 DEF Quiet, book
    <3> QED BY <2>1, <3>1, <3>2, RefuseQuiet
  <2> QED BY <2>2, <2>3
<1>4. CASE TakeSlot(j) \/ RefuseForWant(j)
  <2>1. /\ pc[j] \in {"slot", "authorize"} /\ UNCHANGED book
        /\ pc'[j] = "spawn" \/ Refuse(j)
    BY <1>1, <1>4 DEF TakeSlot, RefuseForWant, Goto
  <2>2. CASE pc'[j] = "spawn"
    BY <2>1, <2>2 DEF Quiet, book
  <2>3. CASE Refuse(j)
    <3>1. pc[j] \in GatePlaces \cup {"claim", "slot"}
      BY <2>1 DEF GatePlaces
    <3> QED BY <2>1, <2>3, <3>1, RefuseQuiet
  <2> QED BY <2>1, <2>2, <2>3
<1>5. CASE Spawn(j) \/ SpawnFails(j) \/ Start(j) \/ Finish(j) \/ Send(j)
  <2>1. /\ pc[j] \in {"spawn", "start", "run", "unsent"} /\ UNCHANGED book
        /\ pc'[j] \in {"enqueue", "start", "free", "done", "run", "token"}
    BY <1>1, <1>5 DEF Spawn, SpawnFails, Start, Finish, Send, Goto
  <2> QED BY <2>1 DEF Quiet, book
<1>6. ASSUME NEW t, NEW queue, NEW n, NEW b \in BOOLEAN, Turn(j, t, queue, n, b)
      PROVE  \/ Wakes \/ pc'[j] = "seated"
             \/ /\ ~(First(queue, seat[j].key, t) /\ ~Occupied(seat[j]))
                /\ waiting' = queue /\ nextTicket' = n /\ held' = held
                /\ ticket'[j] = t /\ seat'[j] = seat[j]
                /\ pc'[j] = (IF b THEN "turn" ELSE "asleep")
  BY <1>1, <1>6, LeaveWakes DEF Turn, Goto, checks
<1>7. CASE Enqueue(j)
  <2> DEFINE queue == waiting \cup {[ticket |-> nextTicket, key |-> seat[j].key]}
  <2>1. Turn(j, nextTicket, queue, nextTicket + 1, TRUE) /\ pc[j] = "enqueue"
    BY <1>7 DEF Enqueue
  <2>2. waiting \subseteq queue
    OBVIOUS
  <2> HIDE DEF queue
  <2>3. \/ Wakes \/ pc'[j] = "seated"
        \/ waiting' = queue /\ held' = held /\ pc'[j] = "turn"
    BY <1>6, <2>1
  <2> QED BY <2>1, <2>2, <2>3 DEF Quiet
<1>8. CASE TakeTurn(j)
  <2>1. Turn(j, ticket[j], waiting, nextTicket, FALSE) /\ pc[j] = "turn"
    BY <1>8 DEF TakeTurn
  <2> QED BY <1>6, <2>1 DEF Dozes, book
<1>9. CASE Heartbeat(j)
  <2>1. Turn(j, ticket[j], waiting, nextTicket, TRUE) /\ pc[j] = "asleep"
    BY <1>9 DEF Heartbeat
  <2>2. \/ Wakes \/ pc'[j] = "seated"
        \/ waiting' = waiting /\ held' = held /\ pc'[j] = "turn"
    BY <1>6, <2>1
  <2> QED BY <2>1, <2>2 DEF Quiet
<1>10. CASE EndWait(j)
  <2>1. CASE pc[j] = "seated"
    BY <1>1, <1>10, <2>1 DEF EndWait, Woken, Wakes
  <2>2. CASE pc[j] # "seated"
    <3>1. pc[j] \in {"cancelled", "expired"} /\ pc'[j] = "done" /\ UNCHANGED book
      BY <1>1, <1>10, <2>2 DEF EndWait, Goto
    <3> QED BY <3>1 DEF Quiet, book
  <2> QED BY <2>1, <2>2
<1>11. CASE FreeSeat(j)
  BY <1>1, <1>11 DEF FreeSeat, Goto
<1>12. CASE Notify(j)
  BY <1>1, <1>12 DEF Notify, Woken, Wakes
<1>13. CASE HangUp(j) \/ Expire(j)
  BY <1>13 DEF HangUp, Expire, Same, checks
<1> QED
  BY <1>2, <1>3, <1>4, <1>5, <1>7, <1>8, <1>9, <1>10, <1>11, <1>12, <1>13
  DEF Moves, JobStep, Around

\* Nobody sleeps who could take the seat, unless someone is about to wake all.
LEMMA WakeupKept ==
  ASSUME TypeOK, Stages', SeatsAreOwned', NoLostWakeup, NEW j \in Jobs, Moves(j),
         BookStep(j)
  PROVE  NoLostWakeup'
<1> SUFFICES ASSUME NEW i \in Jobs, pc'[i] = "asleep",
                    First(waiting', seat'[i].key, ticket'[i]), ~Occupied(seat[i])'
             PROVE  \E m \in Jobs : pc'[m] \in {"seated", "notify"}
  BY DEF NoLostWakeup
<1>1. \A m \in Jobs \ {j} : Elsewhere(m)
  BY OthersFrame
<1> DEFINE key == seat'[i].key
<1>2. seat'[i] \in Seats /\ key \in Keys /\ seat'[i].width \in Nat
  <2>1. seat'[i] \in Seats
    BY DEF Stages, Waits, WaitPlaces
  <2> QED BY <2>1, SeatTyped
<1>3. IsFiniteSet(held'[key])
  <2> DEFINE mine == {m \in Jobs : Owns(m)' /\ seat'[m].key = key}
  <2>1. held'[key] = {Claim(ticket'[m], SessionOf[m]) : m \in mine}
    BY <1>2 DEF SeatsAreOwned
  <2>2. mine \in SUBSET Jobs
    OBVIOUS
  <2>3. IsFiniteSet(mine)
    BY <2>2, JobsFinite, FS_Subset
  <2> DEFINE f == [m \in mine |-> Claim(ticket'[m], SessionOf[m])]
  <2>4. f \in Surjection(mine, held'[key])
    BY <2>1 DEF Surjection
  <2> HIDE DEF mine, f
  <2> QED BY <2>3, <2>4, FS_Surjection
<1>4. ~(Cardinality(held'[key]) >= seat'[i].width)
  BY DEF Occupied
<1>5. ASSUME pc[i] = "asleep", seat'[i] = seat[i], ticket'[i] = ticket[i],
             waiting \subseteq waiting', held[key] \subseteq held'[key]
      PROVE  \E m \in Jobs : pc[m] \in {"seated", "notify"}
  <2>1. First(waiting, seat[i].key, ticket[i])
    BY <1>5 DEF First
  <2>2. IsFiniteSet(held[key]) /\ Cardinality(held[key]) <= Cardinality(held'[key])
    BY <1>3, <1>5, FS_Subset
  <2>3. Cardinality(held[key]) \in Nat /\ Cardinality(held'[key]) \in Nat
    BY <1>3, <2>2, FS_CardinalityType
  <2>4. ~(Cardinality(held[key]) >= seat'[i].width)
    BY <1>2, <1>4, <2>2, <2>3
  <2>5. ~Occupied(seat[i])
    BY <1>5, <2>4 DEF Occupied
  <2> QED BY <1>5, <2>1, <2>5 DEF NoLostWakeup
<1>6. ASSUME NEW m \in Jobs \ {j}, pc[m] \in {"seated", "notify"}
      PROVE  pc'[m] \in {"seated", "notify"}
  BY <1>1, <1>6 DEF Elsewhere
<1>7. CASE Wakes
  BY <1>7 DEF Wakes
<1>8. CASE pc'[j] \in {"seated", "notify"}
  BY <1>8
<1>9. CASE Quiet(j)
  <2>1. i \in Jobs \ {j}
    BY <1>9 DEF Quiet
  <2>2. pc[i] = "asleep" /\ seat'[i] = seat[i] /\ ticket'[i] = ticket[i]
    BY <1>1, <2>1 DEF Elsewhere
  <2>3. waiting \subseteq waiting' /\ held[key] \subseteq held'[key]
    BY <1>2, <1>9 DEF Quiet
  <2>4. PICK m \in Jobs : pc[m] \in {"seated", "notify"}
    BY <1>5, <2>2, <2>3
  <2>5. m # j
    BY <1>9, <2>4 DEF Quiet
  <2> QED BY <1>6, <2>4, <2>5
<1>10. CASE Dozes(j)
  <2>1. held' = held /\ waiting' = waiting
    BY <1>10 DEF Dozes, book
  <2>2. i # j
    <3>1. SUFFICES ASSUME i = j PROVE FALSE
      OBVIOUS
    <3>2. First(waiting, seat[j].key, ticket[j])
      BY <1>10, <2>1, <3>1 DEF Dozes
    <3>3. ~Occupied(seat[j])
      BY <1>10, <2>1, <3>1 DEF Dozes, Occupied
    <3> QED BY <1>10, <3>2, <3>3 DEF Dozes
  <2>3. pc[i] = "asleep" /\ seat'[i] = seat[i] /\ ticket'[i] = ticket[i]
    BY <1>1, <2>2 DEF Elsewhere
  <2>4. PICK m \in Jobs : pc[m] \in {"seated", "notify"}
    BY <1>5, <2>1, <2>3
  <2>5. m # j
    BY <1>10, <2>4 DEF Dozes
  <2> QED BY <1>6, <2>4, <2>5
<1>11. CASE Same(j)
  <2>1. held' = held /\ waiting' = waiting /\ pc'[j] = pc[j]
    BY <1>11 DEF Same, book
  <2>2. pc[i] = "asleep" /\ seat'[i] = seat[i] /\ ticket'[i] = ticket[i]
    BY <1>1, <1>11 DEF Elsewhere, Same
  <2>3. PICK m \in Jobs : pc[m] \in {"seated", "notify"}
    BY <1>5, <2>1, <2>2
  <2> QED BY <1>6, <2>1, <2>3
<1> QED BY <1>7, <1>8, <1>9, <1>10, <1>11, SleepMoves

-----------------------------------------------------------------------------
(* Queue slots. *)

\* The jobs that hold a slot of node n.
Holders(n) == {i \in Jobs : HasSlot(i) /\ admitted[i] = n}

\* How a step of job j moves it among the holders of slots.
KeepsSlot(j) ==
  /\ slots' = slots /\ (HasSlot(j)' <=> HasSlot(j))
  /\ HasSlot(j) => admitted'[j] = admitted[j]
GetsSlot(j) ==
  /\ ~HasSlot(j) /\ HasSlot(j)' /\ admitted'[j] = admitted[j] /\ admitted[j] \in Nodes
  /\ slots[admitted[j]] < QueueCap
  /\ slots' = [slots EXCEPT ![admitted[j]] = @ + 1]
DropsSlot(j) ==
  /\ HasSlot(j) /\ ~HasSlot(j)' /\ admitted[j] \in Nodes
  /\ slots' = [slots EXCEPT ![admitted[j]] = @ - 1]

LEMMA SlotMoves ==
  ASSUME TypeOK, NEW j \in Jobs, Stage(j), Moves(j)
  PROVE  KeepsSlot(j) \/ GetsSlot(j) \/ DropsSlot(j)
<1>1. /\ pc \in [Jobs -> Places] /\ queued \in [Jobs -> BOOLEAN]
      /\ admitted \in [Jobs -> Nodes \cup {NoNode}]
  BY DEF TypeOK
<1>2. CASE CheckToken(j) \/ Identify(j) \/ Authorize(j) \/ Preflight(j) \/ Scope(j)
  <2>1. /\ pc[j] \in GatePlaces
        /\ UNCHANGED <<slots, queued>>
        /\ pc'[j] \in GatePlaces \cup {"start", "claim"} \/ Refuse(j)
    BY <1>1, <1>2 DEF CheckToken, Identify, Authorize, Preflight, Scope, Goto, GatePlaces
  <2>2. pc'[j] \in GatePlaces \cup {"start", "claim", "free", "done"}
    BY <2>1, RefuseMoves
  <2> QED BY <2>1, <2>2 DEF KeepsSlot, HasSlot, GatePlaces, WaitPlaces
<1>3. CASE TryClaim(j) \/ RefuseForWant(j)
  <2>1. /\ pc[j] \in {"claim", "authorize", "slot"} /\ ~queued[j]
        /\ UNCHANGED <<slots, queued>>
    BY <1>3 DEF TryClaim, RefuseForWant, Stage
  <2> QED BY <2>1 DEF KeepsSlot, HasSlot
<1>4. CASE TakeSlot(j)
  <2>1. pc[j] = "slot" /\ admitted[j] \in Nodes /\ ~queued[j] /\ admitted' = admitted
    BY <1>4 DEF TakeSlot, Stage, checks
  <2>2. CASE slots[admitted[j]] < QueueCap
    <3>1. /\ queued'[j] = TRUE /\ pc'[j] = "spawn"
          /\ slots' = [slots EXCEPT ![admitted[j]] = @ + 1]
      BY <1>1, <1>4, <2>2 DEF TakeSlot, Goto
    <3> QED BY <2>1, <2>2, <3>1 DEF GetsSlot, HasSlot
  <2>3. CASE ~(slots[admitted[j]] < QueueCap)
    <3>1. UNCHANGED <<queued, slots>>
      BY <1>4, <2>3 DEF TakeSlot
    <3> QED BY <2>1, <3>1 DEF KeepsSlot, HasSlot
  <2> QED BY <2>2, <2>3
<1>5. CASE Spawn(j) \/ Start(j) \/ Finish(j) \/ FreeSeat(j) \/ Send(j)
  <2>1. /\ UNCHANGED <<slots, queued, admitted>>
        /\ \/ pc[j] = "spawn" /\ pc'[j] = (IF queued[j] THEN "enqueue" ELSE "start")
           \/ /\ pc[j] \in {"start", "run", "free", "unsent"}
              /\ pc'[j] \in {"run", "free", "notify", "token"}
    BY <1>1, <1>5 DEF Spawn, Start, Finish, FreeSeat, Send, Goto, checks
  <2> QED BY <2>1 DEF KeepsSlot, HasSlot, WaitPlaces
<1>6. CASE SpawnFails(j)
  <2>1. pc[j] = "spawn" /\ UNCHANGED <<queued, admitted>>
    BY <1>6 DEF SpawnFails, checks
  <2>2. CASE queued[j]
    <3>1. /\ pc'[j] = "done"
          /\ slots' = [slots EXCEPT ![admitted[j]] = @ - 1]
      BY <1>1, <1>6, <2>2 DEF SpawnFails, Goto, ReleaseSlot
    <3>2. HasSlot(j) /\ ~HasSlot(j)'
      BY <2>1, <2>2, <3>1 DEF HasSlot, WaitPlaces
    <3> QED BY <3>1, <3>2 DEF DropsSlot, Stage
  <2>3. CASE ~queued[j]
    <3>1. slots' = slots
      BY <1>6, <2>3 DEF SpawnFails
    <3> QED BY <2>1, <2>3, <3>1 DEF KeepsSlot, HasSlot
  <2> QED BY <2>2, <2>3
<1>7. CASE Enqueue(j) \/ TakeTurn(j) \/ Heartbeat(j)
  <2>1. ASSUME NEW t, NEW queue, NEW n, NEW b \in BOOLEAN, Turn(j, t, queue, n, b)
        PROVE  /\ pc'[j] \in {"cancelled", "expired", "seated", "turn", "asleep"}
               /\ UNCHANGED <<slots, queued, admitted>>
    BY <2>1, TurnMoves DEF Turn, checks
  <2>2. pc'[j] \in {"cancelled", "expired", "seated", "turn", "asleep"}
    BY <1>7, <2>1 DEF Enqueue, TakeTurn, Heartbeat
  <2>3. UNCHANGED <<slots, queued, admitted>>
    BY <1>7, <2>1 DEF Enqueue, TakeTurn, Heartbeat
  <2>4. pc[j] \in {"enqueue", "turn", "asleep"} /\ queued[j]
    BY <1>7 DEF Enqueue, TakeTurn, Heartbeat, Stage, WaitPlaces
  <2> QED BY <2>2, <2>3, <2>4 DEF KeepsSlot, HasSlot, WaitPlaces
<1>8. CASE EndWait(j)
  <2>1. pc[j] \in {"seated", "cancelled", "expired"} /\ UNCHANGED <<queued, admitted>>
    BY <1>8 DEF EndWait, checks
  <2>2. queued[j] /\ HasSlot(j) /\ admitted[j] \in Nodes
    BY <2>1 DEF Stage, HasSlot
  <2>3. pc'[j] \in {"token", "done"}
    BY <1>1, <1>8 DEF EndWait, Goto, Woken
  <2>4. slots' = [slots EXCEPT ![admitted[j]] = @ - 1]
    BY <1>8 DEF EndWait, ReleaseSlot
  <2> QED BY <2>2, <2>3, <2>4 DEF DropsSlot, HasSlot, WaitPlaces
<1>9. CASE Notify(j)
  <2>1. pc[j] = "notify" /\ pc'[j] = "done" /\ UNCHANGED <<slots, queued, admitted>>
    BY <1>1, <1>9 DEF Notify, Woken, checks
  <2> QED BY <2>1 DEF KeepsSlot, HasSlot, WaitPlaces
<1>10. CASE HangUp(j) \/ Expire(j)
  BY <1>10 DEF HangUp, Expire, KeepsSlot, HasSlot, checks
<1> QED
  BY <1>2, <1>3, <1>4, <1>5, <1>6, <1>7, <1>8, <1>9, <1>10 DEF Moves, JobStep, Around

LEMMA SlotsKeptKept ==
  ASSUME TypeOK, SlotsKept, NEW j \in Jobs, Moves(j),
         KeepsSlot(j) \/ GetsSlot(j) \/ DropsSlot(j)
  PROVE  SlotsKept' /\ slots' \in [Nodes -> Nat]
<1>1. slots \in [Nodes -> Nat] /\ QueueCap \in Nat
  BY ConstantsTyped DEF TypeOK
<1>2. \A i \in Jobs \ {j} : (HasSlot(i)' <=> HasSlot(i)) /\ admitted'[i] = admitted[i]
  BY OthersFrame, ElsewhereStays DEF Elsewhere
<1>3. ASSUME NEW n \in Nodes
      PROVE  /\ IsFiniteSet(Holders(n)) /\ Cardinality(Holders(n)) \in Nat
             /\ slots[n] = Cardinality(Holders(n)) /\ slots[n] <= QueueCap
  <2>1. Holders(n) \in SUBSET Jobs
    BY DEF Holders
  <2>2. IsFiniteSet(Holders(n)) /\ Cardinality(Holders(n)) \in Nat
    BY <2>1, JobsFinite, FS_Subset, FS_CardinalityType
  <2> QED BY <2>2 DEF SlotsKept, Holders
<1>4. ASSUME NEW n \in Nodes, Holders(n)' = Holders(n), slots'[n] = slots[n]
      PROVE  /\ slots'[n] = Cardinality(Holders(n)') /\ slots'[n] <= QueueCap
             /\ slots'[n] \in Nat
  BY <1>1, <1>3, <1>4
<1>5. ASSUME NEW n \in Nodes
      PROVE  /\ slots'[n] = Cardinality(Holders(n)') /\ slots'[n] <= QueueCap
             /\ slots'[n] \in Nat
  <2>1. CASE KeepsSlot(j)
    <3>1. slots'[n] = slots[n]
      BY <2>1 DEF KeepsSlot
    <3>2. Holders(n)' = Holders(n)
      BY <1>2, <2>1 DEF KeepsSlot, Holders
    <3> QED BY <1>4, <3>1, <3>2
  <2>2. CASE GetsSlot(j)
    <3>1. CASE n = admitted[j]
      <4>1. slots'[n] = slots[n] + 1 /\ slots[n] < QueueCap
        BY <1>1, <2>2, <3>1 DEF GetsSlot
      <4>2. j \notin Holders(n) /\ Holders(n)' = Holders(n) \cup {j}
        BY <1>2, <2>2, <3>1 DEF GetsSlot, Holders
      <4>3. Cardinality(Holders(n)') = Cardinality(Holders(n)) + 1
        BY <1>3, <4>2, FS_AddElement
      <4> QED BY <1>1, <1>3, <4>1, <4>3
    <3>2. CASE n # admitted[j]
      <4>1. slots'[n] = slots[n]
        BY <1>1, <2>2, <3>2 DEF GetsSlot
      <4>2. Holders(n)' = Holders(n)
        BY <1>2, <2>2, <3>2 DEF GetsSlot, Holders
      <4> QED BY <1>4, <4>1, <4>2
    <3> QED BY <3>1, <3>2
  <2>3. CASE DropsSlot(j)
    <3>1. CASE n = admitted[j]
      <4>1. slots'[n] = slots[n] - 1
        BY <1>1, <2>3, <3>1 DEF DropsSlot
      <4>2. j \in Holders(n) /\ Holders(n)' = Holders(n) \ {j}
        BY <1>2, <2>3, <3>1 DEF DropsSlot, Holders
      <4>3. /\ IsFiniteSet(Holders(n)')
            /\ Cardinality(Holders(n)') = Cardinality(Holders(n)) - 1
        BY <1>3, <4>2, FS_RemoveElement
      <4>4. Cardinality(Holders(n)') \in Nat
        BY <4>3, FS_CardinalityType
      <4> QED BY <1>1, <1>3, <4>1, <4>3, <4>4
    <3>2. CASE n # admitted[j]
      <4>1. slots'[n] = slots[n]
        BY <1>1, <2>3, <3>2 DEF DropsSlot
      <4>2. Holders(n)' = Holders(n)
        BY <1>2, <2>3, <3>2 DEF DropsSlot, Holders
      <4> QED BY <1>4, <4>1, <4>2
    <3> QED BY <3>1, <3>2
  <2> QED BY <2>1, <2>2, <2>3
<1>6. slots' \in [Nodes -> Nat]
  <2>1. slots' = slots \/ \E n, v : slots' = [slots EXCEPT ![n] = v]
    BY DEF KeepsSlot, GetsSlot, DropsSlot
  <2>2. slots' = [n \in Nodes |-> slots'[n]]
    BY <1>1, <2>1
  <2> QED BY <1>5, <2>2
<1> QED BY <1>5, <1>6 DEF SlotsKept, Holders

-----------------------------------------------------------------------------
(* Gates. *)

\* What GatesPassed says of one job.
Passed(j) ==
  /\ pc[j] \in {"identify", "authorize", "preflight", "scope"} => "token" \in since[j]
  /\ pc[j] \in {"authorize", "preflight", "scope"} => "node" \in since[j]
  /\ pc[j] \in {"preflight", "scope"} => "trust" \in since[j] /\ node[j] = admitted[j]
  /\ pc[j] = "scope" => "config" \in since[j]
  /\ pc[j] \in {"claim", "start", "run"} \/ (pc[j] = "spawn" /\ ~queued[j]) =>
       since[j] = Gates /\ node[j] = admitted[j]

LEMMA PassedOfAll ==
  /\ GatesPassed <=> \A j \in Jobs : Passed(j)
  /\ GatesPassed' <=> \A j \in Jobs : Passed(j)'
BY DEF GatesPassed, Passed

\* The places that need a gate to have been open.
Past == {"identify", "authorize", "preflight", "scope", "claim", "start", "run"}

LEMMA NotPast ==
  ASSUME NEW j \in Jobs, pc'[j] \notin Past, pc'[j] = "spawn" => queued'[j]
  PROVE  Passed(j)'
BY DEF Past, Passed

\* What has been seen open stays so, but for the trust when a node is named.
LEMMA Observed ==
  ASSUME TypeOK, Observe, NEW j \in Jobs, Counted(j)'
  PROVE  /\ Open(j)' \subseteq since'[j] /\ since[j] \ {"trust"} \subseteq since'[j]
         /\ ~(pc[j] = "identify" /\ pc'[j] = "authorize") => since[j] \subseteq since'[j]
         /\ since'[j] \subseteq Gates
<1>1. since' \in [Jobs -> SUBSET Gates]
  BY ObserveTypes
<1>2. since'[j] = Open(j)' \cup
        (IF pc[j] = "identify" /\ pc'[j] = "authorize" THEN since[j] \ {"trust"}
         ELSE since[j])
  BY DEF Observe
<1> QED BY <1>1, <1>2

LEMMA PassedStays ==
  ASSUME TypeOK, Observe, NEW j \in Jobs, Passed(j),
         pc'[j] = pc[j] \/ (pc[j] = "asleep" /\ pc'[j] = "turn"),
         queued'[j] = queued[j], node'[j] = node[j], admitted'[j] = admitted[j]
  PROVE  Passed(j)'
<1>1. CASE pc[j] \in Past \/ (pc[j] = "spawn" /\ ~queued[j])
  <2>1. pc'[j] = pc[j]
    BY <1>1 DEF Past
  <2>2. Counted(j)'
    BY <1>1, <2>1 DEF Counted, Owns, Past, GatePlaces
  <2>3. since[j] \subseteq since'[j] /\ since'[j] \subseteq Gates
    BY <2>1, <2>2, Observed
  <2>4. since[j] = Gates => since'[j] = Gates
    BY <2>3
  <2> QED BY <2>1, <2>3, <2>4 DEF Passed
<1>2. CASE ~(pc[j] \in Past \/ (pc[j] = "spawn" /\ ~queued[j]))
  <2>1. pc'[j] \notin Past /\ (pc'[j] = "spawn" => queued'[j])
    BY <1>2 DEF Past
  <2> QED BY <2>1, NotPast
<1> QED BY <1>1, <1>2

LEMMA RefusePassed ==
  ASSUME TypeOK, NEW j \in Jobs, Refuse(j)
  PROVE  Passed(j)'
<1>1. pc'[j] \in {"free", "done"}
  BY RefuseMoves
<1> QED BY <1>1, NotPast DEF Past

LEMMA PassedMoves ==
  ASSUME TypeOK, Observe, NEW j \in Jobs, Stage(j), Passed(j), Moves(j)
  PROVE  Passed(j)'
<1>1. /\ pc \in [Jobs -> Places] /\ queued \in [Jobs -> BOOLEAN]
      /\ seat \in [Jobs -> Seats \cup {NoSeat}]
      /\ node \in [Jobs -> Nodes \cup {NoNode}]
      /\ admitted \in [Jobs -> Nodes \cup {NoNode}]
  BY DEF TypeOK
<1>2. UNCHANGED world
  BY MovesFrame
<1>3. CASE CheckToken(j)
  <2>1. CASE token = fingerprint[j]
    <3>1. pc'[j] = "identify" /\ fingerprint' = fingerprint
      BY <1>1, <1>3, <2>1 DEF CheckToken, Goto, checks
    <3>2. "token" \in Open(j)' /\ Counted(j)'
      BY <1>2, <2>1, <3>1 DEF Open, Gates, Counted, GatePlaces, world
    <3> QED BY <3>1, <3>2, Observed DEF Passed
  <2>2. CASE token # fingerprint[j]
    BY <1>3, <2>2, RefusePassed DEF CheckToken
  <2> QED BY <2>1, <2>2
<1>4. CASE Identify(j)
  <2> DEFINE n == owner[AddressOf[j]]
  <2>1. CASE n \in Nodes \ {Self}
    <3>1. pc'[j] = "authorize" /\ node'[j] = n /\ pc[j] = "identify"
      BY <1>1, <1>4, <2>1 DEF Identify, Goto
    <3>2. "node" \in Open(j)' /\ Counted(j)'
      BY <1>2, <3>1 DEF Open, Gates, Counted, GatePlaces, world
    <3>3. "token" \in since[j] \ {"trust"}
      BY <3>1 DEF Passed
    <3> QED BY <3>1, <3>2, <3>3, Observed DEF Passed
  <2>2. CASE n \notin Nodes \ {Self}
    BY <1>4, <2>2, RefusePassed DEF Identify
  <2> QED BY <2>1, <2>2
<1>5. CASE Authorize(j)
  <2>1. CASE node[j] \in trusted /\ (queued[j] => node[j] = admitted[j])
    <3>1. /\ pc'[j] = "preflight" /\ pc[j] = "authorize" /\ node' = node
          /\ admitted'[j] = node[j]
      BY <1>1, <1>5, <2>1 DEF Authorize, Goto
    <3>2. "trust" \in Open(j)' /\ Counted(j)'
      BY <1>2, <2>1, <3>1 DEF Open, Gates, Counted, GatePlaces, world
    <3>3. "token" \in since[j] /\ "node" \in since[j]
      BY <3>1 DEF Passed
    <3> QED BY <3>1, <3>2, <3>3, Observed DEF Passed
  <2>2. CASE ~(node[j] \in trusted /\ (queued[j] => node[j] = admitted[j]))
    BY <1>5, <2>2, RefusePassed DEF Authorize
  <2> QED BY <2>1, <2>2
<1>6. CASE Preflight(j)
  <2>1. CASE configOK
    <3>1. /\ pc'[j] = "scope" /\ pc[j] = "preflight" /\ node' = node
          /\ admitted' = admitted
      BY <1>1, <1>6, <2>1 DEF Preflight, Goto, checks
    <3>2. "config" \in Open(j)' /\ Counted(j)'
      BY <1>2, <2>1, <3>1 DEF Open, Gates, Counted, GatePlaces, world
    <3>3. /\ "token" \in since[j] /\ "node" \in since[j] /\ "trust" \in since[j]
          /\ node[j] = admitted[j]
      BY <3>1 DEF Passed
    <3> QED BY <3>1, <3>2, <3>3, Observed DEF Passed
  <2>2. CASE ~configOK
    BY <1>6, <2>2, RefusePassed DEF Preflight
  <2> QED BY <2>1, <2>2
<1>7. CASE Scope(j)
  <2> DEFINE s == resolve[ProfileOf[j]]
  <2>1. CASE s # NoSeat /\ (queued[j] => s = seat[j])
    <3>1. /\ pc'[j] \in {"start", "claim"} /\ pc[j] = "scope" /\ node' = node
          /\ admitted' = admitted /\ seat'[j] = s
      BY <1>1, <1>7, <2>1 DEF Scope, Goto
    <3>2. "seat" \in Open(j)' /\ Counted(j)'
      BY <1>2, <3>1 DEF Open, Gates, Counted, Owns, GatePlaces, world
    <3>3. /\ "token" \in since[j] /\ "node" \in since[j] /\ "trust" \in since[j]
          /\ "config" \in since[j] /\ node[j] = admitted[j]
      BY <3>1 DEF Passed
    <3>4. since'[j] = Gates
      BY <3>1, <3>2, <3>3, Observed DEF Gates
    <3> QED BY <3>1, <3>3, <3>4 DEF Passed
  <2>2. CASE ~(s # NoSeat /\ (queued[j] => s = seat[j]))
    BY <1>7, <2>2, RefusePassed DEF Scope
  <2> QED BY <2>1, <2>2
<1>8. ASSUME pc'[j] \in {"spawn", "start", "run"}, since[j] = Gates, node[j] = admitted[j],
             pc[j] # "identify", UNCHANGED <<node, admitted>>,
             pc'[j] = "spawn" => ~queued'[j]
      PROVE  Passed(j)'
  <2>1. Counted(j)'
    BY <1>8 DEF Counted, Owns
  <2>2. since'[j] = Gates
    BY <1>8, <2>1, Observed
  <2> QED BY <1>8, <2>2 DEF Passed
<1>9. CASE TryClaim(j)
  <2>1. /\ pc[j] = "claim" /\ ~queued[j] /\ since[j] = Gates /\ node[j] = admitted[j]
        /\ UNCHANGED <<queued, node, admitted>>
    BY <1>9 DEF TryClaim, Stage, Passed, checks
  <2>2. pc'[j] \in {"spawn", "slot"} \/ Refuse(j)
    BY <1>1, <1>9 DEF TryClaim, Goto
  <2>3. CASE pc'[j] = "slot"
    BY <2>3, NotPast DEF Past
  <2> QED BY <1>8, <2>1, <2>2, <2>3, RefusePassed
<1>10. CASE TakeSlot(j) \/ RefuseForWant(j)
  <2>1. (pc'[j] = "spawn" /\ queued'[j]) \/ Refuse(j)
    BY <1>1, <1>10 DEF TakeSlot, RefuseForWant, Goto
  <2> QED BY <2>1, NotPast, RefusePassed DEF Past
<1>11. CASE Spawn(j) \/ Start(j)
  <2>1. /\ pc[j] = "start" \/ (pc[j] = "spawn" /\ ~queued[j]) =>
             since[j] = Gates /\ node[j] = admitted[j]
        /\ UNCHANGED <<node, admitted>>
        /\ \/ pc[j] = "start" /\ pc'[j] \in {"run", "free"}
           \/ pc[j] = "spawn" /\ pc'[j] = (IF queued[j] THEN "enqueue" ELSE "start")
    BY <1>1, <1>11 DEF Spawn, Start, Passed, Goto, checks
  <2>2. CASE pc'[j] \in {"enqueue", "free"}
    BY <2>2, NotPast DEF Past
  <2>3. CASE pc'[j] \in {"run", "start"}
    BY <1>8, <2>1, <2>3
  <2> QED BY <2>1, <2>2, <2>3
<1>12. CASE Enqueue(j) \/ TakeTurn(j) \/ Heartbeat(j)
  <2>1. ASSUME NEW t, NEW queue, NEW n, NEW b \in BOOLEAN, Turn(j, t, queue, n, b)
        PROVE  pc'[j] \in {"cancelled", "expired", "seated", "turn", "asleep"}
    BY <2>1, TurnMoves
  <2>2. pc'[j] \in {"cancelled", "expired", "seated", "turn", "asleep"}
    BY <1>12, <2>1 DEF Enqueue, TakeTurn, Heartbeat
  <2> QED BY <2>2, NotPast DEF Past
<1>13. CASE EndWait(j) \/ Notify(j) \/ Finish(j) \/ FreeSeat(j) \/ Send(j) \/ SpawnFails(j)
  <2>1. pc'[j] \in {"token", "done", "free", "notify"}
    BY <1>1, <1>13 DEF EndWait, Notify, Finish, FreeSeat, Send, SpawnFails, Goto, Woken
  <2> QED BY <2>1, NotPast DEF Past
<1>14. CASE HangUp(j) \/ Expire(j)
  <2>1. UNCHANGED <<pc, queued, node, admitted>>
    BY <1>14 DEF HangUp, Expire, checks
  <2> QED BY <2>1, PassedStays
<1> QED
  BY <1>3, <1>4, <1>5, <1>6, <1>7, <1>9, <1>10, <1>11, <1>12, <1>13, <1>14
  DEF Moves, JobStep, Around

-----------------------------------------------------------------------------
(* Answers. *)

\* What Outcomes and ToldTruly say of one job.
Answered(j) ==
  /\ j \in ran => pc[j] \in {"run", "free", "notify", "done"}
  /\ pc[j] = "run" => j \in ran
  /\ outcome[j] # "nothing" => pc[j] \in {"free", "notify"}
  /\ outcome[j] = "refused" => j \notin ran
  /\ outcome[j] = "completed" => j \in ran
  /\ outcome[j] \in {"nothing", "refused", "failed", "completed"}
  /\ told[j] = "refused" => j \notin ran /\ pc[j] = "done"
  /\ told[j] = "completed" => j \in ran

LEMMA AnsweredOfAll ==
  /\ Outcomes /\ ToldTruly <=> \A j \in Jobs : Answered(j)
  /\ (Outcomes /\ ToldTruly)' <=> \A j \in Jobs : Answered(j)'
BY DEF Outcomes, ToldTruly, Answered

LEMMA HearsWhat ==
  ASSUME TypeOK, NEW j \in Jobs, NEW a, Hears(j, a)
  PROVE  told'[j] = a \/ told'[j] = told[j]
BY DEF TypeOK, Hears

\* Nothing is said of the end of a job that has not come to it.
LEMMA AnsweredBefore ==
  ASSUME NEW j \in Jobs, Answered(j), pc[j] \notin {"run", "free", "notify", "done"}
  PROVE  j \notin ran /\ outcome[j] = "nothing" /\ told[j] \notin {"refused", "completed"}
BY DEF Answered

LEMMA AnsweredStays ==
  ASSUME NEW j \in Jobs, Answered(j), UNCHANGED <<outcome, ran>>,
         pc[j] \notin {"run", "free", "notify", "done"}, pc'[j] # "run",
         told'[j] \in {told[j], "accepted", "queued"}
  PROVE  Answered(j)'
BY AnsweredBefore DEF Answered

LEMMA RefuseAnswers ==
  ASSUME TypeOK, NEW j \in Jobs, Answered(j), Refuse(j), ran' = ran,
         pc[j] \notin {"run", "free", "notify", "done"}
  PROVE  Answered(j)'
<1>1. j \notin ran /\ outcome[j] = "nothing" /\ told[j] \notin {"refused", "completed"}
  BY AnsweredBefore
<1>2. /\ pc \in [Jobs -> Places] /\ outcome \in [Jobs -> Answers]
      /\ told \in [Jobs -> Answers]
  BY DEF TypeOK
<1>3. CASE queued[j]
  BY <1>1, <1>2, <1>3 DEF Refuse, Goto, Answered
<1>4. CASE ~queued[j]
  <2>1. pc'[j] = "done" /\ outcome' = outcome /\ Hears(j, "refused")
    BY <1>2, <1>4 DEF Refuse, Goto
  <2>2. told'[j] \in {told[j], "refused"}
    BY <2>1, HearsWhat
  <2> QED BY <1>1, <2>1, <2>2 DEF Answered
<1> QED BY <1>3, <1>4

LEMMA AnsweredMoves ==
  ASSUME TypeOK, NEW j \in Jobs, Answered(j), Stage(j), Moves(j)
  PROVE  Answered(j)'
<1>1. /\ pc \in [Jobs -> Places] /\ outcome \in [Jobs -> Answers]
      /\ told \in [Jobs -> Answers] /\ ran \subseteq Jobs
  BY DEF TypeOK
<1>2. CASE \/ CheckToken(j) \/ Identify(j) \/ Authorize(j) \/ Preflight(j) \/ Scope(j)
           \/ TryClaim(j) \/ TakeSlot(j) \/ RefuseForWant(j)
  <2>1. /\ pc[j] \in {"token", "identify", "authorize", "preflight", "scope", "claim",
                      "slot"}
        /\ ran' = ran
        /\ \/ Refuse(j)
           \/ /\ UNCHANGED telling
              /\ pc'[j] \in {"identify", "authorize", "preflight", "scope", "claim",
                             "start", "slot", "spawn"}
    BY <1>1, <1>2
    DEF CheckToken, Identify, Authorize, Preflight, Scope, TryClaim, TakeSlot,
        RefuseForWant, Goto, tracing
  <2>2. CASE Refuse(j)
    BY <2>1, <2>2, RefuseAnswers
  <2>3. CASE ~Refuse(j)
    BY <2>1, <2>3, AnsweredStays DEF telling
  <2> QED BY <2>2, <2>3
<1>3. CASE Spawn(j)
  <2>1. /\ pc[j] = "spawn" /\ pc'[j] \in {"enqueue", "start"} /\ UNCHANGED <<outcome, ran>>
    BY <1>1, <1>3 DEF Spawn, Goto, tracing
  <2>2. told'[j] \in {told[j], "accepted", "queued"}
    BY <1>3, HearsWhat DEF Spawn
  <2> QED BY <2>1, <2>2, AnsweredStays
<1>4. CASE SpawnFails(j)
  <2>1. pc[j] = "spawn" /\ ran' = ran
    BY <1>4 DEF SpawnFails, tracing
  <2>2. j \notin ran /\ outcome[j] = "nothing" /\ told[j] \notin {"refused", "completed"}
    BY <2>1, AnsweredBefore
  <2>3. CASE queued[j]
    <3>1. pc'[j] = "done" /\ outcome' = outcome /\ Hears(j, "refused")
      BY <1>1, <1>4, <2>3 DEF SpawnFails, Goto
    <3>2. told'[j] \in {told[j], "refused"}
      BY <3>1, HearsWhat
    <3> QED BY <2>1, <2>2, <3>1, <3>2 DEF Answered
  <2>4. CASE ~queued[j]
    <3>1. pc'[j] = "free" /\ outcome'[j] = "refused" /\ told' = told
      BY <1>1, <1>4, <2>4 DEF SpawnFails, Goto
    <3> QED BY <2>1, <2>2, <3>1 DEF Answered
  <2> QED BY <2>3, <2>4
<1>5. CASE Enqueue(j) \/ TakeTurn(j) \/ Heartbeat(j)
  <2>1. ASSUME NEW t, NEW queue, NEW n, NEW b \in BOOLEAN, Turn(j, t, queue, n, b)
        PROVE  /\ pc'[j] \in {"cancelled", "expired", "seated", "turn", "asleep"}
               /\ UNCHANGED <<outcome, ran>>
               /\ told'[j] \in {told[j], "queued"}
    <3>1. UNCHANGED <<outcome, ran>> /\ (told' = told \/ Hears(j, "queued"))
      BY <2>1 DEF Turn
    <3> QED BY <2>1, <3>1, TurnMoves, HearsWhat
  <2>2. /\ pc'[j] \in {"cancelled", "expired", "seated", "turn", "asleep"}
        /\ UNCHANGED <<outcome, ran>>
        /\ told'[j] \in {told[j], "queued"}
    BY <1>5, <2>1 DEF Enqueue, TakeTurn, Heartbeat
  <2>3. pc[j] \in {"enqueue", "turn", "asleep"}
    BY <1>5 DEF Enqueue, TakeTurn, Heartbeat
  <2> QED BY <2>2, <2>3, AnsweredStays
<1>6. CASE EndWait(j)
  <2>1. pc[j] \in {"seated", "cancelled", "expired"} /\ UNCHANGED <<outcome, ran>>
    BY <1>6 DEF EndWait, tracing
  <2>2. pc'[j] = (IF pc[j] = "seated" THEN "token" ELSE "done")
    BY <1>1, <1>6 DEF EndWait, Goto, Woken
  <2>3. told'[j] = told[j] \/ (pc[j] = "expired" /\ told'[j] = "refused")
    BY <1>6, HearsWhat DEF EndWait
  <2>4. j \notin ran /\ outcome[j] = "nothing" /\ told[j] \notin {"refused", "completed"}
    BY <2>1, AnsweredBefore
  <2> QED BY <2>1, <2>2, <2>3, <2>4 DEF Answered
<1>7. CASE Start(j)
  <2>1. pc[j] = "start" /\ told' = told
    BY <1>7 DEF Start
  <2>2. j \notin ran /\ outcome[j] = "nothing" /\ told[j] \notin {"refused", "completed"}
    BY <2>1, AnsweredBefore
  <2>3. \/ pc'[j] = "free" /\ UNCHANGED <<outcome, ran>>
        \/ pc'[j] = "run" /\ ran' = ran \cup {j} /\ UNCHANGED outcome
        \/ pc'[j] = "free" /\ outcome'[j] = "failed" /\ ran' = ran
    BY <1>1, <1>7 DEF Start, Goto
  <2> QED BY <2>1, <2>2, <2>3 DEF Answered
<1>8. CASE Finish(j)
  <2>1. /\ pc[j] = "run" /\ pc'[j] = "free" /\ outcome'[j] = "completed"
        /\ UNCHANGED <<told, ran>>
    BY <1>1, <1>8 DEF Finish, Goto, tracing
  <2> QED BY <2>1 DEF Answered
<1>9. CASE FreeSeat(j)
  <2>1. pc[j] = "free" /\ pc'[j] = "notify" /\ UNCHANGED <<told, outcome, ran>>
    BY <1>1, <1>9 DEF FreeSeat, Goto, telling, tracing
  <2> QED BY <2>1 DEF Answered
<1>10. CASE Notify(j)
  <2>1. /\ pc[j] = "notify" /\ pc'[j] = "done" /\ outcome'[j] = "nothing" /\ ran' = ran
    BY <1>1, <1>10 DEF Notify, Woken, tracing
  <2>2. told'[j] = told[j] \/ (outcome[j] # "nothing" /\ told'[j] = outcome[j])
    BY <1>10, HearsWhat DEF Notify
  <2> QED BY <2>1, <2>2 DEF Answered
<1>11. CASE Send(j)
  <2>1. pc[j] = "unsent" /\ pc'[j] = "token" /\ UNCHANGED <<outcome, told, ran>>
    BY <1>1, <1>11 DEF Send, Goto, telling, tracing
  <2> QED BY <2>1, AnsweredStays
<1>12. CASE HangUp(j) \/ Expire(j)
  <2>1. UNCHANGED <<pc, outcome, told, ran>>
    BY <1>12 DEF HangUp, Expire, telling, tracing
  <2> QED BY <2>1 DEF Answered
<1> QED
  BY <1>2, <1>3, <1>4, <1>5, <1>6, <1>7, <1>8, <1>9, <1>10, <1>11, <1>12
  DEF Moves, JobStep, Around

LEMMA AnsweredElsewhere ==
  ASSUME NEW i \in Jobs, Answered(i), Elsewhere(i)
  PROVE  Answered(i)'
BY DEF Answered, Elsewhere

-----------------------------------------------------------------------------
(* The invariant. *)

LEMMA InitIInv ==
  ASSUME Init
  PROVE  IInv
<1>1. TypeOK
  <2>1. NoNode \in Nodes \cup {NoNode} /\ Home \in [Addresses -> Nodes \cup {NoNode}]
    BY ConstantsTyped
  <2> QED BY <2>1, ConstantsTyped, PlaceNames DEF Init, BookInit, TypeOK, Claims, Waiters
<1>2. \A j \in Jobs : ~Owns(j) /\ ~Waits(j) /\ ~HasSlot(j)
  BY DEF Init, Owns, Waits, HasSlot, GatePlaces, WaitPlaces
<1>3. Stages
  BY <1>2 DEF Stages, Init, WaitPlaces
<1>4. SeatsAreOwned /\ QueueIsOfWaiters /\ Tickets /\ WidthsKept /\ ServedInOrder
  BY <1>2 DEF Init, BookInit, SeatsAreOwned, QueueIsOfWaiters, Tickets, WidthsKept,
     ServedInOrder
<1>5. NoLostWakeup /\ GatesPassed /\ Outcomes /\ ToldTruly
  BY DEF Init, NoLostWakeup, GatesPassed, Outcomes, ToldTruly
<1>6. SlotsKept
  <2> SUFFICES ASSUME NEW n \in Nodes
               PROVE  /\ slots[n] <= QueueCap
                      /\ slots[n] = Cardinality({j \in Jobs : HasSlot(j) /\ admitted[j] = n})
    BY DEF SlotsKept
  <2>1. slots[n] = 0
    BY DEF Init
  <2>2. {j \in Jobs : HasSlot(j) /\ admitted[j] = n} = {}
    BY <1>2
  <2> QED BY <2>1, <2>2, ConstantsTyped, FS_EmptySet
<1> QED BY <1>1, <1>3, <1>4, <1>5, <1>6 DEF IInv

\* A step of a job keeps the invariant: its types first, then what it does in the
\* book, to the sleepers, to the queue slots, to the gates and to the answers.
LEMMA MovesKeep ==
  ASSUME IInv, Observe, NEW j \in Jobs, Moves(j)
  PROVE  IInv'
<1>1. /\ TypeOK /\ Stages /\ SeatsAreOwned /\ QueueIsOfWaiters /\ Tickets
      /\ WidthsKept /\ ServedInOrder /\ NoLostWakeup /\ GatesPassed /\ Outcomes
      /\ ToldTruly /\ SlotsKept
  BY DEF IInv
<1>2. \A i \in Jobs \ {j} : Elsewhere(i)
  BY <1>1, OthersFrame
<1>3. \A i \in Jobs : Stage(i) /\ Passed(i) /\ Answered(i)
  BY <1>1, StageOfAll, PassedOfAll, AnsweredOfAll
<1>4. SlotsKept' /\ slots' \in [Nodes -> Nat]
  BY <1>1, <1>3, SlotMoves, SlotsKeptKept
<1>5. TypeOK'
  <2>1. BookTyped' /\ PlacesTyped' /\ ChecksTyped' /\ AnswersTyped'
    BY <1>1, MovesTypes
  <2>2. since' \in [Jobs -> SUBSET Gates]
    BY <1>1, ObserveTypes
  <2>3. changes' \in 0..MaxChanges
    <3>1. changes \in 0..MaxChanges
      BY <1>1 DEF TypeOK
    <3>2. changes' = changes \/ (changes < MaxChanges /\ changes' = changes + 1)
      BY MovesFrame DEF Change
    <3> QED BY <3>1, <3>2, ConstantsTyped
  <2>4. WorldTyped'
    <3>1. WorldTyped /\ UNCHANGED <<policy, world>>
      BY <1>1, TypeParts, MovesFrame
    <3> QED BY <2>3, <3>1 DEF WorldTyped, world
  <2> QED BY <1>4, <2>1, <2>2, <2>4, TypeParts
<1>6. Stages'
  <2>1. \A i \in Jobs : Stage(i)'
    BY <1>1, <1>2, <1>3, StageKept, ElsewhereStays
  <2> QED BY <2>1, StageOfAll
<1>7. BookStep(j)
  BY <1>1, <1>3, MovesBook
<1>8. SeatsAreOwned' /\ QueueIsOfWaiters' /\ Tickets' /\ WidthsKept' /\ ServedInOrder'
  BY <1>1, <1>5, <1>7, SeatsKept, QueueKept, TicketsKept, WidthsKeptKept, OrderKept
<1>9. NoLostWakeup'
  BY <1>1, <1>6, <1>7, <1>8, WakeupKept
<1>10. GatesPassed'
  <2>1. \A i \in Jobs \ {j} : Passed(i)'
    BY <1>1, <1>2, <1>3, PassedStays DEF Elsewhere
  <2>2. Passed(j)'
    BY <1>1, <1>3, PassedMoves
  <2> QED BY <2>1, <2>2, PassedOfAll
<1>11. Outcomes' /\ ToldTruly'
  <2>1. \A i \in Jobs : Answered(i)'
    BY <1>1, <1>2, <1>3, AnsweredMoves, AnsweredElsewhere
  <2> QED BY <2>1, AnsweredOfAll
<1> QED BY <1>4, <1>5, <1>6, <1>8, <1>9, <1>10, <1>11 DEF IInv

\* The rest of the invariant reads nothing but the book and the jobs.
LEMMA UntouchedKeep ==
  ASSUME UNCHANGED <<book, jobVars>>
  PROVE  /\ Stages' = Stages /\ SeatsAreOwned' = SeatsAreOwned
         /\ QueueIsOfWaiters' = QueueIsOfWaiters /\ Tickets' = Tickets
         /\ WidthsKept' = WidthsKept /\ ServedInOrder' = ServedInOrder
         /\ NoLostWakeup' = NoLostWakeup /\ Outcomes' = Outcomes
         /\ ToldTruly' = ToldTruly /\ SlotsKept' = SlotsKept
BY DEF book, jobVars, checks, telling, tracing, Stages, SeatsAreOwned, QueueIsOfWaiters,
   Tickets, WidthsKept, Before, ServedInOrder, NoLostWakeup, Occupied, First, Outcomes,
   ToldTruly, SlotsKept, Owns, Waits, HasSlot

LEMMA WorldKeeps ==
  ASSUME IInv, Observe, WorldChanges
  PROVE  IInv'
<1>1. WorldTyped' /\ UNCHANGED <<book, jobVars>>
  BY WorldTypes DEF IInv
<1>2. TypeOK'
  <2>1. BookTyped /\ PlacesTyped /\ ChecksTyped /\ AnswersTyped /\ slots \in [Nodes -> Nat]
    BY TypeParts DEF IInv
  <2>2. BookTyped' /\ PlacesTyped' /\ ChecksTyped' /\ AnswersTyped'
        /\ slots' \in [Nodes -> Nat]
    BY <1>1, <2>1
    DEF book, jobVars, checks, telling, tracing, BookTyped, PlacesTyped, ChecksTyped,
        AnswersTyped
  <2>3. since' \in [Jobs -> SUBSET Gates]
    BY ObserveTypes DEF IInv
  <2> QED BY <1>1, <2>2, <2>3, TypeParts
<1>3. GatesPassed'
  <2>1. \A i \in Jobs : Passed(i)
    BY PassedOfAll DEF IInv
  <2>2. UNCHANGED <<pc, queued, node, admitted>>
    BY <1>1 DEF jobVars, checks
  <2>3. \A i \in Jobs : Passed(i)'
    BY <2>1, <2>2, PassedStays DEF IInv
  <2> QED BY <2>3, PassedOfAll
<1> QED BY <1>1, <1>2, <1>3, UntouchedKeep DEF IInv

LEMMA StutterKeeps ==
  ASSUME IInv, UNCHANGED vars
  PROVE  IInv'
<1>1. UNCHANGED <<book, jobVars>> /\ UNCHANGED <<policy, world, changes, since>>
  BY DEF vars
<1>2. TypeOK'
  BY <1>1 DEF IInv, TypeOK, book, jobVars, checks, telling, tracing, world
<1>3. GatesPassed'
  BY <1>1 DEF IInv, GatesPassed, jobVars, checks
<1> QED BY <1>1, <1>2, <1>3, UntouchedKeep DEF IInv

\* The invariant, of every number of jobs, nodes, profiles, keys and changes.
THEOREM Invariance == Spec => []IInv
<1>1. Init => IInv
  BY InitIInv
<1>2. IInv /\ [Next]_vars => IInv'
  BY StepOf, MovesKeep, WorldKeeps, StutterKeeps
<1> QED BY <1>1, <1>2, PTL DEF Spec

-----------------------------------------------------------------------------
(* What follows from it. *)

\* A non-empty set of naturals has a least element.
LEMMA LeastTicket ==
  ASSUME NEW T \in SUBSET Nat, T # {}
  PROVE  \E m \in T : \A n \in T : m <= n
<1> DEFINE R == {p \in Nat \X Nat : p[1] < p[2]}
<1>1. IsWellFoundedOn(R, Nat)
  BY Zenon, NatLessThanWellFounded DEF OpToRel
<1>2. \A x, y \in Nat : x < y => <<x, y>> \in R
  OBVIOUS
<1> HIDE DEF R
<1>3. PICK m \in T : \A n \in T : ~ (<<n, m>> \in R)
  BY <1>1, WFMin
<1>4. \A n \in T : n \in Nat /\ ~ (n < m)
  BY <1>2, <1>3
<1> QED BY <1>4

\* The owner of a key that came last was within its width, and all others were
\* there before it.
LEMMA LastOwner ==
  ASSUME IInv
  PROVE  WidthKept
<1> SUFFICES ASSUME NEW k \in Keys, held[k] # {}
             PROVE  \E j \in Jobs : /\ Owns(j) /\ seat[j].key = k
                                    /\ Cardinality(held[k]) <= seat[j].width
  BY DEF WidthKept
<1>1. TypeOK /\ Tickets /\ SeatsAreOwned /\ WidthsKept
  BY DEF IInv
<1>2. Cardinality(held[k]) = Cardinality(Owners(k))
  BY <1>1, ClaimsCounted
<1>3. Owners(k) # {}
  BY <1>1 DEF SeatsAreOwned, Owners
<1>4. \A i \in Owners(k) : /\ i \in Jobs /\ Owns(i) /\ seat[i].key = k
                           /\ ticket[i] \in Nat /\ nextTicket \in Nat
                           /\ ticket[i] < nextTicket
  BY <1>1 DEF Owners, Tickets, TypeOK
<1> DEFINE T == {nextTicket - ticket[i] : i \in Owners(k)}
<1>5. T \in SUBSET Nat /\ T # {}
  BY <1>3, <1>4
<1>6. PICK m \in T : \A n \in T : m <= n
  BY <1>5, LeastTicket
<1>7. PICK j \in Owners(k) : m = nextTicket - ticket[j]
  BY <1>6
<1>8. ASSUME NEW i \in Owners(k)
      PROVE  ticket[i] <= ticket[j]
  <2>1. nextTicket - ticket[j] <= nextTicket - ticket[i]
    BY <1>6, <1>7
  <2> QED BY <1>4, <2>1
<1>9. Before(j) = Owners(k)
  BY <1>4, <1>8 DEF Before, Owners
<1>10. Cardinality(Before(j)) <= seat[j].width
  BY <1>1, <1>4 DEF WidthsKept
<1> QED BY <1>2, <1>4, <1>9, <1>10

\* Every variable has its type.
THEOREM TypeCorrect == Spec => []TypeOK
<1>1. IInv => TypeOK
  BY DEF IInv
<1> QED BY <1>1, Invariance, PTL

\* The book holds a claim for each guard that is alive and none else: no seat is
\* leaked, freed early, or freed by another's guard (SeatGuard).
THEOREM SeatsOwned == Spec => []SeatsAreOwned
<1>1. IInv => SeatsAreOwned
  BY DEF IInv
<1> QED BY <1>1, Invariance, PTL

\* A key is never held by more jobs than its width (SeatBook::occupied).
THEOREM WithinWidth == Spec => []WidthKept
<1>1. IInv => WidthKept
  BY LastOwner
<1> QED BY <1>1, Invariance, PTL

\* Nobody overtakes those who wait (blocker, claim_waiting).
THEOREM InOrder == Spec => []ServedInOrder
<1>1. IInv => ServedInOrder
  BY DEF IInv
<1> QED BY <1>1, Invariance, PTL

\* No wake-up is lost between the lock and the condition variable.
THEOREM WakeupsKept == Spec => []NoLostWakeup
<1>1. IInv => NoLostWakeup
  BY DEF IInv
<1> QED BY <1>1, Invariance, PTL

\* Nothing runs that the gates did not let pass, at its arrival or, if it waited,
\* since it has its seat (Worker::recheck).
THEOREM WithinGates == Spec => []RanWithinGates
<1>1. IInv => RanWithinGates
  BY DEF IInv, GatesPassed, RanWithinGates
<1> QED BY <1>1, Invariance, PTL

\* A sender that hears of a refusal may send its job elsewhere (refuse_late).
THEOREM Truthful == Spec => []ToldTruly
<1>1. IInv => ToldTruly
  BY DEF IInv
<1> QED BY <1>1, Invariance, PTL

\* Who waits has a queue slot, so the waiters of a node are no more than its slots.
LEMMA WaitersHaveSlots ==
  ASSUME IInv
  PROVE  QueueBounded
<1> SUFFICES ASSUME NEW n \in Nodes
             PROVE  Cardinality({j \in Jobs : Waits(j) /\ admitted[j] = n}) <= QueueCap
  BY DEF IInv, SlotsKept, QueueBounded
<1> DEFINE W == {j \in Jobs : Waits(j) /\ admitted[j] = n}
<1>1. slots[n] <= QueueCap /\ slots[n] = Cardinality(Holders(n)) /\ slots[n] \in Nat
  BY DEF IInv, SlotsKept, TypeOK, Holders
<1>2. W \subseteq Holders(n)
  BY DEF IInv, Stages, Waits, HasSlot, Holders
<1>3. Holders(n) \in SUBSET Jobs
  BY DEF Holders
<1>4. IsFiniteSet(Holders(n))
  BY <1>3, JobsFinite, FS_Subset
<1>5. IsFiniteSet(W) /\ Cardinality(W) <= Cardinality(Holders(n))
  BY <1>2, <1>4, FS_Subset
<1>6. Cardinality(W) \in Nat
  BY <1>5, FS_CardinalityType
<1> QED BY <1>1, <1>5, <1>6, ConstantsTyped

\* A peer has no more jobs in the queue than it may, and each slot it holds is a
\* job's (NODE_CAP, KeySlots).
THEOREM QueueWithinCap == Spec => []QueueBounded
<1>1. IInv => QueueBounded
  BY WaitersHaveSlots
<1> QED BY <1>1, Invariance, PTL

\* A local model is never given to two jobs at once: there is no width to edit.
THEOREM LocalModelsAlone == Spec => [](\A k \in LocalKeys : Cardinality(held[k]) <= 1)
<1>1. ASSUME IInv, NEW k \in LocalKeys
      PROVE  Cardinality(held[k]) <= 1
  <2>1. k \in Keys
    BY ConstantsTyped
  <2>2. CASE held[k] = {}
    BY <2>2, FS_EmptySet
  <2>3. CASE held[k] # {}
    <3>1. PICK j \in Jobs :
            Owns(j) /\ seat[j].key = k /\ Cardinality(held[k]) <= seat[j].width
      BY <1>1, <2>1, <2>3, LastOwner DEF WidthKept
    <3>2. seat[j] \in Seats
      BY <1>1, <3>1 DEF IInv, Stages
    <3>3. seat[j].width = 1
      BY <3>1, <3>2 DEF Seats
    <3> QED BY <3>1, <3>3
  <2> QED BY <2>2, <2>3
<1>2. IInv => \A k \in LocalKeys : Cardinality(held[k]) <= 1
  BY <1>1
<1> QED BY <1>2, Invariance, PTL

-----------------------------------------------------------------------------
(* How far a job has come. *)

\* The distances of the places, before and after a step.
LEMMA Distances ==
  ASSUME NEW j \in Jobs
  PROVE  /\ pc[j] = "unsent" => Distance(j) = 21
         /\ pc[j] \in GatePlaces =>
              Distance(j) = GatesLeft(pc[j]) + (IF queued[j] THEN 4 ELSE 15)
         /\ pc[j] = "claim" => Distance(j) = 15
         /\ pc[j] = "slot" => Distance(j) = 14
         /\ pc[j] = "spawn" => Distance(j) = 13
         /\ pc[j] = "enqueue" => Distance(j) = 12
         /\ pc[j] \in WaitPlaces => Distance(j) = 11
         /\ pc[j] \in {"seated", "cancelled", "expired"} => Distance(j) = 10
         /\ pc[j] = "start" => Distance(j) = 4
         /\ pc[j] = "run" => Distance(j) = 3
         /\ pc[j] = "free" => Distance(j) = 2
         /\ pc[j] = "notify" => Distance(j) = 1
         /\ pc[j] = "done" => Distance(j) = 0
BY DEF Distance, GatePlaces, WaitPlaces

LEMMA DistancesAfter ==
  ASSUME NEW j \in Jobs
  PROVE  /\ pc'[j] \in GatePlaces =>
              Distance(j)' = GatesLeft(pc'[j]) + (IF queued'[j] THEN 4 ELSE 15)
         /\ pc'[j] = "claim" => Distance(j)' = 15
         /\ pc'[j] = "slot" => Distance(j)' = 14
         /\ pc'[j] = "spawn" => Distance(j)' = 13
         /\ pc'[j] = "enqueue" => Distance(j)' = 12
         /\ pc'[j] \in WaitPlaces => Distance(j)' = 11
         /\ pc'[j] \in {"seated", "cancelled", "expired"} => Distance(j)' = 10
         /\ pc'[j] = "start" => Distance(j)' = 4
         /\ pc'[j] = "run" => Distance(j)' = 3
         /\ pc'[j] = "free" => Distance(j)' = 2
         /\ pc'[j] = "notify" => Distance(j)' = 1
         /\ pc'[j] = "done" => Distance(j)' = 0
BY DEF Distance, GatePlaces, WaitPlaces

LEMMA GatesCounted ==
  /\ GatesLeft("token") = 5 /\ GatesLeft("identify") = 4 /\ GatesLeft("authorize") = 3
  /\ GatesLeft("preflight") = 2 /\ GatesLeft("scope") = 1
BY DEF GatesLeft

\* A refusal takes a job from a gate, its claim or its slot to its end.
LEMMA RefuseNearer ==
  ASSUME TypeOK, NEW j \in Jobs, Stage(j), Refuse(j),
         pc[j] \in GatePlaces \cup {"claim", "slot"}
  PROVE  Nearer(j)
<1>1. /\ queued[j] \in BOOLEAN /\ (queued[j] => pc[j] \in GatePlaces)
  BY DEF TypeOK, Stage
<1>2. pc[j] \in GatePlaces => GatesLeft(pc[j]) \in 1..5
  BY GatesCounted DEF GatePlaces
<1>3. CASE queued[j]
  <2>1. Distance(j)' = 2
    BY <1>3, RefuseMoves, DistancesAfter
  <2>2. Distance(j) = GatesLeft(pc[j]) + 4
    BY <1>1, <1>3, Distances
  <2> QED BY <1>1, <1>2, <1>3, <2>1, <2>2 DEF Nearer
<1>4. CASE ~queued[j]
  <2>1. Distance(j)' = 0
    BY <1>4, RefuseMoves, DistancesAfter
  <2>2. Distance(j) \in {GatesLeft(pc[j]) + 15, 15, 14} /\ Distance(j) > 0
    BY <1>2, <1>4, Distances
  <2> QED BY <2>1, <2>2 DEF Nearer
<1> QED BY <1>1, <1>3, <1>4

\* A job's own step takes it nearer, or to sleep; what wakes others takes it nearer.
LEMMA MovesNearer ==
  ASSUME TypeOK, NEW j \in Jobs, Stage(j), Moves(j)
  PROVE  \/ Nearer(j)
         \/ /\ \A i \in Jobs \ {j} : pc'[i] = pc[i]
            /\ \/ pc'[j] = pc[j]
               \/ pc[j] = "turn" /\ pc'[j] = "asleep"
               \/ Heartbeat(j) /\ pc'[j] = "turn"
<1>1. pc \in [Jobs -> Places] /\ queued \in [Jobs -> BOOLEAN]
  BY DEF TypeOK
<1>2. CASE CheckToken(j) \/ Identify(j) \/ Authorize(j) \/ Preflight(j)
  <2>1. pc[j] \in GatePlaces /\ queued'[j] = queued[j]
    BY <1>2 DEF CheckToken, Identify, Authorize, Preflight, GatePlaces
  <2>2. CASE Refuse(j)
    BY <2>1, <2>2, RefuseNearer
  <2>3. CASE ~Refuse(j)
    <3>1. /\ pc'[j] \in GatePlaces
          /\ GatesLeft(pc'[j]) \in Nat /\ GatesLeft(pc[j]) \in Nat
          /\ GatesLeft(pc'[j]) < GatesLeft(pc[j])
      BY <1>1, <1>2, <2>3, GatesCounted
      DEF CheckToken, Identify, Authorize, Preflight, Goto, GatePlaces
    <3>2. Distance(j) = GatesLeft(pc[j]) + (IF queued[j] THEN 4 ELSE 15)
      BY <2>1, Distances
    <3>3. Distance(j)' = GatesLeft(pc'[j]) + (IF queued[j] THEN 4 ELSE 15)
      BY <2>1, <3>1, DistancesAfter
    <3> QED BY <3>1, <3>2, <3>3 DEF Nearer
  <2> QED BY <2>2, <2>3
<1>3. CASE Scope(j)
  <2>1. pc[j] = "scope" /\ pc[j] \in GatePlaces
    BY <1>3 DEF Scope, GatePlaces
  <2>2. CASE Refuse(j)
    BY <2>1, <2>2, RefuseNearer
  <2>3. CASE ~Refuse(j)
    <3>1. pc'[j] = (IF queued[j] THEN "start" ELSE "claim")
      BY <1>1, <1>3, <2>3 DEF Scope, Goto
    <3>2. Distance(j) = (IF queued[j] THEN 5 ELSE 16)
      BY <2>1, GatesCounted, Distances
    <3>3. Distance(j)' = (IF queued[j] THEN 4 ELSE 15)
      BY <3>1, DistancesAfter
    <3> QED BY <3>2, <3>3 DEF Nearer
  <2> QED BY <2>2, <2>3
<1>4. CASE TryClaim(j) \/ TakeSlot(j) \/ RefuseForWant(j)
  <2>1. pc[j] \in {"claim", "slot", "authorize"} /\ pc[j] \in GatePlaces \cup {"claim", "slot"}
    BY <1>4 DEF TryClaim, TakeSlot, RefuseForWant, GatePlaces
  <2>2. CASE Refuse(j)
    BY <2>1, <2>2, RefuseNearer
  <2>3. CASE ~Refuse(j)
    <3>1. \/ pc[j] = "claim" /\ pc'[j] \in {"spawn", "slot"}
          \/ pc[j] = "slot" /\ pc'[j] = "spawn"
      BY <1>1, <1>4, <2>3 DEF TryClaim, TakeSlot, RefuseForWant, Goto
    <3> QED BY <3>1, Distances, DistancesAfter DEF Nearer
  <2> QED BY <2>2, <2>3
<1>5. CASE Spawn(j) \/ SpawnFails(j)
  <2>1. pc[j] = "spawn" /\ pc'[j] \in {"enqueue", "start", "done", "free"}
    BY <1>1, <1>5 DEF Spawn, SpawnFails, Goto
  <2> QED BY <2>1, Distances, DistancesAfter DEF Nearer
<1>6. ASSUME NEW t, NEW queue, NEW n, NEW b \in BOOLEAN, Turn(j, t, queue, n, b),
             pc[j] \in WaitPlaces \cup {"enqueue"}
      PROVE  \/ Nearer(j)
             \/ /\ pc[j] \in WaitPlaces /\ pc'[j] = IF b THEN "turn" ELSE "asleep"
                /\ \A i \in Jobs \ {j} : pc'[i] = pc[i]
  <2>1. Distance(j) = IF pc[j] = "enqueue" THEN 12 ELSE 11
    BY <1>6, Distances DEF WaitPlaces
  <2>2. CASE pc'[j] \in {"cancelled", "expired", "seated"}
    BY <2>1, <2>2, DistancesAfter DEF Nearer
  <2>3. CASE pc'[j] \in WaitPlaces
    <3>1. /\ pc'[j] = IF b THEN "turn" ELSE "asleep"
          /\ \A i \in Jobs \ {j} : pc'[i] = pc[i]
      BY <1>1, <1>6, <2>3 DEF Turn, Leave, Woken, Goto, WaitPlaces
    <3>2. Distance(j)' = 11
      BY <2>3, DistancesAfter
    <3> QED BY <1>6, <2>1, <3>1, <3>2 DEF Nearer
  <2> QED BY <1>6, <2>2, <2>3, TurnMoves DEF WaitPlaces
<1>7. CASE Enqueue(j)
  <2>1. pc[j] = "enqueue" /\ pc[j] \notin WaitPlaces
    BY <1>7 DEF Enqueue, WaitPlaces
  <2>2. Turn(j, nextTicket, waiting \cup {[ticket |-> nextTicket, key |-> seat[j].key]},
             nextTicket + 1, TRUE)
    BY <1>7 DEF Enqueue
  <2> QED BY <1>6, <2>1, <2>2
<1>8. CASE TakeTurn(j)
  <2>1. pc[j] = "turn" /\ pc[j] \in WaitPlaces /\ Turn(j, ticket[j], waiting, nextTicket, FALSE)
    BY <1>8 DEF TakeTurn, WaitPlaces
  <2> QED BY <1>6, <2>1
<1>9. CASE Heartbeat(j)
  <2>1. pc[j] \in WaitPlaces /\ Turn(j, ticket[j], waiting, nextTicket, TRUE)
    BY <1>9 DEF Heartbeat, WaitPlaces
  <2> QED BY <1>6, <1>9, <2>1
<1>10. CASE EndWait(j)
  <2>1. pc[j] \in {"seated", "cancelled", "expired"} /\ queued[j] /\ queued'[j]
    BY <1>10 DEF EndWait, Stage
  <2>2. pc'[j] \in {"token", "done"}
    BY <1>1, <1>10 DEF EndWait, Goto, Woken
  <2>3. Distance(j)' \in {9, 0}
    BY <2>1, <2>2, GatesCounted, DistancesAfter DEF GatePlaces
  <2> QED BY <2>1, <2>3, Distances DEF Nearer
<1>11. CASE Notify(j)
  <2>1. pc[j] = "notify" /\ pc'[j] = "done"
    BY <1>1, <1>11 DEF Notify, Woken
  <2> QED BY <2>1, Distances, DistancesAfter DEF Nearer
<1>12. CASE Start(j) \/ Finish(j) \/ FreeSeat(j)
  <2>1. \/ pc[j] = "start" /\ pc'[j] \in {"run", "free"}
        \/ pc[j] = "run" /\ pc'[j] = "free"
        \/ pc[j] = "free" /\ pc'[j] = "notify"
    BY <1>1, <1>12 DEF Start, Finish, FreeSeat, Goto
  <2> QED BY <2>1, Distances, DistancesAfter DEF Nearer
<1>13. CASE Send(j)
  <2>1. pc[j] = "unsent" /\ pc'[j] = "token" /\ ~queued[j] /\ ~queued'[j]
    BY <1>1, <1>13 DEF Send, Goto, Stage
  <2>2. Distance(j)' = 20
    BY <2>1, GatesCounted, DistancesAfter DEF GatePlaces
  <2> QED BY <2>1, <2>2, Distances DEF Nearer
<1>14. CASE HangUp(j) \/ Expire(j)
  BY <1>14 DEF HangUp, Expire
<1> QED
  BY <1>2, <1>3, <1>4, <1>5, <1>7, <1>8, <1>9, <1>10, <1>11, <1>12, <1>13, <1>14
  DEF Moves, JobStep, Around

\* No job goes in circles, and no waiters keep each other awake: what is left of
\* EveryJobEnds is that each job's thread goes on.
THEOREM GoForward == Spec => JobsGoForward
<1> DEFINE Forward(j) == pc'[j] # pc[j] =>
      \/ Nearer(j)
      \/ pc[j] = "turn" /\ pc'[j] = "asleep"
      \/ /\ pc[j] = "asleep" /\ pc'[j] = "turn"
         /\ Heartbeat(j) \/ \E k \in Jobs : Nearer(k)
<1>1. ASSUME IInv, NEW j \in Jobs, Moves(j), NEW i \in Jobs
      PROVE  Forward(i)
  <2>1. TypeOK /\ Stage(j)
    BY <1>1, StageOfAll DEF IInv
  <2>2. CASE i = j
    BY <1>1, <2>1, <2>2, MovesNearer DEF Heartbeat
  <2>3. CASE i # j
    <3>1. pc'[i] = pc[i] \/ (pc[i] = "asleep" /\ pc'[i] = "turn")
      BY <1>1, <2>1, <2>3, OthersFrame DEF Elsewhere
    <3> QED BY <1>1, <2>1, <2>3, <3>1, MovesNearer
  <2> QED BY <2>2, <2>3
<1>2. IInv /\ [Next]_vars => [\A j \in Jobs : Forward(j)]_vars
  <2>1. UNCHANGED <<book, jobVars>> => \A j \in Jobs : Forward(j)
    BY DEF jobVars
  <2> HIDE DEF Forward
  <2> QED BY <1>1, <2>1, StepOf DEF WorldChanges
<1> QED BY <1>2, Invariance, PTL DEF Spec, JobsGoForward
=============================================================================
