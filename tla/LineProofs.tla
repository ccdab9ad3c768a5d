----------------------------- MODULE LineProofs ------------------------------
(***************************************************************************)
(* FleetWork implements SeatLine, for every number of jobs, keys and       *)
(* widths: each step of a job is one step of the line, or none.            *)
(***************************************************************************)
EXTENDS FleetWorkProofs

-----------------------------------------------------------------------------
(* Who has gone. *)

\* Who has gone stays away, and who has a part in the book gives it up to go.
LEMMA Partings ==
  ASSUME TypeOK, NEW j \in Jobs, Stage(j), Moves(j)
  PROVE  /\ HasLeft(j) => HasLeft(j)'
         /\ Takes(j) /\ ~Takes(j)' => HasLeft(j)'
<1>1. pc \in [Jobs -> Places] /\ queued \in [Jobs -> BOOLEAN]
  BY DEF TypeOK
<1>2. CASE CheckToken(j) \/ Identify(j) \/ Authorize(j) \/ Preflight(j) \/ Scope(j)
  <2>1. pc[j] \in GatePlaces /\ queued' = queued
    BY <1>2 DEF CheckToken, Identify, Authorize, Preflight, Scope, GatePlaces
  <2>2. \/ pc'[j] \in GatePlaces
        \/ pc'[j] = (IF queued[j] THEN "start" ELSE "claim")
        \/ pc'[j] = (IF queued[j] THEN "free" ELSE "done")
    BY <1>1, <1>2, RefuseMoves
    DEF CheckToken, Identify, Authorize, Preflight, Scope, Goto, GatePlaces
  <2> QED BY <2>1, <2>2 DEF HasLeft, Takes, Owns, Waits, GatePlaces, WaitPlaces
<1>3. CASE TryClaim(j) \/ TakeSlot(j) \/ RefuseForWant(j)
  <2>1. pc[j] \in {"claim", "slot", "authorize"} /\ ~queued[j]
    BY <1>3 DEF TryClaim, TakeSlot, RefuseForWant, Stage
  <2> QED BY <2>1 DEF HasLeft, Takes, Owns, Waits, GatePlaces, WaitPlaces
<1>4. CASE Spawn(j) \/ SpawnFails(j)
  <2>1. /\ pc[j] = "spawn" /\ queued' = queued
        /\ pc'[j] \in (IF queued[j] THEN {"enqueue", "done"} ELSE {"start", "free"})
    BY <1>1, <1>4 DEF Spawn, SpawnFails, Goto
  <2> QED BY <2>1 DEF HasLeft, Takes, Owns, Waits, GatePlaces, WaitPlaces
<1>5. CASE Enqueue(j) \/ TakeTurn(j) \/ Heartbeat(j)
  <2>1. pc[j] \in {"enqueue", "turn", "asleep"}
    BY <1>5 DEF Enqueue, TakeTurn, Heartbeat
  <2>2. pc'[j] \in {"cancelled", "expired", "seated", "turn", "asleep"}
    <3>1. CASE Enqueue(j)
      <4>1. Turn(j, nextTicket, waiting \cup {[ticket |-> nextTicket, key |-> seat[j].key]},
                 nextTicket + 1, TRUE)
        BY <3>1 DEF Enqueue
      <4> QED BY <4>1, TurnMoves
    <3>2. CASE TakeTurn(j) \/ Heartbeat(j)
      <4>1. PICK b \in BOOLEAN : Turn(j, ticket[j], waiting, nextTicket, b)
        BY <3>2 DEF TakeTurn, Heartbeat
      <4> QED BY <4>1, TurnMoves
    <3> QED BY <1>5, <3>1, <3>2
  <2> QED BY <2>1, <2>2 DEF HasLeft, Takes, Owns, Waits, GatePlaces, WaitPlaces
<1>6. CASE EndWait(j) \/ Notify(j)
  <2>1. /\ pc[j] \in {"seated", "cancelled", "expired", "notify"} /\ queued' = queued
        /\ pc'[j] = (IF pc[j] = "seated" THEN "token" ELSE "done")
        /\ pc[j] = "seated" => queued[j]
    BY <1>1, <1>6 DEF EndWait, Notify, Goto, Woken, Stage
  <2> QED BY <2>1 DEF HasLeft, Takes, Owns, Waits, GatePlaces, WaitPlaces
<1>7. CASE Start(j) \/ Finish(j) \/ FreeSeat(j)
  <2>1. /\ pc[j] \in {"start", "run", "free"}
        /\ pc'[j] \in {"run", "free"} \/ (pc[j] = "free" /\ pc'[j] = "notify")
    BY <1>1, <1>7 DEF Start, Finish, FreeSeat, Goto
  <2> QED BY <2>1 DEF HasLeft, Takes, Owns, Waits, GatePlaces, WaitPlaces
<1>8. CASE Send(j)
  <2>1. pc[j] = "unsent" /\ ~queued[j]
    BY <1>8 DEF Send, Stage
  <2> QED BY <2>1 DEF HasLeft, Takes, Owns, Waits, GatePlaces, WaitPlaces
<1>9. CASE HangUp(j) \/ Expire(j)
  BY <1>9 DEF HangUp, Expire, HasLeft, Takes, Owns, Waits
<1> QED
  BY <1>2, <1>3, <1>4, <1>5, <1>6, <1>7, <1>8, <1>9 DEF Moves, JobStep, Around

\* A job that has gone has no part in the book, now or after the step that took it away.
LEMMA GoneHaveNoPart ==
  ASSUME NEW j \in Jobs
  PROVE  /\ HasLeft(j) /\ Stages => ~Takes(j)
         /\ HasLeft(j)' /\ Stages' => ~Takes(j)'
BY DEF HasLeft, Takes, Owns, Waits, GatePlaces, WaitPlaces

\* The others neither come back nor go.
LEMMA OthersStayOrGo ==
  ASSUME NEW i \in Jobs, Elsewhere(i)
  PROVE  HasLeft(i)' <=> HasLeft(i)
BY DEF Elsewhere, HasLeft

\* A job is seated at the place it has in the line: a newcomer's is the last.
LEMMA SeatedFromItsPlace ==
  ASSUME TypeOK, NEW j \in Jobs, Stage(j), Moves(j), ~Owns(j), Owns(j)'
  PROVE  arrival'[j] = (IF Waits(j) THEN arrival[j] ELSE nextTicket)
<1>1. /\ pc \in [Jobs -> Places] /\ queued \in [Jobs -> BOOLEAN]
      /\ arrival \in [Jobs -> Nat]
  BY DEF TypeOK
<1>2. CASE TakeTurn(j) \/ Heartbeat(j)
  BY <1>2 DEF TakeTurn, Heartbeat, Waits, WaitPlaces
<1>3. CASE Enqueue(j)
  <2>1. pc[j] = "enqueue" /\ arrival'[j] = nextTicket
    BY <1>1, <1>3 DEF Enqueue
  <2> QED BY <2>1 DEF Waits, WaitPlaces
<1>4. CASE TryClaim(j)
  <2>1. pc[j] = "claim" /\ ~queued[j] /\ queued' = queued
    BY <1>4 DEF TryClaim, Stage
  <2>2. CASE ~Blocked(seat[j])
    <3>1. arrival'[j] = nextTicket
      BY <1>1, <1>4, <2>2 DEF TryClaim
    <3> QED BY <2>1, <3>1 DEF Waits, WaitPlaces
  <2>3. CASE Blocked(seat[j])
    <3>1. pc'[j] \in {"slot", "done"}
      BY <1>1, <1>4, <2>1, <2>3, RefuseMoves DEF TryClaim, Goto
    <3> QED BY <3>1 DEF Owns, GatePlaces
  <2> QED BY <2>2, <2>3
<1>5. CASE CheckToken(j) \/ Identify(j) \/ Authorize(j) \/ Preflight(j) \/ Scope(j)
  <2>1. pc[j] \in GatePlaces /\ queued' = queued
    BY <1>5 DEF CheckToken, Identify, Authorize, Preflight, Scope, GatePlaces
  <2>2. ~queued[j]
    BY <2>1 DEF Owns
  <2>3. pc'[j] \in GatePlaces \cup {"claim", "done"}
    BY <1>1, <1>5, <2>2, RefuseMoves
    DEF CheckToken, Identify, Authorize, Preflight, Scope, Goto, GatePlaces
  <2> QED BY <2>1, <2>2, <2>3 DEF Owns, GatePlaces
<1>6. CASE TakeSlot(j) \/ RefuseForWant(j)
  <2>1. /\ pc[j] \in {"slot", "authorize"} /\ ~queued[j]
        /\ (pc'[j] = "spawn" /\ queued'[j]) \/ Refuse(j)
    BY <1>1, <1>6 DEF TakeSlot, RefuseForWant, Goto, Stage
  <2>2. (pc'[j] = "spawn" /\ queued'[j]) \/ pc'[j] = "done"
    BY <1>1, <2>1, RefuseMoves
  <2> QED BY <2>2 DEF Owns, GatePlaces
<1>7. CASE Spawn(j) \/ SpawnFails(j)
  <2>1. /\ pc[j] = "spawn" /\ queued' = queued
        /\ queued[j] => pc'[j] \in {"enqueue", "done"}
    BY <1>1, <1>7 DEF Spawn, SpawnFails, Goto
  <2> QED BY <2>1 DEF Owns, GatePlaces
<1>8. CASE EndWait(j) \/ Notify(j)
  <2>1. pc[j] # "seated"
    BY DEF Owns
  <2>2. pc'[j] = "done"
    BY <1>1, <1>8, <2>1 DEF EndWait, Notify, Goto, Woken
  <2> QED BY <2>2 DEF Owns, GatePlaces
<1>9. CASE Start(j) \/ Finish(j) \/ FreeSeat(j)
  BY <1>9 DEF Start, Finish, FreeSeat, Owns
<1>10. CASE Send(j)
  <2>1. pc'[j] = "token" /\ ~queued[j] /\ queued' = queued
    BY <1>1, <1>10 DEF Send, Goto, Stage
  <2> QED BY <2>1 DEF Owns, GatePlaces
<1>11. CASE HangUp(j) \/ Expire(j)
  BY <1>11 DEF HangUp, Expire, Owns
<1> QED
  BY <1>2, <1>3, <1>4, <1>5, <1>6, <1>7, <1>8, <1>9, <1>10, <1>11
  DEF Moves, JobStep, Around

-----------------------------------------------------------------------------
(* How the holders and the line move. *)

\* What a step of job j leaves of the others' parts.
Apart(j) == \A i \in Jobs \ {j} :
  /\ Owns(i)' <=> Owns(i)
  /\ Waits(i)' <=> Waits(i)
  /\ HasLeft(i)' <=> HasLeft(i)
  /\ seat'[i] = seat[i] /\ ticket'[i] = ticket[i]

LEMMA StepApart ==
  ASSUME TypeOK, NEW j \in Jobs, Moves(j)
  PROVE  Apart(j)
<1>1. \A i \in Jobs \ {j} : Elsewhere(i)
  BY OthersFrame
<1>2. \A i \in Jobs \ {j} : seat'[i] = seat[i] /\ ticket'[i] = ticket[i]
  BY <1>1 DEF Elsewhere
<1> QED BY <1>1, <1>2, ElsewhereStays, OthersStayOrGo DEF Apart

\* A job keeps, takes or frees its seat.
LEMMA HoldersMove ==
  ASSUME NEW j \in Jobs, Apart(j), NEW k \in Keys
  PROVE  /\ (Owns(j)' <=> Owns(j)) /\ (Owns(j) => seat'[j] = seat[j]) =>
              HoldersOf(k)' = HoldersOf(k)
         /\ ~Owns(j) /\ Owns(j)' /\ seat'[j] = seat[j] =>
              HoldersOf(k)' = IF k = seat[j].key THEN HoldersOf(k) \cup {j} ELSE HoldersOf(k)
         /\ Owns(j) /\ ~Owns(j)' =>
              HoldersOf(k)' = IF k = seat[j].key THEN HoldersOf(k) \ {j} ELSE HoldersOf(k)
BY DEF Apart, HoldersOf

\* A job keeps its place in the line,
LEMMA LineStays ==
  ASSUME NEW j \in Jobs, Apart(j), Waits(j)' <=> Waits(j),
         Waits(j) => seat'[j] = seat[j] /\ ticket'[j] = ticket[j]
  PROVE  /\ \A k \in Keys : WaitersOf(k)' = WaitersOf(k)
         /\ \A i \in Jobs : AheadOf(i)' = AheadOf(i)
<1>1. \A i \in Jobs : (Waits(i)' <=> Waits(i))
        /\ (Waits(i) => seat'[i] = seat[i] /\ ticket'[i] = ticket[i])
  BY DEF Apart
<1>2. \A k : WaitersOf(k)' = WaitersOf(k)
  BY <1>1 DEF WaitersOf
<1>3. ASSUME NEW i \in Jobs
      PROVE  AheadOf(i)' = AheadOf(i)
  <2>1. CASE Waits(i)
    BY <1>1, <2>1 DEF AheadOf, WaitersOf
  <2>2. CASE ~Waits(i)
    BY <1>1, <2>2 DEF AheadOf
  <2> QED BY <2>1, <2>2
<1> QED BY <1>2, <1>3

\* steps out of it,
LEMMA LineClosesUp ==
  ASSUME NEW j \in Jobs, Apart(j), ~Waits(j)'
  PROVE  /\ \A k \in Keys : WaitersOf(k)' = WaitersOf(k) \ {j}
         /\ \A i \in Jobs : AheadOf(i)' = IF i = j THEN {} ELSE AheadOf(i) \ {j}
<1>1. \A i \in Jobs \ {j} : /\ Waits(i)' <=> Waits(i)
                            /\ seat'[i] = seat[i] /\ ticket'[i] = ticket[i]
  BY DEF Apart
<1>2. \A k : WaitersOf(k)' = WaitersOf(k) \ {j}
  BY <1>1 DEF WaitersOf
<1>3. AheadOf(j)' = {}
  BY DEF AheadOf
<1>4. ASSUME NEW i \in Jobs \ {j}
      PROVE  AheadOf(i)' = AheadOf(i) \ {j}
  BY <1>1 DEF AheadOf, WaitersOf
<1> QED BY <1>2, <1>3, <1>4

\* or joins it at its end: the tickets drawn so far are smaller.
LEMMA LineGrows ==
  ASSUME TypeOK, Tickets, NEW j \in Jobs, Apart(j), Queues(j), NEW q \in Keys,
         q = seat[j].key
  PROVE  /\ \A k \in Keys :
              WaitersOf(k)' = IF k = q THEN WaitersOf(k) \cup {j} ELSE WaitersOf(k)
         /\ \A i \in Jobs : AheadOf(i)' = IF i = j THEN WaitersOf(q) ELSE AheadOf(i)
<1>1. \A i \in Jobs \ {j} : /\ Waits(i)' <=> Waits(i)
                            /\ seat'[i] = seat[i] /\ ticket'[i] = ticket[i]
  BY DEF Apart
<1>2. /\ ~Waits(j) /\ Waits(j)' /\ seat'[j] = seat[j] /\ ticket'[j] = nextTicket
  BY DEF Queues
<1>3. \A i \in Jobs : Waits(i) => ticket[i] \in Nat /\ ticket[i] < nextTicket
  BY DEF TypeOK, Tickets
<1>4. nextTicket \in Nat
  BY DEF TypeOK
<1>5. \A k \in Keys :
        WaitersOf(k)' = IF k = q THEN WaitersOf(k) \cup {j} ELSE WaitersOf(k)
  BY <1>1, <1>2 DEF WaitersOf
<1>6. AheadOf(j)' = WaitersOf(q)
  <2>1. \A i \in Jobs : i \in AheadOf(j)' <=>
          Waits(i)' /\ seat'[i].key = q /\ ticket'[i] < nextTicket
    BY <1>2 DEF AheadOf, WaitersOf
  <2>2. \A i \in Jobs : i \in AheadOf(j)' <=> i \in WaitersOf(q)
    BY <1>1, <1>2, <1>3, <1>4, <2>1 DEF WaitersOf
  <2> QED BY <2>2 DEF AheadOf, WaitersOf
<1>7. ASSUME NEW i \in Jobs \ {j}
      PROVE  AheadOf(i)' = AheadOf(i)
  <2>1. CASE ~Waits(i)
    BY <1>1, <2>1 DEF AheadOf
  <2>2. CASE Waits(i)
    <3>1. ~(ticket'[j] < ticket'[i])
      BY <1>1, <1>2, <1>3, <1>4, <2>2
    <3> QED BY <1>1, <1>2, <3>1 DEF AheadOf, WaitersOf
  <2> QED BY <2>1, <2>2
<1> QED BY <1>5, <1>6, <1>7

\* Who is seated stood in front of the line, or came when there was none, and there
\* was room.
LEMMA SeatedFromTheFront ==
  ASSUME IInv, NEW j \in Jobs, Moves(j), Sits(j)
  PROVE  /\ Waits(j) => AheadOf(j) = {}
         /\ ~Waits(j) => WaitersOf(seat[j].key) = {}
         /\ Cardinality(HoldersOf(seat[j].key)) < seat[j].width
<1>1. /\ TypeOK /\ Tickets /\ SeatsAreOwned /\ Stage(j)
      /\ ticket \in [Jobs -> Nat] /\ arrival \in [Jobs -> Nat] /\ nextTicket \in Nat
  BY StageOfAll DEF IInv, TypeOK
<1>2. arrival'[j] = (IF Waits(j) THEN arrival[j] ELSE nextTicket)
  BY <1>1, SeatedFromItsPlace DEF Sits
<1>3. \A i \in Jobs : Waits(i) => arrival[i] = ticket[i] /\ ticket[i] < nextTicket
  BY <1>1 DEF Tickets
<1>4. \A i \in Jobs \ {j} :
        Waits(i) /\ seat[i].key = seat[j].key => arrival'[j] < arrival[i]
  BY DEF Sits
<1>5. ASSUME Waits(j)
      PROVE  AheadOf(j) = {}
  <2>1. ASSUME NEW i \in AheadOf(j)
        PROVE  FALSE
    <3>1. i \in Jobs /\ Waits(i) /\ seat[i].key = seat[j].key /\ ticket[i] < ticket[j]
      BY <2>1 DEF AheadOf, WaitersOf
    <3>2. i # j
      BY <1>1, <3>1
    <3>3. arrival[j] < arrival[i] /\ arrival[j] = ticket[j] /\ arrival[i] = ticket[i]
      BY <1>2, <1>3, <1>4, <1>5, <3>1, <3>2
    <3> QED BY <1>1, <3>1, <3>3
  <2> QED BY <2>1
<1>6. ASSUME ~Waits(j)
      PROVE  WaitersOf(seat[j].key) = {}
  <2>1. ASSUME NEW i \in WaitersOf(seat[j].key)
        PROVE  FALSE
    <3>1. i \in Jobs \ {j} /\ Waits(i) /\ seat[i].key = seat[j].key
      BY <1>6, <2>1 DEF WaitersOf
    <3>2. nextTicket < arrival[i] /\ arrival[i] < nextTicket
      BY <1>2, <1>3, <1>4, <1>6, <3>1
    <3> QED BY <1>1, <3>1, <3>2
  <2> QED BY <2>1
<1>7. Cardinality(HoldersOf(seat[j].key)) < seat[j].width
  <2>1. seat[j] \in Seats /\ ~Occupied(seat[j])
    BY DEF Sits
  <2>2. seat[j].key \in Keys /\ seat[j].width \in Nat
    BY <2>1, SeatTyped
  <2>3. /\ Cardinality(held[seat[j].key]) = Cardinality(HoldersOf(seat[j].key))
        /\ Cardinality(HoldersOf(seat[j].key)) \in Nat
    BY <1>1, <2>2, ClaimsCounted DEF Owners, HoldersOf
  <2> QED BY <2>1, <2>2, <2>3 DEF Occupied
<1> QED BY <1>5, <1>6, <1>7

-----------------------------------------------------------------------------
(* The line's steps. *)

\* Where a job is, as the line sees it.
LEMMA Parts ==
  ASSUME NEW j \in Jobs, Stage(j)
  PROVE  /\ Waits(j) => seat[j].key \in Keys /\ Line!InLine(j)
         /\ ~Takes(j) /\ ~HasLeft(j) => Line!Outside(j)
<1>1. ASSUME Waits(j)
      PROVE  seat[j].key \in Keys /\ Line!InLine(j)
  <2>1. seat[j].key \in Keys
    BY <1>1, SeatTyped DEF Stage
  <2>2. j \in WaitersOf(seat[j].key)
    BY <1>1 DEF WaitersOf
  <2> QED BY <2>1, <2>2 DEF Line!InLine
<1>2. ASSUME ~Takes(j), ~HasLeft(j)
      PROVE  Line!Outside(j)
  <2>1. \A k \in Keys : j \notin WaitersOf(k) /\ j \notin HoldersOf(k)
    BY <1>2 DEF Takes, WaitersOf, HoldersOf
  <2> QED BY <1>2, <2>1 DEF Line!Outside, Line!InLine
<1> QED BY <1>1, <1>2

\* A job is refused, gives up waiting, or changes nothing of the line.
LEMMA GivesUp ==
  ASSUME IInv, NEW j \in Jobs, Moves(j), Apart(j),
         Rests(j) \/ (~Owns(j) /\ ~Owns(j)' /\ ~Waits(j)')
  PROVE  Line!GiveUp(j) \/ UNCHANGED Line!vars
<1>1. TypeOK /\ Stage(j) /\ Stage(j)'
  BY StageOfAll, StageKept DEF IInv
<1>2. \A k \in Keys : HoldersOf(k)' = HoldersOf(k)
  BY HoldersMove DEF Rests
<1>3. \A i \in Jobs \ {j} : HasLeft(i)' <=> HasLeft(i)
  BY DEF Apart
<1>4. (HasLeft(j) => HasLeft(j)') /\ (Takes(j) /\ ~Takes(j)' => HasLeft(j)')
  BY <1>1, Partings
<1>5. CASE HasLeft(j)' <=> HasLeft(j)
  <2>1. Waits(j)' <=> Waits(j)
    <3>1. CASE Rests(j)
      BY <3>1 DEF Rests
    <3>2. CASE ~Owns(j) /\ ~Owns(j)' /\ ~Waits(j)'
      BY <1>4, <1>5, <3>2, GoneHaveNoPart DEF Takes, IInv
    <3> QED BY <3>1, <3>2
  <2>2. Waits(j) => seat'[j] = seat[j] /\ ticket'[j] = ticket[j]
    BY <2>1 DEF Rests
  <2>3. /\ \A k \in Keys : WaitersOf(k)' = WaitersOf(k)
        /\ \A i \in Jobs : AheadOf(i)' = AheadOf(i)
    BY <2>1, <2>2, LineStays
  <2>4. {i \in Jobs : HasLeft(i)}' = {i \in Jobs : HasLeft(i)}
    BY <1>3, <1>5
  <2> QED BY <1>2, <2>3, <2>4 DEF Line!vars
<1>6. CASE HasLeft(j)' /\ ~HasLeft(j)
  <2>1. ~Takes(j)'
    BY <1>6 DEF HasLeft, Takes, Owns, Waits, GatePlaces, WaitPlaces
  <2>2. ~Owns(j)
    BY <2>1 DEF Takes, Rests
  <2>3. Line!Outside(j) \/ Line!InLine(j)
    BY <1>1, <1>6, <2>2, Parts DEF Takes
  <2>4. Line!StepOut(j)
    BY <2>1, LineClosesUp DEF Takes, Line!StepOut
  <2>5. {i \in Jobs : HasLeft(i)}' = {i \in Jobs : HasLeft(i)} \cup {j}
    BY <1>3, <1>6
  <2> QED BY <1>2, <2>3, <2>4, <2>5 DEF Line!GiveUp
<1> QED BY <1>4, <1>5, <1>6

\* The line counts as everybody does.
LEMMA SameCount ==
  ASSUME NEW S
  PROVE  Line!Cardinality(S) = Cardinality(S)
BY DEF Line!Cardinality, Cardinality

\* A job is seated: out of the line, or past none.
LEMMA IsSeated ==
  ASSUME IInv, NEW j \in Jobs, Moves(j), Apart(j), Sits(j)
  PROVE  Line!Get(j, seat[j]) \/ Line!Serve(j, seat[j])
<1>1. TypeOK /\ Stage(j)
  BY StageOfAll DEF IInv
<1>2. ~Owns(j) /\ Owns(j)' /\ ~Waits(j)' /\ seat'[j] = seat[j] /\ seat[j] \in Seats
  BY DEF Sits
<1>3. seat[j].key \in Keys
  BY <1>2, SeatTyped
<1>4. Line!Room(seat[j])
  BY <1>3, SeatedFromTheFront, SameCount DEF Line!Room
<1>5. Line!Sit(j, seat[j].key)
  BY <1>2, <1>3, HoldersMove DEF Line!Sit
<1>6. ~HasLeft(j) /\ ~HasLeft(j)'
  <2>1. ~HasLeft(j)'
    BY <1>2 DEF HasLeft, Owns, GatePlaces
  <2> QED BY <1>1, <2>1, Partings
<1>7. {i \in Jobs : HasLeft(i)}' = {i \in Jobs : HasLeft(i)}
  BY <1>6 DEF Apart
<1>8. CASE Waits(j)
  <2>1. j \in WaitersOf(seat[j].key) /\ AheadOf(j) = {}
    BY <1>8, SeatedFromTheFront DEF WaitersOf
  <2>2. Line!StepOut(j)
    BY <1>2, LineClosesUp DEF Line!StepOut
  <2> QED BY <1>3, <1>4, <1>5, <1>7, <2>1, <2>2 DEF Line!Serve
<1>9. CASE ~Waits(j)
  <2>1. Line!Outside(j) /\ WaitersOf(seat[j].key) = {}
    BY <1>1, <1>2, <1>6, <1>9, Parts, SeatedFromTheFront DEF Takes
  <2>2. /\ \A k \in Keys : WaitersOf(k)' = WaitersOf(k)
        /\ \A i \in Jobs : AheadOf(i)' = AheadOf(i)
    BY <1>2, <1>9, LineStays
  <2> QED BY <1>3, <1>4, <1>5, <1>7, <2>1, <2>2 DEF Line!Get
<1> QED BY <1>8, <1>9

\* A job joins the line.
LEMMA JoinsLine ==
  ASSUME IInv, NEW j \in Jobs, Moves(j), Apart(j), Queues(j)
  PROVE  seat[j].key \in Keys /\ Line!Join(j, seat[j].key)
<1>1. TypeOK /\ Tickets /\ Stage(j)
  BY StageOfAll DEF IInv
<1>2. ~Owns(j) /\ ~Waits(j) /\ ~Owns(j)' /\ Waits(j)' /\ seat[j] \in Seats
  BY DEF Queues
<1>3. seat[j].key \in Keys
  BY <1>2, SeatTyped
<1>4. ~HasLeft(j) /\ ~HasLeft(j)'
  <2>1. ~HasLeft(j)'
    BY <1>2 DEF HasLeft, Waits, WaitPlaces
  <2> QED BY <1>1, <2>1, Partings
<1>5. Line!Outside(j)
  BY <1>1, <1>2, <1>4, Parts DEF Takes
<1>6. \A k \in Keys : HoldersOf(k)' = HoldersOf(k)
  BY <1>2, HoldersMove
<1>7. {i \in Jobs : HasLeft(i)}' = {i \in Jobs : HasLeft(i)}
  BY <1>4 DEF Apart
<1>8. /\ \A k \in Keys : WaitersOf(k)' =
           IF k = seat[j].key THEN WaitersOf(k) \cup {j} ELSE WaitersOf(k)
      /\ \A i \in Jobs : AheadOf(i)' =
           IF i = j THEN WaitersOf(seat[j].key) ELSE AheadOf(i)
  BY <1>1, <1>3, LineGrows
<1> QED BY <1>3, <1>5, <1>6, <1>7, <1>8 DEF Line!Join

\* A job frees its seat.
LEMMA FreesSeat ==
  ASSUME IInv, NEW j \in Jobs, Moves(j), Apart(j), Frees(j)
  PROVE  seat[j].key \in Keys /\ Line!Release(j, seat[j].key)
<1>1. TypeOK /\ Stage(j)
  BY StageOfAll DEF IInv
<1>2. Owns(j) /\ ~Owns(j)' /\ ~Waits(j)' /\ ~Waits(j)
  BY OneRole DEF Frees
<1>3. seat[j].key \in Keys
  BY <1>1, <1>2, SeatTyped DEF Stage
<1>4. j \in HoldersOf(seat[j].key)
  BY <1>2 DEF HoldersOf
<1>5. \A k \in Keys : HoldersOf(k)' =
        IF k = seat[j].key THEN HoldersOf(k) \ {j} ELSE HoldersOf(k)
  BY <1>2, HoldersMove
<1>6. HasLeft(j)'
  BY <1>1, <1>2, Partings DEF Takes
<1>7. {i \in Jobs : HasLeft(i)}' = {i \in Jobs : HasLeft(i)} \cup {j}
  BY <1>6 DEF Apart
<1>8. /\ \A k \in Keys : WaitersOf(k)' = WaitersOf(k)
      /\ \A i \in Jobs : AheadOf(i)' = AheadOf(i)
  BY <1>2, LineStays
<1> QED BY <1>3, <1>4, <1>5, <1>7, <1>8 DEF Line!Release

\* Each step is one of the line, or none.
LEMMA StepKeepsLine ==
  ASSUME IInv, [Next]_vars
  PROVE  [Line!Next]_(Line!vars)
<1>1. ASSUME NEW j \in Jobs, Moves(j)
      PROVE  [Line!Next]_(Line!vars)
  <2>1. /\ TypeOK /\ QueueIsOfWaiters /\ Tickets /\ Stage(j)
        /\ Apart(j) /\ BookStep(j)
    BY <1>1, StageOfAll, StepApart, MovesBook DEF IInv
  <2>2. CASE Rests(j) \/ Leaves(j)
    <3>1. Line!GiveUp(j) \/ UNCHANGED Line!vars
      BY <1>1, <2>1, <2>2, GivesUp DEF Leaves
    <3> QED BY <3>1 DEF Line!Next
  <2>3. CASE Sits(j)
    <3>1. seat[j] \in Seats
      BY <2>3 DEF Sits
    <3> QED BY <1>1, <2>1, <2>3, <3>1, IsSeated DEF Line!Next
  <2>4. CASE Queues(j)
    BY <1>1, <2>1, <2>4, JoinsLine DEF Line!Next
  <2>5. CASE Frees(j)
    BY <1>1, <2>1, <2>5, FreesSeat DEF Line!Next
  <2> QED BY <2>1, <2>2, <2>3, <2>4, <2>5 DEF BookStep
<1>2. CASE UNCHANGED <<book, jobVars>>
  BY <1>2 DEF Line!vars, HoldersOf, WaitersOf, AheadOf, HasLeft, Owns, Waits, jobVars, checks
<1> QED BY <1>1, <1>2, StepOf DEF WorldChanges, vars

\* For every number of jobs, nodes, keys and widths, each step of the receiver is a
\* step of SeatLine or none (SeatBook, claim_waiting, SeatGuard).
THEOREM LineKept == Spec => KeepsLine
<1> QED BY StepKeepsLine, Invariance, PTL DEF Spec, KeepsLine

\* From the empty book on, the receiver implements SeatLine.
THEOREM LineImplemented == Spec => Line!Spec
<1>1. Init => Line!Init
  <2> SUFFICES ASSUME Init
               PROVE  Line!Init
    OBVIOUS
  <2>1. \A j \in Jobs : ~Owns(j) /\ ~Waits(j) /\ ~HasLeft(j)
    BY DEF Init, Owns, Waits, HasLeft, GatePlaces, WaitPlaces
  <2> QED BY <2>1 DEF Line!Init, HoldersOf, WaitersOf, AheadOf
<1>2. Spec => [][Line!Next]_(Line!vars)
  BY LineKept DEF KeepsLine
<1> QED BY <1>1, <1>2, PTL DEF Spec, Line!Spec
=============================================================================
