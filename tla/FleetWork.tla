------------------------------ MODULE FleetWork ------------------------------
(***************************************************************************)
(* Jobs that other machines submit to this one: the gates a request has to *)
(* pass, the seat it needs, the wait for the seat under the policy         *)
(* `queue', the gates once more when the seat frees, the run, and what the *)
(* sender is told in the end.                                              *)
(*                                                                         *)
(* Each job has a thread of its own.  The threads meet in the seat book    *)
(* (a mutex and a condition variable) and in the queue slots; the gates    *)
(* read a token, a network identity, an allow-list, the configuration and  *)
(* a profile that change at any time.  A sender may hang up or lose its    *)
(* connection, a wait may pass its deadline, and a thread may not start.   *)
(*                                                                         *)
(* Code: darkmux-serve/src/fleet_listener.rs (the gate, submit_handler,    *)
(* Worker), darkmux-fleet/src/seats.rs (claim_waiting, SeatGuard),         *)
(* submission.rs (authenticate, authorize, check_scope, read_reply) and    *)
(* runner.rs (execute_job).                                                *)
(***************************************************************************)
EXTENDS SeatBook

CONSTANTS
  MaxJobs,      \* bound: submissions, numbered as they are sent
  Nodes,        \* nodes of the overlay network
  Self,         \* this machine's own node, if it knows it
  NoNode,       \* no node
  Addresses,    \* addresses requests come from
  Home,         \* the node that holds each of them at first
  Profiles,
  Tokens,       \* fleet tokens
  AddressOf,    \* of each job: where it comes from,
  ProfileOf,    \* the profile it runs on,
  SessionOf,    \* its session: a job sent again has the same
  Waited,       \* the jobs whose sender waits for the result
  QueueCap,     \* NODE_CAP: jobs of one peer that may wait
  MaxArriving,  \* bound: requests at the gates at once (they share nothing there)
  MaxChanges    \* bound: changes of what the gates read, hang-ups, deadlines,
                \* refusals for want of resources

Jobs == 1..MaxJobs

ASSUME WorkAssumption ==
  /\ MaxJobs \in Nat
  /\ NoNode \notin Nodes /\ Self \in Nodes \cup {NoNode}
  /\ Home \in [Addresses -> Nodes \ {Self}]
  /\ AddressOf \in [Jobs -> Addresses]
  /\ ProfileOf \in [Jobs -> Profiles]
  /\ SessionOf \in [Jobs -> Sessions]
  /\ Waited \subseteq Jobs
  /\ QueueCap \in Nat
  /\ MaxArriving \in Nat
  /\ MaxChanges \in Nat

NoSeat == [key |-> "none", width |-> 0]

VARIABLES
  pc,           \* where each job is
  queued,       \* whether it was given a place in the queue
  seat,         \* its seat, once its scope was checked
  ticket,       \* its ticket in the queue, or of its claim
  fingerprint,  \* the token it was sent with
  node,         \* the node that the network names for its address
  admitted,     \* the node it was admitted for
  outcome,      \* how it ended, to be told when its seat is free
  gone,         \* whether its sender's connection is closed
  late,         \* whether its deadline has passed
  slots,        \* the queue slots each node holds
  policy,       \* fleet.busy_policy, read once at start
  token,        \* the fleet token in force
  owner,        \* the node that holds each address
  trusted,      \* the nodes on the allow-list
  configOK,     \* whether the configuration passes the preflight
  resolve,      \* the seat each profile resolves to
  changes,      \* changes so far (bound)
  told,         \* history: what its sender heard last
  ran,          \* history: jobs whose dispatch was started
  since,        \* history: of a job that was not yet run, the gates that were open
                \* to it at some moment since it was sent or, if it waited, since
                \* it has its seat
  arrival       \* history: the next ticket when it took its place or its seat

world == <<token, owner, trusted, configOK, resolve>>
checks == <<seat, fingerprint, node, admitted>>
telling == <<outcome, told>>
tracing == <<ran, arrival>>
jobVars == <<pc, queued, ticket, checks, telling, gone, late, slots, tracing>>
vars == <<book, jobVars, policy, world, changes, since>>

GatePlaces == {"token", "identify", "authorize", "preflight", "scope"}
WaitPlaces == {"turn", "asleep"}
Places == GatePlaces \cup WaitPlaces \cup
  {"unsent", "claim", "slot", "spawn", "enqueue", "seated", "cancelled",
   "expired", "start", "run", "free", "notify", "done"}

Answers == {"nothing", "accepted", "queued", "refused", "failed", "completed"}
Gates == {"token", "node", "trust", "config", "seat"}

Init ==
  /\ BookInit
  /\ pc = [j \in Jobs |-> "unsent"]
  /\ queued = [j \in Jobs |-> FALSE]
  /\ seat = [j \in Jobs |-> NoSeat]
  /\ ticket = [j \in Jobs |-> 0]
  /\ node = [j \in Jobs |-> NoNode]
  /\ admitted = [j \in Jobs |-> NoNode]
  /\ outcome = [j \in Jobs |-> "nothing"]
  /\ gone = [j \in Jobs |-> FALSE]
  /\ late = [j \in Jobs |-> FALSE]
  /\ slots = [n \in Nodes |-> 0]
  /\ policy \in {"queue", "refuse"}
  /\ token \in Tokens /\ fingerprint = [j \in Jobs |-> token]
  /\ owner = Home
  /\ trusted = Nodes \ {Self}
  /\ configOK = TRUE
  /\ resolve \in [Profiles -> Seats]
  /\ changes = 0
  /\ told = [j \in Jobs |-> "nothing"]
  /\ ran = {}
  /\ since = [j \in Jobs |-> {}]
  /\ arrival = [j \in Jobs |-> 0]

(***************************************************************************)
(* Small steps.                                                            *)
(***************************************************************************)
Goto(j, there) == pc' = [pc EXCEPT ![j] = there]

\* The peers that may change what the gates read, or interfere, have done so
\* once more.
Change == changes < MaxChanges /\ changes' = changes + 1

\* freed.notify_all.
Woken(places) ==
  [k \in Jobs |-> IF places[k] = "asleep" THEN "turn" ELSE places[k]]

\* The sender hears an answer, if it still listens.
Hears(j, answer) ==
  told' = IF gone[j] THEN told ELSE [told EXCEPT ![j] = answer]

\* Whether the worker can know that the sender hung up (sender_gone): only the
\* reply of a job that waited is streamed.
Streams(j) == queued[j] /\ j \in Waited
SenderGone(j) == Streams(j) /\ gone[j]

\* A job that was not answered is refused at once; one that waited has a seat
\* to give up first, and hears it late (refuse_late).
Refuse(j) ==
  IF queued[j]
  THEN /\ outcome' = [outcome EXCEPT ![j] = "refused"]
       /\ Goto(j, "free")
       /\ UNCHANGED told
  ELSE /\ Hears(j, "refused")
       /\ Goto(j, "done")
       /\ UNCHANGED outcome

(***************************************************************************)
(* The gates, for a request that arrives (gate, Authorization,             *)
(* submit_handler) and again for a job that waited and has its seat        *)
(* (Worker::recheck).  The token a request presents may be wrong at once.  *)
(***************************************************************************)
Send(j) ==
  /\ pc[j] = "unsent" /\ \A i \in Jobs : i < j => pc[i] # "unsent"
  /\ Cardinality({i \in Jobs : pc[i] \in GatePlaces /\ ~queued[i]}) < MaxArriving
  /\ Goto(j, "token")
  /\ \E t \in Tokens : fingerprint' = [fingerprint EXCEPT ![j] = t]
  /\ UNCHANGED <<book, queued, ticket, seat, node, admitted, telling, gone, late,
                 slots, tracing, policy, world, changes>>

CheckToken(j) ==
  /\ pc[j] = "token"
  /\ IF token = fingerprint[j]
     THEN Goto(j, "identify") /\ UNCHANGED telling
     ELSE Refuse(j)
  /\ UNCHANGED <<book, queued, ticket, checks, gone, late, slots, tracing, policy,
                 world, changes>>

\* The provider names the node that holds the address; this machine itself is
\* refused.
Identify(j) ==
  /\ pc[j] = "identify"
  /\ LET n == owner[AddressOf[j]] IN
     IF n \in Nodes \ {Self}
     THEN /\ node' = [node EXCEPT ![j] = n]
          /\ Goto(j, "authorize")
          /\ UNCHANGED telling
     ELSE Refuse(j) /\ UNCHANGED node
  /\ UNCHANGED <<book, queued, ticket, seat, fingerprint, admitted, gone, late,
                 slots, tracing, policy, world, changes>>

\* Mutant: the allow-list is not read again for a job that waited.
MutAuthorize(j) ==
  /\ pc[j] = "authorize"
  /\ IF queued[j] \/ node[j] \in trusted
     THEN /\ admitted' = [admitted EXCEPT ![j] = node[j]]
          /\ Goto(j, "preflight")
          /\ UNCHANGED telling
     ELSE Refuse(j) /\ UNCHANGED admitted
  /\ UNCHANGED <<book, queued, ticket, seat, fingerprint, node, gone, late, slots,
                 tracing, policy, world, changes>>

\* The allow-list is read after the lookup; a job that waited has to come from
\* the node that queued it.
Authorize(j) ==
  /\ pc[j] = "authorize"
  /\ IF node[j] \in trusted /\ (queued[j] => node[j] = admitted[j])
     THEN /\ admitted' = [admitted EXCEPT ![j] = node[j]]
          /\ Goto(j, "preflight")
          /\ UNCHANGED telling
     ELSE Refuse(j) /\ UNCHANGED admitted
  /\ UNCHANGED <<book, queued, ticket, seat, fingerprint, node, gone, late, slots,
                 tracing, policy, world, changes>>

Preflight(j) ==
  /\ pc[j] = "preflight"
  /\ IF configOK THEN Goto(j, "scope") /\ UNCHANGED telling ELSE Refuse(j)
  /\ UNCHANGED <<book, queued, ticket, checks, gone, late, slots, tracing, policy,
                 world, changes>>

\* Mutant: a job that waited is checked again until its profile resolves to the seat.
MutScope(j) ==
  /\ pc[j] = "scope"
  /\ LET s == resolve[ProfileOf[j]] IN
     IF s # NoSeat
     THEN /\ seat' = [seat EXCEPT ![j] = IF queued[j] THEN @ ELSE s]
          /\ Goto(j, CASE ~queued[j] -> "claim" [] s = seat[j] -> "start" [] OTHER -> "token")
          /\ UNCHANGED telling
     ELSE Refuse(j) /\ UNCHANGED seat
  /\ UNCHANGED <<book, queued, ticket, fingerprint, node, admitted, gone, late,
                 slots, tracing, policy, world, changes>>

\* scope_job: the profile has to resolve to a seat that the peer's entry and the
\* job's boundary allow, and for a job that waited to the seat it waited for.
Scope(j) ==
  /\ pc[j] = "scope"
  /\ LET s == resolve[ProfileOf[j]] IN
     IF s # NoSeat /\ (queued[j] => s = seat[j])
     THEN /\ seat' = [seat EXCEPT ![j] = s]
          /\ Goto(j, IF queued[j] THEN "start" ELSE "claim")
          /\ UNCHANGED telling
     ELSE Refuse(j) /\ UNCHANGED seat
  /\ UNCHANGED <<book, queued, ticket, fingerprint, node, admitted, gone, late,
                 slots, tracing, policy, world, changes>>

(***************************************************************************)
(* Its seat now, a place in the queue, or a refusal: start_or_refuse.      *)
(***************************************************************************)
\* Mutant: a newcomer takes a free seat, whoever waits for it.
MutTryClaim(j) ==
  /\ pc[j] = "claim"
  /\ IF ~Occupied(seat[j])
     THEN /\ Take(seat[j], nextTicket, SessionOf[j])
          /\ nextTicket' = nextTicket + 1
          /\ ticket' = [ticket EXCEPT ![j] = nextTicket]
          /\ arrival' = [arrival EXCEPT ![j] = nextTicket]
          /\ Goto(j, "spawn")
          /\ UNCHANGED telling
     ELSE /\ IF policy = "refuse" THEN Refuse(j)
             ELSE Goto(j, "slot") /\ UNCHANGED telling
          /\ UNCHANGED <<held, nextTicket, ticket, arrival>>
  /\ UNCHANGED <<waiting, queued, checks, gone, late, slots, ran, policy, world,
                 changes>>

TryClaim(j) ==
  /\ pc[j] = "claim"
  /\ IF ~Blocked(seat[j])
     THEN /\ Take(seat[j], nextTicket, SessionOf[j])
          /\ nextTicket' = nextTicket + 1
          /\ ticket' = [ticket EXCEPT ![j] = nextTicket]
          /\ arrival' = [arrival EXCEPT ![j] = nextTicket]
          /\ Goto(j, "spawn")
          /\ UNCHANGED telling
     ELSE /\ IF policy = "refuse" THEN Refuse(j)
             ELSE Goto(j, "slot") /\ UNCHANGED telling
          /\ UNCHANGED <<held, nextTicket, ticket, arrival>>
  /\ UNCHANGED <<waiting, queued, checks, gone, late, slots, ran, policy, world,
                 changes>>

\* Mutant: a queue slot is taken, however many there are.
MutTakeSlot(j) ==
  /\ pc[j] = "slot"
  /\ queued' = [queued EXCEPT ![j] = TRUE]
  /\ slots' = [slots EXCEPT ![admitted[j]] = @ + 1]
  /\ Goto(j, "spawn")
  /\ UNCHANGED <<book, ticket, checks, telling, gone, late, tracing, policy, world,
                 changes>>

TakeSlot(j) ==
  /\ pc[j] = "slot"
  /\ IF slots[admitted[j]] < QueueCap
     THEN /\ queued' = [queued EXCEPT ![j] = TRUE]
          /\ slots' = [slots EXCEPT ![admitted[j]] = @ + 1]
          /\ Goto(j, "spawn")
          /\ UNCHANGED telling
     ELSE Refuse(j) /\ UNCHANGED <<queued, slots>>
  /\ UNCHANGED <<book, ticket, checks, gone, late, tracing, policy, world,
                 changes>>

\* A request is refused because the node has too many of them, or because its
\* timeout leaves no time to wait inside one connection (queue_deadline).
RefuseForWant(j) ==
  /\ \/ pc[j] = "authorize" /\ ~queued[j]
     \/ pc[j] = "slot" /\ j \in Waited
  /\ Change
  /\ Refuse(j)
  /\ UNCHANGED <<book, queued, ticket, checks, gone, late, slots, tracing, policy,
                 world>>

\* The worker's thread is started; a sender that does not wait has its answer.
Spawn(j) ==
  /\ pc[j] = "spawn"
  /\ Goto(j, IF queued[j] THEN "enqueue" ELSE "start")
  /\ IF j \in Waited /\ ~queued[j] THEN UNCHANGED told
     ELSE Hears(j, IF queued[j] THEN "queued" ELSE "accepted")
  /\ UNCHANGED <<book, queued, ticket, checks, outcome, gone, late, slots, tracing,
                 policy, world, changes>>

\* Mutant: the slot is never given back.
MutReleaseSlot(j) == UNCHANGED slots

\* The slot's guard is dropped.
ReleaseSlot(j) == slots' = [slots EXCEPT ![admitted[j]] = @ - 1]

\* The thread is not started: what it was given is dropped, and the job refused.
SpawnFails(j) ==
  /\ pc[j] = "spawn"
  /\ Change
  /\ IF queued[j]
     THEN /\ ReleaseSlot(j)
          /\ Hears(j, "refused")
          /\ Goto(j, "done")
          /\ UNCHANGED outcome
     ELSE /\ outcome' = [outcome EXCEPT ![j] = "refused"]
          /\ Goto(j, "free")
          /\ UNCHANGED <<slots, told>>
  /\ UNCHANGED <<book, queued, ticket, checks, gone, late, tracing, policy, world>>

(***************************************************************************)
(* The wait for a seat: claim_waiting.                                     *)
(***************************************************************************)
\* Mutant: a job that gives up leaves the queue without waking the others.
MutLeave(j, t, queue, there) ==
  /\ waiting' = Without(queue, t)
  /\ pc' = [pc EXCEPT ![j] = there]

\* It gives up its place and wakes the others: leave.
Leave(j, t, queue, there) ==
  /\ waiting' = Without(queue, t)
  /\ pc' = Woken([pc EXCEPT ![j] = there])

\* One turn of the loop, under the lock, by the waiter with ticket t; queue are
\* the waiters and n the next ticket as they are by now.  A job that is not
\* served goes to sleep or, at first and at a heartbeat, releases the lock to
\* tell its sender what it waits for (on_wait) and takes another turn.
Turn(j, t, queue, n, announces) ==
  LET s == seat[j]
      free == First(queue, s.key, t) /\ ~Occupied(s)
  IN /\ \/ /\ SenderGone(j)
           /\ Leave(j, t, queue, "cancelled")
           /\ nextTicket' = n
           /\ ticket' = [ticket EXCEPT ![j] = t]
           /\ UNCHANGED <<held, told>>
        \/ /\ ~SenderGone(j) /\ free
           /\ waiting' = Without(queue, t)
           /\ Take(s, n, SessionOf[j])
           /\ nextTicket' = n + 1
           /\ ticket' = [ticket EXCEPT ![j] = n]
           /\ Goto(j, "seated")
           /\ UNCHANGED told
        \/ /\ ~SenderGone(j) /\ ~free /\ late[j]
           /\ Leave(j, t, queue, "expired")
           /\ nextTicket' = n
           /\ ticket' = [ticket EXCEPT ![j] = t]
           /\ UNCHANGED <<held, told>>
        \/ /\ ~SenderGone(j) /\ ~free /\ ~late[j]
           /\ waiting' = queue
           /\ nextTicket' = n
           /\ ticket' = [ticket EXCEPT ![j] = t]
           /\ Goto(j, IF announces THEN "turn" ELSE "asleep")
           /\ IF announces /\ j \in Waited THEN Hears(j, "queued")
              ELSE UNCHANGED told
           /\ UNCHANGED held
     /\ UNCHANGED <<queued, checks, outcome, gone, late, slots, ran, policy, world,
                    changes>>

Enqueue(j) ==
  /\ pc[j] = "enqueue"
  /\ arrival' = [arrival EXCEPT ![j] = nextTicket]
  /\ Turn(j, nextTicket,
          waiting \cup {[ticket |-> nextTicket, key |-> seat[j].key]},
          nextTicket + 1, TRUE)

\* It has been woken, or takes its turn after an announcement.
TakeTurn(j) ==
  /\ pc[j] = "turn"
  /\ Turn(j, ticket[j], waiting, nextTicket, FALSE)
  /\ UNCHANGED arrival

\* wait_timeout runs out.
Heartbeat(j) ==
  /\ pc[j] = "asleep"
  /\ Turn(j, ticket[j], waiting, nextTicket, TRUE)
  /\ UNCHANGED arrival

\* Mutant: a job that is refused at its deadline goes on.
MutEndWait(j) ==
  /\ pc[j] \in {"seated", "cancelled", "expired"}
  /\ ReleaseSlot(j)
  /\ IF pc[j] \in {"seated", "expired"}
     THEN pc' = Woken([pc EXCEPT ![j] = "token"])
     ELSE Goto(j, "done")
  /\ IF pc[j] = "expired" /\ j \in Waited
     THEN Hears(j, "refused")
     ELSE UNCHANGED told
  /\ UNCHANGED <<book, queued, ticket, checks, outcome, gone, late, tracing, policy,
                 world, changes>>

\* Waiting is over, however it ended: the queue slot is given back.  A job that
\* has its seat wakes the others and goes through the gates again.
EndWait(j) ==
  /\ pc[j] \in {"seated", "cancelled", "expired"}
  /\ ReleaseSlot(j)
  /\ IF pc[j] = "seated"
     THEN pc' = Woken([pc EXCEPT ![j] = "token"])
     ELSE Goto(j, "done")
  /\ IF pc[j] = "expired" /\ j \in Waited
     THEN Hears(j, "refused")
     ELSE UNCHANGED told
  /\ UNCHANGED <<book, queued, ticket, checks, outcome, gone, late, tracing, policy,
                 world, changes>>

(***************************************************************************)
(* The run: the end of Worker::run, and execute_job.                       *)
(***************************************************************************)
\* Nothing runs for a sender that hung up in the meantime, nor a job that fails
\* the last checks of its shape, its workdir and its boundary (execute_job).
Start(j) ==
  /\ pc[j] = "start"
  /\ \/ SenderGone(j) /\ Goto(j, "free") /\ UNCHANGED <<outcome, ran>>
     \/ /\ ~SenderGone(j)
        /\ Goto(j, "run")
        /\ ran' = ran \cup {j}
        /\ UNCHANGED outcome
     \/ /\ ~SenderGone(j)
        /\ Goto(j, "free")
        /\ outcome' = [outcome EXCEPT ![j] = "failed"]
        /\ UNCHANGED ran
  /\ UNCHANGED <<book, queued, ticket, checks, told, gone, late, slots, arrival,
                 policy, world, changes>>

\* It ends, with a result or an error of the dispatch.
Finish(j) ==
  /\ pc[j] = "run"
  /\ outcome' = [outcome EXCEPT ![j] = "completed"]
  /\ Goto(j, "free")
  /\ UNCHANGED <<book, queued, ticket, checks, told, gone, late, slots, tracing,
                 policy, world, changes>>

\* The guard is dropped: the seat is free ...
FreeSeat(j) ==
  /\ pc[j] = "free"
  /\ Free(seat[j], ticket[j])
  /\ Goto(j, "notify")
  /\ UNCHANGED <<waiting, nextTicket, queued, ticket, checks, telling, gone, late,
                 slots, tracing, policy, world, changes>>

\* Mutant: the guard that is dropped wakes nobody.
MutNotify(j) ==
  /\ pc[j] = "notify"
  /\ Goto(j, "done")
  /\ IF /\ outcome[j] # "nothing"
        /\ j \in Waited \/ (outcome[j] = "refused" /\ ~queued[j])
     THEN Hears(j, outcome[j])
     ELSE UNCHANGED told
  /\ outcome' = [outcome EXCEPT ![j] = "nothing"]
  /\ UNCHANGED <<book, queued, ticket, checks, gone, late, slots, tracing,
                 policy, world, changes>>

\* ... the waiters are woken, and a sender that listens is told.
Notify(j) ==
  /\ pc[j] = "notify"
  /\ pc' = Woken([pc EXCEPT ![j] = "done"])
  /\ IF /\ outcome[j] # "nothing"
        /\ j \in Waited \/ (outcome[j] = "refused" /\ ~queued[j])
     THEN Hears(j, outcome[j])
     ELSE UNCHANGED told
  /\ outcome' = [outcome EXCEPT ![j] = "nothing"]
  /\ UNCHANGED <<book, queued, ticket, checks, gone, late, slots, tracing,
                 policy, world, changes>>

(***************************************************************************)
(* What happens around the jobs.                                           *)
(***************************************************************************)
\* The sender hangs up, or its connection is lost or reaches its lifetime.
HangUp(j) ==
  /\ pc[j] \notin {"unsent", "done"} /\ ~gone[j]
  /\ Change
  /\ gone' = [gone EXCEPT ![j] = TRUE]
  /\ UNCHANGED <<book, pc, queued, ticket, checks, telling, late, slots, tracing,
                 policy, world>>

\* A job's time to wait runs out.
Expire(j) ==
  /\ queued[j] /\ pc[j] \in {"spawn", "enqueue"} \cup WaitPlaces /\ ~late[j]
  /\ Change
  /\ late' = [late EXCEPT ![j] = TRUE]
  /\ UNCHANGED <<book, pc, queued, ticket, checks, telling, gone, slots, tracing,
                 policy, world>>

\* The token is rotated, an address goes to another node, a node is trusted or
\* no longer so, the configuration is edited, a profile resolves to another
\* seat or to none that the peer may use.
Rotate == \E t \in Tokens \ {token} :
  token' = t /\ UNCHANGED <<owner, trusted, configOK, resolve>>
Reassign == \E a \in Addresses, n \in Nodes \cup {NoNode} :
  /\ owner[a] # n
  /\ owner' = [owner EXCEPT ![a] = n]
  /\ UNCHANGED <<token, trusted, configOK, resolve>>
Trust == \E n \in Nodes \ {Self} :
  /\ trusted' = IF n \in trusted THEN trusted \ {n} ELSE trusted \cup {n}
  /\ UNCHANGED <<token, owner, configOK, resolve>>
Configure ==
  configOK' = ~configOK /\ UNCHANGED <<token, owner, trusted, resolve>>
Redefine == \E p \in Profiles, s \in Seats \cup {NoSeat} :
  /\ resolve[p] # s
  /\ resolve' = [resolve EXCEPT ![p] = s]
  /\ UNCHANGED <<token, owner, trusted, configOK>>

WorldChanges ==
  /\ Change
  /\ Rotate \/ Reassign \/ Trust \/ Configure \/ Redefine
  /\ UNCHANGED <<book, jobVars, policy>>

\* Who has a guard of the seat, who is in the queue, and who has a queue slot.
Owns(j) ==
  \/ pc[j] \in {"seated", "start", "run", "free"}
  \/ pc[j] = "spawn" /\ ~queued[j]
  \/ pc[j] \in GatePlaces /\ queued[j]
Waits(j) == pc[j] \in WaitPlaces
HasSlot(j) ==
  queued[j] /\ pc[j] \in WaitPlaces \cup {"spawn", "enqueue", "seated",
                                          "cancelled", "expired"}

(***************************************************************************)
(* The history of the gates.                                               *)
(***************************************************************************)
\* The gates that are open to job j at this moment.
Open(j) == {g \in Gates :
  \/ g = "token" /\ token = fingerprint[j]
  \/ g = "node" /\ owner[AddressOf[j]] = node[j]
  \/ g = "trust" /\ node[j] \in trusted
  \/ g = "config" /\ configOK
  \/ g = "seat" /\ resolve[ProfileOf[j]] = seat[j]}

\* They count from when the job is sent and, once it waited, from when it has
\* its seat; the trust in its node counts from when the network names the node.
Counted(j) ==
  \/ Owns(j) /\ pc[j] # "free"
  \/ pc[j] \in GatePlaces \cup {"claim"}

Observe == since' = [j \in Jobs |->
  IF ~Counted(j)' THEN {}
  ELSE Open(j)' \cup
    (IF pc[j] = "identify" /\ pc'[j] = "authorize" THEN since[j] \ {"trust"}
     ELSE since[j])]

JobStep(j) ==
  \/ CheckToken(j) \/ Identify(j) \/ Authorize(j) \/ Preflight(j) \/ Scope(j)
  \/ TryClaim(j) \/ TakeSlot(j) \/ Spawn(j) \/ Enqueue(j) \/ TakeTurn(j)
  \/ EndWait(j) \/ Start(j) \/ Finish(j)
  \/ FreeSeat(j) \/ Notify(j)

Around(j) ==
  \/ Send(j) \/ Heartbeat(j) \/ HangUp(j) \/ Expire(j) \/ RefuseForWant(j)
  \/ SpawnFails(j)

Next ==
  /\ WorldChanges \/ \E j \in Jobs : JobStep(j) \/ Around(j)
  /\ Observe

(***************************************************************************)
(* Fairness.  A job's thread goes on and its dispatch ends; a sleeping     *)
(* thread need not reach its next heartbeat, so that the waiters depend on *)
(* the notifications alone.                                                *)
(***************************************************************************)
Fairness == \A j \in Jobs : WF_vars(JobStep(j) /\ Observe)

Spec == Init /\ [][Next]_vars
FairSpec == Spec /\ Fairness

(***************************************************************************)
(* Properties.                                                             *)
(***************************************************************************)
\* Every variable has its type.
TypeOK ==
  /\ held \in [Keys -> SUBSET Claims]
  /\ waiting \subseteq Waiters
  /\ nextTicket \in Nat
  /\ pc \in [Jobs -> Places]
  /\ queued \in [Jobs -> BOOLEAN]
  /\ seat \in [Jobs -> Seats \cup {NoSeat}]
  /\ ticket \in [Jobs -> Nat] /\ arrival \in [Jobs -> Nat]
  /\ fingerprint \in [Jobs -> Tokens]
  /\ node \in [Jobs -> Nodes \cup {NoNode}]
  /\ admitted \in [Jobs -> Nodes \cup {NoNode}]
  /\ outcome \in [Jobs -> Answers] /\ told \in [Jobs -> Answers]
  /\ gone \in [Jobs -> BOOLEAN] /\ late \in [Jobs -> BOOLEAN]
  /\ slots \in [Nodes -> Nat]
  /\ policy \in {"queue", "refuse"}
  /\ token \in Tokens
  /\ owner \in [Addresses -> Nodes \cup {NoNode}]
  /\ trusted \subseteq Nodes
  /\ configOK \in BOOLEAN
  /\ resolve \in [Profiles -> Seats \cup {NoSeat}]
  /\ changes \in 0..MaxChanges
  /\ ran \subseteq Jobs
  /\ since \in [Jobs -> SUBSET Gates]

\* The book holds a claim for each guard that is alive and none else, although
\* jobs that were sent again share a session: no seat is leaked, freed early or
\* freed by another's guard (SeatGuard, "a guard frees by ticket").
SeatsAreOwned == \A k \in Keys :
  held[k] = {Claim(ticket[j], SessionOf[j]) :
               j \in {i \in Jobs : Owns(i) /\ seat[i].key = k}}

\* Never do more jobs hold a key than its width: one for a local model, the
\* declared calls at once for an endpoint.  When that number is edited, jobs
\* that were scoped before and after hold the key side by side, and it is the
\* width that some of them was scoped with (SeatBook::occupied).
WidthKept == \A k \in Keys : held[k] # {} =>
  \E j \in Jobs :
    Owns(j) /\ seat[j].key = k /\ Cardinality(held[k]) <= seat[j].width

\* Who has a seat came before all who still wait for it: neither a newcomer nor
\* a later waiter overtakes (blocker, claim_waiting's first_for_key).
ServedInOrder == \A j, k \in Jobs :
  Owns(j) /\ Waits(k) /\ seat[j].key = seat[k].key => arrival[j] < arrival[k]

\* Nobody sleeps who could take the seat, unless someone is about to wake all:
\* no wake-up is lost between the lock and the condition variable.
NoLostWakeup == \A j \in Jobs :
  /\ pc[j] = "asleep"
  /\ First(waiting, seat[j].key, ticket[j]) /\ ~Occupied(seat[j])
  => \E k \in Jobs : pc[k] \in {"seated", "notify"}

\* A job runs only if each gate was open to it at some moment since it was sent
\* or, when it waited, since it has its seat; its node was on the allow-list at
\* some moment after the network named it, and is the node it was admitted for
\* (Worker::recheck: "against the state of THIS moment").
RanWithinGates == \A j \in Jobs :
  pc[j] = "run" => since[j] = Gates /\ node[j] = admitted[j]

\* A sender that hears that its job was refused can send it elsewhere: it did
\* not run and will not; one that hears of a result has one (refuse_late,
\* finished_reply).
ToldTruly == \A j \in Jobs :
  /\ told[j] = "refused" => j \notin ran /\ pc[j] = "done"
  /\ told[j] = "completed" => j \in ran

\* No peer has more jobs in the queue than it may (NODE_CAP), and the slots it
\* holds are its jobs' (KeySlots).
QueueBounded == \A n \in Nodes :
  /\ Cardinality({j \in Jobs : Waits(j) /\ admitted[j] = n}) <= QueueCap
  /\ slots[n] = Cardinality({j \in Jobs : HasSlot(j) /\ admitted[j] = n})

(***************************************************************************)
(* The line at the seats.                                                  *)
(***************************************************************************)
\* Who has a seat on a key, who waits for it, who of those came before a job, and
\* who has gone: a job whose wait ended without a seat, whose guard is dropped, or
\* that was refused.
HoldersOf(k) == {j \in Jobs : Owns(j) /\ seat[j].key = k}
WaitersOf(k) == {j \in Jobs : Waits(j) /\ seat[j].key = k}
AheadOf(j) == {i \in Jobs :
  Waits(j) /\ i \in WaitersOf(seat[j].key) /\ ticket[i] < ticket[j]}
HasLeft(j) == pc[j] \in {"cancelled", "expired", "notify", "done"}

Line == INSTANCE SeatLine WITH
  Customers <- Jobs,
  holding <- [k \in Keys |-> HoldersOf(k)],
  line <- [k \in Keys |-> WaitersOf(k)],
  ahead <- [j \in Jobs |-> AheadOf(j)],
  left <- {j \in Jobs : HasLeft(j)}

\* Seen through its jobs, the book with its lock, tickets, wake-ups, guards, deadlines
\* and hang-ups serves one line per key: each step takes at most one job into a line,
\* from its front to a seat with room, past no line to a free seat, or away for good.
KeepsLine == [][Line!Next]_(Line!vars)

\* Every job that is sent comes to its end.
EveryJobEnds == \A j \in Jobs : pc[j] = "token" ~> pc[j] = "done"

(***************************************************************************)
(* The inductive invariant.                                                *)
(***************************************************************************)
\* What is known of a job at each of its places.
Stages == \A j \in Jobs :
  /\ pc[j] \in WaitPlaces \cup {"enqueue", "seated", "cancelled", "expired"} =>
       queued[j]
  /\ pc[j] \in {"unsent", "claim", "slot"} => ~queued[j]
  /\ Owns(j) \/ Waits(j) \/ pc[j] \in {"claim", "slot", "spawn", "enqueue"} =>
       seat[j] \in Seats
  /\ HasSlot(j) \/ pc[j] \in {"claim", "slot"} => admitted[j] \in Nodes
  /\ pc[j] \in {"preflight", "scope"} => admitted[j] \in Nodes

\* The queue holds those who wait.
QueueIsOfWaiters ==
  waiting = {[ticket |-> ticket[j], key |-> seat[j].key] :
               j \in {i \in Jobs : Waits(i)}}

\* Tickets are drawn in order and belong to one job each.
Tickets ==
  /\ \A j \in Jobs : Owns(j) \/ Waits(j) =>
       /\ arrival[j] <= ticket[j] /\ ticket[j] < nextTicket
       /\ Waits(j) => arrival[j] = ticket[j]
  /\ \A j, k \in Jobs :
       /\ Owns(j) \/ Waits(j)
       /\ Owns(k) \/ Waits(k)
       /\ ticket[j] = ticket[k]
       => j = k

\* When a job took its seat, its width was not yet used up.
Before(j) == {i \in Jobs :
  Owns(i) /\ seat[i].key = seat[j].key /\ ticket[i] <= ticket[j]}
WidthsKept == \A j \in Jobs : Owns(j) => Cardinality(Before(j)) <= seat[j].width

\* The gates a job has passed were open to it.
GatesPassed == \A j \in Jobs :
  /\ pc[j] \in {"identify", "authorize", "preflight", "scope"} => "token" \in since[j]
  /\ pc[j] \in {"authorize", "preflight", "scope"} => "node" \in since[j]
  /\ pc[j] \in {"preflight", "scope"} => "trust" \in since[j] /\ node[j] = admitted[j]
  /\ pc[j] = "scope" => "config" \in since[j]
  /\ pc[j] \in {"claim", "start", "run"} \/ (pc[j] = "spawn" /\ ~queued[j]) =>
       since[j] = Gates /\ node[j] = admitted[j]

\* What a sender is to hear, and what has run.
Outcomes == \A j \in Jobs :
  /\ j \in ran => pc[j] \in {"run", "free", "notify", "done"}
  /\ pc[j] = "run" => j \in ran
  /\ outcome[j] # "nothing" => pc[j] \in {"free", "notify"}
  /\ outcome[j] = "refused" => j \notin ran
  /\ outcome[j] = "completed" => j \in ran
  /\ outcome[j] \in {"nothing", "refused", "failed", "completed"}

SlotsKept == \A n \in Nodes :
  /\ slots[n] <= QueueCap
  /\ slots[n] = Cardinality({j \in Jobs : HasSlot(j) /\ admitted[j] = n})

IInv ==
  /\ TypeOK /\ Stages /\ SeatsAreOwned /\ QueueIsOfWaiters /\ Tickets
  /\ WidthsKept /\ ServedInOrder /\ NoLostWakeup /\ GatesPassed /\ Outcomes
  /\ ToldTruly /\ SlotsKept

(***************************************************************************)
(* How far a job has come.                                                 *)
(***************************************************************************)
GatesLeft(place) ==
  CASE place = "token" -> 5 [] place = "identify" -> 4 [] place = "authorize" -> 3
    [] place = "preflight" -> 2 [] place = "scope" -> 1

\* Its place, counted down through the gates, the wait, the gates once more and the
\* run.
Distance(j) ==
  CASE pc[j] = "unsent" -> 21
    [] pc[j] \in GatePlaces -> GatesLeft(pc[j]) + (IF queued[j] THEN 4 ELSE 15)
    [] pc[j] = "claim" -> 15 [] pc[j] = "slot" -> 14 [] pc[j] = "spawn" -> 13
    [] pc[j] = "enqueue" -> 12 [] pc[j] \in WaitPlaces -> 11
    [] pc[j] \in {"seated", "cancelled", "expired"} -> 10
    [] pc[j] = "start" -> 4 [] pc[j] = "run" -> 3 [] pc[j] = "free" -> 2
    [] pc[j] = "notify" -> 1 [] pc[j] = "done" -> 0

Nearer(j) == Distance(j)' < Distance(j)

\* No job goes in circles, alone or with others: it comes nearer to its end or, as a
\* waiter, goes to sleep; and a sleeper takes another turn only when some job has come
\* nearer or its own heartbeat is due, so that waiters never keep each other awake
\* (claim_waiting, Worker::recheck).
JobsGoForward == [][\A j \in Jobs : pc'[j] # pc[j] =>
  \/ Nearer(j)
  \/ pc[j] = "turn" /\ pc'[j] = "asleep"
  \/ /\ pc[j] = "asleep" /\ pc'[j] = "turn"
     /\ Heartbeat(j) \/ \E k \in Jobs : Nearer(k)]_vars
=============================================================================
