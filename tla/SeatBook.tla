------------------------------ MODULE SeatBook -------------------------------
(***************************************************************************)
(* The receiver's record of which submitted jobs run and wait: a seat per  *)
(* local model, held by one job, and per endpoint that darkmux does not    *)
(* manage, held by as many jobs as the endpoint declares calls at once.    *)
(* A claim has a ticket; jobs that wait are first come first served per    *)
(* seat key.                                                               *)
(*                                                                         *)
(* Code: Book, SeatBook and SeatGuard of darkmux-fleet/src/seats.rs.  A    *)
(* waiter draws its ticket and is pushed to the back of the deque under    *)
(* one lock, so the deque is in the order of tickets and is a set here.    *)
(***************************************************************************)
EXTENDS Naturals, FiniteSets

CONSTANTS
  Keys,       \* seat keys: local models and unmanaged endpoints
  LocalKeys,  \* those of local models
  Widths,     \* how many calls at once an endpoint may declare
  Sessions    \* session ids of submitted jobs

ASSUME BookAssumption ==
  /\ LocalKeys \subseteq Keys
  /\ Widths \subseteq Nat \ {0}

\* A seat as the receiver resolves it (WorkSeat): its key and its width.
Seats == [key : LocalKeys, width : {1}] \cup [key : Keys \ LocalKeys, width : Widths]

Claims == [ticket : Nat, session : Sessions]
Waiters == [ticket : Nat, key : Keys]

VARIABLES
  held,       \* the claims that run on each key
  waiting,    \* the waiters
  nextTicket  \* next_ticket

book == <<held, waiting, nextTicket>>

BookInit ==
  /\ held = [k \in Keys |-> {}]
  /\ waiting = {}
  /\ nextTicket = 0

\* Mutant: one claim too many.
MutOccupied(s) == Cardinality(held[s.key]) > s.width

\* The seat's key has as many claims as its width.
Occupied(s) == Cardinality(held[s.key]) >= s.width

\* A newcomer does not overtake those who wait for the same key (blocker).
Blocked(s) == Occupied(s) \/ \E e \in waiting : e.key = s.key

\* Mutant: whoever wakes first is served.
MutFirst(queue, k, t) == TRUE

\* No one in the queue has waited longer for the key than ticket t.
First(queue, k, t) == \A e \in queue : e.key = k => t <= e.ticket

Claim(t, session) == [ticket |-> t, session |-> session]

\* take: the claim that is entered gets the ticket t.
Take(s, t, session) ==
  held' = [held EXCEPT ![s.key] = @ \cup {Claim(t, session)}]

\* Mutant: a guard frees what its session holds.
MutFree(s, t) ==
  held' = [held EXCEPT ![s.key] =
             {h \in @ : \A g \in @ : g.ticket = t => h.session # g.session}]

\* A dropped guard frees what it took, by its ticket.
Free(s, t) == held' = [held EXCEPT ![s.key] = {h \in @ : h.ticket # t}]

Without(queue, t) == {e \in queue : e.ticket # t}
=============================================================================
