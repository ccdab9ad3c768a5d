------------------------------ MODULE SeatLine -------------------------------
(***************************************************************************)
(* What the seats of a receiver promise those who come for one: a key has  *)
(* room for as many holders as a width says, those who wait for it stand   *)
(* in a line and are served from its front, and nobody is given a seat     *)
(* past the line.  Who has held a seat, or given up, is gone for good.     *)
(* No lock, ticket, thread, notification, deadline or gate is visible      *)
(* here: FleetWork has them.                                               *)
(***************************************************************************)
EXTENDS Naturals, FiniteSets

CONSTANTS
  Customers,  \* those who come
  Keys,       \* what they come for
  Seats       \* seats: a key and a width

VARIABLES
  holding,  \* of each key: who holds it,
  line,     \* and who stands in line for it
  ahead,    \* of each customer: who still stands in front
  left      \* who has gone

vars == <<holding, line, ahead, left>>

Init ==
  /\ holding = [k \in Keys |-> {}]
  /\ line = [k \in Keys |-> {}]
  /\ ahead = [c \in Customers |-> {}]
  /\ left = {}

InLine(c) == \E k \in Keys : c \in line[k]
Outside(c) == c \notin left /\ ~InLine(c) /\ \A k \in Keys : c \notin holding[k]

\* There is room on the key of seat s.
Room(s) == Cardinality(holding[s.key]) < s.width

Sit(c, k) == holding' = [holding EXCEPT ![k] = @ \cup {c}]

\* The line closes up where c stood.
StepOut(c) ==
  /\ line' = [k \in Keys |-> line[k] \ {c}]
  /\ ahead' = [d \in Customers |-> IF d = c THEN {} ELSE ahead[d] \ {c}]

\* A newcomer is given a seat for which nobody stands in line,
Get(c, s) ==
  /\ Outside(c)
  /\ Room(s) /\ line[s.key] = {}
  /\ Sit(c, s.key)
  /\ UNCHANGED <<line, ahead, left>>

\* or joins the line at its end.
Join(c, k) ==
  /\ Outside(c)
  /\ line' = [line EXCEPT ![k] = @ \cup {c}]
  /\ ahead' = [ahead EXCEPT ![c] = line[k]]
  /\ UNCHANGED <<holding, left>>

\* The first in line is served.
Serve(c, s) ==
  /\ c \in line[s.key] /\ ahead[c] = {}
  /\ Room(s)
  /\ Sit(c, s.key) /\ StepOut(c)
  /\ UNCHANGED left

\* Somebody goes without a seat,
GiveUp(c) ==
  /\ Outside(c) \/ InLine(c)
  /\ StepOut(c)
  /\ left' = left \cup {c}
  /\ UNCHANGED holding

\* or frees the one it held.
Release(c, k) ==
  /\ c \in holding[k]
  /\ holding' = [holding EXCEPT ![k] = @ \ {c}]
  /\ left' = left \cup {c}
  /\ UNCHANGED <<line, ahead>>

Next == \E c \in Customers :
  \/ \E s \in Seats : Get(c, s) \/ Serve(c, s)
  \/ \E k \in Keys : Join(c, k) \/ Release(c, k)
  \/ GiveUp(c)

Spec == Init /\ [][Next]_vars
=============================================================================
