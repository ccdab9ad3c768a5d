---------------------------- MODULE MCFleetWork -----------------------------
(* An instance for the run of FleetWork: a job, the same one sent again, and one
   more; their profile resolves to a local model or to an endpoint. *)
EXTENDS FleetWork

CONSTANTS n1, n2, a1, a2, p, s1, s2

MCHome == [a \in {a1, a2} |-> IF a = a1 THEN n1 ELSE n2]
MCAddressOf == [j \in 1..MaxJobs |-> IF j = 3 THEN a2 ELSE a1]
MCProfileOf == [j \in 1..MaxJobs |-> p]
MCSessionOf == [j \in 1..MaxJobs |-> IF j = 3 THEN s2 ELSE s1]

\* The run begins when the first job runs already.
MCInit ==
  /\ policy \in {"queue", "refuse"}
  /\ token = (CHOOSE t \in Tokens : TRUE) /\ owner = Home /\ trusted = Nodes \ {Self}
  /\ configOK = TRUE /\ resolve \in [Profiles -> Seats] /\ changes = 0
  /\ LET s == resolve[p] IN
     /\ held = [k \in Keys |-> IF k = s.key THEN {Claim(0, s1)} ELSE {}]
     /\ seat = [j \in Jobs |-> IF j = 1 THEN s ELSE NoSeat]
  /\ waiting = {} /\ nextTicket = 1
  /\ pc = [j \in Jobs |-> IF j = 1 THEN "run" ELSE "unsent"]
  /\ node = [j \in Jobs |-> IF j = 1 THEN n1 ELSE NoNode] /\ admitted = node
  /\ since = [j \in Jobs |-> IF j = 1 THEN Gates ELSE {}]
  /\ ran = {1}
  /\ queued = [j \in Jobs |-> FALSE] /\ ticket = [j \in Jobs |-> 0]
  /\ fingerprint = [j \in Jobs |-> token]
  /\ outcome = [j \in Jobs |-> "nothing"] /\ told = outcome
  /\ gone = [j \in Jobs |-> FALSE] /\ late = gone
  /\ slots = [n \in Nodes |-> 0] /\ arrival = [j \in Jobs |-> 0]

MCSpec == MCInit /\ [][Next]_vars /\ Fairness
=============================================================================
