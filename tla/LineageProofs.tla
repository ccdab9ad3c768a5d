---------------------------- MODULE LineageProofs ----------------------------
(***************************************************************************)
(* What a finished run of StepGraph leaves, for every set of missions: a   *)
(* second inductive invariant beside IInv, for the tasks that fail in the  *)
(* end for want of a step nobody took.  No induction along the graph is    *)
(* needed: a set of tasks that is left has, for want of a ring, a task     *)
(* that waits on none of the others.                                       *)
(***************************************************************************)
EXTENDS StepGraphProofs

-----------------------------------------------------------------------------
(* The graph. *)

\* What is upstream of an upstream task is upstream.
LEMMA UpstreamTrans ==
  ASSUME NEW t \in Tasks, NEW u \in Upstream(t)
  PROVE  Upstream(u) \subseteq Upstream(t)
BY DEF Upstream

\* A task has a first step, and its steps are those of its size.
LEMMA FirstStep ==
  ASSUME mission \in Missions, NEW t \in Tasks
  PROVE  <<t, 1>> \in StepsOf(t) /\ <<t, 1>> \in Steps
<1>1. mission.size[t] \in 1 .. MaxSteps /\ MaxSteps \in Nat
  BY MissionTyped, ConstantsAssumption DEF MissionType
<1>2. <<t, 1>> \in StepId /\ 1 <= mission.size[t]
  BY <1>1 DEF StepId
<1> QED BY <1>2 DEF Steps, StepsOf

\* A task whose steps are not all ended has its least Planned step next: the step
\* before it is not Planned.
LEMMA LeastPlanned ==
  ASSUME mission \in Missions, NEW t \in Tasks, Has(status, t, "Planned")
  PROVE  \E p \in StepsOf(t) :
           /\ status[p] = "Planned"
           /\ p[2] # 1 => /\ <<t, p[2] - 1>> \in StepsOf(t)
                          /\ status[<<t, p[2] - 1>>] # "Planned"
<1> DEFINE P == {s \in StepsOf(t) : status[s] = "Planned"}
           Places == {s[2] : s \in P}
<1>1. Places \in SUBSET Nat /\ Places # {}
  <2>1. \A s \in P : s[2] \in 1 .. MaxSteps
    BY StepTyped DEF StepsOf
  <2>2. P # {}
    BY DEF Has
  <2> QED BY <2>1, <2>2, ConstantsAssumption
<1>2. PICK m \in Places : \A n \in Places : m <= n
  BY <1>1, Least
<1>3. PICK p \in P : p[2] = m
  BY <1>2
<1>4. p \in Steps /\ p[1] = t
  BY DEF StepsOf
<1>5. ASSUME p[2] # 1
      PROVE  <<t, p[2] - 1>> \in StepsOf(t) /\ status[<<t, p[2] - 1>>] # "Planned"
  <2>1. <<t, p[2] - 1>> \in Steps
    BY <1>4, <1>5, StepBefore
  <2>2. <<t, p[2] - 1>> \in StepsOf(t)
    BY <2>1 DEF StepsOf
  <2>3. <<t, p[2] - 1>>[2] = p[2] - 1 /\ p[2] \in Nat
    BY <1>4, StepTyped, ConstantsAssumption
  <2>4. ASSUME <<t, p[2] - 1>> \in P
        PROVE  FALSE
    <3>1. p[2] - 1 \in Places
      BY <2>3, <2>4
    <3>2. p[2] <= p[2] - 1
      BY <1>2, <1>3, <3>1
    <3> QED BY <2>3, <3>2
  <2> QED BY <2>2, <2>4
<1> QED BY <1>3, <1>5

\* The walk takes every dependent it can abandon of what it has taken.
LEMMA DoomedClosed ==
  ASSUME NEW st, NEW from, NEW d \in Known, Abandonable(st, d),
         NEW e \in mission.deps[d], e = from \/ e \in Doomed(st, from)
  PROVE  d \in Doomed(st, from)
BY DEF Doomed

\* ... and nothing outside a set that is closed in the same way.
LEMMA DoomedLeast ==
  ASSUME NEW st, NEW from, NEW D \in SUBSET Known,
         \A d \in Known :
           Abandonable(st, d) /\ mission.deps[d] \cap (D \cup {from}) # {} => d \in D
  PROVE  Doomed(st, from) \subseteq D
BY DEF Doomed

-----------------------------------------------------------------------------
(* One step of the system, by what it may do to a task.                      *)

\* The end of a step: a declined gate, a refused resume, a lost or finished job.
Ends(s, ok) == DeclineGate(s) \/ RefuseResume(s) \/ ReconcileLost(s) \/ StepTerminal(s, ok)

InPass == {"pick", "gate", "wave", "reconcile"}

\* A step inside a pass or of the flags that moves no status.
Calm ==
  /\ UNCHANGED <<mission, status, phase>>
  /\ interrupted => interrupted'
  /\ (pc \in InPass /\ pc' \in InPass) \/ UNCHANGED <<pc, sweepAt>>

\* Every step is one of twelve kinds.
LEMMA Split ==
  ASSUME TypeOK, [Next]_vars
  PROVE  \/ EnterPhase \/ SkipPhase \/ StartPass \/ PassReturns \/ SweepTask
         \/ NextPhase \/ EndRun \/ Reconcile \/ EndPass \/ StartWave
         \/ \E s \in Steps, ok \in BOOLEAN : Ends(s, ok)
         \/ Calm
<1>1. CASE Pick \/ EmptyPass \/ WaveReturns \/ EndWave
  BY <1>1 DEF Pick, EmptyPass, WaveReturns, EndWave, Calm, InPass, signalVars
<1>2. ASSUME NEW s \in Steps, ApproveGate(s)
      PROVE  Calm
  BY <1>2 DEF ApproveGate, Calm, InPass, signalVars
<1>3. CASE Stops
  BY <1>3 DEF TypeOK, Stops, Signal, BoundReached, BoundStored, BoundMarked, Calm
<1>4. CASE UNCHANGED vars
  BY <1>4 DEF vars, signalVars, Calm
<1> QED BY <1>1, <1>2, <1>3, <1>4 DEF Next, Launcher, Scheduler, Terminated, Ends

\* Tasks and phases are numbers.
LEMMA PhaseTyped ==
  ASSUME TypeOK
  PROVE  /\ \A t \in Tasks : /\ mission.phase[t] \in Nat /\ mission.phase[t] <= NPhases
                             /\ mission.deps[t] \subseteq Tasks /\ t \in Nat
         /\ phase \in Nat /\ NPhases \in Nat /\ sweepAt \in Nat /\ NTasks \in Nat
<1>1. NPhases \in Nat /\ NTasks \in Nat /\ mission \in MissionType
  BY MissionTyped, ConstantsAssumption DEF TypeOK
<1>2. phase \in Nat /\ sweepAt \in Nat
  BY <1>1 DEF TypeOK
<1>3. ASSUME NEW t \in Tasks
      PROVE  /\ mission.phase[t] \in Nat /\ mission.phase[t] <= NPhases
             /\ mission.deps[t] \subseteq Tasks /\ t \in Nat
  <2>1. mission.phase[t] \in 1 .. NPhases /\ mission.deps[t] \in SUBSET Tasks
    BY <1>1 DEF MissionType, Phases
  <2> QED BY <1>1, <2>1 DEF Tasks
<1> QED BY <1>1, <1>2, <1>3

\* The mission never changes, nor what is defined from it.
LEMMA SameMission ==
  ASSUME mission' = mission
  PROVE  /\ Steps' = Steps
         /\ \A t : StepsOf(t)' = StepsOf(t) /\ Upstream(t)' = Upstream(t)
         /\ Ordered' = Ordered /\ Orderly' = Orderly
BY DEF Steps, StepsOf, Upstream, Ordered, Orderly

\* No step becomes Planned, and no task stops having a step in error.
LEMMA PlannedShrinks ==
  ASSUME IInv, [Next]_vars
  PROVE  /\ mission' = mission
         /\ \A s \in Steps : status'[s] = "Planned" => status[s] = "Planned"
         /\ \A s \in Steps : status[s] \in Terminal => status'[s] = status[s]
         /\ \A t : Has(status, t, "Error") => Has(status', t, "Error")
<1>1. Progress
  BY ProgressStep
<1>2. \A s \in Steps : status[s] \in {"Planned", "Running", "Complete", "Error", "Abandoned"}
  BY StepTyped DEF IInv, TypeOK, Terminal, Dead
<1>3. \A s \in Steps : status[s] \in Terminal => status'[s] = status[s]
  BY <1>1 DEF Progress
<1>4. \A s \in Steps : status'[s] = "Planned" => status[s] = "Planned"
  BY <1>1, <1>2, <1>3 DEF Progress, Terminal, Dead
<1> QED BY <1>1, <1>3, <1>4 DEF Progress, Has, StepsOf, Terminal, Dead

\* Tasks are entered at the entry of their phase, and only then.
LEMMA EnteredStep ==
  ASSUME IInv, [Next]_vars
  PROVE  /\ Entered \subseteq Entered'
         /\ EnterPhase \/ Entered' = Entered
<1>t. TypeOK /\ mission' = mission
  BY PlannedShrinks DEF IInv
<1>1. \A t \in Tasks : mission.phase[t] \in Nat /\ mission.phase[t] <= NPhases
  BY <1>t, PhaseTyped
<1>2. phase \in Nat /\ NPhases \in Nat
  BY <1>t, PhaseTyped
<1>3. CASE EnterPhase
  BY <1>t, <1>3 DEF EnterPhase, Entered
<1>4. CASE SkipPhase \/ NextPhase
  BY <1>t, <1>1, <1>2, <1>4 DEF SkipPhase, NextPhase, Entered
<1>5. CASE StartPass \/ PassReturns \/ SweepTask \/ Reconcile \/ EndPass \/ StartWave
  BY <1>t, <1>5 DEF StartPass, PassReturns, SweepTask, Reconcile, EndPass, StartWave,
                    Entered, FailIfInterrupted
<1>6. CASE EndRun
  BY <1>t, <1>1, <1>2, <1>6 DEF EndRun, MorePhases, Entered
<1>7. ASSUME NEW s \in Steps, NEW ok \in BOOLEAN, Ends(s, ok)
      PROVE  Entered' = Entered
  BY <1>t, <1>7 DEF Ends, DeclineGate, RefuseResume, ReconcileLost, StepTerminal, Entered
<1>8. CASE Calm
  BY <1>t, <1>8 DEF Calm, InPass, Entered
<1> QED BY <1>t, <1>3, <1>4, <1>5, <1>6, <1>7, <1>8, Split

\* What the end of a step does: the step was waited for or ran on settled inputs;
\* it ends well or badly (an operator's stop aside), and only a bad end abandons the
\* Planned steps of the tasks the walk takes.
LEMMA EndsFacts ==
  ASSUME IInv, NEW s \in Steps, NEW ok \in BOOLEAN, Ends(s, ok)
  PROVE  /\ UNCHANGED <<mission, phase, pc, interrupted>>
         /\ pc \in {"gate", "wave", "reconcile"}
         /\ DepsAccepted(status, s[1])
         /\ status[s] = "Running" \/ IsReady(s)
         /\ status'[s] \in Terminal
         /\ ~interrupted => status'[s] \in {"Complete", "Error"}
         /\ \A r \in Steps : r # s =>
              status'[r] = IF /\ status'[s] = "Error" /\ status[r] = "Planned"
                              /\ r[1] \in Doomed([status EXCEPT ![s] = status'[s]], s[1])
                           THEN "Abandoned" ELSE status[r]
<1>t. status \in StatusType /\ mission \in Missions
  BY DEF IInv, TypeOK, StatusType
<1>1. /\ Reached(s) \/ IsReady(s)
      /\ status[s] \notin Terminal
      /\ \E b \in BOOLEAN : EndStep(s, b)
      /\ UNCHANGED <<mission, phase, pc, interrupted, boundExceeded>>
  BY EndsLive DEF Ends
<1>2. pc \in {"gate", "wave", "reconcile"}
  BY DEF Ends, DeclineGate, RefuseResume, ReconcileLost, StepTerminal
<1>3. DepsAccepted(status, s[1])
  BY <1>1, <1>t, ReadyIsSettled DEF IInv, RunsOnSettledInputs
<1>4. status[s] = "Running" \/ IsReady(s)
  <2>1. DeclineGate(s) \/ RefuseResume(s) => IsReady(s)
    BY DEF IInv, ApprovedStaysReady, DeclineGate, RefuseResume, First
  <2>2. ReconcileLost(s) \/ StepTerminal(s, ok) => s \in inFlight /\ pc # "abort"
    BY DEF ReconcileLost, StepTerminal, First
  <2>3. ReconcileLost(s) \/ StepTerminal(s, ok) => status[s] = "Running"
    BY <2>2 DEF IInv, RunningIsInFlight
  <2> QED BY <2>1, <2>3 DEF Ends
<1>5. PICK b \in BOOLEAN : EndStep(s, b)
  BY <1>1
<1> DEFINE result == IF b THEN "Complete" ELSE Unfinished
           ended  == [status EXCEPT ![s] = result]
           doomed == IF result = "Error" THEN PlannedOf(ended, Doomed(ended, s[1])) ELSE {}
<1>6. status' = Abandon(ended, doomed)
  BY <1>5 DEF EndStep
<1>7. result \in Terminal /\ (~interrupted => result \in {"Complete", "Error"})
  BY DEF Unfinished, OperatorStop, Terminal, Dead
<1>8. /\ s \in StepId /\ ended[s] = result
      /\ \A r \in Steps : r # s => ended[r] = status[r]
  BY <1>t, StepTyped DEF StatusType
<1> HIDE DEF result
<1>9. s \notin doomed
  BY <1>7, <1>8 DEF PlannedOf, Terminal, Dead
<1>10. \A r \in Steps : status'[r] = IF r \in doomed THEN "Abandoned" ELSE ended[r]
  <2> HIDE DEF ended, doomed
  <2> QED BY <1>6, StepTyped DEF Abandon
<1>11. status'[s] = result
  BY <1>8, <1>9, <1>10
<1>12. ASSUME NEW r \in Steps, r # s
       PROVE  status'[r] = IF /\ status'[s] = "Error" /\ status[r] = "Planned"
                              /\ r[1] \in Doomed([status EXCEPT ![s] = status'[s]], s[1])
                           THEN "Abandoned" ELSE status[r]
  <2>1. ended = [status EXCEPT ![s] = status'[s]]
    BY <1>11
  <2>2. r \in doomed <=> /\ result = "Error" /\ status[r] = "Planned"
                         /\ r[1] \in Doomed(ended, s[1])
    BY <1>8, <1>12 DEF PlannedOf
  <2> HIDE DEF ended, doomed
  <2> QED BY <2>1, <2>2, <1>8, <1>10, <1>11, <1>12
<1> QED BY <1>1, <1>2, <1>3, <1>4, <1>7, <1>11, <1>12

\* What the entry of a phase does: it abandons the Planned steps of the tasks that a
\* walk from a dead task takes.
LEMMA EntryFacts ==
  ASSUME EnterPhase
  PROVE  \A r \in Steps :
           status'[r] = IF /\ status[r] = "Planned"
                           /\ \E t \in Known : /\ TaskStatus(status, t) \in Dead
                                               /\ r[1] \in Doomed(status, t)
                        THEN "Abandoned" ELSE status[r]
<1> DEFINE dead == {t \in Known : TaskStatus(status, t) \in Dead}
           all == UNION {PlannedOf(status, Doomed(status, t)) : t \in dead}
<1>1. status' = Abandon(status, all)
  BY DEF EnterPhase
<1>2. \A r \in Steps : r \in all <=> /\ status[r] = "Planned"
                                     /\ \E t \in dead : r[1] \in Doomed(status, t)
  BY DEF PlannedOf
<1>3. \A r \in Steps : status'[r] = IF r \in all THEN "Abandoned" ELSE status[r]
  <2> HIDE DEF all
  <2> QED BY <1>1, StepTyped DEF Abandon
<1> HIDE DEF all
<1> QED BY <1>2, <1>3

\* What the sweep of one task does.
LEMMA SweepFacts ==
  ASSUME SweepTask, TypeOK
  PROVE  \A r \in Steps :
           status'[r] = IF /\ status[r] = "Planned" /\ r[1] = sweepAt
                           /\ mission.phase[sweepAt] = phase /\ StrandedOrigins(sweepAt) # {}
                        THEN "Abandoned" ELSE status[r]
<1>1. CASE mission.phase[sweepAt] = phase /\ StrandedOrigins(sweepAt) # {}
  <2>1. status' = Abandon(status, PlannedOf(status, {sweepAt}))
    BY <1>1 DEF SweepTask
  <2> QED BY <1>1, <2>1, StepTyped DEF Abandon, PlannedOf
<1>2. CASE ~(mission.phase[sweepAt] = phase /\ StrandedOrigins(sweepAt) # {})
  BY <1>2 DEF SweepTask
<1> QED BY <1>1, <1>2

-----------------------------------------------------------------------------
(* The parts that hold with and without a stop.                              *)

\* The run is done only past the last phase.
LEMMA DoneStep ==
  ASSUME IInv, DoneIsPastLast, [Next]_vars
  PROVE  DoneIsPastLast'
<1>t. TypeOK /\ phase \in 1 .. NPhases + 1 /\ NPhases \in Nat
  BY PhaseTyped DEF IInv, TypeOK
<1>1. CASE EndRun
  BY <1>t, <1>1 DEF EndRun, MorePhases, DoneIsPastLast
<1>2. CASE EnterPhase \/ SkipPhase \/ StartPass \/ PassReturns \/ SweepTask \/ NextPhase
           \/ Reconcile \/ EndPass \/ StartWave
  BY <1>2 DEF EnterPhase, SkipPhase, StartPass, PassReturns, SweepTask, NextPhase,
              Reconcile, EndPass, StartWave, FailIfInterrupted, DoneIsPastLast
<1>3. ASSUME NEW s \in Steps, NEW ok \in BOOLEAN, Ends(s, ok)
      PROVE  DoneIsPastLast'
  BY <1>3, EndsFacts DEF DoneIsPastLast
<1>4. CASE Calm
  BY <1>4 DEF Calm, InPass, DoneIsPastLast
<1> QED BY <1>t, <1>1, <1>2, <1>3, <1>4, Split

\* A step of a task whose phase is not entered is not touched: what a pass reaches
\* and what a walk takes is known, and by then entered.
LEMMA FutureStep ==
  ASSUME IInv, FutureUntouched, [Next]_vars
  PROVE  FutureUntouched'
<1>t. TypeOK /\ mission' = mission /\ Steps' = Steps
  BY PlannedShrinks, SameMission DEF IInv
<1>e. Entered \subseteq Entered'
  BY EnteredStep
<1> SUFFICES ASSUME NEW s \in Steps, s[1] \notin Entered'
             PROVE  status'[s] = "Planned"
  BY <1>t DEF FutureUntouched
<1>1. s[1] \in Tasks /\ s[1] \notin Entered /\ status[s] = "Planned"
  BY <1>e, StepTyped DEF FutureUntouched
<1>p. \A t \in Tasks : mission.phase[t] \in Nat /\ phase \in Nat
  BY <1>t, PhaseTyped
<1>2. CASE EnterPhase
  <2>1. s[1] \notin Known
    BY <1>1, <1>2, <1>t, <1>p DEF EnterPhase, Entered, Known
  <2>2. \A t : s[1] \notin Doomed(status, t)
    BY <2>1 DEF Doomed
  <2> QED BY <1>1, <1>2, <2>2, EntryFacts
<1>3. CASE SweepTask
  <2>1. s[1] # sweepAt \/ mission.phase[sweepAt] # phase
    BY <1>1, <1>3, <1>t DEF SweepTask, Entered
  <2> QED BY <1>1, <1>3, <1>t, <2>1, SweepFacts
<1>4. CASE StartWave
  <2>1. s[1] \notin Known
    BY <1>1, <1>4, <1>p DEF StartWave, Entered, Known
  <2>2. s \notin passed
    BY <2>1 DEF IInv, ApprovedStaysReady, IsReady
  <2> QED BY <1>1, <1>4, <2>2, StepTyped DEF StartWave
<1>5. CASE Reconcile
  BY <1>1, <1>5, StepTyped DEF Reconcile
<1>6. ASSUME NEW r \in Steps, NEW ok \in BOOLEAN, Ends(r, ok)
      PROVE  status'[s] = "Planned"
  <2>1. pc \in {"gate", "wave", "reconcile"} /\ (status[r] = "Running" \/ IsReady(r))
    BY <1>6, EndsFacts
  <2>2. s[1] \notin Known
    BY <1>1, <2>1, <1>p DEF Entered, Known
  <2>3. s # r
    BY <1>1, <2>1, <2>2 DEF IsReady
  <2>4. \A st, f : s[1] \notin Doomed(st, f)
    BY <2>2 DEF Doomed
  <2> QED BY <1>1, <1>6, <2>3, <2>4, EndsFacts
<1>7. CASE SkipPhase \/ StartPass \/ PassReturns \/ NextPhase \/ EndRun \/ EndPass \/ Calm
  BY <1>1, <1>7 DEF SkipPhase, StartPass, PassReturns, NextPhase, EndRun, EndPass, Calm
<1> QED BY <1>t, <1>2, <1>3, <1>4, <1>5, <1>6, <1>7, Split

\* No ring of waiting tasks: a pass starts on a graph without a cycle only, and a
\* phase without work has no task that waits.
LEMMA RingStep ==
  ASSUME IInv, NoRing, [Next]_vars
  PROVE  NoRing'
<1>t. TypeOK /\ mission' = mission /\ Steps' = Steps /\ \A t : StepsOf(t)' = StepsOf(t)
  BY PlannedShrinks, SameMission DEF IInv
<1>p. /\ \A t \in Tasks : mission.phase[t] \in Nat /\ mission.phase[t] <= NPhases
      /\ phase \in Nat /\ NPhases \in Nat
  BY <1>t, PhaseTyped
<1>1. \A t : Has(status, t, "Planned")' => Has(status, t, "Planned")
  BY <1>t, PlannedShrinks DEF Has, StepsOf
<1> SUFFICES ASSUME NEW S \in (SUBSET Checked') \ {{}},
                    \A t \in S : Has(status, t, "Planned")'
             PROVE  \E t \in S : mission.deps[t] \cap S = {}
  BY <1>t DEF NoRing
<1>2. \A t \in S : Has(status, t, "Planned")
  BY <1>1
<1>3. S \subseteq Checked => \E t \in S : mission.deps[t] \cap S = {}
  BY <1>2 DEF NoRing
<1>4. CASE StartPass
  <2>1. pc' = "abort" => Checked' \subseteq Checked
    BY <1>t, <1>4 DEF StartPass, Checked
  <2>2. pc' # "abort" => ~HasCycle
    BY <1>4 DEF StartPass
  <2>3. Checked' \subseteq Known
    BY <1>t, <1>p, <1>4 DEF StartPass, Checked, Known
  <2>4. ~HasCycle => \E t \in S : mission.deps[t] \cap S = {}
    BY <2>3 DEF HasCycle
  <2> QED BY <1>3, <2>1, <2>2, <2>4
<1>5. CASE SkipPhase
  <2>1. \A t \in Checked' : t \in Checked \/ mission.phase[t] = phase
    BY <1>t, <1>p, <1>5 DEF SkipPhase, Checked
  <2>2. \A t \in Tasks : mission.phase[t] = phase => ~Has(status, t, "Planned")
    BY <1>5 DEF SkipPhase, PhaseHasWork, Has, StepsOf
  <2>3. S \subseteq Checked
    BY <1>2, <2>1, <2>2 DEF Checked
  <2> QED BY <1>3, <2>3
<1>6. CASE NextPhase
  BY <1>t, <1>p, <1>6, <1>3 DEF NextPhase, Checked
<1>7. CASE EndRun
  BY <1>t, <1>p, <1>7, <1>3 DEF EndRun, MorePhases, Checked
<1>8. CASE EnterPhase \/ PassReturns \/ SweepTask \/ Reconcile \/ EndPass \/ StartWave
  <2>1. Checked' \subseteq Checked
    BY <1>t, <1>8 DEF EnterPhase, PassReturns, SweepTask, Reconcile, EndPass, StartWave,
                      FailIfInterrupted, Checked
  <2> QED BY <1>3, <2>1
<1>9. ASSUME NEW s \in Steps, NEW ok \in BOOLEAN, Ends(s, ok)
      PROVE  Checked' = Checked
  BY <1>t, <1>9, EndsFacts DEF Checked
<1>10. CASE Calm
  <2>1. Checked' = Checked
    BY <1>t, <1>10 DEF Calm, InPass, Checked
  <2> QED BY <1>3, <2>1
<1> QED BY <1>t, <1>3, <1>4, <1>5, <1>6, <1>7, <1>8, <1>9, <1>10, Split

-----------------------------------------------------------------------------
(* The parts that hold until a stop.                                         *)

\* A stop is never taken back.
LEMMA StopStays ==
  ASSUME IInv, [Next]_vars, ~interrupted'
  PROVE  ~interrupted
<1>t. TypeOK
  BY DEF IInv
<1>1. CASE Calm
  BY <1>1 DEF Calm
<1>2. ASSUME NEW s \in Steps, NEW ok \in BOOLEAN, Ends(s, ok)
      PROVE  ~interrupted
  BY <1>2, EndsFacts
<1>3. CASE ~Calm /\ interrupted' = interrupted
  BY <1>3
<1> QED
  BY <1>t, <1>1, <1>2, <1>3, Split
     DEF EnterPhase, SkipPhase, StartPass, PassReturns, SweepTask, NextPhase, EndRun,
         Reconcile, EndPass, StartWave, signalVars

\* Without a stop, what a step newly abandons is abandoned by a walk from an ended
\* task, by the walk at the entry of a phase, or by the sweep.
LEMMA NewlyAbandoned ==
  ASSUME IInv, [Next]_vars, ~interrupted,
         NEW s \in Steps, status'[s] = "Abandoned", status[s] # "Abandoned"
  PROVE  /\ status[s] = "Planned"
         /\ \/ EnterPhase /\ \E t \in Known : /\ TaskStatus(status, t) \in Dead
                                              /\ s[1] \in Doomed(status, t)
            \/ /\ SweepTask /\ s[1] = sweepAt
               /\ mission.phase[sweepAt] = phase /\ StrandedOrigins(sweepAt) # {}
            \/ \E r \in Steps, ok \in BOOLEAN :
                 /\ Ends(r, ok) /\ r # s /\ status'[r] = "Error"
                 /\ s[1] \in Doomed([status EXCEPT ![r] = "Error"], r[1])
<1>t. TypeOK
  BY DEF IInv
<1>1. CASE EnterPhase
  BY <1>1, EntryFacts
<1>2. CASE SweepTask
  BY <1>2, <1>t, SweepFacts
<1>3. ASSUME NEW r \in Steps, NEW ok \in BOOLEAN, Ends(r, ok)
      PROVE  /\ r # s /\ status[s] = "Planned" /\ status'[r] = "Error"
             /\ s[1] \in Doomed([status EXCEPT ![r] = "Error"], r[1])
  <2>1. r # s
    BY <1>3, EndsFacts
  <2> QED BY <1>3, <2>1, EndsFacts
<1>4. CASE StartWave
  BY <1>4, StepTyped DEF StartWave
<1>5. CASE Reconcile
  BY <1>5, StepTyped DEF Reconcile, Unfinished, OperatorStop
<1>6. CASE SkipPhase \/ StartPass \/ PassReturns \/ NextPhase \/ EndRun \/ EndPass \/ Calm
  BY <1>6 DEF SkipPhase, StartPass, PassReturns, NextPhase, EndRun, EndPass, Calm
<1> QED BY <1>t, <1>1, <1>2, <1>3, <1>4, <1>5, <1>6, Split

\* Without a stop, tasks are abandoned as a whole.
LEMMA WholeStep ==
  ASSUME IInv, AbandonedWhole, [Next]_vars, ~interrupted
  PROVE  AbandonedWhole'
<1>t. mission' = mission /\ Steps' = Steps /\ \A t : StepsOf(t)' = StepsOf(t)
  BY PlannedShrinks, SameMission
<1> SUFFICES ASSUME NEW t \in Tasks, Has(status, t, "Abandoned")', Has(status, t, "Planned")'
             PROVE  Has(status, t, "Error")'
  BY <1>t DEF AbandonedWhole
<1>1. PICK a \in StepsOf(t) : status'[a] = "Abandoned"
  BY <1>t DEF Has
<1>2. PICK p \in StepsOf(t) : status'[p] = "Planned"
  BY <1>t DEF Has
<1>3. a \in Steps /\ a[1] = t /\ p \in Steps /\ p[1] = t
  BY DEF StepsOf
<1>4. status[p] = "Planned"
  BY <1>2, <1>3, PlannedShrinks
<1>5. CASE status[a] = "Abandoned"
  <2>1. Has(status, t, "Error")
    BY <1>4, <1>5 DEF AbandonedWhole, Has
  <2> QED BY <1>t, <2>1, PlannedShrinks DEF Has
<1>6. CASE status[a] # "Abandoned"
  <2>1. CASE EnterPhase /\ \E u \in Known : /\ TaskStatus(status, u) \in Dead
                                            /\ a[1] \in Doomed(status, u)
    BY <1>2, <1>3, <1>4, <2>1, EntryFacts
  <2>2. CASE /\ SweepTask /\ a[1] = sweepAt
             /\ mission.phase[sweepAt] = phase /\ StrandedOrigins(sweepAt) # {}
    BY <1>2, <1>3, <1>4, <2>2, SweepFacts DEF IInv
  <2>3. ASSUME NEW r \in Steps, NEW ok \in BOOLEAN, Ends(r, ok), status'[r] = "Error",
               a[1] \in Doomed([status EXCEPT ![r] = "Error"], r[1])
        PROVE  FALSE
    <3>1. p # r
      BY <1>2, <2>3
    <3> QED BY <1>2, <1>3, <1>4, <2>3, <3>1, EndsFacts
  <2> QED BY <1>1, <1>3, <1>6, <2>1, <2>2, <2>3, NewlyAbandoned
<1> QED BY <1>5, <1>6

\* A sick task stays sick.
LEMMA SickStays ==
  ASSUME IInv, [Next]_vars, NEW u, Sick(u)
  PROVE  Sick(u)'
<1>1. mission' = mission /\ (Has(status, u, "Error") => Has(status', u, "Error"))
  BY PlannedShrinks
<1>2. Has(status', u, "Error") <=> Has(status, u, "Error")'
  BY <1>1, SameMission DEF Has
<1> QED BY <1>1, <1>2 DEF Sick, TaskStatus

\* A dead task has a sick one upstream.
LEMMA DeadHasCause ==
  ASSUME AbandonedForCause, NEW t \in Tasks, TaskStatus(status, t) \in Dead
  PROVE  \E u \in Upstream(t) : Sick(u)
<1>1. CASE TaskStatus(status, t) = "Error"
  BY <1>1, UpstreamOf DEF Sick
<1>2. CASE TaskStatus(status, t) = "Abandoned"
  <2>1. PICK a \in StepsOf(t) : status[a] = "Abandoned"
    BY <1>2 DEF TaskStatus, Has
  <2>2. a \in Steps /\ a[1] = t
    BY DEF StepsOf
  <2> QED BY <2>1, <2>2 DEF AbandonedForCause
<1> QED BY <1>1, <1>2 DEF Dead

\* What the sweep abandons without an error of its own has a sick task upstream: all
\* it waits for has ended, so it waits for a success that will not come.
LEMMA SweptHasCause ==
  ASSUME IInv, NothingRipe, AbandonedForCause, pc = "sweep", sweepAt \in Tasks,
         mission.phase[sweepAt] = phase, StrandedOrigins(sweepAt) # {},
         Has(status, sweepAt, "Planned")
  PROVE  \E u \in Upstream(sweepAt) : Sick(u)
<1> DEFINE t == sweepAt
<1>t. TypeOK /\ mission \in Missions /\ t \in Tasks
  BY DEF IInv, TypeOK
<1>1. CASE Has(status, t, "Error") \/ "complete" \notin mission.runOn[t]
  BY <1>1, UpstreamOf DEF Sick, TaskStatus
<1>2. CASE ~Has(status, t, "Error") /\ "complete" \in mission.runOn[t]
  <2>1. \A d \in mission.deps[t] : d \in Tasks /\ TaskStatus(status, d) \in Terminal
    BY <1>t, <1>2, PhaseTyped DEF StrandedOrigins
  <2>2. CASE \E d \in mission.deps[t] : TaskStatus(status, d) \in Dead
    <3>1. PICK d \in mission.deps[t] : d \in Tasks /\ TaskStatus(status, d) \in Dead
      BY <2>1, <2>2
    <3>2. \E u \in Upstream(d) : Sick(u)
      BY <3>1, DeadHasCause
    <3> QED BY <3>2, <1>t, UpstreamOf
  <2>3. CASE \A d \in mission.deps[t] : TaskStatus(status, d) = "Complete"
    <3>1. PICK p \in StepsOf(t) : /\ status[p] = "Planned"
                                  /\ p[2] # 1 => /\ <<t, p[2] - 1>> \in StepsOf(t)
                                                 /\ status[<<t, p[2] - 1>>] # "Planned"
      BY <1>t, LeastPlanned
    <3>2. p \in Steps /\ p[1] = t
      BY DEF StepsOf
    <3>3. t \in Over /\ BetweenPasses
      BY <1>t DEF Over, BetweenPasses
    <3>4. ~Ripe(p)
      BY <3>2, <3>3 DEF NothingRipe
    <3>5. p[2] # 1 /\ status[<<t, p[2] - 1>>] # "Complete"
      BY <1>2, <2>3, <3>1, <3>2, <3>4 DEF Ripe
    <3> DEFINE q == <<t, p[2] - 1>>
    <3>6. q \in Steps /\ q \in StepsOf(t)
      BY <3>1, <3>5 DEF StepsOf
    <3>7. status[q] # "Running"
      BY <3>6 DEF IInv, RunningIsInFlight, PassShape
    <3>8. status[q] \in {"Planned", "Running", "Complete", "Error", "Abandoned"}
      BY <1>t, <3>6, StepTyped DEF TypeOK, Terminal, Dead
    <3>9. status[q] # "Error"
      BY <1>2, <3>6 DEF Has
    <3>10. status[q] = "Abandoned"
      BY <3>1, <3>5, <3>7, <3>8, <3>9
    <3> QED BY <3>6, <3>10 DEF AbandonedForCause
  <2> QED BY <2>1, <2>2, <2>3 DEF Terminal
<1> QED BY <1>1, <1>2

\* Without a stop, a task is abandoned for a cause upstream.
LEMMA CauseStep ==
  ASSUME IInv, NothingRipe, AbandonedForCause, [Next]_vars, ~interrupted
  PROVE  AbandonedForCause'
<1>t. mission' = mission /\ Steps' = Steps /\ \A t : Upstream(t)' = Upstream(t)
  BY PlannedShrinks, SameMission
<1>m. mission \in Missions
  BY DEF IInv, TypeOK
<1> SUFFICES ASSUME NEW s \in Steps, status'[s] = "Abandoned"
             PROVE  \E u \in Upstream(s[1]) : Sick(u)'
  BY <1>t DEF AbandonedForCause
<1>s. s[1] \in Tasks /\ s \in StepsOf(s[1])
  BY StepTyped
<1>1. CASE status[s] = "Abandoned"
  BY <1>1, SickStays DEF AbandonedForCause
<1>2. CASE status[s] # "Abandoned"
  <2>p. status[s] = "Planned"
    BY <1>2, NewlyAbandoned
  <2>1. ASSUME NEW t \in Known, TaskStatus(status, t) \in Dead, s[1] \in Doomed(status, t)
        PROVE  \E u \in Upstream(s[1]) : Sick(u)'
    <3>1. t \in Tasks
      BY DEF Known
    <3>2. \E u \in Upstream(t) : Sick(u)
      BY <2>1, <3>1, DeadHasCause
    <3>3. t \in Upstream(s[1])
      BY <1>m, <2>1, <3>1, DoomedDownstream
    <3> QED BY <1>s, <3>2, <3>3, UpstreamTrans, SickStays
  <2>2. CASE /\ SweepTask /\ s[1] = sweepAt
             /\ mission.phase[sweepAt] = phase /\ StrandedOrigins(sweepAt) # {}
    <3>1. Has(status, sweepAt, "Planned") /\ pc = "sweep"
      BY <1>s, <2>p, <2>2 DEF Has, SweepTask
    <3>2. \E u \in Upstream(sweepAt) : Sick(u)
      BY <1>s, <2>2, <3>1, SweptHasCause
    <3> QED BY <2>2, <3>2, SickStays
  <2>3. ASSUME NEW r \in Steps, NEW ok \in BOOLEAN, Ends(r, ok), status'[r] = "Error",
               s[1] \in Doomed([status EXCEPT ![r] = "Error"], r[1])
        PROVE  \E u \in Upstream(s[1]) : Sick(u)'
    <3>1. r[1] \in Tasks /\ r \in StepsOf(r[1])
      BY StepTyped
    <3>2. r[1] \in Upstream(s[1])
      BY <1>m, <2>3, <3>1, DoomedDownstream
    <3>3. Has(status, r[1], "Error")'
      BY <1>t, <2>3, <3>1, SameMission DEF Has
    <3>4. Sick(r[1])'
      BY <3>3 DEF Sick, TaskStatus
    <3> QED BY <3>2, <3>4
  <2> QED BY <1>2, <2>1, <2>2, <2>3, NewlyAbandoned
<1> QED BY <1>1, <1>2

\* A task is Complete just when all its steps are.
LEMMA CompleteTask ==
  ASSUME NEW st, NEW t
  PROVE  TaskStatus(st, t) = "Complete" <=> \A s \in StepsOf(t) : st[s] = "Complete"
BY DEF TaskStatus, Has

\* What a walk or a sweep leaves ripe was ripe: it ends no step well.
LEMMA RipeBack ==
  ASSUME IInv, [Next]_vars, NEW s \in Steps, Ripe(s)',
         \A r \in Steps : status'[r] = "Complete" => status[r] = "Complete"
  PROVE  Ripe(s)
<1>m. mission \in Missions /\ mission' = mission /\ \A t : StepsOf(t)' = StepsOf(t)
  BY PlannedShrinks, SameMission DEF IInv, TypeOK
<1>1. status[s] = "Planned"
  BY PlannedShrinks DEF Ripe
<1>2. CASE s[2] = 1
  <2>1. ASSUME NEW d \in mission.deps[s[1]]
        PROVE  TaskStatus(status, d) = "Complete"
    <3>1. TaskStatus(status', d) = "Complete"
      BY <1>m, <1>2, SameMission DEF Ripe, TaskStatus, Has
    <3>2. \A r \in StepsOf(d) : status'[r] = "Complete"
      BY <3>1, CompleteTask
    <3>3. \A r \in StepsOf(d) : status[r] = "Complete"
      BY <3>2 DEF StepsOf
    <3> QED BY <3>3, CompleteTask
  <2> QED BY <1>m, <1>1, <1>2, <2>1 DEF Ripe
<1>3. CASE s[2] # 1
  <2>1. <<s[1], s[2] - 1>> \in Steps
    BY <1>m, <1>3, StepBefore
  <2> QED BY <1>1, <1>3, <2>1 DEF Ripe
<1> QED BY <1>2, <1>3

\* A Complete task is known: nothing completes before its phase is entered.
LEMMA CompleteKnown ==
  ASSUME IInv, FutureUntouched, NEW d \in Tasks, TaskStatus(status, d) = "Complete"
  PROVE  d \in Known
<1>t. mission \in Missions /\ TypeOK
  BY DEF IInv, TypeOK
<1>1. <<d, 1>> \in Steps /\ status[<<d, 1>>] = "Complete"
  BY <1>t, FirstStep, CompleteTask
<1>2. <<d, 1>>[1] = d
  OBVIOUS
<1>3. d \in Entered
  BY <1>1, <1>2 DEF FutureUntouched
<1> QED BY <1>t, <1>3, PhaseTyped DEF Entered, Known

\* A ripe step of a known task is ready.
LEMMA RipeIsReady ==
  ASSUME IInv, FutureUntouched, NEW s \in Steps, s[1] \in Known, Ripe(s)
  PROVE  IsReady(s)
<1>1. CASE s[2] = 1
  <2>1. ASSUME NEW d \in mission.deps[s[1]]
        PROVE  d \in Known /\ Accepts(s[1], TaskStatus(status, d))
    <3>1. d \in Tasks
      BY StepTyped, PhaseTyped DEF IInv
    <3>2. TaskStatus(status, d) = "Complete" /\ "complete" \in mission.runOn[s[1]]
      BY <1>1 DEF Ripe
    <3> QED BY <3>1, <3>2, CompleteKnown DEF Accepts
  <2> QED BY <1>1, <2>1 DEF Ripe, IsReady, DepsAccepted
<1>2. CASE s[2] # 1
  BY <1>2 DEF Ripe, IsReady
<1> QED BY <1>1, <1>2

\* The steps of the launcher between two passes, and where they leave it.
LEMMA BetweenStep ==
  ASSUME IInv, [Next]_vars, BetweenPasses'
  PROVE  \/ EndPass
         \/ /\ SkipPhase
            /\ \A t \in Over' : t \in Over \/ (mission.phase[t] = phase /\ pc = "entered")
         \/ /\ EnterPhase \/ SweepTask \/ UNCHANGED status
            /\ BetweenPasses /\ Over' \subseteq Over
<1>t. TypeOK /\ mission' = mission
  BY PlannedShrinks DEF IInv
<1>p. /\ \A t \in Tasks : mission.phase[t] \in Nat /\ mission.phase[t] <= NPhases
      /\ phase \in Nat /\ NPhases \in Nat
  BY <1>t, PhaseTyped
<1>1. CASE EnterPhase \/ PassReturns \/ SweepTask
  BY <1>t, <1>1 DEF EnterPhase, PassReturns, SweepTask, FailIfInterrupted, BetweenPasses, Over
<1>2. CASE SkipPhase
  BY <1>t, <1>p, <1>2 DEF SkipPhase, Over
<1>3. CASE NextPhase
  BY <1>t, <1>p, <1>3 DEF NextPhase, BetweenPasses, Over
<1>4. CASE EndRun
  BY <1>t, <1>p, <1>4 DEF EndRun, FailIfInterrupted, MorePhases, BetweenPasses, Over
<1>5. CASE StartPass \/ Reconcile \/ StartWave
  BY <1>5 DEF StartPass, Reconcile, StartWave, BetweenPasses
<1>6. ASSUME NEW s \in Steps, NEW ok \in BOOLEAN, Ends(s, ok)
      PROVE  FALSE
  BY <1>6, EndsFacts DEF BetweenPasses
<1>7. CASE Calm
  BY <1>t, <1>7 DEF Calm, InPass, BetweenPasses, Over
<1> QED BY <1>t, <1>1, <1>2, <1>3, <1>4, <1>5, <1>6, <1>7, Split

\* A pass ends, without a stop, when no step of the known tasks is ready.
LEMMA PassEndsClean ==
  ASSUME TypeOK, EndPass, ~interrupted'
  PROVE  UNCHANGED status /\ Over' \subseteq Known /\ \A s \in Steps : ~IsReady(s)
<1>1. UNCHANGED <<status, mission, phase, interrupted>> /\ NextWaveReady = {}
  BY DEF EndPass, signalVars
<1>2. \A s \in Steps : ~IsReady(s)
  BY <1>1 DEF NextWaveReady
<1>3. Over' \subseteq Known
  BY <1>1, PhaseTyped DEF Over, Known
<1> QED BY <1>1, <1>2, <1>3

\* Between passes nothing is left ripe.
LEMMA RipeStep ==
  ASSUME IInv, FutureUntouched, NothingRipe, [Next]_vars, ~interrupted'
  PROVE  NothingRipe'
<1>t. TypeOK /\ mission' = mission /\ Steps' = Steps
  BY PlannedShrinks, SameMission DEF IInv
<1> SUFFICES ASSUME BetweenPasses', NEW s \in Steps, s[1] \in Over', Ripe(s)'
             PROVE  FALSE
  BY <1>t DEF NothingRipe
<1>1. CASE EndPass
  <2>1. UNCHANGED status
    BY <1>t, <1>1, PassEndsClean
  <2>2. Ripe(s)
    BY <2>1, RipeBack
  <2> QED BY <1>t, <1>1, <2>2, PassEndsClean, RipeIsReady
<1>2. CASE SkipPhase /\ mission.phase[s[1]] = phase
  <2>1. status[s] = "Planned"
    BY PlannedShrinks DEF Ripe
  <2> QED BY <1>2, <2>1 DEF SkipPhase, PhaseHasWork
<1>3. CASE /\ EnterPhase \/ SweepTask \/ UNCHANGED status
           /\ BetweenPasses /\ s[1] \in Over
  <2>1. \A r \in Steps : status'[r] = "Complete" => status[r] = "Complete"
    BY <1>t, <1>3, EntryFacts, SweepFacts
  <2> QED BY <1>3, <2>1, RipeBack DEF NothingRipe
<1>4. CASE SkipPhase /\ s[1] \in Over
  BY <1>4, <1>3 DEF SkipPhase, BetweenPasses
<1> QED BY <1>1, <1>2, <1>3, <1>4, BetweenStep

-----------------------------------------------------------------------------
(* The parts that hold until a stop in an orderly mission.                   *)

\* Where nothing is startable and the cascades left none deaf behind a dead task, the
\* sweep abandons steps of failed tasks only.
LEMMA SweepOnlyAfterError ==
  ASSUME IInv, Orderly, NothingStartable, DeafAreSpared, AbandonedWhole,
         pc = "sweep", sweepAt \in Tasks, mission.phase[sweepAt] = phase,
         StrandedOrigins(sweepAt) # {}, Has(status, sweepAt, "Planned")
  PROVE  Has(status, sweepAt, "Error")
<1> DEFINE t == sweepAt
<1> SUFFICES ASSUME ~Has(status, t, "Error")
             PROVE  FALSE
  OBVIOUS
<1>t. TypeOK /\ mission \in Missions /\ t \in Tasks
  BY DEF IInv, TypeOK
<1>1. /\ \A s \in StepsOf(t) : s \in Steps /\ s[1] = t
      /\ \A s \in Steps : status[s] # "Running"
      /\ \A s \in Steps : status[s] \in {"Planned", "Running", "Complete", "Error", "Abandoned"}
  BY <1>t, StepTyped DEF StepsOf, IInv, RunningIsInFlight, PassShape, TypeOK, Terminal, Dead
<1>2. ~Has(status, t, "Abandoned")
  BY <1>t DEF AbandonedWhole
<1>3. TaskStatus(status, t) = "Planned"
  BY <1>1, <1>2 DEF TaskStatus, Has
<1>4. \A d \in mission.deps[t] : TaskStatus(status, d) \in Terminal
  BY DEF StrandedOrigins
<1>5. t \in Entered /\ t \in Over /\ BetweenPasses
  BY <1>t DEF Entered, Over, BetweenPasses
<1>6. "complete" \in mission.runOn[t]
  BY <1>t DEF Orderly
<1>7. \A d \in mission.deps[t] : Accepts(t, TaskStatus(status, d))
  <2>1. CASE "error" \in mission.runOn[t]
    BY <1>4, <1>6, <2>1 DEF Accepts, Terminal
  <2>2. CASE "error" \notin mission.runOn[t]
    <3>1. Abandonable(status, t)
      BY <1>3, <2>2 DEF Abandonable
    <3>2. \A d \in mission.deps[t] : TaskStatus(status, d) \notin Dead
      BY <1>5, <3>1 DEF DeafAreSpared
    <3> QED BY <1>4, <1>6, <3>2 DEF Accepts, Terminal
  <2> QED BY <2>1, <2>2
<1>8. PICK p \in StepsOf(t) : /\ status[p] = "Planned"
                              /\ p[2] # 1 => /\ <<t, p[2] - 1>> \in StepsOf(t)
                                             /\ status[<<t, p[2] - 1>>] # "Planned"
  BY <1>t, LeastPlanned
<1>9. p \in Steps /\ p[1] = t /\ ~Startable(p)
  BY <1>1, <1>5, <1>8 DEF NothingStartable
<1>10. p[2] # 1 /\ status[<<t, p[2] - 1>>] # "Complete"
  BY <1>7, <1>8, <1>9 DEF Startable
<1> DEFINE q == <<t, p[2] - 1>>
<1>11. q \in StepsOf(t) /\ status[q] # "Planned" /\ status[q] # "Complete"
  BY <1>8, <1>10
<1>12. status[q] # "Error" /\ status[q] # "Abandoned"
  BY <1>2, <1>11 DEF Has
<1> QED BY <1>1, <1>11, <1>12

\* What such a sweep abandons is of a failed task, so no task changes its status.
LEMMA SweepKeepsTasks ==
  ASSUME IInv, Orderly, NothingStartable, DeafAreSpared, AbandonedWhole, SweepTask
  PROVE  /\ \A s \in Steps : status'[s] # status[s] =>
              s[1] = sweepAt /\ status[s] = "Planned" /\ Has(status, sweepAt, "Error")
         /\ \A d : TaskStatus(status', d) = TaskStatus(status, d)
<1>t. TypeOK
  BY DEF IInv
<1>1. ASSUME NEW s \in Steps, status'[s] # status[s]
      PROVE  s[1] = sweepAt /\ status[s] = "Planned" /\ Has(status, sweepAt, "Error")
  <2>1. /\ s[1] = sweepAt /\ status[s] = "Planned"
        /\ mission.phase[sweepAt] = phase /\ StrandedOrigins(sweepAt) # {}
    BY <1>1, <1>t, SweepFacts
  <2>2. pc = "sweep" /\ sweepAt \in Tasks /\ Has(status, sweepAt, "Planned")
    BY <2>1, StepTyped DEF SweepTask, Has
  <2> QED BY <2>1, <2>2, SweepOnlyAfterError
<1>2. ASSUME NEW d
      PROVE  TaskStatus(status', d) = TaskStatus(status, d)
  <2>1. CASE Has(status, d, "Error")
    <3>1. Has(status', d, "Error")
      BY <2>1, <1>1 DEF Has, StepsOf
    <3> QED BY <2>1, <3>1 DEF TaskStatus
  <2>2. CASE ~Has(status, d, "Error")
    <3>1. \A s \in StepsOf(d) : s \in Steps /\ s[1] = d
      BY DEF StepsOf
    <3>2. \A s \in StepsOf(d) : status'[s] = status[s]
      BY <1>1, <2>2, <3>1
    <3> QED BY <3>2 DEF TaskStatus, Has
  <2> QED BY <2>1, <2>2
<1> QED BY <1>1, <1>2

\* The walks at a phase's entry take tasks of that phase only.
LEMMA EntryOnlyNew ==
  ASSUME IInv, Orderly, DeafAreSpared, EnterPhase,
         NEW c \in Known, TaskStatus(status, c) \in Dead
  PROVE  Doomed(status, c) \cap Entered = {}
<1> DEFINE D == {d \in Known : d \notin Entered}
<1>p. \A t \in Tasks : /\ mission.phase[t] \in Nat /\ phase \in Nat
                       /\ mission.deps[t] \subseteq Tasks
  BY PhaseTyped DEF IInv
<1>1. ASSUME NEW d \in Known, Abandonable(status, d), mission.deps[d] \cap (D \cup {c}) # {},
             d \in Entered
      PROVE  FALSE
  <2>1. pc = "phase" /\ pc # "failed"
    BY DEF EnterPhase
  <2>2. c \notin mission.deps[d]
    BY <1>1, <2>1 DEF DeafAreSpared
  <2>3. PICK e \in mission.deps[d] : e \in D
    BY <1>1, <2>2
  <2>4. d \in Tasks /\ mission.phase[d] < phase
    BY <1>1, <2>1 DEF Entered
  <2>5. e \in Tasks /\ ~(mission.phase[e] < phase)
    BY <2>3 DEF Entered, Known
  <2>6. mission.phase[e] <= mission.phase[d]
    BY <2>3, <2>4 DEF Orderly
  <2> QED BY <1>p, <2>4, <2>5, <2>6
<1>2. D \in SUBSET Known
  OBVIOUS
<1>3. Doomed(status, c) \subseteq D
  <2> HIDE DEF D
  <2>1. \A d \in Known : Abandonable(status, d) /\ mission.deps[d] \cap (D \cup {c}) # {} => d \in D
    BY <1>1 DEF D
  <2> QED BY <1>2, <2>1, DoomedLeast
<1> QED BY <1>3

\* What a launcher's step between passes leaves of the tasks that are over: their
\* statuses, and with them what may start.
LEMMA StartBack ==
  ASSUME IInv, Orderly, [Next]_vars, NEW s \in Steps, Startable(s)', s[1] \in Over,
         \A r \in Steps : r[1] \in Over /\ status'[r] = "Complete" => status[r] = "Complete",
         \A d \in Over : TaskStatus(status', d) = TaskStatus(status, d)
  PROVE  Startable(s)
<1>m. mission \in Missions /\ mission' = mission /\ TypeOK
  BY PlannedShrinks DEF IInv, TypeOK
<1>s. \A t : StepsOf(t)' = StepsOf(t)
  BY <1>m, SameMission
<1>1. status[s] = "Planned"
  BY PlannedShrinks DEF Startable
<1>2. CASE s[2] = 1
  <2>1. ASSUME NEW d \in mission.deps[s[1]]
        PROVE  Accepts(s[1], TaskStatus(status, d))
    <3>1. s[1] \in Tasks /\ d \in Tasks /\ mission.phase[d] <= mission.phase[s[1]]
      BY <1>m, StepTyped, PhaseTyped DEF Orderly
    <3>2. d \in Over
      BY <1>m, <3>1, PhaseTyped DEF Over
    <3>3. TaskStatus(status, d)' = TaskStatus(status', d)
      BY <1>s DEF TaskStatus, Has
    <3>4. Accepts(s[1], TaskStatus(status, d))'
      BY <1>m, <1>2 DEF Startable
    <3> QED BY <1>m, <3>2, <3>3, <3>4 DEF Accepts
  <2> QED BY <1>1, <1>2, <2>1 DEF Startable
<1>3. CASE s[2] # 1
  <2>1. <<s[1], s[2] - 1>> \in Steps /\ <<s[1], s[2] - 1>>[1] = s[1]
    BY <1>m, <1>3, StepBefore
  <2> QED BY <1>1, <1>3, <2>1 DEF Startable
<1> QED BY <1>2, <1>3

\* In an orderly mission nothing startable is left between passes.
LEMMA StartableStep ==
  ASSUME IInv, FutureUntouched, Orderly, NothingStartable, DeafAreSpared, AbandonedWhole,
         [Next]_vars, ~interrupted'
  PROVE  NothingStartable'
<1>t. TypeOK /\ mission' = mission /\ Steps' = Steps /\ \A t : StepsOf(t)' = StepsOf(t)
  BY PlannedShrinks, SameMission DEF IInv
<1> SUFFICES ASSUME BetweenPasses', NEW s \in Steps, s[1] \in Over', Startable(s)'
             PROVE  FALSE
  BY <1>t DEF NothingStartable
<1>s. s[1] \in Tasks
  BY StepTyped
<1>1. CASE EndPass
  <2>1. /\ UNCHANGED <<status, mission, phase>> /\ s[1] \in Known /\ ~IsReady(s)
        /\ pc = "pick"
    BY <1>t, <1>1, PassEndsClean DEF EndPass
  <2>2. status[s] = "Planned"
    BY <2>1 DEF Startable
  <2>3. ASSUME s[2] = 1, NEW d \in mission.deps[s[1]]
        PROVE  d \in Known /\ Accepts(s[1], TaskStatus(status, d))
    <3>1. d \in Tasks /\ mission.phase[d] <= mission.phase[s[1]]
      BY <1>t, <1>s, PhaseTyped DEF Orderly
    <3>2. d \in Known
      BY <1>t, <1>s, <2>1, <3>1, PhaseTyped DEF Known
    <3>3. TaskStatus(status, d)' = TaskStatus(status, d)
      BY <1>t, <2>1 DEF TaskStatus, Has
    <3>4. Accepts(s[1], TaskStatus(status, d))'
      BY <2>1, <2>3 DEF Startable
    <3> QED BY <2>1, <3>2, <3>3, <3>4 DEF Accepts
  <2>4. s[2] # 1 => status[<<s[1], s[2] - 1>>] = "Complete"
    BY <2>1 DEF Startable
  <2> QED BY <2>1, <2>2, <2>3, <2>4 DEF IsReady, DepsAccepted
<1>2. CASE SkipPhase /\ mission.phase[s[1]] = phase
  <2>1. status[s] = "Planned"
    BY PlannedShrinks DEF Startable
  <2> QED BY <1>2, <2>1 DEF SkipPhase, PhaseHasWork
<1>3. CASE UNCHANGED status /\ BetweenPasses /\ s[1] \in Over
  BY <1>3, StartBack DEF NothingStartable
<1>4. CASE SkipPhase /\ s[1] \in Over
  BY <1>4, <1>3 DEF SkipPhase, BetweenPasses
<1>5. CASE SweepTask /\ BetweenPasses /\ s[1] \in Over
  <2>1. \A r \in Steps : status'[r] = "Complete" => status[r] = "Complete"
    BY <1>t, <1>5, SweepFacts
  <2>2. \A d : TaskStatus(status', d) = TaskStatus(status, d)
    BY <1>5, SweepKeepsTasks
  <2> QED BY <1>5, <2>1, <2>2, StartBack DEF NothingStartable
<1>6. CASE EnterPhase /\ BetweenPasses /\ s[1] \in Over
  <2>1. \A t \in Over : t \in Entered
    BY <1>6 DEF EnterPhase, Over, Entered
  <2>2. \A r \in Steps : r[1] \in Over => status'[r] = status[r]
    BY <1>6, <2>1, EntryFacts, EntryOnlyNew
  <2>3. \A d \in Over : TaskStatus(status', d) = TaskStatus(status, d)
    BY <2>2 DEF TaskStatus, Has, StepsOf
  <2> QED BY <1>6, <2>2, <2>3, StartBack DEF NothingStartable
<1> QED BY <1>1, <1>2, <1>3, <1>4, <1>5, <1>6, BetweenStep

\* In an orderly mission a task that accepts errors is never abandoned.
LEMMA AcceptingStep ==
  ASSUME IInv, Orderly, NothingStartable, DeafAreSpared, AbandonedWhole, AcceptingSpared,
         [Next]_vars, ~interrupted
  PROVE  AcceptingSpared'
<1>t. mission \in Missions /\ mission' = mission /\ Steps' = Steps
  BY PlannedShrinks, SameMission DEF IInv, TypeOK
<1> SUFFICES ASSUME NEW t \in Tasks, "error" \in mission.runOn[t],
                    status'[<<t, 1>>] = "Abandoned"
             PROVE  FALSE
  BY <1>t DEF AcceptingSpared
<1> DEFINE s == <<t, 1>>
<1>1. s \in Steps /\ s[1] = t /\ s[2] = 1 /\ status[s] # "Abandoned"
  BY <1>t, FirstStep DEF AcceptingSpared
<1>2. \A st, f : t \notin Doomed(st, f)
  BY DoomedTask DEF Abandonable
<1>3. /\ status[s] = "Planned"
      /\ SweepTask /\ s[1] = sweepAt /\ StrandedOrigins(sweepAt) # {}
  BY <1>1, <1>2, NewlyAbandoned
<1>4. Has(status, t, "Error")
  BY <1>1, <1>3, SweepKeepsTasks
<1>5. PICK x \in StepsOf(t) : status[x] = "Error"
  BY <1>4 DEF Has
<1>6. x \in Steps /\ x[1] = t /\ x[2] \in 1 .. MaxSteps /\ x \in StepId /\ x # s
  BY <1>3, <1>5, StepTyped DEF StepsOf
<1>7. s[2] < x[2]
  <2>1. x = <<x[1], x[2]>>
    BY <1>6 DEF StepId
  <2>2. x[2] # 1
    BY <1>6, <2>1
  <2> QED BY <1>1, <1>6, <2>2, ConstantsAssumption
<1>8. status[s] = "Complete"
  BY <1>1, <1>5, <1>6, <1>7 DEF IInv, StepsInOrder, Reached
<1> QED BY <1>3, <1>8

\* A task is dead just when one of its steps is.
LEMMA DeadTask ==
  ASSUME NEW st, NEW t
  PROVE  TaskStatus(st, t) \in Dead <=> \E s \in StepsOf(t) : st[s] \in Dead
BY DEF TaskStatus, Has, Dead

\* In an orderly mission no task that is deaf to errors is left behind a dead one: the
\* walks take it, and a sweep kills no task.
LEMMA DeafStep ==
  ASSUME IInv, Orderly, NothingStartable, DeafAreSpared, AbandonedWhole,
         [Next]_vars, ~interrupted
  PROVE  DeafAreSpared'
<1>t. /\ TypeOK /\ mission' = mission /\ Steps' = Steps
      /\ \A t : StepsOf(t)' = StepsOf(t)
      /\ status \in StatusType /\ status' \in StatusType
  BY PlannedShrinks, SameMission, NextInv DEF IInv, TypeOK, StatusType
<1>c. \A t : TaskStatus(status, t)' = TaskStatus(status', t)
  BY <1>t DEF TaskStatus, Has
<1> SUFFICES ASSUME pc' # "failed", NEW t \in Entered', Abandonable(status', t),
                    NEW d \in mission.deps[t], TaskStatus(status', d) \in Dead
             PROVE  FALSE
  BY <1>t, <1>c DEF DeafAreSpared, Abandonable
<1>d. t \in Tasks /\ d \in Tasks /\ mission.phase[d] <= mission.phase[t]
  BY <1>t, PhaseTyped DEF Entered, Orderly
<1>1. \A s \in StepsOf(t) : s \in Steps /\ s[1] = t /\ status'[s] \in {"Planned", "Complete"}
  BY <1>t, PlannedTask DEF Abandonable, StepsOf
<1>2. PICK p \in StepsOf(t) : status'[p] = "Planned"
  BY <1>1, CompleteTask DEF Abandonable
<1>3. PICK x \in StepsOf(d) : status'[x] \in Dead
  BY DeadTask
<1>4. x \in Steps /\ x[1] = d
  BY DEF StepsOf
<1>5. p \in Steps /\ p[1] = t /\ status[p] = "Planned"
  BY <1>1, <1>2, PlannedShrinks
<1>6. ASSUME pc # "failed", t \in Entered, status[x] \in Dead,
             \A s \in StepsOf(t) : status[s] = status'[s]
      PROVE  FALSE
  <2>1. TaskStatus(status, t) = TaskStatus(status', t)
    BY <1>6 DEF TaskStatus, Has
  <2>2. TaskStatus(status, d) \in Dead
    BY <1>6, DeadTask
  <2> QED BY <1>6, <2>1, <2>2 DEF Abandonable, DeafAreSpared
<1>7. CASE EnterPhase
  <2>1. t \in Known /\ d \in Known
    BY <1>t, <1>d, <1>7, PhaseTyped DEF EnterPhase, Entered, Known
  <2>2. \A s \in StepsOf(t) : status[s] = status'[s]
    BY <1>1, <1>7, PlannedShrinks, EntryFacts
  <2>3. Abandonable(status, t)
    BY <2>2 DEF Abandonable, TaskStatus, Has
  <2>4. ASSUME NEW c \in Known, TaskStatus(status, c) \in Dead, d = c \/ d \in Doomed(status, c)
        PROVE  FALSE
    <3>1. t \in Doomed(status, c)
      BY <2>1, <2>3, <2>4, DoomedClosed
    <3> QED BY <1>2, <1>5, <1>7, <2>4, <3>1, EntryFacts
  <2>5. CASE status[x] \in Dead
    BY <2>1, <2>4, <2>5, DeadTask
  <2>6. CASE status[x] \notin Dead
    BY <1>3, <1>4, <1>7, <2>4, <2>6, EntryFacts
  <2> QED BY <2>5, <2>6
<1>8. CASE SweepTask
  <2>1. t \in Entered /\ pc # "failed"
    BY <1>t, <1>8 DEF SweepTask, Entered
  <2>2. \A u : TaskStatus(status', u) = TaskStatus(status, u)
    BY <1>8, SweepKeepsTasks
  <2> QED BY <2>1, <2>2 DEF Abandonable, DeafAreSpared
<1>9. CASE StartWave
  <2>1. \A s \in Steps : status'[s] = IF s \in passed THEN "Running" ELSE status[s]
    BY <1>9, StepTyped DEF StartWave
  <2>2. status[x] \in Dead /\ \A s \in StepsOf(t) : status[s] = status'[s]
    BY <1>1, <1>3, <1>4, <2>1 DEF Dead
  <2>3. t \in Entered /\ pc # "failed"
    BY <1>9, EnteredStep DEF StartWave, EnterPhase
  <2> QED BY <1>6, <2>2, <2>3
<1>10. ASSUME NEW r \in Steps, NEW ok \in BOOLEAN, Ends(r, ok)
       PROVE  FALSE
  <2> DEFINE ended == [status EXCEPT ![r] = status'[r]]
  <2>1. /\ pc \in {"gate", "wave", "reconcile"} /\ status'[r] \in {"Complete", "Error"}
        /\ DepsAccepted(status, r[1])
        /\ UNCHANGED <<mission, phase, pc>>
        /\ \A s \in Steps : s # r =>
             status'[s] = IF /\ status'[r] = "Error" /\ status[s] = "Planned"
                             /\ s[1] \in Doomed(ended, r[1])
                          THEN "Abandoned" ELSE status[s]
    BY <1>10, EndsFacts
  <2>2. r[1] # t
    <3>1. ASSUME r[1] = t
          PROVE  TaskStatus(status, d) = "Complete"
      BY <2>1, <3>1 DEF DepsAccepted, Accepts, Abandonable
    <3>2. ASSUME r[1] = t
          PROVE  TaskStatus(status', d) = "Complete"
      BY <3>1, <3>2, SettledStays, PlannedShrinks DEF Keeps, Terminal
    <3> QED BY <3>2 DEF Dead
  <2>3. t \in Entered /\ pc # "failed" /\ t \in Known
    <3>1. t \in Entered
      BY <1>t, <2>1 DEF Entered
    <3> QED BY <1>t, <2>1, <3>1, PhaseTyped DEF Entered, Known
  <2>4. \A s \in StepsOf(t) : s # r /\ status[s] = status'[s] /\ ended[s] = status'[s]
    BY <1>t, <1>1, <2>1, <2>2, StepTyped DEF StatusType
  <2>5. Abandonable(ended, t)
    BY <2>4 DEF Abandonable, TaskStatus, Has
  <2>6. p # r /\ (status'[r] = "Error" => t \notin Doomed(ended, r[1]))
    BY <1>2, <1>5, <2>1, <2>4
  <2>7. status'[r] = "Error" => d # r[1] /\ d \notin Doomed(ended, r[1])
    <3> HIDE DEF ended
    <3> QED BY <2>3, <2>5, <2>6, DoomedClosed
  <2>8. x # r
    BY <1>3, <1>4, <2>1, <2>7 DEF Dead
  <2>9. status[x] \in Dead
    <3> HIDE DEF ended
    <3> QED BY <1>3, <1>4, <2>1, <2>7, <2>8
  <2> QED BY <1>6, <2>3, <2>4, <2>9
<1>11. CASE SkipPhase \/ StartPass \/ PassReturns \/ NextPhase \/ EndRun \/ EndPass \/ Calm
  <2>1. UNCHANGED status /\ pc # "failed"
    BY <1>11 DEF SkipPhase, StartPass, PassReturns, NextPhase, EndRun, EndPass, Calm, InPass
  <2>2. t \in Entered
    BY <1>11, EnteredStep, <1>7
  <2> QED BY <1>3, <1>6, <2>1, <2>2
<1>12. CASE Reconcile
  BY <1>12 DEF Reconcile
<1> QED BY <1>t, <1>7, <1>8, <1>9, <1>10, <1>11, <1>12, Split

-----------------------------------------------------------------------------
(* The sweep of an ordered mission.                                          *)

\* In an ordered mission, when the sweep comes to a task all it waits for has ended,
\* so there is always a reason to abandon what is still Planned.
LEMMA SweepFindsReason ==
  ASSUME IInv, Ordered, SweptClean, pc = "sweep", sweepAt \in Tasks,
         mission.phase[sweepAt] = phase
  PROVE  StrandedOrigins(sweepAt) # {}
<1>t. TypeOK /\ mission \in Missions
  BY DEF IInv, TypeOK
<1>p. /\ \A t \in Tasks : mission.phase[t] \in Nat /\ mission.deps[t] \subseteq Tasks
      /\ phase \in Nat
  BY <1>t, PhaseTyped
<1>1. ASSUME NEW d \in mission.deps[sweepAt]
      PROVE  d \in Known /\ TaskStatus(status, d) \in Terminal
  <2>1. d \in Tasks /\ d < sweepAt /\ mission.phase[d] <= phase
    BY <1>p DEF Ordered
  <2>2. d \in Known
    BY <2>1 DEF Known
  <2>3. ASSUME NEW s \in StepsOf(d)
        PROVE  status[s] \in Terminal
    <3>1. s \in Steps /\ s[1] = d
      BY DEF StepsOf
    <3>2. mission.phase[d] < phase \/ mission.phase[d] = phase
      BY <1>p, <2>1
    <3>3. status[s] # "Planned"
      BY <2>1, <3>1, <3>2 DEF SweptClean
    <3>4. status[s] # "Running"
      BY <3>1 DEF IInv, RunningIsInFlight, PassShape
    <3> QED BY <1>t, <3>1, <3>3, <3>4, StepTyped DEF TypeOK
  <2> QED BY <2>2, <2>3 DEF TaskStatus, Has, Terminal, Dead
<1>2. CASE Has(status, sweepAt, "Error")
  BY <1>2 DEF StrandedOrigins
<1>3. CASE ~Has(status, sweepAt, "Error")
  <2> DEFINE refused == {d \in mission.deps[sweepAt] : ~Accepts(sweepAt, TaskStatus(status, d))}
  <2>1. StrandedOrigins(sweepAt)
          = IF refused # {} THEN {ForwardedOrigin(d) : d \in refused} ELSE {NotStarted}
    BY <1>1, <1>3 DEF StrandedOrigins
  <2> HIDE DEF refused
  <2> QED BY <2>1
<1> QED BY <1>2, <1>3

\* In an ordered mission nothing is left Planned behind the sweep.
LEMMA SweptStep ==
  ASSUME IInv, Ordered, SweptClean, [Next]_vars
  PROVE  SweptClean'
<1>t. TypeOK /\ mission' = mission /\ Steps' = Steps
  BY PlannedShrinks, SameMission DEF IInv
<1>p. /\ \A t \in Tasks : /\ mission.phase[t] \in Nat /\ mission.phase[t] <= NPhases
                          /\ t \in Nat /\ t <= NTasks /\ 1 <= t
      /\ phase \in Nat /\ NPhases \in Nat /\ sweepAt \in Nat /\ NTasks \in Nat
  BY <1>t, PhaseTyped DEF Tasks
<1> SUFFICES ASSUME NEW s \in Steps,
                    \/ mission.phase[s[1]] < phase'
                    \/ mission.phase[s[1]] = phase' /\ pc' = "sweep" /\ s[1] < sweepAt',
                    status'[s] = "Planned"
             PROVE  FALSE
  BY <1>t DEF SweptClean
<1>1. status[s] = "Planned" /\ s[1] \in Tasks
  BY PlannedShrinks, StepTyped
<1>2. ~(mission.phase[s[1]] < phase)
  BY <1>1 DEF SweptClean
<1>3. ~(mission.phase[s[1]] = phase /\ pc = "sweep" /\ s[1] < sweepAt)
  BY <1>1 DEF SweptClean
<1>4. CASE SkipPhase
  <2>1. mission.phase[s[1]] = phase
    BY <1>1, <1>2, <1>4, <1>p DEF SkipPhase
  <2> QED BY <1>1, <1>4, <2>1 DEF SkipPhase, PhaseHasWork
<1>5. CASE NextPhase
  BY <1>1, <1>2, <1>3, <1>5, <1>p DEF NextPhase
<1>6. CASE SweepTask
  <2>1. mission.phase[s[1]] = phase /\ pc = "sweep" /\ s[1] = sweepAt
    BY <1>1, <1>2, <1>3, <1>6, <1>p DEF SweepTask
  <2>2. StrandedOrigins(sweepAt) # {}
    BY <1>1, <2>1, SweepFindsReason
  <2> QED BY <1>1, <1>6, <1>t, <2>1, <2>2, SweepFacts
<1>7. CASE PassReturns
  BY <1>1, <1>2, <1>7, <1>p DEF PassReturns
<1>8. CASE EnterPhase \/ StartPass \/ EndRun \/ Reconcile \/ EndPass \/ StartWave
  BY <1>2, <1>8 DEF EnterPhase, StartPass, EndRun, Reconcile, EndPass, StartWave,
                    FailIfInterrupted
<1>9. ASSUME NEW r \in Steps, NEW ok \in BOOLEAN, Ends(r, ok)
      PROVE  FALSE
  BY <1>2, <1>9, EndsFacts
<1>10. CASE Calm
  BY <1>2, <1>3, <1>10 DEF Calm, InPass
<1> QED BY <1>t, <1>4, <1>5, <1>6, <1>7, <1>8, <1>9, <1>10, Split

-----------------------------------------------------------------------------
(* The second inductive invariant, and what it is for.                       *)

\* It holds at the start, where nothing is entered, checked or over.
LEMMA InitLineage ==
  ASSUME Init
  PROVE  LineageInv
<1>t. IInv /\ TypeOK /\ mission \in Missions /\ phase = 1 /\ pc = "phase" /\ 1 \in Nat
  BY InitInv DEF Init, IInv, TypeOK
<1>p. \A t \in Tasks : mission.phase[t] \in Nat /\ ~(mission.phase[t] < 1)
  <2>1. \A t \in Tasks : mission.phase[t] \in Phases
    BY <1>t, MissionTyped DEF MissionType
  <2> QED BY <2>1, ConstantsAssumption DEF Phases
<1>1. \A s \in Steps : status[s] = "Planned" /\ s[1] \in Tasks
  BY StepTyped DEF Init
<1>2. Entered = {} /\ Checked = {} /\ Over = {}
  BY <1>t, <1>p DEF Entered, Checked, Over
<1>3. DoneIsPastLast /\ FutureUntouched /\ NoRing
  BY <1>1, <1>2, <1>t DEF DoneIsPastLast, FutureUntouched, NoRing
<1>4. NothingRipe /\ NothingStartable /\ DeafAreSpared
  BY <1>2 DEF NothingRipe, NothingStartable, DeafAreSpared
<1>5. AbandonedForCause /\ AbandonedWhole
  BY <1>1 DEF AbandonedForCause, AbandonedWhole, Has, StepsOf
<1>6. AcceptingSpared
  <2>1. \A t \in Tasks : <<t, 1>> \in Steps
    BY <1>t, FirstStep
  <2> QED BY <1>1, <2>1 DEF AcceptingSpared
<1>7. SweptClean
  BY <1>1, <1>t, <1>p DEF SweptClean
<1> QED BY <1>3, <1>4, <1>5, <1>6, <1>7 DEF LineageInv

\* It is preserved, each part by its lemma.
LEMMA NextLineage ==
  ASSUME IInv, LineageInv, [Next]_vars
  PROVE  LineageInv'
<1>1. mission' = mission /\ Ordered' = Ordered /\ Orderly' = Orderly
  BY PlannedShrinks, SameMission
<1>2. DoneIsPastLast' /\ FutureUntouched' /\ NoRing'
  BY DoneStep, FutureStep, RingStep DEF LineageInv
<1>3. ASSUME ~interrupted'
      PROVE  /\ NothingRipe' /\ AbandonedForCause' /\ AbandonedWhole'
             /\ Orderly => NothingStartable' /\ AcceptingSpared' /\ DeafAreSpared'
  <2>1. ~interrupted
    BY <1>3, StopStays
  <2>2. NothingRipe' /\ AbandonedForCause' /\ AbandonedWhole'
    BY <1>3, <2>1, RipeStep, CauseStep, WholeStep DEF LineageInv
  <2>3. ASSUME Orderly
        PROVE  NothingStartable' /\ AcceptingSpared' /\ DeafAreSpared'
    BY <1>3, <2>1, <2>3, StartableStep, AcceptingStep, DeafStep DEF LineageInv
  <2> QED BY <2>2, <2>3
<1>4. Ordered => SweptClean'
  BY SweptStep DEF LineageInv
<1> QED BY <1>1, <1>2, <1>3, <1>4 DEF LineageInv

\* The lineage of every task is as LineageInv says, in every reachable state: what a
\* pass, a cascade and a sweep may leave behind, from the entry of the first phase on.
THEOREM Lineage == Spec => []LineageInv
<1>1. Init => IInv /\ LineageInv
  BY InitInv, InitLineage
<1>2. IInv /\ LineageInv /\ [Next]_vars => (IInv /\ LineageInv)'
  BY NextInv, NextLineage
<1> QED BY <1>1, <1>2, PTL DEF Spec

\* When a run is done every task's phase is over.
LEMMA DoneAll ==
  ASSUME IInv, LineageInv, pc = "done"
  PROVE  /\ Over = Tasks /\ Checked = Tasks /\ BetweenPasses
         /\ \A s \in Steps : status[s] # "Running"
<1>1. /\ \A t \in Tasks : mission.phase[t] \in Nat /\ mission.phase[t] <= NPhases
      /\ NPhases \in Nat /\ phase = NPhases + 1
  BY PhaseTyped DEF IInv, LineageInv, DoneIsPastLast
<1>2. Over = Tasks /\ Checked = Tasks /\ BetweenPasses
  BY <1>1 DEF Over, Checked, BetweenPasses
<1>3. \A s \in Steps : status[s] # "Running"
  BY DEF IInv, RunningIsInFlight, PassShape
<1> QED BY <1>2, <1>3

\* The tasks with a healthy lineage that are not Complete are none: of such a set one
\* would wait on Complete tasks only, and its next step would be ripe.
LEMMA LineageHealthy ==
  ASSUME IInv, LineageInv
  PROVE  HealthyLineageCompletes
<1> SUFFICES ASSUME pc = "done", ~interrupted,
                    NEW b \in Tasks, TaskStatus(status, b) # "Complete",
                    \A u \in Upstream(b) : ~Sick(u)
             PROVE  FALSE
  BY DEF HealthyLineageCompletes, Sick
<1>t. TypeOK /\ mission \in Missions
  BY DEF IInv, TypeOK
<1>d. /\ Over = Tasks /\ Checked = Tasks /\ BetweenPasses
      /\ \A s \in Steps : status[s] # "Running"
  BY DoneAll
<1> DEFINE B == {t \in Tasks : /\ TaskStatus(status, t) # "Complete"
                               /\ \A u \in Upstream(t) : ~Sick(u)}
<1>1. ASSUME NEW t \in B
      PROVE  \A s \in StepsOf(t) : status[s] \in {"Planned", "Complete"}
  <2> SUFFICES ASSUME NEW s \in StepsOf(t)
               PROVE  status[s] \in {"Planned", "Complete"}
    OBVIOUS
  <2>1. s \in Steps /\ s[1] = t /\ t \in Tasks
    BY DEF StepsOf
  <2>2. status[s] # "Abandoned"
    BY <2>1 DEF LineageInv, AbandonedForCause
  <2>3. status[s] # "Error"
    BY <2>1, UpstreamOf DEF Sick, TaskStatus, Has
  <2> QED BY <1>t, <1>d, <2>1, <2>2, <2>3, StepTyped DEF TypeOK, Terminal, Dead
<1>2. \A t \in B : Has(status, t, "Planned")
  BY <1>1, CompleteTask DEF Has
<1>3. B \in (SUBSET Checked) \ {{}}
  BY <1>d
<1> HIDE DEF B
<1>4. PICK t \in B : mission.deps[t] \cap B = {}
  BY <1>2, <1>3 DEF LineageInv, NoRing
<1>5. t \in Tasks /\ (\A u \in Upstream(t) : ~Sick(u)) /\ "complete" \in mission.runOn[t]
  BY <1>4, UpstreamOf DEF B, Sick
<1>6. \A d \in mission.deps[t] : TaskStatus(status, d) = "Complete"
  <2> SUFFICES ASSUME NEW d \in mission.deps[t]
               PROVE  TaskStatus(status, d) = "Complete"
    OBVIOUS
  <2>1. d \in Tasks /\ Upstream(d) \subseteq Upstream(t)
    BY <1>t, <1>5, PhaseTyped, UpstreamOf
  <2> QED BY <1>4, <1>5, <2>1 DEF B
<1>7. PICK p \in StepsOf(t) : /\ status[p] = "Planned"
                              /\ p[2] # 1 => /\ <<t, p[2] - 1>> \in StepsOf(t)
                                             /\ status[<<t, p[2] - 1>>] # "Planned"
  BY <1>t, <1>2, <1>5, LeastPlanned
<1>8. p \in Steps /\ p[1] = t
  BY DEF StepsOf
<1>9. Ripe(p)
  BY <1>1, <1>5, <1>6, <1>7, <1>8 DEF Ripe
<1> QED BY <1>5, <1>8, <1>9, <1>d DEF LineageInv, NothingRipe

\* Of a run that finished without a stop, a task is Complete when nothing failed in its
\* lineage and no task of it declines a success: for every graph, phase and run_on.
THEOREM HealthyCompletes == Spec => []HealthyLineageCompletes
<1>1. IInv /\ LineageInv => HealthyLineageCompletes
  BY LineageHealthy
<1> QED BY <1>1, Invariance, Lineage, PTL

\* In every orderly mission a task that also accepts errors runs: it is not left, for
\* it could start, and not abandoned.
LEMMA LineageSurvivor ==
  ASSUME IInv, LineageInv
  PROVE  SurvivorRuns
<1> SUFFICES ASSUME Orderly, pc = "done", ~interrupted, NEW t \in Tasks,
                    mission.runOn[t] = {"complete", "error"},
                    \A d \in mission.deps[t] : TaskStatus(status, d) \in Terminal
             PROVE  Reached(<<t, 1>>)
  BY DEF SurvivorRuns, AcceptingTaskRuns
<1>t. TypeOK /\ mission \in Missions
  BY DEF IInv, TypeOK
<1>1. <<t, 1>> \in Steps /\ <<t, 1>>[1] = t /\ <<t, 1>>[2] = 1
  BY <1>t, FirstStep
<1>2. status[<<t, 1>>] # "Abandoned"
  BY DEF LineageInv, AcceptingSpared
<1>3. \A d \in mission.deps[t] : Accepts(t, TaskStatus(status, d))
  BY DEF Accepts, Terminal
<1>4. ~Startable(<<t, 1>>)
  BY <1>1, DoneAll DEF LineageInv, NothingStartable
<1>5. status[<<t, 1>>] # "Planned"
  BY <1>1, <1>3, <1>4 DEF Startable
<1> QED BY <1>t, <1>1, <1>2, <1>5, StepTyped DEF Reached, TypeOK, Terminal, Dead

\* A task that also declares "error" is never wedged behind a failed upstream, in every
\* orderly mission.
THEOREM Survivor == Spec => []SurvivorRuns
<1>1. IInv /\ LineageInv => SurvivorRuns
  BY LineageSurvivor
<1> QED BY <1>1, Invariance, Lineage, PTL

\* When a run of an ordered mission is done, every phase was swept or had no work.
LEMMA LineageOrdered ==
  ASSUME IInv, LineageInv
  PROVE  OrderedLeavesNone
<1> SUFFICES ASSUME Ordered, pc = "done", NEW s \in Steps
             PROVE  status[s] # "Planned"
  BY DEF OrderedLeavesNone
<1>1. s[1] \in Tasks /\ s[1] \in Over
  BY StepTyped, DoneAll
<1>2. mission.phase[s[1]] < phase
  BY <1>1 DEF Over
<1> QED BY <1>2 DEF LineageInv, SweptClean

\* In a mission whose tasks wait on smaller ids of no later phase only, a run that is
\* done leaves no step Planned, stopped late or not.
THEOREM OrderedLeaves == Spec => []OrderedLeavesNone
<1>1. IInv /\ LineageInv => OrderedLeavesNone
  BY LineageOrdered
<1> QED BY <1>1, Invariance, Lineage, PTL
=============================================================================
