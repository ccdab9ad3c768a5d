-------------------------- MODULE StepGraphProofs --------------------------
(***************************************************************************)
(* Safety of StepGraph for every set of missions: proofs by one inductive  *)
(* invariant, through a lemma on how far one step may move a step's status.*)
(***************************************************************************)
EXTENDS StepGraph, TLAPS, NaturalsInduction, WellFoundedInduction

StatusType == [StepId -> {"Planned", "Running"} \cup Terminal]

-----------------------------------------------------------------------------
(* The graph. *)

\* A mission of the given set is a record of the declared type.
LEMMA MissionTyped ==
  ASSUME mission \in Missions
  PROVE  mission \in MissionType
BY ConstantsAssumption

\* A step is a pair of a task and a position, so it has a status.
LEMMA StepTyped ==
  ASSUME NEW s \in Steps
  PROVE  s \in StepId /\ s[1] \in Tasks /\ s[2] \in 1 .. MaxSteps /\ s \in StepsOf(s[1])
BY DEF Steps, StepId, StepsOf

\* The steps of a task, by position: the one before a later step exists.
LEMMA StepBefore ==
  ASSUME mission \in Missions, NEW s \in Steps, s[2] # 1
  PROVE  /\ <<s[1], s[2] - 1>> \in Steps
         /\ \A r \in Steps : r[1] = s[1] /\ r[2] < s[2] =>
              r = <<s[1], s[2] - 1>> \/ r[2] < s[2] - 1
<1> mission \in MissionType
  BY MissionTyped
<1> s \in Tasks \X (1 .. MaxSteps) /\ s[2] <= mission.size[s[1]]
  BY DEF Steps, StepId
<1> mission.size[s[1]] \in 1 .. MaxSteps
  BY DEF MissionType
<1> MaxSteps \in Nat
  BY ConstantsAssumption
<1>1. s[1] \in Tasks /\ s[2] \in 1 .. MaxSteps
  OBVIOUS
<1>2. s[2] - 1 \in 1 .. MaxSteps /\ s[2] - 1 <= mission.size[s[1]]
  BY <1>1
<1>3. <<s[1], s[2] - 1>> \in Steps
  BY <1>1, <1>2 DEF Steps, StepId
<1>4. ASSUME NEW r \in Steps, r[1] = s[1], r[2] < s[2]
      PROVE  r = <<s[1], s[2] - 1>> \/ r[2] < s[2] - 1
  <2>1. r \in Tasks \X (1 .. MaxSteps)
    BY DEF Steps, StepId
  <2>2. r = <<r[1], r[2]>> /\ r[2] \in 1 .. MaxSteps
    BY <2>1
  <2>3. r[2] = s[2] - 1 \/ r[2] < s[2] - 1
    BY <2>2, <1>1, <1>4
  <2> QED BY <2>2, <2>3, <1>4
<1> QED BY <1>3, <1>4

-----------------------------------------------------------------------------
(* The status of a task. *)

\* st2 keeps what ended in st.
Keeps(st, st2) == \A s \in Steps : st[s] \in Terminal => st2[s] = st[s]

\* A Planned task has no step that runs or ended badly.
LEMMA PlannedTask ==
  ASSUME NEW st \in StatusType, NEW t, TaskStatus(st, t) = "Planned"
  PROVE  \A s \in StepsOf(t) : st[s] \in {"Planned", "Complete"}
BY DEF TaskStatus, Has, StatusType, Terminal, Dead, StepsOf, Steps

\* A task with a Planned step is not Complete.
LEMMA NotComplete ==
  ASSUME NEW st, NEW s \in Steps, st[s] = "Planned"
  PROVE  TaskStatus(st, s[1]) # "Complete"
BY StepTyped DEF TaskStatus, Has

\* A terminal task stays terminal, and stays accepted where it was.
LEMMA SettledStays ==
  ASSUME NEW st, NEW st2, Keeps(st, st2), NEW t,
         TaskStatus(st, t) \in Terminal
  PROVE  /\ TaskStatus(st2, t) \in Terminal
         /\ TaskStatus(st, t) = "Complete" => TaskStatus(st2, t) = "Complete"
         /\ TaskStatus(st, t) \in Dead => TaskStatus(st2, t) \in Dead
<1>1. \A s \in StepsOf(t) : st[s] \in Terminal => st2[s] = st[s]
  BY DEF Keeps, StepsOf
<1>2. CASE Has(st, t, "Error")
  BY <1>1, <1>2 DEF Has, TaskStatus, Terminal, Dead
<1>3. CASE ~Has(st, t, "Error") /\ Has(st, t, "Abandoned")
  BY <1>1, <1>3 DEF Has, TaskStatus, Terminal, Dead
<1>4. CASE /\ ~Has(st, t, "Error") /\ ~Has(st, t, "Abandoned")
           /\ \A s \in StepsOf(t) : st[s] = "Complete"
  BY <1>1, <1>4 DEF Has, TaskStatus, Terminal, Dead
<1> QED BY <1>2, <1>3, <1>4 DEF TaskStatus, Terminal, Dead

\* Accepted dependencies stay accepted.
LEMMA AcceptedStays ==
  ASSUME NEW st, NEW st2, Keeps(st, st2), NEW t, DepsAccepted(st, t)
  PROVE  DepsAccepted(st2, t)
<1> SUFFICES ASSUME NEW d \in mission.deps[t]
             PROVE  d \in Known /\ Accepts(t, TaskStatus(st2, d))
  BY DEF DepsAccepted
<1>1. d \in Known /\ Accepts(t, TaskStatus(st, d))
  BY DEF DepsAccepted
<1>2. TaskStatus(st, d) \in Terminal
  BY <1>1 DEF Accepts, Terminal, Dead
<1> QED BY <1>1, <1>2, SettledStays DEF Accepts, Terminal, Dead

\* A task the cascade abandons can be abandoned, and waits on the ended task or on
\* another that can be.
LEMMA DoomedTask ==
  ASSUME NEW st, NEW from, NEW d \in Doomed(st, from)
  PROVE  /\ d \in Known /\ Abandonable(st, d)
         /\ \E e \in mission.deps[d] : e = from \/ (e \in Known /\ Abandonable(st, e))
<1> DEFINE Caught(c) == \E e \in mission.deps[c] :
                          e = from \/ (e \in Known /\ Abandonable(st, e))
           D == {c \in Known : Abandonable(st, c) /\ Caught(c)}
<1>1. ASSUME NEW c \in Known, Abandonable(st, c), mission.deps[c] \cap (D \cup {from}) # {}
      PROVE  c \in D
  <2> PICK e \in mission.deps[c] : e \in D \/ e = from
    BY <1>1
  <2>1. Caught(c)
    OBVIOUS
  <2> QED BY <2>1, <1>1
<1>2. D \in SUBSET Known
  OBVIOUS
<1>3. d \in D
  <2> HIDE DEF D
  <2> QED BY <1>1, <1>2 DEF Doomed
<1> QED BY <1>3

-----------------------------------------------------------------------------
(* How far one step of the system may move a step of the mission. *)

\* What ended keeps its status and output; what runs may only end; a step is newly
\* reached only when it is ready; and a step abandoned without being ready leaves
\* its whole task ended.
Progress ==
  /\ mission' = mission
  /\ Known \subseteq Known'
  /\ stopped \subseteq stopped'
  /\ \A s \in Steps :
       /\ status[s] \in Terminal => status'[s] = status[s] /\ origin'[s] = origin[s]
       /\ status[s] = "Running" =>
            \/ status'[s] \in {"Running", "Complete", "Error"}
            \/ status'[s] = "Abandoned" /\ s \in stopped'
       /\ Reached(s)' => Reached(s) \/ IsReady(s)
       /\ status'[s] = "Abandoned" =>
            \/ status[s] = "Abandoned" \/ Reached(s) \/ IsReady(s)
            \/ \A r \in StepsOf(s[1]) : status'[r] \in Terminal

\* A step of the system that moves no status is progress.
LEMMA StutterProgress ==
  ASSUME UNCHANGED <<mission, status, origin, stopped>>, Known \subseteq Known'
  PROVE  Progress
BY DEF Progress, Reached, Terminal, Dead

\* The set of known tasks depends on the mission and the phase only.
LEMMA SameKnown ==
  ASSUME UNCHANGED <<mission, phase>>
  PROVE  Known' = Known
BY DEF Known

\* apply_step_terminal of a running or ready step is progress, with its cascade.
LEMMA EndStepProgress ==
  ASSUME status \in StatusType, UNCHANGED <<mission, phase>>,
         NEW s \in Steps, NEW ok \in BOOLEAN, EndStep(s, ok),
         Reached(s) \/ IsReady(s), status[s] \notin Terminal
  PROVE  /\ Progress
         /\ status' \in StatusType
         /\ status'[s] \in Terminal
         /\ \A r \in Steps : r # s /\ status'[r] # status[r] =>
              /\ status[r] = "Planned" /\ status'[r] = "Abandoned"
              /\ r[1] \in Known
              /\ "error" \notin mission.runOn[r[1]]
              /\ \E e \in mission.deps[r[1]] :
                   \/ e = s[1]
                   \/ e \in Known /\ TaskStatus([status EXCEPT ![s] = status'[s]], e)
                                      = "Planned"
<1> DEFINE result == IF ok THEN "Complete" ELSE Unfinished
           ended  == [status EXCEPT ![s] = result]
           doomed == IF result = "Error" THEN PlannedOf(ended, Doomed(ended, s[1])) ELSE {}
<1>s. s \in StepId
  BY StepTyped
<1>1. result \in Terminal
  BY DEF Unfinished, Terminal, Dead
<1>2. /\ status' = Abandon(ended, doomed)
      /\ origin' = [r \in StepId |-> IF r = s \/ r \in doomed THEN s ELSE origin[r]]
      /\ stopped' = IF result = "Abandoned" THEN stopped \cup {s} ELSE stopped
  BY DEF EndStep
<1> HIDE DEF result
<1>3. ended \in StatusType /\ ended[s] = result
  BY <1>1, <1>s DEF StatusType
<1>4. \A r \in Steps : r # s => ended[r] = status[r]
  BY StepTyped DEF StatusType
<1>5. ASSUME NEW r \in doomed
      PROVE  /\ r \in Steps /\ r # s /\ ended[r] = "Planned"
             /\ r[1] \in Doomed(ended, s[1])
  BY <1>1, <1>3 DEF PlannedOf, Terminal, Dead
<1> HIDE DEF ended
<1>6. ASSUME NEW r \in doomed
      PROVE  /\ r[1] \in Known /\ Abandonable(ended, r[1])
             /\ \E e \in mission.deps[r[1]] :
                  e = s[1] \/ (e \in Known /\ Abandonable(ended, e))
  BY <1>5, DoomedTask
<1>7. ASSUME NEW r \in doomed
      PROVE  \A q \in StepsOf(r[1]) : q \in doomed \/ ended[q] = "Complete"
  <2>1. \A q \in StepsOf(r[1]) : ended[q] \in {"Planned", "Complete"}
    BY <1>3, <1>6, PlannedTask DEF Abandonable
  <2>2. \A q \in StepsOf(r[1]) : q \in Steps /\ q[1] = r[1]
    BY DEF StepsOf
  <2>3. result = "Error"
    OBVIOUS
  <2> QED BY <2>1, <2>2, <2>3, <1>5 DEF PlannedOf
<1> HIDE DEF doomed
<1>8. \A r \in StepId : status'[r] = IF r \in doomed THEN "Abandoned" ELSE ended[r]
  BY <1>2 DEF Abandon
<1>9. status' \in StatusType
  BY <1>2, <1>3 DEF Abandon, StatusType, Terminal, Dead
<1>10. status'[s] = result
  BY <1>3, <1>5, <1>8, <1>s
<1>11. Known' = Known /\ mission' = mission
  BY SameKnown
<1>12. stopped \subseteq stopped' /\ stopped' \subseteq stopped \cup {s}
  BY <1>2
<1>13. ASSUME NEW r \in Steps
       PROVE  /\ status[r] \in Terminal => status'[r] = status[r] /\ origin'[r] = origin[r]
              /\ status[r] = "Running" =>
                   \/ status'[r] \in {"Running", "Complete", "Error"}
                   \/ status'[r] = "Abandoned" /\ r \in stopped'
              /\ Reached(r)' => Reached(r) \/ IsReady(r)
              /\ status'[r] = "Abandoned" =>
                   \/ status[r] = "Abandoned" \/ Reached(r) \/ IsReady(r)
                   \/ \A q \in StepsOf(r[1]) : status'[q] \in Terminal
  <2>r. r \in StepId
    BY StepTyped
  <2>1. CASE r = s
    BY <2>1, <1>1, <1>2, <1>10, <2>r DEF Reached, Terminal, Dead
  <2>2. CASE r # s /\ r \notin doomed
    <3>1. status'[r] = status[r] /\ origin'[r] = origin[r]
      BY <2>2, <1>2, <1>4, <1>8, <2>r
    <3>2. r \in stopped' <=> r \in stopped
      BY <2>2, <1>12
    <3> QED BY <3>1, <3>2 DEF Reached, Terminal, Dead
  <2>3. CASE r \in doomed
    <3>1. status[r] = "Planned" /\ status'[r] = "Abandoned"
      BY <2>3, <1>4, <1>5, <1>8, <2>r
    <3>2. r \in stopped' => r \in stopped
      BY <2>3, <1>5, <1>12
    <3>3. \A q \in StepsOf(r[1]) : status'[q] \in Terminal
      BY <2>3, <1>7, <1>8, StepTyped DEF Terminal, Dead, StepsOf
    <3> QED BY <3>1, <3>2, <3>3 DEF Reached, Terminal, Dead
  <2> QED BY <2>1, <2>2, <2>3
<1>14. Progress
  BY <1>11, <1>12, <1>13 DEF Progress
<1>15. ASSUME NEW r \in Steps, r # s, status'[r] # status[r]
       PROVE  /\ status[r] = "Planned" /\ status'[r] = "Abandoned"
              /\ r[1] \in Known
              /\ "error" \notin mission.runOn[r[1]]
              /\ \E e \in mission.deps[r[1]] :
                   \/ e = s[1]
                   \/ e \in Known /\ TaskStatus(ended, e) = "Planned"
  <2>1. r \in doomed
    BY <1>15, <1>4, <1>8, StepTyped
  <2> QED BY <2>1, <1>4, <1>5, <1>6, <1>8, StepTyped DEF Abandonable
<1>16. ended = [status EXCEPT ![s] = status'[s]]
  BY <1>10 DEF ended
<1> QED BY <1>1, <1>9, <1>10, <1>14, <1>15, <1>16

-----------------------------------------------------------------------------
(* Least elements, for the choices of the first step or task of a set. *)

\* A non-empty set of naturals has a least element.
LEMMA Least ==
  ASSUME NEW T \in SUBSET Nat, T # {}
  PROVE  \E m \in T : \A n \in T : m <= n
<1> DEFINE R == {p \in Nat \X Nat : p[1] < p[2]}
<1>1. IsWellFoundedOn(R, Nat)
  BY Zenon, NatLessThanWellFounded DEF OpToRel
<1>2. \A x, y \in Nat : x < y => <<x, y>> \in R
  OBVIOUS
<1> HIDE DEF R
<1>3. PICK m \in T : \A n \in T : ~ (<<n, m>> \in R)
  BY <1>1, WFMin
<1>4. \A n \in T : n \in Nat /\ ~ (n < m)
  BY <1>2, <1>3
<1> QED BY <1>4

\* FirstWith names a step of the task with that status, if there is one.
LEMMA FirstWithIn ==
  ASSUME NEW t, NEW x, Has(status, t, x)
  PROVE  FirstWith(t, x) \in StepsOf(t) /\ status[FirstWith(t, x)] = x
<1> DEFINE T == {s[2] : s \in {r \in StepsOf(t) : status[r] = x}}
<1>1. T \in SUBSET Nat /\ T # {}
  BY ConstantsAssumption, StepTyped DEF Has, StepsOf
<1>2. PICK m \in T : \A n \in T : m <= n
  BY <1>1, Least
<1>3. \E s \in StepsOf(t) :
        status[s] = x /\ \A r \in StepsOf(t) : status[r] = x => s[2] <= r[2]
  BY <1>2
<1> QED BY <1>3 DEF FirstWith

\* The first dead task whose cascade reaches a step at the entry of a phase.
LEMMA FirstKiller ==
  ASSUME NEW dead \in SUBSET Tasks, NEW S, NEW F,
         \E t \in dead : S \in F[t]
  PROVE  \E t \in dead : S \in F[t] /\ \A u \in dead : S \in F[u] => t <= u
<1> DEFINE T == {t \in dead : S \in F[t]}
<1>1. T \in SUBSET Nat /\ T # {}
  BY ConstantsAssumption DEF Tasks
<1>2. PICK m \in T : \A n \in T : m <= n
  BY <1>1, Least
<1> QED BY <1>2

-----------------------------------------------------------------------------
(* Types. *)

\* The text a dead or finished task forwards belongs to a step, or is the sweep's.
LEMMA ForwardedTyped ==
  ASSUME TypeOK, NEW t \in Tasks
  PROVE  ForwardedOrigin(t) \in StepId \cup {NoOrigin, NotStarted}
<1> mission \in MissionType
  BY MissionTyped DEF TypeOK
<1>1. \A x : Has(status, t, x) => FirstWith(t, x) \in StepId
  BY FirstWithIn, StepTyped DEF StepsOf
<1>2. TaskStatus(status, t) = "Error" => Has(status, t, "Error")
  BY DEF TaskStatus
<1>3. TaskStatus(status, t) = "Abandoned" => Has(status, t, "Abandoned")
  BY DEF TaskStatus
<1>4. <<t, mission.size[t]>> \in StepId
  BY DEF MissionType, StepId
<1> QED BY <1>1, <1>2, <1>3, <1>4 DEF ForwardedOrigin, TypeOK

\* EndStep keeps the types of what it writes.
LEMMA EndStepTyped ==
  ASSUME TypeOK, NEW s \in Steps, NEW ok \in BOOLEAN, EndStep(s, ok)
  PROVE  /\ status' \in StatusType
         /\ origin' \in [StepId -> StepId \cup {NoOrigin, NotStarted}]
         /\ stopped' \subseteq Steps
<1>1. s \in StepId
  BY StepTyped
<1>2. \A S : Abandon([status EXCEPT ![s] = IF ok THEN "Complete" ELSE Unfinished], S)
                \in StatusType
  BY DEF TypeOK, Abandon, StatusType, Unfinished, Terminal, Dead
<1>3. \A S : [r \in StepId |-> IF r = s \/ r \in S THEN s ELSE origin[r]]
                \in [StepId -> StepId \cup {NoOrigin, NotStarted}]
  BY <1>1 DEF TypeOK
<1> QED BY <1>2, <1>3 DEF EndStep, TypeOK

\* The cascade at a phase's entry names, for each step it ends, a dead task.
LEMMA EntryTyped ==
  ASSUME TypeOK, EnterPhase
  PROVE  /\ status' \in StatusType
         /\ origin' \in [StepId -> StepId \cup {NoOrigin, NotStarted}]
<1> DEFINE dead == {t \in Known : TaskStatus(status, t) \in Dead}
           F == [t \in Tasks |-> PlannedOf(status, Doomed(status, t))]
           all == UNION {PlannedOf(status, Doomed(status, t)) : t \in dead}
           killer(s) == CHOOSE t \in dead :
                          s \in PlannedOf(status, Doomed(status, t))
                          /\ \A u \in dead :
                               s \in PlannedOf(status, Doomed(status, u)) => t <= u
<1>1. dead \in SUBSET Tasks
  BY DEF Known
<1>2. ASSUME NEW s \in all
      PROVE  killer(s) \in dead
  <2>1. \E t \in dead : s \in F[t]
    BY <1>1
  <2>2. \E t \in dead : s \in F[t] /\ \A u \in dead : s \in F[u] => t <= u
    <3> HIDE DEF dead, F
    <3> QED BY <1>1, <2>1, FirstKiller
  <2>3. \E t \in dead : s \in PlannedOf(status, Doomed(status, t))
                        /\ \A u \in dead :
                             s \in PlannedOf(status, Doomed(status, u)) => t <= u
    BY <1>1, <2>2
  <2> QED BY <2>3
<1>3. status' = Abandon(status, all)
  BY DEF EnterPhase
<1>4. origin' = [s \in StepId |->
                   IF s \in all THEN ForwardedOrigin(killer(s)) ELSE origin[s]]
  BY DEF EnterPhase
<1>5. status' \in StatusType
  BY <1>3 DEF TypeOK, Abandon, StatusType, Terminal, Dead
<1> HIDE DEF all, killer
<1>6. \A s \in all : ForwardedOrigin(killer(s)) \in StepId \cup {NoOrigin, NotStarted}
  BY <1>1, <1>2, ForwardedTyped
<1> QED BY <1>4, <1>5, <1>6 DEF TypeOK

\* Every action keeps the types.
LEMMA TypeStep ==
  ASSUME TypeOK, PassShape, [Next]_vars
  PROVE  TypeOK'
<1>1. CASE EnterPhase
  <2>1. /\ status' \in [StepId -> {"Planned", "Running"} \cup Terminal]
        /\ origin' \in [StepId -> StepId \cup {NoOrigin, NotStarted}]
    BY <1>1, EntryTyped DEF StatusType
  <2> QED BY <1>1, <2>1 DEF EnterPhase, TypeOK, passVars, signalVars, Steps
<1>2. CASE SkipPhase \/ NextPhase
  <2>1. phase \in 1 .. NPhases
    BY <1>2, ConstantsAssumption DEF SkipPhase, NextPhase, PassShape, TypeOK
  <2>2. phase + 1 \in 1 .. NPhases + 1
    BY <2>1, ConstantsAssumption
  <2> QED BY <1>2, <2>2 DEF SkipPhase, NextPhase, TypeOK, passVars, signalVars, Steps
<1>3. CASE StartPass \/ EndRun \/ EndPass \/ EmptyPass \/ WaveReturns \/ EndWave
  BY <1>3 DEF StartPass, EndRun, EndPass, EmptyPass, WaveReturns, EndWave, FailIfInterrupted,
     TypeOK, passVars, signalVars, Steps
<1>4. CASE PassReturns
  BY <1>4, ConstantsAssumption DEF PassReturns, FailIfInterrupted, TypeOK, passVars,
     signalVars, Steps
<1>5. CASE SweepTask
  <2>1. sweepAt + 1 \in 1 .. NTasks + 1 /\ sweepAt \in Tasks
    BY <1>5, ConstantsAssumption DEF SweepTask, TypeOK, Tasks
  <2> DEFINE t == sweepAt
  <2>2. StrandedOrigins(t) \subseteq StepId \cup {NoOrigin, NotStarted}
    <3>1. mission.deps[t] \subseteq Tasks
      BY <2>1, MissionTyped DEF TypeOK, MissionType
    <3> QED BY <2>1, <3>1, ForwardedTyped DEF StrandedOrigins
  <2>3. \A S : Abandon(status, S) \in [StepId -> {"Planned", "Running"} \cup Terminal]
    BY DEF TypeOK, Abandon, Terminal, Dead
  <2>4. \A S : \A o \in StrandedOrigins(t) :
          [s \in StepId |-> IF s \in S THEN o ELSE origin[s]]
            \in [StepId -> StepId \cup {NoOrigin, NotStarted}]
    BY <2>2 DEF TypeOK
  <2>5. /\ status' \in [StepId -> {"Planned", "Running"} \cup Terminal]
        /\ origin' \in [StepId -> StepId \cup {NoOrigin, NotStarted}]
    BY <1>5, <2>3, <2>4 DEF SweepTask, TypeOK
  <2> QED BY <1>5, <2>1, <2>5 DEF SweepTask, TypeOK, passVars, signalVars, Steps
<1>6. CASE Reconcile
  <2>1. \A s \in Steps : s \in StepId
    BY StepTyped
  <2> QED BY <1>6, <2>1 DEF Reconcile, Unfinished, TypeOK, Terminal, Dead, passVars,
             signalVars, Steps
<1>7. CASE Pick
  <2>1. NextWaveReady \subseteq Steps
    BY DEF NextWaveReady
  <2> QED BY <1>7, <2>1 DEF Pick, Held, Ungated, TypeOK, signalVars, Steps
<1>8. CASE StartWave
  BY <1>8 DEF StartWave, TypeOK, signalVars, Steps
<1>9. ASSUME NEW s \in Steps, ApproveGate(s)
      PROVE  TypeOK'
  BY <1>9 DEF ApproveGate, TypeOK, signalVars, Steps
<1>10. ASSUME NEW s \in Steps, NEW ok \in BOOLEAN,
              DeclineGate(s) \/ RefuseResume(s) \/ ReconcileLost(s) \/ StepTerminal(s, ok)
       PROVE  TypeOK'
  <2>1. EndStep(s, FALSE) \/ EndStep(s, ok)
    BY <1>10 DEF DeclineGate, RefuseResume, ReconcileLost, StepTerminal
  <2>2. /\ status' \in [StepId -> {"Planned", "Running"} \cup Terminal]
        /\ origin' \in [StepId -> StepId \cup {NoOrigin, NotStarted}]
        /\ stopped' \subseteq Steps
    BY <2>1, EndStepTyped DEF StatusType
  <2> QED BY <1>10, <2>2 DEF DeclineGate, RefuseResume, ReconcileLost, StepTerminal,
             TypeOK, signalVars, Steps
<1>11. CASE Stops
  BY <1>11 DEF Stops, Signal, BoundReached, BoundStored, BoundMarked, TypeOK, passVars, Steps
<1>12. CASE UNCHANGED vars
  BY <1>12 DEF vars, TypeOK, passVars, signalVars, Steps
<1> QED BY <1>1, <1>2, <1>3, <1>4, <1>5, <1>6, <1>7, <1>8, <1>9, <1>10, <1>11, <1>12
       DEF Next, Launcher, Scheduler, Terminated

-----------------------------------------------------------------------------
(* The actors: where they are, and which steps run. *)

\* A step taken for its end by EndStep is running or ready, and not ended.
LEMMA EndsLive ==
  ASSUME IInv, NEW s \in Steps, NEW ok \in BOOLEAN,
         DeclineGate(s) \/ RefuseResume(s) \/ ReconcileLost(s) \/ StepTerminal(s, ok)
  PROVE  /\ Reached(s) \/ IsReady(s)
         /\ status[s] \notin Terminal
         /\ \E b \in BOOLEAN : EndStep(s, b)
         /\ UNCHANGED <<mission, phase, pc, interrupted, boundExceeded>>
         /\ DeclineGate(s) \/ RefuseResume(s) => status[s] = "Planned"
<1>1. CASE DeclineGate(s) \/ RefuseResume(s)
  <2>1. IsReady(s)
    BY <1>1 DEF DeclineGate, RefuseResume, First, IInv, ApprovedStaysReady
  <2> QED BY <1>1, <2>1 DEF DeclineGate, RefuseResume, IsReady, Terminal, Dead, signalVars
<1>2. CASE ReconcileLost(s) \/ StepTerminal(s, ok)
  <2>1. status[s] = "Running"
    BY <1>2 DEF ReconcileLost, StepTerminal, First, IInv, RunningIsInFlight
  <2>2. pc # "gate" /\ (\E b \in BOOLEAN : EndStep(s, b))
    BY <1>2 DEF ReconcileLost, StepTerminal
  <2> QED BY <1>2, <2>1, <2>2
         DEF ReconcileLost, StepTerminal, Reached, Terminal, Dead, signalVars,
             DeclineGate, RefuseResume
<1> QED BY <1>1, <1>2

\* Every action keeps the places.
LEMMA PassShapeStep ==
  ASSUME IInv, [Next]_vars
  PROVE  PassShape'
<1> USE DEF IInv, PassShape
<1>1. CASE EnterPhase
  BY <1>1, ConstantsAssumption DEF EnterPhase, MorePhases, passVars
<1>2. CASE SkipPhase \/ StartPass \/ PassReturns \/ NextPhase \/ EndRun
  BY <1>2 DEF SkipPhase, StartPass, PassReturns, NextPhase, EndRun, FailIfInterrupted,
     passVars
<1>3. CASE SweepTask \/ Reconcile
  BY <1>3 DEF SweepTask, Reconcile, passVars
<1>4. CASE Pick
  BY <1>4 DEF Pick
<1>5. CASE EndPass \/ EmptyPass \/ WaveReturns \/ EndWave
  BY <1>5 DEF EndPass, EmptyPass, WaveReturns, EndWave, passVars
<1>6. CASE StartWave
  BY <1>6 DEF StartWave
<1>7. ASSUME NEW s \in Steps, NEW ok \in BOOLEAN,
             \/ ApproveGate(s) \/ DeclineGate(s) \/ RefuseResume(s)
             \/ ReconcileLost(s) \/ StepTerminal(s, ok)
      PROVE  PassShape'
  BY <1>7 DEF ApproveGate, DeclineGate, RefuseResume, ReconcileLost, StepTerminal, First
<1>8. CASE Stops
  BY <1>8 DEF Stops, Signal, BoundReached, BoundStored, BoundMarked, passVars
<1>9. CASE UNCHANGED vars
  BY <1>9 DEF vars, passVars
<1> QED BY <1>1, <1>2, <1>3, <1>4, <1>5, <1>6, <1>7, <1>8, <1>9
       DEF Next, Launcher, Scheduler, Terminated

\* Ending a step takes that one, and no other, out of the running ones.
LEMMA EndStepRunning ==
  ASSUME IInv, NEW s \in Steps, NEW ok \in BOOLEAN, EndStep(s, ok),
         Reached(s) \/ IsReady(s), status[s] \notin Terminal, UNCHANGED <<mission, phase>>
  PROVE  /\ {r \in Steps : status'[r] = "Running"}
              = {r \in Steps : status[r] = "Running"} \ {s}
         /\ Steps' = Steps
<1>1. status \in StatusType
  BY DEF IInv, TypeOK, StatusType
<1>2. /\ status'[s] \in Terminal
      /\ \A r \in Steps : r # s /\ status'[r] # status[r] =>
           status[r] = "Planned" /\ status'[r] = "Abandoned"
  BY <1>1, EndStepProgress
<1>3. Steps' = Steps
  BY DEF Steps
<1> QED BY <1>2, <1>3 DEF Terminal, Dead

\* Every action keeps the running steps and the jobs in flight equal.
LEMMA RunningStep ==
  ASSUME IInv, [Next]_vars
  PROVE  RunningIsInFlight'
<1> USE DEF IInv, RunningIsInFlight
<1>0. UNCHANGED mission => Steps' = Steps
  BY DEF Steps
<1>1. CASE EnterPhase
  <2>1. \A s \in Steps : status'[s] = "Running" <=> status[s] = "Running"
    BY <1>1, StepTyped DEF EnterPhase, Abandon, PlannedOf
  <2> QED BY <1>0, <1>1, <2>1 DEF EnterPhase, passVars
<1>2. CASE SkipPhase \/ StartPass \/ PassReturns \/ NextPhase \/ EndRun
  BY <1>0, <1>2 DEF SkipPhase, StartPass, PassReturns, NextPhase, EndRun,
     FailIfInterrupted, passVars
<1>3. CASE SweepTask
  <2>1. \A s \in Steps : status'[s] = "Running" <=> status[s] = "Running"
    BY <1>3, StepTyped DEF SweepTask, Abandon, PlannedOf
  <2> QED BY <1>0, <1>3, <2>1 DEF SweepTask, passVars
<1>4. CASE Reconcile
  <2>1. \A s \in Steps : status'[s] # "Running"
    BY <1>4, StepTyped DEF Reconcile, Unfinished
  <2>2. inFlight' = {}
    BY <1>4 DEF Reconcile, PassShape, passVars
  <2> QED BY <1>0, <1>4, <2>1, <2>2 DEF Reconcile
<1>5. CASE Pick \/ EndPass \/ EmptyPass \/ WaveReturns \/ EndWave
  BY <1>0, <1>5 DEF Pick, EndPass, EmptyPass, WaveReturns, EndWave, passVars
<1>6. CASE StartWave
  <2>1. pc # "abort" /\ inFlight = {} /\ passed \subseteq Steps
    BY <1>6 DEF StartWave, PassShape, TypeOK
  <2>2. \A s \in Steps : status'[s] = "Running" <=> s \in passed
    BY <1>6, <2>1, StepTyped DEF StartWave
  <2> QED BY <1>0, <1>6, <2>1, <2>2 DEF StartWave
<1>7. ASSUME NEW s \in Steps, ApproveGate(s)
      PROVE  RunningIsInFlight'
  BY <1>0, <1>7 DEF ApproveGate
<1>8. ASSUME NEW s \in Steps, NEW ok \in BOOLEAN,
             DeclineGate(s) \/ RefuseResume(s) \/ ReconcileLost(s) \/ StepTerminal(s, ok)
      PROVE  RunningIsInFlight'
  <2> HIDE DEF IInv, RunningIsInFlight
  <2>1. PICK b \in BOOLEAN : EndStep(s, b)
    BY <1>8, EndsLive
  <2>2. /\ {r \in Steps : status'[r] = "Running"}
             = {r \in Steps : status[r] = "Running"} \ {s}
        /\ Steps' = Steps
    BY <1>8, <2>1, EndsLive, EndStepRunning
  <2>3. CASE DeclineGate(s) \/ RefuseResume(s)
    <3>1. status[s] = "Planned" /\ pc = "gate" /\ inFlight' = inFlight
      BY <1>8, <2>3, EndsLive DEF DeclineGate, RefuseResume
    <3> QED BY <2>2, <3>1 DEF IInv, RunningIsInFlight
  <2>4. CASE ReconcileLost(s) \/ StepTerminal(s, ok)
    <3>1. pc # "abort" /\ inFlight' = inFlight \ {s}
      BY <2>4 DEF ReconcileLost, StepTerminal
    <3> QED BY <2>2, <3>1 DEF IInv, RunningIsInFlight
  <2> QED BY <1>8, <2>3, <2>4
<1>9. CASE Stops
  BY <1>0, <1>9 DEF Stops, Signal, BoundReached, BoundStored, BoundMarked, passVars
<1>10. CASE UNCHANGED vars
  BY <1>0, <1>10 DEF vars, passVars
<1> QED BY <1>1, <1>2, <1>3, <1>4, <1>5, <1>6, <1>7, <1>8, <1>9, <1>10
       DEF Next, Launcher, Scheduler, Terminated

-----------------------------------------------------------------------------
(* Every step of the system is progress. *)

\* A cascade or a sweep that abandons the Planned steps of some tasks is progress
\* when none of those tasks has a running step.
LEMMA AbandonProgress ==
  ASSUME status \in StatusType, NEW D, NEW S,
         S \subseteq PlannedOf(status, D), \A s \in S : StepsOf(s[1]) \cap PlannedOf(status, D) \subseteq S,
         \A s \in S : \A r \in StepsOf(s[1]) : status[r] # "Running",
         status' = Abandon(status, S),
         \A s \in Steps : s \notin S => origin'[s] = origin[s],
         UNCHANGED <<mission, phase, stopped>>
  PROVE  Progress
<1>1. Known' = Known
  BY SameKnown
<1>2. \A s \in Steps : status'[s] = IF s \in S THEN "Abandoned" ELSE status[s]
  BY StepTyped DEF Abandon
<1>3. \A s \in S : s \in Steps /\ s[1] \in D /\ status[s] = "Planned"
  BY DEF PlannedOf
<1>4. \A s \in Steps : status[s] \in {"Planned", "Running", "Complete", "Error", "Abandoned"}
  BY StepTyped DEF StatusType, Terminal, Dead
<1>5. ASSUME NEW s \in S, NEW r \in StepsOf(s[1])
      PROVE  status'[r] \in Terminal
  <2>1. r \in Steps /\ r[1] = s[1] /\ status[r] # "Running"
    BY <1>5 DEF StepsOf
  <2>2. status[r] = "Planned" => r \in S
    BY <1>3, <2>1 DEF PlannedOf
  <2> QED BY <1>2, <1>4, <2>1, <2>2 DEF Terminal, Dead
<1>6. ASSUME NEW s \in Steps
      PROVE  /\ status[s] \in Terminal => status'[s] = status[s] /\ origin'[s] = origin[s]
             /\ status[s] = "Running" =>
                  \/ status'[s] \in {"Running", "Complete", "Error"}
                  \/ status'[s] = "Abandoned" /\ s \in stopped'
             /\ Reached(s)' => Reached(s) \/ IsReady(s)
             /\ status'[s] = "Abandoned" =>
                  \/ status[s] = "Abandoned" \/ Reached(s) \/ IsReady(s)
                  \/ \A r \in StepsOf(s[1]) : status'[r] \in Terminal
  <2>1. CASE s \in S
    BY <1>2, <1>3, <1>5, <2>1 DEF Reached, Terminal, Dead
  <2>2. CASE s \notin S
    BY <1>2, <2>2 DEF Reached, Terminal, Dead
  <2> QED BY <2>1, <2>2
<1> QED BY <1>1, <1>6 DEF Progress

\* A later phase knows more tasks.
LEMMA KnownGrows ==
  ASSUME TypeOK, UNCHANGED mission, phase' \in {phase, phase + 1}
  PROVE  Known \subseteq Known'
<1>1. \A t \in Tasks : mission.phase[t] \in Nat /\ phase \in Nat
  BY MissionTyped, ConstantsAssumption DEF TypeOK, MissionType, Phases
<1> QED BY <1>1 DEF Known

\* The cascade at a phase's entry is progress.
LEMMA EntryProgress ==
  ASSUME IInv, EnterPhase
  PROVE  Progress
<1> DEFINE dead == {t \in Known : TaskStatus(status, t) \in Dead}
           D == UNION {Doomed(status, t) : t \in dead}
           S == UNION {PlannedOf(status, Doomed(status, t)) : t \in dead}
<1>1. status \in StatusType
  BY DEF IInv, TypeOK, StatusType
<1>2. S \subseteq PlannedOf(status, D)
  BY DEF PlannedOf
<1>3. \A s \in S : StepsOf(s[1]) \cap PlannedOf(status, D) \subseteq S
  BY DEF PlannedOf, StepsOf
<1>4. ASSUME NEW s \in S, NEW r \in StepsOf(s[1])
      PROVE  status[r] # "Running"
  <2>1. PICK t \in dead : s[1] \in Doomed(status, t)
    BY DEF PlannedOf
  <2>2. TaskStatus(status, s[1]) = "Planned"
    BY <2>1, DoomedTask DEF Abandonable
  <2> QED BY <1>1, <2>2, PlannedTask
<1>5. status' = Abandon(status, S) /\ UNCHANGED <<mission, phase, stopped>>
  BY DEF EnterPhase
<1>6. \A s \in Steps : s \notin S => origin'[s] = origin[s]
  BY StepTyped DEF EnterPhase
<1> HIDE DEF S, D
<1> QED BY <1>1, <1>2, <1>3, <1>4, <1>5, <1>6, AbandonProgress

\* The sweep of one task is progress: no step runs at a phase's exit.
LEMMA SweepProgress ==
  ASSUME IInv, SweepTask
  PROVE  Progress
<1> DEFINE S == PlannedOf(status, {sweepAt})
<1>1. status \in StatusType /\ mission' = mission /\ phase' = phase /\ stopped' = stopped
  BY DEF IInv, TypeOK, StatusType, SweepTask
<1>2. \A r \in Steps : status[r] # "Running"
  BY DEF SweepTask, IInv, RunningIsInFlight, PassShape
<1>3. CASE UNCHANGED <<status, origin>>
  BY <1>1, <1>3, SameKnown, StutterProgress
<1>4. CASE /\ status' = Abandon(status, S)
           /\ \E o \in StrandedOrigins(sweepAt) :
                origin' = [s \in StepId |-> IF s \in S THEN o ELSE origin[s]]
  <2>1. \A s \in Steps : s \notin S => origin'[s] = origin[s]
    BY <1>4, StepTyped
  <2>2. \A s \in S : StepsOf(s[1]) \cap PlannedOf(status, {sweepAt}) \subseteq S
    OBVIOUS
  <2>3. \A s \in S : \A r \in StepsOf(s[1]) : status[r] # "Running"
    BY <1>2 DEF StepsOf
  <2>4. S \subseteq PlannedOf(status, {sweepAt})
    OBVIOUS
  <2>5. status' = Abandon(status, S)
    BY <1>4
  <2> HIDE DEF S
  <2> QED BY <1>1, <2>1, <2>2, <2>3, <2>4, <2>5, AbandonProgress
<1> QED BY <1>3, <1>4 DEF SweepTask

\* Every action is progress.
LEMMA ProgressStep ==
  ASSUME IInv, [Next]_vars
  PROVE  Progress
<1>t. TypeOK /\ status \in StatusType
  BY DEF IInv, TypeOK, StatusType
<1>1. CASE EnterPhase
  BY <1>1, EntryProgress
<1>2. CASE SweepTask
  BY <1>2, SweepProgress
<1>3. CASE SkipPhase \/ NextPhase
  BY <1>t, <1>3, KnownGrows, StutterProgress DEF SkipPhase, NextPhase
<1>4. CASE StartPass \/ PassReturns \/ EndRun
  BY <1>4, SameKnown, StutterProgress DEF StartPass, PassReturns, EndRun
<1>5. CASE Pick \/ EndPass \/ EmptyPass \/ WaveReturns \/ EndWave
  BY <1>5, SameKnown, StutterProgress DEF Pick, EndPass, EmptyPass, WaveReturns, EndWave
<1>6. CASE Reconcile
  <2>1. Known' = Known /\ mission' = mission
    BY <1>6, SameKnown DEF Reconcile
  <2>2. ASSUME NEW s \in Steps, status[s] = "Running"
        PROVE  status'[s] = "Error" \/ (status'[s] = "Abandoned" /\ s \in stopped')
    BY <1>6, <2>2, StepTyped DEF Reconcile, Unfinished
  <2>3. ASSUME NEW s \in Steps, status[s] # "Running"
        PROVE  /\ status'[s] = status[s] /\ origin'[s] = origin[s]
               /\ s \in stopped' => s \in stopped
    BY <1>6, <2>3, StepTyped DEF Reconcile
  <2>4. stopped \subseteq stopped'
    BY <1>6 DEF Reconcile
  <2> QED BY <2>1, <2>2, <2>3, <2>4 DEF Progress, Reached, Terminal, Dead
<1>7. CASE StartWave
  <2>1. Known' = Known /\ mission' = mission /\ stopped' = stopped /\ origin' = origin
    BY <1>7, SameKnown DEF StartWave
  <2>2. \A s \in passed : IsReady(s)
    BY DEF IInv, ApprovedStaysReady
  <2>3. \A s \in Steps : status'[s] = IF s \in passed THEN "Running" ELSE status[s]
    BY <1>7, StepTyped DEF StartWave
  <2>4. \A s \in passed : status[s] = "Planned"
    BY <2>2 DEF IsReady
  <2> QED BY <2>1, <2>2, <2>3, <2>4 DEF Progress, Reached, Terminal, Dead
<1>8. ASSUME NEW s \in Steps, ApproveGate(s)
      PROVE  Progress
  BY <1>8, SameKnown, StutterProgress DEF ApproveGate
<1>9. ASSUME NEW s \in Steps, NEW ok \in BOOLEAN,
             DeclineGate(s) \/ RefuseResume(s) \/ ReconcileLost(s) \/ StepTerminal(s, ok)
      PROVE  Progress
  BY <1>t, <1>9, EndsLive, EndStepProgress
<1>10. CASE Stops
  BY <1>10, SameKnown, StutterProgress
     DEF Stops, Signal, BoundReached, BoundStored, BoundMarked
<1>11. CASE UNCHANGED vars
  BY <1>11, SameKnown, StutterProgress DEF vars
<1> QED BY <1>1, <1>2, <1>3, <1>4, <1>5, <1>6, <1>7, <1>8, <1>9, <1>10, <1>11
       DEF Next, Launcher, Scheduler, Terminated

-----------------------------------------------------------------------------
(* What progress preserves. *)

\* Under progress, what ended stays ended and accepted dependencies stay accepted.
LEMMA AcceptedStaysPrimed ==
  ASSUME Progress, NEW t \in Tasks, DepsAccepted(status, t)
  PROVE  DepsAccepted(status, t)'
<1>1. Keeps(status, status')
  BY DEF Progress, Keeps
<1>2. DepsAccepted(status', t)
  BY <1>1, AcceptedStays
<1>3. mission' = mission /\ Known \subseteq Known'
  BY DEF Progress
<1>4. \A d : TaskStatus(status, d)' = TaskStatus(status', d)
  BY <1>3 DEF TaskStatus, Has, StepsOf, Steps
<1>5. \A d : Accepts(t, TaskStatus(status, d))' <=> Accepts(t, TaskStatus(status', d))
  BY <1>3, <1>4 DEF Accepts
<1> QED BY <1>2, <1>3, <1>5 DEF DepsAccepted

\* A ready step's task runs on settled inputs, whichever of its steps is ready.
LEMMA ReadyIsSettled ==
  ASSUME mission \in Missions, RunsOnSettledInputs, NEW s \in Steps, IsReady(s)
  PROVE  DepsAccepted(status, s[1])
<1>1. CASE s[2] = 1
  BY <1>1 DEF IsReady
<1>2. CASE s[2] # 1
  <2> DEFINE p == <<s[1], s[2] - 1>>
  <2>1. p \in Steps /\ status[p] = "Complete"
    BY <1>2, StepBefore DEF IsReady
  <2> QED BY <2>1 DEF RunsOnSettledInputs, Reached
<1> QED BY <1>1, <1>2

\* Progress keeps every reached task on settled inputs.
LEMMA SettledStep ==
  ASSUME mission \in Missions, RunsOnSettledInputs, Progress
  PROVE  RunsOnSettledInputs'
<1> SUFFICES ASSUME NEW s \in Steps, Reached(s)'
             PROVE  DepsAccepted(status, s[1])'
  BY DEF RunsOnSettledInputs, Progress, Steps
<1>1. Reached(s) \/ IsReady(s)
  BY DEF Progress
<1>2. DepsAccepted(status, s[1])
  BY <1>1, ReadyIsSettled DEF RunsOnSettledInputs
<1> QED BY <1>2, AcceptedStaysPrimed, StepTyped

\* All the steps before a ready one are Complete.
LEMMA ReadyInOrder ==
  ASSUME mission \in Missions, StepsInOrder, NEW s \in Steps, IsReady(s),
         NEW r \in Steps, r[1] = s[1], r[2] < s[2]
  PROVE  status[r] = "Complete"
<1>1. s[2] # 1
  BY ConstantsAssumption, StepTyped
<1> DEFINE p == <<s[1], s[2] - 1>>
<1>2. p \in Steps /\ status[p] = "Complete" /\ (r = p \/ r[2] < s[2] - 1)
  BY <1>1, StepBefore DEF IsReady
<1> QED BY <1>2 DEF StepsInOrder, Reached

\* Progress keeps the steps of a task in order.
LEMMA OrderStep ==
  ASSUME mission \in Missions, StepsInOrder, Progress, status \in StatusType,
         status' \in StatusType
  PROVE  StepsInOrder'
<1> SUFFICES ASSUME NEW s \in Steps, NEW r \in Steps, s[1] = r[1], r[2] < s[2]
             PROVE  /\ Reached(s)' => status'[r] = "Complete"
                    /\ status'[s] = "Abandoned" => status'[r] \in Terminal
  BY DEF StepsInOrder, Progress, Steps
<1>1. Reached(s) \/ IsReady(s) => status[r] = "Complete"
  BY ReadyInOrder DEF StepsInOrder
<1>2. status[r] = "Complete" => status'[r] = "Complete"
  BY DEF Progress, Terminal
<1>3. Reached(s)' => status'[r] = "Complete"
  BY <1>1, <1>2 DEF Progress
<1>4. ASSUME status'[s] = "Abandoned"
      PROVE  status'[r] \in Terminal
  <2>1. CASE status[s] = "Abandoned"
    BY <2>1 DEF StepsInOrder, Progress
  <2>2. CASE Reached(s) \/ IsReady(s)
    BY <2>2, <1>1, <1>2 DEF Terminal
  <2>3. CASE \A q \in StepsOf(s[1]) : status'[q] \in Terminal
    BY <2>3 DEF StepsOf
  <2> QED BY <1>4, <2>1, <2>2, <2>3 DEF Progress
<1> QED BY <1>3, <1>4

-----------------------------------------------------------------------------
(* What a pass approved stays ready. *)

\* A ready step stays ready under progress that leaves it Planned.
LEMMA ReadyStays ==
  ASSUME Progress, mission \in Missions, NEW s \in Steps, IsReady(s), status'[s] = "Planned"
  PROVE  IsReady(s)'
<1>1. s[1] \in Known'
  BY DEF IsReady, Progress
<1>2. CASE s[2] = 1
  <2>1. DepsAccepted(status, s[1])'
    BY <1>2, AcceptedStaysPrimed, StepTyped DEF IsReady
  <2> QED BY <1>1, <1>2, <2>1 DEF IsReady
<1>3. CASE s[2] # 1
  <2>1. <<s[1], s[2] - 1>> \in Steps /\ status[<<s[1], s[2] - 1>>] = "Complete"
    BY <1>3, StepBefore DEF IsReady
  <2>2. status'[<<s[1], s[2] - 1>>] = "Complete"
    BY <2>1 DEF Progress, Terminal
  <2> QED BY <1>1, <1>3, <2>2 DEF IsReady
<1> QED BY <1>2, <1>3

\* Ending a step does not reach another ready step: a doomed task waits on a task that
\* had not ended, or on one whose error it does not accept.
LEMMA ReadyIsSpared ==
  ASSUME IInv, NEW s \in Steps, NEW ok \in BOOLEAN, EndStep(s, ok),
         IsReady(s), UNCHANGED <<mission, phase>>,
         NEW r \in Steps, r # s, IsReady(r)
  PROVE  status'[r] = "Planned"
<1> SUFFICES ASSUME status'[r] # "Planned"
             PROVE  FALSE
  OBVIOUS
<1>1. status \in StatusType /\ mission \in Missions /\ status[s] = "Planned"
  BY DEF IInv, TypeOK, StatusType, IsReady
<1>2. status[s] \notin Terminal /\ status[r] = "Planned"
  BY <1>1 DEF Terminal, Dead, IsReady
<1> DEFINE ended == [status EXCEPT ![s] = status'[s]]
<1>3. /\ "error" \notin mission.runOn[r[1]]
      /\ \E e \in mission.deps[r[1]] :
           \/ e = s[1]
           \/ e \in Known /\ TaskStatus(ended, e) = "Planned"
  BY <1>1, <1>2, EndStepProgress
<1>4. DepsAccepted(status, r[1])
  BY <1>1, ReadyIsSettled DEF IInv
<1>5. PICK e \in mission.deps[r[1]] :
        e = s[1] \/ TaskStatus(ended, e) = "Planned"
  BY <1>3
<1>6. TaskStatus(status, e) = "Complete"
  BY <1>3, <1>4 DEF DepsAccepted, Accepts
<1>7. CASE e = s[1]
  BY <1>1, <1>6, <1>7, NotComplete
<1>8. CASE TaskStatus(ended, e) = "Planned"
  <2>1. Keeps(status, ended)
    BY <1>1, <1>2, StepTyped DEF Keeps, StatusType
  <2>2. TaskStatus(ended, e) = "Complete"
    BY <1>6, <2>1, SettledStays DEF Terminal
  <2> QED BY <1>8, <2>2
<1> QED BY <1>5, <1>7, <1>8

\* Every action keeps what the pass approved ready.
LEMMA ApprovedStep ==
  ASSUME IInv, [Next]_vars
  PROVE  ApprovedStaysReady'
<1>0. Progress /\ mission \in Missions /\ Steps' = Steps /\ PassShape'
  BY ProgressStep, PassShapeStep DEF IInv, TypeOK, Progress, Steps
<1>1. CASE pc' # "gate"
  BY <1>0, <1>1 DEF PassShape, ApprovedStaysReady
<1>2. CASE Pick
  <2>1. \A s \in NextWaveReady : IsReady(s)
    BY DEF NextWaveReady
  <2>2. pending' \cup passed' \subseteq NextWaveReady
    BY <1>2 DEF Pick, Ungated
  <2>3. \A s \in Steps : IsReady(s)' <=> IsReady(s)
    BY <1>2, SameKnown DEF Pick, IsReady, DepsAccepted, TaskStatus, Has, StepsOf, Steps,
       Accepts
  <2>4. NextWaveReady \subseteq Steps
    BY DEF NextWaveReady
  <2> QED BY <2>1, <2>2, <2>3, <2>4 DEF ApprovedStaysReady
<1>3. CASE /\ pending' \cup passed' \subseteq pending \cup passed
           /\ UNCHANGED status
  <2>1. \A s \in pending \cup passed : s \in Steps /\ IsReady(s)
    BY DEF IInv, TypeOK, ApprovedStaysReady
  <2>2. \A s \in pending \cup passed : status'[s] = "Planned"
    BY <1>3, <2>1 DEF IsReady
  <2> QED BY <1>0, <1>3, <2>1, <2>2, ReadyStays DEF ApprovedStaysReady
<1>4. ASSUME NEW s \in Steps, DeclineGate(s) \/ RefuseResume(s)
      PROVE  ApprovedStaysReady'
  <2>1. IsReady(s) /\ EndStep(s, FALSE) /\ UNCHANGED <<mission, phase>>
    BY <1>4 DEF DeclineGate, RefuseResume, First, IInv, ApprovedStaysReady
  <2>2. pending' \cup passed' \subseteq (pending \cup passed) \ {s}
    BY <1>4 DEF DeclineGate, RefuseResume, First, IInv, PassShape
  <2>3. ASSUME NEW r \in (pending \cup passed) \ {s}
        PROVE  r \in Steps /\ IsReady(r)
    BY DEF IInv, TypeOK, ApprovedStaysReady
  <2>4. ASSUME NEW r \in (pending \cup passed) \ {s}
        PROVE  IsReady(r)'
    BY <1>0, <2>1, <2>3, ReadyIsSpared, ReadyStays
  <2> QED BY <2>2, <2>4 DEF ApprovedStaysReady
<1>5. ASSUME NEW s \in Steps, NEW ok \in BOOLEAN, ReconcileLost(s) \/ StepTerminal(s, ok)
      PROVE  pc' # "gate"
  BY <1>5 DEF ReconcileLost, StepTerminal
<1>6. ASSUME NEW s \in Steps, ApproveGate(s)
      PROVE  pending' \cup passed' \subseteq pending \cup passed /\ UNCHANGED status
  BY <1>6 DEF ApproveGate, First
<1>7. CASE Launcher
  BY <1>0, <1>1, <1>7 DEF Launcher, EnterPhase, SkipPhase, StartPass, PassReturns, SweepTask,
     NextPhase, EndRun, Reconcile, FailIfInterrupted
<1>8. CASE EndPass \/ EmptyPass \/ StartWave \/ WaveReturns \/ EndWave
  BY <1>1, <1>8 DEF EndPass, EmptyPass, StartWave, WaveReturns, EndWave
<1>9. CASE Stops \/ UNCHANGED vars
  BY <1>3, <1>9 DEF Stops, Signal, BoundReached, BoundStored, BoundMarked, passVars, vars
<1> QED BY <1>1, <1>2, <1>3, <1>4, <1>5, <1>6, <1>7, <1>8, <1>9
       DEF Next, Scheduler, Terminated

-----------------------------------------------------------------------------
(* The root cause. *)

\* A text is rooted for task t when it is the sweep's own or comes from a step upstream
\* that really ended.
Rooted(t, o) ==
  o # NotStarted =>
    /\ o \in Steps /\ o[1] \in Upstream(t)
    /\ status[o] \in {"Error", "Complete"} \/ o \in stopped

\* A task is upstream of itself, and what is upstream of its dependency is of it.
LEMMA UpstreamOf ==
  ASSUME NEW t \in Tasks
  PROVE  /\ t \in Upstream(t)
         /\ \A e \in mission.deps[t] : Upstream(e) \subseteq Upstream(t)
<1>1. t \in Upstream(t)
  BY DEF Upstream
<1>2. ASSUME NEW e \in mission.deps[t], NEW u \in Upstream(e)
      PROVE  u \in Upstream(t)
  <2> DEFINE Closed(x, U) == x \in U /\ \A v \in U : mission.deps[v] \subseteq U
  <2>1. \A U \in SUBSET Tasks : Closed(t, U) => Closed(e, U)
    OBVIOUS
  <2>2. u \in Tasks /\ \A U \in SUBSET Tasks : Closed(e, U) => u \in U
    BY <1>2 DEF Upstream
  <2>3. \A U \in SUBSET Tasks : Closed(t, U) => u \in U
    <3> HIDE DEF Closed
    <3> QED BY <2>1, <2>2
  <2> QED BY <2>2, <2>3 DEF Upstream
<1> QED BY <1>1, <1>2

\* A cascade reaches only tasks downstream of the one it starts from.
LEMMA DoomedDownstream ==
  ASSUME mission \in Missions, NEW st, NEW from \in Tasks, NEW d \in Doomed(st, from)
  PROVE  from \in Upstream(d)
<1> DEFINE D == {c \in Known : from \in Upstream(c)}
<1>1. Known \subseteq Tasks /\ \A c \in Tasks : mission.deps[c] \subseteq Tasks
  BY MissionTyped DEF Known, MissionType
<1>2. from \in Upstream(from)
  BY UpstreamOf
<1>3. ASSUME NEW c \in Known, mission.deps[c] \cap (D \cup {from}) # {}
      PROVE  c \in D
  <2>1. PICK e \in mission.deps[c] : e \in D \/ e = from
    BY <1>3
  <2>2. from \in Upstream(e)
    BY <1>2, <2>1
  <2>3. Upstream(e) \subseteq Upstream(c)
    BY <1>1, UpstreamOf
  <2> QED BY <2>2, <2>3
<1>4. D \in SUBSET Known
  OBVIOUS
<1>5. d \in D
  <2> HIDE DEF D
  <2> QED BY <1>3, <1>4 DEF Doomed
<1> QED BY <1>5

\* The step FirstWith names is a step of the mission and of that task.
LEMMA FirstWithStep ==
  ASSUME NEW t, NEW x, Has(status, t, x)
  PROVE  /\ FirstWith(t, x) \in Steps /\ FirstWith(t, x)[1] = t
         /\ status[FirstWith(t, x)] = x
BY FirstWithIn DEF StepsOf

\* What a terminal task forwards is rooted for it and for every task that waits on it.
LEMMA ForwardedRooted ==
  ASSUME IInv, NEW t \in Tasks, TaskStatus(status, t) \in Terminal
  PROVE  \A u : Upstream(t) \subseteq Upstream(u) => Rooted(u, ForwardedOrigin(t))
<1>m. mission \in MissionType
  BY MissionTyped DEF IInv, TypeOK
<1>u. t \in Upstream(t)
  BY UpstreamOf
<1>1. CASE TaskStatus(status, t) = "Error"
  <2>1. Has(status, t, "Error") /\ ForwardedOrigin(t) = FirstWith(t, "Error")
    BY <1>1 DEF TaskStatus, ForwardedOrigin
  <2>2. /\ FirstWith(t, "Error") \in Steps /\ FirstWith(t, "Error")[1] = t
        /\ status[FirstWith(t, "Error")] = "Error"
    BY <2>1, FirstWithStep
  <2> QED BY <1>u, <2>1, <2>2 DEF Rooted
<1>2. CASE TaskStatus(status, t) = "Abandoned"
  <2> DEFINE f == FirstWith(t, "Abandoned")
  <2>1. Has(status, t, "Abandoned") /\ ForwardedOrigin(t) = origin[f]
    BY <1>2 DEF TaskStatus, ForwardedOrigin
  <2>2. f \in Steps /\ f[1] = t /\ status[f] = "Abandoned"
    BY <2>1, FirstWithStep
  <2> HIDE DEF f
  <2>3. Rooted(t, origin[f])
    BY <2>2 DEF IInv, RootCauseNamed, Rooted
  <2> QED BY <2>1, <2>3 DEF Rooted
<1>3. CASE TaskStatus(status, t) = "Complete"
  <2> DEFINE l == <<t, mission.size[t]>>
  <2>1. ForwardedOrigin(t) = l
    BY <1>3 DEF ForwardedOrigin
  <2>2. l \in StepsOf(t) /\ l \in Steps /\ l[1] = t
    BY <1>m, ConstantsAssumption DEF MissionType, StepsOf, Steps, StepId
  <2>3. status[l] = "Complete"
    BY <1>3, <2>2 DEF TaskStatus, Has
  <2> HIDE DEF l
  <2> QED BY <1>u, <2>1, <2>2, <2>3 DEF Rooted
<1> QED BY <1>1, <1>2, <1>3 DEF Terminal, Dead

\* A rooted text stays rooted under progress.
LEMMA RootedStays ==
  ASSUME Progress, NEW t, NEW o, Rooted(t, o)
  PROVE  Rooted(t, o)'
<1>1. Upstream(t)' = Upstream(t) /\ Steps' = Steps /\ NotStarted' = NotStarted
  BY DEF Progress, Upstream, Steps, NotStarted
<1>2. o \in Steps /\ status[o] \in {"Error", "Complete"} => status'[o] = status[o]
  BY DEF Progress, Terminal, Dead
<1> QED BY <1>1, <1>2 DEF Rooted, Progress

\* It is enough that the texts a step of the system writes are rooted.
LEMMA RootFromNew ==
  ASSUME IInv, Progress,
         \A s \in Steps : status'[s] = "Abandoned" /\ status[s] # "Abandoned" =>
           Rooted(s[1], origin[s])'
  PROVE  RootCauseNamed'
<1>1. Steps' = Steps
  BY DEF Progress, Steps
<1> SUFFICES ASSUME NEW s \in Steps, status'[s] = "Abandoned"
             PROVE  Rooted(s[1], origin[s])'
  BY <1>1 DEF RootCauseNamed, Rooted
<1>2. CASE status[s] = "Abandoned"
  <2>1. origin'[s] = origin[s]
    BY <1>2 DEF Progress, Terminal, Dead
  <2>2. Rooted(s[1], origin[s])
    BY <1>2 DEF IInv, RootCauseNamed, Rooted
  <2> QED BY <2>1, <2>2, RootedStays
<1>3. CASE status[s] # "Abandoned"
  BY <1>3
<1> QED BY <1>2, <1>3

\* The step that ends roots what its cascade writes.
LEMMA EndStepRooted ==
  ASSUME IInv, Progress, NEW s \in Steps, NEW ok \in BOOLEAN, EndStep(s, ok),
         UNCHANGED mission
  PROVE  RootCauseNamed'
<1> DEFINE result == IF ok THEN "Complete" ELSE Unfinished
           ended  == [status EXCEPT ![s] = result]
           doomed == IF result = "Error" THEN PlannedOf(ended, Doomed(ended, s[1])) ELSE {}
<1>1. /\ status' = Abandon(ended, doomed)
      /\ origin' = [r \in StepId |-> IF r = s \/ r \in doomed THEN s ELSE origin[r]]
      /\ stopped' = IF result = "Abandoned" THEN stopped \cup {s} ELSE stopped
  BY DEF EndStep
<1>2. mission \in Missions /\ s \in StepId /\ s[1] \in Tasks /\ status \in StatusType
  BY StepTyped DEF IInv, TypeOK, StatusType
<1>3. result \in {"Complete", "Error", "Abandoned"} /\ ended[s] = result
  BY <1>2 DEF Unfinished, StatusType
<1>4. ASSUME NEW r \in Steps, status'[r] = "Abandoned", status[r] # "Abandoned"
      PROVE  Rooted(r[1], origin[r])'
  <2>r. r \in StepId /\ r[1] \in Tasks
    BY StepTyped
  <2>1. CASE r = s
    <3>1. origin'[r] = s
      BY <1>1, <2>1, <2>r
    <3>2. s \notin doomed
      BY <1>3 DEF PlannedOf
    <3>3. s \in stopped'
      <4>1. status'[s] = result
        BY <1>1, <1>2, <1>3, <3>2 DEF Abandon
      <4> QED BY <1>1, <1>4, <2>1, <4>1
    <3>4. s[1] \in Upstream(s[1])
      BY <1>2, UpstreamOf
    <3> QED BY <2>1, <3>1, <3>3, <3>4 DEF Rooted, Upstream, Steps
  <2>2. CASE r # s
    <3>1. r \in doomed
      BY <1>1, <1>2, <1>4, <2>2, <2>r DEF Abandon, StatusType
    <3>2. result = "Error" /\ r[1] \in Doomed(ended, s[1]) /\ s \notin doomed
      BY <1>3, <3>1 DEF PlannedOf
    <3>3. s[1] \in Upstream(r[1])
      BY <1>2, <3>2, DoomedDownstream
    <3>4. origin'[r] = s
      BY <1>1, <2>r, <3>1
    <3>5. status'[s] = "Error"
      BY <1>1, <1>2, <1>3, <3>2 DEF Abandon
    <3> QED BY <3>3, <3>4, <3>5 DEF Rooted, Upstream, Steps
  <2> QED BY <2>1, <2>2
<1> QED BY <1>4, RootFromNew

\* A text rooted before a step of the system, and written by it, is rooted after it.
LEMMA RootedWritten ==
  ASSUME Progress, NEW r, Rooted(r[1], origin'[r])
  PROVE  Rooted(r[1], origin[r])'
<1>1. /\ \A t : Upstream(t)' = Upstream(t)
      /\ Steps' = Steps
  BY DEF Progress, Upstream, Steps
<1>2. \A o \in Steps : status[o] \in {"Error", "Complete"} => status'[o] = status[o]
  BY DEF Progress, Terminal, Dead
<1>3. stopped \subseteq stopped'
  BY DEF Progress
<1> QED BY <1>1, <1>2, <1>3 DEF Rooted, NotStarted

\* The cascade at a phase's entry forwards the cause of a dead task upstream.
LEMMA EntryRooted ==
  ASSUME IInv, EnterPhase
  PROVE  RootCauseNamed'
<1> DEFINE dead == {t \in Known : TaskStatus(status, t) \in Dead}
           F == [t \in Tasks |-> PlannedOf(status, Doomed(status, t))]
           all == UNION {PlannedOf(status, Doomed(status, t)) : t \in dead}
           killer(s) == CHOOSE t \in dead :
                          s \in PlannedOf(status, Doomed(status, t))
                          /\ \A u \in dead :
                               s \in PlannedOf(status, Doomed(status, u)) => t <= u
<1>0. Progress /\ mission \in Missions
  BY EntryProgress DEF IInv, TypeOK
<1>1. dead \in SUBSET Tasks
  BY DEF Known
<1>2. ASSUME NEW s \in all
      PROVE  killer(s) \in dead /\ s \in PlannedOf(status, Doomed(status, killer(s)))
  <2>1. \E t \in dead : s \in F[t]
    BY <1>1
  <2>2. \E t \in dead : s \in F[t] /\ \A u \in dead : s \in F[u] => t <= u
    <3> HIDE DEF dead, F
    <3> QED BY <1>1, <2>1, FirstKiller
  <2>3. \E t \in dead : s \in PlannedOf(status, Doomed(status, t))
                        /\ \A u \in dead :
                             s \in PlannedOf(status, Doomed(status, u)) => t <= u
    BY <1>1, <2>2
  <2> QED BY <2>3
<1>3. status' = Abandon(status, all)
  BY DEF EnterPhase
<1>4. origin' = [s \in StepId |->
                   IF s \in all THEN ForwardedOrigin(killer(s)) ELSE origin[s]]
  BY DEF EnterPhase
<1> HIDE DEF all, killer
<1>5. ASSUME NEW s \in Steps, status'[s] = "Abandoned", status[s] # "Abandoned"
      PROVE  Rooted(s[1], origin[s])'
  <2>1. s \in all /\ s \in StepId /\ s[1] \in Tasks
    BY <1>3, <1>5, StepTyped DEF Abandon
  <2> DEFINE t == killer(s)
  <2>2. t \in Tasks /\ TaskStatus(status, t) \in Terminal /\ s[1] \in Doomed(status, t)
    BY <1>1, <1>2, <2>1 DEF PlannedOf, Terminal
  <2> HIDE DEF t
  <2>3. t \in Upstream(s[1])
    BY <1>0, <2>2, DoomedDownstream
  <2>4. Upstream(t) \subseteq Upstream(s[1])
    BY <2>3 DEF Upstream
  <2>5. Rooted(s[1], ForwardedOrigin(t))
    BY <2>2, <2>4, ForwardedRooted
  <2>6. origin'[s] = ForwardedOrigin(t)
    BY <1>4, <2>1 DEF t
  <2> QED BY <1>0, <2>5, <2>6, RootedWritten
<1> QED BY <1>0, <1>5, RootFromNew

\* The sweep writes what a dead task or a refused dependency forwards, or its own text.
LEMMA SweepRooted ==
  ASSUME IInv, SweepTask
  PROVE  RootCauseNamed'
<1> DEFINE t == sweepAt
           S == PlannedOf(status, {t})
<1>0. Progress /\ mission \in Missions /\ t \in Tasks
  BY SweepProgress, ConstantsAssumption DEF IInv, TypeOK, SweepTask, Tasks
<1>d. mission.deps[t] \subseteq Tasks
  BY <1>0, MissionTyped DEF MissionType
<1>1. ASSUME NEW o \in StrandedOrigins(t)
      PROVE  Rooted(t, o)
  <2>1. CASE Has(status, t, "Error") /\ o = ForwardedOrigin(t)
    <3>1. TaskStatus(status, t) \in Terminal
      BY <2>1 DEF TaskStatus, Terminal, Dead
    <3> QED BY <1>0, <2>1, <3>1, ForwardedRooted
  <2>2. CASE \E d \in mission.deps[t] :
               TaskStatus(status, d) \in Terminal /\ o = ForwardedOrigin(d)
    BY <1>0, <1>d, <2>2, ForwardedRooted, UpstreamOf
  <2>3. CASE o = NotStarted
    BY <2>3 DEF Rooted
  <2> QED BY <1>1, <2>1, <2>2, <2>3 DEF StrandedOrigins
<1>2. CASE UNCHANGED <<status, origin>>
  BY <1>0, <1>2, RootFromNew
<1>3. CASE /\ status' = Abandon(status, S)
           /\ \E o \in StrandedOrigins(t) :
                origin' = [s \in StepId |-> IF s \in S THEN o ELSE origin[s]]
  <2>1. ASSUME NEW s \in Steps, status'[s] = "Abandoned", status[s] # "Abandoned"
        PROVE  Rooted(s[1], origin[s])'
    <3>1. s \in S /\ s \in StepId /\ s[1] = t
      BY <1>3, <2>1, StepTyped DEF Abandon, PlannedOf
    <3>2. origin'[s] \in StrandedOrigins(t)
      BY <1>3, <3>1
    <3> QED BY <1>0, <1>1, <3>1, <3>2, RootedWritten
  <2> QED BY <1>0, <2>1, RootFromNew
<1> QED BY <1>2, <1>3 DEF SweepTask

\* Every action roots the texts it writes.
LEMMA RootStep ==
  ASSUME IInv, [Next]_vars
  PROVE  RootCauseNamed'
<1>0. Progress /\ mission \in Missions
  BY ProgressStep DEF IInv, TypeOK
<1>1. CASE EnterPhase
  BY <1>1, EntryRooted
<1>2. CASE SweepTask
  BY <1>2, SweepRooted
<1>3. CASE Reconcile
  <2>1. ASSUME NEW s \in Steps, status'[s] = "Abandoned", status[s] # "Abandoned"
        PROVE  Rooted(s[1], origin[s])'
    <3>1. s \in StepId /\ s[1] \in Tasks /\ s[1] \in Upstream(s[1])
      BY StepTyped, UpstreamOf
    <3>2. status[s] = "Running" /\ Unfinished = "Abandoned"
      BY <1>3, <2>1, <3>1 DEF Reconcile
    <3>3. origin'[s] = s /\ s \in stopped'
      BY <1>3, <3>1, <3>2 DEF Reconcile, Unfinished
    <3> QED BY <1>0, <3>1, <3>3 DEF Rooted, Progress, Upstream, Steps
  <2> QED BY <1>0, <2>1, RootFromNew
<1>4. CASE StartWave
  <2>1. \A s \in Steps : status'[s] = "Abandoned" => status[s] = "Abandoned"
    BY <1>4, StepTyped DEF StartWave
  <2> QED BY <1>0, <2>1, RootFromNew
<1>5. ASSUME NEW s \in Steps, NEW ok \in BOOLEAN,
             DeclineGate(s) \/ RefuseResume(s) \/ ReconcileLost(s) \/ StepTerminal(s, ok)
      PROVE  RootCauseNamed'
  <2>1. PICK b \in BOOLEAN : EndStep(s, b) /\ UNCHANGED mission
    BY <1>5, EndsLive
  <2> QED BY <1>0, <2>1, EndStepRooted
<1>6. CASE UNCHANGED status
  BY <1>0, <1>6, RootFromNew
<1>7. CASE SkipPhase \/ StartPass \/ PassReturns \/ NextPhase \/ EndRun \/ Stops
  BY <1>6, <1>7 DEF SkipPhase, StartPass, PassReturns, NextPhase, EndRun, Stops, Signal,
     BoundReached, BoundStored, BoundMarked
<1>8. CASE Pick \/ EndPass \/ EmptyPass \/ WaveReturns \/ EndWave
  BY <1>6, <1>8 DEF Pick, EndPass, EmptyPass, WaveReturns, EndWave
<1>9. ASSUME NEW s \in Steps, ApproveGate(s)
      PROVE  UNCHANGED status
  BY <1>9 DEF ApproveGate
<1> QED BY <1>1, <1>2, <1>3, <1>4, <1>5, <1>6, <1>7, <1>8, <1>9
       DEF Next, Launcher, Scheduler, Terminated, vars

-----------------------------------------------------------------------------
(* Stops. *)

\* Every action keeps what is known of stops.
LEMMA StopStep ==
  ASSUME IInv, [Next]_vars
  PROVE  StopsAfterSignal' /\ StopEndsRun'
<1> USE DEF IInv, StopsAfterSignal, StopEndsRun
<1>1. CASE EnterPhase \/ SkipPhase \/ StartPass \/ NextPhase
  BY <1>1 DEF EnterPhase, SkipPhase, StartPass, NextPhase, signalVars
<1>2. CASE PassReturns \/ EndRun
  BY <1>2 DEF PassReturns, EndRun, FailIfInterrupted, OperatorStop, signalVars
<1>3. CASE SweepTask \/ Reconcile
  BY <1>3 DEF SweepTask, Reconcile, OperatorStop, signalVars
<1>4. CASE Pick \/ EndPass \/ EmptyPass \/ StartWave \/ WaveReturns \/ EndWave
  BY <1>4 DEF Pick, EndPass, EmptyPass, StartWave, WaveReturns, EndWave, signalVars
<1>5. ASSUME NEW s \in Steps, ApproveGate(s)
      PROVE  StopsAfterSignal' /\ StopEndsRun'
  BY <1>5 DEF ApproveGate, signalVars
<1>6. ASSUME NEW s \in Steps, NEW ok \in BOOLEAN,
             DeclineGate(s) \/ RefuseResume(s) \/ ReconcileLost(s) \/ StepTerminal(s, ok)
      PROVE  StopsAfterSignal' /\ StopEndsRun'
  <2>1. UNCHANGED <<pc, interrupted, boundExceeded>> /\ pc # "done"
    BY <1>6 DEF DeclineGate, RefuseResume, ReconcileLost, StepTerminal, signalVars
  <2>2. stopped' = stopped \/ interrupted
    BY <1>6 DEF DeclineGate, RefuseResume, ReconcileLost, StepTerminal, EndStep,
       Unfinished, OperatorStop
  <2> QED BY <2>1, <2>2
<1>7. CASE Stops
  BY <1>7 DEF Stops, Signal, BoundReached, BoundStored, BoundMarked, Finished
<1>8. CASE UNCHANGED vars
  BY <1>8 DEF vars, signalVars
<1> QED BY <1>1, <1>2, <1>3, <1>4, <1>5, <1>6, <1>7, <1>8
       DEF Next, Launcher, Scheduler, Terminated

-----------------------------------------------------------------------------
(* The theorems. *)

\* The invariant holds at the start.
LEMMA InitInv ==
  ASSUME Init
  PROVE  IInv
<1>1. TypeOK
  <2>1. phase \in 1 .. NPhases + 1 /\ sweepAt \in 1 .. NTasks + 1
    BY ConstantsAssumption DEF Init
  <2>2. status \in [StepId -> {"Planned", "Running"} \cup Terminal]
    BY DEF Init
  <2>3. origin \in [StepId -> StepId \cup {NoOrigin, NotStarted}]
    BY DEF Init
  <2> QED BY <2>1, <2>2, <2>3 DEF Init, TypeOK
<1>2. \A s \in Steps : status[s] = "Planned" /\ s \notin stopped
  BY StepTyped DEF Init
<1>3. \A s \in Steps : ~Reached(s)
  BY <1>2 DEF Reached
<1>4. PassShape /\ StopsAfterSignal /\ StopEndsRun /\ ApprovedStaysReady
  BY ConstantsAssumption DEF Init, PassShape, StopsAfterSignal, StopEndsRun,
     ApprovedStaysReady
<1>5. RunsOnSettledInputs /\ StepsInOrder /\ RootCauseNamed /\ RunningIsInFlight
  BY <1>2, <1>3 DEF Init, RunsOnSettledInputs, StepsInOrder, RootCauseNamed,
     RunningIsInFlight
<1> QED BY <1>1, <1>4, <1>5 DEF IInv

\* Every step keeps the invariant.
LEMMA NextInv ==
  ASSUME IInv, [Next]_vars
  PROVE  IInv'
<1>1. TypeOK' /\ PassShape' /\ RunningIsInFlight' /\ ApprovedStaysReady'
  BY TypeStep, PassShapeStep, RunningStep, ApprovedStep DEF IInv
<1>2. /\ Progress /\ mission \in Missions
      /\ status \in StatusType /\ status' \in StatusType
  BY <1>1, ProgressStep DEF IInv, TypeOK, StatusType
<1>3. RunsOnSettledInputs' /\ StepsInOrder'
  BY <1>2, SettledStep, OrderStep DEF IInv
<1>4. RootCauseNamed' /\ StopsAfterSignal' /\ StopEndsRun'
  BY RootStep, StopStep
<1> QED BY <1>1, <1>3, <1>4 DEF IInv

\* For every set of missions the inductive invariant holds in every reachable state.
THEOREM Invariance == Spec => []IInv
<1>1. Init => IInv
  BY InitInv
<1>2. IInv /\ [Next]_vars => IInv'
  BY NextInv
<1> QED BY <1>1, <1>2, PTL DEF Spec

\* Every variable keeps its type.
THEOREM TypeCorrect == Spec => []TypeOK
<1>1. IInv => TypeOK
  BY DEF IInv
<1> QED BY <1>1, Invariance, PTL

\* A task only ever runs on settled, accepted inputs, and they stay so.
THEOREM SettledInputs == Spec => []RunsOnSettledInputs
<1>1. IInv => RunsOnSettledInputs
  BY DEF IInv
<1> QED BY <1>1, Invariance, PTL

\* The steps of a task run in order.
THEOREM TaskOrder == Spec => []StepsInOrder
<1>1. IInv => StepsInOrder
  BY DEF IInv
<1> QED BY <1>1, Invariance, PTL

\* What a pass approved is still ready when the wave starts.
THEOREM ApprovedReady == Spec => []ApprovedStaysReady
<1>1. IInv => ApprovedStaysReady
  BY DEF IInv
<1> QED BY <1>1, Invariance, PTL

\* The steps recorded Running are the jobs in flight.
THEOREM NoGhostRunning == Spec => []RunningIsInFlight
<1>1. IInv => RunningIsInFlight
  BY DEF IInv
<1> QED BY <1>1, Invariance, PTL

\* An abandoned step names a cause upstream that really ended.
THEOREM RootCause == Spec => []RootCauseNamed
<1>1. IInv => RootCauseNamed
  BY DEF IInv
<1> QED BY <1>1, Invariance, PTL

\* An operator's stop that ended a step is never a finished run, bound apart.
THEOREM StopFails == Spec => []StopEndsRun
<1>1. IInv => StopEndsRun
  BY DEF IInv
<1> QED BY <1>1, Invariance, PTL

\* An ended step keeps its status and its output.
THEOREM EndedStays == Spec => EndedIsFinal
<1> DEFINE Final == \A s \in Steps : status[s] \in Terminal =>
                      status'[s] = status[s] /\ origin'[s] = origin[s]
<1>1. IInv /\ [Next]_vars => [Final]_vars
  BY ProgressStep DEF Progress
<1> QED BY <1>1, Invariance, PTL DEF Spec, EndedIsFinal
=============================================================================
