------------------------------ MODULE StepGraph ------------------------------
(***************************************************************************)
(* The mission's step graph: crates/darkmux-crew/src/scheduler.rs          *)
(* (run_step_graph and the operators it is built from) driven phase by     *)
(* phase by the loop of src/mission_launch.rs.                             *)
(*                                                                         *)
(* Task ids are 1..NTasks, so the order of the naturals is the BTreeMap    *)
(* order in which the code visits tasks.  A step is a pair <<task, i>>.    *)
(* `deps' is the union of depends_on and reads: every place of the code    *)
(* chains the two.                                                         *)
(***************************************************************************)
EXTENDS Integers, FiniteSets

CONSTANTS
  NTasks,     \* number of tasks of a mission
  MaxSteps,   \* most steps a task has
  NPhases,    \* number of phases
  Missions    \* the interpreted mission configs the launcher may be given

Tasks  == 1 .. NTasks
Phases == 1 .. NPhases
StepId == Tasks \X (1 .. MaxSteps)
Kinds  == {"ordinary", "recordOnly", "unregistered"}
Gates  == {"none", "operator", "unknown"}

MissionType ==
  [deps  : [Tasks -> SUBSET Tasks],
   runOn : [Tasks -> SUBSET {"complete", "error"}],
   phase : [Tasks -> Phases],
   size  : [Tasks -> 1 .. MaxSteps],
   kind  : [StepId -> Kinds],
   gate  : [StepId -> Gates],
   unmet : SUBSET Phases]   \* phases whose map lacks an artifact that a kind requires

ASSUME ConstantsAssumption ==
  /\ NTasks \in Nat \ {0} /\ MaxSteps \in Nat \ {0} /\ NPhases \in Nat \ {0}
  /\ Missions \subseteq MissionType

VARIABLES
  mission,        \* the interpreted config; fixed for the run
  status,         \* NodeStatus of every step
  origin,         \* the step whose own text an ended step's `output' carries
  stopped,        \* steps whose stop_reason is set: ended by the operator's stop
  phase,          \* the phase the launcher's loop is at
  pc,             \* where the launcher and scheduler threads are
  deferred,       \* gate_deferred of the current run_step_graph call
  pending,        \* gated ready steps still to be asked this pass
  passed,         \* ready steps approved so far this pass
  inFlight,       \* steps of the wave whose terminal is not applied yet
  sweepAt,        \* next task the phase-exit sweep visits
  interrupted,    \* interrupt::INTERRUPTED
  boundExceeded,  \* interrupt::BOUND_EXCEEDED
  watchdog        \* the wall-clock watchdog thread inside mark_bound_exceeded

signalVars == <<interrupted, boundExceeded, watchdog>>
passVars   == <<deferred, pending, passed, inFlight>>
vars == <<mission, status, origin, stopped, phase, pc, passVars, sweepAt, signalVars>>

-----------------------------------------------------------------------------
(* Reading the graph. *)

Steps == {s \in StepId : s[2] <= mission.size[s[1]]}

StepsOf(t) == {s \in Steps : s[1] = t}

\* tasks_by_id: the cumulative map holds the phases entered so far.
Known == {t \in Tasks : mission.phase[t] <= phase}

Has(st, t, x) == \E s \in StepsOf(t) : st[s] = x

\* task_status
TaskStatus(st, t) ==
  IF Has(st, t, "Error") THEN "Error"
  ELSE IF Has(st, t, "Abandoned") THEN "Abandoned"
  ELSE IF \A s \in StepsOf(t) : st[s] = "Complete" THEN "Complete"
  ELSE IF Has(st, t, "Running") THEN "Running"
  ELSE "Planned"

Dead == {"Error", "Abandoned"}
Terminal == {"Complete"} \cup Dead

\* dependency_satisfies_run_on
Accepts(t, depStatus) ==
  \/ depStatus = "Complete" /\ "complete" \in mission.runOn[t]
  \/ depStatus \in Dead     /\ "error" \in mission.runOn[t]

DepsAccepted(st, t) ==
  \A d \in mission.deps[t] : d \in Known /\ Accepts(t, TaskStatus(st, d))

\* Mutant: one settled dependency is enough.
MutIsReadyAnyDep(s) ==
  /\ s[1] \in Known /\ status[s] = "Planned"
  /\ IF s[2] = 1
     THEN mission.deps[s[1]] # {} =>
            \E d \in mission.deps[s[1]] : d \in Known /\ Accepts(s[1], TaskStatus(status, d))
     ELSE status[<<s[1], s[2] - 1>>] = "Complete"

\* Mutant: a later step only waits for the end of the one before it.
MutIsReadyAfterEnd(s) ==
  /\ s[1] \in Known /\ status[s] = "Planned"
  /\ IF s[2] = 1 THEN DepsAccepted(status, s[1])
                 ELSE status[<<s[1], s[2] - 1>>] \in Terminal

\* step_is_ready
IsReady(s) ==
  /\ s[1] \in Known
  /\ status[s] = "Planned"
  /\ IF s[2] = 1 THEN DepsAccepted(status, s[1])
                 ELSE status[<<s[1], s[2] - 1>>] = "Complete"

\* next_wave_ready_ids
NextWaveReady ==
  {s \in Steps : IsReady(s) /\ (interrupted => mission.kind[s] = "recordOnly")}

\* detect_cycles: some set of known tasks in which each waits on another.
HasCycle ==
  \E S \in (SUBSET Known) \ {{}} : \A t \in S : mission.deps[t] \cap S # {}

-----------------------------------------------------------------------------
(* Where the text of an ended step comes from. *)

NoOrigin   == <<0, 0>>
NotStarted == <<0, 1>>   \* "not started: the phase's scheduler pass ended ..."

FirstWith(t, x) ==
  CHOOSE s \in StepsOf(t) :
    status[s] = x /\ \A r \in StepsOf(t) : status[r] = x => s[2] <= r[2]

\* Mutant: an abandoned dependency is named itself, not the cause it carries.
MutForwardedOriginLink(t) ==
  CASE TaskStatus(status, t) = "Error"     -> FirstWith(t, "Error")
    [] TaskStatus(status, t) = "Abandoned" -> FirstWith(t, "Abandoned")
    [] OTHER                               -> <<t, mission.size[t]>>

\* terminal_forward_reason over terminal_source_step
ForwardedOrigin(t) ==
  CASE TaskStatus(status, t) = "Error"     -> FirstWith(t, "Error")
    [] TaskStatus(status, t) = "Abandoned" -> origin[FirstWith(t, "Abandoned")]
    [] OTHER                               -> <<t, mission.size[t]>>

-----------------------------------------------------------------------------
(* The cascade. *)

\* Mutant: the walk does not spare a task that accepts errors.
MutAbandonableDeaf(st, d) == TaskStatus(st, d) = "Planned"

\* A dependent the walk abandons: untouched so far, and deaf to errors.
Abandonable(st, d) == TaskStatus(st, d) = "Planned" /\ "error" \notin mission.runOn[d]

\* Mutant: an error abandons whatever is still Planned.
MutDoomedEverything(st, from) == {d \in Known : Abandonable(st, d)}

\* Mutant: the walk stops at the direct dependents.
MutDoomedDirect(st, from) ==
  {d \in Known : Abandonable(st, d) /\ from \in mission.deps[d]}

\* cascade_abandon_with_reason: the walk from task `from' reaches the least set that
\* holds every abandonable dependent of `from' and of its own members.
Doomed(st, from) ==
  LET Closed(D) == \A d \in Known :
        Abandonable(st, d) /\ mission.deps[d] \cap (D \cup {from}) # {} => d \in D
  IN  {d \in Known : \A D \in SUBSET Known : Closed(D) => d \in D}

\* Mutant: every step of the task is rolled, ended ones included.
MutPlannedOfAll(st, D) == {s \in Steps : s[1] \in D}

\* The steps an abandonment of the tasks D changes: those still Planned.
PlannedOf(st, D) == {s \in Steps : s[1] \in D /\ st[s] = "Planned"}

Abandon(st, S) == [s \in StepId |-> IF s \in S THEN "Abandoned" ELSE st[s]]

\* interrupt::stop_reason() names an operator's stop
OperatorStop == interrupted /\ ~boundExceeded

\* Step::end_unfinished
Unfinished == IF OperatorStop THEN "Abandoned" ELSE "Error"

\* apply_step_terminal
EndStep(s, ok) ==
  LET result == IF ok THEN "Complete" ELSE Unfinished
      ended  == [status EXCEPT ![s] = result]
      doomed == IF result = "Error" THEN PlannedOf(ended, Doomed(ended, s[1])) ELSE {}
  IN  /\ status' = Abandon(ended, doomed)
      /\ origin' = [r \in StepId |-> IF r = s \/ r \in doomed THEN s ELSE origin[r]]
      /\ stopped' = IF result = "Abandoned" THEN stopped \cup {s} ELSE stopped

First(S, s) == s \in S /\ \A r \in S : s[1] <= r[1]

-----------------------------------------------------------------------------
(* The launcher's loop over the phases: mission_launch.rs.                  *)

\* Mutant: one phase too many.
MutMorePhases == phase <= NPhases + 1

\* The loop over config.phases still has a phase to enter.
MorePhases == phase <= NPhases

\* Mutant: the report of an interrupted pass is taken as it is.
MutFailIfInterrupted(next) == next

\* fail_if_interrupted: an operator's stop turns a clean report into a failed run.
FailIfInterrupted(next) == IF OperatorStop THEN "abort" ELSE next

\* Merge the phase's tasks and run cascade_dead_dependents over the map.
EnterPhase ==
  LET dead      == {t \in Known : TaskStatus(status, t) \in Dead}
      doomed(t) == PlannedOf(status, Doomed(status, t))
      all       == UNION {doomed(t) : t \in dead}
      killer(s) == CHOOSE t \in dead :
                     s \in doomed(t) /\ \A u \in dead : s \in doomed(u) => t <= u
  IN  /\ pc = "phase" /\ MorePhases
      /\ pc' = "entered"
      /\ status' = Abandon(status, all)
      /\ origin' = [s \in StepId |->
                      IF s \in all THEN ForwardedOrigin(killer(s)) ELSE origin[s]]
      /\ UNCHANGED <<mission, stopped, phase, passVars, sweepAt, signalVars>>

PhaseHasWork == \E s \in Steps : mission.phase[s[1]] = phase /\ status[s] = "Planned"

SkipPhase ==
  /\ pc = "entered" /\ ~PhaseHasWork
  /\ pc' = "phase" /\ phase' = phase + 1
  /\ UNCHANGED <<mission, status, origin, stopped, passVars, sweepAt, signalVars>>

\* run_step_graph: detect_cycles or the composition check refuses the graph before any
\* wave.
StartPass ==
  /\ pc = "entered" /\ PhaseHasWork
  /\ pc' = IF HasCycle \/ phase \in mission.unmet THEN "abort" ELSE "pick"
  /\ deferred' = {}
  /\ UNCHANGED <<mission, status, origin, stopped, phase, pending, passed, inFlight,
                 sweepAt, signalVars>>

PassReturns ==
  /\ pc = "exit"
  /\ pc' = FailIfInterrupted("sweep")
  /\ sweepAt' = 1
  /\ UNCHANGED <<mission, status, origin, stopped, phase, passVars, signalVars>>

\* Mutant: "the pass ended" as the rule, whatever the task still waits for.
MutStrandedOriginsPassEnded(t) == {NotStarted}

\* Mutant: a dependency that did not complete counts as still to come.
MutStrandedOriginsComplete(t) ==
  IF Has(status, t, "Error") THEN {ForwardedOrigin(t)}
  ELSE IF \E d \in mission.deps[t] : TaskStatus(status, d) # "Complete" THEN {}
  ELSE {NotStarted}

\* stranded_reason: the origins the sweep may write, none when still reachable.
StrandedOrigins(t) ==
  LET refused == {d \in mission.deps[t] : ~Accepts(t, TaskStatus(status, d))}
  IN  IF Has(status, t, "Error") THEN {ForwardedOrigin(t)}
      ELSE IF \E d \in mission.deps[t] :
                d \notin Known \/ TaskStatus(status, d) \notin Terminal THEN {}
      ELSE IF refused # {} THEN {ForwardedOrigin(d) : d \in refused}
      ELSE {NotStarted}

\* abandon_stranded_steps, one task of the phase at a time, in id order
SweepTask ==
  LET t       == sweepAt
      planned == PlannedOf(status, {t})
  IN  /\ pc = "sweep" /\ sweepAt <= NTasks
      /\ sweepAt' = sweepAt + 1
      /\ IF mission.phase[t] = phase /\ StrandedOrigins(t) # {}
         THEN \E o \in StrandedOrigins(t) :
                /\ status' = Abandon(status, planned)
                /\ origin' = [s \in StepId |-> IF s \in planned THEN o ELSE origin[s]]
         ELSE UNCHANGED <<status, origin>>
      /\ UNCHANGED <<mission, stopped, phase, pc, passVars, signalVars>>

NextPhase ==
  /\ pc = "sweep" /\ sweepAt > NTasks
  /\ pc' = "phase" /\ phase' = phase + 1
  /\ UNCHANGED <<mission, status, origin, stopped, passVars, sweepAt, signalVars>>

\* After the last phase: the second fail_if_interrupted.
EndRun ==
  /\ pc = "phase" /\ ~MorePhases
  /\ pc' = FailIfInterrupted("done")
  /\ UNCHANGED <<mission, status, origin, stopped, phase, passVars, sweepAt,
                 signalVars>>

\* finalize_reconciled_mission: no step is left Running.
Reconcile ==
  LET running == {s \in Steps : status[s] = "Running"}
  IN  /\ pc = "abort"
      /\ pc' = "failed"
      /\ status' = [s \in StepId |-> IF s \in running THEN Unfinished ELSE status[s]]
      /\ origin' = [s \in StepId |-> IF s \in running THEN s ELSE origin[s]]
      /\ stopped' = IF OperatorStop THEN stopped \cup running ELSE stopped
      /\ UNCHANGED <<mission, phase, passVars, sweepAt, signalVars>>

-----------------------------------------------------------------------------
(* One run_step_graph call. *)

Ungated(ready) == {s \in ready : mission.gate[s] = "none"}

\* Mutant: a gated step is held in every pass.
MutHeldAlways(ready) == ready \ Ungated(ready)

\* ungated_first: beside an ungated step, a gated one is held back for one pass.
Held(ready) ==
  IF Ungated(ready) = {} THEN {} ELSE (ready \ Ungated(ready)) \ deferred

\* next_wave_ready_ids, then ungated_first
Pick ==
  LET ready == NextWaveReady
      held  == Held(ready)
  IN  /\ pc = "pick" /\ ready # {}
      /\ pc' = "gate"
      /\ deferred' = deferred \cup held
      /\ passed' = Ungated(ready)
      /\ pending' = ready \ (Ungated(ready) \cup held)
      /\ UNCHANGED <<mission, status, origin, stopped, phase, inFlight, sweepAt,
                     signalVars>>

EndPass ==
  /\ pc = "pick" /\ NextWaveReady = {}
  /\ pc' = "exit"
  /\ UNCHANGED <<mission, status, origin, stopped, phase, passVars, sweepAt,
                 signalVars>>

\* gate::resolve_gate: only an operator gate can be approved, by the handler.
ApproveGate(s) ==
  /\ pc = "gate" /\ First(pending, s) /\ mission.gate[s] = "operator"
  /\ pending' = pending \ {s}
  /\ passed' = passed \cup {s}
  /\ UNCHANGED <<mission, status, origin, stopped, phase, pc, deferred, inFlight,
                 sweepAt,
                 signalVars>>

\* Mutant: a declined step is ended and still joins the wave.
MutDeclineGateRuns(s) ==
  /\ pc = "gate" /\ First(pending, s)
  /\ pending' = pending \ {s}
  /\ passed' = passed \cup {s}
  /\ EndStep(s, FALSE)
  /\ UNCHANGED <<mission, phase, pc, deferred, inFlight, sweepAt, signalVars>>

\* GateDecision::Declined: by the operator, or an unknown gate.
DeclineGate(s) ==
  /\ pc = "gate" /\ First(pending, s)
  /\ pending' = pending \ {s}
  /\ EndStep(s, FALSE)
  /\ UNCHANGED <<mission, phase, pc, deferred, passed, inFlight, sweepAt, signalVars>>

\* Mutant: a refused step is left Planned, for the next pass to offer again.
MutRefuseResumeKeeps(s) ==
  /\ pc = "gate" /\ pending = {} /\ s \in passed
  /\ mission.kind[s] = "ordinary"
  /\ passed' = passed \ {s}
  /\ UNCHANGED <<mission, status, origin, stopped, phase, pc, deferred, pending, inFlight,
                 sweepAt, signalVars>>

\* StepKind::resume_precheck refuses an approved step.
RefuseResume(s) ==
  /\ pc = "gate" /\ pending = {} /\ s \in passed
  /\ mission.kind[s] = "ordinary"
  /\ passed' = passed \ {s}
  /\ EndStep(s, FALSE)
  /\ UNCHANGED <<mission, phase, pc, deferred, pending, inFlight, sweepAt, signalVars>>

EmptyPass ==
  /\ pc = "gate" /\ pending = {} /\ passed = {}
  /\ pc' = "pick"
  /\ UNCHANGED <<mission, status, origin, stopped, phase, passVars, sweepAt,
                 signalVars>>

\* Every approved step is flipped to Running; an unregistered kind then ends the call.
StartWave ==
  LET lost == \E s \in passed : mission.kind[s] = "unregistered"
  IN  /\ pc = "gate" /\ pending = {} /\ passed # {}
      /\ status' = [s \in StepId |-> IF s \in passed THEN "Running" ELSE status[s]]
      /\ inFlight' = IF lost THEN {} ELSE passed
      /\ passed' = {}
      /\ pc' = IF lost THEN "abort" ELSE "wave"
      /\ UNCHANGED <<mission, origin, stopped, phase, deferred, pending, sweepAt,
                     signalVars>>

\* A StepTerminal signal of a running job, applied while the wave runs.
StepTerminal(s, ok) ==
  /\ pc = "wave" /\ s \in inFlight
  /\ inFlight' = inFlight \ {s}
  /\ EndStep(s, ok)
  /\ UNCHANGED <<mission, phase, pc, deferred, pending, passed, sweepAt, signalVars>>

\* Mutant: jobs that sent no terminal are forgotten.
MutWaveReturnsForgets ==
  /\ pc = "wave"
  /\ pc' = "reconcile" /\ inFlight' = {}
  /\ UNCHANGED <<mission, status, origin, stopped, phase, deferred, pending, passed,
                 sweepAt,
                 signalVars>>

\* run_bounded returned: every remaining job panicked, was refused or not loaded.
WaveReturns ==
  /\ pc = "wave"
  /\ pc' = "reconcile"
  /\ UNCHANGED <<mission, status, origin, stopped, phase, passVars, sweepAt,
                 signalVars>>

ReconcileLost(s) ==
  /\ pc = "reconcile" /\ First(inFlight, s)
  /\ inFlight' = inFlight \ {s}
  /\ EndStep(s, FALSE)
  /\ UNCHANGED <<mission, phase, pc, deferred, pending, passed, sweepAt, signalVars>>

EndWave ==
  /\ pc = "reconcile" /\ inFlight = {}
  /\ pc' = "pick"
  /\ UNCHANGED <<mission, status, origin, stopped, phase, passVars, sweepAt,
                 signalVars>>

-----------------------------------------------------------------------------
(* The stop flags, written by a signal handler and by the watchdog thread.  *)

Finished == pc \in {"done", "failed"}

\* interrupt::deliver
Signal ==
  /\ ~Finished /\ ~interrupted
  /\ interrupted' = TRUE
  /\ UNCHANGED <<mission, status, origin, stopped, phase, pc, passVars, sweepAt,
                 boundExceeded, watchdog>>

\* interrupt::mark_bound_exceeded: a test of one flag, then two stores.
BoundReached ==
  /\ ~Finished /\ watchdog = "armed"
  /\ watchdog' = IF interrupted THEN "fired" ELSE "deciding"
  /\ UNCHANGED <<mission, status, origin, stopped, phase, pc, passVars, sweepAt,
                 interrupted, boundExceeded>>

BoundStored ==
  /\ ~Finished /\ watchdog = "deciding"
  /\ watchdog' = "stored"
  /\ boundExceeded' = TRUE
  /\ UNCHANGED <<mission, status, origin, stopped, phase, pc, passVars, sweepAt,
                 interrupted>>

BoundMarked ==
  /\ ~Finished /\ watchdog = "stored"
  /\ watchdog' = "fired"
  /\ interrupted' = TRUE
  /\ UNCHANGED <<mission, status, origin, stopped, phase, pc, passVars, sweepAt,
                 boundExceeded>>

-----------------------------------------------------------------------------
Init ==
  /\ mission \in Missions
  /\ status = [s \in StepId |-> "Planned"]
  /\ origin = [s \in StepId |-> NoOrigin]
  /\ phase = 1 /\ pc = "phase"
  /\ stopped = {}
  /\ deferred = {} /\ pending = {} /\ passed = {} /\ inFlight = {}
  /\ sweepAt = 1
  /\ interrupted = FALSE /\ boundExceeded = FALSE /\ watchdog = "armed"

Launcher ==
  \/ EnterPhase \/ SkipPhase \/ StartPass \/ PassReturns
  \/ SweepTask \/ NextPhase \/ EndRun \/ Reconcile

Scheduler ==
  \/ Pick \/ EndPass \/ EmptyPass \/ StartWave \/ WaveReturns \/ EndWave
  \/ \E s \in Steps :
       \/ ApproveGate(s) \/ DeclineGate(s) \/ RefuseResume(s) \/ ReconcileLost(s)
       \/ \E ok \in BOOLEAN : StepTerminal(s, ok)

Stops == Signal \/ BoundReached \/ BoundStored \/ BoundMarked

Terminated == Finished /\ UNCHANGED vars

Next == Launcher \/ Scheduler \/ Stops \/ Terminated

\* The launcher thread runs, jobs end (every kind has its own bound) and the gate
\* handler answers.  Nothing makes a signal or the bound arrive.
Fairness == WF_vars(Launcher) /\ WF_vars(Scheduler)

Spec == Init /\ [][Next]_vars /\ Fairness

-----------------------------------------------------------------------------
(* Properties. *)

\* Every variable has its type.
TypeOK ==
  /\ mission \in Missions
  /\ status \in [StepId -> {"Planned", "Running"} \cup Terminal]
  /\ origin \in [StepId -> StepId \cup {NoOrigin, NotStarted}]
  /\ phase \in 1 .. NPhases + 1
  /\ pc \in {"phase", "entered", "pick", "gate", "wave", "reconcile", "exit",
             "sweep", "abort", "done", "failed"}
  /\ stopped \subseteq Steps
  /\ deferred \subseteq Steps /\ pending \subseteq Steps
  /\ passed \subseteq Steps /\ inFlight \subseteq Steps
  /\ sweepAt \in 1 .. NTasks + 1
  /\ interrupted \in BOOLEAN /\ boundExceeded \in BOOLEAN
  /\ watchdog \in {"armed", "deciding", "stored", "fired"}

\* A step that ran, or was about to (a declined gate, a refused resume).
Reached(s) == status[s] \in {"Running", "Complete", "Error"} \/ s \in stopped

\* A task runs only on settled inputs: from the moment one of its steps is reached,
\* every task it depends on or reads is terminal in a way its run_on accepts, and
\* stays so whatever later cascades, sweeps and waves do (step_is_ready is asked
\* once, gather_inputs reads the outputs again for every later step).
RunsOnSettledInputs == \A s \in Steps : Reached(s) => DepsAccepted(status, s[1])

\* Steps of one task run in order: a step is reached only when all before it are
\* Complete, and nothing but the end of an earlier step abandons a later one.
StepsInOrder ==
  \A s, r \in Steps : s[1] = r[1] /\ r[2] < s[2] =>
    /\ Reached(s) => status[r] = "Complete"
    /\ status[s] = "Abandoned" => status[r] \in Terminal

\* What the scheduler decided to run at the top of a pass is still ready when the
\* wave is flipped to Running without another look: no declined gate, refused
\* resume or cascade of the same pass reaches an approved step.
ApprovedStaysReady == \A s \in pending \cup passed : IsReady(s)

\* The steps recorded Running are exactly the jobs in flight; only a call that
\* died on an unregistered kind leaves others, and its run is about to close.
RunningIsInFlight ==
  pc # "abort" => {s \in Steps : status[s] = "Running"} = inFlight

\* An ended step keeps its status and its output for ever (apply_step_terminal is
\* called from the gate, the wave and the reconcile; cascades and sweeps run over
\* the whole map).
EndedIsFinal ==
  [][\A s \in Steps : status[s] \in Terminal =>
       status'[s] = status[s] /\ origin'[s] = origin[s]]_vars

\* Every task t depends on, directly or not, and t itself.
Upstream(t) ==
  LET Closed(U) == t \in U /\ \A u \in U : mission.deps[u] \subseteq U
  IN  {u \in Tasks : \A U \in SUBSET Tasks : Closed(U) => u \in U}

\* An abandoned step names the root cause: a step upstream (or of its own task)
\* that really ended, by an error, by the operator's stop or in a status refused
\* further down; never another abandoned step in between.
RootCauseNamed ==
  \A s \in Steps : status[s] = "Abandoned" /\ origin[s] # NotStarted =>
    LET o == origin[s]
    IN  /\ o \in Steps /\ o[1] \in Upstream(s[1])
        /\ status[o] \in {"Error", "Complete"} \/ o \in stopped

\* Of a run that finished without a stop, a task is Complete when nothing failed in
\* its lineage and no task of it declines "complete", across phases and for edges
\* to later phases too.
HealthyLineageCompletes ==
  pc = "done" /\ ~interrupted =>
    \A t \in Tasks :
      \/ TaskStatus(status, t) = "Complete"
      \/ \E u \in Upstream(t) :
           "complete" \notin mission.runOn[u] \/ TaskStatus(status, u) = "Error"

\* types.rs: a task that also declares "error" becomes ready once every dependency
\* reaches any terminal status, so a run that ends by itself has reached its first
\* step.
AcceptingTaskRuns ==
  pc = "done" /\ ~interrupted =>
    \A t \in Tasks :
      /\ mission.runOn[t] = {"complete", "error"}
      /\ \A d \in mission.deps[t] : TaskStatus(status, d) \in Terminal
      => Reached(<<t, 1>>)

\* No edge leads to a later phase and each task accepts a success.
Orderly == \A t \in Tasks :
  /\ "complete" \in mission.runOn[t]
  /\ \A d \in mission.deps[t] : mission.phase[d] <= mission.phase[t]

\* A task that also declares "error" is never wedged behind a failed upstream: it
\* runs in every orderly mission.  (Without a success accepted, a task
\* may be abandoned by the sweep only, and the same sweep then abandons the tasks
\* which that has made ready.)
SurvivorRuns == Orderly => AcceptingTaskRuns

\* scheduler.rs: every unreachable step still Planned is rolled to Abandoned at the
\* exit of its phase, so a run that ends by itself leaves no step Planned.
NoStepLeftPlanned ==
  pc = "done" /\ ~interrupted => \A s \in Steps : status[s] # "Planned"

\* An operator's stop is never read as success: once it ended a step, the run ends
\* failed, unless the wall-clock bound fired as well.
StopEndsRun ==
  pc = "done" /\ stopped # {} => boundExceeded

\* What may hold anything and which phase it is, by where the two threads are.
PassShape ==
  /\ pc \notin {"phase", "abort", "done", "failed"} => phase <= NPhases
  /\ pc # "gate" => pending = {} /\ passed = {}
  /\ pc \notin {"wave", "reconcile"} => inFlight = {}
  /\ pending \cap passed = {}

\* A step that an operator's stop ended was ended after the stop.
StopsAfterSignal == stopped # {} => interrupted

\* The safety of the graph as one inductive invariant: TypeOK and PassShape place the
\* actors, and no part of the rest is preserved without the others.
IInv ==
  /\ TypeOK /\ PassShape /\ StopsAfterSignal
  /\ RunsOnSettledInputs /\ StepsInOrder /\ ApprovedStaysReady
  /\ RunningIsInFlight /\ RootCauseNamed /\ StopEndsRun

\* What no sweep visits too early: each task waits on tasks of smaller ids, in its
\* own phase or an earlier one.
Ordered == \A t \in Tasks : \A d \in mission.deps[t] :
  d < t /\ mission.phase[d] <= mission.phase[t]

\* In a mission whose ids are so ordered the sweep keeps what scheduler.rs says of
\* it: however a run ended that was not cut short, it leaves no step Planned.
OrderedLeavesNone ==
  Ordered /\ pc = "done" => \A s \in Steps : status[s] # "Planned"

-----------------------------------------------------------------------------
(* What a finished run relies on: the parts of a second inductive invariant.  *)

\* The tasks that were merged into the map, those of a graph that was checked for
\* cycles, and those whose phase has had its pass.
Entered == {t \in Tasks :
  mission.phase[t] < phase \/ (mission.phase[t] = phase /\ pc # "phase")}
Checked == {t \in Tasks :
  \/ mission.phase[t] < phase
  \/ mission.phase[t] = phase /\ pc \notin {"phase", "entered", "abort", "failed"}}
Over == {t \in Tasks :
  mission.phase[t] < phase \/ (mission.phase[t] = phase /\ pc \in {"exit", "sweep"})}
BetweenPasses == pc \in {"exit", "sweep", "phase", "entered", "done"}

DoneIsPastLast == pc = "done" => phase = NPhases + 1

\* Nothing touches a task before its phase is entered.
FutureUntouched == \A s \in Steps : s[1] \notin Entered => status[s] = "Planned"

\* No tasks that are left wait on each other in a ring.
NoRing == \A S \in (SUBSET Checked) \ {{}} :
  (\A t \in S : Has(status, t, "Planned")) => \E t \in S : mission.deps[t] \cap S = {}

\* Between passes no step is left whose inputs are all Complete: a cascade or sweep
\* ends nothing well.
Ripe(s) ==
  /\ status[s] = "Planned"
  /\ IF s[2] = 1
     THEN /\ "complete" \in mission.runOn[s[1]]
          /\ \A d \in mission.deps[s[1]] : TaskStatus(status, d) = "Complete"
     ELSE status[<<s[1], s[2] - 1>>] = "Complete"
NothingRipe == BetweenPasses => \A s \in Steps : s[1] \in Over => ~Ripe(s)

\* A task is abandoned because of an error or a task deaf to successes upstream.
Sick(u) == "complete" \notin mission.runOn[u] \/ TaskStatus(status, u) = "Error"
AbandonedForCause == \A s \in Steps : status[s] = "Abandoned" =>
  \E u \in Upstream(s[1]) : Sick(u)

\* The cascades leave no task that is deaf to errors behind a dead one.
DeafAreSpared == pc # "failed" =>
  \A t \in Entered : Abandonable(status, t) =>
    \A d \in mission.deps[t] : TaskStatus(status, d) \notin Dead

\* A task is abandoned as a whole, unless one of its steps failed.
AbandonedWhole == \A t \in Tasks :
  Has(status, t, "Abandoned") /\ Has(status, t, "Planned") => Has(status, t, "Error")

\* In an orderly mission no step is left between passes whose inputs are settled in
\* any way its task accepts, and a task that accepts all is never abandoned.
Startable(s) ==
  /\ status[s] = "Planned"
  /\ IF s[2] = 1
     THEN \A d \in mission.deps[s[1]] : Accepts(s[1], TaskStatus(status, d))
     ELSE status[<<s[1], s[2] - 1>>] = "Complete"
NothingStartable ==
  BetweenPasses => \A s \in Steps : s[1] \in Over => ~Startable(s)
AcceptingSpared == \A t \in Tasks :
  "error" \in mission.runOn[t] => status[<<t, 1>>] # "Abandoned"

\* In an ordered mission the sweep leaves nothing behind it.
SweptClean == \A s \in Steps :
  \/ mission.phase[s[1]] < phase
  \/ mission.phase[s[1]] = phase /\ pc = "sweep" /\ s[1] < sweepAt
  => status[s] # "Planned"

LineageInv ==
  /\ DoneIsPastLast /\ FutureUntouched /\ NoRing
  /\ ~interrupted =>
       /\ NothingRipe /\ AbandonedForCause /\ AbandonedWhole
       /\ Orderly => NothingStartable /\ AcceptingSpared /\ DeafAreSpared
  /\ Ordered => SweptClean

-----------------------------------------------------------------------------
(* How far a run has come.                                                   *)

Unended == {s \in Steps : status[s] \notin Terminal}
Waiting == {s \in Steps : status[s] = "Planned"}

\* Where the threads are, counted down to the end; a gate with nothing left to ask or
\* to run comes before the next pick, one with something after it.
Place ==
  CASE pc = "phase" -> 10 [] pc = "entered" -> 9 [] pc = "wave" -> 8
    [] pc = "reconcile" -> 7
    [] pc = "gate" /\ pending \cup passed = {} -> 6
    [] pc = "pick" -> 5
    [] pc = "gate" /\ pending \cup passed # {} -> 4
    [] pc = "exit" -> 3 [] pc = "sweep" -> 2 [] pc = "abort" -> 1
    [] pc \in {"done", "failed"} -> 0

\* A flag is set or the watchdog moves on; neither ever goes back.
Watch == CASE watchdog = "armed" -> 0 [] watchdog = "deciding" -> 1
           [] watchdog = "stored" -> 2 [] watchdog = "fired" -> 3
StopAdvances ==
  /\ interrupted => interrupted'
  /\ \/ Watch' > Watch
     \/ Watch' = Watch /\ ~interrupted /\ interrupted'

Below(new, old) == new \subseteq old /\ new # old

\* The measure, most significant part first: the flags, the phase, the steps that have
\* not ended, those not started, the place, the gates to ask, the tasks to sweep.
Lower ==
  \/ StopAdvances
  \/ /\ UNCHANGED signalVars
     /\ \/ phase' > phase
        \/ phase' = phase /\ Below(Unended', Unended)
        \/ UNCHANGED <<phase, Unended>> /\ Below(Waiting', Waiting)
        \/ UNCHANGED <<phase, Unended, Waiting>> /\ Place' < Place
        \/ /\ UNCHANGED <<phase, Unended, Waiting, Place>>
           /\ Below(pending', pending) \/ (pending' = pending /\ sweepAt' > sweepAt)

\* No run goes on for ever: every step lowers a measure that has finitely many values
\* below any.  A gated step held once, an empty pass, a refused resume, a lost job or a
\* skipped phase never leads back to where the run was.
Descends == [][Lower]_vars

\* Every run ends: gates held one pass, empty passes, cascades, lost jobs and stops
\* never make the loop spin or wait for ever.
RunEnds == <>Finished
=============================================================================
