# darkmux: specifications, checks and proofs

darkmux runs *missions*: documents of phases, tasks and steps that are sent to local or
remote language models. This directory holds TLA+ modules of its core logic, the TLC
configurations that check them on small instances, and TLAPS proofs of the results that
hold for every instance.

    tlc -config MCStepGraph_shapes.cfg MCStepGraph.tla     model-check one configuration
    tlc -config MCResidency_leases.cfg MCResidency.tla
    tlc -config MCHookOutbox_outbox.cfg MCHookOutbox.tla
    tlc -config MCFleetWork_seats.cfg MCFleetWork.tla
    tlapm StepGraphProofs.tla                              check the proofs of a component
    tlapm LineageProofs.tla                                and those that build on them
    tlapm DescentProofs.tla
    tlapm ResidencyProofs.tla
    tlapm HookOutboxProofs.tla
    tlapm FleetWorkProofs.tla
    tlapm LineProofs.tla

## 1. The system

| part | state it keeps | operations | hard behaviour |
|---|---|---|---|
| step graph scheduler (`crates/darkmux-crew/src/scheduler.rs`, `gate.rs`) | status, output and stop reason of every step; the deferred gates of a call | pick a ready set, ask gates, resume precheck, run a wave, apply terminals, cascade, sweep | terminals cascade over the whole map while the wave runs; jobs are lost; the ready set is flipped without a second look |
| launcher (`src/mission_launch.rs`) | current phase, the cumulative task map, growth, phase records | enter, skip, run and leave a phase; reconcile a failed run; finalize | failures cross phases only at phase entry; forward edges; interruption checks; crash between two records |
| stop flags (`crates/darkmux-types/src/interrupt.rs`, `src/launch_guard.rs`) | `INTERRUPTED`, `BOUND_EXCEEDED` | signal handlers, wall-clock watchdog | two writers race, every reader derives the cause |
| bounded dispatch and residency (`concurrent_dispatch.rs`, `crates/darkmux-gestalt`, `residency_lease.rs`) | leases (one file per process), models loaded in the host | plan waves, write a lease, ensure a wave is loaded, mark loaded, drop | processes share one host; the plan is computed from a listing that may be stale when it is executed |
| lifecycle store (`lifecycle.rs`) | mission, phase, task and step records on disk, each replaced by write and rename | lazy start and close, save, finalize | crash between two records |
| thermal governor, pace file (`thermal_governor.rs`, `governor_tick.rs`, `pace_file.rs`) | band, hysteresis, pace file | tick, escalate, release | the runtime paces itself from a file nobody may be writing any more |
| budgets (`budget.rs`, `run_pause.rs`) | spend windows, held milliseconds | admit, wait, refuse | a wait moves the wall-clock bound |
| dispatch driver (`dispatch_internal.rs`, `orphan_reaper.rs`) | one container and its bookends | start, tail; reap the containers of hosts that died | timeouts race answers |
| profiles and model ledger (`crates/darkmux-profiles`) | profile documents; a report of what resident models hold | read | none: sequential |
| hook outbox (`crates/darkmux-flow/src/hooks.rs`) | per rule an outbox file, a cursor, a drop counter, a copy and a marker of a repacking | append, drain, quarantine, advance, repack, recover | several processes share the files; kills, short writes, renames under waiting appenders |
| flow log and integrity (`crates/darkmux-flow`) | hash-chained log, presence | append, rotate, reconcile | rotation; the same locks and torn lines as the outbox |
| fleet work on the receiver (`darkmux-serve/src/fleet_listener.rs`, `darkmux-fleet/src/seats.rs`, `submission.rs`) | the seat book, the queue slots; the token, addresses, allow-list, configuration and profiles the gates read | admit, claim, wait, check again, run, answer | a thread per job; what the gates read changes during a wait; deadlines and hang-ups meet a seat that frees; notifications |
| fleet roster, routing, identity (`crates/darkmux-fleet`) | roster file | choose a target, ask the identity provider | none: sequential reads |
| serve daemon (`crates/darkmux-serve`) | views over the log, live runs | follow, reap | reader behind the writer |
| container runtime (`runtime/`) | turn loop, compaction, checkpoint | turn, compact, pause | long sequences of turns |
| everything else (doctor, lab, user interface, plugins, scripts) | reports | | none that a state model would reach |

The launcher calls `run_step_graph` once per phase with the map of the phases entered so
far; the scheduler calls `run_bounded` once per wave, on a worker thread that sends a
terminal for each job through a channel the scheduler drains; `run_bounded` loads models
through the residency planner under a lease. Signal handlers and the watchdog thread
write two flags that every one of these reads. Every one of them writes records to the flow log, whose
sinks include the hook outboxes. A job that another machine submits passes through the seat
book of this one and then becomes a dispatch like any other.

## 2. Modules

| module | models | kind |
|---|---|---|
| `StepGraph` | scheduler, launcher's phase loop, stop flags | component; its properties, two inductive invariants and a measure |
| `MCStepGraph` | sets of missions | model checking |
| `StepGraphProofs` | the first inductive invariant of `StepGraph` and what follows | proofs |
| `LineageProofs` | the second one: what a finished run has done, extends `StepGraphProofs` | proofs |
| `DescentProofs` | every step of `StepGraph` lowers a measure, extends `LineageProofs` | proofs |
| `Residency` | bounded dispatch, lease registry, residency planner, model host | component; its properties and inductive invariant |
| `MCResidency` | identifiers, processes and schedules of waves | model checking |
| `ResidencyProofs` | theorems about `Residency` | proofs |
| `OutboxLines` | the lines of an outbox file: what whole, torn and glued writes leave | data, shared by the next two |
| `LineQueue` | what an outbox promises: lines settled in order, left behind when settled, gone through again after the place was lost | abstract specification |
| `HookOutbox` | one rule's outbox, shared by several processes | component; its properties, inductive invariant and refinement mapping to `LineQueue` |
| `MCHookOutbox` | | model checking |
| `HookOutboxProofs` | theorems about `HookOutbox`, the refinement among them | proofs |
| `SeatBook` | the book of seats, claims and waiters | part of `FleetWork` |
| `SeatLine` | what the seats promise: per key one line, served from its front while there is room | abstract specification |
| `FleetWork` | submitted jobs: gates, seats, queue, second check, run, answers | component, on `SeatBook`; its properties, inductive invariant and refinement mapping to `SeatLine` |
| `MCFleetWork` | jobs, addresses and sessions; a state in which a job runs | model checking |
| `FleetWorkProofs` | theorems about `FleetWork` | proofs |
| `LineProofs` | `FleetWork` implements `SeatLine`, extends `FleetWorkProofs` | proofs |

### StepGraph

A mission is a record chosen at the start from the constant `Missions`: dependencies
(`depends_on` and `reads` together, which every reader of the code chains), `run_on`, phase and
number of steps of each task, kind and gate of each step, and the phases at which the check of
the run's artifacts refuses the map. Task ids are naturals so that their order is
the order of the `BTreeMap`. The variables are `status` and `origin` (which step's own text
a step's `output` carries), `stopped` (steps with a `stop_reason`), the launcher's `phase`
and place `pc`, the current call's `deferred`, `pending`, `passed` and `inFlight` sets, the
sweep's place, and the two flags with the watchdog's place between its test and its stores.

| action | code |
|---|---|
| `EnterPhase`, `SkipPhase`, `NextPhase`, `EndRun` | the loop of `mission_launch.rs` with `cascade_dead_dependents`, `phase_has_work`, `fail_if_interrupted` |
| `StartPass`, `Pick`, `ApproveGate`, `DeclineGate`, `RefuseResume`, `EmptyPass`, `StartWave` | `run_step_graph` up to the wave; `StartPass` is `detect_cycles` and the check that each artifact a kind requires is provided, each of which refuses the call |
| `StepTerminal`, `WaveReturns`, `ReconcileLost`, `EndWave`, `EndPass` | the wave and what is left of it |
| `PassReturns`, `SweepTask` | `abandon_stranded_steps`, one task at a time because the order matters |
| `Reconcile` | `finalize_reconciled_mission` |
| `Signal`, `BoundReached`, `BoundStored`, `BoundMarked` | `deliver`, `mark_bound_exceeded` as a test and two stores |

`Doomed` is the set the breadth-first walk of `cascade_abandon_with_reason` reaches, stated
as the least closed set; every choice that the code leaves to thread timing (which job ends
first, whether a job is lost, when a stop arrives) is an existential. `RefuseResume` may
take the approved steps in any order; the code takes them in id order.

Left out: the text of outputs, flow and timing records, `report` (a projection of the
statuses), growth of a phase (its result is part of the mission), the `Unknown` status of a
newer version, and saving to disk, which follows every status change here.

### Residency

`Guards` are the lease guards of the local tracks of several dispatches; `Pid` and `Token`
place them in processes. `Schedules` is the result of `plan_waves`: for each guard a
sequence of waves, for each wave a set of placements (identifier and context, `min_ctx`).
The variables are, for each guard, where its thread is (`pc`, `wave`, `attempt`), its entry
of `ACTIVE_LEASES` (`desired`, `loaded`) and the locals of the attempt at hand (`seen`,
`pinned`, `unloads`, `loads`); for each process its lease file (`fileModels`, `fileLoaded`)
and whether it is alive; and `host`, the context at which each identifier is resident. Two
history variables record what the properties speak of: `spared` (who was dispatching on
what when the listing was taken and still is) and `touched` (what others changed in the
host since).

| action | code |
|---|---|
| `WriteLease`, `MarkLoaded`, `DropLease` | `LeaseGuard::write`, `mark_loaded`, `Drop`: the map is changed first, then the file is written with the union of the process's entries, which may fail |
| `ListResidents`, `ReadPins`, `PlanWave` | the head of each attempt in `ensure_wave_loaded`: `list_resident`, `all_live_leased_models`, then `identifiers_i_should_lead` and `plan_acquire` |
| `Unload`, `Load`, `PlanDone` | `execute_plan`, one host call at a time, frees before loads |
| `EndWave` | the jobs of the wave are joined and `run_local_waves` goes on, or a job panicked and the track unwinds to the drop of its guard (`Unwind`) |
| `Crash` | a process is killed; readers skip its file (`process_alive`) |
| `LateLoad`, `HostDrops`, `UserLoads` | what the host does on its own or for the user |

The planner is a set of operators on the listing: `Stale` and `Reused` are
`decide_residency`, `HeldByOthers` and `Collides` the two ways `decide_reconcile` blocks,
`Unwanted` is pass 1 of the Exclusive scope. A plan is the two sets `unloads` and `loads`;
the code takes each in listing or placement order, the model in any order.

Left out: the arithmetic of bytes (no budget is given to this planner; the pool arm can only
refuse a load beside a user's copy, which is a nondeterministic refusal here), the catalog,
concurrent requests within one wave, and the removal of dead processes' files. Every
identifier stands for one model key. Reading the pins is one step, and so is reading the
leases once more for the leader election together with planning: within each, the code reads
the files one by one and the map after or before them. Either reading may miss any of the files
(`Scans`): one that cannot be read or parsed is skipped, and so is a directory that cannot be. A time to live, an unload by hand and
an unload whose client timed out are all `HostDrops`.

### HookOutbox

`Procs` are processes that have the same rule loaded; each has a persisting thread (`wpc`,
`rec`, `seen`, `age`) and a drainer (`dpc`, `line`, `next` and its counters). The files are
variables of their own: `outbox` (a sequence of the entries of `OutboxLines`), `cursor`,
`dropped`, the repacked `copy` and the `marker`. An flock belongs to the file that was
opened, not to the path: `age` counts the renames since a writer opened the outbox, and a
writer whose `age` is not 0 holds, or waits for, the lock of a file that is gone. The
history variables are `log` (the outbox with what was repacked away), `base`, `settled`,
`accepted`, `counted` and `strayed` (what was written under a lock on such a file).

| action | code (`hooks.rs`) |
|---|---|
| `Persist`, `Measure` | `persist` and `rule_over_cap`: the cursor and the length are two reads, without a lock |
| `Wait`, `AppendLine`, `AppendFails` | `lock_exclusive`, `append_outbox_line`; a write may stop before the newline or inside the record, or fail before its first byte |
| `CountRead`, `CountWrite`, `CountFails` | `increment_dropped_appends`: a read-modify-write under the outbox's lock, which may fail before, under or after the lock |
| `Begin` | `drain_rule` takes the drain lock; a stalled rule probes its cursor first |
| `Recover`, `Unmark` | `recover_compaction` |
| `Check`, `Repack`, `Mark`, `Rename`, `Reset`, `CompactionFails`, `RepackFails` | `maybe_compact_outbox`, `compact_outbox`, one file operation at a time |
| `Look`, `LookFails`, `QuarantineInvalid`, `Body`, `TransformFails`, `Busy`, `OrphanEnds` | `next_pending_line`, and the transform with its backlog of threads left running |
| `Answered`, `ClientError`, `Unanswered` | `on_success` and `on_redirect`, `on_client_error`, `on_retryable` |
| `AdvanceCursor`, `AdvanceFails` | `advance_cursor` |
| `Kill`, `KillMidWrite`, `Start` | a process dies anywhere, in the middle of a line too; `HookSink::new` ends a torn tail |

Each of the four places that read the cursor takes one it cannot read for 0 (`Reads`, a fault
like the others): the cap then refuses more than it should, a repacking is put off, a probe of a
stalled rule writes the 0 back, a drain starts over.

Left out: power loss (the outbox is deliberately not fsynced), time and backoff (a cycle that
has to wait is one that comes later), a copy that is half written (there is no marker
then, so nothing reads it, and the next repacking writes it anew), the status files and the
counter of lines the receiver rejected, headers, the hand drain of a stray file, and a counter of drops that is taken for 0 because it cannot be
read, after which `DropsCounted` is not to be expected. Delivery is at least once: a line whose
cursor was not advanced, or that is behind a cursor that was misread, is delivered again, which
the model has and no property rules out.

### FleetWork

Jobs are numbered in the order they are sent; `AddressOf`, `ProfileOf` and `SessionOf` say
where each comes from, what it runs on and which session it names, and a job sent again has
the session of the first. The book of `SeatBook` is `held` (claims on each key), `waiting`
and `nextTicket`; the deque of the code is a set ordered by tickets, because a waiter draws
its ticket and is pushed under one lock. For each job there is where its thread is (`pc`),
what it was admitted with (`fingerprint`, `node`, `admitted`, `seat`), its `ticket`, whether
it waited (`queued`), whether its sender hung up (`gone`) or its deadline passed (`late`), and
how it ended (`outcome`). What the gates read is `token`, `owner` of each address, `trusted`,
`configOK` and `resolve`. History: `told` (what the sender heard last), `ran`, `arrival` and
`since` (the gates that were open to a job at some moment since it was sent or, once it
waited, since it has its seat).

| action | code |
|---|---|
| `Send`, `CheckToken`, `Identify`, `Authorize`, `Preflight`, `Scope` | the gate and `submit_handler`, `authenticate`, `authorize`, `check_scope`; the same actions for a job that waited are `Worker::recheck`; a request may present any token |
| `TryClaim`, `TakeSlot`, `RefuseForWant` | `start_or_refuse`, `try_claim`, the slots per peer, the refusals for want of a place or of time |
| `Spawn`, `SpawnFails` | the worker's thread is started, or what it was given is dropped |
| `Enqueue`, `TakeTurn`, `Heartbeat` | `claim_waiting`: the first turn of its loop, the turn after a notification, and after a `wait_timeout` |
| `EndWait` | the seat, the deadline or the hang-up; the queue slot is given back |
| `Start`, `Finish` | `execute_job`, after a last look at the sender |
| `FreeSeat`, `Notify` | `SeatGuard::drop` and `notify_all`, and the reply |
| `HangUp`, `Expire`, `WorldChanges` | the connection, the clock, and what the gates read |

Abstracted: the boundary of the roles, the images and the scope of the working directory are
part of a profile resolving to `NoSeat`, and of the preflight; the cap on requests of a node
and a timeout that leaves no time to wait are `RefuseForWant`; results and errors of the
dispatch are both "completed"; an endpoint with unbounded calls is one of a large width; the
peer that names an allow-list entry is the node. Left out: checks that only look (`peek`, they
change no state), the card, the refusal log, the sender's pins and what it does with an answer.
Two windows of the code are in the model and no property rules them out: a job that was told
`queued` can be overtaken by a newcomer until it is pushed into the book (`seats.rs:239`), and
what the gates read can change between the second check and the run.

## 3. Runs

| run | instance | what it shows |
|---|---|---|
| `shapes` | 3 tasks of one step, 2 phases, all 64 dependency graphs without self-edges, every phase assignment, run_on `complete` or both, the last phase's artifacts provided or not | settled inputs, running = in flight, root causes, finality, a healthy lineage completes, a stop ends the run, a task that accepts errors runs when no edge leads to a later phase and every task accepts successes, an ordered mission is left with nothing Planned, the second inductive invariant |
| `gates` | 2 tasks of up to 2 steps; a gate of either kind on one step or on the same step of both tasks; one step of the first task of another kind, or steps that all only record | order of steps, approved stays ready, the inductive invariant, every step lowers the measure, every run ends |
| `forward_edge` | as `shapes` | finding 1 |
| `left_planned` | 3 tasks, 1 phase, run_on `{error}` too | finding 2 |
| `leases` | two guards of different processes, models a and b at contexts 1 and 2, two waves against one; three guards in two processes that want one model; 2 attempts, any host failure | the inductive invariant, a busy model is spared, what is dispatched is loaded, nothing owned is left behind, one guard leads |
| `batches` | 2 guards of two processes, waves under the user's name for a model and under darkmux's, failing writes and reads of leases, panicked jobs, crashes, 2 attempts | nothing of the user's is unloaded, no guard goes in circles, every batch ends |
| `busy_evicted` | two guards of different processes with one wave each | finding 3 |
| `mark_fails` | as `busy_evicted` with failing lease writes | finding 4 |
| `utility` | the waves of `batches` in one process and with one attempt, no failing lease files and no crashes, the darkmux copy being the utility binding | finding 5 |
| `outbox` | 2 processes, 3 records, 4 records and faults together (a kill, a short or failed write, a cursor or file that cannot be read, a lost answer), cap and repacking threshold of one line, two refusals give a line up, two cursor failures or one busy cycle stall the rule, one thread of a transform may be left running | the inductive invariant, nothing accepted is lost, lines are settled in order, drops are counted, the outbox implements `LineQueue`, what is pending is settled |
| `appender_strays` | 2 processes, 2 records, no cap, no transform | finding 6 |
| `seats` | 3 jobs, the second a repetition of the first, the third of another machine; a local model or an endpoint of width 1 or 2, one place in the queue per peer, both policies, one change, hang-up or deadline; starts when the first job runs | the inductive invariant, seats are owned and never oversubscribed, first come first served, no wake-up is lost, nothing runs past a gate, senders are told the truth, the queue is bounded, one line per key (`SeatLine`), no job goes in circles, every job ends |

Three tasks are the smallest graph with a chain, a fan-in and a task that only sees a
failure through another; two phases give a phase boundary, a forward edge and a cycle across
the boundary; two steps per task give a first and a later step. The proofs do not depend on
these bounds; `RunEnds` is checked at them only, and so are `BatchEnds` of `Residency`,
`PendingIsSettled` of `HookOutbox` and `EveryJobEnds` of `FleetWork`. Only `seats` turns deadlock checking off: when all jobs have ended and no change is
left, nothing is left to do. A finished mission stutters in `Terminated`.

For `Residency`: two contexts make a resident sufficient or too small, two models a plan that
keeps one and replaces the other, two waves a second plan over what the first one left.
Three guards are needed for one to lead over another while a third already uses the model.
Two attempts (the code has three) give a first, and a last one that ran
into what the first left. An initial host is any host, so what earlier batches and the user
left is covered.

For `HookOutbox`: two processes are enough for each race between an appender and a drainer,
two counters and two drainers, since the locks let no more than one of them through. Three
records with a threshold of one line give a repacking that carries a line over, one that
leaves nothing, and a line that is appended in the middle; with a cap of one line the third
append is dropped. Records and faults are bounded together at four, which allows, for example,
a torn line, the record that is glued to it and a kill of each process. The bounds on refusals and
stalls are the smallest that have a "not yet". For `FleetWork`: one job that holds a seat, one
with the same session and one of another machine give a newcomer who meets a waiter, two
waiters on one key, a guard next to another of the same session, and a width that changes
under a holder. A single change reaches each gate in each phase of a wait. The run starts when the first job
runs because what comes before is the same for each job; from the empty book the invariants hold
too (2.9 million states).

Fairness of `StepGraph` is weak fairness of the launcher and of the scheduler as a whole: they are one
thread that runs whenever it can, every kind of step has a time bound of its own, and the
gate handler answers (without one, `refusal_handler` declines at once). No fairness is
assumed of signals or of the bound. Fairness of `Residency` is weak fairness of each guard's
thread: the host's calls have deadlines, a retry sleeps for a fixed time and the jobs of a
wave have time limits of their own. None is assumed of the host, the user or crashes. Fairness
of `HookOutbox`: each drainer polls for ever (`drainer_loop`), a counter that was read is written
back, and a killed process is started again; faults are bounded, which says that a receiver
that is asked again and again answers at last. Nothing makes a process write a record or makes a transform
that was left running end. Fairness of `FleetWork`: each job's thread goes on and its dispatch
ends. Heartbeats are not fair, so that a waiter is served because it was notified and not
because it woke up by itself.

### Findings

1. `forward_edge`: the launcher skips `run_step_graph` when the phase it enters has no
   Planned step. If the entry cascade has just abandoned that phase's only task, a task of an
   earlier phase that waited for it and accepts errors is ready but never runs, and stays
   Planned, which the documentation of `run_on` rules out (`types.rs:954-960`).
2. `left_planned`: `abandon_stranded_steps` judges each task once, in id order. A task that
   waits on one with a larger id, abandoned later by the same sweep, stays Planned, although
   every unreachable step is to be rolled (`scheduler.rs:1662`). The same order has a second effect: a
   task that only accepts errors is abandoned by the sweep, which makes a task behind it that
   accepts both ready, and the sweep then takes that one for stranded as well. `SurvivorRuns`
   therefore speaks of missions in which every task accepts successes. What does hold is
   `OrderedLeavesNone`: when every task waits on smaller ids of its own or an earlier phase,
   no run that is not cut short leaves a step Planned.
3. `busy_evicted`: a lease protects a model only from plans whose pins are read after it was
   written. Between those reads and the unload another process can write its lease, reuse
   the resident and dispatch on it; the unload is executed all the same, although plans are
   documented to be verified again right before (`plan.rs:67-69`, `residency_lease.rs:10-13`).
   What does hold is `FreshPlanSparesBusy`: a model that was in use when the listing was
   taken, and still is, is never unloaded, as long as lease files can be written and read.
4. `mark_fails`: that weaker promise needs the write of `mark_loaded` to reach the file. When
   it fails, which is ignored as harmless (`concurrent_dispatch.rs:1030-1034`), a guard with a
   smaller pid leads over the stale entry and unloads the busy model.
5. `utility`: a placement of the utility's model under an alias replaces the utility
   binding's copy and does not load it again, which no arm is to do (`planner.rs:13-18`).
6. `appender_strays`: `compact_outbox` renames its copy over the outbox while appenders wait for
   the lock of the file they opened. Such an appender writes to a file that is no longer at
   the path and returns Ok (`hooks.rs:1871`, `flock.rs:78`), although an appender is said never to
   interleave with the rewrite (`hooks.rs:1774-1776`). What does hold is `NothingLost` and
   `DropsCounted`, which except what was written under such a lock.

## 4. Proofs

`StepGraphProofs` proves, for every number of tasks, steps and phases and every set of
missions of the declared type (`ConstantsAssumption`), that `IInv` is invariant, and from it
`TypeOK`, `RunsOnSettledInputs`, `StepsInOrder`, `ApprovedStaysReady`, `RunningIsInFlight`,
`RootCauseNamed`, `StopEndsRun` and the action property `EndedIsFinal`. No assumption on the
dependency graph is needed: cycles, self-edges and forward edges are all covered.

The argument. `Progress` says how far one step of the system may move a step's status: what
ended is untouched, what runs only ends, a step is newly reached only if it was ready, and a
step abandoned without having been ready takes its whole task with it. Every action is
progress (`ProgressStep`), given that ended steps were running or ready (`EndsLive`) and that
a cascade or a sweep meets no running step. Progress alone then keeps `RunsOnSettledInputs`
and `StepsInOrder`. The conjuncts need each other: that approved steps stay ready needs the
settled inputs of a task whose later step is ready (`ReadyIsSettled`), and that a declined
gate's cascade spares them (`ReadyIsSpared`) needs a doomed task to wait on something that had
not ended (`DoomedTask`, by exhibiting a closed set rather than by induction on the walk).
`RootCauseNamed` is carried by `Rooted`: a cascade only reaches tasks downstream of its start
(`DoomedDownstream`), so the text it copies comes from upstream of each.

`LineageProofs` proves a second invariant beside `IInv`, `LineageInv`, and from it
`HealthyLineageCompletes`, `SurvivorRuns` and `OrderedLeavesNone`, again for every set of
missions.

The argument. `LineageInv` says of a run that was not stopped that no step with completed
inputs is left between passes (`NothingRipe`) and that what was abandoned has a task upstream
that failed or refuses successes (`AbandonedForCause`), as a whole unless one of its own steps
failed (`AbandonedWhole`). So a lineage without either only holds completed tasks, and tasks
left Planned that each wait on another of them. No induction along the graph is needed to rule these
out: a phase is only run when the check at its entry found no ring in it, hence every set of
tasks that are left has a member that waits on none of the others (`NoRing`, kept by each step
since the set of what is left only shrinks), and that member is ripe (`RipeIsReady`). In an
orderly mission (no edge leads to a later phase, every task accepts successes) the same holds of
all inputs a task accepts (`NothingStartable`), and a task that accepts errors is not abandoned
(`AcceptingSpared`), because a cascade leaves none that is deaf to errors behind a dead one
(`DeafAreSpared`). TLC refutes this last conjunct outside orderly missions: a task that runs on
errors only is swept, and leaves a dependent behind it that is deaf to errors. The sweep visits
the tasks in their order, so in ordered missions it leaves nothing behind it (`SweptClean`).

`DescentProofs` proves `Descends`, the half of `RunEnds` that is about single steps. The
measure is lexicographic: the stop flags and the watchdog, the phase, the steps that have
not ended, the steps not started, the place of the threads, and the gates still to ask or the tasks
still to sweep. Each part has finitely many values, so the order has no infinite descent; that
last remark and the fairness that turns it into `RunEnds` are not part of the theorem. The
place needs care where the loop goes round: a pass that starts nothing either held a gate, and
the next asks it, or leaves the loop, because what a pick offers is never all taken away by the
gates.

`ResidencyProofs` proves, for every set of identifiers, guards and processes, every schedule
of waves and any number of attempts, that `IInv` of `Residency` is invariant, and from it
`FreshPlanSparesBusy` (assuming `~WritesFail`, without which `mark_fails` refutes it, and
`~ReadsFail`, since a lease that is not read pins nothing),
`DispatchedIsLoaded`, `NoOrphans`, `UserModelsStay` and `ExactlyOneLeads`. The last four
hold with failing writes and reads of leases, panicked jobs and killed processes
(`ExactlyOneLeads` is about guards that read every file, and its half that says somebody leads
assumes `~WritesFail` itself).

The argument. Seen from a guard, a step of the system is its own step, the death of its
process, or a step elsewhere, which leaves the guard's place, wave, entry, listing, pins and
plan alone, changes the host at an identifier only by adding it to `touched`, and adds
nothing to `spared` (`StepOrElsewhere`). Each conjunct of `IInv` is carried over these three
cases. `SparedInv` needs the leases: a guard that still dispatches has an entry that says
loaded (`LeaseInv`), the file says so too (`FileInv`), so it is among the pins read and no
leader election sets it aside (`BusyIsLeased`), and a plan that would replace a pinned
resident blocks (`PinnedIsSpared`). `PlanInv` says of a plan half executed that what is
missing from the host is still to be loaded and what is too much still to be unloaded; it
starts from `ListingInv`, that the listing is the host but for what others touched
(`FreshPlan`). That no two guards lead follows from the order of pids and tokens and from
each seeing the other's lease (`AcquirerSeen`); that one does, from a least element.

`GuardsGoForward` states `GuardsDescend`, the same half of `BatchEnds`: each step of a guard uses
up a wave, an attempt, a place or a part of its plan. `BudgetInv` is the conjunct of `IInv`
it needs: a guard that writes or holds leases has a wave left, one that lists the host an attempt.

`HookOutboxProofs` proves, for every number of processes, records and faults, every cap and
threshold, that `IInv` of `HookOutbox` is invariant, and from it `NothingLost`, `SettledInOrder`,
`DropsCounted`, the bound on the file's size (`SizeBounded`, stated for `FileBounded`) and
`ImplementsQueue`: under the mapping of `lines` to `log` and of `head` to `Behind`, every step
is a step of `LineQueue` or a stutter; a cursor that goes back is its `Rewind`.

The argument. `Windows` ties the files to the history: the outbox is the tail of `log` from
`base` on, and a copy about to be renamed is what is behind the cursor. With the marker down and
no copy, the cursor belongs to the old layout and `Behind` counts it as 0, so that the rename
moves `base` by exactly what the cursor stood for, and the reset, the removal of the marker and
the recovery change nothing (`Cycles` says what marker, copy and cursor are at each place of the
one drainer in a cycle). `Lines` says that what is behind is ended and settled and that, wherever
the cursor was put back to, all lines before a settled one are settled; `Numbers`, that no record is in two lines, without which a
settled record could turn up again. `Kept` and `Counts` are the two promises in terms of `log`
and of the counter between its read and its write, which needs `Locks`. `Bounded` counts the
writers that were allowed to append and have not. Each property of a file after an append
comes from three lemmas on `Put` and `Terminated`.

`FleetWorkProofs` proves, for every number of jobs, nodes, keys, widths and changes, that
`IInv` of `FleetWork` is invariant, and from it `SeatsAreOwned`, `WidthKept`, `ServedInOrder`,
`NoLostWakeup`, `RanWithinGates`, `ToldTruly` and `QueueBounded`; that a local model never has two
holders, whatever the nodes, profiles and changes (`LocalModelsAlone`); and `JobsGoForward`
(`GoForward`): a job only ever comes nearer to its end or sleeps, and a sleeper that is
awake again was woken by a job that came nearer, or by its own heartbeat. This is the half of
`EveryJobEnds` that says that waiters do not keep each other awake.

The argument. A step is that of one job, or a change around all of them; elsewhere nothing
of a job changes but that a sleeper may be woken (`Elsewhere`). For the book a step of a
job is one of five: it stays in the role it has, takes a seat (a newcomer's or out of the queue),
joins the queue, leaves it, or frees its seat, and each conjunct on the book is carried over
those. `Tickets` gives each claim and waiter a number of its own, in the order
of arrival, so that a claim freed by its ticket is that job's. `ServedInOrder` needs that a
newcomer's ticket is larger than every waiter's and that who is served is the first of
its key. `WidthsKept` is the strengthening of `WidthKept`: the claims that were there when a
job took its seat, itself included, are within its width; the job of the last ticket gives the
bound for all. `NoLostWakeup` is carried by telling for each step whether it wakes everybody,
leaves the key's seats and queue as they were, or puts the job itself to sleep on a seat that
is not free. The gates are in `GatesPassed`: what was open when it was looked at
stays in `since`, since a job that waited starts counting anew when it is given its seat.

`LineProofs` proves that `FleetWork` implements `SeatLine` (`LineImplemented`). In the abstract
specification each key has holders and one line; a newcomer sits down only if nobody stands in line
(`Get`) or goes to its end (`Join`), the first in line is served (`Serve`), one gives up (`GiveUp`),
a holder leaves (`Release`). The mapping takes the jobs with a claim on a key for its holders
(`HoldersOf`), those with a place in its queue for its line (`WaitersOf`), of these the ones with
a smaller ticket as standing ahead (`AheadOf`), and a job that will not touch the book again as
gone (`HasLeft`). A job that was told `queued` and has not been pushed yet stands outside the line.

The argument. The five kinds of step a job can take on the book (`BookStep`) are matched with
the actions of the line one by one (`IsSeated`, `JoinsLine`, `GivesUp`, `FreesSeat`, `StepApart`);
what remains is that a job parts with the book for good (`Partings`), that who is seated out of the
queue has nobody ahead because tickets are in the order of arrival (`SeatedFromTheFront`). `LineKept` states the part
about steps, the property `KeepsLine` of run `seats`, which starts when the first job already
holds its seat; `LineImplemented` adds the initial state, the empty book.

Only model-checked: `RunEnds`, `BatchEnds`, `PendingIsSettled` and `EveryJobEnds`, which are liveness
under fairness: that fair steps are enabled until the end, and that a measure cannot descend
for ever, are out of the prover's reach. For three of them the safety half is proved, as said above.

## 5. Not modelled, and why

- Lease files: `Residency` has a process's lease as a value. The sweep of dead processes' files
  with its restore, and the reuse of pids, are below that.
- Phase records: the JSON files of missions and phases are written in order by one launcher.
  `StepGraph` has the statuses they hold; a crash between two of them, and the growth of a phase,
  are not modelled.
- Wave packing, footprints, `plan_release`, budgets, thermal bands: sums of bytes, of spend and
  of time. Where another component depends on the result, the model leaves it open: every
  schedule of waves, a refused load, a bound that fires at any moment.
- The hash chain of the flow log and its rotation: a computation over the records behind one
  lock per file; its appends behave as those of the outbox.
- The dispatch driver, the host drivers, the container runtime: process and file I/O around one
  single-threaded loop. The models have what they can answer, late answers included.
- Client errors of one line (`hooks.rs:3393`): the count lives in a process and is not reset when
  another process settles the line. The model has it so; no property counts the refusals of a
  single line.
- What a step does inside its run, prompt and envelope texts, document interpretation,
  roster and routing, user interface, diagnostics, benchmarks, scripts and build files:
  sequential data transformations.
