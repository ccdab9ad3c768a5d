------------------------------ MODULE Residency ------------------------------
(***************************************************************************)
(* Several darkmux processes load models into the one model host of a      *)
(* machine (LMStudio).  Each local track of a dispatch holds a lease guard *)
(* and runs its waves one after the other: it writes the wave's lease,     *)
(* lists the residents, reads the other guards' leases, computes a plan    *)
(* and executes it, marks its models loaded, dispatches, and at the end    *)
(* drops the lease.  Nothing but the lease file of each process keeps one  *)
(* guard from unloading what another one is using, and everything a plan   *)
(* rests on may have changed by the time it is executed.                   *)
(*                                                                         *)
(* Code: run_local_waves, ensure_wave_loaded and execute_plan of           *)
(* darkmux-crew/src/concurrent_dispatch.rs, LeaseGuard of                  *)
(* darkmux-types/src/residency_lease.rs, plan_acquire of                   *)
(* darkmux-gestalt/src/planner.rs (scope Exclusive, intent Auto, neither   *)
(* budget nor catalog, as ensure_wave_loaded calls it) and                 *)
(* decide_residency.                                                       *)
(***************************************************************************)
EXTENDS Naturals, Sequences, FiniteSets

CONSTANTS
  Ids,          \* identifiers a model instance can be resident under
  Owned,        \* those in the darkmux: namespace; the others are the user's
  Key,          \* the model key of each identifier
  Utility,      \* the identifiers held by the standing utility binding
  Guards,       \* lease guards, one per local track
  Pid,          \* the process of each guard
  Token,        \* the token of each guard, minted in order in its process
  MaxCtx,       \* bound: context lengths are 1..MaxCtx, 0 is "not resident"
  Schedules,    \* the waves that the guards may be given
  WritesFail,   \* whether writing a lease file may fail
  ReadsFail,    \* whether reading a lease file, or their directory, may fail
  Crashes,      \* whether a process may be killed
  MaxAttempts   \* BLOCKED_BY_HOLDER_RETRY_ATTEMPTS

Ctx == 1..MaxCtx
Pids == {Pid[g] : g \in Guards}
Placements == [id : Ids, ctx : Ctx]

\* plan_waves gives each guard a sequence of waves; a wave is a set of
\* placements, in which an identifier may occur with several contexts.
ScheduleType == [Guards -> Seq(SUBSET Placements)]

ASSUME ConstantsAssumption ==
  /\ Owned \subseteq Ids
  /\ Utility \subseteq Owned
  /\ Pid \in [Guards -> Nat]
  /\ Token \in [Guards -> Nat]
  /\ \A g, h \in Guards : Pid[g] = Pid[h] /\ Token[g] = Token[h] => g = h
  /\ MaxCtx \in Nat
  /\ MaxAttempts \in Nat
  /\ Schedules \subseteq ScheduleType
  /\ WritesFail \in BOOLEAN
  /\ ReadsFail \in BOOLEAN
  /\ Crashes \in BOOLEAN

VARIABLES
  work,        \* the waves of each guard
  alive,       \* processes that have not been killed
  pc,          \* where each guard is
  wave,        \* number of each guard's current wave
  attempt,     \* attempts made at the current wave
  desired,     \* ACTIVE_LEASES: what each guard's entry desires
  loaded,      \* ACTIVE_LEASES: what each guard's entry has confirmed loaded
  fileModels,  \* lease file of each process: models (empty when absent)
  fileLoaded,  \* lease file of each process: loaded
  host,        \* context at which each identifier is resident, or 0
  late,        \* loads whose client was killed and that may still complete
  seen,        \* each guard's listing of the host
  pinned,      \* each guard's pins
  unloads,     \* what is left of the free phase of each guard's plan
  loads,       \* what is left of the load phase of each guard's plan
  spared,      \* history: <<h, i>> with h dispatching on i since the listing
  touched      \* history: what others changed in the host since the listing

leases == <<desired, loaded, fileModels, fileLoaded>>
locals == <<seen, pinned, unloads, loads>>
history == <<spared, touched>>
vars == <<work, alive, pc, wave, attempt, leases, host, late, locals, history>>

Places == {"write", "list", "pin", "plan", "run", "mark", "dispatch", "drop",
           "done", "killed"}

(***************************************************************************)
(* The wave at hand.                                                       *)
(***************************************************************************)
Wave(g) == IF wave[g] \in DOMAIN work[g] THEN work[g][wave[g]] ELSE {}

\* The identifiers of the wave, duplicates collapsed (`own_models`).
Own(g) == {p.id : p \in Wave(g)}

\* A context that satisfies every duplicate of a placement (ctx_sufficient).
Enough(g, i, c) == \A p \in Wave(g) : p.id = i => c >= p.ctx

\* Mutant: the duplicates collapse to their smallest context.
MutCollapsedSmallest(g, i) ==
  {p \in Wave(g) : p.id = i /\ \A q \in Wave(g) : q.id = i => p.ctx <= q.ctx}

\* The placement the duplicates collapse to: their largest context.
Collapsed(g, i) == {p \in Wave(g) : p.id = i /\ Enough(g, i, p.ctx)}

Dispatching(g, i) == pc[g] = "dispatch" /\ i \in Own(g)

\* What any wave of a guard places, and what any wave of another one does.
Wanted(g) == {i \in Ids : \E n \in DOMAIN work[g] : \E p \in work[g][n] : p.id = i}
WantedByOthers(g) == UNION {Wanted(h) : h \in Guards \ {g}}

(***************************************************************************)
(* Leases.                                                                 *)
(***************************************************************************)
GuardsOf(p) == {g \in Guards : Pid[g] = p}
Siblings(g) == {h \in Guards \ {g} : Pid[h] = Pid[g]}
Foreign(g) == {p \in Pids \ {Pid[g]} : alive[p]}

\* live_foreign_leases: the processes whose files a scan reads; one that it cannot read
\* or parse is skipped, and so are all when the directory is not listed.
Scans(g) == IF ReadsFail THEN SUBSET Foreign(g) ELSE {Foreign(g)}

\* Mutant: the files of other processes are not read.
MutLiveLeasedSiblings(g, read) == UNION {desired[h] : h \in Siblings(g)}

\* all_live_leased_models: other processes' files, siblings' entries.
LiveLeased(g, read) ==
  (UNION {fileModels[p] : p \in read}) \cup (UNION {desired[h] : h \in Siblings(g)})

LiveLoaded(g, read) ==
  (UNION {fileLoaded[p] : p \in read}) \cup (UNION {loaded[h] : h \in Siblings(g)})

AcquiringSiblings(g, i) == {h \in Siblings(g) : i \in desired[h] \ loaded[h]}
AcquiringForeign(read, i) == {p \in read : i \in fileModels[p] \ fileLoaded[p]}

\* Mutant: a model that another lease has loaded can be led.
MutLeadsLoaded(g, i, read) ==
  /\ i \in Own(g)
  /\ AcquiringSiblings(g, i) # {} \/ AcquiringForeign(read, i) # {}
  /\ \A h \in AcquiringSiblings(g, i) : Token[g] < Token[h]
  /\ \A p \in AcquiringForeign(read, i) : Pid[g] < p

\* Mutant: guards of one process are told apart by their pid alone.
MutLeadsPidOnly(g, i, read) ==
  /\ i \in Own(g)
  /\ i \notin LiveLoaded(g, read)
  /\ AcquiringSiblings(g, i) # {} \/ AcquiringForeign(read, i) # {}
  /\ \A p \in AcquiringForeign(read, i) : Pid[g] < p

\* identifiers_i_should_lead.  A foreign process stands for its guards with
\* token 0, so its pid alone is compared.
Leads(g, i, read) ==
  /\ i \in Own(g)
  /\ i \notin LiveLoaded(g, read)
  /\ AcquiringSiblings(g, i) # {} \/ AcquiringForeign(read, i) # {}
  /\ \A h \in AcquiringSiblings(g, i) : Token[g] < Token[h]
  /\ \A p \in AcquiringForeign(read, i) : Pid[g] < p

\* write_lease_file with the union of the process's entries.  The map is
\* changed first, and stays changed when the write fails.
Publish(p) ==
  /\ fileModels' = [fileModels EXCEPT
       ![p] = UNION {desired'[g] : g \in GuardsOf(p)}]
  /\ fileLoaded' = [fileLoaded EXCEPT
       ![p] = UNION {loaded'[g] : g \in GuardsOf(p)}]

PublishFails == WritesFail /\ UNCHANGED <<fileModels, fileLoaded>>

(***************************************************************************)
(* The planner: decide_residency and plan_acquire on the listing, with     *)
(* the pins left after leader election.  `first` gives the first owned     *)
(* copy of each key in the order the host reports.                         *)
(***************************************************************************)
Resident(g) == {i \in Ids : seen[g][i] > 0}
Copies(g, k) == {j \in Resident(g) \cap Owned : Key[j] = k}
Reused(g) == {i \in Own(g) \cap Resident(g) : Enough(g, i, seen[g][i])}

FirstCopies(g) ==
  {f \in [{Key[i] : i \in Ids} -> Ids] :
     \A k \in DOMAIN f : Copies(g, k) # {} => f[k] \in Copies(g, k)}

Claimed(g, pins) == pins \cap Resident(g) \cap (Owned \cup Own(g))

\* The resident that the load of i replaces: i itself when it is too small,
\* else an owned copy of its key that no placement of the wave addresses.
Stale(g, first, i) ==
  IF i \in Resident(g)
  THEN {i} \ Reused(g)
  ELSE ({first[Key[i]]} \cap Copies(g, Key[i])) \ Own(g)

Stales(g, first) == UNION {Stale(g, first, i) : i \in Own(g)}

\* ClaimedResidentInsufficientCtx, clearable: somebody else's pin.
HeldByOthers(g, pins, first) == Stales(g, first) \cap Claimed(g, pins) # {}

\* Two placements replace one resident: waiting cannot clear this one.
Collides(g, pins, first) ==
  \E i, j \in Own(g) : /\ i # j
                       /\ Stale(g, first, i) \cap Stale(g, first, j) # {}
                       /\ Stale(g, first, i) \cap Claimed(g, pins) = {}

\* A load beside the user's copy of the weights, which the pool arm may
\* refuse (the arithmetic of bytes is left out).
BesideUserCopy(g) ==
  \E i \in Own(g) \ Resident(g) :
    /\ Copies(g, Key[i]) = {}
    /\ \E j \in Resident(g) : Key[j] = Key[i]

\* Mutant: everything resident that the wave does not want is evicted.
MutUnwantedAnybody(g, pins) == (Resident(g) \ (Own(g) \cup Claimed(g, pins))) \ Utility

\* Mutant: the scope is additive.
MutUnwantedNone(g, pins) == {}

\* Exclusive pass 1: owned residents nobody wants.
Unwanted(g, pins) == ((Resident(g) \cap Owned) \ (Own(g) \cup Claimed(g, pins))) \ Utility

Unloads(g, pins, first) == Stales(g, first) \cup Unwanted(g, pins)

Loads(g) == Own(g) \ Reused(g)

-----------------------------------------------------------------------------
Nothing == [i \in Ids |-> 0]

Init ==
  /\ work \in Schedules
  /\ alive = [p \in Pids |-> TRUE]
  /\ pc = [g \in Guards |-> IF work[g] = <<>> THEN "done" ELSE "write"]
  /\ wave = [g \in Guards |-> 1]
  /\ attempt = [g \in Guards |-> 0]
  /\ desired = [g \in Guards |-> {}]
  /\ loaded = [g \in Guards |-> {}]
  /\ fileModels = [p \in Pids |-> {}]
  /\ fileLoaded = [p \in Pids |-> {}]
  /\ host \in [Ids -> 0..MaxCtx]
  /\ late = {}
  /\ seen = [g \in Guards |-> Nothing]
  /\ pinned = [g \in Guards |-> {}]
  /\ unloads = [g \in Guards |-> {}]
  /\ loads = [g \in Guards |-> {}]
  /\ spared = [g \in Guards |-> {}]
  /\ touched = [g \in Guards |-> {}]

\* Places between a listing and the end of the dispatch that rests on it.
Acting == {"pin", "plan", "run", "mark", "dispatch"}

\* The host changes at i, by a call of the guards in `who`.
HostBecomes(i, c, who) ==
  /\ host' = [host EXCEPT ![i] = c]
  /\ touched' = [g \in Guards |-> IF g \notin who /\ pc[g] \in Acting
                                  THEN touched[g] \cup {i} ELSE touched[g]]

Goto(g, place) == pc' = [pc EXCEPT ![g] = place]

\* The locals of an attempt go out of scope.
Forget(g) ==
  /\ seen' = [seen EXCEPT ![g] = Nothing]
  /\ pinned' = [pinned EXCEPT ![g] = {}]
  /\ unloads' = [unloads EXCEPT ![g] = {}]
  /\ loads' = [loads EXCEPT ![g] = {}]
  /\ touched' = [touched EXCEPT ![g] = {}]

\* The wave of g is over, dispatched or failed; the next one starts.
Advance(g) ==
  /\ wave' = [wave EXCEPT ![g] = @ + 1]
  /\ Goto(g, IF wave[g] < Len(work[g]) THEN "write" ELSE "drop")
  /\ attempt' = [attempt EXCEPT ![g] = 0]
  /\ Forget(g)
  /\ spared' = [k \in Guards |-> IF k = g THEN {} ELSE {x \in spared[k] : x[1] # g}]

\* Mutant: a blocked plan is retried as long as it is blocked.
MutRetryAlways(g) ==
  /\ Goto(g, "list")
  /\ Forget(g)
  /\ spared' = [spared EXCEPT ![g] = {}]
  /\ UNCHANGED <<wave, attempt>>

\* A retry sleeps and starts over with a new listing.
Retry(g) ==
  /\ attempt[g] < MaxAttempts
  /\ Goto(g, "list")
  /\ Forget(g)
  /\ spared' = [spared EXCEPT ![g] = {}]
  /\ UNCHANGED <<wave, attempt>>

\* LeaseGuard::write: a failure fails the wave, and leaves the entry.
WriteLease(g) ==
  /\ pc[g] = "write"
  /\ desired' = [desired EXCEPT ![g] = Own(g)]
  /\ loaded' = [loaded EXCEPT ![g] = @ \cap Own(g)]
  /\ UNCHANGED <<work, alive, host, late>>
  /\ \/ /\ Publish(Pid[g])
        /\ Goto(g, "list")
        /\ UNCHANGED <<wave, attempt, locals, history>>
     \/ /\ PublishFails
        /\ Advance(g)

\* Mutant: the attempts are not counted.
MutNextAttemptSame(n) == n

NextAttempt(n) == n + 1

\* list_resident at the head of an attempt; an error fails the wave.
ListResidents(g) ==
  /\ pc[g] = "list"
  /\ UNCHANGED <<work, alive, leases, host, late>>
  /\ \/ /\ attempt' = [attempt EXCEPT ![g] = NextAttempt(@)]
        /\ seen' = [seen EXCEPT ![g] = host]
        /\ spared' = [spared EXCEPT
             ![g] = {x \in (Guards \ {g}) \X Ids : Dispatching(x[1], x[2])}]
        /\ Goto(g, "pin")
        /\ UNCHANGED <<wave, pinned, unloads, loads, touched>>
     \/ Advance(g)

\* all_live_leased_models.
ReadPins(g) ==
  /\ pc[g] = "pin"
  /\ \E read \in Scans(g) : pinned' = [pinned EXCEPT ![g] = LiveLeased(g, read)]
  /\ Goto(g, "plan")
  /\ UNCHANGED <<work, alive, wave, attempt, leases, host, late, seen, unloads, loads,
                 history>>

\* The pins the planner is given: those read, less the identifiers g leads by a second
\* scan.
Pins(g, read) == {i \in pinned[g] : ~Leads(g, i, read)}

\* identifiers_i_should_lead, plan_acquire, and the Block part of
\* execute_plan: a plan that blocks changes nothing.
PlanWave(g) ==
  /\ pc[g] = "plan"
  /\ UNCHANGED <<work, alive, leases, host, late>>
  /\ \E first \in FirstCopies(g), read \in Scans(g) :
       LET pins == Pins(g, read) IN
       \/ /\ HeldByOthers(g, pins, first)
          /\ \/ Retry(g)
             \/ attempt[g] >= MaxAttempts /\ Advance(g)
       \/ /\ Collides(g, pins, first) \/ BesideUserCopy(g)
          /\ Advance(g)
       \/ /\ ~HeldByOthers(g, pins, first)
          /\ ~Collides(g, pins, first)
          /\ pinned' = [pinned EXCEPT ![g] = pins]
          /\ unloads' = [unloads EXCEPT ![g] = Unloads(g, pins, first)]
          /\ loads' = [loads EXCEPT ![g] = Loads(g)]
          /\ seen' = [seen EXCEPT ![g] = Nothing]
          /\ Goto(g, "run")
          /\ UNCHANGED <<wave, attempt, history>>

\* host.unload of the free phase.  What is no longer resident cannot be
\* unloaded (NotResident), and any call may fail; the wave then fails, with
\* what was already unloaded left so.
Unload(g, i) ==
  /\ pc[g] = "run"
  /\ i \in unloads[g]
  /\ UNCHANGED <<work, alive, leases, late>>
  /\ \/ /\ host[i] > 0
        /\ HostBecomes(i, 0, {g})
        /\ unloads' = [unloads EXCEPT ![g] = @ \ {i}]
        /\ UNCHANGED <<pc, wave, attempt, seen, pinned, loads, spared>>
     \/ /\ Advance(g)
        /\ UNCHANGED host

\* host.load of the load phase, at the largest context the wave wants.
\* InsufficientResources is retried while somebody else's pin may explain
\* it; a load that times out may still complete in the host.
Load(g, p) ==
  /\ pc[g] = "run"
  /\ unloads[g] = {}
  /\ p.id \in loads[g]
  /\ p \in Collapsed(g, p.id)
  /\ UNCHANGED <<work, alive, leases>>
  /\ \/ /\ HostBecomes(p.id, p.ctx, {g})
        /\ loads' = [loads EXCEPT ![g] = @ \ {p.id}]
        /\ UNCHANGED <<pc, wave, attempt, late, seen, pinned, unloads, spared>>
     \/ /\ pinned[g] # {}
        /\ Retry(g)
        /\ UNCHANGED <<host, late>>
     \/ /\ Advance(g)
        /\ late' \in {late, late \cup {p}}
        /\ UNCHANGED host

\* The plan is executed: PlanExecOutcome::Loaded.
PlanDone(g) ==
  /\ pc[g] = "run"
  /\ unloads[g] = {}
  /\ loads[g] = {}
  /\ Goto(g, "mark")
  /\ UNCHANGED <<work, alive, wave, attempt, leases, host, late, locals, history>>

\* LeaseGuard::mark_loaded; a failed write is reported and ignored.
MarkLoaded(g) ==
  /\ pc[g] = "mark"
  /\ loaded' = [loaded EXCEPT ![g] = @ \cup (Own(g) \cap desired[g])]
  /\ UNCHANGED desired
  /\ Publish(Pid[g]) \/ PublishFails
  /\ Goto(g, "dispatch")
  /\ UNCHANGED <<work, alive, wave, attempt, host, late, locals, history>>

\* A job panicked: once the others have returned, the track unwinds to the drop of its
\* guard, past the waves that are left.
Unwind(g) ==
  /\ Goto(g, "drop")
  /\ Forget(g)
  /\ spared' = [k \in Guards |-> IF k = g THEN {} ELSE {x \in spared[k] : x[1] # g}]
  /\ UNCHANGED <<wave, attempt>>

\* Every job of the wave has returned.
EndWave(g) ==
  /\ pc[g] = "dispatch"
  /\ Advance(g) \/ Unwind(g)
  /\ UNCHANGED <<work, alive, leases, host, late>>

\* Drop of the guard; errors are ignored.
DropLease(g) ==
  /\ pc[g] = "drop"
  /\ desired' = [desired EXCEPT ![g] = {}]
  /\ loaded' = [loaded EXCEPT ![g] = {}]
  /\ Publish(Pid[g]) \/ PublishFails
  /\ Goto(g, "done")
  /\ UNCHANGED <<work, alive, wave, attempt, host, late, locals, history>>

\* A process is killed.  Its file stays, and is not read any more
\* (process_alive); the load it was waiting for may still complete.
Crash(p) ==
  /\ Crashes
  /\ alive[p]
  /\ alive' = [alive EXCEPT ![p] = FALSE]
  /\ pc' = [g \in Guards |-> IF Pid[g] = p THEN "killed" ELSE pc[g]]
  /\ desired' = [g \in Guards |-> IF Pid[g] = p THEN {} ELSE desired[g]]
  /\ loaded' = [g \in Guards |-> IF Pid[g] = p THEN {} ELSE loaded[g]]
  /\ seen' = [g \in Guards |-> IF Pid[g] = p THEN Nothing ELSE seen[g]]
  /\ pinned' = [g \in Guards |-> IF Pid[g] = p THEN {} ELSE pinned[g]]
  /\ unloads' = [g \in Guards |-> IF Pid[g] = p THEN {} ELSE unloads[g]]
  /\ loads' = [g \in Guards |-> IF Pid[g] = p THEN {} ELSE loads[g]]
  /\ spared' = [g \in Guards |-> IF Pid[g] = p THEN {}
                                 ELSE {x \in spared[g] : Pid[x[1]] # p}]
  /\ touched' = [g \in Guards |-> IF Pid[g] = p THEN {} ELSE touched[g]]
  /\ \/ UNCHANGED late
     \/ \E g \in Guards : \E q \in Wave(g) :
          /\ Pid[g] = p /\ pc[g] = "run" /\ unloads[g] = {} /\ q.id \in loads[g]
          /\ q \in Collapsed(g, q.id)
          /\ late' = late \cup {q}
  /\ UNCHANGED <<work, wave, attempt, fileModels, fileLoaded, host>>

\* The host completes a load whose client is gone.
LateLoad(p) ==
  /\ p \in late
  /\ late' = late \ {p}
  /\ HostBecomes(p.id, p.ctx, {})
  /\ UNCHANGED <<work, alive, pc, wave, attempt, leases, locals, spared>>

\* The user unloads a model, a time to live ends, the host restarts, or it
\* completes an unload whose client timed out.
HostDrops(i) ==
  /\ host[i] > 0
  /\ HostBecomes(i, 0, {})
  /\ UNCHANGED <<work, alive, pc, wave, attempt, leases, late, locals, spared>>

\* The user loads a model outside the darkmux namespace.
UserLoads(i, c) ==
  /\ i \notin Owned
  /\ host[i] = 0
  /\ HostBecomes(i, c, {})
  /\ UNCHANGED <<work, alive, pc, wave, attempt, leases, late, locals, spared>>

\* One step of a guard's thread.
Step(g) ==
  \/ WriteLease(g) \/ ListResidents(g) \/ ReadPins(g) \/ PlanWave(g)
  \/ \E i \in Ids : Unload(g, i)
  \/ \E p \in Placements : Load(g, p)
  \/ PlanDone(g) \/ MarkLoaded(g) \/ EndWave(g) \/ DropLease(g)

\* What is not up to the guards.
Environment ==
  \/ \E p \in Pids : Crash(p)
  \/ \E p \in late : LateLoad(p)
  \/ \E i \in Ids : HostDrops(i)
  \/ \E i \in Ids, c \in Ctx : UserLoads(i, c)

Ended(g) == pc[g] \in {"done", "killed"}
Terminated == (\A g \in Guards : Ended(g)) /\ UNCHANGED vars

Next == (\E g \in Guards : Step(g)) \/ Environment \/ Terminated

\* A guard's thread runs: the host's calls and the dispatches of a wave all
\* have time limits, and a retry sleeps for a fixed time.
Fairness == \A g \in Guards : WF_vars(Step(g))

Spec == Init /\ [][Next]_vars
FairSpec == Spec /\ Fairness

-----------------------------------------------------------------------------
(* Properties.                                                             *)

\* Every variable has its type.
TypeOK ==
  /\ work \in Schedules
  /\ alive \in [Pids -> BOOLEAN]
  /\ pc \in [Guards -> Places]
  /\ wave \in [Guards -> Nat]
  /\ attempt \in [Guards -> Nat]
  /\ desired \in [Guards -> SUBSET Ids]
  /\ loaded \in [Guards -> SUBSET Ids]
  /\ fileModels \in [Pids -> SUBSET Ids]
  /\ fileLoaded \in [Pids -> SUBSET Ids]
  /\ host \in [Ids -> 0..MaxCtx]
  /\ late \subseteq Placements
  /\ seen \in [Guards -> [Ids -> 0..MaxCtx]]
  /\ pinned \in [Guards -> SUBSET Ids]
  /\ unloads \in [Guards -> SUBSET Ids]
  /\ loads \in [Guards -> SUBSET Ids]
  /\ spared \in [Guards -> SUBSET (Guards \X Ids)]
  /\ touched \in [Guards -> SUBSET Ids]

\* A plan never unloads a model on which another guard, of any process, has
\* been dispatching since before the plan's listing was taken: its lease is
\* read after the listing, names the model as loaded, and no leader election
\* sets it aside (ensure_wave_loaded's protection of a busy resident).
FreshPlanSparesBusy ==
  \A g \in Guards : \A x \in spared[g] : x[2] \notin unloads[g]

\* No unload at all takes a model another guard is dispatching on: what the
\* lease registry is for, in the words of its own documentation.
NeverTouchesBusy ==
  [][\A g, h \in Guards : \A i \in unloads[g] \ unloads'[g] :
       host'[i] # host[i] => ~Dispatching(h, i)]_vars

\* When a wave is dispatched, each of its models is resident at a context
\* that satisfies all its placements, unless somebody else changed that
\* model since the listing: whatever failed and was retried on the way, what
\* earlier attempts unloaded has been loaded again, and a plan never unloads
\* what it relies on.
DispatchedIsLoaded ==
  \A g \in Guards : \A i \in Ids :
    Dispatching(g, i) /\ i \notin touched[g] => host[i] > 0 /\ Enough(g, i, host[i])

\* Residency does not grow: when a wave is dispatched, an owned resident that
\* nobody else changed since the listing is one of the wave's, one that some
\* wave of another guard wants, or the utility binding (Exclusive scope).
NoOrphans ==
  \A g \in Guards : \A i \in Owned :
    pc[g] = "dispatch" /\ host[i] > 0 /\ i \notin touched[g]
      => i \in Own(g) \cup WantedByOthers(g) \cup Utility

\* Guards that are loading a wave of which i is a model.
Acquirers(i) == {g \in Guards : pc[g] \in {"list", "pin", "plan"} /\ i \in Own(g)}

\* When they read every file, at most one of the guards that want a model that nobody
\* has loaded leads, and while no other lease names it and every write reached its file, one of
\* several does, so that they do not all wait for each other
\* (identifiers_i_should_lead: a strict order, although the guards of a
\* process cannot be told apart from outside).
ExactlyOneLeads ==
  \A i \in Ids :
    /\ \A g, h \in Acquirers(i) : Leads(g, i, Foreign(g)) /\ Leads(h, i, Foreign(h)) => g = h
    /\ /\ ~WritesFail
       /\ \A g \in Guards : i \notin loaded[g]
       /\ {g \in Guards : i \in desired[g]} = Acquirers(i)
       /\ \E g, h \in Acquirers(i) : g # h
       => \E g \in Acquirers(i) : Leads(g, i, Foreign(g))

\* darkmux unloads nothing of the user's: an identifier outside the namespace
\* is in a guard's plan only if the guard's own wave addresses it as its alias
\* (OwnedTarget).
UserModelsStay == \A g \in Guards : unloads[g] \subseteq Owned \cup Own(g)

\* A plan that unloads the utility binding loads it again: only a reconcile of
\* its own context may unload it.
UtilityOnlyReloaded ==
  \A g \in Guards : \A i \in Utility : i \in unloads[g] => i \in loads[g]

-----------------------------------------------------------------------------
(* The inductive invariant.                                                *)

\* Places at which the wave's lease is written.
Leased == {"list"} \cup Acting

\* The entry of a guard that loads or dispatches is its wave, which its
\* process's file names too; a dispatching guard's entry says loaded.
LeaseInv ==
  \A g \in Guards :
    /\ pc[g] = "killed" <=> ~alive[Pid[g]]
    /\ pc[g] \in Leased => desired[g] = Own(g) /\ Own(g) \subseteq fileModels[Pid[g]]
    /\ pc[g] = "dispatch" => Own(g) \subseteq loaded[g]
    /\ desired[g] \subseteq Wanted(g)

\* A file names nothing its process's waves do not place; it is the union of
\* the entries when no write fails.
FileInv ==
  \A p \in Pids :
    /\ fileModels[p] \subseteq UNION {Wanted(g) : g \in GuardsOf(p)}
    /\ ~WritesFail /\ alive[p] =>
         /\ fileModels[p] = UNION {desired[g] : g \in GuardsOf(p)}
         /\ fileLoaded[p] = UNION {loaded[g] : g \in GuardsOf(p)}

\* Locals are empty where they are out of scope.
ScopeInv ==
  \A g \in Guards :
    /\ pc[g] \notin Acting => spared[g] = {}
    /\ pc[g] # "run" => unloads[g] = {} /\ loads[g] = {}

\* Every lease file can be written and read.
Reliable == ~WritesFail /\ ~ReadsFail

\* Who is spared still dispatches, and is pinned once the pins are read.
SparedInv ==
  \A g \in Guards : \A x \in spared[g] :
    /\ x[1] \in Guards \ {g} /\ Dispatching(x[1], x[2])
    /\ Reliable /\ pc[g] = "plan" => x[2] \in pinned[g]
    /\ Reliable => x[2] \notin unloads[g]

\* The listing is the host but for what others touched, and pins are wanted.
ListingInv ==
  \A g \in Guards :
    /\ pc[g] \in {"pin", "plan"} => \A i \in Ids \ touched[g] : host[i] = seen[g][i]
    /\ pc[g] = "plan" => pinned[g] \subseteq WantedByOthers(g)

\* What is left of a plan accounts for what the host lacks and for what it has
\* too much, but for what others touched.
PlanInv ==
  \A g \in Guards : pc[g] \in {"run", "mark", "dispatch"} =>
    /\ loads[g] \subseteq Own(g)
    /\ unloads[g] \subseteq Owned \cup Own(g)
    /\ \A i \in Own(g) \ touched[g] :
         \/ i \in loads[g]
         \/ host[i] > 0 /\ Enough(g, i, host[i]) /\ i \notin unloads[g]
    /\ \A i \in Owned \ touched[g] : host[i] > 0 =>
         i \in Own(g) \cup WantedByOthers(g) \cup Utility \cup unloads[g]

\* What a guard has left: waves, and attempts at the wave.
MostAttempts == IF MaxAttempts = 0 THEN 1 ELSE MaxAttempts
BudgetInv ==
  \A g \in Guards :
    /\ pc[g] \in {"write"} \cup Leased => wave[g] <= Len(work[g])
    /\ pc[g] = "write" => attempt[g] = 0
    /\ pc[g] = "list" => attempt[g] < MostAttempts

IInv ==
  /\ TypeOK /\ LeaseInv /\ FileInv /\ ScopeInv /\ SparedInv /\ ListingInv /\ PlanInv
  /\ BudgetInv

-----------------------------------------------------------------------------
(* How far a guard has come.                                               *)

\* Its place, counted down; a retry goes from a plan, or its execution, to "list".
Ahead(place) ==
  CASE place = "write" -> 9 [] place = "pin" -> 8 [] place = "plan" -> 7
    [] place = "run" -> 6 [] place = "list" -> 5 [] place = "mark" -> 4
    [] place = "dispatch" -> 3 [] place = "drop" -> 2 [] place = "done" -> 1
    [] place = "killed" -> 0

Moved(g) ==
  <<pc[g], wave[g], attempt[g], desired[g], loaded[g], seen[g], pinned[g],
    unloads[g], loads[g]>>' #
  <<pc[g], wave[g], attempt[g], desired[g], loaded[g], seen[g], pinned[g],
    unloads[g], loads[g]>>

Below(new, old) == new \subseteq old /\ new # old

\* The measure, most significant part first: the waves left, the attempts left, the
\* place, what is left of the plan.
Lower(g) ==
  \/ wave'[g] = wave[g] + 1 /\ wave'[g] <= Len(work[g]) + 1
  \/ /\ wave'[g] = wave[g]
     /\ \/ attempt'[g] = attempt[g] + 1 /\ attempt'[g] <= MostAttempts
        \/ /\ attempt'[g] = attempt[g]
           /\ \/ Ahead(pc'[g]) < Ahead(pc[g])
              \/ pc'[g] = pc[g] /\ Below(unloads'[g], unloads[g])
              \/ pc'[g] = pc[g] /\ unloads'[g] = unloads[g] /\ Below(loads'[g], loads[g])

\* No guard runs in circles: each of its steps uses up a wave, one of the attempts at
\* it, a place or a part of the plan, and what others do never gives one back.
GuardsDescend == [][\A g \in Guards : Moved(g) => Lower(g)]_vars

\* Every batch ends: no guard waits for ever on models held by others.
BatchEnds == \A g \in Guards : <>Ended(g)
=============================================================================
