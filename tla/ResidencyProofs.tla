-------------------------- MODULE ResidencyProofs --------------------------
(***************************************************************************)
(* Safety of Residency for every set of guards, processes, models and      *)
(* schedules.  A step is either one of the guard at hand, or the end of    *)
(* its process, or it leaves the guard's state alone and only touches the  *)
(* host (Elsewhere): each part of the invariant is shown for these three.  *)
(***************************************************************************)
EXTENDS Residency, TLAPS, NaturalsInduction, WellFoundedInduction

-----------------------------------------------------------------------------
(* Waves and plans. *)

\* A wave is a set of placements.
LEMMA WaveTyped ==
  ASSUME work \in Schedules, NEW g \in Guards
  PROVE  Wave(g) \subseteq Placements
<1>1. work[g] \in Seq(SUBSET Placements)
  BY ConstantsAssumption DEF ScheduleType
<1>2. \A n \in DOMAIN work[g] : work[g][n] \in SUBSET Placements
  BY <1>1
<1> QED BY <1>2 DEF Wave

\* The models of a wave are identifiers, and some wave of the guard wants them.
LEMMA OwnTyped ==
  ASSUME work \in Schedules, NEW g \in Guards
  PROVE  Own(g) \subseteq Ids /\ Own(g) \subseteq Wanted(g)
<1>1. Wave(g) \subseteq Placements
  BY WaveTyped
<1>2. \A p \in Placements : p.id \in Ids
  BY DEF Placements
<1>3. Own(g) \subseteq Ids
  BY <1>1, <1>2 DEF Own
<1>4. ASSUME NEW i \in Own(g) PROVE i \in Wanted(g)
  <2>1. PICK p \in Wave(g) : p.id = i
    BY DEF Own
  <2>2. wave[g] \in DOMAIN work[g] /\ p \in work[g][wave[g]]
    BY <2>1 DEF Wave
  <2> QED BY <2>1, <2>2, <1>3 DEF Wanted
<1> QED BY <1>3, <1>4

\* A scan reads files of other processes, and all of them when no read fails.
LEMMA ReadOthers ==
  ASSUME NEW g \in Guards, NEW read \in Scans(g)
  PROVE  read \subseteq Foreign(g) /\ (~ ReadsFail => read = Foreign(g))
BY DEF Scans

\* Pins are read from live leases, which name identifiers that others want.
LEMMA LeasedTyped ==
  ASSUME TypeOK, NEW g \in Guards, NEW read \in Scans(g)
  PROVE  LiveLeased(g, read) \subseteq Ids
<1>1. \A p \in read : fileModels[p] \subseteq Ids
  BY ReadOthers DEF TypeOK, Foreign
<1>2. \A h \in Siblings(g) : desired[h] \subseteq Ids
  BY DEF TypeOK, Siblings
<1> QED BY <1>1, <1>2 DEF LiveLeased

\* What a plan frees is resident and owned, or is one of the wave's own.
LEMMA UnloadsTyped ==
  ASSUME NEW g \in Guards, NEW pins, NEW first, Own(g) \subseteq Ids
  PROVE  /\ Unloads(g, pins, first) \subseteq Resident(g)
         /\ Unloads(g, pins, first) \subseteq Owned \cup Own(g)
         /\ Resident(g) \subseteq Ids
<1>1. Resident(g) \subseteq Ids
  BY DEF Resident
<1>2. \A i \in Own(g) : Stale(g, first, i) \subseteq Resident(g)
                     /\ Stale(g, first, i) \subseteq Owned \cup Own(g)
  BY DEF Stale, Copies
<1>3. /\ Stales(g, first) \subseteq Resident(g)
      /\ Stales(g, first) \subseteq Owned \cup Own(g)
  BY <1>2 DEF Stales
<1>4. Unwanted(g, pins) \subseteq Resident(g) \cap Owned
  BY DEF Unwanted
<1> QED BY <1>1, <1>3, <1>4 DEF Unloads

-----------------------------------------------------------------------------
(* What a step leaves alone. *)

\* The guard's own state is as it was; if it relies on a listing, the host is
\* too, but for what is recorded as touched.
Elsewhere(g) ==
  /\ pc'[g] = pc[g] /\ wave'[g] = wave[g] /\ attempt'[g] = attempt[g]
  /\ desired'[g] = desired[g] /\ loaded'[g] = loaded[g]
  /\ seen'[g] = seen[g] /\ pinned'[g] = pinned[g]
  /\ unloads'[g] = unloads[g] /\ loads'[g] = loads[g]
  /\ alive'[Pid[g]] = alive[Pid[g]]
  /\ spared'[g] \subseteq spared[g]
  /\ touched[g] \subseteq touched'[g]
  /\ pc[g] \in Acting => \A i \in Ids \ touched'[g] : host'[i] = host[i]

\* The schedules are given once.
LEMMA SameWork ==
  ASSUME [Next]_vars
  PROVE  work' = work
BY DEF Next, Step, Environment, Terminated, vars, leases, locals, history, WriteLease,
       ListResidents, ReadPins, PlanWave, Unload, Load, PlanDone, MarkLoaded, EndWave,
       DropLease, Crash, LateLoad, HostDrops, UserLoads

\* A step of another guard happens elsewhere.
LEMMA OtherSteps ==
  ASSUME TypeOK, NEW g \in Guards, NEW h \in Guards, g # h, Step(h)
  PROVE  Elsewhere(g)
<1> USE DEF TypeOK
<1>1. ASSUME Advance(h), UNCHANGED <<alive, leases, host>> PROVE Elsewhere(g)
  BY <1>1 DEF Advance, Forget, Goto, Elsewhere, leases
<1>2. CASE WriteLease(h)
  <2>1. desired'[g] = desired[g] /\ loaded'[g] = loaded[g]
    BY <1>2 DEF WriteLease
  <2> QED BY <1>2, <2>1 DEF WriteLease, Advance, Forget, Goto, Elsewhere, locals, history
<1>3. CASE ListResidents(h)
  BY <1>1, <1>3 DEF ListResidents, Goto, Elsewhere, leases
<1>4. CASE ReadPins(h)
  BY <1>4 DEF ReadPins, Goto, Elsewhere, leases, history
<1>5. CASE PlanWave(h)
  BY <1>1, <1>5 DEF PlanWave, Retry, Forget, Goto, Elsewhere, leases, history
<1>6. ASSUME NEW i \in Ids, Unload(h, i) PROVE Elsewhere(g)
  BY <1>1, <1>6 DEF Unload, HostBecomes, Elsewhere, leases
<1>7. ASSUME NEW p \in Placements, Load(h, p) PROVE Elsewhere(g)
  BY <1>1, <1>7 DEF Load, Retry, Forget, Goto, HostBecomes, Elsewhere, leases
<1>8. CASE PlanDone(h) \/ MarkLoaded(h) \/ DropLease(h)
  BY <1>8 DEF PlanDone, MarkLoaded, DropLease, Goto, Elsewhere, leases, locals, history
<1>9. CASE EndWave(h)
  BY <1>1, <1>9 DEF EndWave, Unwind, Forget, Goto, Elsewhere, leases
<1> QED BY <1>2, <1>3, <1>4, <1>5, <1>6, <1>7, <1>8, <1>9 DEF Step

\* A guard acts, its process is killed, or what happens happens elsewhere.
LEMMA StepOrElsewhere ==
  ASSUME TypeOK, [Next]_vars, NEW g \in Guards
  PROVE  Step(g) \/ Crash(Pid[g]) \/ Elsewhere(g)
<1> USE DEF TypeOK
<1>1. ASSUME NEW h \in Guards, Step(h) PROVE Step(g) \/ Elsewhere(g)
  BY <1>1, OtherSteps
<1>2. ASSUME NEW p \in Pids, Crash(p) PROVE Crash(Pid[g]) \/ Elsewhere(g)
  <2>1. CASE p = Pid[g]
    BY <1>2, <2>1
  <2>2. CASE p # Pid[g]
    <3>1. /\ pc'[g] = pc[g] /\ desired'[g] = desired[g] /\ loaded'[g] = loaded[g]
          /\ attempt'[g] = attempt[g] /\ seen'[g] = seen[g] /\ pinned'[g] = pinned[g]
          /\ unloads'[g] = unloads[g] /\ loads'[g] = loads[g]
          /\ touched'[g] = touched[g]
      BY <1>2, <2>2 DEF Crash
    <3>2. spared'[g] = {x \in spared[g] : Pid[x[1]] # p}
      BY <1>2, <2>2 DEF Crash
    <3>3. Pid[g] \in Pids
      BY DEF Pids
    <3>4. alive'[Pid[g]] = alive[Pid[g]] /\ wave'[g] = wave[g] /\ host' = host
      BY <1>2, <2>2, <3>3 DEF Crash
    <3> QED BY <3>1, <3>2, <3>4 DEF Elsewhere
  <2> QED BY <2>1, <2>2
<1>3. ASSUME NEW p \in late, LateLoad(p) PROVE Elsewhere(g)
  BY <1>3 DEF LateLoad, HostBecomes, Elsewhere, leases, locals
<1>4. ASSUME NEW i \in Ids, HostDrops(i) PROVE Elsewhere(g)
  BY <1>4 DEF HostDrops, HostBecomes, Elsewhere, leases, locals
<1>5. ASSUME NEW i \in Ids, NEW c \in Ctx, UserLoads(i, c) PROVE Elsewhere(g)
  BY <1>5 DEF UserLoads, HostBecomes, Elsewhere, leases, locals
<1>6. ASSUME UNCHANGED vars PROVE Elsewhere(g)
  BY <1>6 DEF vars, leases, locals, history, Elsewhere
<1> QED BY <1>1, <1>2, <1>3, <1>4, <1>5, <1>6 DEF Next, Environment, Terminated

\* A wave is the same while its number is.
LEMMA SameWave ==
  ASSUME [Next]_vars, NEW g \in Guards, wave'[g] = wave[g]
  PROVE  /\ Wave(g)' = Wave(g)
         /\ Own(g)' = Own(g)
         /\ \A i, c : Enough(g, i, c)' = Enough(g, i, c)
<1>1. Wave(g)' = Wave(g)
  BY SameWork DEF Wave
<1> QED BY <1>1 DEF Own, Enough

-----------------------------------------------------------------------------
(* Types. *)

\* Advancing, starting over and unwinding keep the types of what they change.
LEMMA AdvanceTyped ==
  ASSUME TypeOK, NEW g \in Guards, Advance(g) \/ Retry(g) \/ Unwind(g)
  PROVE  /\ pc' \in [Guards -> Places] /\ wave' \in [Guards -> Nat]
         /\ attempt' \in [Guards -> Nat]
         /\ seen' \in [Guards -> [Ids -> 0..MaxCtx]]
         /\ pinned' \in [Guards -> SUBSET Ids]
         /\ unloads' \in [Guards -> SUBSET Ids]
         /\ loads' \in [Guards -> SUBSET Ids]
         /\ spared' \in [Guards -> SUBSET (Guards \X Ids)]
         /\ touched' \in [Guards -> SUBSET Ids]
<1>1. Nothing \in [Ids -> 0..MaxCtx]
  BY ConstantsAssumption DEF Nothing
<1>2. Forget(g) => /\ seen' \in [Guards -> [Ids -> 0..MaxCtx]]
                   /\ pinned' \in [Guards -> SUBSET Ids]
                   /\ unloads' \in [Guards -> SUBSET Ids]
                   /\ loads' \in [Guards -> SUBSET Ids]
                   /\ touched' \in [Guards -> SUBSET Ids]
  BY <1>1 DEF TypeOK, Forget
<1>3. CASE Advance(g)
  <2>1. \A k \in Guards : {x \in spared[k] : x[1] # g} \subseteq Guards \X Ids
    BY DEF TypeOK
  <2>2. spared' \in [Guards -> SUBSET (Guards \X Ids)]
    BY <1>3, <2>1 DEF Advance
  <2>3. /\ pc' \in [Guards -> Places] /\ wave' \in [Guards -> Nat]
        /\ attempt' \in [Guards -> Nat]
    BY <1>3 DEF Advance, Goto, TypeOK, Places
  <2> QED BY <1>2, <1>3, <2>2, <2>3 DEF Advance
<1>4. CASE Retry(g)
  <2>1. spared' \in [Guards -> SUBSET (Guards \X Ids)]
    BY <1>4 DEF Retry, TypeOK
  <2>2. /\ pc' \in [Guards -> Places] /\ wave' \in [Guards -> Nat]
        /\ attempt' \in [Guards -> Nat]
    BY <1>4 DEF Retry, Goto, TypeOK, Places
  <2> QED BY <1>2, <1>4, <2>1, <2>2 DEF Retry
<1>5. CASE Unwind(g)
  <2>1. \A k \in Guards : {x \in spared[k] : x[1] # g} \subseteq Guards \X Ids
    BY DEF TypeOK
  <2>2. spared' \in [Guards -> SUBSET (Guards \X Ids)]
    BY <1>5, <2>1 DEF Unwind
  <2>3. /\ pc' \in [Guards -> Places] /\ wave' \in [Guards -> Nat]
        /\ attempt' \in [Guards -> Nat]
    BY <1>5 DEF Unwind, Goto, TypeOK, Places
  <2> QED BY <1>2, <1>5, <2>2, <2>3 DEF Unwind
<1> QED BY <1>3, <1>4, <1>5

\* A change of the host keeps its type.
LEMMA HostTyped ==
  ASSUME TypeOK, NEW i \in Ids, NEW c \in 0..MaxCtx, NEW who, HostBecomes(i, c, who)
  PROVE  host' \in [Ids -> 0..MaxCtx] /\ touched' \in [Guards -> SUBSET Ids]
BY DEF TypeOK, HostBecomes

\* The lease files hold identifiers.
LEMMA PublishTyped ==
  ASSUME TypeOK, NEW g \in Guards, Publish(Pid[g]) \/ PublishFails,
         desired' \in [Guards -> SUBSET Ids], loaded' \in [Guards -> SUBSET Ids]
  PROVE  fileModels' \in [Pids -> SUBSET Ids] /\ fileLoaded' \in [Pids -> SUBSET Ids]
<1>1. \A h \in GuardsOf(Pid[g]) : desired'[h] \subseteq Ids /\ loaded'[h] \subseteq Ids
  BY DEF GuardsOf
<1>2. /\ UNION {desired'[h] : h \in GuardsOf(Pid[g])} \subseteq Ids
      /\ UNION {loaded'[h] : h \in GuardsOf(Pid[g])} \subseteq Ids
  BY <1>1
<1>3. fileModels \in [Pids -> SUBSET Ids] /\ fileLoaded \in [Pids -> SUBSET Ids]
  BY DEF TypeOK
<1>4. CASE Publish(Pid[g])
  BY <1>2, <1>3, <1>4 DEF Publish
<1>5. CASE PublishFails
  BY <1>3, <1>5 DEF PublishFails
<1> QED BY <1>4, <1>5

LEMMA InitTyped ==
  ASSUME Init
  PROVE  TypeOK
BY ConstantsAssumption DEF Init, TypeOK, Nothing, Places

LEMMA NextTyped ==
  ASSUME TypeOK, [Next]_vars
  PROVE  TypeOK'
<1> USE DEF TypeOK
<1>0. work' = work
  BY SameWork
<1>1. ASSUME NEW g \in Guards, WriteLease(g) PROVE TypeOK'
  <2>1. Own(g) \subseteq Ids
    BY OwnTyped
  <2>2. desired' \in [Guards -> SUBSET Ids] /\ loaded' \in [Guards -> SUBSET Ids]
    BY <1>1, <2>1 DEF WriteLease
  <2>3. fileModels' \in [Pids -> SUBSET Ids] /\ fileLoaded' \in [Pids -> SUBSET Ids]
    BY <1>1, <2>2, PublishTyped DEF WriteLease
  <2>4. CASE Publish(Pid[g]) /\ Goto(g, "list") /\ UNCHANGED <<wave, attempt, locals, history>>
    BY <1>1, <2>2, <2>3, <2>4 DEF WriteLease, Goto, Places, locals, history
  <2>5. CASE PublishFails /\ Advance(g)
    BY <1>1, <2>2, <2>3, <2>5, AdvanceTyped DEF WriteLease
  <2> QED BY <1>1, <2>4, <2>5 DEF WriteLease
<1>2. ASSUME NEW g \in Guards, ListResidents(g) PROVE TypeOK'
  <2>1. CASE Advance(g)
    BY <1>2, <2>1, AdvanceTyped DEF ListResidents, leases
  <2>2. CASE ~ Advance(g)
    <3>1. {x \in (Guards \ {g}) \X Ids : Dispatching(x[1], x[2])} \subseteq Guards \X Ids
      OBVIOUS
    <3>2. spared' = [spared EXCEPT
            ![g] = {x \in (Guards \ {g}) \X Ids : Dispatching(x[1], x[2])}]
      BY <1>2, <2>2 DEF ListResidents
    <3>3. spared' \in [Guards -> SUBSET (Guards \X Ids)]
      BY <3>1, <3>2
    <3>4. attempt' \in [Guards -> Nat]
      BY <1>2, <2>2 DEF ListResidents, NextAttempt
    <3>5. seen' \in [Guards -> [Ids -> 0..MaxCtx]]
      BY <1>2, <2>2 DEF ListResidents
    <3>6. pc' \in [Guards -> Places]
      BY <1>2, <2>2 DEF ListResidents, Goto, Places
    <3> QED BY <1>2, <2>2, <3>3, <3>4, <3>5, <3>6 DEF ListResidents, leases
  <2> QED BY <2>1, <2>2
<1>3. ASSUME NEW g \in Guards, ReadPins(g) PROVE TypeOK'
  BY <1>3, LeasedTyped DEF ReadPins, Goto, Places, leases, history
<1>4. ASSUME NEW g \in Guards, PlanWave(g) PROVE TypeOK'
  <2>1. CASE Advance(g) \/ Retry(g)
    BY <1>4, <2>1, AdvanceTyped DEF PlanWave, leases
  <2>2. CASE ~ (Advance(g) \/ Retry(g))
    <3>1. PICK first, read :
            /\ pinned' = [pinned EXCEPT ![g] = Pins(g, read)]
            /\ unloads' = [unloads EXCEPT ![g] = Unloads(g, Pins(g, read), first)]
            /\ loads' = [loads EXCEPT ![g] = Loads(g)]
            /\ seen' = [seen EXCEPT ![g] = Nothing]
            /\ Goto(g, "run")
            /\ UNCHANGED <<wave, attempt, history>>
      BY <1>4, <2>2 DEF PlanWave
    <3>2. Own(g) \subseteq Ids
      BY OwnTyped
    <3>3. Unloads(g, Pins(g, read), first) \subseteq Ids
      BY <3>2, UnloadsTyped
    <3>4. Pins(g, read) \subseteq Ids /\ Loads(g) \subseteq Ids
      BY <3>2 DEF Pins, Loads
    <3>5. Nothing \in [Ids -> 0..MaxCtx]
      BY ConstantsAssumption DEF Nothing
    <3> QED BY <1>4, <3>1, <3>3, <3>4, <3>5 DEF PlanWave, Goto, Places, leases, history
  <2> QED BY <2>1, <2>2
<1>5. ASSUME NEW g \in Guards, NEW i \in Ids, Unload(g, i) PROVE TypeOK'
  <2>1. 0 \in 0..MaxCtx
    BY ConstantsAssumption
  <2>2. CASE Advance(g) /\ UNCHANGED host
    BY <1>5, <2>2, AdvanceTyped DEF Unload, leases
  <2>3. CASE HostBecomes(i, 0, {g}) /\ unloads' = [unloads EXCEPT ![g] = @ \ {i}]
             /\ UNCHANGED <<pc, wave, attempt, seen, pinned, loads, spared>>
    <3>1. host' \in [Ids -> 0..MaxCtx] /\ touched' \in [Guards -> SUBSET Ids]
      BY <2>1, <2>3, HostTyped
    <3>2. unloads' \in [Guards -> SUBSET Ids]
      BY <2>3
    <3>3. UNCHANGED <<work, alive, leases, late>>
      BY <1>5 DEF Unload
    <3> QED BY <2>3, <3>1, <3>2, <3>3 DEF leases
  <2> QED BY <1>5, <2>2, <2>3 DEF Unload
<1>6. ASSUME NEW g \in Guards, NEW p \in Placements, Load(g, p) PROVE TypeOK'
  <2>1. p.id \in Ids /\ p.ctx \in 0..MaxCtx
    BY ConstantsAssumption DEF Placements, Ctx
  <2>2. CASE Advance(g) /\ late' \in {late, late \cup {p}} /\ UNCHANGED host
    BY <1>6, <2>2, AdvanceTyped DEF Load, leases
  <2>3. CASE Retry(g) /\ UNCHANGED <<host, late>>
    BY <1>6, <2>3, AdvanceTyped DEF Load, leases
  <2>4. CASE HostBecomes(p.id, p.ctx, {g}) /\ loads' = [loads EXCEPT ![g] = @ \ {p.id}]
             /\ UNCHANGED <<pc, wave, attempt, late, seen, pinned, unloads, spared>>
    <3>1. host' \in [Ids -> 0..MaxCtx] /\ touched' \in [Guards -> SUBSET Ids]
      BY <2>1, <2>4, HostTyped
    <3>2. loads' \in [Guards -> SUBSET Ids]
      BY <2>4
    <3>3. UNCHANGED <<work, alive, leases>>
      BY <1>6 DEF Load
    <3> QED BY <2>4, <3>1, <3>2, <3>3 DEF leases
  <2> QED BY <1>6, <2>2, <2>3, <2>4 DEF Load
<1>7. ASSUME NEW g \in Guards, PlanDone(g) PROVE TypeOK'
  BY <1>7 DEF PlanDone, Goto, Places, leases, locals, history
<1>8. ASSUME NEW g \in Guards, MarkLoaded(g) PROVE TypeOK'
  <2>1. desired' \in [Guards -> SUBSET Ids] /\ loaded' \in [Guards -> SUBSET Ids]
    BY <1>8 DEF MarkLoaded
  <2> QED BY <1>8, <2>1, PublishTyped DEF MarkLoaded, Goto, Places, locals, history
<1>9. ASSUME NEW g \in Guards, EndWave(g) PROVE TypeOK'
  BY <1>9, AdvanceTyped DEF EndWave, leases
<1>10. ASSUME NEW g \in Guards, DropLease(g) PROVE TypeOK'
  <2>1. desired' \in [Guards -> SUBSET Ids] /\ loaded' \in [Guards -> SUBSET Ids]
    BY <1>10 DEF DropLease
  <2> QED BY <1>10, <2>1, PublishTyped DEF DropLease, Goto, Places, locals, history
<1>11. ASSUME NEW p \in Pids, Crash(p) PROVE TypeOK'
  <2>1. Nothing \in [Ids -> 0..MaxCtx]
    BY ConstantsAssumption DEF Nothing
  <2>2. late' \subseteq Placements
    <3>1. ASSUME NEW g \in Guards, NEW q \in Wave(g), late' = late \cup {q}
          PROVE  late' \subseteq Placements
      BY <3>1, WaveTyped
    <3> QED BY <1>11, <3>1 DEF Crash
  <2>3. spared' \in [Guards -> SUBSET (Guards \X Ids)]
    <3>1. \A g \in Guards : {x \in spared[g] : Pid[x[1]] # p} \subseteq Guards \X Ids
      OBVIOUS
    <3> QED BY <1>11, <3>1 DEF Crash
  <2> QED BY <1>11, <2>1, <2>2, <2>3 DEF Crash, Places
<1>12. ASSUME NEW p \in late, LateLoad(p) PROVE TypeOK'
  <2>1. p.id \in Ids /\ p.ctx \in 0..MaxCtx
    BY ConstantsAssumption DEF Placements, Ctx
  <2> QED BY <1>12, <2>1, HostTyped DEF LateLoad, leases, locals
<1>13. ASSUME NEW i \in Ids, HostDrops(i) PROVE TypeOK'
  <2>1. 0 \in 0..MaxCtx
    BY ConstantsAssumption
  <2> QED BY <1>13, <2>1, HostTyped DEF HostDrops, leases, locals
<1>14. ASSUME NEW i \in Ids, NEW c \in Ctx, UserLoads(i, c) PROVE TypeOK'
  <2>1. c \in 0..MaxCtx
    BY ConstantsAssumption DEF Ctx
  <2> QED BY <1>14, <2>1, HostTyped DEF UserLoads, leases, locals
<1>15. CASE UNCHANGED vars
  BY <1>15 DEF vars, leases, locals, history
<1> QED
  BY <1>1, <1>2, <1>3, <1>4, <1>5, <1>6, <1>7, <1>8, <1>9, <1>10, <1>11, <1>12, <1>13,
     <1>14, <1>15 DEF Next, Step, Environment, Terminated

-----------------------------------------------------------------------------
(* Leases. *)

\* A file is left alone, or rewritten as the union of its process's entries;
\* without failing writes the first only happens while those stay the same.
LEMMA FilesStep ==
  ASSUME TypeOK, [Next]_vars, NEW p \in Pids
  PROVE  \/ /\ fileModels'[p] = UNION {desired'[g] : g \in GuardsOf(p)}
            /\ fileLoaded'[p] = UNION {loaded'[g] : g \in GuardsOf(p)}
         \/ /\ fileModels'[p] = fileModels[p] /\ fileLoaded'[p] = fileLoaded[p]
            /\ \/ WritesFail \/ ~ alive'[p]
               \/ \A g \in GuardsOf(p) : desired'[g] = desired[g] /\ loaded'[g] = loaded[g]
<1> DEFINE Written == /\ fileModels'[p] = UNION {desired'[g] : g \in GuardsOf(p)}
                      /\ fileLoaded'[p] = UNION {loaded'[g] : g \in GuardsOf(p)}
           Kept == fileModels'[p] = fileModels[p] /\ fileLoaded'[p] = fileLoaded[p]
           Same == \A g \in GuardsOf(p) : desired'[g] = desired[g] /\ loaded'[g] = loaded[g]
<1> USE DEF TypeOK
<1>1. ASSUME NEW h \in Guards, Publish(Pid[h]) \/ PublishFails,
             \A g \in Guards \ {h} : desired'[g] = desired[g] /\ loaded'[g] = loaded[g]
      PROVE  Written \/ (Kept /\ (WritesFail \/ Same))
  <2>1. CASE PublishFails
    BY <2>1 DEF PublishFails
  <2>2. CASE Publish(Pid[h]) /\ p = Pid[h]
    BY <2>2 DEF Publish
  <2>3. CASE Publish(Pid[h]) /\ p # Pid[h]
    <3>1. Kept
      BY <2>3 DEF Publish
    <3>2. h \notin GuardsOf(p)
      BY <2>3 DEF GuardsOf
    <3>3. Same
      BY <1>1, <3>2 DEF GuardsOf
    <3> QED BY <3>1, <3>3
  <2> QED BY <1>1, <2>1, <2>2, <2>3
<1>2. ASSUME UNCHANGED leases PROVE Kept /\ Same
  BY <1>2 DEF leases
<1> HIDE DEF Written, Kept, Same
<1>3. ASSUME NEW h \in Guards, Step(h) PROVE Written \/ (Kept /\ (WritesFail \/ Same))
  <2>1. CASE WriteLease(h)
    BY <1>1, <2>1 DEF WriteLease
  <2>2. CASE MarkLoaded(h)
    BY <1>1, <2>2 DEF MarkLoaded
  <2>3. CASE DropLease(h)
    BY <1>1, <2>3 DEF DropLease
  <2>4. CASE UNCHANGED leases
    BY <1>2, <2>4
  <2> QED
    BY <1>3, <2>1, <2>2, <2>3, <2>4
    DEF Step, ListResidents, ReadPins, PlanWave, Unload, Load, PlanDone, EndWave
<1>4. ASSUME NEW q \in Pids, Crash(q) PROVE Kept /\ (~ alive'[p] \/ Same)
  <2>1. Kept
    BY <1>4 DEF Crash, Kept
  <2>2. CASE p = q
    BY <1>4, <2>1, <2>2 DEF Crash
  <2>3. CASE p # q
    BY <1>4, <2>1, <2>3 DEF Crash, Same, GuardsOf
  <2> QED BY <2>2, <2>3
<1>5. Written \/ (Kept /\ (WritesFail \/ ~ alive'[p] \/ Same))
  <2>1. (\E h \in Guards : Step(h)) \/ (\E q \in Pids : Crash(q)) \/ UNCHANGED leases
    BY DEF Next, Environment, Terminated, vars, LateLoad, HostDrops, UserLoads, leases
  <2> QED BY <1>2, <1>3, <1>4, <2>1
<1> QED BY <1>5 DEF Written, Kept, Same

\* A union over the guards of a process has the entry of each of them.
LEMMA InUnion ==
  ASSUME NEW g \in Guards, NEW e
  PROVE  e[g] \subseteq UNION {e[h] : h \in GuardsOf(Pid[g])}
BY DEF GuardsOf

LEMMA InitLease ==
  ASSUME Init
  PROVE  LeaseInv /\ FileInv /\ ScopeInv /\ SparedInv /\ ListingInv /\ PlanInv
BY DEF Init, LeaseInv, FileInv, ScopeInv, SparedInv, ListingInv, PlanInv, Leased, Acting,
       GuardsOf, Wanted, Pids

\* Entries only name what their guard wants.
LEMMA NextEntries ==
  ASSUME TypeOK, LeaseInv, [Next]_vars, NEW g \in Guards
  PROVE  desired'[g] \subseteq Wanted(g)'
<1>1. Wanted(g)' = Wanted(g)
  BY SameWork DEF Wanted
<1>2. desired[g] \subseteq Wanted(g)
  BY DEF LeaseInv
<1>3. CASE Step(g)
  <2>1. CASE WriteLease(g)
    BY <1>1, <2>1, OwnTyped DEF WriteLease, TypeOK
  <2>2. CASE DropLease(g)
    BY <2>2 DEF DropLease, TypeOK
  <2>3. CASE UNCHANGED desired
    BY <1>1, <1>2, <2>3
  <2> QED
    BY <1>3, <2>1, <2>2, <2>3
    DEF Step, ListResidents, ReadPins, PlanWave, Unload, Load, PlanDone, MarkLoaded, EndWave,
        leases
<1>4. CASE Crash(Pid[g])
  BY <1>4 DEF Crash
<1>5. CASE Elsewhere(g)
  BY <1>1, <1>2, <1>5 DEF Elsewhere
<1> QED BY <1>3, <1>4, <1>5, StepOrElsewhere

\* A guard that steps is alive and stays so.
LEMMA StepAlive ==
  ASSUME TypeOK, NEW g \in Guards, Step(g)
  PROVE  pc[g] # "killed" /\ pc'[g] # "killed" /\ alive' = alive
BY DEF TypeOK, Step, WriteLease, ListResidents, ReadPins, PlanWave, Unload, Load, PlanDone,
       MarkLoaded, EndWave, DropLease, Advance, Retry, Unwind, Goto

\* A guard under its lease has just written it, or has it from before, for
\* the same wave.
LEMMA StepLeased ==
  ASSUME TypeOK, NEW g \in Guards, Step(g), pc'[g] \in Leased
  PROVE  /\ wave'[g] = wave[g]
         /\ \/ pc[g] = "write" /\ Publish(Pid[g]) /\ desired'[g] = Own(g)
            \/ pc[g] \in Leased /\ desired'[g] = desired[g]
<1> USE DEF TypeOK, Leased, Acting
<1>1. ~ Advance(g) /\ ~ Unwind(g)
  BY DEF Advance, Unwind, Goto
<1>2. CASE WriteLease(g)
  BY <1>1, <1>2 DEF WriteLease, Goto
<1>3. CASE ListResidents(g)
  BY <1>1, <1>3 DEF ListResidents, Goto, leases
<1>4. CASE ReadPins(g)
  BY <1>4 DEF ReadPins, Goto, leases
<1>5. CASE PlanWave(g)
  BY <1>1, <1>5 DEF PlanWave, Retry, Goto, leases
<1>6. ASSUME NEW i \in Ids, Unload(g, i)
      PROVE  wave'[g] = wave[g] /\ pc[g] = "run" /\ desired' = desired
  BY <1>1, <1>6 DEF Unload, leases
<1>7. ASSUME NEW p \in Placements, Load(g, p)
      PROVE  wave'[g] = wave[g] /\ pc[g] = "run" /\ desired' = desired
  BY <1>1, <1>7 DEF Load, Retry, leases
<1>8. CASE PlanDone(g) \/ MarkLoaded(g)
  BY <1>8 DEF PlanDone, MarkLoaded, Goto, leases
<1>9. CASE EndWave(g)
  BY <1>1, <1>9 DEF EndWave
<1>10. CASE DropLease(g)
  BY <1>10 DEF DropLease, Goto
<1> QED
  BY <1>2, <1>3, <1>4, <1>5, <1>6, <1>7, <1>8, <1>9, <1>10 DEF Step

\* A guard enters its dispatch by marking its models loaded only.
LEMMA StepDispatch ==
  ASSUME TypeOK, NEW g \in Guards, Step(g), pc'[g] = "dispatch"
  PROVE  MarkLoaded(g)
<1>1. ~ Advance(g) /\ ~ Retry(g) /\ ~ Unwind(g)
  BY DEF Advance, Retry, Unwind, Goto, TypeOK
<1> QED
  BY <1>1 DEF TypeOK, Step, WriteLease, ListResidents, ReadPins, PlanWave, Unload, Load,
              PlanDone, EndWave, DropLease, Goto

LEMMA NextLease ==
  ASSUME TypeOK, LeaseInv, [Next]_vars
  PROVE  LeaseInv'
<1> SUFFICES ASSUME NEW g \in Guards
             PROVE  /\ pc'[g] = "killed" <=> ~ alive'[Pid[g]]
                    /\ pc'[g] \in Leased =>
                         desired'[g] = Own(g)' /\ Own(g)' \subseteq fileModels'[Pid[g]]
                    /\ pc'[g] = "dispatch" => Own(g)' \subseteq loaded'[g]
                    /\ desired'[g] \subseteq Wanted(g)'
  BY DEF LeaseInv
<1>1. /\ pc[g] = "killed" <=> ~ alive[Pid[g]]
      /\ pc[g] \in Leased => desired[g] = Own(g) /\ Own(g) \subseteq fileModels[Pid[g]]
      /\ pc[g] = "dispatch" => Own(g) \subseteq loaded[g]
  BY DEF LeaseInv
<1>2. Pid[g] \in Pids
  BY DEF Pids
<1>3. desired'[g] \subseteq Wanted(g)'
  BY NextEntries
<1>4. CASE Step(g)
  <2>1. pc'[g] = "killed" <=> ~ alive'[Pid[g]]
    BY <1>1, <1>4, StepAlive
  <2>2. ASSUME pc'[g] \in Leased
        PROVE  desired'[g] = Own(g)' /\ Own(g)' \subseteq fileModels'[Pid[g]]
    <3>1. wave'[g] = wave[g]
      BY <1>4, <2>2, StepLeased
    <3>2. Own(g)' = Own(g)
      BY <3>1, SameWave
    <3>3. desired'[g] = Own(g)
      BY <1>1, <1>4, <2>2, StepLeased
    <3>4. desired'[g] \subseteq UNION {desired'[h] : h \in GuardsOf(Pid[g])}
      BY InUnion
    <3>5. CASE Publish(Pid[g])
      <4>1. fileModels'[Pid[g]] = UNION {desired'[h] : h \in GuardsOf(Pid[g])}
        BY <1>2, <3>5 DEF Publish, TypeOK
      <4> QED BY <3>2, <3>3, <3>4, <4>1
    <3>6. CASE pc[g] \in Leased
      BY <1>1, <1>2, <3>2, <3>3, <3>4, <3>6, FilesStep
    <3> QED BY <1>4, <2>2, <3>5, <3>6, StepLeased
  <2>3. ASSUME pc'[g] = "dispatch" PROVE Own(g)' \subseteq loaded'[g]
    <3>1. MarkLoaded(g)
      BY <1>4, <2>3, StepDispatch
    <3>2. Own(g)' = Own(g)
      BY <3>1, SameWave DEF MarkLoaded
    <3>3. desired[g] = Own(g)
      BY <1>1, <3>1 DEF MarkLoaded, Leased, Acting
    <3> QED BY <3>1, <3>2, <3>3 DEF MarkLoaded, TypeOK
  <2> QED BY <1>3, <2>1, <2>2, <2>3
<1>5. CASE Crash(Pid[g])
  <2>1. pc'[g] = "killed" /\ ~ alive'[Pid[g]]
    BY <1>2, <1>5 DEF Crash, TypeOK
  <2> QED BY <1>3, <2>1 DEF Leased, Acting
<1>6. CASE Elsewhere(g)
  <2>1. Own(g)' = Own(g)
    BY <1>6, SameWave DEF Elsewhere
  <2>2. desired'[g] \subseteq UNION {desired'[h] : h \in GuardsOf(Pid[g])}
    BY InUnion
  <2>3. pc[g] \in Leased => Own(g) \subseteq fileModels'[Pid[g]]
    BY <1>1, <1>2, <1>6, <2>2, FilesStep DEF Elsewhere
  <2> QED BY <1>1, <1>3, <1>6, <2>1, <2>3 DEF Elsewhere
<1> QED BY <1>4, <1>5, <1>6, StepOrElsewhere

LEMMA NextFile ==
  ASSUME TypeOK, LeaseInv, FileInv, [Next]_vars
  PROVE  FileInv'
<1> SUFFICES ASSUME NEW p \in Pids
             PROVE  /\ fileModels'[p] \subseteq UNION {Wanted(g)' : g \in GuardsOf(p)}
                    /\ ~ WritesFail /\ alive'[p] =>
                         /\ fileModels'[p] = UNION {desired'[g] : g \in GuardsOf(p)}
                         /\ fileLoaded'[p] = UNION {loaded'[g] : g \in GuardsOf(p)}
  BY DEF FileInv, GuardsOf
<1>1. \A g \in GuardsOf(p) : Wanted(g)' = Wanted(g) /\ desired'[g] \subseteq Wanted(g)'
  BY SameWork, NextEntries DEF Wanted, GuardsOf
<1>2. fileModels[p] \subseteq UNION {Wanted(g) : g \in GuardsOf(p)}
  BY DEF FileInv
<1>3. alive'[p] => alive[p]
  BY DEF TypeOK, Next, Step, Environment, Terminated, vars, WriteLease, ListResidents,
         ReadPins, PlanWave, Unload, Load, PlanDone, MarkLoaded, EndWave, DropLease, Crash,
         LateLoad, HostDrops, UserLoads
<1>4. ~ WritesFail /\ alive[p] =>
        /\ fileModels[p] = UNION {desired[g] : g \in GuardsOf(p)}
        /\ fileLoaded[p] = UNION {loaded[g] : g \in GuardsOf(p)}
  BY DEF FileInv
<1>5. CASE /\ fileModels'[p] = UNION {desired'[g] : g \in GuardsOf(p)}
           /\ fileLoaded'[p] = UNION {loaded'[g] : g \in GuardsOf(p)}
  BY <1>1, <1>5
<1>6. CASE fileModels'[p] = fileModels[p] /\ fileLoaded'[p] = fileLoaded[p]
           /\ (WritesFail \/ ~ alive'[p])
  BY <1>1, <1>2, <1>6
<1>7. CASE fileModels'[p] = fileModels[p] /\ fileLoaded'[p] = fileLoaded[p]
           /\ (\A g \in GuardsOf(p) : desired'[g] = desired[g] /\ loaded'[g] = loaded[g])
  BY <1>1, <1>2, <1>3, <1>4, <1>7
<1> QED BY <1>5, <1>6, <1>7, FilesStep

-----------------------------------------------------------------------------
(* Locals. *)

\* Where advancing, starting over or unwinding leads, and what it forgets.
LEMMA Leaves ==
  ASSUME TypeOK, NEW g \in Guards, Advance(g) \/ Retry(g) \/ Unwind(g)
  PROVE  /\ pc'[g] \in {"write", "list", "drop"}
         /\ spared'[g] = {} /\ unloads'[g] = {} /\ loads'[g] = {}
BY DEF TypeOK, Advance, Retry, Unwind, Forget, Goto

\* A plan comes from planning, with the pins and the listing at hand.
LEMMA Planned ==
  ASSUME TypeOK, NEW g \in Guards, PlanWave(g), pc'[g] = "run"
  PROVE  \E first \in FirstCopies(g), read \in Scans(g) :
           /\ ~ HeldByOthers(g, Pins(g, read), first)
           /\ unloads'[g] = Unloads(g, Pins(g, read), first)
           /\ loads'[g] = Loads(g)
           /\ UNCHANGED <<wave, host, touched, spared, leases>>
<1>1. ~ Advance(g) /\ ~ Retry(g)
  BY Leaves
<1> QED BY <1>1 DEF PlanWave, TypeOK, history

LEMMA NextScope ==
  ASSUME TypeOK, ScopeInv, [Next]_vars
  PROVE  ScopeInv'
<1> SUFFICES ASSUME NEW g \in Guards
             PROVE  /\ pc'[g] \notin Acting => spared'[g] = {}
                    /\ pc'[g] # "run" => unloads'[g] = {} /\ loads'[g] = {}
  BY DEF ScopeInv
<1>1. /\ pc[g] \notin Acting => spared[g] = {}
      /\ pc[g] # "run" => unloads[g] = {} /\ loads[g] = {}
  BY DEF ScopeInv
<1>2. CASE Step(g)
  <2>1. CASE Advance(g) \/ Retry(g) \/ Unwind(g)
    BY <2>1, Leaves
  <2>2. CASE ~ Advance(g) /\ ~ Retry(g) /\ ~ Unwind(g)
    <3> USE DEF TypeOK, Acting, Goto
    <3>1. CASE WriteLease(g)
      BY <1>1, <2>2, <3>1 DEF WriteLease, locals, history
    <3>2. CASE ListResidents(g)
      BY <1>1, <2>2, <3>2 DEF ListResidents
    <3>3. CASE ReadPins(g)
      BY <1>1, <3>3 DEF ReadPins
    <3>4. CASE PlanWave(g)
      BY <2>2, <3>4 DEF PlanWave
    <3>5. ASSUME NEW i \in Ids, Unload(g, i) PROVE pc'[g] = "run"
      BY <2>2, <3>5 DEF Unload
    <3>6. ASSUME NEW p \in Placements, Load(g, p) PROVE pc'[g] = "run"
      BY <2>2, <3>6 DEF Load
    <3>7. CASE PlanDone(g) \/ MarkLoaded(g)
      BY <1>1, <3>7 DEF PlanDone, MarkLoaded, locals
    <3>8. CASE DropLease(g)
      BY <1>1, <3>8 DEF DropLease, locals, history
    <3> QED
      BY <1>2, <2>2, <3>1, <3>2, <3>3, <3>4, <3>5, <3>6, <3>7, <3>8 DEF Step, EndWave
  <2> QED BY <2>1, <2>2
<1>3. CASE Crash(Pid[g])
  BY <1>3 DEF Crash, TypeOK
<1>4. CASE Elsewhere(g)
  BY <1>1, <1>4 DEF Elsewhere
<1> QED BY <1>2, <1>3, <1>4, StepOrElsewhere

-----------------------------------------------------------------------------
(* Busy models. *)

\* With every file written and read, what a guard dispatches on is leased and loaded in
\* the eyes of every other guard.
LEMMA BusyIsLeased ==
  ASSUME TypeOK, LeaseInv, FileInv, Reliable, NEW g \in Guards, NEW h \in Guards \ {g},
         NEW i, Dispatching(h, i), NEW read \in Scans(g)
  PROVE  i \in LiveLeased(g, read) /\ i \in LiveLoaded(g, read)
<1>1. i \in desired[h] /\ i \in loaded[h]
  BY DEF LeaseInv, Dispatching, Leased, Acting
<1>2. CASE Pid[h] = Pid[g]
  <2>1. h \in Siblings(g)
    BY <1>2 DEF Siblings
  <2> QED BY <1>1, <2>1 DEF LiveLeased, LiveLoaded
<1>3. CASE Pid[h] # Pid[g]
  <2>1. alive[Pid[h]] /\ Pid[h] \in Pids
    BY DEF LeaseInv, Dispatching, Pids
  <2>2. Pid[h] \in read
    BY <1>3, <2>1, ReadOthers DEF Foreign, Reliable
  <2>3. /\ fileModels[Pid[h]] = UNION {desired[k] : k \in GuardsOf(Pid[h])}
        /\ fileLoaded[Pid[h]] = UNION {loaded[k] : k \in GuardsOf(Pid[h])}
    BY <2>1 DEF FileInv, Reliable
  <2>4. i \in fileModels[Pid[h]] /\ i \in fileLoaded[Pid[h]]
    BY <1>1, <2>3, InUnion
  <2> QED BY <2>2, <2>4 DEF LiveLeased, LiveLoaded
<1> QED BY <1>2, <1>3

\* A plan that does not block frees nothing that is pinned.
LEMMA PinnedIsSpared ==
  ASSUME NEW g \in Guards, NEW pins, NEW first, Own(g) \subseteq Ids,
         ~ HeldByOthers(g, pins, first), NEW i \in pins
  PROVE  i \notin Unloads(g, pins, first)
<1> SUFFICES ASSUME i \in Unloads(g, pins, first) PROVE FALSE
  OBVIOUS
<1>1. i \in Claimed(g, pins)
  BY UnloadsTyped DEF Claimed
<1>2. i \notin Stales(g, first)
  BY <1>1 DEF HeldByOthers
<1>3. i \notin Unwanted(g, pins)
  BY <1>1 DEF Unwanted
<1> QED BY <1>2, <1>3 DEF Unloads

\* Who is spared was dispatching, and still is after the step.
LEMMA StillDispatching ==
  ASSUME TypeOK, SparedInv, [Next]_vars, NEW g \in Guards, NEW x \in spared'[g]
  PROVE  /\ x[1] \in Guards \ {g}
         /\ Dispatching(x[1], x[2])
         /\ Dispatching(x[1], x[2])'
<1>1. x[1] \in Guards \ {g} /\ Dispatching(x[1], x[2])
  <2>1. CASE x \in spared[g]
    BY <2>1 DEF SparedInv
  <2>2. CASE x \notin spared[g]
    <3>1. ~ Elsewhere(g) /\ ~ Crash(Pid[g])
      BY <2>2 DEF Elsewhere, Crash
    <3>2. Step(g)
      BY <3>1, StepOrElsewhere
    <3>3. ~ Advance(g) /\ ~ Retry(g) /\ ~ Unwind(g)
      BY Leaves
    <3>4. ListResidents(g)
      BY <2>2, <3>2, <3>3
      DEF Step, WriteLease, ReadPins, PlanWave, Unload, Load, PlanDone, MarkLoaded, EndWave,
          DropLease, history
    <3>5. spared'[g] = {y \in (Guards \ {g}) \X Ids : Dispatching(y[1], y[2])}
      BY <3>3, <3>4 DEF ListResidents, TypeOK
    <3> QED BY <3>5
  <2> QED BY <2>1, <2>2
<1> DEFINE h == x[1]
<1>2. CASE Step(h)
  <2>1. pc[h] = "dispatch"
    BY <1>1 DEF Dispatching
  <2>2. EndWave(h)
    BY <1>2, <2>1 DEF Step, WriteLease, ListResidents, ReadPins, PlanWave, Unload, Load,
                      PlanDone, MarkLoaded, DropLease
  <2>3. spared'[g] = {y \in spared[g] : y[1] # h}
    BY <1>1, <2>2 DEF EndWave, Advance, Unwind
  <2> QED BY <2>3
<1>3. CASE Crash(Pid[h])
  <2>1. spared'[g] = {} \/ spared'[g] = {y \in spared[g] : Pid[y[1]] # Pid[h]}
    BY <1>3 DEF Crash
  <2> QED BY <2>1
<1>4. CASE Elsewhere(h)
  <2>1. pc'[h] = pc[h] /\ Own(h)' = Own(h)
    BY <1>1, <1>4, SameWave DEF Elsewhere
  <2>2. pc[h] = "dispatch" /\ x[2] \in Own(h)
    BY <1>1 DEF Dispatching
  <2>3. pc'[h] = "dispatch" /\ x[2] \in Own(h)'
    BY <2>1, <2>2
  <2> QED BY <1>1, <2>3 DEF Dispatching
<1> QED BY <1>1, <1>2, <1>3, <1>4, StepOrElsewhere

LEMMA NextSpared ==
  ASSUME TypeOK, LeaseInv, FileInv, ScopeInv, SparedInv, [Next]_vars
  PROVE  SparedInv'
<1> SUFFICES ASSUME NEW g \in Guards, NEW x \in spared'[g]
             PROVE  /\ x[1] \in Guards \ {g} /\ Dispatching(x[1], x[2])'
                    /\ Reliable /\ pc'[g] = "plan" => x[2] \in pinned'[g]
                    /\ Reliable => x[2] \notin unloads'[g]
  BY DEF SparedInv
<1>1. /\ x[1] \in Guards \ {g}
      /\ Dispatching(x[1], x[2])
      /\ Dispatching(x[1], x[2])'
  BY StillDispatching
<1>2. ASSUME Reliable, NEW read \in Scans(g)
      PROVE  x[2] \in LiveLeased(g, read) /\ x[2] \in LiveLoaded(g, read)
  BY <1>1, <1>2, BusyIsLeased
<1>3. x \in spared[g] => /\ Reliable /\ pc[g] = "plan" => x[2] \in pinned[g]
                         /\ Reliable => x[2] \notin unloads[g]
  BY DEF SparedInv
<1>4. CASE Step(g)
  <2>0. ~ Advance(g) /\ ~ Retry(g) /\ ~ Unwind(g)
    BY Leaves
  <2>1. CASE ListResidents(g)
    <3>1. unloads'[g] = {} /\ pc'[g] = "pin"
      BY <2>0, <2>1 DEF ListResidents, ScopeInv, Goto, TypeOK
    <3> QED BY <1>1, <3>1
  <2>2. CASE ReadPins(g)
    <3>1. PICK read \in Scans(g) : pinned'[g] = LiveLeased(g, read) /\ unloads'[g] = {}
      BY <2>2 DEF ReadPins, ScopeInv, TypeOK
    <3> QED BY <1>1, <1>2, <3>1
  <2>3. CASE PlanWave(g)
    <3>1. pc'[g] = "run" /\ pc[g] = "plan"
      BY <2>0, <2>3 DEF PlanWave, Goto, TypeOK
    <3>2. PICK first \in FirstCopies(g), read \in Scans(g) :
            /\ ~ HeldByOthers(g, Pins(g, read), first)
            /\ unloads'[g] = Unloads(g, Pins(g, read), first)
            /\ UNCHANGED spared
      BY <2>3, <3>1, Planned
    <3>3. Own(g) \subseteq Ids
      BY OwnTyped DEF TypeOK
    <3>4. Reliable => x[2] \in Pins(g, read)
      BY <1>2, <1>3, <3>1, <3>2 DEF Pins, Leads
    <3>5. Reliable => x[2] \notin unloads'[g]
      BY <3>2, <3>3, <3>4, PinnedIsSpared
    <3> QED BY <1>1, <3>1, <3>5
  <2>4. CASE ~ (ListResidents(g) \/ ReadPins(g) \/ PlanWave(g))
    <3>1. x \in spared[g] /\ unloads'[g] \subseteq unloads[g] /\ pc'[g] # "plan"
      BY <1>4, <2>0, <2>4
      DEF Step, WriteLease, Unload, Load, PlanDone, MarkLoaded, EndWave, DropLease, Goto,
          TypeOK, locals, history
    <3> QED BY <1>1, <1>3, <3>1
  <2> QED BY <2>1, <2>2, <2>3, <2>4
<1>5. CASE Crash(Pid[g])
  BY <1>1, <1>5 DEF Crash, TypeOK
<1>6. CASE Elsewhere(g)
  BY <1>1, <1>3, <1>6 DEF Elsewhere
<1> QED BY <1>4, <1>5, <1>6, StepOrElsewhere

-----------------------------------------------------------------------------
(* Listings and plans. *)

\* The pins are models that some other guard wants.
LEMMA PinsWanted ==
  ASSUME TypeOK, LeaseInv, FileInv, NEW g \in Guards, NEW read \in Scans(g)
  PROVE  LiveLeased(g, read) \subseteq WantedByOthers(g)
<1>1. ASSUME NEW p \in read PROVE fileModels[p] \subseteq WantedByOthers(g)
  <2>1. p \in Pids /\ p # Pid[g]
    BY ReadOthers DEF Foreign
  <2>2. fileModels[p] \subseteq UNION {Wanted(h) : h \in GuardsOf(p)}
    BY <2>1 DEF FileInv
  <2>3. GuardsOf(p) \subseteq Guards \ {g}
    BY <2>1 DEF GuardsOf
  <2> QED BY <2>2, <2>3 DEF WantedByOthers
<1>2. ASSUME NEW h \in Siblings(g) PROVE desired[h] \subseteq WantedByOthers(g)
  <2>1. h \in Guards \ {g} /\ desired[h] \subseteq Wanted(h)
    BY DEF Siblings, LeaseInv
  <2> QED BY <2>1 DEF WantedByOthers
<1> QED BY <1>1, <1>2 DEF LiveLeased

\* What other guards want is given with the schedules.
LEMMA SameWanted ==
  ASSUME [Next]_vars, NEW g \in Guards
  PROVE  WantedByOthers(g)' = WantedByOthers(g)
BY SameWork DEF WantedByOthers, Wanted

LEMMA NextListing ==
  ASSUME TypeOK, LeaseInv, FileInv, ListingInv, [Next]_vars
  PROVE  ListingInv'
<1> SUFFICES ASSUME NEW g \in Guards
             PROVE  /\ pc'[g] \in {"pin", "plan"} =>
                         \A i \in Ids \ touched'[g] : host'[i] = seen'[g][i]
                    /\ pc'[g] = "plan" => pinned'[g] \subseteq WantedByOthers(g)'
  BY DEF ListingInv
<1>1. /\ pc[g] \in {"pin", "plan"} => \A i \in Ids \ touched[g] : host[i] = seen[g][i]
      /\ pc[g] = "plan" => pinned[g] \subseteq WantedByOthers(g)
  BY DEF ListingInv
<1>2. WantedByOthers(g)' = WantedByOthers(g)
  BY SameWanted
<1>3. CASE Step(g)
  <2> SUFFICES ASSUME pc'[g] \in {"pin", "plan"}
               PROVE  /\ \A i \in Ids \ touched'[g] : host'[i] = seen'[g][i]
                      /\ pc'[g] = "plan" => pinned'[g] \subseteq WantedByOthers(g)'
    OBVIOUS
  <2>0. ~ Advance(g) /\ ~ Retry(g) /\ ~ Unwind(g)
    BY Leaves
  <2>1. CASE ListResidents(g)
    BY <2>0, <2>1 DEF ListResidents, Goto, TypeOK
  <2>2. CASE ReadPins(g)
    BY <1>1, <1>2, <2>2, PinsWanted DEF ReadPins, TypeOK, history
  <2> QED
    BY <1>3, <2>0, <2>1, <2>2
    DEF Step, WriteLease, PlanWave, Unload, Load, PlanDone, MarkLoaded, EndWave, DropLease,
        Goto, TypeOK
<1>4. CASE Crash(Pid[g])
  BY <1>4 DEF Crash, TypeOK
<1>5. CASE Elsewhere(g)
  BY <1>1, <1>2, <1>5 DEF Elsewhere, Acting
<1> QED BY <1>3, <1>4, <1>5, StepOrElsewhere

\* What a plan accounts for, of guard g.
PlanOf(g) ==
  /\ loads[g] \subseteq Own(g)
  /\ unloads[g] \subseteq Owned \cup Own(g)
  /\ \A i \in Own(g) \ touched[g] :
       \/ i \in loads[g]
       \/ host[i] > 0 /\ Enough(g, i, host[i]) /\ i \notin unloads[g]
  /\ \A i \in Owned \ touched[g] : host[i] > 0 =>
       i \in Own(g) \cup WantedByOthers(g) \cup Utility \cup unloads[g]

\* A plan that has just been made accounts for the listing it was made from.
LEMMA FreshPlan ==
  ASSUME TypeOK, ListingInv, [Next]_vars, NEW g \in Guards, PlanWave(g), pc'[g] = "run"
  PROVE  PlanOf(g)'
<1>1. PICK first \in FirstCopies(g), read \in Scans(g) :
        /\ ~ HeldByOthers(g, Pins(g, read), first)
        /\ unloads'[g] = Unloads(g, Pins(g, read), first)
        /\ loads'[g] = Loads(g)
        /\ UNCHANGED <<wave, host, touched>>
  BY Planned
<1>2. /\ Own(g)' = Own(g) /\ Own(g) \subseteq Ids
      /\ \A i, c : Enough(g, i, c)' = Enough(g, i, c)
      /\ WantedByOthers(g)' = WantedByOthers(g)
  BY <1>1, SameWave, SameWanted, OwnTyped DEF TypeOK
<1>3. /\ \A i \in Ids \ touched[g] : host[i] = seen[g][i]
      /\ Pins(g, read) \subseteq WantedByOthers(g)
  BY DEF PlanWave, ListingInv, Pins
<1>4. loads'[g] \subseteq Own(g)' /\ unloads'[g] \subseteq Owned \cup Own(g)'
  BY <1>1, <1>2, UnloadsTyped DEF Loads
<1>5. ASSUME NEW i \in Own(g), i \notin touched[g], i \notin Loads(g)
      PROVE  host[i] > 0 /\ Enough(g, i, host[i]) /\ i \notin Unloads(g, Pins(g, read), first)
  <2>1. i \in Reused(g)
    BY <1>5 DEF Loads
  <2>2. host[i] = seen[g][i] /\ seen[g][i] > 0 /\ Enough(g, i, seen[g][i])
    BY <1>2, <1>3, <1>5, <2>1 DEF Reused, Resident
  <2>3. ASSUME NEW j \in Own(g) PROVE i \notin Stale(g, first, j)
    BY <2>1 DEF Stale
  <2>4. i \notin Unloads(g, Pins(g, read), first)
    BY <2>3 DEF Unloads, Stales, Unwanted
  <2> QED BY <2>2, <2>4
<1>6. ASSUME NEW i \in Owned, i \notin touched[g], host[i] > 0
      PROVE  i \in Own(g) \cup WantedByOthers(g) \cup Utility
                    \cup Unloads(g, Pins(g, read), first)
  <2>1. i \in Ids
    BY ConstantsAssumption
  <2>2. i \in Resident(g)
    BY <1>3, <1>6, <2>1 DEF Resident
  <2>3. i \in Claimed(g, Pins(g, read)) => i \in WantedByOthers(g)
    BY <1>3 DEF Claimed
  <2> QED BY <2>2, <2>3 DEF Unloads, Unwanted
<1> QED BY <1>1, <1>2, <1>4, <1>5, <1>6 DEF PlanOf

\* A call of the host that is carried out is accounted for.
LEMMA PlanProgress ==
  ASSUME TypeOK, [Next]_vars, NEW g \in Guards, PlanOf(g), Step(g),
         pc[g] = "run", pc'[g] = "run"
  PROVE  PlanOf(g)'
<1>1. ~ Advance(g) /\ ~ Retry(g) /\ ~ Unwind(g)
  BY Leaves
<1>2. WantedByOthers(g)' = WantedByOthers(g)
  BY SameWanted
<1>3. ASSUME NEW i \in Ids, Unload(g, i) PROVE PlanOf(g)'
  <2>1. /\ unloads'[g] = unloads[g] \ {i} /\ i \in unloads[g]
        /\ host' = [host EXCEPT ![i] = 0]
        /\ loads'[g] = loads[g] /\ wave'[g] = wave[g] /\ touched'[g] = touched[g]
    BY <1>1, <1>3 DEF Unload, HostBecomes, TypeOK
  <2>2. /\ Own(g)' = Own(g)
        /\ \A j, c : Enough(g, j, c)' = Enough(g, j, c)
    BY <2>1, SameWave
  <2>3. Own(g) \subseteq Ids /\ Owned \subseteq Ids
    BY OwnTyped, ConstantsAssumption DEF TypeOK
  <2>4. \A j \in Ids : j # i => host'[j] = host[j]
    BY <2>1 DEF TypeOK
  <2>5. host'[i] = 0
    BY <2>1 DEF TypeOK
  <2> QED BY <1>2, <2>1, <2>2, <2>3, <2>4, <2>5 DEF PlanOf
<1>4. ASSUME NEW p \in Placements, Load(g, p) PROVE PlanOf(g)'
  <2>1. /\ unloads[g] = {} /\ unloads'[g] = {} /\ p.id \in loads[g]
        /\ p \in Collapsed(g, p.id)
        /\ host' = [host EXCEPT ![p.id] = p.ctx]
        /\ loads'[g] = loads[g] \ {p.id}
        /\ wave'[g] = wave[g] /\ touched'[g] = touched[g]
    BY <1>1, <1>4 DEF Load, HostBecomes, TypeOK
  <2>2. /\ Own(g)' = Own(g)
        /\ \A j, c : Enough(g, j, c)' = Enough(g, j, c)
    BY <2>1, SameWave
  <2>3. Own(g) \subseteq Ids /\ Owned \subseteq Ids /\ p.id \in Ids
    BY OwnTyped, ConstantsAssumption DEF TypeOK, Placements
  <2>4. \A j \in Ids : j # p.id => host'[j] = host[j]
    BY <2>1 DEF TypeOK
  <2>5. host'[p.id] = p.ctx /\ p.ctx > 0 /\ Enough(g, p.id, p.ctx)
    BY <2>1, <2>3, ConstantsAssumption DEF TypeOK, Placements, Ctx, Collapsed
  <2>6. p.id \in Own(g)
    BY <2>1 DEF PlanOf
  <2> QED BY <1>2, <2>1, <2>2, <2>3, <2>4, <2>5, <2>6 DEF PlanOf
<1> QED
  BY <1>1, <1>3, <1>4 DEF Step, WriteLease, ListResidents, ReadPins, PlanWave, PlanDone,
                          MarkLoaded, EndWave, DropLease, Goto, TypeOK

LEMMA NextPlan ==
  ASSUME TypeOK, ListingInv, PlanInv, [Next]_vars
  PROVE  PlanInv'
<1> SUFFICES ASSUME NEW g \in Guards, pc'[g] \in {"run", "mark", "dispatch"}
             PROVE  PlanOf(g)'
  BY DEF PlanInv, PlanOf
<1>1. pc[g] \in {"run", "mark", "dispatch"} => PlanOf(g)
  BY DEF PlanInv, PlanOf
<1>2. WantedByOthers(g)' = WantedByOthers(g)
  BY SameWanted
<1>3. CASE Step(g)
  <2>0. ~ Advance(g) /\ ~ Retry(g) /\ ~ Unwind(g)
    BY Leaves
  <2>1. CASE PlanWave(g)
    <3>1. pc'[g] = "run"
      BY <2>0, <2>1 DEF PlanWave, Goto, TypeOK
    <3> QED BY <2>1, <3>1, FreshPlan
  <2>2. CASE pc[g] = "run" /\ pc'[g] = "run"
    BY <1>1, <1>3, <2>2, PlanProgress
  <2>3. CASE PlanDone(g) \/ MarkLoaded(g)
    <3>1. /\ pc[g] \in {"run", "mark"} /\ wave'[g] = wave[g]
          /\ UNCHANGED <<host, unloads, loads, touched>>
      BY <2>3 DEF PlanDone, MarkLoaded, locals, history
    <3>2. /\ Own(g)' = Own(g)
          /\ \A j, c : Enough(g, j, c)' = Enough(g, j, c)
      BY <3>1, SameWave
    <3> QED BY <1>1, <1>2, <3>1, <3>2 DEF PlanOf
  <2> QED
    BY <1>3, <2>0, <2>1, <2>2, <2>3
    DEF Step, WriteLease, ListResidents, ReadPins, Unload, Load, EndWave, DropLease, Goto,
        TypeOK
<1>4. CASE Crash(Pid[g])
  BY <1>4 DEF Crash, TypeOK
<1>5. CASE Elsewhere(g)
  <2>1. PlanOf(g) /\ pc[g] \in Acting
    BY <1>1, <1>5 DEF Elsewhere, Acting
  <2>2. /\ Own(g)' = Own(g)
        /\ \A j, c : Enough(g, j, c)' = Enough(g, j, c)
    BY <1>5, SameWave DEF Elsewhere
  <2>3. Own(g) \subseteq Ids /\ Owned \subseteq Ids
    BY OwnTyped, ConstantsAssumption DEF TypeOK
  <2> QED BY <1>2, <1>5, <2>1, <2>2, <2>3 DEF PlanOf, Elsewhere
<1> QED BY <1>3, <1>4, <1>5, StepOrElsewhere

-----------------------------------------------------------------------------
(* What a guard has left. *)

\* The counters are numbers.
LEMMA CountersTyped ==
  ASSUME TypeOK, NEW g \in Guards
  PROVE  /\ wave[g] \in Nat /\ attempt[g] \in Nat /\ Len(work[g]) \in Nat
         /\ MostAttempts \in Nat /\ MostAttempts > 0
         /\ MaxAttempts \in Nat /\ MaxAttempts <= MostAttempts
<1>1. work[g] \in Seq(SUBSET Placements)
  BY ConstantsAssumption DEF TypeOK, ScheduleType
<1>2. /\ MostAttempts \in Nat /\ MostAttempts > 0
      /\ MaxAttempts \in Nat /\ MaxAttempts <= MostAttempts
  BY ConstantsAssumption DEF MostAttempts
<1> QED BY <1>1, <1>2 DEF TypeOK

\* Leaving a wave uses it up.
LEMMA AdvanceLowers ==
  ASSUME TypeOK, BudgetInv, NEW g \in Guards, Advance(g),
         pc[g] \in {"write"} \cup Leased
  PROVE  /\ Lower(g)
         /\ pc'[g] \in {"write"} \cup Leased => wave'[g] <= Len(work[g])
         /\ pc'[g] = "write" => attempt'[g] = 0
         /\ pc'[g] # "list"
<1>1. /\ wave[g] \in Nat /\ Len(work[g]) \in Nat /\ wave[g] <= Len(work[g])
  BY CountersTyped DEF BudgetInv
<1>2. /\ wave'[g] = wave[g] + 1 /\ attempt'[g] = 0
      /\ pc'[g] = IF wave[g] < Len(work[g]) THEN "write" ELSE "drop"
  BY DEF Advance, Goto, TypeOK
<1> QED BY <1>1, <1>2 DEF Lower, Leased, Acting

\* A retry goes back to a listing only while attempts are left.
LEMMA RetryLowers ==
  ASSUME TypeOK, NEW g \in Guards, Retry(g), pc[g] \in {"plan", "run"}
  PROVE  /\ Lower(g)
         /\ pc'[g] = "list" /\ wave'[g] = wave[g] /\ attempt'[g] = attempt[g]
         /\ attempt'[g] < MostAttempts
<1>1. /\ pc'[g] = "list" /\ wave'[g] = wave[g] /\ attempt'[g] = attempt[g]
      /\ attempt[g] < MaxAttempts
  BY DEF Retry, Goto, TypeOK
<1> QED BY <1>1, CountersTyped DEF Lower, Ahead

\* Each step of a guard uses something up, and keeps what is left in bounds.
LEMMA StepLowers ==
  ASSUME TypeOK, BudgetInv, NEW g \in Guards, Step(g)
  PROVE  /\ Lower(g)
         /\ pc'[g] \in {"write"} \cup Leased => wave'[g] <= Len(work[g])
         /\ pc'[g] = "write" => attempt'[g] = 0
         /\ pc'[g] = "list" => attempt'[g] < MostAttempts
<1> DEFINE Kept == /\ pc'[g] \in {"write"} \cup Leased => wave'[g] <= Len(work[g])
                   /\ pc'[g] = "write" => attempt'[g] = 0
                   /\ pc'[g] = "list" => attempt'[g] < MostAttempts
<1>t. /\ wave[g] \in Nat /\ attempt[g] \in Nat /\ Len(work[g]) \in Nat
      /\ MostAttempts \in Nat /\ MostAttempts > 0
  BY CountersTyped
<1>b. /\ pc[g] \in {"write"} \cup Leased => wave[g] <= Len(work[g])
      /\ pc[g] = "write" => attempt[g] = 0
      /\ pc[g] = "list" => attempt[g] < MostAttempts
  BY DEF BudgetInv
<1>1. ASSUME Advance(g), pc[g] \in {"write", "list", "plan", "run", "dispatch"}
      PROVE  Lower(g) /\ Kept
  BY <1>1, AdvanceLowers DEF Leased, Acting
<1>2. ASSUME Retry(g), pc[g] \in {"plan", "run"}
      PROVE  Lower(g) /\ Kept
  BY <1>2, <1>b, RetryLowers DEF Leased, Acting
<1>3. ASSUME wave'[g] = wave[g], attempt'[g] = attempt[g],
             <<pc[g], pc'[g]>> \in {<<"write", "list">>, <<"pin", "plan">>, <<"plan", "run">>,
                                    <<"run", "mark">>, <<"mark", "dispatch">>, <<"dispatch", "drop">>,
                                    <<"drop", "done">>}
      PROVE  Lower(g) /\ Kept
  BY <1>3, <1>t, <1>b DEF Lower, Ahead, Leased, Acting
<1>4. CASE WriteLease(g)
  BY <1>1, <1>3, <1>4 DEF WriteLease, Goto, TypeOK
<1>5. CASE ListResidents(g)
  <2>1. CASE attempt' = [attempt EXCEPT ![g] = NextAttempt(@)] /\ Goto(g, "pin") /\ UNCHANGED wave
    BY <1>5, <1>t, <1>b, <2>1
       DEF ListResidents, NextAttempt, Goto, TypeOK, Lower, Leased, Acting
  <2> QED BY <1>1, <1>5, <2>1 DEF ListResidents
<1>6. CASE ReadPins(g)
  BY <1>3, <1>6 DEF ReadPins, Goto, TypeOK
<1>7. CASE PlanWave(g)
  <2>1. \/ Retry(g) \/ Advance(g)
        \/ Goto(g, "run") /\ UNCHANGED <<wave, attempt>>
    BY <1>7 DEF PlanWave
  <2> QED BY <1>1, <1>2, <1>3, <1>7, <2>1 DEF PlanWave, Goto, TypeOK
<1>8. ASSUME NEW i \in Ids, Unload(g, i)
      PROVE  Lower(g) /\ Kept
  <2>1. CASE unloads' = [unloads EXCEPT ![g] = @ \ {i}] /\ UNCHANGED <<pc, wave, attempt>>
    <3>1. Below(unloads'[g], unloads[g])
      BY <1>8, <2>1 DEF Unload, Below, TypeOK
    <3> QED BY <1>b, <2>1, <3>1 DEF Lower
  <2> QED BY <1>1, <1>8, <2>1 DEF Unload
<1>9. ASSUME NEW p \in Placements, Load(g, p)
      PROVE  Lower(g) /\ Kept
  <2>1. CASE loads' = [loads EXCEPT ![g] = @ \ {p.id}] /\ UNCHANGED <<pc, wave, attempt, unloads>>
    <3>1. Below(loads'[g], loads[g])
      BY <1>9, <2>1 DEF Load, Below, TypeOK
    <3> QED BY <1>b, <2>1, <3>1 DEF Lower
  <2> QED BY <1>1, <1>2, <1>9, <2>1 DEF Load
<1>10. CASE PlanDone(g)
  BY <1>3, <1>10 DEF PlanDone, Goto, TypeOK
<1>11. CASE MarkLoaded(g)
  BY <1>3, <1>11 DEF MarkLoaded, Goto, TypeOK
<1>12. CASE EndWave(g)
  BY <1>1, <1>3, <1>12 DEF EndWave, Unwind, Goto, TypeOK
<1>13. CASE DropLease(g)
  BY <1>3, <1>13 DEF DropLease, Goto, TypeOK
<1> QED
  BY <1>4, <1>5, <1>6, <1>7, <1>8, <1>9, <1>10, <1>11, <1>12, <1>13 DEF Step

LEMMA InitBudget ==
  ASSUME Init
  PROVE  BudgetInv
<1> SUFFICES ASSUME NEW g \in Guards
             PROVE  /\ pc[g] = "write" => 1 <= Len(work[g])
                    /\ pc[g] \in {"write", "done"} /\ attempt[g] = 0 /\ wave[g] = 1
  BY DEF Init, BudgetInv, Leased, Acting
<1>1. work[g] \in Seq(SUBSET Placements)
  BY ConstantsAssumption DEF Init, ScheduleType
<1>2. work[g] # <<>> => 1 <= Len(work[g])
  BY <1>1
<1> QED BY <1>2 DEF Init

\* What is left stays in bounds.
LEMMA NextBudget ==
  ASSUME TypeOK, BudgetInv, [Next]_vars
  PROVE  BudgetInv'
<1> SUFFICES ASSUME NEW g \in Guards
             PROVE  /\ pc'[g] \in {"write"} \cup Leased => wave'[g] <= Len(work[g])
                    /\ pc'[g] = "write" => attempt'[g] = 0
                    /\ pc'[g] = "list" => attempt'[g] < MostAttempts
  BY SameWork DEF BudgetInv, MostAttempts, Leased, Acting
<1>1. CASE Step(g)
  BY <1>1, StepLowers
<1>2. CASE Crash(Pid[g])
  BY <1>2 DEF Crash, TypeOK, Leased, Acting
<1>3. CASE Elsewhere(g)
  BY <1>3 DEF Elsewhere, BudgetInv
<1> QED BY <1>1, <1>2, <1>3, StepOrElsewhere

-----------------------------------------------------------------------------
(* Theorems. *)

\* The inductive invariant holds in every reachable state, for every set of
\* guards, processes and schedules, whether or not writes and reads fail and
\* processes are killed.
THEOREM Invariance == Spec => []IInv
<1>1. Init => IInv
  BY InitTyped, InitLease, InitBudget DEF IInv
<1>2. IInv /\ [Next]_vars => IInv'
  BY NextTyped, NextLease, NextFile, NextScope, NextSpared, NextListing, NextPlan, NextBudget
     DEF IInv
<1> QED BY <1>1, <1>2, PTL DEF Spec

\* While every lease file is written and read, no plan of ensure_wave_loaded
\* unloads a model on which a guard of any process has been dispatching since
\* the plan's listing.  With failing writes it is false (run mark_fails).
THEOREM BusySpared ==
  ASSUME ~ WritesFail, ~ ReadsFail
  PROVE  Spec => []FreshPlanSparesBusy
<1>1. IInv => FreshPlanSparesBusy
  BY DEF IInv, SparedInv, FreshPlanSparesBusy, Reliable
<1> QED BY <1>1, Invariance, PTL

\* A wave is dispatched with each of its models resident and large enough,
\* unless somebody else changed that model since the listing, after any
\* sequence of blocked plans, failed loads and retries.
THEOREM LoadedWhenDispatched == Spec => []DispatchedIsLoaded
<1>1. IInv => DispatchedIsLoaded
  <2> SUFFICES ASSUME IInv, NEW g \in Guards, NEW i \in Ids, Dispatching(g, i),
                      i \notin touched[g]
               PROVE  host[i] > 0 /\ Enough(g, i, host[i])
    BY DEF DispatchedIsLoaded
  <2>1. pc[g] = "dispatch" /\ i \in Own(g) \ touched[g]
    BY DEF Dispatching
  <2>2. loads[g] = {}
    BY <2>1 DEF IInv, ScopeInv
  <2> QED BY <2>1, <2>2 DEF IInv, PlanInv
<1> QED BY <1>1, Invariance, PTL

\* When a wave is dispatched, what is resident in the namespace is wanted by
\* some guard, is the utility binding, or was brought in since the listing.
THEOREM NoneLeftBehind == Spec => []NoOrphans
<1>1. IInv => NoOrphans
  <2> SUFFICES ASSUME IInv, NEW g \in Guards, NEW i \in Owned, pc[g] = "dispatch",
                      host[i] > 0, i \notin touched[g]
               PROVE  i \in Own(g) \cup WantedByOthers(g) \cup Utility
    BY DEF NoOrphans
  <2>1. unloads[g] = {}
    BY DEF IInv, ScopeInv
  <2> QED BY <2>1 DEF IInv, PlanInv
<1> QED BY <1>1, Invariance, PTL

\* No plan unloads a model of the user's that the guard's wave does not address.
THEOREM UserModelsKept == Spec => []UserModelsStay
<1>1. IInv => UserModelsStay
  BY DEF IInv, PlanInv, ScopeInv, UserModelsStay
<1> QED BY <1>1, Invariance, PTL

-----------------------------------------------------------------------------
(* Leader election. *)

\* An acquiring guard's lease is visible to the others as long as it has not
\* been loaded.
LEMMA AcquirerSeen ==
  ASSUME IInv, NEW i \in Ids, NEW g \in Guards, NEW h \in Acquirers(i), g # h,
         i \notin LiveLoaded(g, Foreign(g))
  PROVE  \/ Pid[h] = Pid[g] /\ h \in AcquiringSiblings(g, i)
         \/ Pid[h] # Pid[g] /\ Pid[h] \in AcquiringForeign(Foreign(g), i)
<1>1. h \in Guards /\ pc[h] \in Leased /\ pc[h] # "killed" /\ i \in Own(h)
  BY DEF Acquirers, Leased, Acting
<1>2. alive[Pid[h]] /\ i \in desired[h] /\ i \in fileModels[Pid[h]]
  BY <1>1, ConstantsAssumption DEF IInv, TypeOK, LeaseInv, Pids
<1>3. CASE Pid[h] = Pid[g]
  BY <1>1, <1>2, <1>3 DEF AcquiringSiblings, Siblings, LiveLoaded
<1>4. CASE Pid[h] # Pid[g]
  BY <1>1, <1>2, <1>4 DEF AcquiringForeign, Foreign, LiveLoaded, Pids
<1> QED BY <1>3, <1>4

\* Two guards never lead the same model: each would be ahead of the other.
LEMMA OneLeader ==
  ASSUME IInv, NEW i \in Ids, NEW g \in Acquirers(i), NEW h \in Acquirers(i),
         Leads(g, i, Foreign(g)), Leads(h, i, Foreign(h))
  PROVE  g = h
<1> SUFFICES ASSUME g # h PROVE FALSE
  OBVIOUS
<1>1. g \in Guards /\ h \in Guards
  BY DEF Acquirers
<1>2. i \notin LiveLoaded(g, Foreign(g)) /\ i \notin LiveLoaded(h, Foreign(h))
  BY DEF Leads
<1>3. Pid[g] \in Nat /\ Pid[h] \in Nat /\ Token[g] \in Nat /\ Token[h] \in Nat
  BY <1>1, ConstantsAssumption
<1>4. CASE Pid[g] = Pid[h]
  <2>1. h \in AcquiringSiblings(g, i) /\ g \in AcquiringSiblings(h, i)
    BY <1>1, <1>2, <1>4, AcquirerSeen
  <2>2. Token[g] < Token[h] /\ Token[h] < Token[g]
    BY <2>1 DEF Leads
  <2> QED BY <1>3, <2>2
<1>5. CASE Pid[g] # Pid[h]
  <2>1. Pid[h] \in AcquiringForeign(Foreign(g), i) /\ Pid[g] \in AcquiringForeign(Foreign(h), i)
    BY <1>1, <1>2, <1>5, AcquirerSeen
  <2>2. Pid[g] < Pid[h] /\ Pid[h] < Pid[g]
    BY <2>1 DEF Leads
  <2> QED BY <1>3, <2>2
<1> QED BY <1>4, <1>5

\* A non-empty set of naturals has a least element.
LEMMA LeastNat ==
  ASSUME NEW T \in SUBSET Nat, T # {}
  PROVE  \E m \in T : \A n \in T : m <= n
<1> DEFINE R == {p \in Nat \X Nat : p[1] < p[2]}
<1>1. IsWellFoundedOn(R, Nat)
  BY Zenon, NatLessThanWellFounded DEF OpToRel
<1>2. \A x, y \in Nat : x < y => <<x, y>> \in R
  OBVIOUS
<1> HIDE DEF R
<1>3. PICK m \in T : \A n \in T : ~ (<<n, m>> \in R)
  BY <1>1, WFMin
<1>4. \A n \in T : n \in Nat /\ ~ (n < m)
  BY <1>2, <1>3
<1> QED BY <1>4

\* Some guard of a set is first by pid and then by token.
LEMMA FirstGuard ==
  ASSUME NEW A \in SUBSET Guards, A # {}
  PROVE  \E g \in A : \A h \in A \ {g} :
           Pid[g] < Pid[h] \/ (Pid[g] = Pid[h] /\ Token[g] < Token[h])
<1>1. \A g \in A : Pid[g] \in Nat /\ Token[g] \in Nat
  BY ConstantsAssumption
<1>2. PICK p \in {Pid[g] : g \in A} : \A n \in {Pid[g] : g \in A} : p <= n
  <2> DEFINE T == {Pid[g] : g \in A}
  <2>1. T \in SUBSET Nat /\ T # {}
    BY <1>1
  <2> HIDE DEF T
  <2>2. \E m \in T : \A n \in T : m <= n
    BY <2>1, LeastNat
  <2> QED BY <2>2 DEF T
<1> DEFINE B == {g \in A : Pid[g] = p}
<1>3. PICK t \in {Token[g] : g \in B} : \A n \in {Token[g] : g \in B} : t <= n
  <2> DEFINE T == {Token[g] : g \in B}
  <2>1. T \in SUBSET Nat /\ T # {}
    BY <1>1, <1>2
  <2> HIDE DEF T
  <2>2. \E m \in T : \A n \in T : m <= n
    BY <2>1, LeastNat
  <2> QED BY <2>2 DEF T
<1>4. PICK g \in B : Token[g] = t
  BY <1>3
<1>5. ASSUME NEW h \in A \ {g}
      PROVE  Pid[g] < Pid[h] \/ (Pid[g] = Pid[h] /\ Token[g] < Token[h])
  <2>1. CASE Pid[h] = p
    <3>1. Token[g] <= Token[h]
      BY <1>3, <1>4, <2>1
    <3>2. Token[g] # Token[h]
      BY <1>4, <2>1, ConstantsAssumption
    <3> QED BY <1>1, <1>4, <2>1, <3>1, <3>2
  <2>2. CASE Pid[h] # p
    <3>1. p <= Pid[h] /\ Pid[g] = p
      BY <1>2, <1>4
    <3> QED BY <1>1, <2>2, <3>1
  <2> QED BY <2>1, <2>2
<1> QED BY <1>4, <1>5

\* The first of several guards that acquire a model nobody has loaded leads.
LEMMA SomeLeader ==
  ASSUME IInv, ~ WritesFail, NEW i \in Ids,
         \A g \in Guards : i \notin loaded[g],
         {g \in Guards : i \in desired[g]} = Acquirers(i),
         NEW a \in Acquirers(i), NEW b \in Acquirers(i), a # b
  PROVE  \E g \in Acquirers(i) : Leads(g, i, Foreign(g))
<1>1. Acquirers(i) \in SUBSET Guards /\ Acquirers(i) # {}
  BY DEF Acquirers
<1>2. PICK g \in Acquirers(i) : \A h \in Acquirers(i) \ {g} :
             Pid[g] < Pid[h] \/ (Pid[g] = Pid[h] /\ Token[g] < Token[h])
  BY <1>1, FirstGuard
<1>3. g \in Guards /\ Pid[g] \in Nat /\ \A p \in Pids : p \in Nat
  BY <1>1, ConstantsAssumption DEF Pids
<1>4. \A p \in Foreign(g) : /\ p \in Pids /\ p # Pid[g]
                            /\ fileModels[p] = UNION {desired[h] : h \in GuardsOf(p)}
                            /\ fileLoaded[p] = UNION {loaded[h] : h \in GuardsOf(p)}
  BY DEF IInv, FileInv, Foreign
<1>5. i \notin LiveLoaded(g, Foreign(g))
  BY <1>4 DEF LiveLoaded, GuardsOf, Siblings
<1>6. AcquiringSiblings(g, i) # {} \/ AcquiringForeign(Foreign(g), i) # {}
  <2>1. PICK h \in Acquirers(i) : h # g
    OBVIOUS
  <2> QED BY <1>3, <1>5, <2>1, AcquirerSeen
<1>7. ASSUME NEW h \in AcquiringSiblings(g, i) PROVE Token[g] < Token[h]
  <2>1. h \in Guards /\ h # g /\ Pid[h] = Pid[g] /\ i \in desired[h]
    BY DEF AcquiringSiblings, Siblings
  <2>2. h \in Acquirers(i)
    BY <2>1
  <2> QED BY <1>2, <1>3, <2>1, <2>2
<1>8. ASSUME NEW p \in AcquiringForeign(Foreign(g), i) PROVE Pid[g] < p
  <2>1. p \in Foreign(g) /\ i \in fileModels[p]
    BY DEF AcquiringForeign
  <2>2. PICK h \in GuardsOf(p) : i \in desired[h]
    BY <1>4, <2>1
  <2>3. h \in Guards /\ Pid[h] = p /\ p # Pid[g]
    BY <1>4, <2>1, <2>2 DEF GuardsOf
  <2>4. h \in Acquirers(i) \ {g}
    BY <2>2, <2>3
  <2> QED BY <1>2, <2>3, <2>4
<1>9. i \in Own(g)
  BY DEF Acquirers
<1> QED BY <1>5, <1>6, <1>7, <1>8, <1>9 DEF Leads

\* Of the guards that want a model, at most one leads, and under the conditions
\* that ExactlyOneLeads states exactly one does, for every number of processes
\* and of guards in each.
THEOREM OneLeads == Spec => []ExactlyOneLeads
<1>1. IInv => ExactlyOneLeads
  BY OneLeader, SomeLeader DEF ExactlyOneLeads
<1> QED BY <1>1, Invariance, PTL

\* Each step of a guard uses up a wave, one of the attempts at it, a place or a part of
\* its plan; a crash of its process is the last; and nothing another guard, the host or
\* the user does gives any of it back.
THEOREM GuardsGoForward == Spec => GuardsDescend
<1>1. ASSUME IInv, [Next]_vars, NEW g \in Guards, Moved(g)
      PROVE  Lower(g)
  <2>t. TypeOK /\ BudgetInv
    BY <1>1 DEF IInv
  <2>1. CASE Step(g)
    BY <2>t, <2>1, StepLowers
  <2>2. CASE Crash(Pid[g])
    <3>1. /\ pc'[g] = "killed" /\ wave'[g] = wave[g] /\ attempt'[g] = attempt[g]
      BY <2>2, <2>t DEF Crash, TypeOK
    <3>2. pc[g] \in Places /\ pc[g] # "killed"
      BY <1>1, <2>2, <2>t DEF Crash, IInv, LeaseInv, TypeOK
    <3> QED BY <3>1, <3>2 DEF Lower, Ahead, Places
  <2>3. CASE Elsewhere(g)
    BY <1>1, <2>3 DEF Elsewhere, Moved
  <2> QED BY <1>1, <2>t, <2>1, <2>2, <2>3, StepOrElsewhere
<1>2. IInv /\ [Next]_vars => [\A g \in Guards : Moved(g) => Lower(g)]_vars
  BY <1>1
<1> QED BY <1>2, Invariance, PTL DEF Spec, GuardsDescend
=============================================================================
