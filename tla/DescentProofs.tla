---------------------------- MODULE DescentProofs ----------------------------
(***************************************************************************)
(* Every step of StepGraph brings a run closer to its end: the measure of  *)
(* Descends, one kind of step at a time.                                   *)
(***************************************************************************)
EXTENDS LineageProofs

\* The steps that have not ended and those not started, after one step.
LEMMA SetsShrink ==
  ASSUME IInv, [Next]_vars
  PROVE  /\ mission' = mission /\ Steps' = Steps
         /\ Unended' \subseteq Unended /\ Waiting' \subseteq Waiting
<1>1. mission' = mission /\ Steps' = Steps
  BY PlannedShrinks, SameMission
<1>2. Waiting' \subseteq Waiting
  BY <1>1, PlannedShrinks DEF Waiting
<1>3. Unended' \subseteq Unended
  BY <1>1, PlannedShrinks DEF Unended
<1> QED BY <1>1, <1>2, <1>3

\* A step that ends no step, starts none and stays in its phase has to move on.
LEMMA MovesOn ==
  ASSUME IInv, [Next]_vars, UNCHANGED signalVars, phase' = phase,
         Unended' = Unended /\ Waiting' = Waiting =>
           \/ Place' < Place
           \/ /\ Place' = Place
              /\ Below(pending', pending) \/ (pending' = pending /\ sweepAt' > sweepAt)
  PROVE  Lower
<1>1. Unended' # Unended \/ (Unended' = Unended /\ Waiting' # Waiting)
      \/ (Unended' = Unended /\ Waiting' = Waiting)
  OBVIOUS
<1> QED BY <1>1, SetsShrink DEF Lower, Below

\* A flag of the stop is set, or the watchdog moves on.
LEMMA StopLowers ==
  ASSUME TypeOK, Stops
  PROVE  Lower
BY DEF TypeOK, Stops, Signal, BoundReached, BoundStored, BoundMarked, Lower, StopAdvances, Watch

\* What the gates leave of a pick is never nothing: a gated step is held back only
\* beside an ungated one.
LEMMA PickOffers ==
  ASSUME Pick
  PROVE  pending' \cup passed' # {}
<1> DEFINE ready == NextWaveReady
<1>1. /\ ready # {} /\ passed' = Ungated(ready)
      /\ pending' = ready \ (Ungated(ready) \cup Held(ready))
  BY DEF Pick
<1>2. CASE Ungated(ready) = {}
  BY <1>1, <1>2 DEF Held
<1>3. CASE Ungated(ready) # {}
  BY <1>1, <1>3
<1> QED BY <1>2, <1>3

\* The end of a step lowers the set of those that have not ended.
LEMMA EndLowers ==
  ASSUME IInv, [Next]_vars, NEW s \in Steps, NEW ok \in BOOLEAN, Ends(s, ok)
  PROVE  Lower
<1>1. UNCHANGED <<phase, signalVars>>
  BY DEF Ends, DeclineGate, RefuseResume, ReconcileLost, StepTerminal, signalVars
<1>2. s \in Unended
  BY EndsFacts DEF Unended, IsReady, Terminal, Dead
<1>3. s \notin Unended'
  BY EndsFacts DEF Unended
<1> QED BY <1>1, <1>2, <1>3, MovesOn

\* A wave starts steps that were Planned.
LEMMA WaveLowers ==
  ASSUME IInv, [Next]_vars, StartWave
  PROVE  Lower
<1>1. PICK s \in passed : s \in Steps /\ status[s] = "Planned"
  BY DEF StartWave, IInv, TypeOK, ApprovedStaysReady, IsReady
<1>2. s \in Waiting /\ status'[s] = "Running"
  BY <1>1, StepTyped DEF StartWave, Waiting
<1>3. s \notin Waiting'
  BY <1>2 DEF Waiting
<1>4. UNCHANGED <<phase, signalVars>>
  BY DEF StartWave
<1> QED BY <1>2, <1>3, <1>4, MovesOn

\* The steps of the scheduler that move no status go forward in the pass.
LEMMA PassLowers ==
  ASSUME IInv, [Next]_vars,
         Pick \/ EndPass \/ EmptyPass \/ WaveReturns \/ EndWave
           \/ \E s \in Steps : ApproveGate(s)
  PROVE  Lower
<1>1. CASE Pick
  <2>1. Place = 5 /\ Place' = 4 /\ UNCHANGED <<phase, signalVars>>
    BY <1>1, PickOffers DEF Pick, Place
  <2> QED BY <2>1, MovesOn
<1>2. CASE EndPass \/ EmptyPass \/ WaveReturns \/ EndWave
  <2>1. Place' < Place /\ UNCHANGED <<phase, signalVars>>
    BY <1>2 DEF EndPass, EmptyPass, WaveReturns, EndWave, Place, passVars
  <2> QED BY <2>1, MovesOn
<1>3. ASSUME NEW s \in Steps, ApproveGate(s)
      PROVE  Lower
  <2>1. UNCHANGED <<phase, signalVars>> /\ Below(pending', pending)
    BY <1>3 DEF ApproveGate, First, Below
  <2>2. Place = 4 /\ Place' = 4
    BY <1>3 DEF ApproveGate, First, Place
  <2> QED BY <2>1, <2>2, MovesOn
<1> QED BY <1>1, <1>2, <1>3

\* The launcher goes forward to the next phase, task or place.
LEMMA LauncherLowers ==
  ASSUME IInv, [Next]_vars, Launcher
  PROVE  Lower
<1>p. phase \in Nat /\ sweepAt \in Nat
  BY PhaseTyped DEF IInv
<1>1. CASE SkipPhase \/ NextPhase
  BY <1>p, <1>1 DEF SkipPhase, NextPhase, Lower
<1>2. CASE EnterPhase \/ StartPass \/ PassReturns \/ EndRun \/ Reconcile
  <2>1. Place' < Place /\ UNCHANGED <<phase, signalVars>>
    BY <1>2 DEF EnterPhase, StartPass, PassReturns, EndRun, Reconcile, FailIfInterrupted, Place
  <2> QED BY <2>1, MovesOn
<1>3. CASE SweepTask
  <2>1. UNCHANGED <<phase, signalVars, pending>> /\ sweepAt' > sweepAt
    BY <1>p, <1>3 DEF SweepTask, passVars
  <2>2. Place = 2 /\ Place' = 2
    BY <1>3 DEF SweepTask, Place
  <2> QED BY <2>1, <2>2, MovesOn
<1> QED BY <1>1, <1>2, <1>3 DEF Launcher

\* Every step of a run lowers the measure.
THEOREM EveryStepDescends == Spec => Descends
<1>1. ASSUME IInv, [Next]_vars
      PROVE  [Lower]_vars
  <2>1. CASE UNCHANGED vars
    BY <2>1
  <2>2. CASE Launcher
    BY <1>1, <2>2, LauncherLowers
  <2>3. CASE Stops
    BY <1>1, <2>3, StopLowers DEF IInv
  <2>4. CASE Scheduler
    <3>1. CASE StartWave
      BY <1>1, <3>1, WaveLowers
    <3>2. ASSUME NEW s \in Steps, NEW ok \in BOOLEAN, Ends(s, ok)
          PROVE  Lower
      BY <1>1, <3>2, EndLowers
    <3> QED BY <1>1, <2>4, <3>1, <3>2, PassLowers DEF Scheduler, Ends
  <2> QED BY <1>1, <2>1, <2>2, <2>3, <2>4 DEF Next, Terminated
<1> QED BY <1>1, Invariance, PTL DEF Spec, Descends
=============================================================================
