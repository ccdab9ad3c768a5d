---------------------------- MODULE MCStepGraph ----------------------------
(* Sets of missions for the runs of StepGraph.                              *)
EXTENDS StepGraph

\* A task never names itself (MissionConfig::validate refuses it).
DepGraphs == {d \in [Tasks -> SUBSET Tasks] : \A t \in Tasks : t \notin d[t]}

AllOf(x) == [t \in Tasks |-> x]
Every(x) == [s \in StepId |-> x]

Survivors == {{"complete"}, {"complete", "error"}}
AnyRunOn  == Survivors \cup {{"error"}}

Plain(graphs, runOn) ==
  [deps : graphs, runOn : [Tasks -> runOn], phase : [Tasks -> Phases],
   size : {AllOf(1)}, kind : {Every("ordinary")}, gate : {Every("none")},
   unmet : {{}, {NPhases}}]

\* Every dependency graph, cyclic ones included, one plain step per task.
ShapeMissions == Plain(DepGraphs, Survivors)

\* Tasks that only run after a failure as well (a warning of the validator).
CleanupMissions == Plain(DepGraphs, Survivors \cup {{"error"}})

\* Gates, kinds and tasks of several steps: a gate on one step, or on the same step of
\* both tasks, and one step of the first task of another kind, or only steps that record.
Aligned(x, f) == \A s, r \in StepId : f[s] # x /\ f[r] # x => s[2] = r[2]
Single(x, f) == \A s, r \in StepId : f[s] # x /\ f[r] # x => s = r /\ s[1] = 1
GateMissions ==
  [deps : DepGraphs, runOn : {AllOf({"complete"}), AllOf({"complete", "error"})},
   phase : {AllOf(1)}, size : [Tasks -> 1 .. MaxSteps],
   kind : {k \in [StepId -> Kinds] : Single("ordinary", k)} \cup {Every("recordOnly")},
   gate : {g \in [StepId -> Gates] : Aligned("none", g)},
   unmet : {{}}]
=============================================================================
