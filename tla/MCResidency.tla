---------------------------- MODULE MCResidency ----------------------------
(* Instances for the runs of Residency.  Identifiers a and b are darkmux's    *)
(* copies of models ka and kb; u is a name of the user's for model ka.        *)
EXTENDS Residency, TLC

MCKey == [i \in Ids |-> IF i = "b" THEN "kb" ELSE "ka"]
MCToken == [g \in Guards |-> g]

Together == [g \in Guards |-> 1]
TwoAndOne == [g \in Guards |-> IF g <= 2 THEN 1 ELSE 2]

One(i, c) == {[id |-> i, ctx |-> c]}

\* Two models, one of them at two contexts; duplicates in a wave; two models.
Simple == {One("a", 1), One("a", 2), One("b", 1)}
Mixed == {One("a", 1) \cup One("a", 2), One("a", 1) \cup One("b", 1)}

\* A context that grows, a model that changes, and a change back.
Pairs == {<<One("a", 1), One("a", 2)>>, <<One("a", 2), One("b", 1)>>,
          <<One("b", 1), One("a", 1)>>}

\* A guard with two waves against one of another process, and three guards
\* that all want one model.
LeaseSchedules ==
  {<<<<>>, vw, <<x>>>> : vw \in Pairs, x \in Simple \cup Mixed} \cup
  {<<<<One("a", 2)>>, <<One("a", 2)>>, <<One("a", 1)>>>>}

\* One wave in each of two processes.
PairSchedules ==
  {<<<<>>, <<v>>, <<w>>>> : v \in {One("b", 1), One("a", 2)}, w \in {One("a", 1)}}

\* Waves under the user's name for a model, beside darkmux's own copy.
AliasSchedules ==
  {[g \in Guards |-> IF g = 1 THEN <<x>> ELSE <<y>>] :
     <<x, y>> \in {<<One("u", 2), One("u", 1)>>, <<One("u", 2), One("a", 2)>>,
                  <<One("u", 1) \cup One("a", 1), One("a", 2)>>}}
=============================================================================
