-------------------------- MODULE MCAlertLifecycle --------------------------
(* Instances of AlertLifecycle: the contract c1 with the entry e1 and a config, *)
(* and, before it in the table, c2 with an entry and no config.                *)
EXTENDS AlertLifecycle, TLC

CONSTANTS c1, c2, e1, e2, k1

CycleSymmetry == Permutations(Cycles)

OneContract == <<c1>>
OneOwner == [x \in {e1, k1} |-> c1]

BothContracts == <<c2, c1>>
TwoOwners == [x \in {e1, k1, e2} |-> IF x = e2 THEN c2 ELSE c1]

ThresholdTwo == [k \in Configs |-> 2]

\* The node need never answer for c2.
PartlyFairSpec == Spec /\ FairnessFor({c1})
=============================================================================
