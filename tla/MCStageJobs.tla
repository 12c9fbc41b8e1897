----------------------------- MODULE MCStageJobs -----------------------------
\* Instances of StageJobs for TLC.
EXTENDS StageJobs, TLC

CONSTANTS m1, r1, c1, c2, p1

SameMission == [r \in Runs |-> m1]
Reconstruct == [r \in Runs |-> "reconstruction"]

Symmetry == Permutations(Pods) \cup Permutations(Controllers)
=============================================================================
