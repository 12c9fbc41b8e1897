-------------------------- MODULE MCMissionDeletion --------------------------
\* Instances of MissionDeletion for TLC.
EXTENDS MissionDeletion, TLC

CONSTANTS m1, r1, c1, p1, p2, w1, w2

SameMission == [r \in Runs |-> m1]
Reconstruct == [r \in Runs |-> "reconstruction"]

Symmetry == Permutations(Workers)
=============================================================================
