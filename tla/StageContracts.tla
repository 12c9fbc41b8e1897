--------------------------- MODULE StageContracts ---------------------------
(***************************************************************************)
(* The stage DAG of a mission (shared/stage_contracts.py) and the pure     *)
(* predicates over it that the scheduler and the API share.                *)
(***************************************************************************)
EXTENDS FiniteSets

STAGE_ORDER == {"reconstruction", "gaussian_training", "gaussian_filtering",
                "rasterization", "detection", "gaussian_viewer"}

STAGE_DEPENDENCIES ==
    [stage \in STAGE_ORDER |->
        CASE stage = "reconstruction"     -> {}
          [] stage = "gaussian_training"  -> {"reconstruction"}
          [] stage = "gaussian_filtering" -> {"gaussian_training"}
          [] stage = "rasterization"      -> {"gaussian_filtering"}
          [] stage = "detection"          -> {"rasterization"}
          [] stage = "gaussian_viewer"    -> {"gaussian_filtering"}]

\* The least set of stages that holds the dependencies of a stage and is
\* closed under them: the worklist of _ancestors.
Ancestors ==
    [stage \in STAGE_ORDER |->
        {a \in STAGE_ORDER :
            \A closed \in SUBSET STAGE_ORDER :
                /\ STAGE_DEPENDENCIES[stage] \subseteq closed
                /\ \A s \in closed : STAGE_DEPENDENCIES[s] \subseteq closed
                => a \in closed}]

StagesAreIndependent(left, right) ==
    /\ left # right
    /\ left \notin Ancestors[right]
    /\ right \notin Ancestors[left]
=============================================================================
