-------------------------- MODULE MCArtifactWorkspaces --------------------------
(***************************************************************************)
(* A reconstruction, its training, a retry that takes over the directory   *)
(* of the training when it failed, and a detection on the result.          *)
(***************************************************************************)
EXTENDS ArtifactWorkspaces, TLC

CONSTANTS recon, training, retry, detect, state, model

MCRuns     == {recon, training, retry, detect}
MCUpstream == (recon :> None) @@ (training :> recon) @@ (retry :> recon) @@ (detect :> training)
MCReuses   == [r \in MCRuns |-> IF r = retry THEN training ELSE None]
MCKind     == (recon :> "workspace") @@ (training :> "product")
              @@ (retry :> "product") @@ (detect :> "overlay")
MCSelected == [r \in MCRuns |-> IF r = detect THEN {model} ELSE {state, model}]
MCSymmetry == Permutations(Pods) \cup Permutations(Contents)
=============================================================================
