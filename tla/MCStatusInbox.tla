--------------------------- MODULE MCStatusInbox ---------------------------
(* An instance of StatusInbox for TLC: two services report on one mission,  *)
(* and one event cannot be handled by anybody. The first service starts the *)
(* second stage, the other one ends the mission.                            *)
EXTENDS StatusInbox

MCLog == <<"a1", "bad", "b1">>
MCServiceOf == [e \in {"a1", "bad", "b1"} |-> IF e = "b1" THEN "B" ELSE "A"]
MCStatusOf == [e \in {"a1", "bad", "b1"} |-> IF e = "b1" THEN "error" ELSE "processing"]
MCStages == <<"reconstruction", "rasterization">>
MCStageOf == [e \in {"a1", "bad", "b1"} |-> "rasterization"]
=============================================================================
