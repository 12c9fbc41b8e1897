----------------------------- MODULE AtLeastOnce -----------------------------
(***************************************************************************)
(* What the transactional outbox promises for an event: once requested it  *)
(* may be delivered, any number of times; it is settled only after it was  *)
(* delivered, for ever; or it is abandoned, until an administrator         *)
(* replays it.                                                             *)
(***************************************************************************)
CONSTANT Events
VARIABLES requested, delivered, settled, abandoned
vars == <<requested, delivered, settled, abandoned>>

Init == requested = {} /\ delivered = {} /\ settled = {} /\ abandoned = {}

Request(e) ==
    /\ e \notin requested
    /\ requested' = requested \cup {e}
    /\ UNCHANGED <<delivered, settled, abandoned>>

Deliver(e) ==
    /\ e \in requested
    /\ delivered' = delivered \cup {e}
    /\ UNCHANGED <<requested, settled, abandoned>>

Settle(e) ==
    /\ e \in delivered /\ e \notin abandoned
    /\ settled' = settled \cup {e}
    /\ UNCHANGED <<requested, delivered, abandoned>>

Abandon(e) ==
    /\ e \in requested /\ e \notin settled
    /\ abandoned' = abandoned \cup {e}
    /\ UNCHANGED <<requested, delivered, settled>>

Replay(e) ==
    /\ e \in abandoned
    /\ abandoned' = abandoned \ {e}
    /\ UNCHANGED <<requested, delivered, settled>>

Next == \E e \in Events :
    Request(e) \/ Deliver(e) \/ Settle(e) \/ Abandon(e) \/ Replay(e)

Spec == Init /\ [][Next]_vars
=============================================================================
