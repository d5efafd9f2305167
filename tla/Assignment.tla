----------------------------- MODULE Assignment -----------------------------
(* Which agent runs a distributed check (agent_assignment_core_service.py) and *)
(* when it changes hands (liveness.py).  `score[a]` is the rendezvous weight   *)
(* of agent a for the check: a digest with the agent's id to break ties, so no *)
(* two agents have the same.                                                   *)
EXTENDS Integers

(* get_assigned_agent_for_check: the highest weight wins.                      *)
Favourite(score, pool) ==
    CHOOSE a \in pool : \A b \in pool : score[a] >= score[b]

(* distribute_owner: the favourite of the agents that are not handed off, or   *)
(* of all of them when none is left.                                           *)
DistributeOwner(score, pool, away) ==
    Favourite(score, IF pool \subseteq away THEN pool ELSE pool \ away)

(* The agents weighted above the owner: all of them handed off.                *)
Above(score, pool, away) ==
    {a \in pool : score[a] > score[DistributeOwner(score, pool, away)]}
=============================================================================
