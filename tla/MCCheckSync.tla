---------------------------- MODULE MCCheckSync ----------------------------
(* Small instances of CheckSync for TLC: two agents, and one check to begin    *)
(* with, its agent's own or a distributed one at home on its second choice, so *)
(* that its edits do not move the version of the agent that runs it.           *)
EXTENDS CheckSync

MCAgents == {1, 2}
MCChecks == {"c", "d"}
MCScore == [c \in MCChecks |-> [a \in MCAgents |-> a]]
MCTables ==
    {[c |-> [home |-> 1, mode |-> m, edit |-> 0], d |-> NoCheck] :
        m \in {"manual", "distribute"}}
=============================================================================
