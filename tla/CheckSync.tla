----------------------------- MODULE CheckSync -----------------------------
(* How agents come to run the checks they are assigned: operators create,      *)
(* edit, move and delete checks (check_core_service.py), the assignment of the *)
(* distributed ones follows heartbeats (agent_assignment_core_service.py), the *)
(* version of its check list tells each agent to fetch it again (heartbeat.py, *)
(* check_manager.py), and agents stop, die, lose answers and come back.        *)
(*                                                                             *)
(* There are no clocks: an agent may become silent for the server, and its     *)
(* check_sync_interval may pass.  A check in an agent's list is the pair of    *)
(* its id and the edit of it that was fetched.                                 *)
EXTENDS Assignment, FiniteSets

CONSTANTS
    Agents,     \* the active agents, all of which match the checks' selectors
    Checks,     \* the ids of checks
    Score,      \* Score[c][a]: the rendezvous weight of a for c
    Tables,     \* the checks there may be at the start
    None,       \* no config_version yet
    MaxEdits,   \* bound: what operators do to checks
    MaxStops,   \* bound: agents that stop or die
    MaxLosses   \* bound: heartbeats, answers and fetches lost

Modes == {"manual", "replicate", "distribute"}

ASSUME PoolAssumption ==
    /\ Agents # {} /\ IsFiniteSet(Agents)
    /\ Score \in [Checks -> [Agents -> Nat]]
    /\ Tables \subseteq [Checks -> [home : Agents \cup {None}, edit : Nat,
                                   mode : {"absent"} \cup Modes]]
    /\ \A t \in Tables : \A c \in Checks :
          t[c].mode = "absent" \/ t[c].home \in Agents
    /\ None \notin [stamp : Nat, ids : SUBSET Checks]
    /\ \A c \in Checks : \A a, b \in Agents :
          Score[c][a] = Score[c][b] => a = b
ASSUME BoundsAssumption ==
    MaxEdits \in Nat /\ MaxStops \in Nat /\ MaxLosses \in Nat

VARIABLES
    checks,    \* each check's agent_id, assignment_mode and edit
    edits,     \* how many operations there were, the number of the newest edit
    stamp,     \* the agents' checks_updated_at
    stopped,   \* the agents whose latest heartbeat said they shut down
    silent,    \* the agents whose latest heartbeat is too long ago
    pc,        \* each agent's heartbeat loop, or "down"
    list,      \* the checks each agent runs
    cache,     \* and what it has saved of them
    version,   \* the heartbeat loop's config_version
    due,       \* the agents whose check_sync_interval has passed
    synced,    \* history: the agents whose latest reload reached the server
    stops, losses

server == <<checks, edits, stamp, stopped, silent>>
agent == <<pc, list, cache, version, due, synced>>
budget == <<stops, losses>>
vars == <<checks, edits, stamp, stopped, silent, pc, list, cache, version, due,
          synced, stops, losses>>

Up(a) == pc[a] # "down"

Loss == losses < MaxLosses /\ losses' = losses + 1

-----------------------------------------------------------------------------
(* The server.                                                                 *)

NoCheck == [home |-> None, mode |-> "absent", edit |-> 0]

(* _checks_for_agent: a manual check is its agent's, a replicated one every    *)
(* agent's, a distributed one its owner's.                                     *)
Owned(a, away) ==
    {c \in Checks :
        \/ checks[c].mode = "manual" /\ checks[c].home = a
        \/ checks[c].mode = "replicate"
        \/ /\ checks[c].mode = "distribute"
           /\ DistributeOwner(Score[c], Agents, away) = a}

(* What the list endpoint answers.                                             *)
CheckList(a) == {<<c, checks[c].edit>> : c \in Owned(a, stopped \cup silent)}

(* config_version: the agent's stamp and the ids of its checks, not the edits. *)
ConfigVersion(a, away) == [stamp |-> stamp[a], ids |-> Owned(a, away)]

(* checks_updated_at = utc_now(), on the agents an operation touches.          *)
Operate(touched) ==
    /\ edits < MaxEdits /\ edits' = edits + 1
    /\ stamp' = [a \in Agents |-> IF a \in touched THEN edits' ELSE stamp[a]]
    /\ UNCHANGED <<stopped, silent, agent, budget>>

Existing == {c \in Checks : checks[c] # NoCheck}

(* _touch_agents_of: an operation touches the checks' own agents, whichever    *)
(* agents run them.                                                            *)
AgentsOf(cs) == {checks[c].home : c \in cs}

(* The checks in the domain of `new` become what it says, in a new edit.       *)
Rewrite(new) ==
    checks' = [c \in Checks |->
                  IF c \in DOMAIN new THEN [new[c] EXCEPT !.edit = edits'] ELSE checks[c]]

CreateCheck(c, a) ==
    /\ c \notin Existing /\ Operate({a})
    /\ \E m \in Modes :
          checks' = [checks EXCEPT ![c] = [home |-> a, mode |-> m, edit |-> edits']]

(* A clone keeps its source's mode unless it is overridden.                    *)
CloneCheck(source, c, a) == source \in Existing /\ CreateCheck(c, a)

(* Forgets that the agent has to hear of it.                                   *)
UpdateCheckUnmarked(c) ==
    /\ c \in Existing /\ Operate({})
    /\ \E m \in Modes : Rewrite([k \in {c} |-> [checks[k] EXCEPT !.mode = m]])

UpdateCheck(c) ==
    /\ c \in Existing /\ Operate(AgentsOf({c}))
    /\ \E m \in Modes : Rewrite([k \in {c} |-> [checks[k] EXCEPT !.mode = m]])

DeleteCheck(c) ==
    /\ c \in Existing /\ Operate(AgentsOf({c}))
    /\ checks' = [checks EXCEPT ![c] = NoCheck]

BulkSetEnabled(cs) ==
    /\ Operate(AgentsOf(cs))
    /\ Rewrite([c \in cs |-> checks[c]])

(* bulk_modify with a new agent: checks that are its own are edited in place.  *)
BulkModify(cs, a) ==
    /\ Operate(AgentsOf(cs) \cup {a})
    /\ Rewrite([c \in cs |-> [checks[c] EXCEPT !.home = a]])

BulkDelete(cs) ==
    /\ Operate(AgentsOf(cs))
    /\ checks' = [c \in Checks |-> IF c \in cs THEN NoCheck ELSE checks[c]]

BulkCreate(cs, a) ==
    /\ cs \cap Existing = {} /\ Operate({a})
    /\ Rewrite([c \in cs |-> [checks[c] EXCEPT !.home = a, !.mode = "manual"]])

(* bulk_import_checks: one transaction makes the checks the agent does not     *)
(* have and, told to, overwrites those it has.                                 *)
BulkImport(cs, a) ==
    /\ \A c \in cs \cap Existing : checks[c].home = a
    /\ Operate({a})
    /\ \E m \in Modes :
          Rewrite([c \in cs |-> [checks[c] EXCEPT !.home = a, !.mode = m]])

(* force_reload.                                                               *)
ForceReload(a) == Operate({a}) /\ UNCHANGED checks

(* A dead agent falls silent; a live one when its heartbeats are lost.         *)
FallSilent(a) ==
    /\ a \notin silent
    /\ silent' = silent \cup {a}
    /\ IF Up(a) THEN Loss ELSE UNCHANGED losses
    /\ UNCHANGED <<checks, edits, stamp, stopped, agent, stops>>

-----------------------------------------------------------------------------
(* An agent.                                                                   *)

(* load_checks: the server's list, saved, or the saved one.                    *)
Fetched(a, reload) ==
    \/ /\ list' = [list EXCEPT ![a] = CheckList(a)]
       /\ cache' = [cache EXCEPT ![a] = CheckList(a)]
       /\ synced' = IF reload THEN synced \cup {a} ELSE synced
       /\ UNCHANGED losses
    \/ /\ Loss
       /\ list' = [list EXCEPT ![a] = cache[a]]
       /\ synced' = synced \ {a}
       /\ UNCHANGED cache

(* run(): the checks are loaded before the first heartbeat.                    *)
Start(a) ==
    /\ pc[a] = "down"
    /\ pc' = [pc EXCEPT ![a] = "idle"]
    /\ Fetched(a, FALSE)
    /\ UNCHANGED <<server, version, due, stops>>

(* Reloads for a new version only.                                             *)
SyncChecksByVersion(a, answer) ==
    /\ version' = [version EXCEPT ![a] = answer]
    /\ pc' = IF version[a] \notin {None, answer}
             THEN [pc EXCEPT ![a] = "reload"] ELSE pc

(* _sync_checks: the first version is the baseline, a new one or the interval  *)
(* asks for a reload.                                                          *)
SyncChecks(a, answer) ==
    /\ version' = [version EXCEPT ![a] = answer]
    /\ pc' = IF version[a] \notin {None, answer} \/ a \in due
             THEN [pc EXCEPT ![a] = "reload"] ELSE pc

(* A heartbeat is applied first and the version computed after it; the answer  *)
(* may be lost.                                                                *)
Heartbeat(a) ==
    /\ pc[a] = "idle"
    /\ stopped' = stopped \ {a} /\ silent' = silent \ {a}
    /\ \/ /\ SyncChecks(a, ConfigVersion(a, stopped' \cup silent'))
          /\ UNCHANGED losses
       \/ Loss /\ UNCHANGED <<pc, version>>
    /\ UNCHANGED <<checks, edits, stamp, list, cache, due, synced, stops>>

(* _reload_checks, which counts as a sync whatever came of the fetch.          *)
Reload(a) ==
    /\ pc[a] = "reload"
    /\ pc' = [pc EXCEPT ![a] = "idle"]
    /\ Fetched(a, TRUE)
    /\ due' = due \ {a}
    /\ UNCHANGED <<server, version, stops>>

SyncIntervalPasses(a) ==
    /\ Up(a) /\ a \notin due
    /\ due' = due \cup {a}
    /\ UNCHANGED <<server, pc, list, cache, version, synced, budget>>

(* A shutdown whose heartbeat arrives, or one that does not, or a crash.       *)
Stop(a) ==
    /\ Up(a)
    /\ stops < MaxStops /\ stops' = stops + 1
    /\ pc' = [pc EXCEPT ![a] = "down"]
    /\ list' = [list EXCEPT ![a] = {}]
    /\ version' = [version EXCEPT ![a] = None] /\ due' = due \ {a}
    /\ \/ stopped' = stopped \cup {a} /\ silent' = silent \ {a}
       \/ UNCHANGED <<stopped, silent>>
    /\ synced' = synced \ {a}
    /\ UNCHANGED <<checks, edits, stamp, cache, losses>>

Runs(a, c) == \E e \in list[a] : e[1] = c

-----------------------------------------------------------------------------
Init ==
    /\ checks \in Tables
    /\ edits = 0 /\ stamp = [a \in Agents |-> 0]
    /\ stopped = {} /\ silent = {}
    /\ pc = [a \in Agents |-> "down"]
    /\ list = [a \in Agents |-> {}] /\ cache = [a \in Agents |-> {}]
    /\ version = [a \in Agents |-> None]
    /\ due = {} /\ synced = {}
    /\ stops = 0 /\ losses = 0

Next ==
    \/ \E c \in Checks : UpdateCheck(c) \/ DeleteCheck(c)
    \/ \E c, d \in Checks, a \in Agents : CreateCheck(c, a) \/ CloneCheck(c, d, a)
    \/ \E cs \in SUBSET Existing \ {{}} : BulkSetEnabled(cs) \/ BulkDelete(cs)
    \/ \E cs \in SUBSET Checks \ {{}}, a \in Agents :
         \/ cs \subseteq Existing /\ BulkModify(cs, a)
         \/ BulkCreate(cs, a) \/ BulkImport(cs, a)
    \/ \E a \in Agents :
         \/ FallSilent(a) \/ Start(a) \/ Heartbeat(a)
         \/ Reload(a) \/ SyncIntervalPasses(a) \/ Stop(a) \/ ForceReload(a)

Spec == Init /\ [][Next]_vars

(* A live agent's loop goes on and its interval passes, time passes for a dead *)
(* one; nobody need start it again.                                            *)
Fairness ==
    \A a \in Agents :
        /\ WF_vars(Heartbeat(a)) /\ WF_vars(Reload(a))
        /\ WF_vars(SyncIntervalPasses(a))
        /\ WF_vars(~Up(a) /\ FallSilent(a))

FairSpec == Spec /\ Fairness

-----------------------------------------------------------------------------
(* Properties.                                                                 *)

\* The check is run in its newest edit by exactly the agents that should: its
\* own, every agent, or one of the agents that are up.
RunAs(c) ==
    LET up == {a \in Agents : Up(a)}
        runners == {a \in up : Runs(a, c)}
    IN  /\ \A a \in runners : <<c, checks[c].edit>> \in list[a]
        /\ CASE checks[c].mode = "absent" -> runners = {}
             [] checks[c].mode = "manual" -> runners = up \cap {checks[c].home}
             [] checks[c].mode = "replicate" -> runners = up
             [] checks[c].mode = "distribute" ->
                    \/ runners = {} /\ up = {}
                    \/ \E a \in up : runners = {a}

\* Whatever was created, edited, moved or deleted, stopped, died, came back or
\* was lost on the way, in the end each check is run by exactly the agents it is
\* for, a distributed one by one of those that are up (distribute_owner,
\* config_version, _sync_checks).
RunAsAssigned == <>[](\A c \in Checks : RunAs(c))

\* checks_updated_at, config_version, _sync_checks: the version carries every
\* change of a manual check: an agent between two heartbeats whose latest reload
\* reached the server and whose version is the server's runs each manual check of
\* its own as it is.
ManualEditsReach ==
    \A a \in synced :
        /\ pc[a] = "idle"
        /\ version[a] = ConfigVersion(a, stopped \cup silent)
        => \A c \in Checks :
              checks[c].mode = "manual" /\ checks[c].home = a
              => <<c, checks[c].edit>> \in list[a]
=============================================================================
