------------------------------ MODULE Silence ------------------------------
(* The alerts on missing data (silence_alert_core_service.py): one check, the  *)
(* agents it may run on, a no_data alert and an agent_offline alert on it, and *)
(* the scheduled pass that decides from the newest result, the heartbeats and  *)
(* the notification log, and then records each notice in a transaction of its  *)
(* own.                                                                        *)
(*                                                                             *)
(* Times are ages: of the newest result, of each agent's last heartbeat, of    *)
(* the newest log row about the check and about an agent.    An age beyond the *)
(* largest that anything asks for stays there.  An agent's number is its       *)
(* rendezvous weight for the check.  The rows about one agent do not depend on *)
(* those about another, so the rows about one are enough: the heaviest, which  *)
(* is the first choice of the check.                                           *)
EXTENDS Assignment, FiniteSets, FiniteSetsExt

CONSTANTS
    Agents,          \* the active agents that match the check, by their weight
    Modes,           \* the check's assignment_mode is one of these
    Heartbeat,       \* heartbeat_interval of the agents
    OfflineAfter,    \* silent_after(Heartbeat): an agent is offline
    AgentAfter,      \* the same with missed_intervals of the agent_offline alert
    CheckAfter,      \* silent_after of the check and the no_data alert
    Resend,          \* resend_interval_minutes of both alerts, or Never
    MaxResends,      \* max_resends of both, or Never
    Recovery,        \* notify_on_recovery of both
    Never,
    Lateness,        \* ages at which results arrive: 0, or buffered for longer
    MaxRowAge,       \* bound: the largest age of a row that is told apart
    MaxFaults        \* bound: passes cut short and transactions rolled back

ASSUME AgentsAssumption ==
    /\ Agents \subseteq Nat \ {0} /\ Agents # {} /\ IsFiniteSet(Agents)
    /\ Modes \subseteq {"manual", "replicate", "distribute"}
ASSUME TimesAssumption ==
    /\ Heartbeat \in Nat /\ OfflineAfter \in Nat /\ AgentAfter \in Nat
    /\ CheckAfter \in Nat /\ Lateness \subseteq 0..MaxRowAge
    /\ MaxRowAge \in Nat /\ MaxFaults \in Nat
    /\ Resend = Never \/ Resend \in 1..MaxRowAge
    /\ MaxResends = Never \/ MaxResends \in Nat \ {0}
    /\ Recovery \in BOOLEAN

(* The ages that matter: of a heartbeat, until an agent that took over from    *)
(* the silent one has had its full threshold; of a result.                     *)
MaxSeen == Max({OfflineAfter + Heartbeat + CheckAfter, AgentAfter}) + 1
MaxResult == CheckAfter + 1

VARIABLES
    mode,     \* the check's assignment_mode
    snoozed,  \* the mapping of the no_data alert is snoozed
    result,   \* age of the newest result, or of the check if it has none
    seen,     \* age of each agent's last_seen
    down,     \* the agents whose latest heartbeat said they shut down
    row,      \* the newest log row about the check
    arow,     \* and about the first choice of its agents
    notices,  \* what the pass in progress has decided and not recorded yet
    pages,    \* history: first pages of the check since a result newer than
              \* its row, and of the agent since such a heartbeat
    faults

subjects == <<snoozed, result, seen, down>>
vars == <<mode, snoozed, result, seen, down, row, arow, notices, pages, faults>>

-----------------------------------------------------------------------------
(* Who is to run the check, and since when.                                    *)

Home == Max(Agents)
Score == [a \in Agents |-> a]
Pool == IF mode = "manual" THEN {Home} ELSE Agents

AgentOffline(a, after) == seen[a] > after

(* handed_off: offline, or shut down.                                          *)
HandedOff(a) == a \in down \/ AgentOffline(a, OfflineAfter)

Away == {a \in Pool : HandedOff(a)}

Runners ==
    IF mode = "distribute" THEN {DistributeOwner(Score, Pool, Away)} ELSE Pool

(* handed_off_at, as an age.                                                   *)
HandedOffAge(a) == IF a \in down THEN seen[a] ELSE seen[a] - OfflineAfter

(* expected_from: a check that moved is the new owner's once it can know.      *)
ExpectedAge ==
    LET above == Above(Score, Pool, Away)
    IN  IF above = {} THEN result
        ELSE Min({result, Min({HandedOffAge(a) : a \in above}) - Heartbeat})

-----------------------------------------------------------------------------
(* The pass: what it decides.                                                  *)

Silences == {"silent", "suppressed"}

Row(key, count) == [key |-> key, age |-> 0, count |-> count, newer |-> FALSE]

(* What a row or a notice is about: the check, or an agent.                    *)
Check == 0
Subjects == {Check, Home}

Notice(about, key, count) == [about |-> about, key |-> key, count |-> count]

(* resend_decision: the notice of a resend, or none.                           *)
Resent(about, r) ==
    IF Resend = Never THEN {}
    ELSE IF r.age < Resend THEN {}
    ELSE IF MaxResends # Never /\ r.count + 1 > MaxResends THEN {}
    ELSE {Notice(about, r.key, r.count + 1)}

(* Of the suppressed silences only.                                            *)
EpisodeOpenQuiet == row.key = "suppressed" /\ ~row.newer

(* Takes any row about a silence for the present one.                          *)
EpisodeOpenAlways == row.key \in Silences

(* _episode_open: the row is about a silence no result has ended since.        *)
EpisodeOpen == row.key \in Silences /\ ~row.newer

(* Asks for an open episode, which the result itself has ended.                *)
CheckRecoveredOpen ==
    Recovery /\ EpisodeOpen /\ row.key = "silent" /\ result <= CheckAfter

(* The newest result, in the window the pass reads, is newer than the page.    *)
CheckRecovered ==
    Recovery /\ row.key = "silent" /\ row.newer /\ result <= CheckAfter

(* _decide_no_data: the snooze holds back what tells of a silence, and is not  *)
(* asked for a recovery.                                                       *)
DecideNoData ==
    IF ExpectedAge <= CheckAfter
      THEN IF CheckRecovered THEN {Notice(Check, "reporting", 0)} ELSE {}
    ELSE IF snoozed THEN {}
    ELSE IF \A a \in Runners : AgentOffline(a, OfflineAfter)
      THEN IF EpisodeOpen THEN {} ELSE {Notice(Check, "suppressed", 0)}
    ELSE IF EpisodeOpen /\ row.key = "silent" THEN Resent(Check, row)
    ELSE {Notice(Check, "silent", 0)}

(* Looks at the last page alone, not at the heartbeats since.                  *)
DecideAgentOfflineStale ==
    IF ~AgentOffline(Home, AgentAfter)
      THEN IF Recovery /\ arow.key = "offline"
             THEN {Notice(Home, "online", 0)} ELSE {}
    ELSE IF arow.key = "offline" THEN Resent(Home, arow)
    ELSE {Notice(Home, "offline", 0)}

(* _decide_agent_offline, which covers every agent the check may run on.       *)
DecideAgentOffline ==
    IF ~AgentOffline(Home, AgentAfter)
      THEN IF Recovery /\ arow.key = "offline" /\ arow.newer
             THEN {Notice(Home, "online", 0)} ELSE {}
    ELSE IF arow.key = "offline" /\ ~arow.newer THEN Resent(Home, arow)
    ELSE {Notice(Home, "offline", 0)}

(* _decide reads everything at once; a pass that finds nothing changes nothing.*)
Decide ==
    /\ notices = {}
    /\ notices' = DecideNoData \cup DecideAgentOffline
    /\ notices' # {}
    /\ UNCHANGED <<mode, subjects, row, arow, pages, faults>>

-----------------------------------------------------------------------------
(* What it records.                                                            *)

FirstPage(n) == n.key \in {"silent", "offline"} /\ n.count = 0

Paged(n) ==
    pages' = IF FirstPage(n) THEN [pages EXCEPT ![n.about] = @ + 1] ELSE pages

(* One notice is sent and logged, or only logged when it is a suppressed one.  *)
Record(n) ==
    /\ n \in notices
    /\ notices' = notices \ {n}
    /\ IF n.about = Check
         THEN row' = Row(n.key, n.count) /\ UNCHANGED arow
         ELSE arow' = Row(n.key, n.count) /\ UNCHANGED row
    /\ Paged(n)
    /\ UNCHANGED <<mode, subjects, faults>>

Fault == faults < MaxFaults /\ faults' = faults + 1

(* The runtime limit of the job ends the pass between two notices.             *)
CutShort ==
    /\ notices # {} /\ Fault
    /\ notices' = {}
    /\ UNCHANGED <<mode, subjects, row, arow, pages>>

(* Or a transaction fails after its page went out, and the pass with it.       *)
RollBack(n) ==
    /\ n \in notices /\ Fault
    /\ notices' = {}
    /\ Paged(n)
    /\ UNCHANGED <<mode, subjects, row, arow>>

-----------------------------------------------------------------------------
(* The world.                                                                  *)

Init ==
    /\ mode \in Modes /\ snoozed = FALSE
    /\ result = 0 /\ seen = [a \in Agents |-> 0] /\ down = {}
    /\ row = Row("none", 0) /\ arow = Row("none", 0)
    /\ notices = {}
    /\ pages = [s \in Subjects |-> 0]
    /\ faults = 0

(* update_from_heartbeat.                                                      *)
Beat(a, stopping) ==
    /\ seen' = [seen EXCEPT ![a] = 0]
    /\ down' = IF stopping THEN down \cup {a} ELSE down \ {a}
    /\ IF a = Home
         THEN /\ arow' = [arow EXCEPT !.newer = (arow.key = "offline")]
              /\ pages' = [pages EXCEPT ![a] = 0]
         ELSE UNCHANGED <<arow, pages>>
    /\ UNCHANGED <<mode, snoozed, result, row, notices, faults>>

(* A result of the check is stored; one that was measured a while ago may be   *)
(* older than the newest row, or than the newest result.  Only a row about a   *)
(* silence is ever compared with it.                                           *)
StoreResult(k) ==
    /\ LET ended == [row EXCEPT !.newer = (row.key \in Silences)]
       IN  \/ k < row.age /\ row' = ended
           \/ k = row.age /\ row' \in {row, ended}
           \/ k > row.age /\ UNCHANGED row
    /\ result' = Min({result, k})
    /\ pages' = IF row'.newer \/ row.key \notin Silences
                  THEN [pages EXCEPT ![Check] = 0] ELSE pages
    /\ UNCHANGED <<mode, snoozed, seen, down, arow, notices, faults>>

(* snooze_alert_check and unsnooze_alert_check.                                *)
Snooze ==
    /\ snoozed' = ~snoozed
    /\ UNCHANGED <<mode, result, seen, down, row, arow, notices, pages, faults>>

Older(age, max) == IF age < max THEN age + 1 ELSE age

Tick ==
    /\ result' = Older(result, MaxResult)
    /\ seen' = [a \in Agents |->
                  IF a \in Pool THEN Older(seen[a], MaxSeen) ELSE seen[a]]
    /\ row' = IF row.key \in Silences
                THEN [row EXCEPT !.age = Older(@, MaxRowAge)] ELSE row
    /\ arow' = IF Resend = Never THEN arow
               ELSE [arow EXCEPT !.age = Older(@, MaxRowAge)]
    /\ UNCHANGED <<mode, snoozed, down, notices, pages, faults>>

Next ==
    \/ Decide \/ CutShort \/ Snooze \/ Tick
    \/ \E n \in notices : Record(n) \/ RollBack(n)
    \/ \E a \in Pool, stopping \in BOOLEAN : Beat(a, stopping)
    \/ \E k \in Lateness : StoreResult(k)

Spec == Init /\ [][Next]_vars

(* The scheduler runs the pass every minute, and a pass goes through its list. *)
Fairness == WF_vars(Decide) /\ WF_vars(\E n \in notices : Record(n))

FairSpec == Spec /\ Fairness

-----------------------------------------------------------------------------
(* Properties.                                                                 *)

\* "Each silence is an episode: it notifies once, then follows the alert's resend
\* settings" (module docstring): until data newer than the last notice comes, a
\* check or an agent has one first page, whatever shutdowns, suppressed silences,
\* snoozes, hand-overs and late results fall in between; a pass cut short after
\* a delivery costs one more.
OnePagePerEpisode ==
    \A s \in Subjects : pages[s] <= 1 + faults

\* The check is silent, some agent that should run it is alive, and nobody asked
\* not to hear of it.
Unexplained ==
    /\ ExpectedAge > CheckAfter /\ ~snoozed
    /\ \E a \in Runners : ~AgentOffline(a, OfflineAfter)

\* A silence that no outage explains is notified in the end, even when it was
\* suppressed first and outlived the agent's outage.
SilenceTold ==
    Unexplained ~> (row.key = "silent" /\ ~row.newer) \/ ~Unexplained

\* "A recovery notification fires when results arrive again" (docs, alerts): once
\* a result newer than the page is there, and as long as results keep coming and
\* nobody snoozes the pair, the recovery is notified, unless a pass that had
\* already decided to page again made the page the newer one.
RecoveryTold ==
    (Recovery /\ row.key = "silent" /\ row.newer /\ ~snoozed)
        ~> (row.key # "silent" \/ ~row.newer \/ result > CheckAfter \/ snoozed)

\* An agent that stays silent is notified as offline in the end, also when its
\* distributed checks have moved to another agent.
OutageTold ==
    AgentOffline(Home, AgentAfter)
        ~> (arow.key = "offline" /\ ~arow.newer) \/ ~AgentOffline(Home, AgentAfter)
=============================================================================
