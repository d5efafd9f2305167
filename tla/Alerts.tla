------------------------------- MODULE Alerts -------------------------------
(* From a report to a page: the requests that store the results of one check   *)
(* (process_agent_report, bulk_insert_idempotent), the evaluation of one alert *)
(* on each stored result (evaluate_check_result) and the notification log the  *)
(* evaluation both reads and writes (_should_send_notification,                *)
(* send_to_providers).  Alerts and checks do not see each other's rows, so one *)
(* alert on one check is enough; the check it depends on is a single switch.   *)
(*                                                                             *)
(* A result is named by its timestamp, a number: run t of the check.  Each     *)
(* request is one transaction.  It sees what is committed at the time of each  *)
(* statement, and its own rows; a page it sends cannot be rolled back.         *)
EXTENDS Integers, Sequences, FiniteSets, FiniteSetsExt

CONSTANTS
    Configs,     \* the alerts: trigger, on, consecutive, recovery, resend, max
    Readings(_), \* what a run can report to an alert of a type: ok, slow, days
    Thresholds,  \* days_thresholds of an ssl_cert_expiry alert
    NoCert,      \* days of a result with no certificate
    Unread,      \* days of a certificate whose expiry cannot be read
    Never,       \* resend_interval_minutes or max_resends of NULL
    Requests,    \* the requests the server works on at a time
    None,        \* no row
    MaxRuns,     \* bound: runs of the check
    MaxBatch,    \* bound: results of the check in one report
    MaxTime,     \* bound: the server's clock
    MaxEvents    \* bound: failures, edits of the alert, turns of the parent

ASSUME BoundsAssumption ==
    /\ MaxRuns \in Nat /\ MaxBatch \in Nat \ {0} /\ MaxTime \in Nat
    /\ MaxEvents \in Nat
ASSUME ConfigsAssumption ==
    /\ Thresholds \subseteq Nat
    /\ \A c \in Configs : c.trigger \in {"status_change", "repeated_failure",
                                        "threshold", "ssl_cert_expiry"}
    /\ \A c \in Configs : c.consecutive \in Nat \ {0}
    /\ \A c \in Configs : c.resend = Never \/ c.resend \in Nat
    /\ \A c \in Configs : c.max = Never \/ c.max \in Nat \ {0}

(* A row of notification_logs: sent_at, resend_count and the state it tells.   *)
KeySet ==
    [type : {"parent", "status", "ssl", "repeated_failure", "threshold"},
     state : {"up", "down", "active", "unknown", "ok", "lte"}, band : Nat]
LogRow == [at : Nat, count : Nat, key : KeySet]

ASSUME NoneAssumption == None \notin Nat /\ None \notin LogRow /\ None \notin KeySet

VARIABLES
    alert,       \* the alert's row
    watching,    \* the alert and its mapping to the check are enabled
    snoozed,     \* the mapping's snoozed_until lies ahead
    routed,      \* the alert has a live provider
    parentDown,  \* the newest result of depends_on_check_id is a failure
    reading,     \* reading[t]: what run t of the check reported
    stored,      \* the committed rows of check_results
    last,        \* the newest committed row of notification_logs
    request,     \* the requests, each where it is in its code
    now,         \* the server's clock; no two rows have the same sent_at
    evaluated,   \* history: committed evaluations of each result
    told, inRow, \* history: the state last paged, and pages of it in a row
    lost,        \* history: pages whose rows were rolled back
    slips,       \* history: what has come between the check and the operator
    events       \* counted against MaxEvents

tables == <<stored, last>>
switches == <<alert, watching, snoozed, routed>>
paging == <<told, inRow, lost>>
vars == <<alert, watching, snoozed, routed, parentDown, reading, stored, last,
          request, now, evaluated, told, inRow, lost, slips, events>>

Runs == DOMAIN reading

-----------------------------------------------------------------------------
(* State keys (_state_key).                                                    *)

Key(type, state, band) == [type |-> type, state |-> state, band |-> band]

ParentDown == Key("parent", "down", 0)

Bands(r) == {b \in Thresholds : r.days <= b}

(* The narrowest threshold the certificate is within.                          *)
SslKey(r) ==
    IF r.days \in {NoCert, Unread} THEN Key("ssl", "unknown", 0)
    ELSE IF Bands(r) = {} THEN Key("ssl", "ok", 0)
    ELSE Key("ssl", "lte", Min(Bands(r)))

StateKey(r) ==
    CASE alert.trigger = "status_change" ->
            Key("status", IF r.ok THEN "up" ELSE "down", 0)
      [] alert.trigger = "ssl_cert_expiry" -> SslKey(r)
      [] OTHER -> Key(alert.trigger, "active", 0)

-----------------------------------------------------------------------------
(* What a request sees: read committed, and its own writes.                    *)

Seen(q) == stored \cup request[q].fresh

(* The n newest results of the check, or all it has.                           *)
Recent(seen, n) == {t \in seen : Cardinality({u \in seen : u > t}) < n}

Newer(a, b) == IF a = None THEN b ELSE IF b = None THEN a
               ELSE IF a.at >= b.at THEN a ELSE b

(* get_last_notification_for_dedup, whatever became of the delivery.           *)
LastRow(q) == Newer(last, request[q].row)

-----------------------------------------------------------------------------
(* Triggers (_should_fire_alert).                                              *)

(* Looks at the result itself, not at the one before it.                       *)
RecoveredNow(seen) ==
    Cardinality(seen) >= 2 /\ ~reading[Max(seen)].ok

(* The second newest result of the check was a failure.                        *)
Recovered(seen) ==
    /\ Cardinality(seen) >= 2
    /\ ~reading[Min(Recent(seen, 2))].ok

EvaluateStatusChange(q, r) ==
    IF r.ok /\ alert.recovery
      THEN Recovered(Seen(q))
      ELSE /\ (IF r.ok THEN "success" ELSE "error") \in alert.on
           /\ alert.consecutive > 1 =>
                LET newest == Recent(Seen(q), alert.consecutive)
                IN  /\ Cardinality(newest) = alert.consecutive
                    /\ \A t \in newest : ~reading[t].ok

(* Never tells of a renewal.                                                   *)
EvaluateSslCertExpiryOnly(q, r) ==
    /\ r.days # NoCert
    /\ r.days # Unread => Bands(r) # {}

(* Recovery means: the last row about this check was about its certificate.    *)
EvaluateSslCertExpiry(q, r) ==
    /\ r.days # NoCert
    /\ \/ r.days = Unread
       \/ /\ r.days # Unread
          /\ \/ Bands(r) # {}
             \/ /\ alert.recovery
                /\ LastRow(q) # None
                /\ LastRow(q).key.type = "ssl" /\ LastRow(q).key.state # "ok"

ShouldFire(q, r) ==
    CASE alert.trigger \in {"status_change", "repeated_failure"} ->
            EvaluateStatusChange(q, r)
      [] alert.trigger = "threshold" -> r.slow
      [] alert.trigger = "ssl_cert_expiry" -> EvaluateSslCertExpiry(q, r)

IsRecovery(r) ==
    /\ alert.recovery
    /\ IF alert.trigger = "ssl_cert_expiry" THEN SslKey(r).state = "ok" ELSE r.ok

-----------------------------------------------------------------------------
(* De-duplication (_should_send_notification, resend_decision).  The answer is *)
(* the resend_count of the page to send, or None to stay quiet.                *)

(* Forgets the cap.                                                            *)
ResendDecisionUncapped(row) ==
    IF alert.resend = Never THEN None
    ELSE IF now - row.at < alert.resend THEN None
    ELSE row.count + 1

ResendDecision(row) ==
    IF alert.resend = Never THEN None
    ELSE IF now - row.at < alert.resend THEN None
    ELSE IF alert.max # Never /\ row.count + 1 > alert.max THEN None
    ELSE row.count + 1

ShouldSend(q, r) ==
    IF snoozed THEN None
    ELSE IF LastRow(q) = None THEN 0
    ELSE IF LastRow(q).key # StateKey(r) THEN 0
    ELSE ResendDecision(LastRow(q))

-----------------------------------------------------------------------------
Idle == [pc |-> "idle", fresh |-> {}, todo |-> {}, row |-> None, pages |-> 0]

Init ==
    /\ alert \in Configs
    /\ watching = TRUE /\ snoozed = FALSE /\ routed = TRUE /\ parentDown = FALSE
    /\ reading = <<>>
    /\ stored = {} /\ last = None
    /\ request = [q \in Requests |-> Idle]
    /\ now = 0
    /\ evaluated = [t \in 1..MaxRuns |-> 0]
    /\ told = None /\ inRow = 0 /\ lost = 0
    /\ slips = {}
    /\ events = 0

Event == events < MaxEvents /\ events' = events + 1

(* The agent runs the check: results have distinct timestamps.                 *)
RunCheck ==
    /\ Len(reading) < MaxRuns
    /\ \E r \in Readings(alert.trigger) : reading' = Append(reading, r)
    /\ UNCHANGED <<switches, parentDown, tables, request, now, evaluated, paging,
                   slips, events>>

(* Every result of the report, the ones stored before as well.                 *)
InsertedAll(batch) == batch

(* bulk_insert_idempotent: a result whose (check_id, timestamp) is stored is   *)
(* skipped and not returned.                                                   *)
Inserted(batch) == batch \ stored

(* The slips a report makes by how it comes.                                   *)
Untimely(fresh) ==
    {s \in {"late", "burst", "overlap"} :
        CASE s = "late" -> \E t \in fresh : \E u \in stored : u > t
          [] s = "burst" -> Cardinality(fresh) > 1
          [] s = "overlap" -> \E q \in Requests : request[q].pc # "idle"}

(* A report: any results of the check, each for the first time or again.  A row*)
(* another transaction has not committed yet makes the insert wait for it.     *)
ProcessReport(q) ==
    /\ request[q].pc = "idle"
    /\ \E batch \in SUBSET Runs :
         /\ batch # {} /\ Cardinality(batch) <= MaxBatch
         /\ \A p \in Requests : request[p].fresh \cap batch = {}
         /\ LET fresh == Inserted(batch)
            IN  /\ request' = [request EXCEPT ![q] =
                     [pc |-> "evaluating", fresh |-> fresh, todo |-> fresh,
                      row |-> None, pages |-> 0]]
                /\ slips' = slips \cup Untimely(fresh)
    /\ UNCHANGED <<switches, parentDown, reading, tables, now, evaluated, paging,
                   events>>

(* The request is done with result t.                                          *)
Quiet(q, t) ==
    /\ request' = [request EXCEPT ![q].todo = @ \ {t}]
    /\ UNCHANGED <<now, paging>>

(* The row the request adds to the log, newer than any other, for sent pages.  *)
Logged(q, t, key, count, sent) ==
    /\ now < MaxTime
    /\ now' = now + 1
    /\ request' = [request EXCEPT ![q].todo = @ \ {t},
                                  ![q].row = [at |-> now + 1, key |-> key,
                                              count |-> count],
                                  ![q].pages = @ + sent]

(* A page reaches the operator.                                                *)
Tell(key) ==
    /\ told' = key
    /\ inRow' = IF told = key THEN inRow + 1 ELSE 1

(* _handle_parent_suppression: a row per live provider when the state is       *)
(* entered.                                                                    *)
Suppress(q, t) ==
    /\ slips' = slips \cup {"parent"}
    /\ IF ~routed \/ (LastRow(q) # None /\ LastRow(q).key = ParentDown)
         THEN Quiet(q, t)
         ELSE UNCHANGED paging /\ Logged(q, t, ParentDown, 0, 0)

(* send_to_providers: without a live provider there is no row either; a        *)
(* delivery that fails, is rate limited or finds its provider disabled is      *)
(* logged like one that arrived.                                               *)
Page(q, t, key, count) ==
    \/ /\ ~routed
       /\ Quiet(q, t)
       /\ slips' = slips \cup {"unrouted"}
    \/ /\ routed
       /\ Tell(key)
       /\ Logged(q, t, key, count, 1)
       /\ UNCHANGED <<lost, slips>>
    \/ /\ routed
       /\ UNCHANGED paging
       /\ Logged(q, t, key, count, 0)
       /\ slips' = slips \cup {"undelivered"}

(* Recoveries are told although the parent is down.                            *)
Suppressed(r) == ~IsRecovery(r) /\ parentDown

(* _fire_alert.                                                                *)
FireAlert(q, t) ==
    LET r == reading[t]
        count == ShouldSend(q, r)
    IN  IF Suppressed(r) THEN Suppress(q, t)
        ELSE IF count = None
          THEN /\ Quiet(q, t)
               /\ slips' = IF snoozed THEN slips \cup {"snoozed"} ELSE slips
        ELSE Page(q, t, StateKey(r), count)

(* evaluate_check_result on one of the inserted results that are left: they    *)
(* come as the insert returns them, in no order of time.                       *)
EvaluateCheckResult(q) ==
    /\ request[q].pc = "evaluating"
    /\ \E t \in request[q].todo :
         IF watching /\ ShouldFire(q, reading[t])
           THEN FireAlert(q, t)
           ELSE /\ Quiet(q, t)
                /\ slips' = IF watching THEN slips ELSE slips \cup {"off"}
    /\ UNCHANGED <<switches, parentDown, reading, tables, evaluated, events>>

(* The evaluation raises: its savepoint is rolled back, the error is logged and*)
(* the request goes on.  A page that went out before stays out, without a row. *)
EvaluationFails(q) ==
    /\ request[q].pc = "evaluating"
    /\ Event
    /\ \E t \in request[q].todo :
         LET r == reading[t]
         IN  /\ \/ UNCHANGED paging
                \/ /\ watching /\ routed /\ ShouldFire(q, r)
                   /\ ~Suppressed(r) /\ ShouldSend(q, r) # None
                   /\ Tell(StateKey(r)) /\ lost' = lost + 1
             /\ request' = [request EXCEPT ![q].todo = @ \ {t}]
    /\ slips' = slips \cup {"failed"}
    /\ UNCHANGED <<switches, parentDown, reading, tables, now, evaluated>>

(* get_db commits before the answer is sent.                                   *)
Commit(q) ==
    /\ request[q].pc = "evaluating" /\ request[q].todo = {}
    /\ stored' = stored \cup request[q].fresh
    /\ last' = LastRow(q)
    /\ evaluated' = [t \in 1..MaxRuns |->
                       IF t \in request[q].fresh THEN evaluated[t] + 1
                                                 ELSE evaluated[t]]
    /\ request' = [request EXCEPT ![q] = Idle]
    /\ UNCHANGED <<switches, parentDown, reading, now, paging, slips, events>>

(* The database or the server fails: the rows are gone, the pages are not.     *)
Abort(q) ==
    /\ request[q].pc = "evaluating"
    /\ Event
    /\ request' = [request EXCEPT ![q] = Idle]
    /\ lost' = lost + request[q].pages
    /\ slips' = IF request[q].pages > 0 THEN slips \cup {"rolled_back"} ELSE slips
    /\ UNCHANGED <<switches, parentDown, reading, tables, now, evaluated, told,
                   inRow>>

-----------------------------------------------------------------------------
(* People: snooze and un-snooze the pair, switch the alert or its mapping, take*)
(* the last provider away or give one.                                         *)
Edit ==
    /\ Event
    /\ \/ snoozed' = ~snoozed /\ UNCHANGED <<watching, routed>>
       \/ watching' = ~watching /\ UNCHANGED <<snoozed, routed>>
       \/ routed' = ~routed /\ UNCHANGED <<snoozed, watching>>
    /\ UNCHANGED <<alert, parentDown, reading, tables, request, now, evaluated,
                   paging, slips>>

(* A report of the agent that runs the parent is committed.                    *)
ParentTurns ==
    /\ Event
    /\ parentDown' = ~parentDown
    /\ UNCHANGED <<switches, reading, tables, request, now, evaluated, paging,
                   slips>>

Tick ==
    /\ now < MaxTime
    /\ alert.resend # Never
    /\ now' = now + 1
    /\ UNCHANGED <<switches, parentDown, reading, tables, request, evaluated,
                   paging, slips, events>>

Next ==
    \/ RunCheck \/ Edit \/ ParentTurns \/ Tick
    \/ \E q \in Requests : \/ ProcessReport(q) \/ EvaluateCheckResult(q)
                           \/ EvaluationFails(q) \/ Commit(q) \/ Abort(q)

Spec == Init /\ [][Next]_vars

-----------------------------------------------------------------------------
(* Properties.                                                                 *)

\* "A retried duplicate must not re-fire" (process_agent_report): whatever is
\* sent again, in whatever batches and by however many requests at a time, the
\* evaluation of a result is committed once, together with the result.
EvaluatedOnce ==
    \A t \in 1..MaxRuns : evaluated[t] = IF t \in stored THEN 1 ELSE 0

\* The newest result the operator can have been told of.
Newest == Max(stored)

\* "Always send on a status change" (docs, alerts): between reports, and unless
\* something on the list came between, a check that failed as often in a row as
\* the alert asks was paged as down last, and a check that is up was not.
DownIsTold ==
    /\ alert.trigger = "status_change" /\ alert.recovery /\ "error" \in alert.on
    /\ slips = {} /\ stored # {}
    /\ \A q \in Requests : request[q].pc = "idle"
    =>  LET newest == Recent(stored, alert.consecutive)
        IN  /\ /\ Cardinality(newest) = alert.consecutive
               /\ \A t \in newest : ~reading[t].ok
               => told = Key("status", "down", 0)
            /\ reading[Newest].ok => told # Key("status", "down", 0)

\* Each band of an expiring certificate is paged when it is entered, in either
\* direction, and a renewal ends it (_state_key, _evaluate_ssl_cert_expiry): with
\* nothing on the list between, the operator was told the newest state last,
\* whatever results without a certificate came in between.
BandIsTold ==
    /\ alert.trigger = "ssl_cert_expiry" /\ alert.recovery
    /\ slips = {} /\ stored # {}
    /\ \A q \in Requests : request[q].pc = "idle"
    /\ reading[Newest].days # NoCert
    =>  \/ told = SslKey(reading[Newest])
        \/ told = None /\ SslKey(reading[Newest]).state = "ok"

\* "max_resends caps the resends" and without an interval there are none
\* (resend_decision): in one state the operator is paged once and then at most
\* max times more, however late, in whatever bursts and in whatever order of a
\* burst results come, and however often the alert is snoozed, switched off or
\* left without a provider.  A page whose row is rolled back, with the savepoint
\* of its evaluation or the transaction of its report, costs one more at most.
PagesCapped ==
    /\ slips \cap {"overlap", "parent", "undelivered"} = {}
    /\ alert.resend = Never \/ alert.max # Never
    => inRow <= 1 + (IF alert.resend = Never THEN 0 ELSE alert.max) + lost

\* "Always send on a status change (down -> up or up -> down)" (docs/user-guide/
\* alerts.md): with nothing in between, the report that takes a check from up to
\* down pages.
EveryOutagePaged ==
    [][\A q \in Requests :
         /\ Commit(q) /\ slips = {} /\ stored # {} /\ request[q].fresh # {}
         /\ alert.trigger = "status_change" /\ alert.consecutive = 1
         /\ reading[Newest].ok /\ ~reading[Max(request[q].fresh)].ok
         => request[q].pages > 0]_vars
=============================================================================
