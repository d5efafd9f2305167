-------------------------------- MODULE Jobs --------------------------------
(* The life of the jobs of one agent: the jobs table of the server             *)
(* (job_core_service.py, job_crud.py), their dispatch in heartbeat answers     *)
(* (agent_core_service.process_heartbeat) and their execution by the agent     *)
(* (job_processor.py).  The agent reports a start and a result, each once and  *)
(* as a request that may be lost or be processed after the agent has given up  *)
(* waiting for it; it never hears of a cancel.                                 *)
EXTENDS Naturals, FiniteSets

CONSTANTS
    MaxJobs,     \* bound: jobs created, numbered in the order of created_at
    Priorities,  \* the priorities they are given
    Dispatch,    \* job_max_dispatch_per_heartbeat
    MaxLosses,   \* bound: answers and requests the network loses
    MaxStops,    \* bound: restarts of the agent
    MaxEdits     \* bound: cancels, deletions and expirations

ASSUME JobsAssumption ==
    /\ MaxJobs \in Nat /\ Dispatch \in Nat \ {0}
    /\ Priorities \subseteq Nat /\ MaxLosses \in Nat /\ MaxStops \in Nat
    /\ MaxEdits \in Nat

Jobs == 1..MaxJobs
Finished == {"completed", "failed", "cancelled"}

VARIABLES
    made,     \* the number of jobs created so far
    row,      \* the status of each job in the table; "absent": no such row
    prio,     \* its priority
    expired,  \* the jobs past their expires_at
    beat,     \* the heartbeat: idle; read, orphan: the server at work, the
              \* latter for an agent that is gone; sent: its answer on the way
    picked,   \* the jobs it read as pending, or whose dispatch is on its way
    queue,    \* the agent's queue: the jobs with the answer they came in
    answers,  \* the number of answers that brought the agent jobs
    current,  \* the jobs the agent's worker is executing: none or one
    net,      \* requests of the agent the server has not processed yet
    started,  \* history: <<job, n>>, the job was the n-th to be executed
    losses, stops, edits

table == <<made, row, prio, expired>>
heartbeat == <<beat, picked>>
agent == <<queue, answers, current, started>>
budget == <<losses, stops, edits>>
vars == <<made, row, prio, expired, beat, picked, queue, answers,
          current, net, started, losses, stops, edits>>

Init ==
    /\ made = 0 /\ row = [j \in Jobs |-> "absent"]
    /\ prio = [j \in Jobs |-> 0] /\ expired = {}
    /\ beat = "idle" /\ picked = {}
    /\ queue = {} /\ answers = 0 /\ current = {} /\ net = {} /\ started = {}
    /\ losses = 0 /\ stops = 0 /\ edits = 0

-----------------------------------------------------------------------------
(* The server's requests on the table, each a transaction.                     *)

CreateJob(p) ==
    /\ made < MaxJobs
    /\ made' = made + 1
    /\ row' = [row EXCEPT ![made'] = "pending"]
    /\ prio' = [prio EXCEPT ![made'] = p]
    /\ UNCHANGED <<expired, heartbeat, agent, net, budget>>

(* Any status may be overwritten.                                              *)
MovableAlways(j, status) == row[j] # "absent"

(* A result counts only once the start has been noticed.                       *)
MovableFromRunning(j, status) ==
    CASE status = "running" -> row[j] = "assigned"
      [] status = "cancelled" -> row[j] \notin Finished \cup {"absent"}
      [] OTHER -> row[j] = "running"

(* The WHERE of move_open_job: only an unfinished job moves, and only an       *)
(* assigned one starts running.                                                *)
Movable(j, status) ==
    IF status = "running" THEN row[j] = "assigned"
                          ELSE row[j] \notin Finished \cup {"absent"}

MoveOpenJob(j, status) ==
    row' = IF Movable(j, status) THEN [row EXCEPT ![j] = status] ELSE row

Edit == edits < MaxEdits /\ edits' = edits + 1

CancelJob(j) ==
    /\ Edit /\ row[j] # "absent"
    /\ MoveOpenJob(j, "cancelled")
    /\ UNCHANGED <<made, prio, expired, heartbeat, agent, net, losses, stops>>

DeleteJob(j) ==
    /\ Edit /\ row[j] # "absent"
    /\ row' = [row EXCEPT ![j] = "absent"]
    /\ UNCHANGED <<made, prio, expired, heartbeat, agent, net, losses, stops>>

Expire(j) ==
    /\ Edit /\ row[j] # "absent" /\ j \notin expired
    /\ expired' = expired \cup {j}
    /\ UNCHANGED <<made, row, prio, heartbeat, agent, net, losses, stops>>

Purgeable == {j \in expired : row[j] \in Finished}

PurgeExpiredJobs ==
    /\ expired # {}
    /\ row' = [j \in Jobs |-> IF j \in Purgeable THEN "absent" ELSE row[j]]
    /\ UNCHANGED <<made, prio, expired, heartbeat, agent, net, budget>>

-----------------------------------------------------------------------------
(* A heartbeat: the pending jobs are read, assigned in memory, and written     *)
(* when the request commits; the answer leaves after that.  Heartbeats of an   *)
(* agent hold a lock on its row, so there is one at a time.                    *)

Before(j, k) == prio[j] > prio[k] \/ (prio[j] = prio[k] /\ j < k)

First(S, n) == {j \in S : Cardinality({k \in S : Before(k, j)}) < n}

(* Offers what was already assigned once more.                                 *)
OpenAgain == {j \in Jobs : row[j] \in {"pending", "assigned"}}

PendingForAgent == {j \in Jobs : row[j] = "pending"}

GetPendingJobs ==
    /\ beat = "idle"
    /\ beat' = "read"
    /\ picked' = First(PendingForAgent, Dispatch)
    /\ UNCHANGED <<table, agent, net, budget>>

(* The flush writes `assigned` by primary key, whatever the row holds by now;  *)
(* a row that is gone fails the whole request.                                 *)
Assigned(S) == [j \in Jobs |-> IF j \in S THEN "assigned" ELSE row[j]]

CommitDispatch ==
    /\ beat \in {"read", "orphan"}
    /\ LET found == \A j \in picked : row[j] # "absent"
           heard == found /\ beat = "read"
       IN /\ row' = IF found THEN Assigned(picked) ELSE row
          /\ beat' = IF heard THEN "sent" ELSE "idle"
          /\ picked' = IF heard THEN picked ELSE {}
    /\ UNCHANGED <<made, prio, expired, agent, net, budget>>

(* enqueue_jobs: the answer's order is Before, so its number and Before give   *)
(* the order of arrival.                                                       *)
EnqueueJobs ==
    /\ beat = "sent"
    /\ answers' = IF picked = {} THEN answers ELSE answers + 1
    /\ queue' = queue \cup (picked \X {answers'})
    /\ beat' = "idle" /\ picked' = {}
    /\ UNCHANGED <<table, current, net, started, budget>>

LoseAnswer ==
    /\ beat = "sent" /\ losses < MaxLosses
    /\ losses' = losses + 1
    /\ beat' = "idle" /\ picked' = {}
    /\ UNCHANGED <<table, agent, net, stops, edits>>

-----------------------------------------------------------------------------
(* The agent's single worker.                                                  *)

(* Takes any of the jobs of the highest priority: the heap without its         *)
(* sequence numbers.                                                           *)
HeadOfAny(q) == \A other \in queue : prio[q[1]] >= prio[other[1]]

(* The priority queue: highest priority first, then in order of arrival.       *)
HeadOf(q) ==
    \A other \in queue :
        \/ prio[q[1]] > prio[other[1]]
        \/ /\ prio[q[1]] = prio[other[1]]
           /\ q[2] < other[2] \/ (q[2] = other[2] /\ q[1] <= other[1])

Request(kind, j) == [kind |-> kind, job |-> j]

(* _execute_job of a known type: the start notice is sent and, answered or     *)
(* not, the job runs.                                                          *)
ExecuteJob(q) ==
    /\ current = {} /\ q \in queue /\ HeadOf(q)
    /\ queue' = queue \ {q}
    /\ current' = {q[1]}
    /\ net' = net \cup {Request("running", q[1])}
    /\ started' = started \cup {<<q[1], Cardinality(started) + 1>>}
    /\ UNCHANGED <<table, heartbeat, answers, budget>>

(* Of an unknown type, or refused by its handler: a failure at once.           *)
RefuseJob(q) ==
    /\ current = {} /\ q \in queue /\ HeadOf(q)
    /\ queue' = queue \ {q}
    /\ net' = net \cup {Request("failed", q[1])}
    /\ started' = started \cup {<<q[1], Cardinality(started) + 1>>}
    /\ UNCHANGED <<table, heartbeat, answers, current, budget>>

(* The job ends, raises or times out, and its result is posted, once.          *)
SubmitResult(j, status) ==
    /\ j \in current
    /\ current' = {}
    /\ net' = net \cup {Request(status, j)}
    /\ UNCHANGED <<table, heartbeat, queue, answers, started, budget>>

(* start_job and submit_job_results on the server; 404 for a deleted job.      *)
ProcessRequest(m) ==
    /\ m \in net
    /\ net' = net \ {m}
    /\ MoveOpenJob(m.job, m.kind)
    /\ UNCHANGED <<made, prio, expired, heartbeat, agent, budget>>

LoseRequest(m) ==
    /\ m \in net /\ losses < MaxLosses
    /\ losses' = losses + 1
    /\ net' = net \ {m}
    /\ UNCHANGED <<table, heartbeat, agent, stops, edits>>

(* stop() or a crash: the queue lives in memory and the running job is         *)
(* cancelled without a result; the answer to a heartbeat finds nobody.         *)
StopAgent ==
    /\ stops < MaxStops
    /\ stops' = stops + 1
    /\ queue' = {} /\ current' = {}
    /\ beat' = IF beat \in {"read", "orphan"} THEN "orphan" ELSE "idle"
    /\ picked' = IF beat = "sent" THEN {} ELSE picked
    /\ UNCHANGED <<table, answers, net, started, losses, edits>>

-----------------------------------------------------------------------------
Server ==
    \/ \E p \in Priorities : CreateJob(p)
    \/ \E j \in Jobs : CancelJob(j) \/ DeleteJob(j) \/ Expire(j)
    \/ PurgeExpiredJobs

Beat == GetPendingJobs \/ CommitDispatch \/ EnqueueJobs

Work ==
    \/ \E q \in queue : ExecuteJob(q) \/ RefuseJob(q)
    \/ \E j \in Jobs : \E s \in {"completed", "failed"} : SubmitResult(j, s)

Fault == LoseAnswer \/ StopAgent \/ \E m \in net : LoseRequest(m)

Next ==
    \/ Server \/ Beat \/ Work \/ Fault
    \/ \E m \in net : ProcessRequest(m)

Spec == Init /\ [][Next]_vars

(* The heartbeat loop outlives every error, jobs are bounded by their timeout, *)
(* and a request that is not lost is processed.                                *)
Fairness ==
    /\ WF_vars(GetPendingJobs) /\ WF_vars(CommitDispatch) /\ WF_vars(EnqueueJobs)
    /\ WF_vars(Work)
    /\ \A j \in Jobs : \A s \in {"running", "completed", "failed"} :
          WF_vars(ProcessRequest(Request(s, j)))

FairSpec == Spec /\ Fairness

-----------------------------------------------------------------------------
(* Properties.                                                                 *)

\* "No auto-retry": whatever is lost, cancelled, deleted or restarted, no job is
\* executed twice (a dispatch is committed before its answer leaves, and only
\* pending jobs are dispatched).
AtMostOnce ==
    \A a, b \in started : a[1] = b[1] => a = b

\* "A finished job keeps its state: a late notice from an agent does not reopen
\* it" (update_job_status, submit_job_result, cancel_job), outside of the window
\* of a heartbeat that has read the job as pending.
FinishedKept ==
    [][\A j \in Jobs :
          /\ row[j] \in Finished
          /\ ~(beat \in {"read", "orphan"} /\ j \in picked)
          => row'[j] \in {row[j], "absent"}]_vars

\* "Order is by priority, then FIFO": of two jobs of one priority that the agent
\* executes, the older is executed first, across heartbeats and limits.
FifoWithinPriority ==
    \A a, b \in started :
        prio[a[1]] = prio[b[1]] /\ a[2] < b[2] => a[1] < b[1]

\* Every job that was created ends, although its start notice may be processed
\* after its result, unless a message was lost or the agent was restarted.
EveryJobEnds ==
    \A j \in Jobs :
        row[j] = "pending"
            ~> row[j] \in Finished \cup {"absent"} \/ losses + stops > 0

\* `assigned`: "Sent to the agent, awaiting execution", `running`: "Executing
\* now" (jobs.md).  Unless a message was lost or the agent was restarted, the
\* execution or the news of it is still to come, whatever cancels, deletions and
\* late start notices come in between.  A loss or a restart does strand jobs:
\* nothing dispatches them again.
StrandedOnlyByLoss ==
    losses = 0 /\ stops = 0 =>
        \A j \in Jobs :
            row[j] \in {"assigned", "running"} =>
                \/ j \in picked \/ j \in current
                \/ \E q \in queue : q[1] = j
                \/ \E m \in net : m.job = j /\ m.kind # "running"
=============================================================================
