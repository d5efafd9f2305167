---------------------------- MODULE Maintenance ----------------------------
(* The queue of maintenance jobs (deletes of agents and status pages, bulk     *)
(* changes of checks): requests enqueue rows, each server process runs a       *)
(* worker that claims them oldest first, and the claim, the handler and its    *)
(* outcome are three transactions a crash can fall between                     *)
(* (maintenance_worker.py, maintenance_job_core_service.py).                   *)
(*                                                                             *)
(* Jobs are numbered in the order of created_at.  What a handler does is the   *)
(* fact that its transaction committed.  A job's parameters are readable under *)
(* the encryption key they were written with.                                  *)
(*                                                                             *)
(* The names of the specification let it be extended together with Scheduler,  *)
(* the other background work of a server process.                              *)
EXTENDS Naturals, FiniteSets

CONSTANTS
    Workers,    \* the server processes
    Targets,    \* what jobs are about, each with its kind
    NoTarget,   \* the bulk jobs' NULL target_id
    Secrets,    \* the values of SECURITY__FIELD_ENCRYPTION_KEY
    MaxJobs,    \* bound: jobs enqueued
    MaxFaults   \* bound: crashes, finalizations that fail, answers that are lost

ASSUME TargetAssumption == NoTarget \notin Targets
ASSUME SecretsAssumption == Secrets # {}
ASSUME QueueBounds == MaxJobs \in Nat /\ MaxFaults \in Nat

VARIABLES
    jobs,     \* the table: each job's target, status, error and key
    applied,  \* history: how often each job's handler committed
    pc, cur,  \* each worker's step, and the job it holds
    secret,   \* the key each process runs with
    unsaid,   \* history: jobs left running: no outcome could be stored, or the
              \* claim's answer was lost
    unheard,  \* history: jobs whose handler committed and whose worker was told
              \* otherwise
    faults

queueVars == <<jobs, applied, pc, cur, secret, unsaid, unheard, faults>>

Numbers == 1..MaxJobs
Statuses == {"new", "queued", "running", "done", "failed", "pruned"}
Errors == {"none", "handler", "interrupted"}

With(status) == {j \in Numbers : jobs[j].status = status}
Inflight == With("queued") \cup With("running")
Terminal == With("done") \cup With("failed")
Fault == faults < MaxFaults /\ faults' = faults + 1

(* enqueue: a job of a target already in flight is not inserted again; a NULL  *)
(* target never conflicts.                                                     *)
Enqueue(w, t) ==
    /\ pc[w] # "down"
    /\ \A j \in Inflight : jobs[j].target # t \/ t = NoTarget
    /\ \E j \in With("new") :
          /\ \A i \in With("new") : j <= i
          /\ jobs' = [jobs EXCEPT ![j] = [target |-> t, status |-> "queued",
                                          error |-> "none", key |-> secret[w]]]
    /\ UNCHANGED <<applied, pc, cur, secret, unsaid, unheard, faults>>

(* claim_next: the oldest queued row.                                          *)
ClaimNext(j) == j \in With("queued") /\ \A i \in With("queued") : j <= i

(* _claim_one: claimed and marked running in one transaction.  When the params *)
(* of the oldest do not decrypt the claim rolls back, and the queue waits.     *)
ClaimOne(w) ==
    /\ pc[w] = "idle"
    /\ \E j \in Numbers :
          /\ ClaimNext(j) /\ jobs[j].key = secret[w]
          /\ jobs' = [jobs EXCEPT ![j].status = "running"]
          /\ cur' = [cur EXCEPT ![w] = j]
    /\ pc' = [pc EXCEPT ![w] = "handler"]
    /\ UNCHANGED <<applied, secret, unsaid, unheard, faults>>

(* The claim commits and its answer is lost: the worker knows of no job.       *)
ClaimUnheard(w) ==
    /\ pc[w] = "idle" /\ Fault
    /\ \E j \in Numbers :
          /\ ClaimNext(j) /\ jobs[j].key = secret[w]
          /\ jobs' = [jobs EXCEPT ![j].status = "running"]
          /\ unsaid' = unsaid \cup {j}
    /\ UNCHANGED <<applied, pc, cur, secret, unheard>>

(* _run_handler: its transaction commits as a whole, or an error rolls it back.*)
RunHandler(w) ==
    /\ pc[w] = "handler"
    /\ \/ /\ applied' = [applied EXCEPT ![cur[w]] = @ + 1]
          /\ pc' = [pc EXCEPT ![w] = "success"]
       \/ pc' = [pc EXCEPT ![w] = "failure"] /\ UNCHANGED applied
    /\ UNCHANGED <<jobs, cur, secret, unsaid, unheard, faults>>

(* Its commit takes effect and the answer is lost: the worker sees an error.   *)
HandlerUnheard(w) ==
    /\ pc[w] = "handler" /\ Fault
    /\ applied' = [applied EXCEPT ![cur[w]] = @ + 1]
    /\ pc' = [pc EXCEPT ![w] = "failure"]
    /\ unheard' = unheard \cup {cur[w]}
    /\ UNCHANGED <<jobs, cur, secret, unsaid>>

(* Reports success whatever the handler said.                                  *)
FinalizeUnread(w) ==
    /\ pc[w] \in {"success", "failure"}
    /\ jobs' = [jobs EXCEPT ![cur[w]].status = "done"]
    /\ pc' = [pc EXCEPT ![w] = "idle"] /\ cur' = [cur EXCEPT ![w] = 0]
    /\ UNCHANGED <<applied, secret, unsaid, unheard, faults>>

(* _finalize, in a transaction of its own; a row that is gone is not updated.  *)
Finalize(w) ==
    /\ pc[w] \in {"success", "failure"}
    /\ jobs' = IF jobs[cur[w]].status = "pruned" THEN jobs
               ELSE [jobs EXCEPT
                   ![cur[w]].status = IF pc[w] = "success" THEN "done" ELSE "failed",
                   ![cur[w]].error = IF pc[w] = "success" THEN @ ELSE "handler"]
    /\ pc' = [pc EXCEPT ![w] = "idle"] /\ cur' = [cur EXCEPT ![w] = 0]
    /\ UNCHANGED <<applied, secret, unsaid, unheard, faults>>

(* The database refuses it: the loop goes on after its back-off, and the row   *)
(* stays running until a start fails it.                                       *)
FinalizeFails(w) ==
    /\ pc[w] \in {"success", "failure"} /\ Fault
    /\ unsaid' = unsaid \cup {cur[w]}
    /\ pc' = [pc EXCEPT ![w] = "idle"] /\ cur' = [cur EXCEPT ![w] = 0]
    /\ UNCHANGED <<jobs, applied, secret, unheard>>

(* Puts a running row back on the queue.                                       *)
InterruptedRetried ==
    [j \in Numbers |->
        IF jobs[j].status = "running" THEN [jobs[j] EXCEPT !.status = "queued"]
        ELSE jobs[j]]

(* Leaves it running.                                                          *)
InterruptedKept == jobs

(* mark_interrupted_on_restart: whoever runs it, a running row is failed.      *)
Interrupted ==
    [j \in Numbers |->
        IF jobs[j].status = "running"
        THEN [jobs[j] EXCEPT !.status = "failed", !.error = "interrupted"]
        ELSE jobs[j]]

(* start_maintenance_worker, in a process configured with some key.            *)
Start(w) ==
    /\ pc[w] = "down" /\ jobs' = Interrupted
    /\ \E s \in Secrets : secret' = [secret EXCEPT ![w] = s]
    /\ pc' = [pc EXCEPT ![w] = "idle"]
    /\ UNCHANGED <<applied, cur, unsaid, unheard, faults>>

(* A process is killed or stopped, whatever its worker is doing.               *)
Crash(w) ==
    /\ pc[w] # "down" /\ Fault
    /\ pc' = [pc EXCEPT ![w] = "down"] /\ cur' = [cur EXCEPT ![w] = 0]
    /\ UNCHANGED <<jobs, applied, secret, unsaid, unheard>>

(* _periodic_cleanup_if_due, with nothing queued: terminal rows past their     *)
(* retention go, the oldest first.                                             *)
PeriodicCleanup(w) ==
    /\ pc[w] = "idle" /\ With("queued") = {}
    /\ \E j \in Terminal : jobs' = [jobs EXCEPT ![j].status = "pruned"]
    /\ UNCHANGED <<applied, pc, cur, secret, unsaid, unheard, faults>>

QueueInit ==
    /\ jobs = [j \in Numbers |-> [target |-> NoTarget, status |-> "new",
                                  error |-> "none", key |-> CHOOSE s \in Secrets : TRUE]]
    /\ applied = [j \in Numbers |-> 0]
    /\ pc = [w \in Workers |-> "down"] /\ cur = [w \in Workers |-> 0]
    /\ secret = [w \in Workers |-> CHOOSE s \in Secrets : TRUE]
    /\ unsaid = {} /\ unheard = {} /\ faults = 0

QueueNext ==
    \E w \in Workers :
        \/ Start(w) \/ ClaimOne(w) \/ RunHandler(w) \/ Finalize(w)
        \/ ClaimUnheard(w) \/ HandlerUnheard(w) \/ FinalizeFails(w)
        \/ Crash(w) \/ PeriodicCleanup(w)
        \/ \E t \in Targets \cup {NoTarget} : Enqueue(w, t)

(* A process that ended is started again, and its worker's loop goes on.       *)
QueueFairness ==
    \A w \in Workers :
        /\ WF_queueVars(Start(w))
        /\ WF_queueVars(ClaimOne(w) \/ RunHandler(w) \/ Finalize(w))

QueueSpec == QueueInit /\ [][QueueNext]_queueVars /\ QueueFairness

-----------------------------------------------------------------------------
(* Properties.                                                                 *)

(* mark_interrupted_on_restart, claim_next: no job's work is committed twice,  *)
(* however its worker died and whoever took over.                              *)
AppliedOnce == \A j \in Numbers : applied[j] <= 1

(* process_next_job, _finalize: a job that reads done was carried out, and one *)
(* that reads failed by its handler was not, unless the answer to the          *)
(* handler's commit was lost; "interrupted" leaves it open.                    *)
OutcomeTrue ==
    \A j \in Numbers :
        /\ jobs[j].status = "done" => applied[j] = 1
        /\ jobs[j].status = "failed" /\ jobs[j].error = "handler"
              => applied[j] = 0 \/ j \in unheard

(* The oldest queued job cannot be read by any process that is up.             *)
QueueStopped ==
    \E j \in Numbers :
        ClaimNext(j) /\ \A w \in Workers : pc[w] # "down" => secret[w] # jobs[j].key

(* _maintenance_worker_loop, start_maintenance_worker: every job reaches an    *)
(* outcome someone polling it sees, unless a wrong key stops the queue, the    *)
(* outcome could not be stored or the answer to its claim was lost.            *)
EveryRequestEnds ==
    \A j \in Numbers :
        jobs[j].status = "queued"
            ~> (j \notin Inflight \/ j \in unsaid \/ QueueStopped)

=============================================================================
