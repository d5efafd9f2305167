----------------------------- MODULE Scheduler -----------------------------
(* One row of job_configurations and everything that runs it: the polling      *)
(* loops of the server processes (_process_due_jobs, _execute_job), the Run    *)
(* button (execute_job_synchronously), and the switches of the admin panel     *)
(* (set_job_enabled, toggle_job, reset_job).  The rows are independent of each *)
(* other, so one row is enough.                                                *)
(*                                                                             *)
(* Every time is kept relative to the present: `next` and a run's `base` are   *)
(* how far ahead next_run_at lies (0 or less: due), `left` is what remains of  *)
(* the lease, and a run's `left` is how long it may stay where it is before    *)
(* the clock has to wait for it.  Tick moves them all by one.                  *)
EXTENDS Integers

CONSTANTS
    Runs,        \* the runs; a run's name is the uuid4 it leases the job with
    None,        \* no lease token
    NoRun,       \* next_run_at of a job that was never scheduled: NULL
    Trigger,     \* "interval" or "cron"
    Interval,    \* interval_seconds, or the period of the cron expression
    MaxRuntime,  \* max_runtime_seconds
    Delay,       \* longest wait of a run for its task or its next transaction
    Cleanup,     \* longest a job takes to end once its deadline cancelled it
    RetryLimit,  \* retry_limit, 0 for "never disable"
    Backoff,     \* backoff_seconds
    BackoffCap,  \* the 3600 s of a job that is never disabled
    MaxStreak,   \* bound: failures in a row
    MaxAhead,    \* bound: how far ahead next_run_at is pushed
    MaxByHand,   \* bound: runs started by hand
    MaxCrashes   \* bound: runs lost to a crash of their process

ASSUME TimesAssumption ==
    /\ Interval \in Nat \ {0} /\ MaxRuntime \in Nat \ {0}
    /\ Delay \in Nat /\ Cleanup \in Nat
    /\ RetryLimit \in Nat /\ Backoff \in Nat /\ BackoffCap \in Nat
ASSUME BoundsAssumption ==
    /\ MaxStreak \in Nat /\ MaxAhead \in Nat
    /\ MaxByHand \in Nat /\ MaxCrashes \in Nat
ASSUME NullAssumption == None \notin Runs /\ NoRun \notin Int

VARIABLES
    enabled, next, retries,  \* the row's enabled, next_run_at and retry_count
    token, left,             \* its lease_token and lease_expires_at
    run,                     \* the runs, each where it is in its code
    admin,                   \* an admin operation between its read and its write
    streak, wiped,           \* history: failures since the last success, and
                             \* whether reset_job cleared retry_count since then
    byHand, crashes          \* counted against MaxByHand and MaxCrashes

row == <<enabled, next, retries>>
lease == <<token, left>>
history == <<streak, wiped>>
budget == <<byHand, crashes>>
vars == <<enabled, next, retries, token, left, run, admin, streak, wiped,
          byHand, crashes>>

-----------------------------------------------------------------------------
(* Times.                                                                      *)

(* A lease no longer than the run it covers.                                   *)
LeaseSecondsShort == MaxRuntime

LeaseSeconds == MaxRuntime * 2

Least(a, b) == IF a <= b THEN a ELSE b

(* _calculate_next_run of an interval job: from the time it was supposed to    *)
(* run, in whole intervals, to the first slot after the present.               *)
NextSlot(base) ==
    IF base = NoRun THEN Interval
    ELSE IF base > 0 THEN base + Interval
    ELSE Interval - ((-base) % Interval)

(* A cron job goes to the next occurrence of its expression, wherever in the   *)
(* period the present lies.                                                    *)
NextRuns(base) == IF Trigger = "cron" THEN 1..Interval ELSE {NextSlot(base)}

RetryDelay(n) ==
    LET doubled == Backoff * 2^(n - 1)
    IN  IF RetryLimit = 0 THEN Least(doubled, BackoffCap) ELSE doubled

(* Of a time that has passed only its phase is ever used again.                *)
Earlier(n) ==
    IF n = NoRun THEN NoRun ELSE IF n - 1 > -Interval THEN n - 1 ELSE 0

(* NULL <= now is not true in SQL either.                                      *)
Due == next # NoRun /\ next <= 0

Near(n) == IF n = NoRun THEN TRUE ELSE n <= MaxAhead

-----------------------------------------------------------------------------
(* Runs.                                                                       *)

Free == [pc |-> "free", by |-> "timer", left |-> 0, base |-> 0]

(* The seeded jobs: one cron job is off and has no next run.                   *)
Init ==
    /\ \/ enabled = TRUE /\ next \in 1..Interval
       \/ enabled = FALSE /\ next = NoRun /\ Trigger = "cron"
    /\ retries = 0
    /\ token = None /\ left = 0
    /\ run = [r \in Runs |-> Free]
    /\ admin = [op |-> "none"]
    /\ streak = 0 /\ wiped = FALSE
    /\ byHand = 0 /\ crashes = 0

(* Never takes over a lease that was not released.                             *)
UnleasedOnly == token = None

(* The lease condition of get_due_jobs and take_lease: none, or one that has   *)
(* run out.                                                                    *)
Unleased == left = 0

(* A uuid4 no run and no lease carries.                                        *)
Fresh(r) == run[r].pc = "free" /\ token # r

TakeLease(r, by) ==
    /\ token' = r /\ left' = LeaseSeconds
    /\ run' = [run EXCEPT ![r] = [pc |-> "leased", by |-> by,
                                  left |-> Delay, base |-> 0]]

(* Clears whatever lease is there: the next worker's as well.                  *)
ReleaseAnyLease(r) == token' = None /\ left' = 0

(* release_lease: cleared only while this run's token holds it.                *)
ReleaseLease(r) ==
    IF token = r THEN token' = None /\ left' = 0 ELSE UNCHANGED lease

(* One pass of a scheduler loop that finds the job due and not leased          *)
(* (FOR UPDATE SKIP LOCKED: the row is locked until the lease is committed).   *)
ProcessDueJobs(r) ==
    /\ Fresh(r)
    /\ enabled /\ Due /\ Unleased
    /\ TakeLease(r, "timer")
    /\ UNCHANGED <<row, admin, history, budget>>

(* The Run button takes the lease in one statement, or answers "busy".         *)
LeaseForManualRun(r) ==
    /\ Fresh(r)
    /\ Unleased
    /\ byHand < MaxByHand
    /\ TakeLease(r, "hand")
    /\ byHand' = byHand + 1
    /\ UNCHANGED <<row, admin, history, crashes>>

Begin(r) ==
    run' = [run EXCEPT ![r].pc = "running", ![r].left = MaxRuntime + Cleanup,
                       ![r].base = next]

(* The dispatched task re-reads its lease and gives up when it has lost it.    *)
ExecuteJob(r) ==
    /\ run[r].pc = "leased" /\ run[r].by = "timer"
    /\ IF token = r THEN Begin(r) ELSE run' = [run EXCEPT ![r] = Free]
    /\ UNCHANGED <<row, lease, admin, history, budget>>

(* A run by hand does not look at the lease again.                             *)
RunLeasedByHand(r) ==
    /\ run[r].pc = "leased" /\ run[r].by = "hand"
    /\ Begin(r)
    /\ UNCHANGED <<row, lease, admin, history, budget>>

(* What follows the commit of the run's own transaction: a scheduled run has   *)
(* released its lease in it, a run by hand does so in another.                 *)
EndTransaction(r) ==
    \/ /\ run[r].by = "timer"
       /\ ReleaseLease(r)
       /\ run' = [run EXCEPT ![r] = Free]
    \/ /\ run[r].by = "hand"
       /\ run' = [run EXCEPT ![r].pc = "releasing", ![r].left = Delay]
       /\ UNCHANGED lease

(* Forgets to clear retry_count.                                               *)
CountSuccessKeepsRetries(r) ==
    /\ next' \in NextRuns(run[r].base)
    /\ streak' = 0 /\ wiped' = FALSE
    /\ UNCHANGED <<enabled, retries>>

(* count_success, with the next run computed from what the run read before the *)
(* job started.                                                                *)
CountSuccess(r) ==
    /\ retries' = 0 /\ next' \in NextRuns(run[r].base)
    /\ streak' = 0 /\ wiped' = FALSE
    /\ UNCHANGED enabled

Succeed(r) ==
    /\ run[r].pc = "running"
    /\ Near(run[r].base)
    /\ CountSuccess(r)
    /\ EndTransaction(r)
    /\ UNCHANGED <<admin, budget>>

(* _handle_job_failure: the count is added to the row as stored.               *)
HandleJobFailure ==
    /\ retries' = retries + 1
    /\ streak' = streak + 1
    /\ IF RetryLimit = 0 \/ retries' <= RetryLimit
         THEN next' = RetryDelay(retries') /\ UNCHANGED enabled
         ELSE enabled' = FALSE /\ UNCHANGED next
    /\ UNCHANGED wiped

(* The job raised, or its deadline cancelled it.  A run by hand is no retry    *)
(* (and its transaction may as well have been rolled back: nothing to see).    *)
Fail(r) ==
    /\ run[r].pc = "running"
    /\ \/ run[r].by = "timer" /\ streak < MaxStreak /\ HandleJobFailure
       \/ run[r].by = "hand" /\ UNCHANGED <<row, history>>
    /\ EndTransaction(r)
    /\ UNCHANGED <<admin, budget>>

ReleaseByHand(r) ==
    /\ run[r].pc = "releasing"
    /\ ReleaseLease(r)
    /\ run' = [run EXCEPT ![r] = Free]
    /\ UNCHANGED <<row, admin, history, budget>>

(* The process of the run dies, or the database rolls its transaction back:    *)
(* nothing it did is kept, and its lease stays in the row.                     *)
Die(r) ==
    /\ run[r].pc # "free"
    /\ crashes < MaxCrashes
    /\ crashes' = crashes + 1
    /\ run' = [run EXCEPT ![r] = Free]
    /\ UNCHANGED <<row, lease, admin, history, byHand>>

-----------------------------------------------------------------------------
(* The admin panel: each operation reads the row without a lock, and its flush *)
(* writes the columns it changed and no others.                                *)

AdminOps == {"on", "off", "toggle", "reset"}

AdminRead(op) ==
    /\ admin.op = "none"
    /\ Near(next)
    /\ admin' = [op |-> op, enabled |-> enabled, next |-> next,
                 retries |-> retries]
    /\ UNCHANGED <<row, lease, run, history, budget>>

SetJobEnabled ==
    /\ admin.op \in {"on", "off"}
    /\ IF admin.enabled = (admin.op = "on")
         THEN UNCHANGED row
         ELSE /\ enabled' = (admin.op = "on")
              /\ IF enabled' THEN next' \in NextRuns(admin.next)
                             ELSE UNCHANGED next
              /\ UNCHANGED retries
    /\ UNCHANGED wiped

ToggleJob ==
    /\ admin.op = "toggle"
    /\ enabled' = ~admin.enabled
    /\ UNCHANGED <<next, retries, wiped>>

ResetJob ==
    /\ admin.op = "reset"
    /\ retries' = IF admin.retries = 0 THEN retries ELSE 0
    /\ IF admin.enabled THEN UNCHANGED <<enabled, next>>
                        ELSE enabled' = TRUE /\ next' \in NextRuns(admin.next)
    /\ wiped' = TRUE

AdminWrite ==
    /\ SetJobEnabled \/ ToggleJob \/ ResetJob
    /\ admin' = [op |-> "none"]
    /\ UNCHANGED <<lease, run, streak, budget>>

-----------------------------------------------------------------------------
(* Time waits for a run that is at its limit and for an admin operation, which *)
(* is two statements long.                                                     *)
Aged(x) == [x EXCEPT !.left = IF x.pc = "free" THEN 0 ELSE x.left - 1,
                     !.base = IF x.pc = "running" THEN Earlier(x.base) ELSE 0]

Tick ==
    /\ admin.op = "none"
    /\ \A r \in Runs : run[r].pc = "free" \/ run[r].left > 0
    /\ next' = Earlier(next)
    /\ left' = IF left > 0 THEN left - 1 ELSE 0
    /\ run' = [r \in Runs |-> Aged(run[r])]
    /\ UNCHANGED <<enabled, retries, token, admin, history, budget>>

RunStep(r) ==
    \/ ExecuteJob(r) \/ RunLeasedByHand(r)
    \/ Succeed(r) \/ Fail(r) \/ ReleaseByHand(r)

Next ==
    \/ \E r \in Runs : \/ ProcessDueJobs(r) \/ LeaseForManualRun(r)
                       \/ RunStep(r) \/ Die(r)
    \/ \E op \in AdminOps : AdminRead(op)
    \/ AdminWrite
    \/ Tick

Spec == Init /\ [][Next]_vars

(* The loop polls every 10 seconds whatever happens, dispatched tasks and      *)
(* requests are run by the event loop, and time passes.                        *)
Fairness ==
    /\ WF_vars(\E r \in Runs : ProcessDueJobs(r))
    /\ \A r \in Runs : WF_vars(RunStep(r))
    /\ WF_vars(AdminWrite)
    /\ SF_vars(Tick)

FairSpec == Spec /\ Fairness

-----------------------------------------------------------------------------
(* Properties.                                                                 *)

\* "Lease-based single-runner semantics" (JobConfiguration): the job's function
\* is never running twice, whichever loops and Run buttons are at work, as long
\* as a task starts and a cancelled job ends within the second half of the lease.
SingleRunner ==
    \A r, s \in Runs : run[r].pc = "running" /\ run[s].pc = "running" => r = s

\* The timing SingleRunner rests on.
Prompt == Delay + Cleanup < MaxRuntime

\* A lease that has not run out is ended by the run that holds it and by no one
\* else (release_lease), even when earlier runs have outlived their leases.
LiveLeaseKept ==
    [][left > 0 /\ token' # token => run'[token] # run[token]]_vars

\* retry_count is the number of scheduled failures since the last success
\* (count_failure, count_success), and reset_job can only have lowered it.
RetriesExact == retries <= streak /\ (~wiped => retries = streak)

\* A run switches the job off only where there is a limit, and only after at
\* least as many failures in a row (_handle_job_failure): neither runs by hand
\* nor failures before a success count, however runs and admin writes interleave.
AutoDisableEarned ==
    [][enabled /\ ~enabled' /\ admin' = admin
         => RetryLimit > 0 /\ streak' >= RetryLimit]_vars

\* "retry_limit > 0: Disable after retry_limit consecutive failures" (docstring of
\* _handle_job_failure): the failure that makes them as many as the limit, with
\* no reset_job in between, leaves the job switched off.
DisabledAtLimit ==
    [][RetryLimit > 0 /\ ~wiped /\ streak' = streak + 1 /\ streak' >= RetryLimit
         => ~enabled']_vars

\* A due job is run and moves on, or is disabled: a lease a dead process left
\* behind does not hold it for ever.
DueJobMovesOn == (enabled /\ Due) ~> ~(enabled /\ Due)
=============================================================================
