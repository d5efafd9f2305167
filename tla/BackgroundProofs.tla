-------------------------- MODULE BackgroundProofs --------------------------
(* The background work of the server processes.  What the scheduler guarantees *)
(* for every number of runs and every setting of the job, and what the queue   *)
(* of maintenance jobs does for any number of processes, jobs, targets, keys   *)
(* and faults.                                                                 *)
EXTENDS Scheduler, Maintenance, TLAPS

-----------------------------------------------------------------------------
(* The single runner.  SingleRunner alone is not inductive: that a second run  *)
(* cannot start is a matter of the lease outlasting the first, so the          *)
(* invariant says by how much it does, at every place of the run's code.       *)

RunShape ==
    /\ DOMAIN run = Runs /\ run = [r \in Runs |-> run[r]]
    /\ \A r \in Runs :
          /\ run[r] = [pc |-> run[r].pc, by |-> run[r].by,
                       left |-> run[r].left, base |-> run[r].base]
          /\ run[r].left \in Nat

LeaseCovers ==
    \A r \in Runs :
        /\ run[r].pc = "leased" =>
              token = r /\ run[r].left + MaxRuntime + Cleanup < left
        /\ run[r].pc = "running" => token = r /\ run[r].left < left

LeaseInv == RunShape /\ left \in Nat /\ LeaseCovers

\* Taking the lease (get_due_jobs, take_lease): no run is at work, since its
\* lease would not have run out.
LEMMA LeaseTaken ==
    ASSUME Prompt, LeaseInv, NEW r \in Runs, NEW by, Unleased, TakeLease(r, by)
    PROVE  LeaseInv'
<1>1. ASSUME NEW s \in Runs, run[s].pc \in {"leased", "running"} PROVE FALSE
  <2>1. run[s].left \in Nat /\ left \in Nat
    BY DEF LeaseInv, RunShape
  <2>2. left > 0
    BY <1>1, <2>1, TimesAssumption DEF LeaseInv, LeaseCovers
  <2> QED BY <2>2 DEF Unleased
<1>2. Delay \in Nat /\ LeaseSeconds \in Nat
      /\ Delay + MaxRuntime + Cleanup < LeaseSeconds
  BY TimesAssumption DEF LeaseSeconds, Prompt
<1>3. /\ run'[r] = [pc |-> "leased", by |-> by, left |-> Delay, base |-> 0]
      /\ \A s \in Runs \ {r} : run'[s] = run[s]
      /\ DOMAIN run' = Runs /\ run' = [s \in Runs |-> run'[s]]
  BY DEF LeaseInv, RunShape, TakeLease
<1>4. RunShape'
  BY <1>2, <1>3 DEF LeaseInv, RunShape
<1>5. LeaseCovers'
  BY <1>1, <1>2, <1>3 DEF LeaseCovers, TakeLease
<1> QED BY <1>2, <1>4, <1>5 DEF LeaseInv, TakeLease

\* The job starts (_execute_job, _run_leased_by_hand).
LEMMA RunBegins ==
    ASSUME LeaseInv, NEW r \in Runs, run[r].pc = "leased", Begin(r),
           UNCHANGED lease
    PROVE  LeaseInv'
<1>1. /\ run'[r] = [run[r] EXCEPT !.pc = "running",
                                  !.left = MaxRuntime + Cleanup, !.base = next]
      /\ \A s \in Runs \ {r} : run'[s] = run[s]
      /\ DOMAIN run' = Runs /\ run' = [s \in Runs |-> run'[s]]
  BY DEF LeaseInv, RunShape, Begin
<1>2. run[r] = [pc |-> run[r].pc, by |-> run[r].by,
                left |-> run[r].left, base |-> run[r].base]
  BY DEF LeaseInv, RunShape
<1>3. PICK by : run'[r] = [pc |-> "running", by |-> by,
                           left |-> MaxRuntime + Cleanup, base |-> next]
  BY <1>1, <1>2
<1>4. RunShape'
  <2>1. /\ run'[r] = [pc |-> run'[r].pc, by |-> run'[r].by,
                      left |-> run'[r].left, base |-> run'[r].base]
        /\ run'[r].left \in Nat
    BY <1>3, TimesAssumption
  <2>2. ASSUME NEW s \in Runs \ {r}
        PROVE  /\ run'[s] = [pc |-> run'[s].pc, by |-> run'[s].by,
                             left |-> run'[s].left, base |-> run'[s].base]
               /\ run'[s].left \in Nat
    BY <1>1 DEF LeaseInv, RunShape
  <2> QED BY <1>1, <2>1, <2>2 DEF RunShape
<1>5. token = r /\ MaxRuntime + Cleanup < left
  <2>1. run[r].left \in Nat /\ left \in Nat
    BY DEF LeaseInv, RunShape
  <2> QED BY <2>1, TimesAssumption DEF LeaseInv, LeaseCovers
<1>6. LeaseCovers'
  <2>1. run'[r].pc = "running" /\ run'[r].left = MaxRuntime + Cleanup
    BY <1>3
  <2>2. token' = token /\ left' = left /\ \A s \in Runs \ {r} : run'[s] = run[s]
    BY <1>1 DEF lease
  <2> QED BY <1>5, <2>1, <2>2 DEF LeaseInv, LeaseCovers
<1> QED BY <1>4, <1>6 DEF LeaseInv, lease

\* A run that is over, or by hand has only its lease left to clear, protects
\* nothing any more.
LEMMA RunOver ==
    ASSUME LeaseInv, NEW r \in Runs,
           \/ run' = [run EXCEPT ![r] = Free]
           \/ run' = [run EXCEPT ![r].pc = "releasing", ![r].left = Delay],
           ReleaseLease(r) \/ UNCHANGED lease
    PROVE  LeaseInv'
<1>1. run[r] = [pc |-> run[r].pc, by |-> run[r].by,
                left |-> run[r].left, base |-> run[r].base]
  BY DEF LeaseInv, RunShape
<1>2. /\ \A s \in Runs \ {r} : run'[s] = run[s]
      /\ DOMAIN run' = Runs /\ run' = [s \in Runs |-> run'[s]]
  BY DEF LeaseInv, RunShape
<1>3. \/ run'[r] = [pc |-> "free", by |-> "timer", left |-> 0, base |-> 0]
      \/ run'[r] = [pc |-> "releasing", by |-> run[r].by,
                    left |-> Delay, base |-> run[r].base]
  <2>1. run'[r] = Free \/ run'[r] = [run[r] EXCEPT !.pc = "releasing",
                                                   !.left = Delay]
    BY DEF LeaseInv, RunShape
  <2> QED BY <1>1, <2>1 DEF Free
<1>4. RunShape'
  BY <1>2, <1>3, TimesAssumption DEF LeaseInv, RunShape
<1>5. left' \in Nat /\ (token # r => token' = token /\ left' = left)
  BY DEF ReleaseLease, lease, LeaseInv
<1>6. LeaseCovers'
  <2>1. ASSUME NEW s \in Runs, run'[s].pc \in {"leased", "running"}
        PROVE  s # r /\ run'[s] = run[s] /\ token = s
    BY <1>2, <1>3, <2>1 DEF LeaseInv, LeaseCovers
  <2> QED BY <1>5, <2>1 DEF LeaseInv, LeaseCovers
<1> QED BY <1>4, <1>5, <1>6 DEF LeaseInv

\* Waiting for a second takes as much from the lease as from the run.
LEMMA TimePasses ==
    ASSUME LeaseInv, Tick
    PROVE  LeaseInv'
<1>1. ASSUME NEW r \in Runs
      PROVE  /\ run'[r] = [pc |-> run'[r].pc, by |-> run'[r].by,
                           left |-> run'[r].left, base |-> run'[r].base]
             /\ run'[r].left \in Nat /\ run'[r].pc = run[r].pc
             /\ run[r].pc # "free" => run'[r].left = run[r].left - 1
  <2>1. run'[r] = Aged(run[r]) /\ (run[r].pc = "free" \/ run[r].left > 0)
    BY DEF Tick
  <2>2. run[r].left \in Nat /\ run[r] = [pc |-> run[r].pc, by |-> run[r].by,
                                         left |-> run[r].left, base |-> run[r].base]
    BY DEF LeaseInv, RunShape
  <2> DEFINE l == IF run[r].pc = "free" THEN 0 ELSE run[r].left - 1
             b == IF run[r].pc = "running" THEN Earlier(run[r].base) ELSE 0
  <2>3. Aged(run[r]) = [run[r] EXCEPT !.left = l, !.base = b]
    BY DEF Aged
  <2>4. l \in Nat /\ (run[r].pc # "free" => l = run[r].left - 1)
    BY <2>1, <2>2
  <2> HIDE DEF l, b
  <2>5. run'[r] = [pc |-> run[r].pc, by |-> run[r].by, left |-> l, base |-> b]
    BY <2>1, <2>2, <2>3
  <2> QED BY <2>4, <2>5
<1>2. RunShape'
  <2>1. DOMAIN run' = Runs /\ run' = [r \in Runs |-> run'[r]]
    BY DEF Tick
  <2> QED BY <1>1, <2>1 DEF RunShape
<1>3. /\ left \in Nat /\ left' \in Nat /\ token' = token
      /\ left > 0 => left' = left - 1
  BY DEF Tick, LeaseInv
<1>4. ASSUME NEW r \in Runs
      PROVE  /\ run'[r].pc = "leased" =>
                   token' = r /\ run'[r].left + MaxRuntime + Cleanup < left'
             /\ run'[r].pc = "running" => token' = r /\ run'[r].left < left'
  <2>1. /\ run[r].left \in Nat /\ run'[r].pc = run[r].pc
        /\ run[r].pc # "free" => run'[r].left = run[r].left - 1
    BY <1>1 DEF LeaseInv, RunShape
  <2>2. CASE run[r].pc = "leased"
    <3>1. token = r /\ run[r].left + MaxRuntime + Cleanup < left
      BY <2>2 DEF LeaseInv, LeaseCovers
    <3> QED BY <1>3, <2>1, <2>2, <3>1, TimesAssumption
  <2>3. CASE run[r].pc = "running"
    <3>1. token = r /\ run[r].left < left
      BY <2>3 DEF LeaseInv, LeaseCovers
    <3> QED BY <1>3, <2>1, <2>3, <3>1
  <2> QED BY <2>1, <2>2, <2>3
<1>5. LeaseCovers'
  BY <1>4 DEF LeaseCovers
<1> QED BY <1>2, <1>3, <1>5 DEF LeaseInv

\* Every step keeps the lease ahead of the run it covers.
LEMMA LeaseNext ==
    ASSUME Prompt, LeaseInv, [Next]_vars
    PROVE  LeaseInv'
<1>1. ASSUME NEW r \in Runs, ProcessDueJobs(r) \/ LeaseForManualRun(r)
      PROVE  LeaseInv'
  BY <1>1, LeaseTaken DEF ProcessDueJobs, LeaseForManualRun
<1>2. ASSUME NEW r \in Runs, ExecuteJob(r) \/ RunLeasedByHand(r) PROVE LeaseInv'
  BY <1>2, RunBegins, RunOver DEF ExecuteJob, RunLeasedByHand
<1>3. ASSUME NEW r \in Runs, Succeed(r) \/ Fail(r) PROVE LeaseInv'
  BY <1>3, RunOver DEF Succeed, Fail, EndTransaction
<1>4. ASSUME NEW r \in Runs, ReleaseByHand(r) \/ Die(r) PROVE LeaseInv'
  BY <1>4, RunOver DEF ReleaseByHand, Die
<1>5. CASE AdminWrite \/ \E op \in AdminOps : AdminRead(op)
  BY <1>5 DEF AdminWrite, AdminRead, lease, LeaseInv, RunShape, LeaseCovers
<1>6. CASE Tick
  BY <1>6, TimePasses
<1>7. CASE UNCHANGED vars
  BY <1>7 DEF vars, LeaseInv, RunShape, LeaseCovers
<1> QED BY <1>1, <1>2, <1>3, <1>4, <1>5, <1>6, <1>7 DEF Next, RunStep

\* The job's function never runs twice at a time, if a task starts and a
\* cancelled job ends within the second half of the lease.
THEOREM OneRunAtATime == Prompt => (Spec => []SingleRunner)
<1> SUFFICES ASSUME Prompt PROVE Spec => []SingleRunner
  OBVIOUS
<1>1. Init => LeaseInv
  BY DEF Init, Free, LeaseInv, RunShape, LeaseCovers
<1>2. LeaseInv /\ [Next]_vars => LeaseInv'
  BY LeaseNext
<1>3. LeaseInv => SingleRunner
  BY DEF LeaseInv, LeaseCovers, SingleRunner
<1> QED BY <1>1, <1>2, <1>3, PTL DEF Spec

-----------------------------------------------------------------------------
(* The retry count.  Its equality with the failures in a row is inductive once *)
(* both are known to be numbers.                                               *)

CountInv == RetriesExact /\ retries \in Nat /\ streak \in Nat

\* Every step keeps the count.
LEMMA RetriesCounted == Spec => []CountInv
<1>1. Init => CountInv
  <2>1. Init => retries = 0 /\ streak = 0
    BY DEF Init
  <2> QED BY <2>1 DEF CountInv, RetriesExact
<1>2. CountInv /\ [Next]_vars => CountInv'
  <2> SUFFICES ASSUME CountInv, [Next]_vars PROVE CountInv'
    OBVIOUS
  <2>1. CASE UNCHANGED <<retries, streak, wiped>>
    BY <2>1 DEF CountInv, RetriesExact
  <2>2. ASSUME NEW r \in Runs, Succeed(r) PROVE CountInv'
    <3>1. retries' = 0 /\ streak' = 0
      BY <2>2 DEF Succeed, CountSuccess
    <3> QED BY <3>1 DEF CountInv, RetriesExact
  <2>3. ASSUME NEW r \in Runs, Fail(r) PROVE CountInv'
    <3>1. CASE HandleJobFailure
      BY <3>1 DEF HandleJobFailure, CountInv, RetriesExact
    <3> QED BY <2>1, <2>3, <3>1 DEF Fail, row, history
  <2>4. CASE AdminWrite
    <3>1. CASE SetJobEnabled \/ ToggleJob
      BY <2>1, <2>4, <3>1 DEF AdminWrite, SetJobEnabled, ToggleJob, row
    <3>2. CASE ResetJob
      <4>1. wiped'
        BY <3>2, Zenon DEF ResetJob
      <4>2. retries' \in {0, retries} /\ streak' = streak
        BY <2>4, <3>2 DEF AdminWrite, ResetJob
      <4> QED BY <4>1, <4>2 DEF CountInv, RetriesExact
    <3> QED BY <2>4, <3>1, <3>2 DEF AdminWrite
  <2>5. ASSUME NEW r \in Runs,
               \/ ProcessDueJobs(r) \/ LeaseForManualRun(r) \/ ExecuteJob(r)
               \/ RunLeasedByHand(r) \/ ReleaseByHand(r) \/ Die(r)
        PROVE  CountInv'
    BY <2>1, <2>5 DEF ProcessDueJobs, LeaseForManualRun, ExecuteJob,
       RunLeasedByHand, ReleaseByHand, Die, row, history
  <2>6. CASE Tick \/ UNCHANGED vars \/ \E op \in AdminOps : AdminRead(op)
    BY <2>1, <2>6 DEF Tick, vars, AdminRead, row, history
  <2> QED BY <2>2, <2>3, <2>4, <2>5, <2>6 DEF Next, RunStep
<1> QED BY <1>1, <1>2, PTL DEF Spec

\* retry_count is exact whatever runs overlap and whichever admin operation
\* writes a row that has changed since it was read.
THEOREM RetriesAreExact == Spec => []RetriesExact
<1>1. CountInv => RetriesExact
  BY DEF CountInv
<1> QED BY <1>1, RetriesCounted, PTL

-----------------------------------------------------------------------------
(* What a step may never do. *)

\* A lease that has not run out is ended by the run that holds it and by no one
\* else, whatever the timing: take_lease needs a lease that has run out, and
\* release_lease compares the token, also for a run that has outlived its own.
THEOREM LiveLeasesAreKept == Spec => LiveLeaseKept
<1> DEFINE Dom == DOMAIN run = Runs
<1>1. Init => Dom
  BY DEF Init
<1>2. Dom /\ [Next]_vars => Dom'
  BY DEF Next, RunStep, ProcessDueJobs, LeaseForManualRun, TakeLease, ExecuteJob, Begin,
     RunLeasedByHand, Succeed, Fail, EndTransaction, ReleaseByHand, Die, AdminRead, AdminWrite,
     Tick, vars
<1>3. Dom /\ [Next]_vars => [left > 0 /\ token' # token => run'[token] # run[token]]_vars
  <2> SUFFICES ASSUME Dom, Next, left > 0, token' # token PROVE run'[token] # run[token]
    OBVIOUS
  <2>1. ASSUME NEW r \in Runs, run[r].pc # "free", run' = [run EXCEPT ![r] = Free], ReleaseLease(r)
        PROVE  run'[token] # run[token]
    <3>1. token = r /\ run'[r] = Free
      BY <2>1 DEF ReleaseLease, lease
    <3>2. Free.pc = "free"
      BY DEF Free
    <3> QED BY <2>1, <3>1, <3>2
  <2>2. ASSUME NEW r \in Runs, ProcessDueJobs(r) \/ LeaseForManualRun(r) PROVE FALSE
    BY <2>2 DEF ProcessDueJobs, LeaseForManualRun, Unleased
  <2>3. ASSUME NEW r \in Runs, ExecuteJob(r) \/ RunLeasedByHand(r) \/ Die(r) PROVE FALSE
    BY <2>3 DEF ExecuteJob, RunLeasedByHand, Die, lease
  <2>4. ASSUME NEW r \in Runs, Succeed(r) \/ Fail(r) PROVE run'[token] # run[token]
    <3>1. run[r].pc = "running" /\ EndTransaction(r)
      BY <2>4 DEF Succeed, Fail
    <3> QED BY <2>1, <3>1 DEF EndTransaction, lease
  <2>5. ASSUME NEW r \in Runs, ReleaseByHand(r) PROVE run'[token] # run[token]
    BY <2>1, <2>5 DEF ReleaseByHand
  <2>6. ~(AdminWrite \/ Tick \/ \E op \in AdminOps : AdminRead(op))
    BY DEF AdminWrite, Tick, AdminRead, lease
  <2> QED BY <2>2, <2>3, <2>4, <2>5, <2>6 DEF Next, RunStep
<1> QED BY <1>1, <1>2, <1>3, PTL DEF Spec, LiveLeaseKept

\* A run disables the job only after RetryLimit failures in a row or more, never
\* when the limit is 0, whatever admin operations write in between.
THEOREM DisablingIsEarned == Spec => AutoDisableEarned
<1>1. Spec => []CountInv
  BY RetriesCounted
<1>2. CountInv /\ [Next]_vars
      => [enabled /\ ~enabled' /\ admin' = admin => RetryLimit > 0 /\ streak' >= RetryLimit]_vars
  <2> SUFFICES ASSUME CountInv, Next, enabled, ~enabled', admin' = admin
               PROVE  RetryLimit > 0 /\ streak' >= RetryLimit
    OBVIOUS
  <2>1. enabled' # enabled
    BY Zenon
  <2>2. ASSUME NEW r \in Runs, Fail(r) PROVE RetryLimit > 0 /\ streak' >= RetryLimit
    <3>1. HandleJobFailure
      BY <2>1, <2>2 DEF Fail, row
    <3>2. ~(RetryLimit = 0 \/ retries' <= RetryLimit) /\ retries' = retries + 1 /\ streak' = streak + 1
      BY <2>1, <3>1 DEF HandleJobFailure
    <3> QED BY <3>2, TimesAssumption DEF CountInv, RetriesExact
  <2>3. ASSUME NEW r \in Runs, ProcessDueJobs(r) \/ LeaseForManualRun(r) \/ ExecuteJob(r)
               \/ RunLeasedByHand(r) \/ ReleaseByHand(r) \/ Die(r) \/ Succeed(r)
        PROVE  FALSE
    BY <2>1, <2>3 DEF ProcessDueJobs, LeaseForManualRun, ExecuteJob, RunLeasedByHand, ReleaseByHand,
       Die, Succeed, CountSuccess, row
  <2>4. ~AdminWrite
    <3> SUFFICES ASSUME AdminWrite PROVE FALSE
      OBVIOUS
    <3>1. admin.op \in {"on", "off", "toggle", "reset"}
      BY DEF AdminWrite, SetJobEnabled, ToggleJob, ResetJob
    <3>2. admin'.op = "none"
      BY DEF AdminWrite
    <3> QED BY <3>1, <3>2
  <2>5. ~(Tick \/ \E op \in AdminOps : AdminRead(op))
    BY <2>1 DEF Tick, AdminRead, row
  <2> QED BY <2>2, <2>3, <2>4, <2>5 DEF Next, RunStep
<1> QED BY <1>1, <1>2, PTL DEF Spec, AutoDisableEarned

-----------------------------------------------------------------------------
(* What a lease stands for.  The invariant speaks of every lease, run out or   *)
(* not: its run is somewhere in its code, or a crash took it.                  *)

IsRun(x) == x = [pc |-> x.pc, by |-> x.by, left |-> x.left, base |-> x.base]

LeaseHeld ==
    /\ DOMAIN run = Runs /\ (\A r \in Runs : IsRun(run[r])) /\ crashes \in Nat
    /\ left \in Nat /\ (left > 0 => token # None)
    /\ token # None => token \in Runs /\ (run[token].pc = "free" => crashes > 0)

LeaseManned == left > 0 /\ crashes = 0 => token \in Runs /\ run[token].pc # "free"

\* A run that ends, however it ends, has no lease any more.
LEMMA EndLeavesNoLease ==
    ASSUME LeaseHeld, NEW r \in Runs, run' = [run EXCEPT ![r] = Free],
           ReleaseLease(r) \/ (token # r /\ UNCHANGED lease), UNCHANGED crashes
    PROVE  LeaseHeld'
<1>1. \A s \in Runs : s # r => run'[s] = run[s]
  BY DEF LeaseHeld
<1>2. \/ token' = None /\ left' = 0
      \/ token' = token /\ left' = left /\ token # r
  BY DEF ReleaseLease, lease
<1>3. DOMAIN run' = Runs /\ run'[r] = Free /\ IsRun(Free)
  BY DEF LeaseHeld, Free, IsRun
<1> QED
  BY <1>1, <1>2, <1>3 DEF LeaseHeld

\* A run that goes on in its code keeps what it has.
LEMMA GoesOnLeased ==
    ASSUME LeaseHeld, NEW r \in Runs, UNCHANGED <<lease, crashes>>,
           DOMAIN run' = Runs, IsRun(run'[r]), run'[r].pc # "free",
           \A s \in Runs : s # r => run'[s] = run[s]
    PROVE  LeaseHeld'
<1>1. token' = token /\ left' = left /\ crashes' = crashes
  BY DEF lease
<1> QED
  BY <1>1 DEF LeaseHeld

LEMMA LeaseHeldNext == ASSUME LeaseHeld, [Next]_vars PROVE LeaseHeld'
<1>1. ASSUME NEW r \in Runs, ProcessDueJobs(r) \/ LeaseForManualRun(r)
      PROVE  LeaseHeld'
  <2>1. \E by : TakeLease(r, by) /\ crashes' = crashes
    BY <1>1 DEF ProcessDueJobs, LeaseForManualRun, budget
  <2>2. /\ token' = r /\ left' = LeaseSeconds /\ crashes' = crashes
        /\ DOMAIN run' = Runs /\ run'[r].pc = "leased" /\ IsRun(run'[r])
        /\ \A s \in Runs : s # r => run'[s] = run[s]
    BY <2>1 DEF TakeLease, LeaseHeld, IsRun
  <2>3. LeaseSeconds \in Nat
    BY TimesAssumption DEF LeaseSeconds
  <2>4. r # None
    BY NullAssumption
  <2> QED
    BY <2>2, <2>3, <2>4 DEF LeaseHeld
<1>2. ASSUME NEW r \in Runs, Begin(r), UNCHANGED <<lease, crashes>>
      PROVE  LeaseHeld'
  <2>1. /\ run'[r] = [run[r] EXCEPT !.pc = "running",
                                    !.left = MaxRuntime + Cleanup, !.base = next]
        /\ DOMAIN run' = Runs /\ \A s \in Runs : s # r => run'[s] = run[s]
    BY <1>2 DEF Begin, LeaseHeld
  <2>2. run[r] = [pc |-> run[r].pc, by |-> run[r].by, left |-> run[r].left,
                  base |-> run[r].base]
    BY DEF LeaseHeld, IsRun
  <2>3. run'[r] = [pc |-> "running", by |-> run[r].by,
                   left |-> MaxRuntime + Cleanup, base |-> next]
    BY <2>1, <2>2
  <2>4. IsRun(run'[r]) /\ run'[r].pc # "free"
    BY <2>3 DEF IsRun
  <2> QED
    BY <1>2, <2>1, <2>4, GoesOnLeased
<1>3. ASSUME NEW r \in Runs, EndTransaction(r), UNCHANGED crashes
      PROVE  LeaseHeld'
  <2>1. CASE run' = [run EXCEPT ![r].pc = "releasing", ![r].left = Delay]
             /\ UNCHANGED lease
    <3>1. /\ run'[r] = [run[r] EXCEPT !.pc = "releasing", !.left = Delay]
          /\ DOMAIN run' = Runs /\ \A s \in Runs : s # r => run'[s] = run[s]
      BY <2>1 DEF LeaseHeld
    <3>2. run[r] = [pc |-> run[r].pc, by |-> run[r].by, left |-> run[r].left,
                    base |-> run[r].base]
      BY DEF LeaseHeld, IsRun
    <3>3. run'[r] = [pc |-> "releasing", by |-> run[r].by, left |-> Delay,
                     base |-> run[r].base]
      BY <3>1, <3>2
    <3>4. IsRun(run'[r]) /\ run'[r].pc # "free"
      BY <3>3 DEF IsRun
    <3> QED
      BY <1>3, <2>1, <3>1, <3>4, GoesOnLeased
  <2> QED
    BY <1>3, <2>1, EndLeavesNoLease DEF EndTransaction
<1>4. ASSUME NEW r \in Runs, RunStep(r) PROVE LeaseHeld'
  <2>1. CASE ExecuteJob(r)
    BY <1>2, <2>1, EndLeavesNoLease DEF ExecuteJob, budget
  <2>2. CASE RunLeasedByHand(r)
    BY <1>2, <2>2 DEF RunLeasedByHand, budget
  <2>3. CASE Succeed(r) \/ Fail(r)
    BY <1>3, <2>3 DEF Succeed, Fail, budget
  <2>4. CASE ReleaseByHand(r)
    BY <2>4, EndLeavesNoLease DEF ReleaseByHand, budget
  <2> QED
    BY <1>4, <2>1, <2>2, <2>3, <2>4 DEF RunStep
<1>5. ASSUME NEW r \in Runs, Die(r) PROVE LeaseHeld'
  <2>1. /\ token' = token /\ left' = left /\ crashes' = crashes + 1
        /\ DOMAIN run' = Runs /\ \A s \in Runs : IsRun(run'[s])
    BY <1>5 DEF Die, lease, LeaseHeld, Free, IsRun
  <2> QED
    BY <2>1 DEF LeaseHeld
<1>6. CASE Tick
  <2>1. ASSUME NEW r \in Runs PROVE IsRun(run'[r]) /\ run'[r].pc = run[r].pc
    <3> DEFINE l == IF run[r].pc = "free" THEN 0 ELSE run[r].left - 1
               b == IF run[r].pc = "running" THEN Earlier(run[r].base) ELSE 0
    <3>1. run'[r] = [run[r] EXCEPT !.left = l, !.base = b]
      BY <1>6 DEF Tick, Aged
    <3>2. run[r] = [pc |-> run[r].pc, by |-> run[r].by, left |-> run[r].left,
                    base |-> run[r].base]
      BY DEF LeaseHeld, IsRun
    <3> HIDE DEF l, b
    <3>3. run'[r] = [pc |-> run[r].pc, by |-> run[r].by, left |-> l, base |-> b]
      BY <3>1, <3>2
    <3> QED
      BY <3>3 DEF IsRun
  <2>2. /\ DOMAIN run' = Runs /\ token' = token /\ crashes' = crashes
        /\ left' = IF left > 0 THEN left - 1 ELSE 0
    BY <1>6 DEF Tick, budget
  <2>3. left' \in Nat /\ (left' > 0 => left > 0)
    BY <2>2 DEF LeaseHeld
  <2> QED
    BY <2>1, <2>2, <2>3 DEF LeaseHeld
<1>7. CASE AdminWrite \/ (\E op \in AdminOps : AdminRead(op)) \/ UNCHANGED vars
  BY <1>7 DEF AdminWrite, AdminRead, lease, budget, vars, LeaseHeld
<1> QED
  BY <1>1, <1>4, <1>5, <1>6, <1>7 DEF Next

\* release_lease, _execute_job: only a crash leaves a lease behind.  While every
\* run reached its end, a lease that has not run out has a run to end it, on
\* every path through success, failure, a lost lease and the Run button.
THEOREM OnlyCrashesLeaveLeases == Spec => []LeaseManned
<1>1. Init => LeaseHeld
  BY DEF Init, Free, LeaseHeld, IsRun
<1>2. LeaseHeld /\ [Next]_vars => LeaseHeld'
  BY LeaseHeldNext
<1>3. LeaseHeld => LeaseManned
  BY DEF LeaseHeld, LeaseManned
<1> QED
  BY <1>1, <1>2, <1>3, PTL DEF Spec

-----------------------------------------------------------------------------
(* The maintenance queue.  No job is carried out twice, and an outcome is what *)
(* happened.  The invariant says what a worker's hold on a job is worth: the   *)
(* job is held by one worker, it is past the queue, nobody has stored its      *)
(* handler's outcome, and the worker's step tells how often it was carried out.*)

Steps == {"down", "idle", "handler", "success", "failure"}
Holding == {"handler", "success", "failure"}

Rows == [target : Targets \cup {NoTarget}, status : Statuses,
         error : Errors, key : Secrets]

QueueTypes ==
    /\ jobs \in [Numbers -> Rows]
    /\ applied \in [Numbers -> Nat]
    /\ pc \in [Workers -> Steps]
    /\ cur \in [Workers -> Numbers \cup {0}]
    /\ secret \in [Workers -> Secrets]

(* A job nobody has claimed was not carried out.                               *)
Unclaimed ==
    \A j \in Numbers : jobs[j].status \in {"new", "queued"} => applied[j] = 0

(* A commit nobody heard of took place.                                        *)
Doubted == \A j \in unheard : j \in Numbers /\ applied[j] = 1

CarriedOut(w) == pc[w] = "success" \/ (pc[w] = "failure" /\ cur[w] \in unheard)

(* What a worker holds is a job, past the queue, without a stored outcome.     *)
HoldsJob ==
    \A w \in Workers : pc[w] \in Holding =>
        /\ cur[w] \in Numbers
        /\ jobs[cur[w]].status \in {"running", "failed", "pruned"}
        /\ jobs[cur[w]].status = "failed" => jobs[cur[w]].error = "interrupted"
        /\ applied[cur[w]] = IF CarriedOut(w) THEN 1 ELSE 0

OneHolder ==
    \A v, w \in Workers :
        pc[v] \in Holding /\ pc[w] \in Holding /\ cur[v] = cur[w] => v = w

QueueInv ==
    /\ QueueTypes /\ Unclaimed /\ Doubted /\ HoldsJob /\ OneHolder
    /\ AppliedOnce /\ OutcomeTrue

LEMMA QueueInitHolds == QueueInit => QueueInv
<1> SUFFICES ASSUME QueueInit PROVE QueueInv
    OBVIOUS
<1>0. (CHOOSE s \in Secrets : TRUE) \in Secrets
  BY SecretsAssumption
<1>1. QueueTypes
  BY <1>0 DEF QueueInit, QueueTypes, Rows, Steps, Statuses, Errors
<1> QED
  BY <1>1 DEF QueueInit, QueueInv, QueueTypes, Unclaimed, Doubted, HoldsJob, OneHolder,
     AppliedOnce, OutcomeTrue, Holding

LEMMA EnqueueKeeps ==
    ASSUME QueueInv, NEW w \in Workers, NEW t \in Targets \cup {NoTarget},
           Enqueue(w, t)
    PROVE  QueueInv'
<1> PICK j \in With("new") :
        jobs' = [jobs EXCEPT ![j] = [target |-> t, status |-> "queued",
                                     error |-> "none", key |-> secret[w]]]
    BY DEF Enqueue
<1>0. j \in Numbers /\ jobs[j].status = "new"
  BY DEF With
<1>1. QueueTypes'
  BY <1>0 DEF QueueInv, QueueTypes, Enqueue, Rows, Statuses,
     Errors
<1>2. HoldsJob'
  BY <1>0 DEF QueueInv, QueueTypes, HoldsJob, CarriedOut, Enqueue, Rows
<1> QED
  BY <1>0, <1>1, <1>2 DEF QueueInv, QueueTypes, Unclaimed, Doubted, OneHolder,
     AppliedOnce, OutcomeTrue, Enqueue, Rows

LEMMA ClaimKeeps ==
    ASSUME QueueInv, NEW w \in Workers, ClaimOne(w)
    PROVE  QueueInv'
<1> PICK j \in Numbers :
        /\ ClaimNext(j)
        /\ jobs' = [jobs EXCEPT ![j].status = "running"]
        /\ cur' = [cur EXCEPT ![w] = j]
    BY DEF ClaimOne
<1>0. jobs[j].status = "queued" /\ applied[j] = 0
  BY DEF ClaimNext, With, QueueInv, Unclaimed
<1>1. QueueTypes'
  BY DEF QueueInv, QueueTypes, ClaimOne, Rows, Statuses, Steps
<1>2. HoldsJob'
  BY <1>0 DEF QueueInv, QueueTypes, HoldsJob, CarriedOut, ClaimOne, Rows, Holding, Steps
<1>3. OneHolder'
  BY <1>0 DEF QueueInv, QueueTypes, HoldsJob, OneHolder, ClaimOne, Rows,
     Holding, Steps
<1> QED
  BY <1>0, <1>1, <1>2, <1>3 DEF QueueInv, QueueTypes, Unclaimed, Doubted, AppliedOnce,
     OutcomeTrue, ClaimOne, Rows

LEMMA ClaimUnheardKeeps ==
    ASSUME QueueInv, NEW w \in Workers, ClaimUnheard(w)
    PROVE  QueueInv'
<1> PICK j \in Numbers :
        ClaimNext(j) /\ jobs' = [jobs EXCEPT ![j].status = "running"]
    BY DEF ClaimUnheard
<1>0. jobs[j].status = "queued" /\ UNCHANGED <<applied, pc, cur, secret, unheard>>
  BY DEF ClaimNext, With, ClaimUnheard
<1>1. QueueTypes'
  BY <1>0 DEF QueueInv, QueueTypes, Rows, Statuses
<1>2. HoldsJob'
  BY <1>0 DEF QueueInv, QueueTypes, HoldsJob, CarriedOut, Rows
<1> QED
  BY <1>0, <1>1, <1>2 DEF QueueInv, QueueTypes, Unclaimed, Doubted, OneHolder,
     AppliedOnce, OutcomeTrue, Rows

LEMMA HandlerKeeps ==
    ASSUME QueueInv, NEW w \in Workers, RunHandler(w) \/ HandlerUnheard(w)
    PROVE  QueueInv'
<1> DEFINE j == cur[w]
<1>0. /\ pc[w] = "handler" /\ j \in Numbers /\ applied[j] = 0 /\ j \notin unheard
      /\ jobs[j].status \in {"running", "failed", "pruned"}
      /\ jobs[j].status = "failed" => jobs[j].error = "interrupted"
  BY DEF QueueInv, HoldsJob, CarriedOut, Doubted, RunHandler, HandlerUnheard, Holding
<1>a. /\ jobs' = jobs /\ cur' = cur /\ secret' = secret
      /\ \/ /\ applied' = [applied EXCEPT ![j] = @ + 1]
            /\ pc' = [pc EXCEPT ![w] = "success"] /\ unheard' = unheard
         \/ /\ applied' = applied
            /\ pc' = [pc EXCEPT ![w] = "failure"] /\ unheard' = unheard
         \/ /\ applied' = [applied EXCEPT ![j] = @ + 1]
            /\ pc' = [pc EXCEPT ![w] = "failure"] /\ unheard' = unheard \cup {j}
  BY DEF RunHandler, HandlerUnheard
<1>1. QueueTypes'
  BY <1>0, <1>a DEF QueueInv, QueueTypes, Steps
<1>2. ASSUME NEW v \in Workers, v # w, pc[v] \in Holding
      PROVE  cur[v] # j
  BY <1>0, <1>2 DEF QueueInv, OneHolder, Holding
<1>3. HoldsJob'
  BY <1>0, <1>a, <1>2 DEF QueueInv, QueueTypes, HoldsJob, CarriedOut, Holding, Steps
<1>4. OneHolder'
  BY <1>0, <1>a, <1>2 DEF QueueInv, QueueTypes, OneHolder, Holding, Steps
<1>5. Doubted' /\ AppliedOnce'
  BY <1>0, <1>a DEF QueueInv, QueueTypes, Doubted, AppliedOnce
<1> QED
  BY <1>0, <1>a, <1>1, <1>3, <1>4, <1>5 DEF QueueInv, QueueTypes, Unclaimed, OutcomeTrue,
     Rows

LEMMA FinalizeKeeps ==
    ASSUME QueueInv, NEW w \in Workers, Finalize(w)
    PROVE  QueueInv'
<1> DEFINE j == cur[w]
<1>0. /\ pc[w] \in {"success", "failure"} /\ j \in Numbers
      /\ jobs[j].status \in {"running", "failed", "pruned"}
      /\ applied[j] = IF CarriedOut(w) THEN 1 ELSE 0
  BY DEF QueueInv, HoldsJob, Finalize, Holding
<1> DEFINE status == IF pc[w] = "success" THEN "done" ELSE "failed"
          error == IF pc[w] = "success" THEN jobs[j].error ELSE "handler"
<1>a. jobs' = IF jobs[j].status = "pruned" THEN jobs
              ELSE [jobs EXCEPT ![j].status = status, ![j].error = error]
  BY <1>0 DEF Finalize, QueueInv, QueueTypes
<1>b. jobs' \in [Numbers -> Rows]
  <2>1. status \in Statuses /\ error \in Errors
    BY <1>0 DEF QueueInv, QueueTypes, Rows, Statuses, Errors
  <2> HIDE DEF status, error
  <2> QED
    BY <1>0, <1>a, <2>1 DEF QueueInv, QueueTypes, Rows
<1>1. QueueTypes'
  BY <1>0, <1>b DEF QueueInv, QueueTypes, Finalize, Steps
<1>2. ASSUME NEW v \in Workers, v # w, pc[v] \in Holding
      PROVE  cur[v] # j
  BY <1>0, <1>2 DEF QueueInv, OneHolder, Holding
<1>3. HoldsJob'
  BY <1>0, <1>2 DEF QueueInv, QueueTypes, HoldsJob, CarriedOut, Finalize, Holding,
     Steps, Rows
<1>4. OneHolder'
  BY DEF QueueInv, QueueTypes, OneHolder, Finalize, Holding
<1>5. OutcomeTrue'
  BY <1>0 DEF QueueInv, QueueTypes, OutcomeTrue, CarriedOut, Finalize, Rows
<1> QED
  BY <1>0, <1>1, <1>3, <1>4, <1>5 DEF QueueInv, QueueTypes, Unclaimed, Doubted,
     AppliedOnce, Finalize, Rows

(* A worker that lets go of a job without storing anything.                    *)
LEMMA LetGoKeeps ==
    ASSUME QueueInv, NEW w \in Workers, FinalizeFails(w) \/ Crash(w)
    PROVE  QueueInv'
<1>1. QueueTypes'
  BY DEF QueueInv, QueueTypes, FinalizeFails, Crash, Steps
<1>2. HoldsJob'
  BY DEF QueueInv, QueueTypes, HoldsJob, CarriedOut, FinalizeFails, Crash, Holding
<1>3. OneHolder'
  BY DEF QueueInv, QueueTypes, OneHolder, FinalizeFails, Crash, Holding
<1> QED
  BY <1>1, <1>2, <1>3 DEF QueueInv, Unclaimed, Doubted, AppliedOnce, OutcomeTrue,
     FinalizeFails, Crash

LEMMA StartKeeps ==
    ASSUME QueueInv, NEW w \in Workers, Start(w)
    PROVE  QueueInv'
<1>0. /\ jobs' = Interrupted /\ pc' = [pc EXCEPT ![w] = "idle"]
      /\ UNCHANGED <<applied, cur, unheard>>
  BY DEF Start
<1>1. QueueTypes'
  <2>1. secret' \in [Workers -> Secrets]
    BY DEF QueueInv, QueueTypes, Start
  <2> QED
    BY <1>0, <2>1 DEF QueueInv, QueueTypes, Interrupted, Rows, Statuses,
       Errors, Steps
<1>2. HoldsJob'
  <2> SUFFICES ASSUME NEW v \in Workers, pc'[v] \in Holding
               PROVE  /\ cur[v] \in Numbers
                      /\ jobs'[cur[v]].status \in {"running", "failed", "pruned"}
                      /\ jobs'[cur[v]].status = "failed"
                            => jobs'[cur[v]].error = "interrupted"
                      /\ applied[cur[v]] = IF CarriedOut(v)' THEN 1 ELSE 0
    BY <1>0 DEF HoldsJob
  <2>1. v # w /\ pc'[v] = pc[v]
    BY <1>0 DEF QueueInv, QueueTypes, Holding
  <2>2. /\ cur[v] \in Numbers
        /\ jobs[cur[v]].status \in {"running", "failed", "pruned"}
        /\ jobs[cur[v]].status = "failed" => jobs[cur[v]].error = "interrupted"
        /\ applied[cur[v]] = IF CarriedOut(v) THEN 1 ELSE 0
    BY <2>1 DEF QueueInv, HoldsJob
  <2>3. jobs[cur[v]] \in Rows
    BY <2>2 DEF QueueInv, QueueTypes
  <2>4. jobs'[cur[v]] = IF jobs[cur[v]].status = "running"
                        THEN [jobs[cur[v]] EXCEPT !.status = "failed",
                                                  !.error = "interrupted"]
                        ELSE jobs[cur[v]]
    BY <1>0, <2>2 DEF Interrupted
  <2>5. CarriedOut(v)' <=> CarriedOut(v)
    BY <1>0, <2>1 DEF CarriedOut
  <2> QED
    BY <2>1, <2>2, <2>3, <2>4, <2>5 DEF Rows
<1>3. Unclaimed' /\ OutcomeTrue'
  BY <1>0 DEF QueueInv, QueueTypes, Unclaimed, OutcomeTrue, Interrupted,
     Rows
<1> QED
  BY <1>0, <1>1, <1>2, <1>3 DEF QueueInv, QueueTypes, Doubted, OneHolder, AppliedOnce,
     Holding

LEMMA CleanupKeeps ==
    ASSUME QueueInv, NEW w \in Workers, PeriodicCleanup(w)
    PROVE  QueueInv'
<1> PICK j \in Terminal : jobs' = [jobs EXCEPT ![j].status = "pruned"]
    BY DEF PeriodicCleanup
<1>0. j \in Numbers
  BY DEF Terminal, With
<1>1. QueueTypes'
  BY <1>0 DEF QueueInv, QueueTypes, PeriodicCleanup, Rows, Statuses
<1>2. HoldsJob'
  BY <1>0 DEF QueueInv, QueueTypes, HoldsJob, CarriedOut, PeriodicCleanup, Rows
<1> QED
  BY <1>0, <1>1, <1>2 DEF QueueInv, QueueTypes, Unclaimed, Doubted, OneHolder,
     AppliedOnce, OutcomeTrue, PeriodicCleanup, Rows

LEMMA QueueStepKeeps == QueueInv /\ [QueueNext]_queueVars => QueueInv'
<1> SUFFICES ASSUME QueueInv, [QueueNext]_queueVars PROVE QueueInv'
    OBVIOUS
<1>1. CASE UNCHANGED queueVars
  BY <1>1 DEF queueVars, QueueInv, QueueTypes, Unclaimed, Doubted, HoldsJob, CarriedOut, OneHolder,
     AppliedOnce, OutcomeTrue
<1>2. CASE QueueNext
  BY <1>2, EnqueueKeeps, ClaimKeeps, ClaimUnheardKeeps, HandlerKeeps, FinalizeKeeps, LetGoKeeps,
     StartKeeps, CleanupKeeps DEF QueueNext
<1> QED
  BY <1>1, <1>2

LEMMA AlwaysQueueInv == QueueSpec => []QueueInv
<1> QED
  BY QueueInitHolds, QueueStepKeeps, PTL DEF QueueSpec

(* claim_next, mark_interrupted_on_restart: however many processes start, die  *)
(* and fail each other's rows, no job's handler commits twice.                 *)
THEOREM NoJobAppliedTwice == QueueSpec => []AppliedOnce
<1>1. QueueInv => AppliedOnce
  BY DEF QueueInv
<1> QED
  BY <1>1, AlwaysQueueInv, PTL

(* _finalize: a job that reads done was carried out, and one that reads failed *)
(* by its handler was not, or the answer to the handler's commit was lost.     *)
THEOREM OutcomesAreTrue == QueueSpec => []OutcomeTrue
<1>1. QueueInv => OutcomeTrue
  BY DEF QueueInv
<1> QED
  BY <1>1, AlwaysQueueInv, PTL

(* Every running job has a worker on it, or its outcome could not be stored or *)
(* its claim was not heard of, or a process is down, whose start will fail the *)
(* job for all to see.                                                         *)
Attended ==
    \A j \in Numbers : jobs[j].status = "running" =>
        \/ \E w \in Workers : pc[w] \in Holding /\ cur[w] = j
        \/ j \in unsaid
        \/ \E w \in Workers : pc[w] = "down"

LEMMA AttendedNext ==
    ASSUME QueueInv, Attended, [QueueNext]_queueVars
    PROVE  Attended'
<1> SUFFICES ASSUME NEW i \in Numbers, jobs'[i].status = "running"
             PROVE  \/ \E v \in Workers : pc'[v] \in Holding /\ cur'[v] = i
                    \/ i \in unsaid'
                    \/ \E v \in Workers : pc'[v] = "down"
  BY DEF Attended
<1>t. QueueTypes
  BY DEF QueueInv
<1>0. jobs[i].status = "running" =>
          \/ \E v \in Workers : pc[v] \in Holding /\ cur[v] = i
          \/ i \in unsaid
          \/ \E v \in Workers : pc[v] = "down"
  BY DEF Attended
<1>1. ASSUME NEW w \in Workers, NEW t \in Targets \cup {NoTarget}, Enqueue(w, t)
      PROVE  jobs[i].status = "running" /\ UNCHANGED <<pc, cur, unsaid>>
  BY <1>1, <1>t DEF Enqueue, With, QueueTypes, Rows
<1>2. ASSUME NEW w \in Workers, ClaimOne(w)
      PROVE  \/ \E v \in Workers : pc'[v] \in Holding /\ cur'[v] = i
             \/ i \in unsaid'
             \/ \E v \in Workers : pc'[v] = "down"
  <2>1. PICK j \in Numbers : /\ jobs' = [jobs EXCEPT ![j].status = "running"]
                                   /\ cur' = [cur EXCEPT ![w] = j]
    BY <1>2 DEF ClaimOne
  <2>2. /\ pc[w] = "idle" /\ pc' = [pc EXCEPT ![w] = "handler"] /\ unsaid' = unsaid
    BY <1>2 DEF ClaimOne
  <2>3. CASE i = j
    BY <1>t, <2>1, <2>2, <2>3 DEF QueueTypes, Holding
  <2>4. CASE i # j
    <3>1. jobs[i].status = "running"
      BY <1>t, <2>1, <2>4 DEF QueueTypes
    <3>2. \A v \in Workers : v # w => pc'[v] = pc[v] /\ cur'[v] = cur[v]
      BY <1>t, <2>1, <2>2 DEF QueueTypes
    <3> QED
      BY <1>0, <2>2, <3>1, <3>2 DEF Holding
  <2> QED
    BY <2>3, <2>4
<1>2a. ASSUME NEW w \in Workers, ClaimUnheard(w)
       PROVE  \/ \E v \in Workers : pc'[v] \in Holding /\ cur'[v] = i
              \/ i \in unsaid'
              \/ \E v \in Workers : pc'[v] = "down"
  <2>1. PICK j \in Numbers : /\ jobs' = [jobs EXCEPT ![j].status = "running"]
                             /\ unsaid' = unsaid \cup {j}
    BY <1>2a DEF ClaimUnheard
  <2>2. pc' = pc /\ cur' = cur
    BY <1>2a DEF ClaimUnheard
  <2>3. i # j => jobs[i].status = "running"
    BY <1>t, <2>1 DEF QueueTypes
  <2> QED
    BY <1>0, <2>1, <2>2, <2>3
<1>3. ASSUME NEW w \in Workers, RunHandler(w) \/ HandlerUnheard(w)
      PROVE  \/ \E v \in Workers : pc'[v] \in Holding /\ cur'[v] = i
             \/ i \in unsaid'
             \/ \E v \in Workers : pc'[v] = "down"
  <2>1. /\ jobs' = jobs /\ cur' = cur /\ unsaid' = unsaid
        /\ pc[w] = "handler" /\ pc'[w] \in {"success", "failure"}
        /\ \A v \in Workers : v # w => pc'[v] = pc[v]
    BY <1>3, <1>t DEF RunHandler, HandlerUnheard, QueueTypes
  <2> QED
    BY <1>0, <2>1 DEF Holding
<1>4. ASSUME NEW w \in Workers, Finalize(w)
      PROVE  \/ \E v \in Workers : pc'[v] \in Holding /\ cur'[v] = i
             \/ i \in unsaid'
             \/ \E v \in Workers : pc'[v] = "down"
  <2>1. /\ pc[w] \in {"success", "failure"} /\ cur[w] \in Numbers
        /\ unsaid' = unsaid
        /\ \A v \in Workers : v # w => pc'[v] = pc[v] /\ cur'[v] = cur[v]
    BY <1>4, <1>t DEF Finalize, QueueTypes, QueueInv, HoldsJob, Holding
  <2>2. i # cur[w] /\ jobs[i].status = "running"
    BY <1>4, <1>t, <2>1 DEF Finalize, QueueTypes, Rows
  <2> QED
    BY <1>0, <2>1, <2>2
<1>5. ASSUME NEW w \in Workers, FinalizeFails(w)
      PROVE  \/ \E v \in Workers : pc'[v] \in Holding /\ cur'[v] = i
             \/ i \in unsaid'
             \/ \E v \in Workers : pc'[v] = "down"
  <2>1. /\ jobs' = jobs /\ unsaid' = unsaid \cup {cur[w]}
        /\ pc[w] \in {"success", "failure"}
        /\ \A v \in Workers : v # w => pc'[v] = pc[v] /\ cur'[v] = cur[v]
    BY <1>5, <1>t DEF FinalizeFails, QueueTypes
  <2> QED
    BY <1>0, <2>1
<1>6. ASSUME NEW w \in Workers, Crash(w)
      PROVE  \E v \in Workers : pc'[v] = "down"
  BY <1>6, <1>t DEF Crash, QueueTypes
<1>7. ASSUME NEW w \in Workers, Start(w) PROVE FALSE
  <2>1. jobs'[i] = IF jobs[i].status = "running"
                   THEN [jobs[i] EXCEPT !.status = "failed", !.error = "interrupted"]
                   ELSE jobs[i]
    BY <1>7 DEF Start, Interrupted
  <2>2. jobs[i] \in Rows
    BY <1>t DEF QueueTypes
  <2> QED
    BY <2>1, <2>2 DEF Rows
<1>8. ASSUME NEW w \in Workers, PeriodicCleanup(w)
      PROVE  jobs[i].status = "running" /\ UNCHANGED <<pc, cur, unsaid>>
  BY <1>8, <1>t DEF PeriodicCleanup, Terminal, With, QueueTypes, Rows
<1>9. CASE UNCHANGED queueVars
  BY <1>0, <1>9 DEF queueVars
<1> QED
  BY <1>0, <1>1, <1>2, <1>2a, <1>3, <1>4, <1>5, <1>6, <1>7, <1>8, <1>9 DEF QueueNext

(* process_next_job, mark_interrupted_on_restart: a job that reads running is  *)
(* never forgotten.  A worker is at it, its outcome could not be stored or the *)
(* answer to its claim was lost, or a process is down and fails it when it     *)
(* starts: what EveryRequestEnds rests on.                                     *)
THEOREM NoJobForgotten == QueueSpec => []Attended
<1>1. QueueInit => Attended
  BY DEF QueueInit, Attended
<1>2. QueueInv /\ Attended /\ [QueueNext]_queueVars => Attended'
  BY AttendedNext
<1> QED
  BY <1>1, <1>2, AlwaysQueueInv, PTL DEF QueueSpec
=============================================================================
