# Formal model of LuxSwirl

LuxSwirl is a monitoring system: agents run checks (HTTP, ping, DNS, TLS,
databases, browsers) and report results to a server, which stores them in
PostgreSQL, evaluates alerts, sends notifications and serves a web interface.
This directory holds TLA+ modules that model the parts of it in which several
actors change shared state, TLC configurations that check them on small
instances, and TLAPS proofs of what holds for every instance.

The first part of this file is the inventory of the system, the second describes
what is modelled, checked and proved, the third is the plan for the rest.

## 1. The system

### 1.1 Processes and how they interact

* **Agent** (`apps/agent`): one asyncio process per site. Its tasks: the check
  loops, the result processor, the reporter (batch processor and replay), the
  heartbeat loop, the job worker. It speaks to the server over HTTP only, and
  every request may be lost, answered late, or answered after the agent has given
  up. It keeps three things on disk: the reporter's SQLite tables, the encrypted
  credentials and the encrypted cache of its checks.
* **Server** (`apps/backend`): FastAPI processes on one PostgreSQL database. A
  request is one transaction (`get_db` commits before the answer leaves); the
  session has `autoflush=False` and `expire_on_commit=False`, so an ORM object
  read early in a request is written, by primary key, when the request commits.
  Each process also runs the scheduler loop, the maintenance worker and the purge
  tasks.
* **Operators** act through the web panel, the admin API and MCP tools; each
  action is a request like any other.

### 1.2 Components

| Component | State | Operations | What is hard | What makes it correct |
| --- | --- | --- | --- | --- |
| Agent reporter | batch, SQLite `pending_batches` and `dead_letters`, held rows | add, flush, POST with retries, split on 413, store, replay, dead-letter, stop | four tasks interleave at awaits; crashes; caps; partial delivery | no result vanishes silently, none is multiplied, refused ones do not block others |
| Background scheduler | `job_configurations` rows with lease, next run, retry count | poll and lease, run with a deadline, count, back off, disable, run by hand, enable, toggle, reset | several processes; a run that outlives its lease; a crash in mid-run; unlocked admin writes | one run at a time, nothing due is stuck, counts are exact |
| Job dispatch | `jobs` rows, the agent's in-memory queue | create, dispatch by heartbeat, start notice, result, cancel, delete, purge | dispatch read and written in two steps; lost answers; late notices; agent restart | executed at most once, finished is final, FIFO per priority |
| Result ingest | `check_results` | idempotent insert, evaluation of what was inserted, one transaction | batches sent twice, at the same time, late or in bursts | stored and evaluated once |
| Alert evaluation | alerts, mappings, `notification_logs` rows as deduplication state | evaluate a result, decide, suppress, snooze, resend, record | results out of order; rollbacks after a page; rows that are missing | each transition is told, resends are bounded |
| Silence alerts | heartbeats, newest results, log rows | a scheduled pass: decide, then record one by one | results and shutdowns come between decision and record; passes cut short; checks change hands | one page per episode, none is missed, recoveries are told |
| Assignment and failover | selectors, agent liveness | rendezvous hash over the pool that is online, hand-over | an agent declared offline still runs its cached checks | only the checks of the agent that goes or comes move |
| Check synchronisation | checks, `checks_updated_at`, config version, list and cache of each agent | create, edit, clone, move, import, delete, reload, fall back to the cache | the version is stored before the reload succeeds; the first version is a baseline; lost answers | every check is run, as it is, by the agents it is for |
| Credentials and keys | key, recovery secret, approval status, on both sides | register, approve, recover, revoke, regenerate, re-register, delete | both sides change between a check and its use; lost answers; crash between clear and save | a heartbeat counts only for who holds the key; an install finds back to its agent by itself |
| Maintenance queue | `maintenance_jobs` rows | enqueue, claim, run handler, finalize, fail on restart, cleanup | three transactions per job; a failed finalize; processes that restart beside others | carried out once, told truly, ended |
| Users, sessions and tokens | `users`, `sessions`, `api_tokens`, the setup token's file | sign in, sign out, change, reset and recover a password, mint and revoke, create, update, delete and unlock users, create the first admin | rows read unlocked and written later; row locks taken late; requests rolled back | old credentials die with the password, guesses are limited, an admin remains |
| Checks' dependencies | parent links | set dependents | the rule is checked on rows another request changes | dependencies are one level deep |
| Check execution; settings; status pages; database maintenance; audit; web, API and MCP layers; migrations | rows changed by single requests, or none | | little interaction | see `PROJECT.json` for why each is left out |

Reporter results flow into result ingest and from there into alert evaluation;
heartbeats drive liveness (hence assignment), check synchronisation, key recovery
and job dispatch; the scheduler runs silence alerts, cleanup and statistics.

The hazards, each at its line of code, are listed in `PROJECT.json`.

## 2. What is modelled

### 2.1 Reporter (`Reporter.tla`, `StoreAndForward.tla`)

Code: `apps/agent/app/agent/reporter.py`, `dead_letter.py`, with the callers in
`lifecycle.py` and `result_processor.py`.

An action is the code between two awaits, since an asyncio task gives up control
only there; a SQLite call runs in a thread and is one action per commit, so the
insert, the count of the disk cap and its prune are three actions. `pc[t]` is the
await task `t` is suspended at. Tasks: the periodic flush, the forced flush of
the result processor, the flush of `stop()`, and the replay. `group[t]` is what a
task is sending, `split[t]` the locals of `_send_in_parts` (work list, current
part, untried, refused). Results are numbers in the order they are added; a
result has a kind (`good`, `bad`: refused by the server; `big`: over the size
limit by itself), which together with `SizeLimit` decides the answer (`Verdict`,
after `classify_response`). The network may answer wrongly `MaxFaults` times,
including "taken, but the answer was lost"; SQLite may fail `MaxDiskFaults`
times; the process may stop gracefully (with or without the five seconds running
out) and may crash, which keeps the tables and loses the memory. `received` is
the server's side, taken as idempotent.

`StoreAndForward` states what a queue of this kind promises without tasks or
tables: an accepted item stays in hand until it is settled, nothing let go
returns, no fate is taken back. `ImplementsQueue` is the refinement, with
`Custody` (batch, hands of the flushes, rows) as the items in hand and `Settled`
(server, dead letters, and the losses by a named limit or failure).

Left out: migration of legacy JSON files, metrics, and the scrubbing of error
texts.

### 2.2 Scheduler (`Scheduler.tla`)

Code: `scheduler_core_service.py`, `scheduler_crud.py`, the seeded jobs in
`scheduler_templates.py`. One row of `job_configurations`; rows are independent.

All times are relative to the present and `Tick` moves them together, so the
state space is finite without a bound on time. A run is a record: where it is in
its code (leased, running, releasing), whether the loop or the Run button started
it, how much longer it may stay there, and the `next_run_at` it read. `Delay`
bounds the wait of a run for its task or transaction, `Cleanup` the time a job
takes to end once its deadline cancelled it. `Die` is a crash of the process or a
rolled-back transaction. Admin operations read the row and write it in two
actions, since nothing locks it in between.

Left out: statistics columns, execution history rows, jitter (0 in every seeded
job), and manual-trigger jobs, which nothing creates.

### 2.3 Jobs (`Jobs.tla`)

Code: `job_core_service.py`, `job_crud.py`, the dispatch in `process_heartbeat`,
`job_processor.py` on the agent, `job_purge.py`. The jobs of one agent.

A heartbeat is three steps: the SELECT of pending jobs, the commit that writes
`assigned` by primary key, and the arrival of the answer. Heartbeats of an agent
are serialised by `AgentCRUD.lock`. The agent's queue is a set of (job, number of
the answer), ordered by priority, then arrival. There is one worker: the
semaphore of five in `_job_worker` is taken by the only task there is. Start
notices and results are requests in `net`, each sent once; the server may process
them in any order (the agent gives up on a start notice after a few seconds) or
never. An agent that is restarted loses its queue and its running job, and the
answer to a heartbeat in progress finds nobody (`orphan`).

Left out: payloads and their validation, result enrichment, listings. The agent
is approved and uses its own key.

### 2.4 Alerts (`Alerts.tla`)

Code: `process_agent_report` and `bulk_insert_idempotent` from the insert on,
`alert_evaluation_core_service.py`, the log row `send_notifications` leaves. One
alert on one check: neither sees the rows of another.

A result is named by its timestamp. A report is a set of them; a request inserts
it, keeps the rows that were new (`Inserted`), evaluates them one action each, in
any order, as nothing sorts what the insert returns, and commits. It sees what is
committed at each statement and its own rows. The evaluation is whole: trigger (`EvaluateStatusChange`,
`EvaluateSslCertExpiry`, thresholds, repeated failures), suppression by a parent
that is down, state key, comparison with the newest log row, resend decision,
snooze, page, log row; an alert without a live provider writes no row
(`routed`). An evaluation may raise at any point (`EvaluationFails`): its savepoint
is rolled back, the error is logged and the result commits. A page that went out
stays out, whether the savepoint or the whole request (`Abort`) takes its row back;
`lost` counts such pages.

`DownIsTold` and `BandIsTold` hold while nothing on a list came between the check
and the operator. `slips` records what did: a late result, a burst, two requests at
a time, the parent, an undelivered page, a snooze, a disabled alert, an alert
without a provider, an evaluation that failed, a rollback after a page.
`PagesCapped` excepts three of these only (overlap, parent, undelivered page);
bursts, late results and edits are within it, and each page whose row was rolled
back may cost one page more than the cap.

### 2.5 Assignment and Silence (`Assignment.tla`, `Silence.tla`)

Code: `agent_assignment_core_service.py`, `liveness.py`,
`silence_alert_core_service.py`. `Assignment` has the pure operators: the
favourite of a pool by weight, the owner among those not handed off, the agents
weighted above it; `Silence` and `CheckSync` extend it. `Silence` has one check,
its agents, a `no_data` and an `agent_offline` alert. Times are ages, capped where
nothing asks for more, so there is no bound on time. `Decide` is the reading half
of a pass, `Record` the transaction of one notice, `CutShort` the runtime limit
between them, `RollBack` a page whose transaction fails.

### 2.6 CheckSync (`CheckSync.tla`)

Code: the operations of `check_core_service.py`, `config_version` and
`check_list_for_agent` on the server; `heartbeat.py`, `check_manager.py` and
`_reload_checks` on the agent. A check is its home agent, its mode and the number
of its newest edit; an agent's list is what it fetched, the cache what it saved.
There are no clocks: an agent may fall silent for the server although it lives,
and its `check_sync_interval` may pass at any time. Heartbeats, answers and
fetches may be lost `MaxLosses` times.

### 2.7 AgentKeys (`AgentKeys.tla`)

Code: `registration.py`, `credentials.py`, `heartbeat.py`, `core.py` on the agent;
`security.py`, `agent_core_service.py` and `registration_key_core_service.py` on
the server. One install, whose single task makes one call at a time; each call is
a request, the server's answer and the agent's reaction, with operators between
any two of them. A save that fails leaves the file as it was or, where no rename can
land and the file is rewritten in place, unreadable (`Save`). The server checks a
heartbeat's key in one step and applies it
under the row's lock in another. A change of status is read and written in two
steps. Credentials are in memory and in a file, which a crash reverts to.

### 2.8 Maintenance (`Maintenance.tla`)

Code: `maintenance_worker.py`, `maintenance_job_crud.py`,
`maintenance_job_core_service.py`. Claim, handler and outcome are three
transactions; a process may die between them, the outcome may not be stored, and
a process that starts fails every row that is running, another's included. The
parameters of a job are encrypted, and a process may run with a key they do not
decrypt under. What a handler does is the fact that it committed. The answer to a
commit may be lost: the claim's (`ClaimUnheard`) leaves a running row nobody works
on, the handler's (`HandlerUnheard`) makes the worker store a failure for work that
was done. `OutcomeTrue` and `EveryRequestEnds` except these.

### 2.9 Accounts (`Accounts.tla`)

Code: `auth_core_service.py`, `user_core_service.py`,
`api_token_core_service.py`, `admin_bootstrap_core_service.py`, their CRUD
modules and models, `session_cleanup.py`, `cli.py`.

A request that reads a row in one statement and writes it in a later one is two
actions, and what it holds in between is in `owner`; one whose statements all
follow its lock is one action. `Flushed` is the ORM's unit of work: a write sets
the columns that changed from what was loaded, over whatever is stored by then. A
password is the number of the request that set it. Every authenticated request
stamps its session's last activity in the same transaction, so it cannot commit
once that session is gone: `CreateToken` rests on it. `checked` counts the
wrong passwords compared since the count or the lock was last written down
(`Unpardoned`: an unlock or reset that changes neither column pardons nothing),
`uncounted` those whose count was rolled
back.

Left out: `must_change_password`, profile fields other than role and `is_active`,
the hasher and the policy. A wait for a lock that is too long, like every other
failure, is `Rollback`.

### 2.10 Runs

| Run | Bounds | What it shows |
| --- | --- | --- |
| `reporter_faults` | 3 results of all kinds, queue of 2, table of 1, replays of 2 rows, two flush tasks, 1 wrong answer, 1 stop that may time out, 1 crash | `TypeOK`; `Accounted`: every result is in custody or settled; `DeadLettersRefused`: only a payload the server refuses as such is dead-lettered; `OneCustodian`, `ReplayCopyCurrent` (why ids must not be reused), `DiskCap`, `BatchIsNewest`; `ImplementsQueue` |
| `reporter_live` | 3 results of all kinds, 2 wrong answers, 1 SQLite error, fair | `EverySmallResultSettles`, `TableDrains` |
| `scheduler_lease` | 2 runs of an interval job, retry limit 2, 2 by hand, 1 crash, fair | `SingleRunner`, `RetriesExact`, `AutoDisableEarned`, `LiveLeaseKept`, `DueJobMovesOn` |
| `scheduler_disable` (violation) | 1 run, retry limit 2 | `DisabledAtLimit`: the second failure in a row leaves the job enabled |
| `jobs_faults` | 2 jobs, 2 priorities, 1 per heartbeat, 1 loss, 1 restart, 2 edits, fair | `AtMostOnce`, `FinishedKept`, `StrandedOnlyByLoss`, `FifoWithinPriority`, `EveryJobEnds` |
| `alerts_pages` | five alerts, one per kind; 3 runs in reports of up to 2, two requests at a time, 1 rollback, failed evaluation, edit or turn of the parent | `EvaluatedOnce`, `DownIsTold`, `BandIsTold`, `PagesCapped` |
| `alerts_outage` (violation) | one alert without recovery notices, one request at a time | `EveryOutagePaged`: the second outage is taken for the first |
| `silence_episodes` | 2 agents, manual and distributed, results 0 or 1 late, 1 fault, fair | `OnePagePerEpisode`, `SilenceTold`, `RecoveryTold`, `OutageTold` |
| `sync_failover` | 2 agents, up to 2 checks, 1 operation, 1 stop or death, 1 loss, fair | `ManualEditsReach`, `RunAsAssigned` |
| `keys_lifecycle` | up to 7 rows, 3 operator actions, 2 faults, fair | `OnlyHolderApplies`, `NoAgentLeftBehind`, `Reconnects` |
| `maintenance_restarts` | 2 processes, 2 jobs, a target and none, 2 keys, 2 faults, fair | `AppliedOnce`, `OutcomeTrue`, `EveryRequestEnds` |
| `accounts_requests` | 2 users, 2 requests at a time and 4 in all, 2 attempts, 1 lock that runs out; first boot, two admins, or an admin and an editor | `CredentialsCurrent`, `GuessesLimited`, `AdminRemains`, `FirstIntoEmpty` |

Why these bounds are enough for the cases to happen: the reporter runs have a
table and a queue that overflow, a size limit below a full batch, and enough
faults that a batch is stored, combined, split, rewritten and refused in one
behaviour; two runs of the scheduler are one that outlived its lease and one that
takes over; two jobs are enough for an order, for a limit of one per heartbeat and
for one job to be edited while the other is dispatched; three results are an
outage, a recovery and the next outage, in every order of arrival; the ages of the
silence run pass every threshold, a hand-over and its grace; an operation, a death
and a loss are what each of the version's mechanisms has to survive, and the two
tables to begin with are a check whose edits move its agent's version and one
whose do not; two faults let an answer be lost and the next save fail; four
requests are a promotion, a change and the two that race. The mutants in
`PROJECT.json` change the modelled code the way a plausible mistake would, and
every property is violated by one under its own run's bounds.

What the reporter's safety run leaves out to stay small is a SQLite error beside
the crash, the stop and the second flush. SQLite errors are in `reporter_live`, and
the theorems of `ReporterProofs` state every safety property of the reporter for
any number of them.

Deadlock is not checked where a behaviour may stop because all results are
settled, all jobs have ended, or a bound on requests or events is used up
(reporter, jobs, alerts, maintenance, accounts). The others never stop.

### 2.11 Fairness

* Reporter: each task's steps are weakly fair while it can take them (the event
  loop runs every ready task; httpx and SQLite calls have timeouts), and the
  process is started. Nothing is assumed of producers, crashes or stops.
* Scheduler: the loop polls for ever and survives every exception, dispatched
  runs are executed, an admin request ends, and time passes (strongly fair, since
  it waits for runs that are at their limit).
* Jobs: the heartbeat loop survives every error, a job is bounded by its timeout,
  and a request that is not lost is processed.
* Silence: the scheduler runs the pass again and again, and a pass that is not cut
  short records what it decided. Nothing is assumed of agents or results.
* CheckSync: an agent that is up sends heartbeats, reloads when it decided to and
  sees its interval pass; one that is dead falls silent. Losses are bounded.
* AgentKeys: the agent's task goes on and its waits end. Operators may do nothing.
* Maintenance: a process that died is started again, and a worker takes its steps.

Alerts and Accounts have safety properties only.

### 2.12 Where code and documentation disagree

Shown by a run; `PROJECT.json` has the lines and the quotations:

* `EveryOutagePaged`: with recovery notices off, a second outage is not paged.
* `DisabledAtLimit`: `_handle_job_failure` disables a job after `retry_limit + 1`
  failures in a row; its docstring says "after retry_limit consecutive failures".
  `test_scheduler_core_service.py` has the code's limit. `AutoDisableEarned` states
  what both agree on: no fewer than `retry_limit`.

Seen while modelling, without a run of their own:

* Reporter: the docstring of `_deliver` says that a batch is never dropped; a
  flush that `stop()` cancels after five seconds loses the batch in its hands.
  `Accounted` counts it among the named losses.
* `_store_batch_to_db_sync` counts the rows and prunes the surplus in two
  transactions; a row the replay deletes in between makes it delete a batch
  although the table is not over its limit.
* Scheduler: disabling and enabling an interval job pushes its next run beyond one
  interval from now; toggling the seeded cron job on leaves it without a next run.
* Jobs: a cancel inside a heartbeat's window is overwritten by its flush, which
  `FinishedKept` excepts. `docs/user-guide/jobs.md` says that `assigned` means
  "Sent to the agent, awaiting execution"; a lost heartbeat answer or an agent
  restart leaves jobs `assigned` that nobody will execute, and `StrandedOnlyByLoss`
  shows that nothing else does. The same page says "A background task deletes
  expired jobs of any status", where `delete_expired_terminal` deletes finished
  ones only, and "Each agent runs up to 5 concurrent jobs", where the worker runs
  one.
* Alerts: a burst of a failure and two successes in one report loses the recovery,
  since each result is judged by the newest rows; of a burst the insert returns out
  of order, the last one evaluated is told as the present state; an evaluation that
  raises is not repeated, so what it had to tell is lost, or, when it raised after
  the page, told again; requests that overlap or are rolled back may page twice;
  threshold alerts send no recovery; repeated_failure
  has one constant key, so a second episode is told by its resends only.
* Silence: `_decide_no_data` looks at a snooze after it has decided on a recovery
  (lines 264-284 and 288 of `silence_alert_core_service.py`), so the recovery of a
  snoozed pair is sent. `docs/user-guide/alerts.md` says "Snoozing the alert for a
  check silences it like any other trigger" and that snooze "temporarily pauses
  notifications". `RecoveryTold` asks for recoveries of pairs that are not snoozed,
  and holds with either reading.
* Silence: a `no_data` threshold below the agent's own of about 75 seconds pages
  for a dead agent before its outage suppresses it.
* Sync: `config_version` covers the stamp of the agent a check belongs to and the
  ids of the checks an agent runs. An edit of a distributed or replicated check
  leaves the version of its other agents as it was, against the docstring ("it
  covers both an edit to its checks ... and a distributed check moving to or from
  it"); so does a move and its undoing between two heartbeats. The agents fetch
  when `check_sync_interval` passes, on which `RunAsAssigned` rests;
  `ManualEditsReach` states what the version alone ensures.
* Keys: recover-key's refusal of a secret is remembered in `registration.py` and
  not forgotten by an orphan's registration; an agent whose row is deleted under it
  is refused until it is restarted (`NeedsRestart`); two operators' changes of
  status overwrite each other, so that a pause may undo an archive, "Restore is the
  only way out of archived" notwithstanding.
* Maintenance: the docstring of `claim_next` says of a job whose parameters do not
  decrypt that it "is still claimed (and failed)"; `_claim_one` rolls the claim
  back and the queue waits (`QueueStopped`). A second process that starts fails the
  rows another is still running.
* Accounts: the rule that an active admin remains is judged on the row as
  `update_user` and `delete_user` read it, unlocked. A request that read an editor,
  a promotion of that editor and a demotion of the other admin together leave no
  active admin, against the docstring of `_assert_an_active_admin_remains`;
  `AdminRemains` excepts this and shows that nothing else does it.
* Accounts: a wrong current password in `change_password` is not counted when its
  session was ended meanwhile, as the stamp's failure rolls the count back
  (`uncounted`). The recovery command writes only what differs from its unlocked
  read, so a lock set in between survives it.

### 2.13 Proofs

All theorems hold for every value of the constants allowed by the named
assumptions of the modules; TLC evaluates those on every run.

* `ReporterProofs!TypeCorrect`: `Spec => []TypeOK`. Not inductive alone: the
  steps after an await rely on what the task holds there, so `TypeInv` adds that a
  flush about to send or store holds one batch, that a replay past a combined
  POST holds one row (`OneInHand`), that attempts are left while a request is in
  flight (`Attempts`), and `StopperShape` that stop()'s own flush only stores. The
  lemmas on sequences (`HalvesProperties`, `LettersPop`, `LettersConcat`,
  `NewestProperties`) say what splitting and trimming do to a batch's contents.
* `ReporterProofs!CopiesCurrent`, `EveryResultAccounted`, `ReporterImplementsQueue`
  rest on `QueueInv`, which adds to the types: row ids are unique and never come
  again, and the row at work is not among the rows to come (`RowInv`); a flush that
  is not delivering holds nothing, between two parts none is at work, and what the
  replay has taken off a row is settled, all of it before a delete and all but the
  rest before a rewrite (`LedgerInv`). Each step of a task is shown to be one of
  `HandsOn`: results move from the hand of a flush to a row or to their fate, and
  from a row to their fate, and no other way. From this follow both `Accounted`
  and the refinement: every step is a step of `StoreAndForward` or a stutter.
* `ReporterProofs!DeadLettersAreRefused` (`RefusedInv`: what is about to become a
  dead letter is a payload the server refused), `ResultsHaveOneCustodian` (rows
  only shrink, and what a hand gives up it gives to one place),
  `BatchHoldsTheNewest` (`DownEmpty`) and `TableStaysCapped` (`PruneCovers`: a
  surplus that was counted still covers the table, less what others inserted
  since).
* `BackgroundProofs!OneRunAtATime`: `Prompt => (Spec => []SingleRunner)`, with
  `Prompt == Delay + Cleanup < MaxRuntime`, the margin the lease of twice the
  runtime leaves. `LeaseCovers` is the strengthening: at each place of a run's
  code the lease is its own and outlasts, by the right amount, what the run may
  still take.
* `BackgroundProofs!RetriesAreExact`: `Spec => []RetriesExact`, from `CountInv`; with
  it `DisablingIsEarned`, and `LiveLeasesAreKept`, which needs no timing: only the
  run whose token the lease has can end it. `OnlyCrashesLeaveLeases` is the other
  half: as long as no run was lost, there is a run to end it (`LeaseHeld`).
* `JobsProofs!RunsAtMostOnce`, `FinishedJobsStay` and `OnlyLossesStrand`. A job
  passes through four places, each once and in one order: pending row, heartbeat,
  queue, execution. `OnceInv` says that it is never in an earlier place after a
  later one, and that only created jobs are anywhere; `Tended` adds that a failing
  heartbeat holds only jobs nobody has started on and that the worker has one job.
  `JobsRunInOrder`: of two jobs of one priority, the one that is further on is the
  older (`InOrder`).
* `CheckSyncProofs`, on `Assignment`: for every finite pool and its weights, when an
  agent goes only its checks move (`DepartureMovesOnlyItsChecks`), when one comes
  back a check stays or moves to it (`ReturnTakesOnlyItsChecks`), and an owner is
  online whenever an agent is (`OwnerIsOnlineAndStays`). That a finite pool has a
  heaviest agent is the lemma `HeaviestExists`, from the well-foundedness of `<`.
  On `CheckSync`: `ManualEditsAreFetched`. `SyncInv` says that no stamp or version
  is ahead of the newest edit, and that an agent whose version carries its present
  stamp runs its manual checks as they are (`StampTells`): every operation on a
  check gives each agent it touches a stamp nobody has seen. `SettledRunsAsAssigned`
  is the safety part of `RunAsAssigned`: in every reachable state in which the
  server knows who is up and each agent has its list (`Settled`), `RunAs` holds of
  every check, the distributed ones by `OwnerIsOnlineAndStays`.
* `AlertsProofs!ResultsAreEvaluatedOnce`: what open requests inserted is disjoint
  and not committed (`OnceInv`). `PagesStayCapped` (`PageInv`): without an overlap,
  a suppression or an undelivered page there is one request at a time, and the
  pages of the state last told are no more than the newest row counts for it and the
  pages whose rows were rolled back; an open request may still be rolled back to the
  newest committed row, so the same holds of that row with the request's own pages
  added (`PagesCounted`). While no row was rolled back the newest row also names
  that state (`RowsTold`). `OutagesAreTold` and
  `BandsAreTold`: `TellInv` states, for behaviours without a slip, both properties of
  the results a request has judged so far, and that the one left to judge, alone in
  its report, is newer.
* `AgentKeysProofs!NoAgentIsLeftBehind` and `HeartbeatsAreHolders`, from `KeysInv`.
  What proves an install to be its agent is in the row, the answer on its way, the
  memory, the file and the verdict on a secret; the invariant says what each tells
  of the others: who holds an id whose row has a secret holds the secret
  (`SecretHeld`), a running agent's file is of the agent it is or of one that is
  lost or has no secret, and what it does not have is marked unsaved
  (`FileFollows`), a refused secret is gone from its row for good (`VerdictTrue`),
  and a heartbeat let through by a key was let through by the one in its request,
  on a row that is not pending (`CheckedFor`). `KeyToSpare` shows that the keys
  of the model never run out.
* `BackgroundProofs!NoJobAppliedTwice` and `OutcomesAreTrue`, about
  `Maintenance`, which the module extends together with `Scheduler`. `QueueInv` says
  what a worker's hold on a job is worth: it is the only one, the job is past the
  queue and has no outcome of its handler, and the worker's step tells whether it
  was carried out.
  `NoJobForgotten` (`Attended`) is the safety part of `EveryRequestEnds`: a job that
  reads running has a worker at it, or its outcome could not be stored, or the
  answer to its claim was lost, or a process is down whose start fails it.
* `SilenceProofs!EpisodesPageOnce`: `Spec => []OnePagePerEpisode`. A pass records
  what it decided from rows it read before, so the invariant says what of that is
  still true: there is one notice for each subject, one with count 0 finds no page
  that is open, any other is a resend of an open or ended one (`Due`,
  `OneNoticeEach`), and the pages of a subject exceed the faults by at most the one
  of an open episode (`Charged`). `OutsideKeeps` is the lemma behind every step that
  is not the pass's: results, heartbeats, snoozes and time open no episode, and end
  one only with its count of pages set back. From the same invariant come
  `DataEndsEpisodes`, an action property (nothing but newer data ends a paged
  episode), and `ResendsStayWithin` (`ResendInv`). That the first choice of the
  agents is an agent, and so not the check, is `HomeIsAnAgent`.
* `AccountsProofs!CredentialsStayCurrent`, `GuessesStayLimited`, `AnAdminRemains`
  and `FirstAdminIntoEmpty`, from one invariant on what a request may rely on at
  its second step: who signs in or changes a password holds the row it read, so the
  row is as read but for a lock that ran out (`Holds`); who removes an admin it had
  to count holds another one (`Counted`); who creates the first admin holds the
  first-boot lock and there are no users (`FirstHolds`); the stored count keeps up
  with the guesses and a lock stands where it must (`Limited`).
  `OthersUndisturbed` is the lemma every action needs: a step that respects the
  locks leaves what the others rely on.

Only model-checked: liveness everywhere (the provers have no fairness:
`EverySmallResultSettles`, `TableDrains`, `DueJobMovesOn`, `EveryJobEnds`,
`SilenceTold`, `RecoveryTold`, `OutageTold`, `RunAsAssigned`, `Reconnects`,
`EveryRequestEnds`). Every safety property of a passing run is a theorem. The
invariants that are proved contain their modules' types; only the reporter's is
also a property of a run. `SyncInv`, `KeysInv` and the invariants of `AlertsProofs`
and `SilenceProofs` were also checked by TLC as invariants of their components'
instances, and so were `LeaseManned`, `Attended`, what
`Settled` implies, `EndsEpisodes` and `ResendsWithin` before they were proved (the
last two with resends switched on).

## 3. Not modelled, and the plan

Not modelled: the probes of check execution, rendering and request decoding, the
read-only queries behind lists, dashboards and status pages, statements handed to
TimescaleDB, migrations and test support. They are most of the source's lines and
keep no state that two actors change. In `PROJECT.json` each component says what of
it is left out.

Modelling left, in order:

1. The single-level rule of check dependencies: `validate_dependency` and
   `set_dependents` look at rows without locking them, so two requests together can
   build a chain of two; suppression looks one level up only.
2. The settings table and the caches each process keeps of it.
3. `Alerts` composed with `Reporter`, with the reporter's `received` as the table
   of results.
