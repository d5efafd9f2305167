----------------------------- MODULE JobsProofs -----------------------------
(* What holds of every number of jobs, losses, restarts and operator requests. *)
EXTENDS Jobs, FiniteSetTheorems, TLAPS

-----------------------------------------------------------------------------
(* Executed at most once.  A job passes through four places, each at most once *)
(* and in this order: its pending row, the heartbeat, the agent's queue, its   *)
(* execution.  AtMostOnce is about the last of them only; it is inductive      *)
(* together with what keeps a job from going back to an earlier place.         *)

Shape ==
    /\ made \in Nat /\ row = [j \in Jobs |-> row[j]] /\ picked \subseteq Jobs
    /\ queue \subseteq Jobs \X Nat /\ answers \in Nat
    /\ net \subseteq [kind : {"running", "completed", "failed"}, job : Jobs]

Dispatched(j) ==
    \/ \E q \in queue : q[1] = j
    \/ \E a \in started : a[1] = j

(* Only jobs that were created have a row or are under way.                    *)
OnlyMade ==
    \A j \in Jobs : row[j] # "absent" \/ j \in picked \/ Dispatched(j) => j <= made

(* A pending job, and one a heartbeat has read, is not dispatched yet; once    *)
(* the dispatch is committed, it is not pending any more.                      *)
OneWay ==
    \A j \in Jobs :
        /\ row[j] = "pending" \/ j \in picked => ~Dispatched(j)
        /\ row[j] = "pending" /\ j \in picked => beat # "sent"

(* A queued job is queued once and has not been executed.                      *)
QueuedOnce ==
    /\ \A q, r \in queue : q[1] = r[1] => q = r
    /\ \A q \in queue : \A a \in started : q[1] # a[1]

OnceInv == Shape /\ OnlyMade /\ OneWay /\ QueuedOnce /\ AtMostOnce

\* A request that leaves the heartbeat and the agent alone, and makes no row
\* pending or new, keeps the invariant.
LEMMA TableOnly ==
    ASSUME OnceInv, UNCHANGED <<made, heartbeat, agent>>,
           net' \subseteq net,
           row' = [j \in Jobs |-> row'[j]],
           \A j \in Jobs : \/ row'[j] = row[j]
                           \/ row'[j] # "pending" /\ (row'[j] = "absent" \/ row[j] # "absent")
    PROVE  OnceInv'
<1>1. Shape'
  BY DEF OnceInv, Shape, heartbeat, agent
<1>2. \A j \in Jobs : Dispatched(j)' <=> Dispatched(j)
  BY DEF Dispatched, agent
<1>3. OnlyMade'
  BY <1>2 DEF OnceInv, OnlyMade, heartbeat
<1>4. OneWay'
  BY <1>2 DEF OnceInv, OneWay, heartbeat
<1>5. QueuedOnce' /\ AtMostOnce'
  BY DEF OnceInv, QueuedOnce, AtMostOnce, agent
<1> QED BY <1>1, <1>3, <1>4, <1>5 DEF OnceInv

\* move_open_job never makes a row pending, and never touches a missing one.
LEMMA Moved ==
    ASSUME Shape, NEW j \in Jobs, NEW status, status # "pending", MoveOpenJob(j, status)
    PROVE  /\ row' = [k \in Jobs |-> row'[k]]
           /\ \A k \in Jobs : \/ row'[k] = row[k]
                              \/ row'[k] # "pending" /\ row[k] # "absent"
<1>1. CASE Movable(j, status)
  <2>1. row[j] # "absent"
    BY <1>1 DEF Movable
  <2> QED BY <1>1, <2>1 DEF MoveOpenJob, Shape
<1>2. CASE ~Movable(j, status)
  BY <1>2 DEF MoveOpenJob, Shape
<1> QED BY <1>1, <1>2

\* The server's own requests (create_job, cancel_job, delete_job, the purge).
LEMMA OnceServer ==
    ASSUME OnceInv, Server
    PROVE  OnceInv'
<1> USE JobsAssumption
<1>1. ASSUME NEW p \in Priorities, CreateJob(p) PROVE OnceInv'
  <2>1. made' = made + 1 /\ made + 1 \in Jobs /\ made \in Nat
    BY <1>1 DEF CreateJob, OnceInv, Shape, Jobs
  <2>2. /\ row' = [j \in Jobs |-> row'[j]]
        /\ \A j \in Jobs : row'[j] = IF j = made + 1 THEN "pending" ELSE row[j]
    BY <1>1, <2>1 DEF CreateJob, OnceInv, Shape
  <2>3. UNCHANGED <<heartbeat, agent, net>>
    BY <1>1 DEF CreateJob
  <2>4. \A j \in Jobs : Dispatched(j)' <=> Dispatched(j)
    BY <2>3 DEF Dispatched, agent
  <2>5. Shape'
    BY <2>1, <2>2, <2>3 DEF OnceInv, Shape, heartbeat, agent
  <2>6. ~Dispatched(made + 1) /\ made + 1 \notin picked
    BY <2>1 DEF OnceInv, OnlyMade
  <2>7. OnlyMade'
    BY <2>1, <2>2, <2>3, <2>4 DEF OnceInv, OnlyMade, heartbeat, Jobs
  <2>8. OneWay'
    BY <2>2, <2>3, <2>4, <2>6 DEF OnceInv, OneWay, heartbeat
  <2>9. QueuedOnce' /\ AtMostOnce'
    BY <2>3 DEF OnceInv, QueuedOnce, AtMostOnce, agent
  <2> QED BY <2>5, <2>7, <2>8, <2>9 DEF OnceInv
<1>2. ASSUME NEW j \in Jobs, CancelJob(j) PROVE OnceInv'
  BY <1>2, Moved, TableOnly DEF CancelJob, OnceInv
<1>3. ASSUME NEW j \in Jobs, DeleteJob(j) PROVE OnceInv'
  BY <1>3, TableOnly DEF DeleteJob, OnceInv, Shape
<1>4. ASSUME NEW j \in Jobs, Expire(j) PROVE OnceInv'
  BY <1>4, TableOnly DEF Expire, OnceInv, Shape
<1>5. ASSUME PurgeExpiredJobs PROVE OnceInv'
  BY <1>5, TableOnly DEF PurgeExpiredJobs, OnceInv, Shape
<1> QED BY <1>1, <1>2, <1>3, <1>4, <1>5 DEF Server

\* A heartbeat: read, commit, answer (get_pending_jobs_for_agent, enqueue_jobs).
LEMMA OnceBeat ==
    ASSUME OnceInv, Beat
    PROVE  OnceInv'
<1>1. ASSUME GetPendingJobs PROVE OnceInv'
  <2>1. picked' \subseteq Jobs /\ \A j \in picked' : row[j] = "pending"
    BY <1>1 DEF GetPendingJobs, First, PendingForAgent
  <2>2. UNCHANGED <<table, agent, net>> /\ beat' = "read"
    BY <1>1 DEF GetPendingJobs
  <2>3. \A j \in Jobs : Dispatched(j)' <=> Dispatched(j)
    BY <2>2 DEF Dispatched, agent
  <2>4. Shape'
    BY <2>1, <2>2 DEF OnceInv, Shape, table, agent
  <2>5. OnlyMade'
    BY <2>1, <2>2, <2>3 DEF OnceInv, OnlyMade, table
  <2>6. OneWay'
    BY <2>1, <2>2, <2>3 DEF OnceInv, OneWay, table
  <2>7. QueuedOnce' /\ AtMostOnce'
    BY <2>2 DEF OnceInv, QueuedOnce, AtMostOnce, agent
  <2> QED BY <2>4, <2>5, <2>6, <2>7 DEF OnceInv
<1>2. ASSUME CommitDispatch PROVE OnceInv'
  <2>1. UNCHANGED <<made, agent, net>>
    BY <1>2 DEF CommitDispatch
  <2>2. \A j \in Jobs : Dispatched(j)' <=> Dispatched(j)
    BY <2>1 DEF Dispatched, agent
  <2>3. \/ /\ \A j \in picked : row[j] # "absent"
           /\ row' = Assigned(picked) /\ picked' \subseteq picked
        \/ row' = row /\ picked' = {}
    BY <1>2 DEF CommitDispatch
  <2>4. /\ row' = [j \in Jobs |-> row'[j]] /\ picked' \subseteq picked
        /\ \A j \in Jobs : row'[j] = "pending" => row[j] = "pending" /\ j \notin picked'
        /\ \A j \in Jobs : row'[j] # "absent" => row[j] # "absent"
    BY <2>3 DEF Assigned, OnceInv, Shape
  <2>5. Shape'
    BY <2>1, <2>4 DEF OnceInv, Shape, agent
  <2>6. OnlyMade'
    BY <2>1, <2>2, <2>4 DEF OnceInv, OnlyMade
  <2>7. OneWay'
    BY <2>2, <2>4 DEF OnceInv, OneWay
  <2>8. QueuedOnce' /\ AtMostOnce'
    BY <2>1 DEF OnceInv, QueuedOnce, AtMostOnce, agent
  <2> QED BY <2>5, <2>6, <2>7, <2>8 DEF OnceInv
<1>3. ASSUME EnqueueJobs PROVE OnceInv'
  <2>1. /\ UNCHANGED <<table, net, started>> /\ picked' = {} /\ beat = "sent"
        /\ queue' = queue \cup (picked \X {answers'})
        /\ answers' \in Nat
    BY <1>3 DEF EnqueueJobs, OnceInv, Shape
  <2>2. \A q \in queue' : q \in queue \/ (q[1] \in picked /\ q = <<q[1], answers'>>)
    BY <2>1
  <2>3. \A j \in Jobs : Dispatched(j)' => Dispatched(j) \/ j \in picked
    BY <2>1, <2>2 DEF Dispatched
  <2>4. picked \subseteq Jobs /\ queue \subseteq Jobs \X Nat
    BY DEF OnceInv, Shape
  <2>5. Shape'
    BY <2>1, <2>4 DEF OnceInv, Shape, table
  <2>6. OnlyMade'
    BY <2>1, <2>3 DEF OnceInv, OnlyMade, table
  <2>7. OneWay'
    BY <2>1, <2>3 DEF OnceInv, OneWay, table
  <2>8. \A j \in picked : /\ \A q \in queue : q[1] # j
                          /\ \A a \in started : a[1] # j
    BY <2>4 DEF OnceInv, OneWay, Dispatched
  <2>9. QueuedOnce'
    <3>1. ASSUME NEW q \in queue', NEW r \in queue', q[1] = r[1] PROVE q = r
      BY <2>2, <2>8, <3>1 DEF OnceInv, QueuedOnce
    <3>2. ASSUME NEW q \in queue', NEW a \in started PROVE q[1] # a[1]
      BY <2>2, <2>8 DEF OnceInv, QueuedOnce
    <3> QED BY <2>1, <3>1, <3>2 DEF QueuedOnce
  <2>10. AtMostOnce'
    BY <2>1 DEF OnceInv, AtMostOnce
  <2> QED BY <2>5, <2>6, <2>7, <2>9, <2>10 DEF OnceInv
<1> QED BY <1>1, <1>2, <1>3 DEF Beat

\* Taking a job off the queue (_job_worker, _execute_job), whatever becomes of it.
LEMMA JobTaken ==
    ASSUME OnceInv, NEW q \in queue, queue' = queue \ {q},
           NEW n, started' = started \cup {<<q[1], n>>},
           UNCHANGED <<table, heartbeat, answers>>,
           net' \subseteq [kind : {"running", "completed", "failed"}, job : Jobs]
    PROVE  OnceInv'
<1>1. q[1] \in Jobs
  BY DEF OnceInv, Shape
<1>2. \A j \in Jobs : Dispatched(j)' => Dispatched(j)
  BY <1>1 DEF Dispatched
<1>3. Shape'
  BY DEF OnceInv, Shape, table, heartbeat
<1>4. OnlyMade'
  BY <1>2 DEF OnceInv, OnlyMade, table, heartbeat
<1>5. OneWay'
  BY <1>2 DEF OnceInv, OneWay, table, heartbeat
<1>6. QueuedOnce'
  BY DEF OnceInv, QueuedOnce
<1>7. AtMostOnce'
  BY DEF OnceInv, AtMostOnce, QueuedOnce
<1> QED BY <1>3, <1>4, <1>5, <1>6, <1>7 DEF OnceInv

\* The worker (_execute_job, _submit_result).
LEMMA OnceWork ==
    ASSUME OnceInv, Work
    PROVE  OnceInv'
<1>1. ASSUME NEW j \in Jobs, NEW s \in {"running", "completed", "failed"}
      PROVE  net \cup {Request(s, j)} \subseteq
                 [kind : {"running", "completed", "failed"}, job : Jobs]
  BY DEF OnceInv, Shape, Request
<1>2. \A q \in queue : q[1] \in Jobs
  BY DEF OnceInv, Shape
<1>3. ASSUME NEW q \in queue, ExecuteJob(q) PROVE OnceInv'
  BY <1>1, <1>2, <1>3, JobTaken DEF ExecuteJob
<1>4. ASSUME NEW q \in queue, RefuseJob(q) PROVE OnceInv'
  BY <1>1, <1>2, <1>4, JobTaken DEF RefuseJob
<1>5. ASSUME NEW j \in Jobs, NEW s \in {"completed", "failed"}, SubmitResult(j, s)
      PROVE  OnceInv'
  <2>1. UNCHANGED <<table, heartbeat, queue, answers, started>>
        /\ net' = net \cup {Request(s, j)}
    BY <1>5 DEF SubmitResult
  <2>2. Shape'
    BY <1>1, <2>1 DEF OnceInv, Shape, table, heartbeat
  <2>3. \A k \in Jobs : Dispatched(k)' <=> Dispatched(k)
    BY <2>1 DEF Dispatched
  <2>4. OnlyMade' /\ OneWay' /\ QueuedOnce' /\ AtMostOnce'
    BY <2>1, <2>3 DEF OnceInv, OnlyMade, OneWay, QueuedOnce, AtMostOnce, table, heartbeat
  <2> QED BY <2>2, <2>4 DEF OnceInv
<1> QED BY <1>3, <1>4, <1>5 DEF Work

\* What is lost was in one place, and is then in none.
LEMMA OnceFault ==
    ASSUME OnceInv, Fault
    PROVE  OnceInv'
<1>1. UNCHANGED <<table, started, answers>>
  BY DEF Fault, LoseAnswer, StopAgent, LoseRequest, agent
<1>2. queue' \subseteq queue /\ picked' \subseteq picked /\ net' \subseteq net
  BY DEF Fault, LoseAnswer, StopAgent, LoseRequest, agent, heartbeat
<1>3. beat' = "sent" => beat = "sent"
  BY DEF Fault, LoseAnswer, StopAgent, LoseRequest, heartbeat
<1>4. \A j \in Jobs : Dispatched(j)' => Dispatched(j)
  BY <1>1, <1>2 DEF Dispatched
<1>5. Shape'
  BY <1>1, <1>2 DEF OnceInv, Shape, table
<1>6. OnlyMade'
  BY <1>1, <1>2, <1>4 DEF OnceInv, OnlyMade, table
<1>7. OneWay'
  BY <1>1, <1>2, <1>3, <1>4 DEF OnceInv, OneWay, table
<1>8. QueuedOnce' /\ AtMostOnce'
  BY <1>1, <1>2 DEF OnceInv, QueuedOnce, AtMostOnce
<1> QED BY <1>5, <1>6, <1>7, <1>8 DEF OnceInv

\* Every step keeps a job on its way.
LEMMA OnceNext ==
    ASSUME OnceInv, [Next]_vars
    PROVE  OnceInv'
<1>1. ASSUME NEW m \in net, ProcessRequest(m) PROVE OnceInv'
  <2>1. m.job \in Jobs /\ m.kind # "pending"
    BY DEF OnceInv, Shape
  <2>2. Shape /\ MoveOpenJob(m.job, m.kind) /\ net' \subseteq net
        /\ UNCHANGED <<made, heartbeat, agent>>
    BY <1>1 DEF ProcessRequest, OnceInv
  <2> QED BY <2>1, <2>2, Moved, TableOnly
<1>2. ASSUME UNCHANGED vars PROVE OnceInv'
  <2>1. /\ UNCHANGED <<made, row, beat, picked, queue, answers, net, started>>
    BY <1>2 DEF vars
  <2>2. \A j \in Jobs : Dispatched(j)' <=> Dispatched(j)
    BY <2>1 DEF Dispatched
  <2> QED BY <2>1, <2>2 DEF OnceInv, Shape, OnlyMade, OneWay, QueuedOnce, AtMostOnce
<1> QED BY <1>1, <1>2, OnceServer, OnceBeat, OnceWork, OnceFault DEF Next

\* No job is executed twice, however many jobs there are and whatever is lost,
\* cancelled, deleted, purged or restarted.
THEOREM RunsAtMostOnce == Spec => []AtMostOnce
<1>1. Init => OnceInv
  BY DEF Init, OnceInv, Shape, OnlyMade, OneWay, QueuedOnce, AtMostOnce, Dispatched
<1>2. OnceInv /\ [Next]_vars => OnceInv'
  BY OnceNext
<1>3. OnceInv => AtMostOnce
  BY DEF OnceInv
<1> QED BY <1>1, <1>2, <1>3, PTL DEF Spec

-----------------------------------------------------------------------------
(* Finished jobs.                                                              *)

Keeps(j) ==
    /\ row[j] \in Finished
    /\ ~(beat \in {"read", "orphan"} /\ j \in picked)
    => row'[j] \in {row[j], "absent"}

\* move_open_job leaves every finished job as it is.
LEMMA FinishedNotMoved ==
    ASSUME Shape, NEW j \in Jobs, NEW status, MoveOpenJob(j, status), NEW k \in Jobs
    PROVE  Keeps(k)
<1>1. CASE Movable(j, status)
  <2>1. row[j] \notin Finished
    BY <1>1 DEF Movable, Finished
  <2> QED BY <1>1, <2>1 DEF MoveOpenJob, Shape, Keeps
<1>2. CASE ~Movable(j, status)
  BY <1>2 DEF MoveOpenJob, Keeps
<1> QED BY <1>1, <1>2

\* A finished job keeps its state or is deleted, for any number of jobs, agents'
\* late notices and operator requests, unless a heartbeat in progress has read
\* it as pending.
THEOREM FinishedJobsStay == Spec => FinishedKept
<1>1. Init => OnceInv
  BY DEF Init, OnceInv, Shape, OnlyMade, OneWay, QueuedOnce, AtMostOnce, Dispatched
<1>2. OnceInv /\ [Next]_vars => OnceInv'
  BY OnceNext
<1>3. ASSUME OnceInv, Next, NEW j \in Jobs PROVE Keeps(j)
  <2>1. Shape
    BY <1>3 DEF OnceInv
  <2>2. ASSUME NEW p \in Priorities, CreateJob(p) PROVE Keeps(j)
    <3>1. made + 1 \in Jobs /\ row[made + 1] = "absent"
      BY <1>3, <2>2, JobsAssumption DEF OnceInv, Shape, OnlyMade, CreateJob, Jobs
    <3> QED BY <2>1, <2>2, <3>1 DEF CreateJob, Shape, Keeps, Finished
  <2>3. ASSUME NEW k \in Jobs, CancelJob(k) PROVE Keeps(j)
    BY <2>1, <2>3, FinishedNotMoved DEF CancelJob
  <2>4. ASSUME NEW k \in Jobs, DeleteJob(k) PROVE Keeps(j)
    BY <2>1, <2>4 DEF DeleteJob, Shape, Keeps
  <2>5. ASSUME PurgeExpiredJobs PROVE Keeps(j)
    BY <2>5 DEF PurgeExpiredJobs, Keeps
  <2>6. ASSUME CommitDispatch PROVE Keeps(j)
    BY <2>6 DEF CommitDispatch, Assigned, Keeps
  <2>7. ASSUME NEW m \in net, ProcessRequest(m) PROVE Keeps(j)
    <3>1. m.job \in Jobs
      BY <2>1 DEF Shape
    <3> QED BY <2>1, <2>7, <3>1, FinishedNotMoved DEF ProcessRequest
  <2>8. ASSUME \/ \E k \in Jobs : Expire(k)
               \/ GetPendingJobs \/ EnqueueJobs \/ Work \/ Fault
        PROVE  Keeps(j)
    <3>1. row' = row
      BY <2>8 DEF Expire, GetPendingJobs, EnqueueJobs, Work, Fault, ExecuteJob,
                  RefuseJob, SubmitResult, LoseAnswer, StopAgent, LoseRequest, table
    <3> QED BY <3>1 DEF Keeps
  <2> QED BY <1>3, <2>2, <2>3, <2>4, <2>5, <2>6, <2>7, <2>8 DEF Next, Server, Beat
<1>4. OnceInv /\ [Next]_vars =>
        [\A j \in Jobs :
          /\ row[j] \in Finished
          /\ ~(beat \in {"read", "orphan"} /\ j \in picked)
          => row'[j] \in {row[j], "absent"}]_vars
  BY <1>3 DEF Keeps
<1> QED BY <1>1, <1>2, <1>4, PTL DEF Spec, FinishedKept

-----------------------------------------------------------------------------
(* Stranded jobs.                                                              *)

Underway(j) ==
    \/ j \in picked \/ j \in current
    \/ \E q \in queue : q[1] = j
    \/ \E m \in net : m.job = j /\ m.kind # "running"

(* What keeps a job from slipping through: a heartbeat that fails has only     *)
(* jobs nobody has started on, the worker has one job at a time, and without a *)
(* restart every commit has an agent waiting for its answer.                   *)
Tended ==
    /\ beat \in {"read", "orphan"} =>
          \A j \in picked : row[j] \notin {"assigned", "running"}
    /\ beat \in {"idle", "read", "orphan", "sent"}
    /\ beat = "idle" => picked = {}
    /\ \A j, k \in current : j = k
    /\ stops = 0 => beat # "orphan"
    /\ losses \in Nat /\ stops \in Nat

StrandInv == Shape /\ Tended /\ StrandedOnlyByLoss

\* A step that starts no job in the table and drops none under way.
LEMMA StillUnderway ==
    ASSUME StrandInv, Shape', Tended',
           losses' = losses, stops' = stops,
           \A j \in Jobs : row'[j] \in {"assigned", "running"} =>
              \/ Underway(j)'
              \/ row[j] \in {"assigned", "running"} /\ (Underway(j) => Underway(j)')
    PROVE  StrandInv'
<1>1. ASSUME losses' = 0, stops' = 0, NEW j \in Jobs, row'[j] \in {"assigned", "running"}
      PROVE  Underway(j)'
  <2>1. row[j] \in {"assigned", "running"} => Underway(j)
    BY <1>1 DEF StrandInv, StrandedOnlyByLoss, Underway
  <2> QED BY <1>1, <2>1
<1>2. StrandedOnlyByLoss'
  BY <1>1 DEF StrandedOnlyByLoss, Underway
<1> QED BY <1>2 DEF StrandInv

\* What a request names.
LEMMA RequestFields ==
    \A kind, j : Request(kind, j).kind = kind /\ Request(kind, j).job = j
  BY DEF Request

\* Every step keeps hold of the jobs the table shows as under way.
LEMMA StrandNext ==
    ASSUME OnceInv, OnceInv', StrandInv, [Next]_vars
    PROVE  StrandInv'
<1>0. Shape /\ Shape' /\ Tended
  BY DEF OnceInv, StrandInv
<1>1. ASSUME Server PROVE StrandInv'
  <2>1. UNCHANGED <<beat, picked, queue, current, net, losses, stops>>
    BY <1>1 DEF Server, CreateJob, CancelJob, DeleteJob, Expire, PurgeExpiredJobs,
                heartbeat, agent, budget, Edit
  <2>2. ASSUME NEW j \in Jobs, row'[j] \in {"assigned", "running"}
        PROVE  row[j] = row'[j]
    BY <1>0, <1>1, <2>2 DEF Server, CreateJob, CancelJob, DeleteJob, Expire,
        PurgeExpiredJobs, MoveOpenJob, Shape, table, Finished
  <2>3. Tended'
    BY <1>0, <2>1, <2>2 DEF Tended, Shape
  <2>4. \A j \in Jobs : Underway(j) <=> Underway(j)'
    BY <2>1 DEF Underway
  <2> QED BY <1>0, <2>1, <2>2, <2>3, <2>4, StillUnderway
<1>2. ASSUME GetPendingJobs PROVE StrandInv'
  <2>1. UNCHANGED <<row, queue, current, net, losses, stops>> /\ beat = "idle"
        /\ beat' = "read" /\ \A j \in picked' : row[j] = "pending"
    BY <1>2 DEF GetPendingJobs, table, agent, budget, First, PendingForAgent
  <2>2. Tended'
    BY <1>0, <2>1 DEF Tended
  <2>3. ASSUME NEW j \in Jobs, Underway(j) PROVE Underway(j)' \/ j \in picked
    BY <2>1, <2>3 DEF Underway
  <2>4. picked = {}
    BY <1>0, <2>1 DEF Tended
  <2> QED BY <1>0, <2>1, <2>2, <2>3, <2>4, StillUnderway
<1>3. ASSUME CommitDispatch PROVE StrandInv'
  <2>1. UNCHANGED <<queue, current, net, losses, stops>>
    BY <1>3 DEF CommitDispatch, agent, budget
  <2>2. CASE \A j \in picked : row[j] # "absent"
    <3>1. row' = Assigned(picked) /\ beat' \in {"sent", "idle"}
          /\ (beat' = "idle" => picked' = {})
      BY <1>3, <2>2 DEF CommitDispatch
    <3>2. Tended'
      BY <1>0, <2>1, <3>1 DEF Tended
    <3>3. CASE stops = 0
      <4>1. picked' = picked
        BY <1>0, <1>3, <2>2, <3>3 DEF CommitDispatch, Tended
      <4>2. \A j \in Jobs : Underway(j) <=> Underway(j)'
        BY <2>1, <4>1 DEF Underway
      <4>3. \A j \in Jobs : j \in picked \/ row'[j] = row[j]
        BY <3>1 DEF Assigned
      <4> QED BY <1>0, <2>1, <3>2, <4>1, <4>2, <4>3, StillUnderway DEF Underway
    <3>4. CASE stops # 0
      BY <1>0, <2>1, <3>2, <3>4 DEF StrandInv, StrandedOnlyByLoss
    <3> QED BY <3>3, <3>4
  <2>3. CASE ~ \A j \in picked : row[j] # "absent"
    <3>1. row' = row /\ beat' = "idle" /\ picked' = {}
      BY <1>3, <2>3 DEF CommitDispatch
    <3>2. Tended'
      BY <1>0, <2>1, <3>1 DEF Tended
    <3>3. \A j \in picked : row[j] \notin {"assigned", "running"}
      BY <1>0, <1>3 DEF Tended, CommitDispatch
    <3>4. \A j \in Jobs : j \in picked \/ (Underway(j) => Underway(j)')
      BY <2>1, <3>1 DEF Underway
    <3> QED BY <1>0, <2>1, <3>1, <3>2, <3>3, <3>4, StillUnderway
  <2> QED BY <2>2, <2>3
<1>4. ASSUME EnqueueJobs PROVE StrandInv'
  <2>1. UNCHANGED <<row, current, net, losses, stops>> /\ beat' = "idle" /\ picked' = {}
        /\ queue' = queue \cup (picked \X {answers'})
    BY <1>4 DEF EnqueueJobs, table, budget
  <2>2. Tended'
    BY <1>0, <2>1 DEF Tended
  <2>3. ASSUME NEW j \in Jobs, Underway(j) PROVE Underway(j)'
    <3>1. CASE j \in picked
      <4>1. <<j, answers'>> \in queue' /\ <<j, answers'>>[1] = j
        BY <2>1, <3>1
      <4> QED BY <4>1 DEF Underway
    <3>2. CASE j \notin picked
      BY <2>1, <2>3, <3>2 DEF Underway
    <3> QED BY <3>1, <3>2
  <2> QED BY <1>0, <2>1, <2>2, <2>3, StillUnderway
<1>5. ASSUME Work PROVE StrandInv'
  <2>1. UNCHANGED <<row, beat, picked, losses, stops>>
    BY <1>5 DEF Work, ExecuteJob, RefuseJob, SubmitResult, table, heartbeat, budget
  <2>2. Tended'
    BY <1>0, <1>5, <2>1 DEF Tended, Work, ExecuteJob, RefuseJob, SubmitResult
  <2>3. ASSUME NEW q \in queue, ExecuteJob(q), NEW j \in Jobs, Underway(j)
        PROVE  Underway(j)'
    <3>1. /\ picked' = picked /\ queue' = queue \ {q} /\ current = {}
          /\ current' = {q[1]} /\ net \subseteq net'
      BY <2>1, <2>3 DEF ExecuteJob
    <3> QED BY <2>3, <3>1 DEF Underway
  <2>4. ASSUME NEW q \in queue, RefuseJob(q), NEW j \in Jobs, Underway(j)
        PROVE  Underway(j)'
    <3>1. \E m \in net' : m.job = q[1] /\ m.kind # "running"
      <4>1. Request("failed", q[1]) \in net'
        BY <2>4 DEF RefuseJob
      <4> QED BY <4>1, RequestFields
    <3>2. /\ picked' = picked /\ queue' = queue \ {q} /\ current' = current
          /\ net \subseteq net'
      BY <2>1, <2>4 DEF RefuseJob
    <3> QED BY <2>4, <3>1, <3>2 DEF Underway
  <2>5. ASSUME NEW k \in Jobs, NEW s \in {"completed", "failed"}, SubmitResult(k, s),
               NEW j \in Jobs, Underway(j)
        PROVE  Underway(j)'
    <3>1. \E m \in net' : m.job = k /\ m.kind # "running"
      <4>1. Request(s, k) \in net' /\ s # "running"
        BY <2>5 DEF SubmitResult
      <4> QED BY <4>1, RequestFields
    <3>2. j \in current => j = k
      BY <1>0, <2>5 DEF Tended, SubmitResult
    <3> QED BY <2>1, <2>5, <3>1, <3>2 DEF SubmitResult, Underway
  <2>6. \A j \in Jobs : Underway(j) => Underway(j)'
    BY <1>5, <2>3, <2>4, <2>5 DEF Work
  <2> QED BY <1>0, <2>1, <2>2, <2>6, StillUnderway
<1>6. ASSUME Fault PROVE StrandInv'
  <2>1. /\ row' = row /\ current' \subseteq current /\ picked' \subseteq picked
        /\ losses' + stops' > 0 /\ losses' \in Nat /\ stops' \in Nat
        /\ beat' \in {"read", "orphan"} => beat \in {"read", "orphan"}
        /\ beat' = "orphan" => beat = "orphan" \/ stops' > 0
        /\ stops <= stops'
        /\ beat' \in {"idle", "read", "orphan", "sent"}
        /\ beat' = "idle" => picked' = {}
    BY <1>0, <1>6 DEF Fault, LoseAnswer, StopAgent, LoseRequest, Tended, table,
                      agent, heartbeat
  <2>2. Tended'
    BY <1>0, <2>1 DEF Tended
  <2>3. StrandedOnlyByLoss'
    BY <2>1 DEF StrandedOnlyByLoss
  <2> QED BY <1>0, <2>2, <2>3 DEF StrandInv
<1>7. ASSUME NEW m \in net, ProcessRequest(m) PROVE StrandInv'
  <2>1. /\ UNCHANGED <<beat, picked, queue, current, losses, stops>>
        /\ net' = net \ {m} /\ MoveOpenJob(m.job, m.kind)
    BY <1>7 DEF ProcessRequest, heartbeat, agent, budget
  <2>2. m.job \in Jobs /\ m.kind \in {"running", "completed", "failed"}
    BY <1>0 DEF Shape
  <2>3. ASSUME NEW j \in Jobs, row'[j] \in {"assigned", "running"}
        PROVE  /\ row[j] \in {"assigned", "running"}
               /\ j = m.job => m.kind = "running"
    <3>1. CASE Movable(m.job, m.kind)
      BY <1>0, <2>1, <2>2, <2>3, <3>1 DEF MoveOpenJob, Movable, Shape
    <3>2. CASE ~Movable(m.job, m.kind)
      BY <1>0, <2>1, <2>2, <2>3, <3>2 DEF MoveOpenJob, Movable, Shape, Finished
    <3> QED BY <3>1, <3>2
  <2>4. Tended'
    BY <1>0, <2>1, <2>3 DEF Tended, Shape
  <2>5. ASSUME NEW j \in Jobs, Underway(j), j = m.job => m.kind = "running"
        PROVE  Underway(j)'
    BY <2>1, <2>5 DEF Underway
  <2> QED BY <1>0, <2>1, <2>3, <2>4, <2>5, StillUnderway
<1>8. ASSUME UNCHANGED vars PROVE StrandInv'
  BY <1>0, <1>8 DEF vars, StrandInv, Tended, StrandedOnlyByLoss
<1> QED BY <1>1, <1>2, <1>3, <1>4, <1>5, <1>6, <1>7, <1>8 DEF Next, Beat

\* Only a lost message or a restart of the agent leaves a job assigned or
\* running with nobody at work on it: no cancel, deletion, purge, limit or late
\* start notice does.
THEOREM OnlyLossesStrand == Spec => []StrandedOnlyByLoss
<1>1. Init => OnceInv /\ StrandInv
  BY DEF Init, OnceInv, Shape, OnlyMade, OneWay, QueuedOnce, AtMostOnce, Dispatched,
         StrandInv, Tended, StrandedOnlyByLoss
<1>2. OnceInv /\ StrandInv /\ [Next]_vars => OnceInv' /\ StrandInv'
  BY OnceNext, StrandNext
<1>3. StrandInv => StrandedOnlyByLoss
  BY DEF StrandInv
<1> QED BY <1>1, <1>2, <1>3, PTL DEF Spec

-----------------------------------------------------------------------------
(* First in, first out.  The order of two executions is decided long before    *)
(* they start: a job passes the pending rows, the heartbeat, the queue and the *)
(* worker, and of two jobs of one priority the one that is further on is the   *)
(* older.                                                                      *)

StartShape ==
    /\ prio = [j \in Jobs |-> prio[j]] /\ \A j \in Jobs : prio[j] \in Nat
    /\ IsFiniteSet(started)
    /\ \A a \in started : a[1] \in Jobs /\ a[2] \in Nat /\ a[2] <= Cardinality(started)
    /\ \A q \in queue : q[2] <= answers

Waiting(j) == row[j] = "pending" \/ j \in picked

InOrder ==
    /\ \A j, k \in Jobs : prio[j] = prio[k] /\ Dispatched(j) /\ Waiting(k) => j < k
    /\ \A j, k \in Jobs :
          prio[j] = prio[k] /\ j \in picked /\ row[k] = "pending" /\ k \notin picked => j < k
    /\ \A q, r \in queue : prio[q[1]] = prio[r[1]] /\ q[2] < r[2] => q[1] < r[1]
    /\ \A a \in started : \A q \in queue : prio[a[1]] = prio[q[1]] => a[1] < q[1]

FifoInv == OnceInv /\ StartShape /\ InOrder /\ FifoWithinPriority

\* What only loses jobs from its places keeps them in order.
LEMMA FifoShrinks ==
    ASSUME FifoInv, OnceInv', prio' = prio, started' = started, answers' = answers,
           queue' \subseteq queue, picked' = picked \/ picked' = {},
           \A j \in Jobs : row'[j] = "pending" => row[j] = "pending"
    PROVE  FifoInv'
<1>1. StartShape' /\ FifoWithinPriority'
  BY DEF FifoInv, StartShape, FifoWithinPriority
<1>2. \A j \in Jobs : Dispatched(j)' => Dispatched(j)
  BY DEF Dispatched
<1>3. \A j \in Jobs : Waiting(j)' => Waiting(j)
  BY DEF Waiting
<1>4. InOrder'
  BY <1>2, <1>3 DEF FifoInv, InOrder
<1> QED BY <1>1, <1>4 DEF FifoInv

\* A new job is the youngest (create_job).
LEMMA FifoCreate ==
    ASSUME FifoInv, OnceInv', NEW p \in Priorities, CreateJob(p)
    PROVE  FifoInv'
<1> DEFINE new == made + 1
<1>1. /\ new \in Jobs /\ made \in Nat
      /\ \A j \in Jobs \ {new} : row'[j] = row[j] /\ prio'[j] = prio[j]
      /\ prio'[new] = p /\ prio' = [j \in Jobs |-> prio'[j]]
  BY JobsAssumption DEF FifoInv, OnceInv, Shape, StartShape, CreateJob, Jobs
<1>2. UNCHANGED <<picked, queue, started, answers>>
  BY DEF CreateJob, heartbeat, agent
<1>3. \A j \in Jobs : Dispatched(j)' <=> Dispatched(j)
  BY <1>2 DEF Dispatched
<1>4. \A j \in Jobs : Dispatched(j) \/ j \in picked => j # new /\ j < new
  <2>1. \A j \in Jobs : Dispatched(j) \/ j \in picked => j <= made
    BY DEF FifoInv, OnceInv, OnlyMade
  <2>2. Jobs \subseteq Nat
    BY DEF Jobs
  <2> QED BY <1>1, <2>1, <2>2
<1>5. StartShape'
  <2>1. \A j \in Jobs : prio'[j] \in Nat
    BY <1>1, JobsAssumption DEF FifoInv, StartShape
  <2> QED BY <1>1, <1>2, <2>1 DEF FifoInv, StartShape
<1>6. /\ \A a \in started : a[1] \in Jobs /\ Dispatched(a[1])
      /\ \A q \in queue : q[1] \in Jobs /\ Dispatched(q[1])
  BY DEF FifoInv, StartShape, OnceInv, Shape, Dispatched
<1>7. /\ \A a \in started : prio'[a[1]] = prio[a[1]]
      /\ \A q \in queue : prio'[q[1]] = prio[q[1]]
  BY <1>1, <1>4, <1>6
<1> HIDE DEF new
<1>8. FifoWithinPriority'
  BY <1>2, <1>7 DEF FifoInv, FifoWithinPriority
<1>9. ASSUME NEW j \in Jobs, NEW k \in Jobs, prio'[j] = prio'[k], Dispatched(j), Waiting(k)'
      PROVE  j < k
  <2>1. j # new /\ j < new
    BY <1>4, <1>9
  <2>2. CASE k # new
    <3>1. prio[j] = prio[k] /\ Waiting(k)
      BY <1>1, <1>2, <1>9, <2>1, <2>2 DEF Waiting
    <3> QED BY <1>9, <3>1 DEF FifoInv, InOrder
  <2> QED BY <2>1, <2>2
<1>10. ASSUME NEW j \in Jobs, NEW k \in Jobs, prio'[j] = prio'[k], j \in picked,
              row'[k] = "pending", k \notin picked
       PROVE  j < k
  <2>1. j # new /\ j < new
    BY <1>4, <1>10
  <2>2. CASE k # new
    <3>1. prio[j] = prio[k] /\ row[k] = "pending"
      BY <1>1, <1>10, <2>1, <2>2
    <3> QED BY <1>10, <3>1 DEF FifoInv, InOrder
  <2> QED BY <2>1, <2>2
<1>11. InOrder'
  <2>1. /\ \A q, r \in queue : prio'[q[1]] = prio'[r[1]] /\ q[2] < r[2] => q[1] < r[1]
        /\ \A a \in started : \A q \in queue : prio'[a[1]] = prio'[q[1]] => a[1] < q[1]
    BY <1>7 DEF FifoInv, InOrder
  <2> QED BY <1>2, <1>3, <1>9, <1>10, <2>1 DEF InOrder
<1> QED BY <1>5, <1>8, <1>11 DEF FifoInv

\* What a heartbeat leaves behind at its limit is not older than what it takes
\* (get_pending_jobs_for_agent).
LEMMA FirstInOrder ==
    ASSUME StartShape, NEW S \in SUBSET Jobs, NEW n \in Nat,
           NEW j \in First(S, n), NEW k \in S \ First(S, n), prio[j] = prio[k]
    PROVE  j < k
<1> DEFINE before(x) == {y \in S : Before(y, x)}
<1>1. /\ j \in S /\ k \in S /\ j \in Nat /\ k \in Nat /\ j # k
      /\ \A x \in S : prio[x] \in Nat /\ x \in Nat
  <2>1. j \in S /\ k \in S /\ j # k
    BY DEF First
  <2>2. \A x \in S : prio[x] \in Nat
    BY DEF StartShape
  <2>3. \A x \in S : x \in Nat
    BY DEF Jobs
  <2> QED BY <2>1, <2>2, <2>3
<1>2. IsFiniteSet(S)
  <2>1. IsFiniteSet(Jobs)
    BY JobsAssumption, FS_Interval DEF Jobs
  <2> QED BY <2>1, FS_Subset
<1>3. Cardinality(before(j)) < n /\ ~(Cardinality(before(k)) < n)
  BY DEF First
<1>4. CASE k < j
  <2>1. ASSUME NEW y \in S, Before(y, k) PROVE Before(y, j)
    <3>1. prio[y] \in Nat /\ y \in Nat /\ prio[k] \in Nat
      BY <1>1
    <3>2. prio[y] > prio[k] \/ (prio[y] = prio[k] /\ y < k)
      BY <2>1 DEF Before
    <3>3. prio[y] > prio[j] \/ (prio[y] = prio[j] /\ y < j)
      BY <1>1, <1>4, <3>1, <3>2
    <3> QED BY <3>3 DEF Before
  <2>0. before(k) \in SUBSET before(j)
    BY <2>1
  <2>2. IsFiniteSet(before(j)) /\ IsFiniteSet(before(k))
    <3>1. before(j) \in SUBSET S /\ before(k) \in SUBSET S
      OBVIOUS
    <3> HIDE DEF before
    <3> QED BY <1>2, <3>1, FS_Subset
  <2> HIDE DEF before
  <2>3. Cardinality(before(k)) <= Cardinality(before(j))
        /\ Cardinality(before(k)) \in Nat /\ Cardinality(before(j)) \in Nat
    BY <2>0, <2>2, FS_Subset, FS_CardinalityType
  <2> QED BY <1>3, <2>3
<1> QED BY <1>1, <1>4

\* The heartbeat takes the oldest, and its answer puts them behind what came
\* in earlier answers.
LEMMA FifoBeat ==
    ASSUME FifoInv, OnceInv', Beat
    PROVE  FifoInv'
<1>1. CASE GetPendingJobs
  <2>1. /\ UNCHANGED <<row, prio, queue, started, answers>>
        /\ picked' = First(PendingForAgent, Dispatch)
    BY <1>1 DEF GetPendingJobs, table, agent
  <2>2. StartShape' /\ FifoWithinPriority'
    BY <2>1 DEF FifoInv, StartShape, FifoWithinPriority
  <2>3. \A j \in Jobs : Dispatched(j)' <=> Dispatched(j)
    BY <2>1 DEF Dispatched
  <2>4. \A k \in Jobs : Waiting(k)' => row[k] = "pending"
    BY <2>1 DEF Waiting, First, PendingForAgent
  <2>5. ASSUME NEW j \in Jobs, NEW k \in Jobs, prio[j] = prio[k], j \in picked',
               row[k] = "pending", k \notin picked'
        PROVE  j < k
    <3>1. PendingForAgent \in SUBSET Jobs /\ k \in PendingForAgent /\ Dispatch \in Nat
      BY <2>5, JobsAssumption DEF PendingForAgent
    <3> QED BY <2>1, <2>5, <3>1, FirstInOrder DEF FifoInv
  <2>6. InOrder'
    BY <2>1, <2>3, <2>4, <2>5 DEF FifoInv, InOrder, Waiting
  <2> QED BY <2>2, <2>6 DEF FifoInv
<1>2. CASE CommitDispatch
  <2>1. UNCHANGED <<prio, queue, started, answers>> /\ (picked' = picked \/ picked' = {})
    BY <1>2 DEF CommitDispatch, agent
  <2>2. \A j \in Jobs : row'[j] = "pending" => row[j] = "pending"
    BY <1>2 DEF CommitDispatch, Assigned
  <2> QED BY <2>1, <2>2, FifoShrinks
<1>3. CASE EnqueueJobs
  <2>1. /\ UNCHANGED <<row, prio, started>> /\ picked' = {} /\ beat = "sent"
        /\ queue' = queue \cup (picked \X {answers'})
        /\ picked # {} => answers' = answers + 1
        /\ answers' >= answers /\ answers' \in Nat /\ answers \in Nat
    BY <1>3 DEF EnqueueJobs, table, FifoInv, OnceInv, Shape
  <2>2. \A q \in queue' : \/ q \in queue
                          \/ q[1] \in picked /\ q[2] = answers + 1 /\ q[2] = answers'
    BY <2>1
  <2>3. \A q \in queue : q[2] \in Nat /\ q[2] <= answers /\ q[1] \in Jobs
    BY DEF FifoInv, StartShape, OnceInv, Shape
  <2>4. StartShape' /\ FifoWithinPriority'
    BY <2>1, <2>2, <2>3 DEF FifoInv, StartShape, FifoWithinPriority
  <2>5. \A j \in Jobs : Dispatched(j)' => Dispatched(j) \/ j \in picked
    BY <2>1, <2>2 DEF Dispatched
  <2>6. \A k \in Jobs : Waiting(k)' => row[k] = "pending" /\ k \notin picked
    BY <2>1 DEF Waiting, FifoInv, OnceInv, OneWay
  <2>7. \A j, k \in Jobs : prio'[j] = prio'[k] /\ Dispatched(j)' /\ Waiting(k)' => j < k
    BY <2>1, <2>5, <2>6 DEF FifoInv, InOrder, Waiting
  <2>8. \A j \in picked : j \in Jobs /\ Waiting(j)
    BY DEF FifoInv, OnceInv, Shape, Waiting
  <2>9. ASSUME NEW q \in queue', NEW r \in queue', prio[q[1]] = prio[r[1]], q[2] < r[2]
        PROVE  q[1] < r[1]
    <3>1. CASE q \in queue /\ r \in queue
      BY <2>9, <3>1 DEF FifoInv, InOrder
    <3>2. CASE q \in queue /\ r \notin queue
      <4>1. r[1] \in Jobs /\ Waiting(r[1])
        BY <2>2, <2>8, <3>2
      <4>2. q[1] \in Jobs /\ Dispatched(q[1])
        BY <2>3, <3>2 DEF Dispatched
      <4> QED BY <2>9, <4>1, <4>2 DEF FifoInv, InOrder
    <3>3. CASE q \notin queue
      <4>1. q[2] = answers + 1
        BY <2>2, <3>3
      <4>2. r[2] <= answers + 1 /\ r[2] \in Nat
        BY <2>1, <2>2, <2>3
      <4> QED BY <2>1, <2>9, <4>1, <4>2
    <3> QED BY <3>1, <3>2, <3>3
  <2>10. ASSUME NEW a \in started, NEW q \in queue', prio[a[1]] = prio[q[1]] PROVE a[1] < q[1]
    <3>1. CASE q \in queue
      BY <2>10, <3>1 DEF FifoInv, InOrder
    <3>2. CASE q \notin queue
      <4>1. q[1] \in Jobs /\ Waiting(q[1])
        BY <2>2, <2>8, <3>2
      <4>2. a[1] \in Jobs /\ Dispatched(a[1])
        BY DEF Dispatched, FifoInv, StartShape
      <4> QED BY <2>10, <4>1, <4>2 DEF FifoInv, InOrder
    <3> QED BY <3>1, <3>2
  <2>11. InOrder'
    BY <2>1, <2>7, <2>9, <2>10 DEF InOrder
  <2> QED BY <2>4, <2>11 DEF FifoInv
<1> QED BY <1>1, <1>2, <1>3 DEF Beat

\* The worker takes the head of the queue, which is the oldest of its priority.
LEMMA FifoTaken ==
    ASSUME FifoInv, OnceInv', NEW q \in queue, HeadOf(q), queue' = queue \ {q},
           started' = started \cup {<<q[1], Cardinality(started) + 1>>},
           UNCHANGED <<table, heartbeat, answers>>
    PROVE  FifoInv'
<1> DEFINE n == Cardinality(started)
           new == <<q[1], n + 1>>
<1>1. IsFiniteSet(started) /\ n \in Nat /\ q[1] \in Jobs /\ Jobs \subseteq Nat
  BY FS_CardinalityType DEF FifoInv, StartShape, OnceInv, Shape, Jobs
<1>2. \A a \in started : a[2] \in Nat /\ a[2] <= n /\ a[1] \in Jobs
  BY DEF FifoInv, StartShape
<1>3. new \notin started /\ started' = started \cup {new} /\ new[1] = q[1] /\ new[2] = n + 1
  BY <1>1, <1>2
<1>4. UNCHANGED <<row, prio, picked>>
  BY DEF table, heartbeat
<1> HIDE DEF n, new
<1>5. IsFiniteSet(started') /\ Cardinality(started') = n + 1
  <2>1. IsFiniteSet(started \cup {new}) /\ Cardinality(started \cup {new}) =
           (IF new \in started THEN Cardinality(started) ELSE Cardinality(started) + 1)
    BY <1>1, FS_AddElement
  <2> QED BY <1>3, <2>1 DEF n
<1>6. StartShape'
  <2>1. \A a \in started' : a[1] \in Jobs /\ a[2] \in Nat /\ a[2] <= n + 1
    BY <1>1, <1>2, <1>3
  <2> QED BY <1>4, <1>5, <2>1 DEF FifoInv, StartShape
<1>7. \A j \in Jobs : Dispatched(j)' => Dispatched(j)
  BY <1>3 DEF Dispatched
<1>8. ASSUME NEW r \in queue', prio[q[1]] = prio[r[1]] PROVE q[1] < r[1]
  <2>1. r \in queue /\ r # q /\ r[1] \in Jobs /\ prio[q[1]] \in Nat
    BY <1>1 DEF FifoInv, OnceInv, Shape, StartShape
  <2>2. r[1] # q[1]
    BY <2>1 DEF FifoInv, OnceInv, QueuedOnce
  <2>3. q[2] < r[2] \/ (q[2] = r[2] /\ q[1] <= r[1])
    BY <1>8, <2>1 DEF HeadOf
  <2>4. CASE q[2] < r[2]
    BY <1>8, <2>1, <2>4 DEF FifoInv, InOrder
  <2>5. CASE q[1] <= r[1]
    <3>1. q[1] \in Nat /\ r[1] \in Nat
      BY <1>1, <2>1
    <3> QED BY <2>2, <2>5, <3>1
  <2> QED BY <2>3, <2>4, <2>5
<1>9. InOrder'
  <2>1. \A a \in started' : \A r \in queue' : prio[a[1]] = prio[r[1]] => a[1] < r[1]
    BY <1>3, <1>8 DEF FifoInv, InOrder
  <2> QED BY <1>4, <1>7, <2>1 DEF FifoInv, InOrder, Waiting
<1>10. FifoWithinPriority'
  <2> SUFFICES ASSUME NEW a \in started', NEW b \in started', prio[a[1]] = prio[b[1]], a[2] < b[2]
               PROVE  a[1] < b[1]
    BY <1>4 DEF FifoWithinPriority
  <2>1. CASE a \in started /\ b \in started
    BY <2>1 DEF FifoInv, FifoWithinPriority
  <2>2. CASE a \in started /\ b = new
    BY <1>3, <2>2 DEF FifoInv, InOrder
  <2>3. CASE a = new
    BY <1>1, <1>2, <1>3, <2>3
  <2> QED BY <1>3, <2>1, <2>2, <2>3
<1> QED BY <1>6, <1>9, <1>10 DEF FifoInv

\* Every step keeps the jobs in order.
LEMMA FifoNext ==
    ASSUME FifoInv, [Next]_vars
    PROVE  FifoInv'
<1>1. OnceInv' /\ OnceInv /\ Shape
  BY OnceNext DEF FifoInv, OnceInv
<1>2. CASE Server
  <2>1. ASSUME NEW j \in Jobs, CancelJob(j) PROVE FifoInv'
    <3>1. UNCHANGED <<prio, picked, queue, started, answers>> /\ MoveOpenJob(j, "cancelled")
      BY <2>1 DEF CancelJob, heartbeat, agent
    <3> QED BY <1>1, <3>1, Moved, FifoShrinks
  <2>2. ASSUME NEW j \in Jobs, DeleteJob(j) \/ Expire(j) PROVE FifoInv'
    <3>1. UNCHANGED <<prio, picked, queue, started, answers>>
          /\ (row' = row \/ row' = [row EXCEPT ![j] = "absent"])
      BY <2>2 DEF DeleteJob, Expire, heartbeat, agent
    <3>2. \A k \in Jobs : row'[k] = "pending" => row[k] = "pending"
      BY <1>1, <3>1 DEF Shape
    <3> QED BY <1>1, <3>1, <3>2, FifoShrinks
  <2>3. CASE PurgeExpiredJobs
    <3>1. UNCHANGED <<prio, picked, queue, started, answers>>
          /\ \A k \in Jobs : row'[k] = "pending" => row[k] = "pending"
      BY <2>3 DEF PurgeExpiredJobs, heartbeat, agent
    <3> QED BY <1>1, <3>1, FifoShrinks
  <2> QED BY <1>1, <1>2, <2>1, <2>2, <2>3, FifoCreate DEF Server
<1>3. CASE Beat
  BY <1>1, <1>3, FifoBeat
<1>4. CASE Work
  <2>1. ASSUME NEW q \in queue, ExecuteJob(q) \/ RefuseJob(q) PROVE FifoInv'
    BY <1>1, <2>1, FifoTaken DEF ExecuteJob, RefuseJob
  <2>2. ASSUME NEW j \in Jobs, NEW s \in {"completed", "failed"}, SubmitResult(j, s) PROVE FifoInv'
    BY <1>1, <2>2, FifoShrinks DEF SubmitResult, table, heartbeat
  <2> QED BY <1>4, <2>1, <2>2 DEF Work
<1>5. CASE Fault
  BY <1>1, <1>5, FifoShrinks DEF Fault, LoseAnswer, StopAgent, LoseRequest, table, heartbeat, agent
<1>6. ASSUME NEW m \in net, ProcessRequest(m) PROVE FifoInv'
  <2>1. m.job \in Jobs /\ m.kind # "pending"
    BY <1>1 DEF Shape
  <2>2. MoveOpenJob(m.job, m.kind) /\ UNCHANGED <<prio, picked, queue, started, answers>>
    BY <1>6 DEF ProcessRequest, heartbeat, agent
  <2> QED BY <1>1, <2>1, <2>2, Moved, FifoShrinks
<1>7. CASE UNCHANGED vars
  BY <1>1, <1>7, FifoShrinks DEF vars
<1> QED BY <1>2, <1>3, <1>4, <1>5, <1>6, <1>7 DEF Next

\* Of two jobs of one priority the older is executed first, for every number of
\* jobs and every dispatch limit, across heartbeats, losses and restarts.
THEOREM JobsRunInOrder == Spec => []FifoWithinPriority
<1>1. Init => FifoInv
  BY FS_EmptySet DEF Init, FifoInv, OnceInv, Shape, OnlyMade, OneWay, QueuedOnce, AtMostOnce, Dispatched,
     StartShape, InOrder, Waiting, FifoWithinPriority
<1>2. FifoInv /\ [Next]_vars => FifoInv'
  BY FifoNext
<1>3. FifoInv => FifoWithinPriority
  BY DEF FifoInv
<1> QED BY <1>1, <1>2, <1>3, PTL DEF Spec
=============================================================================
