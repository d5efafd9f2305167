------------------------------ MODULE Reporter ------------------------------
(***************************************************************************)
(* The agent's store-and-forward reporter                                  *)
(* (apps/agent/app/agent/reporter.py, dead_letter.py).                     *)
(*                                                                         *)
(* Check results collect in an in-memory batch.  A flush takes the whole   *)
(* batch and POSTs it; what the server does not take is stored in a SQLite *)
(* table of pending batches, or dead-lettered, and a replay task drains    *)
(* the table later.  Several asyncio tasks do this at once:                *)
(*                                                                         *)
(*   "batch_processor"   the periodic flush of the reporter,               *)
(*   "result_processor"  the forced flush after a result with artifacts,   *)
(*   "stop"              the flush of Reporter.stop(),                     *)
(*   "replay"            process_stored_reports.                           *)
(*                                                                         *)
(* A task gives up control only at an await, so an action is the code      *)
(* between two awaits; every SQLite call runs in a thread of its own and   *)
(* is one action per commit.  Results are numbered in the order they are   *)
(* added; made[r] is the kind of result r, which decides what the server   *)
(* answers to a payload that holds it.                                     *)
(***************************************************************************)
EXTENDS Naturals, Sequences, FiniteSets, Functions

CONSTANTS
    MaxResults,    \* bound: results added in a behaviour
    MaxQueue,      \* report_max_queue_size
    BatchSize,     \* report_batch_size: results combined in one replay POST
    MaxRetries,    \* report_max_retries
    MaxStored,     \* report_max_stored_batches
    MaxDead,       \* report_max_dead_letters
    MaxFiles,      \* report_max_files_per_batch
    SizeLimit,     \* results the route lets through in one request
    Kinds,         \* the kinds of results that are added
    Flushers,      \* the tasks that flush besides stop()
    MaxFaults,     \* bound: answers the network or the route gets wrong
    MaxDiskFaults, \* bound: SQLite calls that raise, rows found corrupt
    MaxStops,      \* bound: graceful stops
    MaxCrashes,    \* bound: process crashes
    StopMayTimeOut \* whether stop()'s five seconds may run out

ASSUME ReporterConstants ==
    /\ MaxResults \in Nat /\ MaxQueue \in Nat \ {0, 1} /\ BatchSize \in Nat \ {0}
    /\ MaxRetries \in Nat \ {0} /\ MaxStored \in Nat \ {0} /\ MaxDead \in Nat \ {0}
    /\ MaxFiles \in Nat \ {0} /\ SizeLimit \in Nat \ {0}
    /\ MaxFaults \in Nat /\ MaxDiskFaults \in Nat /\ MaxStops \in Nat
    /\ MaxCrashes \in Nat /\ StopMayTimeOut \in BOOLEAN
    /\ Kinds \subseteq {"good", "bad", "big"}
    /\ Flushers \subseteq {"batch_processor", "result_processor"}

VARIABLES
    phase,      \* "down", "up" (self.running) or "stopping" (stop() at work)
    made,       \* the kinds of the results added so far, in order
    batch,      \* self.current_batch
    pending,    \* table pending_batches: a set of rows, created in id order
    nextId,     \* its AUTOINCREMENT counter
    dead,       \* table dead_letters: batches, oldest first
    held,       \* self._size_held: rows the read of the replay skips
    pc,         \* pc[t]: the await task t is suspended at
    group,      \* group[t]: the stored batches of one POST (id 0: not stored)
    split,      \* split[t]: the locals of _send_in_parts
    att,        \* att[t]: failed attempts of the _post_batch at work
    excess,     \* excess[t]: the surplus the disk cap counted
    todo,       \* rows read in this replay pass and not grouped yet
    solo,       \* rows of a refused group still to be replayed alone
    received,   \* results the server has taken (external, idempotent)
    lost,       \* lost[why]: results given up, by the step that gave them up
    faults, diskFaults, stops, crashes   \* the bounds used so far

memory  == <<batch, held, pc, group, split, att, excess, todo, solo>>
tables  == <<pending, nextId, dead>>
bounds  == <<faults, diskFaults, stops, crashes>>
vars    == <<phase, made, memory, tables, received, lost, bounds>>

Replay  == "replay"
Stopper == "stop"
Storers == Flushers \cup {Stopper}
Tasks   == Storers \cup {Replay}

Results  == 1..MaxResults
Outcomes == {"sent", "permanent", "too_large", "transient"}
Losses   == {"queue", "disk_cap", "dead_cap", "disk", "cancel", "crash"}
Row      == [id : Nat, checks : Seq(Results)]

NoSplit == [work |-> <<>>, part |-> <<>>, untried |-> <<>>, refused |-> <<>>,
            sent |-> FALSE, stop |-> "none"]

-----------------------------------------------------------------------------
(* Batches, rows and what a payload holds. *)

Contents(rows) == UNION {Range(r.checks) : r \in rows}
Letters(d)     == UNION {Range(d[i]) : i \in DOMAIN d}
Lost           == UNION {lost[why] : why \in Losses}

\* ORDER BY created_at ASC LIMIT k
Oldest(rows, k) == {r \in rows : Cardinality({q \in rows : q.id < r.id}) < k}
KeepFirst(s, n) == SubSeq(s, 1, n)  \* mutant: the oldest are kept
Newest(s, n)    == IF Len(s) <= n THEN s ELSE SubSeq(s, Len(s) - n + 1, Len(s))
Only(rows)      == CHOOSE r \in rows : TRUE
AloneAlways(rows) == TRUE           \* mutant: a refused group is not taken apart
Alone(rows)     == Cardinality(rows) = 1

\* mutant: the middle result is in neither half
HalvesGap(s) == <<SubSeq(s, 1, Len(s) \div 2), SubSeq(s, (Len(s) \div 2) + 2, Len(s))>>
Halves(s) == <<SubSeq(s, 1, Len(s) \div 2), SubSeq(s, (Len(s) \div 2) + 1, Len(s))>>

\* What the route and the server answer to a payload: a proxy refuses it by
\* size before the server reads it, and the server refuses it for any bad result.
Verdict(S) ==
    IF (\E r \in S : made[r] = "big") \/ Cardinality(S) > SizeLimit THEN "too_large"
    ELSE IF \E r \in S : made[r] = "bad" THEN "permanent" ELSE "sent"

InPart(t)  == pc[t] \in {"post_part", "sleep_part", "dead_part"}
Payload(t) == IF InPart(t) THEN Range(split[t].part) ELSE Contents(group[t])

UntriedOnly(t)  == split[t].untried                       \* mutant
RefusedFirst(t) == split[t].refused \o split[t].untried   \* mutant

\* What is left of the batch a task is sending in parts.
Unsent(t) == split[t].untried \o split[t].refused

Drop(why, S) == lost' = [lost EXCEPT ![why] = @ \cup S]

-----------------------------------------------------------------------------
Init ==
    /\ phase = "down" /\ made = <<>> /\ batch = <<>>
    /\ pending = {} /\ nextId = 1 /\ dead = <<>> /\ held = {}
    /\ pc = [t \in Tasks |-> "idle"] /\ group = [t \in Tasks |-> {}]
    /\ split = [t \in Tasks |-> NoSplit]
    /\ att = [t \in Tasks |-> 0] /\ excess = [t \in Tasks |-> 0]
    /\ todo = {} /\ solo = {} /\ received = {}
    /\ lost = [why \in Losses |-> {}]
    /\ faults = 0 /\ diskFaults = 0 /\ stops = 0 /\ crashes = 0

\* Reporter.start(): the client, the tables and the two background tasks.
Start ==
    /\ phase = "down"
    /\ phase' = "up"
    /\ UNCHANGED <<made, memory, tables, received, lost, bounds>>

\* add_result: at capacity the oldest results make room for the new one.
AddResult(kind) ==
    /\ phase = "up" /\ Len(made) < MaxResults
    /\ made' = Append(made, kind)
    /\ LET kept == IF Len(batch) >= MaxQueue THEN Newest(batch, MaxQueue - 1) ELSE batch
       IN  /\ batch' = Append(kept, Len(made) + 1)
           /\ Drop("queue", Range(batch) \ Range(kept))
    /\ UNCHANGED <<phase, held, pc, group, split, att, excess, todo, solo,
                   tables, received, bounds>>

\* mutant: the batch is copied but not cleared
FlushKeepsBatch(t) ==
    /\ phase = "up" /\ pc[t] = "idle" /\ batch # <<>>
    /\ group' = [group EXCEPT ![t] = {[id |-> 0, checks |-> batch]}]
    /\ pc' = [pc EXCEPT ![t] = "post"]
    /\ UNCHANGED <<phase, made, batch, held, split, att, excess, todo, solo,
                   tables, received, lost, bounds>>

\* flush: the batch is copied and cleared under the lock, then delivered.
Flush(t) ==
    /\ phase = "up" /\ pc[t] = "idle" /\ batch # <<>>
    /\ batch' = <<>>
    /\ group' = [group EXCEPT ![t] = {[id |-> 0, checks |-> batch]}]
    /\ pc' = [pc EXCEPT ![t] = "post"]
    /\ UNCHANGED <<phase, made, held, split, att, excess, todo, solo, tables,
                   received, lost, bounds>>

-----------------------------------------------------------------------------
(* _post_batch: one attempt is one request; the server may have taken a    *)
(* payload whose answer never arrives.                                     *)

\* The request of task t ends with outcome out.
Answer(t, out) ==
    /\ pc[t] \in {"post", "post_part"}
    /\ \/ /\ out = Verdict(Payload(t))
          /\ received' = IF out = "sent" THEN received \cup Payload(t) ELSE received
          /\ UNCHANGED faults
       \/ /\ faults < MaxFaults /\ faults' = faults + 1
          /\ \/ out \in {"transient", "too_large"} /\ UNCHANGED received
             \/ /\ out = "transient" /\ Verdict(Payload(t)) = "sent"
                /\ received' = received \cup Payload(t)
       \/ /\ out = "transient" /\ phase = "stopping" \* the client is closed
          /\ UNCHANGED <<received, faults>>

\* A transient failure sleeps for retry_delay and counts the attempt.
PostFails(t) ==
    /\ phase = "up" /\ Answer(t, "transient")
    /\ pc' = [pc EXCEPT ![t] = IF @ = "post" THEN "sleep" ELSE "sleep_part"]
    /\ att' = [att EXCEPT ![t] = @ + 1]
    /\ UNCHANGED <<phase, made, batch, held, group, split, excess, todo, solo,
                   tables, lost, diskFaults, stops, crashes>>

PostAgain(t) ==
    /\ phase = "up" /\ pc[t] \in {"sleep", "sleep_part"} /\ att[t] < MaxRetries
    /\ pc' = [pc EXCEPT ![t] = IF @ = "sleep" THEN "post" ELSE "post_part"]
    /\ UNCHANGED <<phase, made, batch, held, group, split, att, excess, todo,
                   solo, tables, received, lost, bounds>>

\* _post_batch returns out: at once, or transient when the attempts are used
\* up or stop() has run.
PostReturns(t, out) ==
    /\ att' = [att EXCEPT ![t] = 0]
    /\ UNCHANGED <<phase, made, batch, tables, lost, diskFaults, stops, crashes>>
    /\ \/ /\ out # "transient" \/ phase # "up"
          /\ Answer(t, out)
       \/ /\ out = "transient" /\ pc[t] \in {"sleep", "sleep_part"}
          /\ att[t] = MaxRetries \/ phase # "up"
          /\ UNCHANGED <<received, faults>>

\* The head of _send_in_parts: the refused batch is cut in two.
StartParts(t, checks) ==
    /\ split' = [split EXCEPT ![t] = [NoSplit EXCEPT !.work = Halves(checks)]]
    /\ pc' = [pc EXCEPT ![t] = "parts"]

-----------------------------------------------------------------------------
(* _deliver: what a flush does with the outcome of its first POST. *)

Deliver(t) ==
    \E out \in Outcomes :
        /\ t \in Storers /\ ~InPart(t) /\ PostReturns(t, out)
        /\ LET checks == Only(group[t]).checks
           IN  \/ /\ out = "sent"
                  /\ pc' = [pc EXCEPT ![t] = "idle"]
                  /\ group' = [group EXCEPT ![t] = {}]
                  /\ UNCHANGED split
               \/ /\ out = "permanent"
                  /\ pc' = [pc EXCEPT ![t] = "dead"]
                  /\ UNCHANGED <<group, split>>
               \/ /\ out = "transient" \/ (out = "too_large" /\ Len(checks) = 1)
                  /\ pc' = [pc EXCEPT ![t] = "store"]
                  /\ UNCHANGED <<group, split>>
               \/ /\ out = "too_large" /\ Len(checks) # 1
                  /\ StartParts(t, checks)
                  /\ UNCHANGED group
        /\ UNCHANGED <<held, excess, todo, solo>>

(* _send_in_parts: halves are POSTed in order; the loop runs for a flush   *)
(* and for the replay of a single stored batch alike.                      *)

NextPart(t) ==
    /\ pc[t] = "parts" /\ split[t].work # <<>>
    /\ LET first == Head(split[t].work)
           rest  == [split[t] EXCEPT !.work = Tail(@)]
       IN  \/ /\ split[t].stop = "none" /\ phase = "up"
              /\ split' = [split EXCEPT ![t] = [rest EXCEPT !.part = first]]
              /\ pc' = [pc EXCEPT ![t] = "post_part"]
           \/ /\ split[t].stop # "none"
              /\ split' = [split EXCEPT ![t] = [rest EXCEPT !.untried = @ \o first]]
              /\ UNCHANGED pc
           \/ /\ split[t].stop = "none" /\ phase # "up"
              /\ split' = [split EXCEPT ![t] =
                              [rest EXCEPT !.untried = @ \o first, !.stop = "transient"]]
              /\ UNCHANGED pc
    /\ UNCHANGED <<phase, made, batch, held, group, att, excess, todo, solo,
                   tables, received, lost, bounds>>

\* A part is done with: the loop goes on with split s.
PartDone(t, s) ==
    /\ split' = [split EXCEPT ![t] = [s EXCEPT !.part = <<>>]]
    /\ pc' = [pc EXCEPT ![t] = "parts"]

PartAnswered(t) ==
    \E out \in Outcomes :
        /\ InPart(t) /\ PostReturns(t, out)
        /\ LET s == split[t]
               refused == s.refused \o s.part
           IN  \/ /\ out = "sent"
                  /\ PartDone(t, [s EXCEPT !.sent = TRUE])
               \/ /\ out = "permanent"
                  /\ pc' = [pc EXCEPT ![t] = "dead_part"]
                  /\ UNCHANGED split
               \/ /\ out = "too_large" /\ Len(s.part) > 1
                  /\ PartDone(t, [s EXCEPT !.work = Halves(s.part) \o @])
               \/ /\ out = "too_large" /\ Len(s.part) <= 1
                  /\ PartDone(t, [s EXCEPT !.refused = refused,
                                           !.stop = IF Len(refused) >= 2 /\ ~s.sent
                                                    THEN "too_large" ELSE @])
               \/ /\ out = "transient"
                  /\ PartDone(t, [s EXCEPT !.untried = @ \o s.part, !.stop = "transient"])
        /\ UNCHANGED <<held, group, excess, todo, solo>>

\* A flush has dealt with every part: the rest is stored as one batch.
DeliverParts(t) ==
    /\ t \in Storers /\ pc[t] = "parts" /\ split[t].work = <<>>
    /\ IF Unsent(t) = <<>>
       THEN /\ pc' = [pc EXCEPT ![t] = "idle"]
            /\ group' = [group EXCEPT ![t] = {}]
       ELSE /\ pc' = [pc EXCEPT ![t] = "store"]
            /\ group' = [group EXCEPT ![t] = {[id |-> 0, checks |-> Unsent(t)]}]
    /\ split' = [split EXCEPT ![t] = NoSplit]
    /\ UNCHANGED <<phase, made, batch, held, att, excess, todo, solo, tables,
                   received, lost, bounds>>

-----------------------------------------------------------------------------
(* The SQLite calls of a flush. *)

\* insert_dead_letter and prune_dead_letters, in one transaction.
InsertDead(checks) ==
    /\ dead' = Newest(Append(dead, checks), MaxDead)
    /\ Drop("dead_cap", (Letters(dead) \cup Range(checks)) \ Letters(dead'))

\* _dead_letter_batch of a whole fresh batch, or of a part.
DeadLetterBatch(t) ==
    /\ \/ /\ pc[t] = "dead"
          /\ InsertDead(Only(group[t]).checks)
          /\ pc' = [pc EXCEPT ![t] = "idle"]
          /\ group' = [group EXCEPT ![t] = {}]
          /\ UNCHANGED split
       \/ /\ pc[t] = "dead_part"
          /\ InsertDead(split[t].part)
          /\ PartDone(t, split[t])
          /\ UNCHANGED group
    /\ UNCHANGED <<phase, made, batch, held, att, excess, todo, solo, pending,
                   nextId, received, bounds>>

\* mutant: without AUTOINCREMENT the id of the last row can come again
ReusedId == 1 + Cardinality({i \in 1..nextId : \E r \in pending : i <= r.id})
NewId    == nextId

\* The rows the table holds over its cap.
SurplusOff   == IF Cardinality(pending) > MaxStored + 1 \* mutant: off by one
                THEN Cardinality(pending) - MaxStored ELSE 0
SurplusUnder == Cardinality(pending) - MaxStored        \* mutant: no guard
Surplus      == IF Cardinality(pending) > MaxStored
                THEN Cardinality(pending) - MaxStored ELSE 0

\* _store_batch_to_db: the insert is committed first ...
StoreInsert(t) ==
    /\ pc[t] = "store"
    /\ pending' = pending \cup {[id |-> NewId, checks |-> Only(group[t]).checks]}
    /\ nextId' = nextId + 1
    /\ pc' = [pc EXCEPT ![t] = "count"]
    /\ group' = [group EXCEPT ![t] = {}]
    /\ UNCHANGED <<phase, made, batch, held, split, att, excess, todo, solo,
                   dead, received, lost, bounds>>

\* ... then the rows are counted ...
StoreCount(t) ==
    /\ pc[t] = "count"
    /\ IF Surplus # 0
       THEN /\ pc' = [pc EXCEPT ![t] = "prune"]
            /\ excess' = [excess EXCEPT ![t] = Surplus]
       ELSE /\ pc' = [pc EXCEPT ![t] = "idle"]
            /\ UNCHANGED excess
    /\ UNCHANGED <<phase, made, batch, held, group, split, att, todo, solo,
                   tables, received, lost, bounds>>

\* ... and that many of the oldest are deleted in a transaction of its own.
StorePrune(t) ==
    /\ pc[t] = "prune"
    /\ pending' = pending \ Oldest(pending, excess[t])
    /\ Drop("disk_cap", Contents(Oldest(pending, excess[t])))
    /\ pc' = [pc EXCEPT ![t] = "idle"]
    /\ excess' = [excess EXCEPT ![t] = 0]
    /\ UNCHANGED <<phase, made, batch, held, group, split, att, todo, solo,
                   nextId, dead, received, bounds>>

-----------------------------------------------------------------------------
(* The replay of stored batches. *)

\* _read_pending: the oldest rows no size refusal holds.
FreeRowsAll == Oldest(pending, MaxFiles)  \* mutant: held rows are read as well
FreeRows    == Oldest({r \in pending : r.id \notin held}, MaxFiles)

\* _process_stored_reports_sync: free rows, or any once only held ones are
\* left; a corrupt row is deleted.
ReplayRead ==
    /\ phase = "up" /\ pc[Replay] = "idle" /\ (pending # {} \/ held # {})
    /\ LET free == FreeRows
           rows == IF free = {} THEN Oldest(pending, MaxFiles) ELSE free
       IN  \E corrupt \in SUBSET rows :
             /\ diskFaults + Cardinality(corrupt) <= MaxDiskFaults
             /\ diskFaults' = diskFaults + Cardinality(corrupt)
             /\ held' = IF free = {} THEN {} ELSE held
             /\ pending' = pending \ corrupt
             /\ Drop("disk", Contents(corrupt))
             /\ todo' = rows \ corrupt
    /\ pc' = [pc EXCEPT ![Replay] = "next"]
    /\ UNCHANGED <<phase, made, batch, group, split, att, excess, solo, nextId,
                   dead, received, faults, stops, crashes>>

\* The rows one combined POST takes: as many of the oldest as batch_size
\* allows, and at least one.
NextGroup(rows) ==
    LET fits == {k \in 1..Cardinality(rows) :
                    k = 1 \/ Cardinality(Contents(Oldest(rows, k))) <= BatchSize}
    IN  Oldest(rows, CHOOSE k \in fits : \A j \in fits : j <= k)

\* The pass is over: whatever it had not sent stays pending.
EndPass ==
    /\ pc' = [pc EXCEPT ![Replay] = "idle"]
    /\ group' = [group EXCEPT ![Replay] = {}]
    /\ split' = [split EXCEPT ![Replay] = NoSplit]
    /\ todo' = {} /\ solo' = {}

\* The loop of _replay_pending, and the one of _replay_group over the rows of
\* a refused group.
ReplayNext ==
    /\ pc[Replay] = "next"
    /\ \/ /\ phase # "up" \/ (solo = {} /\ todo = {})
          /\ EndPass
       \/ /\ phase = "up" /\ (solo # {} \/ todo # {})
          /\ LET rows == IF solo # {} THEN Oldest(solo, 1) ELSE NextGroup(todo)
             IN  /\ group' = [group EXCEPT ![Replay] = rows]
                 /\ solo' = solo \ rows
                 /\ todo' = todo \ rows
          /\ pc' = [pc EXCEPT ![Replay] = "post"]
          /\ UNCHANGED split
    /\ UNCHANGED <<phase, made, batch, held, att, excess, tables, received, lost,
                   bounds>>

\* _replay_group: what the replay does with the outcome of a group's POST.
ReplayGroup ==
    \E out \in Outcomes :
        /\ ~InPart(Replay) /\ PostReturns(Replay, out)
        /\ LET rows   == group[Replay]
               single == Alone(rows)
               stored == Only(rows)
           IN  \/ /\ out = "sent"
                  /\ pc' = [pc EXCEPT ![Replay] = "delete"]
                  /\ UNCHANGED <<held, group, split, todo, solo>>
               \/ /\ out = "too_large" /\ single /\ Len(stored.checks) # 1
                  /\ StartParts(Replay, stored.checks)
                  /\ UNCHANGED <<held, group, todo, solo>>
               \/ /\ out = "too_large" /\ single /\ Len(stored.checks) = 1
                  /\ held' = held \cup {stored.id}
                  /\ pc' = [pc EXCEPT ![Replay] = "next"]
                  /\ group' = [group EXCEPT ![Replay] = {}]
                  /\ UNCHANGED <<split, todo, solo>>
               \/ /\ out = "transient"
                  /\ EndPass
                  /\ UNCHANGED held
               \/ /\ out \in {"permanent", "too_large"} /\ ~single
                  /\ solo' = rows
                  /\ pc' = [pc EXCEPT ![Replay] = "next"]
                  /\ group' = [group EXCEPT ![Replay] = {}]
                  /\ UNCHANGED <<held, split, todo>>
               \/ /\ out = "permanent" /\ single
                  /\ pc' = [pc EXCEPT ![Replay] = "move"]
                  /\ UNCHANGED <<held, group, split, todo, solo>>
        /\ UNCHANGED excess

\* The end of _send_in_parts for a stored batch: nothing left deletes the row,
\* a changed rest rewrites it, an unchanged one leaves it.
ReplayParts ==
    /\ pc[Replay] = "parts" /\ split[Replay].work = <<>>
    /\ LET stored == Only(group[Replay])
       IN  \/ /\ Unsent(Replay) = <<>>
              /\ pc' = [pc EXCEPT ![Replay] = "delete"]
              /\ split' = [split EXCEPT ![Replay] = NoSplit]
              /\ UNCHANGED <<held, group, todo, solo>>
           \/ /\ Unsent(Replay) # <<>> /\ Unsent(Replay) # stored.checks
              /\ pc' = [pc EXCEPT ![Replay] = "rewrite"]
              /\ UNCHANGED <<held, group, split, todo, solo>>
           \/ /\ Unsent(Replay) = stored.checks /\ split[Replay].stop # "transient"
              /\ held' = held \cup {stored.id}
              /\ pc' = [pc EXCEPT ![Replay] = "next"]
              /\ group' = [group EXCEPT ![Replay] = {}]
              /\ split' = [split EXCEPT ![Replay] = NoSplit]
              /\ UNCHANGED <<todo, solo>>
           \/ /\ Unsent(Replay) = stored.checks /\ split[Replay].stop = "transient"
              /\ EndPass
              /\ UNCHANGED held
    /\ UNCHANGED <<phase, made, batch, att, excess, tables, received, lost, bounds>>

\* _rewrite_stored_batch_sync, an UPDATE in place (of no row if the disk cap
\* pruned it); after a size refusal the row is held and the pass goes on.
ReplayRewrite ==
    /\ pc[Replay] = "rewrite"
    /\ LET id == Only(group[Replay]).id
       IN  /\ pending' = {IF r.id = id THEN [r EXCEPT !.checks = Unsent(Replay)] ELSE r
                            : r \in pending}
           /\ IF split[Replay].stop = "transient"
              THEN EndPass /\ UNCHANGED held
              ELSE /\ held' = held \cup {id}
                   /\ pc' = [pc EXCEPT ![Replay] = "next"]
                   /\ group' = [group EXCEPT ![Replay] = {}]
                   /\ split' = [split EXCEPT ![Replay] = NoSplit]
                   /\ UNCHANGED <<todo, solo>>
    /\ UNCHANGED <<phase, made, batch, att, excess, nextId, dead, received, lost, bounds>>

\* _delete_stored_batch_sync, once per row of the group.
ReplayDelete ==
    /\ pc[Replay] = "delete"
    /\ LET gone == Oldest(group[Replay], 1)
       IN  /\ pending' = {r \in pending : \A g \in gone : r.id # g.id}
           /\ group' = [group EXCEPT ![Replay] = @ \ gone]
           /\ pc' = [pc EXCEPT ![Replay] = IF group[Replay] = gone THEN "next" ELSE @]
    /\ UNCHANGED <<phase, made, batch, held, split, att, excess, todo, solo,
                   nextId, dead, received, lost, bounds>>

\* _move_to_dead_letters_sync: nothing happens if the disk cap pruned the row.
ReplayMove ==
    /\ pc[Replay] = "move"
    /\ LET row == {r \in pending : r.id = Only(group[Replay]).id}
       IN  IF row = {} THEN UNCHANGED <<pending, dead, lost>>
           ELSE pending' = pending \ row /\ InsertDead(Only(row).checks)
    /\ pc' = [pc EXCEPT ![Replay] = "next"]
    /\ group' = [group EXCEPT ![Replay] = {}]
    /\ UNCHANGED <<phase, made, batch, held, split, att, excess, todo, solo,
                   nextId, received, bounds>>

-----------------------------------------------------------------------------
(* Failures, stop and crash. *)

\* What a flush holds in memory and nowhere else.
InHand(t) ==
    IF pc[t] \in {"parts", "post_part", "sleep_part", "dead_part"}
    THEN Letters(split[t].work) \cup Range(split[t].part) \cup Range(Unsent(t))
    ELSE Contents(group[t])

\* A SQLite call raises.  A flush swallows it and drops what it was storing
\* or dead-lettering; a replay ends its pass.
DiskFails(t) ==
    /\ diskFaults < MaxDiskFaults /\ diskFaults' = diskFaults + 1
    /\ \/ /\ pc[t] \in {"store", "dead"}
          /\ Drop("disk", Contents(group[t]))
          /\ pc' = [pc EXCEPT ![t] = "idle"]
          /\ group' = [group EXCEPT ![t] = {}]
          /\ UNCHANGED <<split, excess, todo, solo>>
       \/ /\ pc[t] \in {"count", "prune"}
          /\ pc' = [pc EXCEPT ![t] = "idle"]
          /\ excess' = [excess EXCEPT ![t] = 0]
          /\ UNCHANGED <<group, split, todo, solo, lost>>
       \/ /\ pc[t] = "dead_part"
          /\ Drop("disk", Range(split[t].part))
          /\ PartDone(t, split[t])
          /\ UNCHANGED <<group, excess, todo, solo>>
       \/ /\ t = Replay /\ pc[t] \in {"delete", "rewrite", "move"}
          /\ EndPass
          /\ UNCHANGED <<excess, lost>>
    /\ UNCHANGED <<phase, made, batch, held, att, tables, received, faults, stops, crashes>>

\* A task is cancelled where it is suspended: CancelledError passes every
\* `except Exception`, and what it held is gone.
Cancel(ts) ==
    /\ Drop("cancel", UNION {InHand(t) : t \in ts \ {Replay}})
    /\ pc' = [t \in Tasks |-> IF t \in ts THEN "idle" ELSE pc[t]]
    /\ split' = [t \in Tasks |-> IF t \in ts THEN NoSplit ELSE split[t]]
    /\ att' = [t \in Tasks |-> IF t \in ts THEN 0 ELSE att[t]]

\* shutdown() waits for the result processor, or cancels it; then stop()
\* clears running and takes what is in the batch.  No POST is made any more,
\* so its flush goes straight to the store.
Stop ==
    /\ phase = "up" /\ stops < MaxStops
    /\ LET cut == {t \in Flushers \cap {"result_processor"} : pc[t] # "idle"}
       IN  /\ cut # {} => StopMayTimeOut
           /\ \A t \in cut : pc[t] \in {"post", "sleep", "post_part", "sleep_part"}
           /\ Drop("cancel", UNION {InHand(t) : t \in cut})
           /\ pc' = [t \in Tasks |-> IF t \in cut THEN "idle"
                                     ELSE IF t = Stopper /\ batch # <<>> THEN "store"
                                     ELSE pc[t]]
           /\ group' = [t \in Tasks |-> IF t \in cut THEN {}
                                        ELSE IF t = Stopper /\ batch # <<>>
                                             THEN {[id |-> 0, checks |-> batch]}
                                        ELSE group[t]]
           /\ split' = [t \in Tasks |-> IF t \in cut THEN NoSplit ELSE split[t]]
           /\ att' = [t \in Tasks |-> IF t \in cut THEN 0 ELSE att[t]]
    /\ phase' = "stopping" /\ batch' = <<>> /\ stops' = stops + 1
    /\ UNCHANGED <<made, held, excess, todo, solo, tables, received, faults,
                   diskFaults, crashes>>

\* The end of stop(): every task has finished, or after five seconds the ones
\* still waiting on the network are cancelled.  The process exits.
StopEnds ==
    /\ phase = "stopping" /\ pc[Stopper] = "idle"
    /\ LET busy == {t \in Tasks : pc[t] # "idle"}
       IN  /\ busy # {} => StopMayTimeOut
           /\ \A t \in busy : pc[t] \in {"post", "sleep", "post_part", "sleep_part"}
           /\ Cancel(busy)
    /\ phase' = "down" /\ held' = {} /\ todo' = {} /\ solo' = {}
    /\ group' = [t \in Tasks |-> {}]
    /\ UNCHANGED <<made, batch, excess, tables, received, bounds>>

\* The process dies: only the tables are left.
Crash ==
    /\ phase # "down" /\ crashes < MaxCrashes /\ crashes' = crashes + 1
    /\ Drop("crash", Range(batch) \cup UNION {InHand(t) : t \in Storers})
    /\ phase' = "down" /\ batch' = <<>> /\ held' = {} /\ todo' = {} /\ solo' = {}
    /\ pc' = [t \in Tasks |-> "idle"] /\ group' = [t \in Tasks |-> {}]
    /\ split' = [t \in Tasks |-> NoSplit] /\ excess' = [t \in Tasks |-> 0]
    /\ att' = [t \in Tasks |-> 0]
    /\ UNCHANGED <<made, tables, received, faults, diskFaults, stops>>

-----------------------------------------------------------------------------
\* The steps a task takes once it has something in hand.
TaskStep(t) ==
    \/ PostFails(t) \/ PostAgain(t) \/ Deliver(t) \/ NextPart(t) \/ PartAnswered(t)
    \/ DeliverParts(t) \/ DeadLetterBatch(t) \/ StoreInsert(t) \/ StoreCount(t)
    \/ StorePrune(t)

ReplayStep ==
    \/ ReplayNext \/ ReplayGroup \/ ReplayParts \/ ReplayRewrite \/ ReplayDelete
    \/ ReplayMove

Next ==
    \/ Start
    \/ \E kind \in Kinds : AddResult(kind)
    \/ \E t \in Flushers : Flush(t)
    \/ \E t \in Tasks : TaskStep(t)
    \/ ReplayRead
    \/ ReplayStep
    \/ \E t \in Tasks : DiskFails(t)
    \/ Stop
    \/ StopEnds
    \/ Crash

Spec == Init /\ [][Next]_vars

\* The event loop runs every task that can go on, the batch processor's timer
\* and the replay's interval keep firing, and a stopped agent is started again.
\* Nothing is assumed of the network, of the disk or of when results arrive.
Fairness ==
    /\ WF_vars(Start) /\ WF_vars(StopEnds) /\ WF_vars(ReplayRead)
    /\ \A t \in Flushers : WF_vars(Flush(t))
    /\ \A t \in Storers : WF_vars(TaskStep(t))
    /\ WF_vars(TaskStep(Replay) \/ ReplayStep)

FairSpec == Spec /\ Fairness

-----------------------------------------------------------------------------
(* Properties. *)

Splits == [work : Seq(Seq(Results)), part : Seq(Results), untried : Seq(Results),
           refused : Seq(Results), sent : BOOLEAN,
           stop : {"none", "too_large", "transient"}]

StorerPCs == {"idle", "post", "sleep", "parts", "post_part", "sleep_part", "dead",
              "dead_part", "store", "count", "prune"}
ReplayPCs == {"idle", "next", "post", "sleep", "parts", "post_part", "sleep_part",
              "dead_part", "delete", "rewrite", "move"}

\* Every variable has its type, and no counter passes its bound.
TypeOK ==
    /\ phase \in {"down", "up", "stopping"}
    /\ made \in Seq(Kinds) /\ Len(made) <= MaxResults
    /\ batch \in Seq(Results)
    /\ pending \subseteq Row /\ IsFiniteSet(pending) /\ nextId \in Nat
    /\ dead \in Seq(Seq(Results)) /\ held \subseteq Nat
    /\ pc \in [Tasks -> StorerPCs \cup ReplayPCs] /\ pc[Replay] \in ReplayPCs
    /\ \A t \in Storers : pc[t] \in StorerPCs
    /\ group \in [Tasks -> SUBSET Row] /\ IsFiniteSet(group[Replay])
    /\ split \in [Tasks -> Splits]
    /\ att \in [Tasks -> 0..MaxRetries] /\ excess \in [Tasks -> Nat]
    /\ todo \subseteq Row /\ IsFiniteSet(todo)
    /\ solo \subseteq Row /\ IsFiniteSet(solo)
    /\ received \subseteq Results /\ lost \in [Losses -> SUBSET Results]
    /\ faults \in 0..MaxFaults /\ diskFaults \in 0..MaxDiskFaults
    /\ stops \in 0..MaxStops /\ crashes \in 0..MaxCrashes

Custody == Range(batch) \cup Contents(pending) \cup UNION {InHand(t) : t \in Storers}
Settled == received \cup Letters(dead) \cup Lost

\* No result is ever lost silently: at every moment each added result is in
\* the batch, in the hands of one flush or in a stored row, or the server has
\* it, or it is a dead letter, or one of the reporter's stated limits or
\* failures gave it up (queue and table caps, SQLite errors, cancel, crash).
Accounted == DOMAIN made \subseteq Custody \cup Settled

\* Dead letters are refused payloads: a batch is dead-lettered only if the
\* server refuses exactly that payload, so no batch is dead-lettered for the
\* fault of one it was combined with, for its size, or for the route's faults.
DeadLettersRefused ==
    \A i \in DOMAIN dead : Verdict(Range(dead[i])) = "permanent"

\* One custodian: a result the agent still has to deliver is in one place only
\* (the batch, one flush's hand, one row), whatever retries, splits and
\* rewrites it has been through, so no retry multiplies what is stored.
OneCustodian ==
    /\ \A t \in Storers : InHand(t) \cap Range(batch) = {}
    /\ \A t, u \in Storers : t # u => InHand(t) \cap InHand(u) = {}
    /\ \A r \in pending :
          /\ Range(r.checks) \cap (Range(batch) \cup UNION {InHand(t) : t \in Storers}) = {}
          /\ \A q \in pending : q # r => Range(q.checks) \cap Range(r.checks) = {}

\* The replay works on rows as they are: a row it has read, and has not yet
\* dealt with, is still in the table with the results it read, or the disk cap
\* has deleted it; so a rewrite or a delete never hits results it did not try.
ReplayCopyCurrent ==
    \A r \in todo \cup solo \cup group[Replay] :
        \A q \in pending : q.id = r.id => q = r

\* The disk cap: the table outgrows report_max_stored_batches only by the rows
\* inserted by flushes that have not come to their own prune yet.
DiskCap ==
    crashes = 0 /\ diskFaults = 0 =>
        Cardinality(pending)
            <= MaxStored + Cardinality({t \in Storers : pc[t] \in {"count", "prune"}})

\* The batch is the newest results, in order: what a flush or the queue limit
\* takes is always older than what stays.
BatchIsNewest ==
    phase # "down" => \A i \in DOMAIN batch : batch[i] = Len(made) - Len(batch) + i

\* The reporter implements a store-and-forward queue.
Queue == INSTANCE StoreAndForward WITH
            accepted <- DOMAIN made, inHand <- Custody, settled <- Settled
ImplementsQueue == Queue!Spec

\* Every result that is not too large by itself is settled in the end: no
\* oversized, refused or unlucky batch holds it back for ever.
EverySmallResultSettles ==
    \A r \in Results :
        (r \in DOMAIN made /\ made[r] # "big") ~> (r \in Settled)

\* The table drains: in the end only results too large by themselves are left
\* in it, so the replay never starves behind a row it cannot send.
TableDrains == <>[](\A q \in Contents(pending) : made[q] = "big")
=============================================================================
