-------------------------- MODULE AgentKeysProofs ---------------------------
(* Theorems about AgentKeys, for any number of rows, operator actions and      *)
(* faults.  What proves an install to be its agent is in five places (the row, *)
(* the answer on its way, the memory, the file, the verdict on a secret); the  *)
(* invariant says what each tells of the others at every step of the agent's   *)
(* task.                                                                       *)
EXTENDS AgentKeys, FiniteSetTheorems, TLAPS

-----------------------------------------------------------------------------
(* Types, and a key nobody holds.                                              *)

Row == [status : Statuses \cup {"absent"}, key : Nat, secret : BOOLEAN]
Credentials == [id : 0..MaxAgents, key : Nat, secret : BOOLEAN, unsaved : BOOLEAN]
Message ==
    [kind : {"none", "ok", "lost", "foreign", "missing", "refused", "secret",
             "agentkey", "regkey"},
     id : 0..MaxAgents, auth : Nat, secret : 0..MaxAgents, using : BOOLEAN,
     verified : Nat, status : Statuses \cup {"absent"}, applied : BOOLEAN,
     key : Nat]
Changes == {<<>>} \cup (Ids \X (Statuses \ {"pending"}))

KeysTypes ==
    /\ agents \in [Ids -> Row] /\ created \in 0..MaxAgents
    /\ op \in Changes
    /\ mem \in Credentials /\ disk \in Credentials
    /\ cfgId \in 0..MaxAgents /\ auth \in Nat /\ voidConfirmed \in 0..MaxAgents
    /\ msg \in Message
    /\ msg.auth = 0 \/ msg.key = 0

LEMMA OneMore ==
    ASSUME NEW S, IsFiniteSet(S), NEW n \in Nat, Cardinality(S) <= n, NEW x
    PROVE  IsFiniteSet(S \cup {x}) /\ Cardinality(S \cup {x}) <= n + 1
<1>1. Cardinality(S) \in Nat
  BY FS_CardinalityType
<1>2. /\ IsFiniteSet(S \cup {x})
      /\ Cardinality(S \cup {x}) = IF x \in S THEN Cardinality(S) ELSE Cardinality(S) + 1
  BY FS_AddElement
<1> QED BY <1>1, <1>2

LEMMA FiveMore ==
    ASSUME NEW S, IsFiniteSet(S), NEW n \in Nat, Cardinality(S) <= n,
           NEW a, NEW b, NEW c, NEW d, NEW e
    PROVE  /\ IsFiniteSet(S \cup {a, b, c, d, e})
           /\ Cardinality(S \cup {a, b, c, d, e}) <= n + 5
<1> DEFINE A == S \cup {a}
           B == A \cup {b}
           C == B \cup {c}
           D == C \cup {d}
           E == D \cup {e}
<1>1. IsFiniteSet(A) /\ Cardinality(A) <= n + 1
  BY OneMore
<1>2. IsFiniteSet(B) /\ Cardinality(B) <= n + 2
  <2> HIDE DEF A
  <2> QED BY <1>1, OneMore, n + 1 \in Nat, n + 1 + 1 = n + 2
<1>3. IsFiniteSet(C) /\ Cardinality(C) <= n + 3
  <2> HIDE DEF B
  <2> QED BY <1>2, OneMore, n + 2 \in Nat, n + 2 + 1 = n + 3
<1>4. IsFiniteSet(D) /\ Cardinality(D) <= n + 4
  <2> HIDE DEF C
  <2> QED BY <1>3, OneMore, n + 3 \in Nat, n + 3 + 1 = n + 4
<1>5. IsFiniteSet(E) /\ Cardinality(E) <= n + 5
  <2> HIDE DEF D
  <2> QED BY <1>4, OneMore, n + 4 \in Nat, n + 4 + 1 = n + 5
<1>6. E = S \cup {a, b, c, d, e}
  OBVIOUS
<1> HIDE DEF E
<1> QED BY <1>5, <1>6

\* The keys in use are fewer than the keys there are: an answer that brings a
\* new key is not one to a heartbeat.
LEMMA KeyToSpare ==
    ASSUME KeysTypes
    PROVE  FreshKey \in Nat
<1> DEFINE held == {agents[i].key : i \in Ids}
           used == held \cup {mem.key, disk.key, auth, msg.auth, msg.verified, msg.key}
<1>1. IsFiniteSet(Ids) /\ Cardinality(Ids) = MaxAgents
  BY FS_Interval, BoundsAssumption DEF Ids
<1>2. IsFiniteSet(Keys) /\ Cardinality(Keys) = MaxAgents + 6
  BY FS_Interval, BoundsAssumption DEF Keys
<1>3. IsFiniteSet(held) /\ Cardinality(held) <= MaxAgents
  <2> DEFINE f == [i \in Ids |-> agents[i].key]
  <2>1. f \in Surjection(Ids, held)
    BY DEF Surjection
  <2> HIDE DEF f, held
  <2> QED
    BY <1>1, <2>1, FS_Surjection
<1>4. \E k \in Keys : k \notin used
  <2>1. SUFFICES ASSUME Keys \subseteq used PROVE FALSE
    OBVIOUS
  <2>2. 0 \notin Keys
    BY BoundsAssumption DEF Keys
  <2>3. PICK e \in {msg.auth, msg.key} :
          Keys \subseteq held \cup {mem.key, disk.key, auth, msg.verified, e}
    BY <2>1, <2>2 DEF KeysTypes
  <2> DEFINE big == held \cup {mem.key, disk.key, auth, msg.verified, e}
  <2>4. IsFiniteSet(big) /\ Cardinality(big) <= MaxAgents + 5
    <3> HIDE DEF held
    <3> QED BY <1>3, FiveMore, BoundsAssumption
  <2>5. Cardinality(Keys) <= Cardinality(big)
    <3>1. Keys \subseteq big
      BY <2>3
    <3> HIDE DEF big
    <3> QED BY <2>4, <3>1, FS_Subset
  <2>6. Cardinality(big) \in Nat
    <3> HIDE DEF big
    <3> QED BY <2>4, FS_CardinalityType
  <2> HIDE DEF big
  <2> QED BY <1>2, <2>4, <2>5, <2>6, BoundsAssumption
<1>5. FreshKey \in Keys
  BY <1>4 DEF FreshKey
<1> QED BY <1>5, BoundsAssumption DEF Keys

-----------------------------------------------------------------------------
(* What the invariant of the credentials says.                                 *)

\* Whom the task calls for, and that it has an id unless it is starting.
TaskKnows ==
    /\ pc \in {"recover", "recovered"} => mem.secret /\ why \in {"approval", "refused"}
    /\ pc \notin {"down", "register", "registered"} => cfgId # 0
    /\ pc \in {"register", "registered"} /\ why # "start" => cfgId # 0
    /\ pc = "down" => mem.id = 0
    /\ /\ pc \in {"register", "registered"}
       /\ why \notin {"approval", "refused"}
       => mem.id = 0 /\ disk.id = 0
    /\ pc = "registered" /\ msg.kind = "ok" => msg.id # 0

\* Ids are of rows made before; credentials are of some row.
IdsKnown ==
    /\ \A i \in Ids : agents[i].secret => i <= created
    /\ mem.id <= created /\ disk.id <= created
    /\ voidConfirmed <= created /\ msg.id <= created
    /\ mem.id # 0 => mem.id = cfgId
    /\ cfgId <= created
    /\ mem.key # 0 \/ mem.secret => mem.id # 0
    /\ disk.key # 0 \/ disk.secret => disk.id # 0

\* Whoever holds credentials of a row with a secret holds the secret.
SecretHeld ==
    /\ mem.id # 0 => (agents[mem.id].secret => mem.secret)
    /\ disk.id # 0 => (agents[disk.id].secret => disk.secret)

\* A running agent's file is of the agent it is, or of one it could not prove
\* to be or lost; what the file does not have is marked unsaved.
FileFollows ==
    /\ pc # "down" /\ disk.id # 0 /\ disk.id # mem.id =>
          (agents[disk.id].secret => disk.id \in lost)
    /\ mem.id # 0 /\ mem.id # disk.id =>
          (agents[mem.id].secret => mem.unsaved)

\* A refused secret is gone from its row, and does not come back.
VerdictTrue ==
    /\ voidConfirmed # 0 => ~agents[voidConfirmed].secret
    /\ pc = "recovered" /\ msg.kind = "secret" => ~agents[mem.id].secret

\* A row that has a secret is the install's, or accounted for.
Covered ==
    \A i \in Ids : agents[i].secret =>
        \/ i = disk.id \/ i = mem.id \/ i \in lost
        \/ pc = "registered" /\ msg.kind = "ok" /\ i = msg.id

\* What a heartbeat that was let through was let through for.
CheckedFor ==
    /\ pc \in {"sent", "checked"} => msg.id # 0
    /\ pc = "checked" /\ msg.using =>
          /\ msg.verified = msg.auth /\ msg.auth # 0
          /\ agents[msg.id].status # "pending"
    /\ pc = "checked" /\ ~msg.using /\ msg.secret # 0 => msg.secret = msg.id

KeysInv ==
    /\ KeysTypes /\ TaskKnows /\ IdsKnown /\ SecretHeld /\ FileFollows
    /\ VerdictTrue /\ Covered /\ CheckedFor

-----------------------------------------------------------------------------
(* Operators.                                                                  *)

\* What an operator may do to the rows: never give a secret, nor make one
\* pending.
LEMMA OperatorStep ==
    ASSUME KeysInv, agents' \in [Ids -> Row], op' \in Changes,
           \A i \in Ids : /\ agents'[i].secret => agents[i].secret
                          /\ agents'[i].status = "pending" => agents[i].status = "pending",
           UNCHANGED <<created, install, flags, pc, why, msg, lost>>
    PROVE  KeysInv'
<1> USE DEF KeysInv, install, flags
<1>1. \A n \in 0..MaxAgents : n # 0 => n \in Ids
  BY BoundsAssumption DEF Ids
<1>2. /\ mem.id \in 0..MaxAgents /\ disk.id \in 0..MaxAgents
      /\ voidConfirmed \in 0..MaxAgents /\ msg.id \in 0..MaxAgents
  BY DEF KeysTypes, Credentials, Message
<1>3. KeysTypes' /\ TaskKnows'
  BY DEF KeysTypes, TaskKnows
<1>4. IdsKnown' /\ SecretHeld'
  BY <1>1, <1>2 DEF IdsKnown, SecretHeld
<1>5. FileFollows' /\ VerdictTrue'
  <2>1. pc = "recovered" => mem.id # 0
    BY DEF TaskKnows, IdsKnown
  <2> QED BY <1>1, <1>2, <2>1 DEF FileFollows, VerdictTrue
<1>6. Covered' /\ CheckedFor'
  BY <1>1, <1>2 DEF Covered, CheckedFor
<1> QED BY <1>3, <1>4, <1>5, <1>6

LEMMA OperatorsKeep ==
    ASSUME KeysInv, NEW i \in Ids,
           \/ ApproveAgent(i) \/ ReadStatus(i) \/ GenerateAgentKey(i)
           \/ RegenerateAgentKey(i) \/ RevokeAgentKey(i) \/ DeleteAgent(i)
    PROVE  KeysInv'
<1>1. /\ agents \in [Ids -> Row] /\ op \in Changes /\ FreshKey \in Nat
  BY KeyToSpare DEF KeysInv, KeysTypes
<1>2. CASE ApproveAgent(i)
  <2>1. agents' = [agents EXCEPT ![i] = [agents[i] EXCEPT !.status = "active", !.key = FreshKey]]
    BY <1>1, <1>2 DEF ApproveAgent, Row
  <2> QED BY <1>1, <1>2, <2>1, OperatorStep DEF ApproveAgent, Operate, Row, Statuses
<1>3. CASE ReadStatus(i)
  <2>1. \A m \in Moves : m[2] \in Statuses \ {"pending"}
    BY DEF Moves, Statuses
  <2>2. op' \in Changes
    BY <1>3, <2>1 DEF ReadStatus, Changes
  <2> QED BY <1>1, <1>3, <2>2, OperatorStep DEF ReadStatus, Operate
<1>4. CASE GenerateAgentKey(i) \/ RegenerateAgentKey(i)
  <2>1. agents' = [agents EXCEPT ![i] = [agents[i] EXCEPT !.key = FreshKey]]
    BY <1>1, <1>4 DEF GenerateAgentKey, RegenerateAgentKey, Row
  <2> QED BY <1>1, <1>4, <2>1, OperatorStep
          DEF GenerateAgentKey, RegenerateAgentKey, Operate, Row
<1>5. CASE RevokeAgentKey(i)
  <2>1. agents' = [agents EXCEPT ![i] = [agents[i] EXCEPT !.key = 0, !.secret = FALSE]]
    BY <1>1, <1>5 DEF RevokeAgentKey, Row
  <2> QED BY <1>1, <1>5, <2>1, OperatorStep DEF RevokeAgentKey, Operate, Row
<1>6. CASE DeleteAgent(i)
  BY <1>1, <1>6, OperatorStep DEF DeleteAgent, Operate, Row, Absent
<1> QED BY <1>2, <1>3, <1>4, <1>5, <1>6

LEMMA StatusWritten ==
    ASSUME KeysInv, WriteStatus
    PROVE  KeysInv'
<1>1. agents \in [Ids -> Row] /\ op \in Changes
  BY DEF KeysInv, KeysTypes
<1>2. op' \in Changes
  BY DEF WriteStatus, Changes
<1>3. PICK i \in Ids, s \in Statuses \ {"pending"} : op = <<i, s>>
  BY <1>1 DEF WriteStatus, Changes
<1>4. \/ agents' = agents
      \/ agents' = [agents EXCEPT ![i] = [agents[i] EXCEPT !.status = s]]
  BY <1>1, <1>3 DEF WriteStatus, Row
<1>5. /\ agents' \in [Ids -> Row]
      /\ \A j \in Ids : /\ agents'[j].secret => agents[j].secret
                       /\ agents'[j].status = "pending" => agents[j].status = "pending"
  BY <1>1, <1>3, <1>4 DEF Row
<1> QED BY <1>2, <1>5, OperatorStep DEF WriteStatus

LEMMA RegistrationKeyRevoked ==
    ASSUME KeysInv, RevokeRegistrationKey
    PROVE  KeysInv'
BY OperatorStep DEF RevokeRegistrationKey, Operate, KeysInv, KeysTypes

-----------------------------------------------------------------------------
(* Steps that leave the credentials where they are.                            *)

LEMMA QuietStep ==
    ASSUME KeysInv, UNCHANGED <<table, mem, disk, cfgId, auth, voidConfirmed>>,
           lost \subseteq lost', pc = "down" => pc' = "down",
           pc = "registered" /\ msg.kind = "ok" =>
               \/ pc' = "registered" /\ msg'.kind = "ok" /\ msg'.id = msg.id
               \/ msg.id \in lost',
           msg' \in Message, msg'.auth = 0 \/ msg'.key = 0, msg'.id <= created,
           pc' = "recovered" /\ msg'.kind = "secret" =>
               pc = "recovered" /\ msg.kind = "secret",
           TaskKnows', CheckedFor'
    PROVE  KeysInv'
<1> USE DEF KeysInv, table
<1>1. KeysTypes' /\ IdsKnown' /\ SecretHeld'
  BY DEF KeysTypes, IdsKnown, SecretHeld
<1>2. FileFollows'
  BY DEF FileFollows
<1>3. VerdictTrue'
  BY DEF VerdictTrue
<1>4. Covered'
  BY DEF Covered
<1> QED BY <1>1, <1>2, <1>3, <1>4

\* The blank message of a call that begins or of a task that rests.
LEMMA BlankMessage ==
    /\ NoMsg \in Message /\ NoMsg.auth = 0 /\ NoMsg.key = 0 /\ NoMsg.id = 0
    /\ NoMsg.kind = "none"
BY BoundsAssumption DEF NoMsg, Message, Statuses

LEMMA CallStep ==
    ASSUME KeysInv, UNCHANGED <<table, mem, disk, cfgId, auth, voidConfirmed, lost>>,
           pc # "down", ~(pc = "registered" /\ msg.kind = "ok"),
           msg' = NoMsg, pc' \notin {"sent", "checked"}, TaskKnows'
    PROVE  KeysInv'
<1>1. CheckedFor'
  BY DEF CheckedFor
<1>2. 0 <= created
  BY DEF KeysInv, KeysTypes
<1> QED BY <1>1, <1>2, BlankMessage, QuietStep

\* Where a task that rests or asks for its checks is.
LEMMA SyncKnows ==
    ASSUME KeysInv, SyncChecks \/ Idle, cfgId' # 0
    PROVE  /\ TaskKnows' /\ pc' \in {"idle", "fetch"} /\ msg' = NoMsg
BY DEF SyncChecks, Idle, Call, TaskKnows

LEMMA HeartbeatSent ==
    ASSUME KeysInv, SendHeartbeat
    PROVE  KeysInv'
<1> USE DEF KeysInv, SendHeartbeat
<1> DEFINE s == IF mem.secret /\ (mem.key = 0 \/ keyRefused) THEN mem.id ELSE 0
           m == [NoMsg EXCEPT !.id = cfgId, !.auth = auth, !.secret = s]
<1>1. /\ cfgId # 0 /\ cfgId \in 0..MaxAgents /\ auth \in Nat /\ mem.id \in 0..MaxAgents
      /\ s \in 0..MaxAgents
  BY BoundsAssumption DEF TaskKnows, KeysTypes, Credentials
<1>2. m \in Message /\ m.key = 0 /\ m.id = cfgId
  <2> HIDE DEF s
  <2> QED BY <1>1, BoundsAssumption DEF NoMsg, Message, Statuses, KeysInv, SendHeartbeat
<1>3. TaskKnows' /\ CheckedFor' /\ msg' = m
  <2>1. msg' = m
    OBVIOUS
  <2> QED BY <1>1, <1>2, <2>1 DEF TaskKnows, CheckedFor, install
<1>4. cfgId <= created
  BY DEF IdsKnown
<1> QED BY <1>2, <1>3, <1>4, QuietStep DEF install, flags

LEMMA Authenticated ==
    ASSUME KeysInv, Authenticate
    PROVE  KeysInv'
<1> USE DEF KeysInv, Authenticate, Reply
<1>1. msg \in Message /\ (msg.auth = 0 \/ msg.key = 0) /\ msg.id <= created
  BY DEF KeysTypes, IdsKnown
<1>2. msg.id # 0 /\ msg.id \in Ids /\ agents[msg.id] \in Row
  BY <1>1, BoundsAssumption DEF CheckedFor, KeysTypes, Message, Ids
<1>3. CASE pc' = "answer"
  <2>1. PICK k \in {"missing", "refused", "secret", "agentkey", "regkey"} :
          msg' = [msg EXCEPT !.kind = k]
    BY <1>3
  <2>2. /\ msg' \in Message /\ (msg'.auth = 0 \/ msg'.key = 0) /\ msg'.id = msg.id
    BY <1>1, <2>1 DEF Message
  <2>3. TaskKnows' /\ CheckedFor'
    BY <1>3 DEF TaskKnows, CheckedFor, install
  <2> QED BY <1>1, <1>3, <2>2, <2>3, QuietStep DEF install, flags
<1>4. CASE pc' = "checked"
  <2> DEFINE a == agents[msg.id]
  <2>1. PICK u \in BOOLEAN :
          /\ msg' = [msg EXCEPT !.using = u, !.verified = IF u THEN a.key ELSE 0]
          /\ u => a.key # 0 /\ msg.auth = a.key /\ a.status = "active"
          /\ ~u /\ msg.secret # 0 => msg.secret = msg.id
    BY <1>4
  <2>2. a.key \in Nat
    BY <1>2 DEF Row
  <2>3. /\ msg' \in Message /\ (msg'.auth = 0 \/ msg'.key = 0) /\ msg'.id = msg.id
        /\ msg'.using = u /\ msg'.auth = msg.auth /\ msg'.secret = msg.secret
        /\ u => msg'.verified = a.key
    BY <1>1, <2>1, <2>2 DEF Message
  <2>4. CheckedFor'
    BY <1>2, <1>4, <2>1, <2>3 DEF CheckedFor, table
  <2>5. TaskKnows'
    BY <1>4 DEF TaskKnows, install
  <2> QED BY <1>1, <1>4, <2>3, <2>4, <2>5, QuietStep DEF install, flags
<1> QED BY <1>3, <1>4

LEMMA HeartbeatProcessed ==
    ASSUME KeysInv, ProcessHeartbeat
    PROVE  KeysInv'
<1> USE DEF KeysInv, ProcessHeartbeat, Reply
<1>1. msg \in Message /\ (msg.auth = 0 \/ msg.key = 0) /\ msg.id <= created
  BY DEF KeysTypes, IdsKnown
<1>2. msg.id # 0 /\ msg.id \in Ids /\ agents[msg.id] \in Row
  BY <1>1, BoundsAssumption DEF CheckedFor, KeysTypes, Message, Ids
<1>3. pc' = "answer"
  OBVIOUS
<1>4. PICK k \in {"missing", "refused", "secret", "ok"}, u \in BOOLEAN, b \in BOOLEAN,
         s \in Statuses \cup {"absent"} :
        \/ msg' = [msg EXCEPT !.kind = k]
        \/ msg' = [msg EXCEPT !.kind = k, !.using = u, !.status = s, !.applied = b]
  <2> DEFINE a == agents[msg.id]
             u == msg.using /\ a.key = msg.verified
             b == u \/ (a.status = "pending" /\ a.key = 0)
  <2>1. u \in BOOLEAN /\ b \in BOOLEAN /\ a.status \in Statuses \cup {"absent"}
    BY <1>2 DEF Row
  <2>2. \/ \E k \in {"missing", "refused", "secret"} : msg' = [msg EXCEPT !.kind = k]
        \/ msg' = [msg EXCEPT !.kind = "ok", !.using = u, !.status = a.status, !.applied = b]
    OBVIOUS
  <2> QED BY <2>1, <2>2
<1>5. /\ msg' \in Message /\ (msg'.auth = 0 \/ msg'.key = 0) /\ msg'.id = msg.id
  BY <1>1, <1>4 DEF Message
<1>6. TaskKnows' /\ CheckedFor'
  BY <1>3 DEF TaskKnows, CheckedFor, install
<1> QED BY <1>1, <1>3, <1>5, <1>6, QuietStep DEF install, flags

LEMMA CallLost ==
    ASSUME KeysInv, LoseCall
    PROVE  KeysInv'
<1> USE DEF KeysInv, LoseCall
<1>1. msg \in Message /\ (msg.auth = 0 \/ msg.key = 0) /\ msg.id <= created
  BY DEF KeysTypes, IdsKnown
<1>2. PICK k \in {"lost", "foreign"} : msg' = [msg EXCEPT !.kind = k]
  OBVIOUS
<1>3. /\ msg' \in Message /\ (msg'.auth = 0 \/ msg'.key = 0) /\ msg'.id = msg.id
      /\ msg'.kind \in {"lost", "foreign"}
  BY <1>1, <1>2 DEF Message
<1>4. /\ pc' \in {"answer", "recovered", "registered"}
      /\ pc' = "recovered" => pc \in {"recover", "recovered"}
      /\ pc' = "registered" => pc \in {"register", "registered"}
      /\ pc # "down" /\ (pc' = "answer" => pc \in {"sent", "checked", "answer"})
  OBVIOUS
<1>5. UNCHANGED <<table, mem, disk, cfgId, auth, voidConfirmed, why>>
  BY DEF table, install, flags
<1>6. TaskKnows' /\ CheckedFor'
  BY <1>3, <1>4, <1>5 DEF TaskKnows, CheckedFor
<1>7. lost \subseteq lost' /\ (pc = "registered" /\ msg.kind = "ok" => msg.id \in lost')
  OBVIOUS
<1> QED BY <1>1, <1>3, <1>4, <1>5, <1>6, <1>7, QuietStep

\* The steps after which the task rests, or asks for its checks.
LEMMA TaskRests ==
    ASSUME KeysInv, BeatLost \/ FetchLost
    PROVE  KeysInv'
<1>1. /\ UNCHANGED <<table, mem, disk, cfgId, auth, voidConfirmed, lost>> /\ Idle
      /\ pc \in {"answer", "fetch"}
  BY DEF BeatLost, FetchLost, install, flags
<1>2. cfgId' # 0
  BY <1>1 DEF KeysInv, TaskKnows
<1> QED BY <1>1, <1>2, SyncKnows, CallStep

LEMMA TimePasses ==
    ASSUME KeysInv, NEW w \in waits, WaitOver(w)
    PROVE  KeysInv'
BY DEF KeysInv, KeysTypes, TaskKnows, IdsKnown, SecretHeld, FileFollows, VerdictTrue,
       Covered, CheckedFor, WaitOver, table, flags

LEMMA RegistrationFails ==
    ASSUME KeysInv, NotRegistered
    PROVE  KeysInv'
<1>1. /\ UNCHANGED <<table, mem, disk, cfgId, auth, voidConfirmed, lost>>
      /\ pc = "registered" /\ msg.kind # "ok"
  BY DEF NotRegistered, flags
<1>2. CASE why = "start"
  <2>1. pc' = "down" /\ why' = "beat" /\ msg' = NoMsg
    BY <1>2 DEF NotRegistered, Call
  <2>2. TaskKnows'
    BY <1>1, <1>2, <2>1 DEF KeysInv, TaskKnows
  <2> QED BY <1>1, <2>1, <2>2, CallStep
<1>3. CASE why # "start"
  <2>1. SyncChecks \/ Idle
    BY <1>3 DEF NotRegistered
  <2>2. cfgId' # 0
    BY <1>1, <1>3 DEF KeysInv, TaskKnows
  <2> QED BY <1>1, <2>1, <2>2, SyncKnows, CallStep
<1> QED BY <1>2, <1>3

-----------------------------------------------------------------------------
(* Credentials given up.                                                       *)

\* Nothing is left behind when the memory and the file are cleared: the secret
\* is not held, or the row is gone.
LEMMA Cleared ==
    ASSUME KeysInv, UNCHANGED <<table, cfgId, auth, voidConfirmed, lost>>,
           pc \notin {"down", "register", "registered"},
           ~mem.secret \/ (mem.id # 0 => ~agents[mem.id].secret),
           mem' = NoCredentials, disk' = NoCredentials,
           pc' = "register", why' \in {"afresh", "fetch"}, msg' = NoMsg
    PROVE  KeysInv'
<1> USE DEF KeysInv, table
<1>1. /\ NoCredentials \in Credentials /\ NoCredentials.id = 0
      /\ NoCredentials.key = 0 /\ NoCredentials.secret = FALSE
  BY BoundsAssumption DEF NoCredentials, Credentials
<1>2. created \in Nat /\ MaxAgents \in Nat
  BY BoundsAssumption DEF KeysTypes
<1>3. KeysTypes'
  BY <1>1, BlankMessage DEF KeysTypes
<1>4. TaskKnows' /\ CheckedFor'
  BY <1>1 DEF TaskKnows, CheckedFor
<1>5. IdsKnown' /\ SecretHeld' /\ FileFollows' /\ VerdictTrue'
  BY <1>1, <1>2, BlankMessage DEF IdsKnown, SecretHeld, FileFollows, VerdictTrue
<1>6. Covered'
  <2>1. ASSUME NEW i \in Ids, agents[i].secret PROVE i \in lost
    <3>1. i # 0 /\ i \in Nat
      BY BoundsAssumption DEF Ids
    <3>2. i # mem.id
      BY <2>1, <3>1 DEF SecretHeld
    <3>3. i = disk.id => i \in lost
      BY <2>1, <3>1, <3>2 DEF FileFollows
    <3> QED BY <2>1, <3>2, <3>3 DEF Covered
  <2> QED BY <2>1 DEF Covered
<1> QED BY <1>3, <1>4, <1>5, <1>6

LEMMA RecoveryAsked ==
    ASSUME KeysInv, NEW for \in {"approval", "refused"}, RecoverAgentKey(for),
           pc \in {"answer", "approved"},
           UNCHANGED <<table, cfgId, auth, voidConfirmed, lost>>
    PROVE  KeysInv'
<1>1. CASE mem.secret
  <2>1. /\ pc' = "recover" /\ why' = for /\ msg' = NoMsg /\ UNCHANGED <<mem, disk>>
    BY <1>1 DEF RecoverAgentKey, Call
  <2>2. TaskKnows'
    BY <1>1, <2>1 DEF KeysInv, TaskKnows
  <2> QED BY <2>1, <2>2, CallStep
<1>2. CASE ~mem.secret
  BY <1>2, Cleared DEF RecoverAgentKey, Call
<1> QED BY <1>1, <1>2

\* What follows a key that was not recovered.
LEMMA NotRecoveredKnows ==
    ASSUME KeysInv, NEW for \in {"approval", "refused"}, NEW void \in BOOLEAN,
           NotRecovered(for, void), cfgId # 0, UNCHANGED <<mem, disk, cfgId>>
    PROVE  /\ TaskKnows' /\ pc' \in {"idle", "fetch", "register"} /\ msg' = NoMsg
<1>1. CASE SyncChecks \/ Idle
  BY <1>1, SyncKnows
<1>2. CASE Call("register", for)
  BY <1>2 DEF Call, TaskKnows
<1> QED BY <1>1, <1>2 DEF NotRecovered, RegisterAgain

LEMMA ApprovalHandled ==
    ASSUME KeysInv, HandleApproval
    PROVE  KeysInv'
<1>1. /\ UNCHANGED <<table, cfgId, auth, voidConfirmed, lost>> /\ pc = "approved"
  BY DEF HandleApproval, flags
<1>2. cfgId # 0
  BY <1>1 DEF KeysInv, TaskKnows
<1>3. CASE HeldBack
  <2>1. NotRecovered("approval", voidConfirmed # 0) /\ UNCHANGED <<mem, disk>>
    BY <1>3 DEF HandleApproval
  <2>2. TaskKnows' /\ pc' \in {"idle", "fetch", "register"} /\ msg' = NoMsg
    BY <1>1, <1>2, <2>1, NotRecoveredKnows
  <2> QED BY <1>1, <2>1, <2>2, CallStep
<1>4. CASE ~HeldBack
  BY <1>1, <1>4, RecoveryAsked DEF HandleApproval
<1> QED BY <1>3, <1>4

LEMMA HeartbeatRefused ==
    ASSUME KeysInv, BeatRefused
    PROVE  KeysInv'
<1>1. /\ UNCHANGED <<table, cfgId, auth, voidConfirmed, lost>> /\ pc = "answer"
  BY DEF BeatRefused
<1>2. cfgId # 0
  BY <1>1 DEF KeysInv, TaskKnows
<1>3. \/ Idle /\ UNCHANGED <<mem, disk>>
      \/ NotRecovered("refused", voidConfirmed # 0) /\ UNCHANGED <<mem, disk>>
      \/ RecoverAgentKey("refused")
  BY DEF BeatRefused
<1>4. CASE Idle /\ UNCHANGED <<mem, disk>>
  BY <1>1, <1>2, <1>4, SyncKnows, CallStep
<1>5. CASE NotRecovered("refused", voidConfirmed # 0) /\ UNCHANGED <<mem, disk>>
  <2>1. TaskKnows' /\ pc' \in {"idle", "fetch", "register"} /\ msg' = NoMsg
    BY <1>1, <1>2, <1>5, NotRecoveredKnows
  <2> QED BY <1>1, <1>5, <2>1, CallStep
<1>6. CASE RecoverAgentKey("refused")
  BY <1>1, <1>6, RecoveryAsked
<1> QED BY <1>3, <1>4, <1>5, <1>6

LEMMA ChecksFetched ==
    ASSUME KeysInv, FetchChecks
    PROVE  KeysInv'
<1>1. /\ UNCHANGED <<table, cfgId, auth, voidConfirmed, lost>> /\ pc = "fetch"
  BY DEF FetchChecks, flags
<1>2. cfgId # 0
  BY <1>1 DEF KeysInv, TaskKnows
<1>3. CASE cfgId \in Rows
  BY <1>1, <1>2, <1>3, SyncKnows, CallStep DEF FetchChecks
<1>4. CASE cfgId \notin Rows
  <2>1. cfgId \in Ids
    BY <1>2, BoundsAssumption DEF KeysInv, KeysTypes, Ids
  <2>2. agents[cfgId] = Absent /\ ~agents[cfgId].secret
    BY <1>4, <2>1 DEF Rows, Absent
  <2>3. mem.id # 0 => ~agents[mem.id].secret
    BY <2>2 DEF KeysInv, IdsKnown
  <2> QED BY <1>1, <1>4, <2>3, Cleared DEF FetchChecks, Call
<1> QED BY <1>3, <1>4

-----------------------------------------------------------------------------
(* Credentials saved.                                                          *)

LEMMA Blank ==
    /\ NoCredentials \in Credentials /\ NoCredentials.id = 0
    /\ NoCredentials.key = 0 /\ NoCredentials.secret = FALSE
BY BoundsAssumption DEF NoCredentials, Credentials

\* The agent's own credentials are saved again, with the key k.
LEMMA SavedAgain ==
    ASSUME KeysInv, NEW k \in Nat, k # 0 => mem.id # 0,
           Save([mem EXCEPT !.key = k]),
           UNCHANGED <<table, cfgId, voidConfirmed, lost>>, auth' \in Nat,
           pc \notin {"down", "register", "registered"},
           msg' = NoMsg, pc' \in {"idle", "fetch", "approved"}
    PROVE  KeysInv'
<1> USE DEF KeysInv, table
<1>1. mem \in Credentials /\ disk \in Credentials
  BY DEF KeysTypes
<1>2. PICK u \in BOOLEAN :
        /\ mem' = [mem EXCEPT !.key = k, !.unsaved = u]
        /\ IF u THEN disk' \in {disk, NoCredentials} ELSE disk' = mem'
  <2>1. \/ /\ mem' = [mem EXCEPT !.key = k, !.unsaved = FALSE] /\ disk' = mem'
        \/ /\ mem' = [mem EXCEPT !.key = k, !.unsaved = TRUE]
           /\ disk' \in {disk, NoCredentials}
    BY <1>1 DEF Save, Credentials
  <2> QED BY <2>1
<1>3. /\ mem' \in Credentials /\ mem'.id = mem.id /\ mem'.secret = mem.secret
      /\ mem'.key = k /\ mem'.unsaved = u
  BY <1>1, <1>2 DEF Credentials
<1>4. KeysTypes'
  BY <1>1, <1>2, <1>3, BlankMessage, Blank DEF KeysTypes
<1>5. cfgId # 0 /\ created \in Nat
  BY DEF TaskKnows, KeysTypes
<1>6. TaskKnows' /\ CheckedFor'
  BY <1>5 DEF TaskKnows, CheckedFor
<1>7. IdsKnown' /\ SecretHeld'
  <2>1. disk' \in {mem', disk, NoCredentials}
    BY <1>2
  <2> QED BY <1>3, <1>5, <2>1, BlankMessage, Blank DEF IdsKnown, SecretHeld
<1>8. FileFollows'
  BY <1>2, <1>3, Blank DEF FileFollows
<1>9. VerdictTrue'
  BY DEF VerdictTrue
<1>10. Covered'
  <2>1. ASSUME NEW i \in Ids, agents[i].secret, i = disk.id, i # mem.id PROVE i \in lost
    <3>1. i # 0
      BY BoundsAssumption DEF Ids
    <3> QED BY <2>1, <3>1 DEF FileFollows
  <2> QED BY <1>2, <1>3, <2>1 DEF Covered
<1> QED BY <1>4, <1>6, <1>7, <1>8, <1>9, <1>10

LEMMA HeartbeatAccepted ==
    ASSUME KeysInv, BeatAccepted
    PROVE  KeysInv'
<1>1. /\ UNCHANGED <<table, cfgId, auth, voidConfirmed, lost>> /\ pc = "answer"
  BY DEF BeatAccepted
<1>2. cfgId # 0 /\ auth \in Nat /\ mem \in Credentials
  BY <1>1 DEF KeysInv, TaskKnows, KeysTypes
<1>3. Save(mem) \/ UNCHANGED <<mem, disk>>
  BY DEF BeatAccepted
<1>4. Call("approved", "approval") \/ SyncChecks
  BY DEF BeatAccepted
<1>5. TaskKnows' /\ pc' \in {"idle", "fetch", "approved"} /\ msg' = NoMsg
  <2>1. CASE SyncChecks
    BY <1>1, <1>2, <2>1, SyncKnows
  <2>2. CASE Call("approved", "approval")
    BY <1>1, <1>2, <2>2 DEF Call, TaskKnows
  <2> QED BY <1>4, <2>1, <2>2
<1>6. CASE Save(mem)
  <2>1. mem = [mem EXCEPT !.key = mem.key] /\ mem.key \in Nat
    BY <1>2 DEF Credentials
  <2>2. Save([mem EXCEPT !.key = mem.key])
    BY <1>6, <2>1
  <2>3. mem.key # 0 => mem.id # 0
    BY DEF KeysInv, IdsKnown
  <2> QED BY <1>1, <1>2, <1>5, <2>1, <2>2, <2>3, SavedAgain
<1>7. CASE UNCHANGED <<mem, disk>>
  BY <1>1, <1>5, <1>7, CallStep
<1> QED BY <1>3, <1>6, <1>7

LEMMA RecoveredKeySaved ==
    ASSUME KeysInv, KeyRecovered
    PROVE  KeysInv'
<1>1. /\ UNCHANGED <<table, cfgId, voidConfirmed, lost>> /\ pc = "recovered"
      /\ auth' = msg.key /\ Save([mem EXCEPT !.key = msg.key])
  BY DEF KeyRecovered
<1>2. msg.key \in Nat /\ mem.id # 0
  BY <1>1 DEF KeysInv, KeysTypes, Message, TaskKnows, IdsKnown
<1>3. pc' \in {"idle", "fetch"} /\ msg' = NoMsg
  BY DEF KeyRecovered, Idle, Call
<1> QED BY <1>1, <1>2, <1>3, SavedAgain

LEMMA RecoveryRefused ==
    ASSUME KeysInv, KeyNotRecovered
    PROVE  KeysInv'
<1> USE DEF KeysInv
<1>1. /\ UNCHANGED <<table, mem, disk, cfgId, auth, lost>> /\ pc = "recovered"
      /\ why \in {"approval", "refused"} /\ mem.secret
  BY DEF KeyNotRecovered, TaskKnows
<1>2. cfgId # 0 /\ mem.id # 0
  BY <1>1 DEF TaskKnows, IdsKnown
<1>3. TaskKnows' /\ pc' \in {"idle", "fetch", "register"} /\ msg' = NoMsg
  <2>1. NotRecovered(why, voidConfirmed' # 0)
    BY DEF KeyNotRecovered
  <2> QED BY <1>1, <1>2, <2>1, NotRecoveredKnows
<1>4. voidConfirmed' \in {voidConfirmed, mem.id}
  BY DEF KeyNotRecovered
<1>5. voidConfirmed' # voidConfirmed => ~agents[mem.id].secret
  BY <1>1 DEF KeyNotRecovered, RefusesSecret, VerdictTrue
<1>6. KeysTypes'
  BY <1>1, <1>3, <1>4, BlankMessage DEF KeysTypes, Credentials, table
<1>7. created \in Nat
  BY DEF KeysTypes
<1>8. IdsKnown' /\ SecretHeld'
  BY <1>1, <1>3, <1>4, <1>7, BlankMessage DEF IdsKnown, SecretHeld, table
<1>9. FileFollows'
  BY <1>1 DEF FileFollows, table
<1>10. VerdictTrue'
  BY <1>1, <1>3, <1>4, <1>5 DEF VerdictTrue, table
<1>11. Covered' /\ CheckedFor'
  BY <1>1, <1>3 DEF Covered, CheckedFor, table
<1> QED BY <1>3, <1>6, <1>8, <1>9, <1>10, <1>11

LEMMA RegistrationSaved ==
    ASSUME KeysInv, Registered
    PROVE  KeysInv'
<1> USE DEF KeysInv
<1>1. /\ UNCHANGED table /\ pc = "registered" /\ msg.kind = "ok" /\ cfgId' = msg.id
      /\ lost \subseteq lost'
  BY DEF Registered
<1>2. /\ msg.id \in 0..MaxAgents /\ msg.id # 0 /\ msg.id <= created /\ created \in Nat
      /\ mem \in Credentials /\ disk \in Credentials
  BY <1>1 DEF KeysTypes, Message, TaskKnows, IdsKnown
<1> DEFINE new == [NoCredentials EXCEPT !.id = msg.id, !.secret = TRUE]
<1>3. PICK u \in BOOLEAN :
        /\ mem' = [new EXCEPT !.unsaved = u]
        /\ IF u THEN disk' \in {disk, NoCredentials} ELSE disk' = mem'
  <2>1. \/ mem' = [new EXCEPT !.unsaved = FALSE] /\ disk' = mem'
        \/ mem' = [new EXCEPT !.unsaved = TRUE] /\ disk' \in {disk, NoCredentials}
    BY DEF Save, Registered
  <2> QED BY <2>1
<1>4. /\ mem' \in Credentials /\ mem'.id = msg.id /\ mem'.key = 0 /\ mem'.secret
      /\ mem'.unsaved = u
  <2>1. new \in Credentials /\ new.id = msg.id /\ new.key = 0 /\ new.secret
    BY <1>2, BoundsAssumption DEF NoCredentials, Credentials
  <2> HIDE DEF new
  <2> QED BY <1>3, <2>1 DEF Credentials
<1>5. voidConfirmed' \in {0, voidConfirmed} /\ auth' \in {0, auth}
  BY DEF Registered
<1>6. TaskKnows' /\ pc' \in {"idle", "fetch"} /\ msg' = NoMsg
  <2>1. Call("fetch", why) \/ SyncChecks \/ Idle
    BY DEF Registered
  <2>2. CASE SyncChecks \/ Idle
    BY <1>1, <1>2, <2>2, SyncKnows
  <2>3. CASE Call("fetch", why)
    BY <1>1, <1>2, <2>3 DEF Call, TaskKnows
  <2> QED BY <2>1, <2>2, <2>3
<1>7. KeysTypes'
  <2>1. disk' \in Credentials
    BY <1>2, <1>3, <1>4, Blank
  <2>2. voidConfirmed' \in 0..MaxAgents /\ auth' \in Nat
    BY <1>5, BoundsAssumption DEF KeysTypes
  <2>3. msg' \in Message /\ msg'.auth = 0
    BY <1>6, BlankMessage
  <2> QED BY <1>1, <1>2, <1>4, <2>1, <2>2, <2>3 DEF KeysTypes, table
\* The agent that was: it could not prove itself any more, or it is lost.
<1>8. ASSUME NEW i \in Ids, agents[i].secret, i = mem.id \/ i = disk.id
      PROVE  i \in lost'
  <2>1. i # 0
    BY BoundsAssumption DEF Ids
  <2>2. CASE i = mem.id
    <3>1. why \in {"approval", "refused"}
      BY <1>1, <2>1, <2>2 DEF TaskKnows
    <3>2. voidConfirmed # mem.id
      BY <1>8, <2>1, <2>2 DEF VerdictTrue
    <3> QED BY <2>2, <3>1, <3>2 DEF Registered
  <2>3. CASE i # mem.id
    BY <1>1, <1>8, <2>1, <2>3 DEF FileFollows
  <2> QED BY <2>2, <2>3
<1>9. IdsKnown'
  <2>1. disk' \in {mem', disk, NoCredentials}
    BY <1>3
  <2> HIDE DEF new
  <2> QED BY <1>1, <1>2, <1>4, <1>5, <1>6, <2>1, BlankMessage, Blank DEF IdsKnown, table
<1>10. SecretHeld'
  BY <1>1, <1>3, <1>4, Blank DEF SecretHeld, table
<1>11. FileFollows'
  <2>1. disk'.id # 0 /\ disk'.id # mem'.id => disk'.id = disk.id /\ disk.id \in Ids
    <3>1. disk.id \in 0..MaxAgents
      BY <1>2 DEF Credentials
    <3>2. disk' \in {mem', disk, NoCredentials}
      BY <1>3
    <3> HIDE DEF new
    <3> QED BY <3>1, <3>2, Blank, BoundsAssumption DEF Ids
  <2>2. disk'.id # mem'.id => u
    BY <1>3
  <2> QED BY <1>1, <1>4, <1>8, <2>1, <2>2 DEF FileFollows, table
<1>12. VerdictTrue' /\ CheckedFor'
  BY <1>1, <1>5, <1>6 DEF VerdictTrue, CheckedFor, table
<1>13. Covered'
  BY <1>1, <1>4, <1>8 DEF Covered, table
<1> QED BY <1>6, <1>7, <1>9, <1>10, <1>11, <1>12, <1>13

-----------------------------------------------------------------------------
(* The process starts and ends.                                                *)

LEMMA Started ==
    ASSUME KeysInv, Start
    PROVE  KeysInv'
<1> USE DEF KeysInv
<1>1. /\ UNCHANGED <<table, lost>> /\ pc = "down" /\ voidConfirmed' = 0
      /\ cfgId' = disk.id /\ auth' = disk.key /\ msg' = NoMsg
  BY DEF Start, Call
<1>2. disk \in Credentials /\ disk.id \in 0..MaxAgents /\ disk.key \in Nat
      /\ created \in Nat /\ disk.id <= created /\ mem.id = 0
  BY <1>1 DEF KeysTypes, Credentials, IdsKnown, TaskKnows
<1>3. CASE disk.key # 0 \/ disk.secret
  <2>1. mem' = disk /\ disk' = disk /\ pc' = "fetch" /\ disk.id # 0
    BY <1>3 DEF Start, Call, IdsKnown
  <2>2. KeysTypes'
    BY <1>1, <1>2, <2>1, BlankMessage, BoundsAssumption DEF KeysTypes, table
  <2>3. TaskKnows' /\ CheckedFor'
    BY <1>1, <2>1 DEF TaskKnows, CheckedFor
  <2>4. IdsKnown' /\ SecretHeld'
    BY <1>1, <1>2, <2>1, BlankMessage DEF IdsKnown, SecretHeld, table
  <2>5. FileFollows' /\ VerdictTrue'
    BY <1>1, <2>1 DEF FileFollows, VerdictTrue
  <2>6. Covered'
    BY <1>1, <1>2, <2>1 DEF Covered, table, Ids
  <2> QED BY <2>2, <2>3, <2>4, <2>5, <2>6
<1>4. CASE ~(disk.key # 0 \/ disk.secret)
  <2>1. mem' = NoCredentials /\ disk' = NoCredentials /\ pc' = "register" /\ why' = "start"
    BY <1>4 DEF Start, Call
  <2>2. KeysTypes'
    BY <1>1, <1>2, <2>1, Blank, BlankMessage, BoundsAssumption DEF KeysTypes, table
  <2>3. TaskKnows' /\ CheckedFor'
    BY <1>1, <2>1, Blank DEF TaskKnows, CheckedFor
  <2>4. IdsKnown' /\ SecretHeld'
    BY <1>1, <1>2, <2>1, Blank, BlankMessage DEF IdsKnown, SecretHeld, table
  <2>5. FileFollows' /\ VerdictTrue'
    BY <1>1, <2>1, Blank DEF FileFollows, VerdictTrue
  <2>6. Covered'
    <3>1. ASSUME NEW i \in Ids, agents[i].secret PROVE i \in lost
      <4>1. i # 0
        BY BoundsAssumption DEF Ids
      <4>2. i # disk.id
        BY <1>4, <3>1, <4>1 DEF SecretHeld
      <4> QED BY <1>1, <1>2, <3>1, <4>1, <4>2 DEF Covered
    <3> QED BY <1>1, <3>1 DEF Covered, table
  <2> QED BY <2>2, <2>3, <2>4, <2>5, <2>6
<1> QED BY <1>3, <1>4

LEMMA Stopped ==
    ASSUME KeysInv, Stop, UNCHANGED <<agents, created, op>>
    PROVE  KeysInv'
<1> USE DEF KeysInv
<1>1. /\ pc' = "down" /\ msg' = NoMsg /\ mem' = NoCredentials /\ cfgId' = 0 /\ auth' = 0
      /\ voidConfirmed' = 0 /\ disk' = disk /\ lost \subseteq lost'
  BY DEF Stop
<1>2. created \in Nat
  BY DEF KeysTypes
<1>3. KeysTypes'
  BY <1>1, Blank, BlankMessage, BoundsAssumption DEF KeysTypes
<1>4. TaskKnows' /\ CheckedFor' /\ FileFollows' /\ VerdictTrue'
  BY <1>1, Blank DEF TaskKnows, CheckedFor, FileFollows, VerdictTrue
<1>5. IdsKnown' /\ SecretHeld'
  BY <1>1, <1>2, Blank, BlankMessage DEF IdsKnown, SecretHeld
<1>6. Covered'
  <2>1. ASSUME NEW i \in Ids, agents[i].secret, i # disk.id PROVE i \in lost'
    <3>1. i # 0
      BY BoundsAssumption DEF Ids
    <3>2. i = mem.id => mem.unsaved /\ mem.id # disk.id
      BY <2>1, <3>1 DEF FileFollows
    <3> QED BY <2>1, <3>2 DEF Covered, Stop
  <2> QED BY <1>1, <2>1 DEF Covered
<1> QED BY <1>3, <1>4, <1>5, <1>6

-----------------------------------------------------------------------------
(* The server's side of recovery and registration.                             *)

LEMMA RecoveryAnswered ==
    ASSUME KeysInv, RecoverOnServer
    PROVE  KeysInv'
<1> USE DEF KeysInv
<1>1. /\ UNCHANGED <<created, op, mem, disk, cfgId, auth, voidConfirmed, why, lost>>
      /\ pc = "recover" /\ pc' = "recovered"
  BY DEF RecoverOnServer, install, flags
<1>2. /\ cfgId # 0 /\ cfgId \in Ids /\ agents \in [Ids -> Row] /\ agents[cfgId] \in Row
      /\ FreshKey \in Nat /\ mem.id = cfgId /\ created \in Nat
  BY <1>1, KeyToSpare, BoundsAssumption DEF TaskKnows, IdsKnown, KeysTypes, Ids
<1>3. PICK k \in {"regkey", "secret", "refused", "ok"}, y \in {0, FreshKey} :
        /\ msg' = [NoMsg EXCEPT !.kind = k, !.key = y]
        /\ k = "secret" => ~agents[cfgId].secret
  BY <1>2 DEF RecoverOnServer
<1>4. /\ msg' \in Message /\ msg'.auth = 0 /\ msg'.id = 0 /\ msg'.kind = k
  <2>1. y \in Nat
    BY <1>2
  <2> QED BY <1>3, <2>1, BlankMessage DEF Message
<1>5. \/ agents' = agents
      \/ agents' = [agents EXCEPT ![cfgId] = [agents[cfgId] EXCEPT !.key = FreshKey]]
  BY <1>2 DEF RecoverOnServer, Row
<1>6. /\ agents' \in [Ids -> Row]
      /\ \A i \in Ids : agents'[i].secret = agents[i].secret
  BY <1>2, <1>5 DEF Row
<1>7. KeysTypes'
  BY <1>1, <1>4, <1>6 DEF KeysTypes
<1>8. \A n \in 0..MaxAgents : n # 0 => n \in Ids
  BY BoundsAssumption DEF Ids
<1>9. mem.id \in 0..MaxAgents /\ disk.id \in 0..MaxAgents /\ voidConfirmed \in 0..MaxAgents
  BY DEF KeysTypes, Credentials
<1>10. TaskKnows' /\ CheckedFor'
  BY <1>1 DEF TaskKnows, CheckedFor
<1>11. IdsKnown' /\ SecretHeld'
  BY <1>1, <1>2, <1>4, <1>6, <1>8, <1>9 DEF IdsKnown, SecretHeld
<1>12. FileFollows'
  BY <1>1, <1>6, <1>8, <1>9 DEF FileFollows
<1>13. VerdictTrue'
  BY <1>1, <1>2, <1>3, <1>4, <1>6, <1>8, <1>9 DEF VerdictTrue
<1>14. Covered'
  BY <1>1, <1>6 DEF Covered
<1> QED BY <1>7, <1>10, <1>11, <1>12, <1>13, <1>14

LEMMA RegistrationAnswered ==
    ASSUME KeysInv, RegisterOnServer
    PROVE  KeysInv'
<1> USE DEF KeysInv
<1>1. /\ UNCHANGED <<op, mem, disk, cfgId, auth, voidConfirmed, why, lost>>
      /\ pc = "register" /\ pc' = "registered"
  BY DEF RegisterOnServer, install, flags
<1>2. CASE ~regKey
  <2>1. msg' = [NoMsg EXCEPT !.kind = "regkey"] /\ UNCHANGED <<agents, created>>
    BY <1>2 DEF RegisterOnServer
  <2>2. msg' \in Message /\ msg'.auth = 0 /\ msg'.id = 0 /\ msg'.kind = "regkey"
    BY <2>1, BlankMessage DEF Message
  <2>3. TaskKnows' /\ CheckedFor'
    BY <1>1, <2>2 DEF TaskKnows, CheckedFor
  <2>4. created \in Nat /\ UNCHANGED table
    BY <1>1, <2>1 DEF KeysTypes, RegisterOnServer, table
  <2> QED BY <1>1, <2>1, <2>2, <2>3, <2>4, QuietStep
<1>3. CASE regKey
  <2> DEFINE new == created + 1
  <2>1. /\ created' = new /\ new \in Ids /\ created \in Nat /\ agents \in [Ids -> Row]
    BY <1>3, BoundsAssumption DEF RegisterOnServer, KeysTypes, Ids
  <2>2. agents' = [agents EXCEPT ![new] = [status |-> "pending", key |-> 0, secret |-> TRUE]]
    BY <1>3, <2>1 DEF RegisterOnServer
  <2>3. msg' = [NoMsg EXCEPT !.kind = "ok", !.id = new]
    BY <1>3, <2>1 DEF RegisterOnServer
  <2>4. /\ msg' \in Message /\ msg'.auth = 0 /\ msg'.id = new /\ msg'.kind = "ok"
    <3>1. new \in 0..MaxAgents
      BY <2>1 DEF Ids
    <3> HIDE DEF new
    <3> QED BY <2>3, <3>1, BlankMessage DEF Message
  <2>5. /\ agents' \in [Ids -> Row]
        /\ \A i \in Ids : i # new => agents'[i] = agents[i]
    BY <2>1, <2>2 DEF Row, Statuses
  <2>6. \A n \in 0..MaxAgents : n # 0 => n \in Ids
    BY BoundsAssumption DEF Ids
  <2>7. /\ mem.id \in 0..MaxAgents /\ disk.id \in 0..MaxAgents
        /\ voidConfirmed \in 0..MaxAgents /\ cfgId \in 0..MaxAgents
        /\ mem.id <= created /\ disk.id <= created /\ voidConfirmed <= created
        /\ cfgId <= created
    BY DEF KeysTypes, Credentials, IdsKnown
  <2>8. mem.id # new /\ disk.id # new /\ voidConfirmed # new /\ new # 0
    BY <2>1, <2>7
  <2>9. KeysTypes'
    BY <1>1, <2>1, <2>4, <2>5 DEF KeysTypes, Ids
  <2>10. TaskKnows' /\ CheckedFor'
    BY <1>1, <2>4, <2>8 DEF TaskKnows, CheckedFor
  <2>11. IdsKnown'
    <3>1. \A i \in Ids : agents'[i].secret => i <= new
      <4> TAKE i \in Ids
      <4>1. CASE i = new
        BY <2>1, <4>1
      <4>2. CASE i # new
        <5>1. agents[i].secret => i <= created
          BY DEF IdsKnown
        <5> QED BY <2>1, <2>5, <4>2, <5>1 DEF Ids
      <4> QED BY <4>1, <4>2
    <3> QED BY <1>1, <2>1, <2>4, <2>7, <3>1 DEF IdsKnown
  <2> HIDE DEF new
  <2>12. SecretHeld'
    BY <1>1, <2>5, <2>6, <2>7, <2>8 DEF SecretHeld
  <2>13. FileFollows'
    BY <1>1, <2>5, <2>6, <2>7, <2>8 DEF FileFollows
  <2>14. VerdictTrue'
    BY <1>1, <2>4, <2>5, <2>6, <2>7, <2>8 DEF VerdictTrue
  <2>15. Covered'
    BY <1>1, <2>4, <2>5 DEF Covered
  <2> QED BY <2>9, <2>10, <2>11, <2>12, <2>13, <2>14, <2>15
<1> QED BY <1>2, <1>3

-----------------------------------------------------------------------------
(* Theorems.                                                                   *)

LEMMA KeysInit ==
    ASSUME Init
    PROVE  KeysInv
<1>1. PICK legacy \in {"none", "keyed", "unkeyed"} : Init!1!(legacy)
  BY DEF Init
<1>2. /\ created \in {0, 1} /\ created \in 0..MaxAgents
      /\ legacy # "none" => created = 1
  BY <1>1, BoundsAssumption
<1>3. agents \in [Ids -> Row] /\ \A i \in Ids : ~agents[i].secret
  BY <1>1 DEF Row, Absent, Statuses
<1>4. /\ disk \in Credentials /\ disk.id = created /\ ~disk.secret
      /\ disk.key # 0 => legacy = "keyed"
  <2> DEFINE k == IF legacy = "keyed" THEN 1 ELSE 0
  <2>1. k \in Nat /\ (k # 0 => legacy = "keyed")
    OBVIOUS
  <2>2. disk = [NoCredentials EXCEPT !.id = created, !.key = k]
    BY <1>1
  <2> HIDE DEF k
  <2> QED BY <1>2, <2>1, <2>2 DEF NoCredentials, Credentials
<1>5. /\ op = <<>> /\ mem = NoCredentials /\ cfgId = 0 /\ auth = 0
      /\ voidConfirmed = 0 /\ pc = "down" /\ msg = NoMsg
  BY DEF Init
<1>6. KeysTypes
  BY <1>2, <1>3, <1>4, <1>5, Blank, BlankMessage, BoundsAssumption DEF KeysTypes, Changes
<1>7. TaskKnows /\ SecretHeld /\ FileFollows /\ VerdictTrue /\ Covered /\ CheckedFor
  <2>1. disk.id # 0 => disk.id \in Ids
    BY <1>2, <1>4, BoundsAssumption DEF Ids
  <2> QED BY <1>3, <1>5, <2>1, Blank
          DEF TaskKnows, SecretHeld, FileFollows, VerdictTrue, Covered, CheckedFor
<1>8. IdsKnown
  BY <1>2, <1>3, <1>4, <1>5, Blank, BlankMessage DEF IdsKnown
<1> QED BY <1>6, <1>7, <1>8 DEF KeysInv

LEMMA KeysNext ==
    ASSUME KeysInv, [Next]_vars
    PROVE  KeysInv'
<1>1. CASE UNCHANGED vars
  BY <1>1 DEF vars, KeysInv, KeysTypes, TaskKnows, IdsKnown, SecretHeld, FileFollows,
              VerdictTrue, Covered, CheckedFor
<1>2. CASE Agent
  BY <1>2, Started, HeartbeatSent, Authenticated, HeartbeatProcessed, HeartbeatAccepted,
     ApprovalHandled, HeartbeatRefused, TaskRests, RecoveryAnswered, RecoveredKeySaved,
     RecoveryRefused, RegistrationAnswered, RegistrationSaved, RegistrationFails,
     ChecksFetched DEF Agent
<1>3. CASE WriteStatus \/ RevokeRegistrationKey
  BY <1>3, StatusWritten, RegistrationKeyRevoked
<1>4. CASE Reconfigure \/ Crash
  BY <1>4, Stopped DEF Reconfigure, Crash, table
<1>5. CASE LoseCall \/ FetchLost
  BY <1>5, CallLost, TaskRests
<1>6. CASE \E w \in waits : WaitOver(w)
  BY <1>6, TimePasses
<1>7. CASE \E i \in Ids :
             \/ ApproveAgent(i) \/ ReadStatus(i) \/ GenerateAgentKey(i)
             \/ RegenerateAgentKey(i) \/ RevokeAgentKey(i) \/ DeleteAgent(i)
  BY <1>7, OperatorsKeep
<1> QED BY <1>1, <1>2, <1>3, <1>4, <1>5, <1>6, <1>7 DEF Next

\* For any number of rows, operator actions and faults: every row whose secret is
\* on record is the agent's in memory or on file, or the one whose registration
\* is being answered, or one whose credentials a fault or a verdict about an
\* earlier row took.
THEOREM NoAgentIsLeftBehind == Spec => []NoAgentLeftBehind
<1>1. Init => KeysInv
  BY KeysInit
<1>2. KeysInv /\ [Next]_vars => KeysInv'
  BY KeysNext
<1>3. KeysInv => NoAgentLeftBehind
  BY DEF KeysInv, Covered, NoAgentLeftBehind, Rows
<1> QED BY <1>1, <1>2, <1>3, PTL DEF Spec

\* Only process_heartbeat applies a heartbeat.
LEMMA OthersApplyNothing ==
    ASSUME KeysInv, Next, ~ProcessHeartbeat
    PROVE  msg'.applied => msg.applied
<1>1. msg \in Message
  BY DEF KeysInv, KeysTypes
<1>2. NoMsg.applied = FALSE /\ NoMsg \in Message
  BY BlankMessage DEF NoMsg
<1>3. CASE msg' = msg \/ msg' = NoMsg
  BY <1>2, <1>3
<1>4. CASE LoseCall
  BY <1>1, <1>4 DEF LoseCall, Message
<1>5. CASE Authenticate
  <2>1. pc = "sent"
    BY <1>5 DEF Authenticate
  <2> QED BY <1>1, <1>5 DEF Authenticate, Reply, Message
<1>6. CASE SendHeartbeat \/ RecoverOnServer \/ RegisterOnServer
  BY <1>2, <1>6 DEF SendHeartbeat, RecoverOnServer, RegisterOnServer, Message
<1>7. Idle \/ SyncChecks => msg' = NoMsg
  BY DEF Idle, SyncChecks, Call
<1>8. \A for \in {"approval", "refused"} : RecoverAgentKey(for) => msg' = NoMsg
  BY DEF RecoverAgentKey, Call
<1>9. NotRecovered("approval", voidConfirmed # 0) => msg' = NoMsg
  BY <1>7 DEF NotRecovered, RegisterAgain, Call
<1>10. NotRecovered("refused", voidConfirmed # 0) => msg' = NoMsg
  BY <1>7 DEF NotRecovered, RegisterAgain, Call
<1>11. CASE Start \/ FetchChecks \/ FetchLost \/ BeatLost \/ Crash \/ Reconfigure
  BY <1>3, <1>7, <1>11 DEF Start, FetchChecks, FetchLost, BeatLost, Crash, Reconfigure,
                           Stop, Call
<1>12. CASE BeatAccepted \/ HandleApproval \/ BeatRefused
  BY <1>3, <1>7, <1>8, <1>9, <1>10, <1>12 DEF BeatAccepted, HandleApproval, BeatRefused, Call
<1>13. CASE KeyNotRecovered
  <2>1. msg' = NoMsg
    BY <1>7, <1>13 DEF KeyNotRecovered, NotRecovered, RegisterAgain, Call
  <2> QED BY <1>3, <2>1
<1>14. CASE KeyRecovered \/ Registered \/ NotRegistered
  BY <1>3, <1>7, <1>14 DEF KeyRecovered, Registered, NotRegistered, Call
<1>15. CASE WriteStatus \/ RevokeRegistrationKey \/ \E w \in waits : WaitOver(w)
  BY <1>3, <1>15 DEF WriteStatus, RevokeRegistrationKey, Operate, WaitOver
<1>16. CASE \E i \in Ids :
             \/ ApproveAgent(i) \/ ReadStatus(i) \/ GenerateAgentKey(i)
             \/ RegenerateAgentKey(i) \/ RevokeAgentKey(i) \/ DeleteAgent(i)
  BY <1>3, <1>16 DEF ApproveAgent, ReadStatus, GenerateAgentKey, RegenerateAgentKey,
                     RevokeAgentKey, DeleteAgent, Operate
<1> QED BY <1>4, <1>5, <1>6, <1>11, <1>12, <1>13, <1>14, <1>15, <1>16 DEF Next, Agent

\* Whoever process_heartbeat applies a heartbeat for holds the row's key, or the
\* secret of a row that waits for its approval, at that moment.
LEMMA AppliedForHolder ==
    ASSUME KeysInv, ProcessHeartbeat, msg'.applied, ~msg.applied
    PROVE  LET a == agents[msg.id]
           IN  \/ a.status = "active" /\ a.key # 0 /\ msg.auth = a.key
               \/ /\ a.status = "pending" /\ a.key = 0
                  /\ msg.secret # 0 => a.secret /\ msg.secret = msg.id
<1> DEFINE a == agents[msg.id]
           using == msg.using /\ a.key = msg.verified
<1>1. msg \in Message /\ pc = "checked"
  BY DEF KeysInv, KeysTypes, ProcessHeartbeat
<1>2. /\ ~(using /\ a.status # "active")
      /\ ~(~msg.using /\ msg.secret # 0 /\ ~a.secret)
      /\ using \/ (a.status = "pending" /\ a.key = 0)
  BY <1>1 DEF ProcessHeartbeat, Reply, Message
<1>3. CASE using
  BY <1>1, <1>2, <1>3 DEF KeysInv, CheckedFor
<1>4. CASE ~using
  BY <1>1, <1>2, <1>4 DEF KeysInv, CheckedFor
<1> QED BY <1>3, <1>4

\* For any number of rows, operator actions and faults: a heartbeat writes onto an
\* agent only for who holds its credentials at that moment.
THEOREM HeartbeatsAreHolders == Spec => OnlyHolderApplies
<1>1. Init => KeysInv
  BY KeysInit
<1>2. KeysInv /\ [Next]_vars => KeysInv'
  BY KeysNext
<1> DEFINE Holder ==
      msg'.applied /\ ~msg.applied =>
         LET a == agents[msg.id]
         IN  \/ a.status = "active" /\ a.key # 0 /\ msg.auth = a.key
             \/ /\ a.status = "pending" /\ a.key = 0
                /\ msg.secret # 0 => a.secret /\ msg.secret = msg.id
<1>3. KeysInv /\ [Next]_vars => [Holder]_vars
  <2> SUFFICES ASSUME KeysInv, Next PROVE Holder
    OBVIOUS
  <2>1. CASE ProcessHeartbeat
    BY <2>1, AppliedForHolder
  <2>2. CASE ~ProcessHeartbeat
    BY <2>2, OthersApplyNothing
  <2> QED BY <2>1, <2>2
<1> QED BY <1>1, <1>2, <1>3, PTL DEF Spec, OnlyHolderApplies
=============================================================================
