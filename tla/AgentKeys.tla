----------------------------- MODULE AgentKeys -----------------------------
(* The credentials of one agent install: registration, approval, its own key,  *)
(* the recovery secret that proves it without one, and what operators do to    *)
(* them meanwhile (the agent's registration.py, credentials.py, heartbeat.py;  *)
(* the server's security.py and agent_core_service.py), with authentication    *)
(* enabled.                                                                    *)
(*                                                                             *)
(* An agent's secret is told by the id of the row it was issued for, a key by  *)
(* a number nobody else holds, and 0 stands for the shared registration key,   *)
(* or for no id and no key.  The waits between attempts are a set of names     *)
(* that time removes.  One agent task makes all the calls, one at a time.      *)
EXTENDS Naturals, FiniteSets

CONSTANTS
    MaxAgents,  \* bound: rows the install may register
    MaxOps,     \* bound: what operators do
    MaxFaults   \* bound: crashes, lost or foreign answers, failed saves

ASSUME BoundsAssumption ==
    MaxAgents \in Nat \ {0} /\ MaxOps \in Nat /\ MaxFaults \in Nat

VARIABLES
    agents,          \* the rows of the server's table, by id
    created,         \* how many were ever made
    regKey,          \* whether the install's registration key is active
    op,              \* a change of status read and not yet written: <<id, status>>
    mem, disk,       \* the credentials in memory and in the file
    cfgId, auth,     \* config's agent_id and auth_key
    keyRefused,      \* HeartbeatSender.key_refused
    secretRefused,   \* HeartbeatSender._secret_refused
    voidConfirmed,   \* AgentRegistration._secret_refused: whose, or 0
    recoveryRefused, \* AgentRegistration._recovery_refused
    waits,           \* the waits that have not passed
    pc, why,         \* where the agent's task is, and for whom it calls
    msg,             \* the request, then the answer, of the call it is in
    lost,            \* history: rows whose credentials never reached the disk,
                     \* or given up on a verdict about an earlier row
    ops, faults

table == <<agents, created, regKey, op>>
flags == <<keyRefused, secretRefused, voidConfirmed, recoveryRefused>>
install == <<mem, disk, cfgId, auth, waits>>
budget == <<ops, faults>>
vars == <<agents, created, regKey, op, mem, disk, cfgId, auth, keyRefused,
          secretRefused, voidConfirmed, recoveryRefused, waits, pc, why, msg,
          lost, ops, faults>>

Ids == 1..MaxAgents
Keys == 1..(MaxAgents + 6)
Statuses == {"pending", "active", "rejected", "paused", "disabled", "archived"}
Absent == [status |-> "absent", key |-> 0, secret |-> FALSE]
NoCredentials == [id |-> 0, key |-> 0, secret |-> FALSE, unsaved |-> FALSE]
NoMsg == [kind |-> "none", id |-> 0, auth |-> 0, secret |-> 0, using |-> FALSE,
          verified |-> 0, status |-> "absent", applied |-> FALSE, key |-> 0]

Rows == {i \in Ids : agents[i] # Absent}

(* new_agent_key: a key nobody holds.                                          *)
FreshKey ==
    CHOOSE k \in Keys :
        k \notin {agents[i].key : i \in Ids}
                 \cup {mem.key, disk.key, auth, msg.auth, msg.verified, msg.key}

Fault == faults < MaxFaults /\ faults' = faults + 1 /\ UNCHANGED ops

(* A save of the credentials: the file is replaced as a whole, or rewritten in *)
(* place where no rename can land.  When it fails they stay in memory, unsaved,*)
(* and the file is as before, or, rewritten in part, one nobody can read.      *)
Save(creds) ==
    \/ /\ mem' = [creds EXCEPT !.unsaved = FALSE]
       /\ disk' = [creds EXCEPT !.unsaved = FALSE]
       /\ UNCHANGED budget
    \/ /\ Fault
       /\ mem' = [creds EXCEPT !.unsaved = TRUE]
       /\ disk' \in {disk, NoCredentials}

-----------------------------------------------------------------------------
(* Operators.                                                                  *)

Operate == ops < MaxOps /\ ops' = ops + 1
           /\ UNCHANGED <<install, flags, pc, why, msg, lost, faults>>

ApproveAgent(i) ==
    /\ agents[i].status \in {"pending", "rejected"} /\ Operate
    /\ agents' = [agents EXCEPT ![i].status = "active", ![i].key = FreshKey]
    /\ UNCHANGED <<created, regKey, op>>

(* What each of the other operator actions moves an agent from, and to.        *)
Moves == {<<"pending", "rejected">>, <<"active", "paused">>,
          <<"paused", "active">>, <<"active", "disabled">>,
          <<"paused", "disabled">>, <<"disabled", "active">>,
          <<"active", "archived">>, <<"paused", "archived">>,
          <<"disabled", "archived">>, <<"archived", "disabled">>}

(* They check the row they read, unlocked ...                                  *)
ReadStatus(i) ==
    /\ op = <<>> /\ Operate
    /\ \E m \in Moves : m[1] = agents[i].status /\ op' = <<i, m[2]>>
    /\ UNCHANGED <<agents, created, regKey>>

(* ... and write it in a later statement; an update of a row that is gone      *)
(* fails.                                                                      *)
WriteStatus ==
    /\ op # <<>>
    /\ agents' = IF op[1] \in Rows
                 THEN [agents EXCEPT ![op[1]].status = op[2]] ELSE agents
    /\ op' = <<>>
    /\ UNCHANGED <<created, regKey, install, flags, pc, why, msg, lost, budget>>

GenerateAgentKey(i) ==
    /\ i \in Rows /\ agents[i].key = 0 /\ Operate
    /\ agents' = [agents EXCEPT ![i].key = FreshKey]
    /\ UNCHANGED <<created, regKey, op>>

RegenerateAgentKey(i) ==
    /\ i \in Rows /\ agents[i].key # 0 /\ Operate
    /\ agents' = [agents EXCEPT ![i].key = FreshKey]
    /\ UNCHANGED <<created, regKey, op>>

(* Clears the key and the secret.                                              *)
RevokeAgentKey(i) ==
    /\ i \in Rows /\ (agents[i].key # 0 \/ agents[i].secret) /\ Operate
    /\ agents' = [agents EXCEPT ![i].key = 0, ![i].secret = FALSE]
    /\ UNCHANGED <<created, regKey, op>>

DeleteAgent(i) ==
    /\ i \in Rows /\ Operate
    /\ agents' = [agents EXCEPT ![i] = Absent]
    /\ UNCHANGED <<created, regKey, op>>

RevokeRegistrationKey ==
    regKey /\ Operate /\ regKey' = FALSE /\ UNCHANGED <<agents, created, op>>

-----------------------------------------------------------------------------
(* The server's side of the agent's calls.                                     *)

Reply(kind) == pc' = "answer" /\ msg' = [msg EXCEPT !.kind = kind]

(* authenticate_heartbeat.  A key that is not the agent's falls back to the    *)
(* pending credential: the secret or, without one, the registration key.       *)
Authenticate ==
    /\ pc = "sent"
    /\ LET a == agents[msg.id]
           ownKey == a.key # 0 /\ msg.auth = a.key
           secretOk == a.secret /\ msg.secret = msg.id
           neverKeyed == a.key = 0 /\ a.status \in {"pending", "rejected"}
           Pass(using) ==
               /\ pc' = "checked"
               /\ msg' = [msg EXCEPT !.using = using,
                                     !.verified = IF using THEN a.key ELSE 0]
       IN  IF a = Absent THEN Reply("missing")
           ELSE IF ownKey THEN IF a.status = "active" THEN Pass(TRUE)
                               ELSE Reply("refused")
           ELSE IF msg.secret # 0
                THEN IF secretOk THEN Pass(FALSE) ELSE Reply("secret")
           ELSE IF msg.auth # 0 THEN Reply("agentkey")
           ELSE IF regKey THEN Pass(FALSE)
           ELSE Reply(IF neverKeyed THEN "regkey" ELSE "agentkey")
    /\ UNCHANGED <<table, install, flags, why, lost, budget>>

(* Goes by what the authentication found, before the lock.                     *)
ProcessHeartbeatTrusting ==
    /\ pc = "checked" /\ pc' = "answer"
    /\ msg' = [msg EXCEPT !.kind = "ok", !.status = agents[msg.id].status,
                          !.applied = msg.using \/ agents[msg.id].key = 0]
    /\ UNCHANGED <<table, install, flags, why, lost, budget>>

(* process_heartbeat, with the row locked and what was checked judged again.   *)
ProcessHeartbeat ==
    /\ pc = "checked"
    /\ LET a == agents[msg.id]
           using == msg.using /\ a.key = msg.verified
       IN  IF a = Absent THEN Reply("missing")
           ELSE IF using /\ a.status # "active" THEN Reply("refused")
           ELSE IF ~msg.using /\ msg.secret # 0 /\ ~a.secret
                THEN Reply("secret")
           ELSE /\ pc' = "answer"
                /\ msg' = [msg EXCEPT
                       !.kind = "ok", !.using = using, !.status = a.status,
                       !.applied = using
                                   \/ (a.status = "pending" /\ a.key = 0)]
    /\ UNCHANGED <<table, install, flags, why, lost, budget>>

(* recover_agent_key, under the registration key, with the row locked.         *)
RecoverOnServer ==
    /\ pc = "recover" /\ pc' = "recovered"
    /\ LET a == agents[cfgId]
           granted == regKey /\ a.secret /\ mem.id = cfgId /\ a.status = "active"
       IN  /\ msg' = [NoMsg EXCEPT
                  !.kind = IF ~regKey THEN "regkey"
                           ELSE IF ~a.secret \/ mem.id # cfgId THEN "secret"
                           ELSE IF ~granted THEN "refused" ELSE "ok",
                  !.key = IF granted THEN FreshKey ELSE 0]
           /\ agents' = IF granted THEN [agents EXCEPT ![cfgId].key = FreshKey]
                        ELSE agents
    /\ UNCHANGED <<created, regKey, op, install, flags, why, lost, budget>>

(* register_agent, under the registration key: a pending row and its secret.   *)
RegisterOnServer ==
    /\ pc = "register" /\ pc' = "registered"
    /\ IF regKey
       THEN /\ created < MaxAgents /\ created' = created + 1
            /\ agents' = [agents EXCEPT ![created'] =
                   [status |-> "pending", key |-> 0, secret |-> TRUE]]
            /\ msg' = [NoMsg EXCEPT !.kind = "ok", !.id = created']
       ELSE /\ msg' = [NoMsg EXCEPT !.kind = "regkey"]
            /\ UNCHANGED <<agents, created>>
    /\ UNCHANGED <<regKey, op, install, flags, why, lost, budget>>

(* The call fails on the way, or a proxy answers it: what the agent sees says  *)
(* nothing of the server.  A registration whose answer is lost leaves a row    *)
(* nobody has the secret of.                                                   *)
LoseCall ==
    /\ pc \in {"sent", "checked", "answer", "recover", "recovered", "register",
               "registered"}
    /\ msg.kind \notin {"lost", "foreign"} /\ Fault
    /\ pc' = IF pc \in {"sent", "checked"} THEN "answer"
             ELSE IF pc = "recover" THEN "recovered"
             ELSE IF pc = "register" THEN "registered" ELSE pc
    /\ \E kind \in {"lost", "foreign"} : msg' = [msg EXCEPT !.kind = kind]
    /\ lost' = IF pc = "registered" /\ msg.kind = "ok"
               THEN lost \cup {msg.id} ELSE lost
    /\ UNCHANGED <<table, install, flags, why>>

-----------------------------------------------------------------------------
(* The agent's task: calls of the heartbeat loop, and what follows each.       *)

Call(to, for) == pc' = to /\ why' = for /\ msg' = NoMsg
Idle == Call("idle", "beat")

(* Never presents the secret beside a key.                                     *)
SendHeartbeatOnce ==
    /\ pc = "idle" /\ pc' = "sent"
    /\ msg' = [NoMsg EXCEPT
           !.id = cfgId, !.auth = auth,
           !.secret = IF mem.secret /\ mem.key = 0 THEN mem.id ELSE 0]
    /\ UNCHANGED <<table, install, flags, why, lost, budget>>

(* _auth_headers: the secret rides only while no key of the agent's is taken.  *)
SendHeartbeat ==
    /\ pc = "idle" /\ pc' = "sent"
    /\ msg' = [NoMsg EXCEPT
           !.id = cfgId, !.auth = auth,
           !.secret = IF mem.secret /\ (mem.key = 0 \/ keyRefused)
                      THEN mem.id ELSE 0]
    /\ UNCHANGED <<table, install, flags, why, lost, budget>>

(* _sync_checks: a fetch, when one is due.                                     *)
SyncChecks == Call("fetch", "beat") \/ Idle

(* The start of recover_agent_key: held back, or without a secret a fresh      *)
(* registration, or the call.                                                  *)
HeldBack == recoveryRefused \/ "recover" \in waits
RecoverAgentKey(for) ==
    IF mem.secret
    THEN Call("recover", for) /\ UNCHANGED <<mem, disk>>
    ELSE /\ Call("register", "afresh")
         /\ mem' = NoCredentials /\ disk' = NoCredentials

(* register_again_after_revoke, once recover-key refused the secret too, and   *)
(* what follows a key that was not recovered.                                  *)
RegisterAgain(for) ==
    IF "register" \in waits
    THEN IF for = "approval" THEN SyncChecks ELSE Idle
    ELSE Call("register", for)
NotRecovered(for, void) ==
    IF void THEN RegisterAgain(for)
    ELSE IF for = "approval" THEN SyncChecks ELSE Idle

(* A heartbeat answered 200: what it says of the key, and credentials the disk *)
(* would not take before.                                                      *)
BeatAccepted ==
    /\ pc = "answer" /\ msg.kind = "ok"
    /\ LET refused == mem.key # 0 /\ ~msg.using
       IN  /\ keyRefused' = refused /\ secretRefused' = FALSE
           /\ IF ~refused /\ mem.unsaved THEN Save(mem)
              ELSE UNCHANGED <<mem, disk, budget>>
           /\ IF msg.status = "active" /\ (mem.key = 0 \/ refused)
              THEN Call("approved", "approval") ELSE SyncChecks
    /\ UNCHANGED <<table, cfgId, auth, waits, voidConfirmed, recoveryRefused, lost>>

(* _handle_agent_approval, and the agent's callback for it.                    *)
HandleApproval ==
    /\ pc = "approved"
    /\ IF HeldBack
       THEN NotRecovered("approval", voidConfirmed # 0) /\ UNCHANGED <<mem, disk>>
       ELSE RecoverAgentKey("approval")
    /\ UNCHANGED <<table, cfgId, auth, waits, flags, lost, budget>>

(* A heartbeat answered otherwise: only the server's marked refusals speak of  *)
(* the credentials (_read_refusal), and a refused secret is asked about once.  *)
BeatRefused ==
    /\ pc = "answer" /\ msg.kind \notin {"ok", "lost"}
    /\ LET void == secretRefused \/ (msg.secret # 0 /\ msg.kind = "secret")
       IN  /\ secretRefused' = void
           /\ keyRefused' = (keyRefused
                  \/ (msg.secret = 0 /\ mem.key # 0
                      /\ msg.kind \in {"agentkey", "regkey"}))
           /\ IF ~void THEN Idle /\ UNCHANGED <<mem, disk>>
              ELSE IF voidConfirmed # 0 \/ "register" \in waits \/ HeldBack
              THEN /\ NotRecovered("refused", voidConfirmed # 0)
                   /\ UNCHANGED <<mem, disk>>
              ELSE RecoverAgentKey("refused")
    /\ UNCHANGED <<table, cfgId, auth, waits, voidConfirmed, recoveryRefused,
                   lost, budget>>

BeatLost ==
    /\ pc = "answer" /\ msg.kind = "lost" /\ Idle
    /\ UNCHANGED <<table, install, flags, lost, budget>>

(* The answer of recover-key.  A key is used even when it cannot be saved, and *)
(* the secret is kept with it; a second key within the hour holds the next     *)
(* recovery back.                                                              *)
KeyRecovered ==
    /\ pc = "recovered" /\ msg.kind = "ok"
    /\ Save([mem EXCEPT !.key = msg.key]) /\ auth' = msg.key
    /\ waits' = waits \cup {IF "repeat" \in waits THEN "recover" ELSE "repeat"}
    /\ IF why = "approval" THEN keyRefused' = FALSE /\ Call("fetch", "beat")
       ELSE Idle /\ UNCHANGED keyRefused
    /\ UNCHANGED <<table, cfgId, secretRefused, voidConfirmed, recoveryRefused, lost>>

(* Takes any refusal for one.                                                  *)
RefusesSecretUnmarked(kind) == kind \in {"secret", "foreign"}

(* What makes the agent give its identity up: the server's own refusal of the  *)
(* secret.                                                                     *)
RefusesSecret(kind) == kind = "secret"
KeyNotRecovered ==
    /\ pc = "recovered" /\ msg.kind # "ok"
    /\ voidConfirmed' = IF RefusesSecret(msg.kind) THEN mem.id ELSE voidConfirmed
    /\ recoveryRefused' = (recoveryRefused \/ msg.kind = "regkey")
    /\ waits' = IF msg.kind = "foreign" THEN waits \cup {"recover"} ELSE waits
    /\ NotRecovered(why, voidConfirmed' # 0)
    /\ UNCHANGED <<table, mem, disk, cfgId, auth, keyRefused, secretRefused,
                   lost, budget>>

(* The answer of a registration: the row is used even when it cannot be saved, *)
(* and whoever asked goes on.  Only register_again_after_revoke forgets what   *)
(* recover-key said of the row before.                                         *)
Registered ==
    /\ pc = "registered" /\ msg.kind = "ok"
    /\ Save([NoCredentials EXCEPT !.id = msg.id, !.secret = TRUE])
    /\ cfgId' = msg.id /\ recoveryRefused' = FALSE
    /\ waits' = waits \ {"recover", "repeat"}
    /\ IF why \in {"approval", "refused"}
       THEN /\ voidConfirmed' = 0 /\ auth' = 0
            /\ lost' = IF voidConfirmed = mem.id THEN lost ELSE lost \cup {mem.id}
       ELSE UNCHANGED <<voidConfirmed, auth, lost>>
    /\ IF why = "refused"
       THEN secretRefused' = FALSE /\ keyRefused' = FALSE
       ELSE UNCHANGED <<secretRefused, keyRefused>>
    /\ IF why \in {"start", "fetch"} THEN Call("fetch", why)
       ELSE IF why = "refused" THEN Idle ELSE SyncChecks
    /\ UNCHANGED table

NotRegistered ==
    /\ pc = "registered" /\ msg.kind # "ok"
    /\ waits' = IF why \in {"approval", "refused"} THEN waits \cup {"register"}
                ELSE waits
    /\ IF why = "start" THEN Call("down", "beat")
       ELSE IF why \in {"fetch", "refused"} THEN Idle ELSE SyncChecks
    /\ UNCHANGED <<table, mem, disk, cfgId, auth, flags, lost, budget>>

(* fetch_checks_from_server: an agent the server does not know drops its       *)
(* credentials and registers again.                                            *)
FetchChecks ==
    /\ pc = "fetch"
    /\ IF cfgId \in Rows
       THEN Idle /\ UNCHANGED <<mem, disk>>
       ELSE /\ Call("register", "fetch")
            /\ mem' = NoCredentials /\ disk' = NoCredentials
    /\ UNCHANGED <<table, cfgId, auth, waits, flags, lost, budget>>

(* A fetch that fails leaves the cached checks.                                *)
FetchLost ==
    /\ pc = "fetch" /\ Fault /\ Idle
    /\ UNCHANGED <<table, install, flags, lost>>

(* Time: a wait between attempts passes.                                       *)
WaitOver(w) ==
    /\ w \in waits /\ waits' = waits \ {w}
    /\ UNCHANGED <<table, mem, disk, cfgId, auth, flags, pc, why, msg, lost, budget>>

(* A process that starts loads the file; one without credentials, or with      *)
(* some that could never be completed, registers first.                        *)
Start ==
    /\ pc = "down"
    /\ keyRefused' = FALSE /\ secretRefused' = FALSE
    /\ voidConfirmed' = 0 /\ recoveryRefused' = FALSE /\ waits' = {}
    /\ cfgId' = disk.id /\ auth' = disk.key
    /\ IF disk.key # 0 \/ disk.secret
       THEN mem' = disk /\ UNCHANGED disk /\ Call("fetch", "start")
       ELSE /\ mem' = NoCredentials /\ disk' = NoCredentials
            /\ Call("register", "start")
    /\ UNCHANGED <<table, lost, budget>>

(* What the memory alone held is gone.                                         *)
Stop ==
    /\ pc' = "down" /\ why' = "beat" /\ msg' = NoMsg
    /\ lost' = lost
          \cup (IF pc = "registered" /\ msg.kind = "ok" THEN {msg.id} ELSE {})
          \cup (IF mem.unsaved /\ mem.id # disk.id THEN {mem.id} ELSE {})
    /\ mem' = NoCredentials /\ cfgId' = 0 /\ auth' = 0 /\ waits' = {}
    /\ keyRefused' = FALSE /\ secretRefused' = FALSE
    /\ voidConfirmed' = 0 /\ recoveryRefused' = FALSE
    /\ UNCHANGED disk

Crash == pc # "down" /\ Fault /\ Stop /\ UNCHANGED table

(* A new registration key is created and given to the agent, which restarts.   *)
Reconfigure ==
    /\ ~regKey /\ regKey' = TRUE /\ Stop
    /\ UNCHANGED <<agents, created, op, budget>>

-----------------------------------------------------------------------------
(* A first start, or one with the file of an agent registered before recovery  *)
(* secrets existed: with its key, or approved and never completed.             *)
Init ==
    /\ \E legacy \in {"none", "keyed", "unkeyed"} :
          /\ agents = [i \in Ids |->
                 IF i = 1 /\ legacy # "none"
                 THEN [status |-> "active", key |-> 1, secret |-> FALSE]
                 ELSE Absent]
          /\ created = (IF legacy = "none" THEN 0 ELSE 1)
          /\ disk = [NoCredentials EXCEPT
                 !.id = created, !.key = IF legacy = "keyed" THEN 1 ELSE 0]
    /\ regKey = TRUE /\ op = <<>> /\ mem = NoCredentials
    /\ cfgId = 0 /\ auth = 0 /\ waits = {}
    /\ keyRefused = FALSE /\ secretRefused = FALSE
    /\ voidConfirmed = 0 /\ recoveryRefused = FALSE
    /\ pc = "down" /\ why = "beat" /\ msg = NoMsg
    /\ lost = {} /\ ops = 0 /\ faults = 0

Agent ==
    \/ Start \/ SendHeartbeat \/ Authenticate \/ ProcessHeartbeat
    \/ BeatAccepted \/ HandleApproval \/ BeatRefused \/ BeatLost
    \/ RecoverOnServer \/ KeyRecovered \/ KeyNotRecovered
    \/ RegisterOnServer \/ Registered \/ NotRegistered \/ FetchChecks

Next ==
    \/ Agent \/ WriteStatus \/ RevokeRegistrationKey \/ Reconfigure
    \/ LoseCall \/ FetchLost \/ Crash
    \/ \E w \in waits : WaitOver(w)
    \/ \E i \in Ids :
          \/ ApproveAgent(i) \/ ReadStatus(i) \/ GenerateAgentKey(i)
          \/ RegenerateAgentKey(i) \/ RevokeAgentKey(i) \/ DeleteAgent(i)

Waits == {"recover", "register", "repeat"}

(* The task's loop goes on, its requests are answered or time out, a process   *)
(* that ended is started again, and waits pass.                                *)
Fairness ==
    WF_vars(Agent) /\ \A w \in Waits : WF_vars(WaitOver(w))

Spec == Init /\ [][Next]_vars /\ Fairness

-----------------------------------------------------------------------------
(* Properties.                                                                 *)

(* process_heartbeat: a heartbeat writes onto an agent, and is given its jobs, *)
(* only for who holds the agent's credentials at that moment, whatever was     *)
(* revoked, regenerated, paused or approved since they were checked.           *)
OnlyHolderApplies ==
    [][msg'.applied /\ ~msg.applied =>
         LET a == agents[msg.id]
         IN  \/ a.status = "active" /\ a.key # 0 /\ msg.auth = a.key
             \/ /\ a.status = "pending" /\ a.key = 0
                /\ msg.secret # 0 => a.secret /\ msg.secret = msg.id]_vars

(* register_again_after_revoke, register_with_server: an install never leaves  *)
(* an agent behind that it could still prove to be; one whose secret is on     *)
(* record is the one it holds or is about to, unless the answer or the save    *)
(* that carried the secret was lost, or recover-key's verdict on an agent      *)
(* before it, which an orphan's registration does not clear, was taken for it. *)
NoAgentLeftBehind ==
    \A i \in Rows :
        agents[i].secret =>
            \/ i = disk.id \/ i = mem.id \/ i \in lost
            \/ pc = "registered" /\ msg.kind = "ok" /\ i = msg.id

(* The install's agent is what its operators made it: it holds its key, or     *)
(* only an operator (an approval, a status, a registration key) can go on.     *)
Connected ==
    \/ pc # "down" /\ cfgId \in Rows /\ agents[cfgId].key = auth /\ auth # 0
    \/ cfgId \in Rows /\ agents[cfgId].status # "active"
    \/ ~regKey

(* The cases the code leaves to a restart, or to an operator: a row deleted    *)
(* under a running agent, and an agent from before recovery secrets.           *)
NeedsRestart == pc # "down" /\ (cfgId \notin Rows \/ ~mem.secret)

(* _handle_agent_approval, _read_refusal, register_again_after_revoke: after   *)
(* every approval, new key, revoke, lost answer, failed save and crash, the    *)
(* agent comes to hold its key again by itself.                                *)
Reconnects == <>[](Connected \/ NeedsRestart)

=============================================================================
