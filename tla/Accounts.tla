------------------------------ MODULE Accounts ------------------------------
(* Users, their sessions and API tokens: concurrent requests, each a database  *)
(* transaction, sign in, change, reset, recover, update, delete, unlock and    *)
(* mint (auth_core_service.py, user_core_service.py, api_token_core_service.py)*)
(* and the first admin comes to exist (admin_bootstrap_core_service.py).       *)
(*                                                                             *)
(* A request that reads a row in one statement and writes it in a later one is *)
(* two actions; `seen` is the row as it read it.  What it holds in between is  *)
(* in `owner`: a row lock (FOR UPDATE), or the first-boot advisory lock.  A    *)
(* request whose statements all follow its lock is one action.  A password is  *)
(* a number, new ones being larger; a client who knows the stored one can give *)
(* it or a wrong one.                                                          *)
EXTENDS Naturals, FiniteSets, Functions

CONSTANTS
    Users, Requests, Nobody,
    FirstBoot,      \* the advisory lock of first boots
    Tables,         \* the user tables to start from
    MaxAttempts,    \* max_failed_attempts
    MaxRequests,    \* bound: requests
    MaxExpiries     \* bound: account locks that run out

ASSUME LocksAssumption == FirstBoot \notin Users /\ Nobody \notin Requests
ASSUME LimitsAssumption ==
    MaxAttempts \in Nat \ {0} /\ MaxRequests \in Nat /\ MaxExpiries \in Nat

(* Every table but an empty one has an active admin.                           *)
Rows == [role : {"admin", "editor"}, active : BOOLEAN, pw : Nat, failed : Nat,
         locked : {"no", "until", "over"}]
ASSUME TablesAssumption ==
    \A t \in Tables :
        /\ DOMAIN t \subseteq Users /\ t \in [DOMAIN t -> Rows]
        /\ \A u \in DOMAIN t : t[u].pw = 0 /\ t[u].failed = 0 /\ t[u].locked = "no"
        /\ DOMAIN t # {} => \E u \in DOMAIN t : t[u].role = "admin" /\ t[u].active

VARIABLES
    users,      \* the table: a row for each user there is
    sessions,   \* unexpired sessions, with the password and role they were opened under
    tokens,     \* unrevoked API tokens, with the password of the session that minted them
    setup,      \* the setup token's file exists
    owner,      \* who holds each row, and the first-boot lock
    reqs,       \* what each request is doing
    started,    \* the number of the next request
    checked,    \* history: wrong passwords compared with each user's hash since they were last pardoned
    uncounted,  \* history: those of them whose count was rolled back
    expired,    \* history: account locks that ran out
    unseen      \* history: an active admin was removed by a request that had not read one

vars == <<users, sessions, tokens, setup, owner, reqs, started, checked,
          uncounted, expired, unseen>>
data == <<users, sessions, tokens, setup>>
history == <<checked, uncounted, expired, unseen>>

Roles == {"admin", "editor"}
Idle == [op |-> "idle"]

NewUser(role, active, pw) ==
    [role |-> role, active |-> active, pw |-> pw, failed |-> 0, locked |-> "no"]

IsActiveAdmin(row) == row.role = "admin" /\ row.active
ActiveAdmins == {u \in DOMAIN users : IsActiveAdmin(users[u])}

(* count_users: every row, whatever it is.                                     *)
NoUsers == DOMAIN users = {}

(* User.is_locked: locked_until is in the future, not "over".                  *)
MayEnter(row) == row.active /\ row.locked # "until"

(* Session.is_valid.                                                           *)
IsValid(s) == MayEnter(users[s.user])

(* What the unit of work writes: the fields the request changed from what it   *)
(* loaded; the others keep what is stored.                                     *)
Flushed(row, seen, new) ==
    [f \in DOMAIN row |-> IF new[f] = seen[f] THEN row[f] ELSE new[f]]

Pardoned(row) == [row EXCEPT !.failed = 0, !.locked = "no"]

Begin(r, request) ==
    /\ reqs[r] = Idle /\ started <= MaxRequests
    /\ started' = started + 1
    /\ reqs' = [reqs EXCEPT ![r] = request]

(* The transaction ends and its locks go.                                      *)
Released(r) == [x \in DOMAIN owner |-> IF owner[x] = r THEN Nobody ELSE owner[x]]
End(r) ==
    /\ reqs' = [reqs EXCEPT ![r] = Idle]
    /\ owner' = Released(r)
    /\ UNCHANGED started

Lock(r, x) == owner[x] = Nobody /\ owner' = [owner EXCEPT ![x] = r]

(* The guesses a write of the row pardons: all, or none when the flush leaves  *)
(* the count and the lock as they are stored.                                  *)
Unpardoned(u, row) ==
    IF row.failed = users[u].failed /\ row.locked = users[u].locked
    THEN checked[u] ELSE 0

Write(u, row) ==
    /\ users' = [users EXCEPT ![u] = row]
    /\ checked' = [checked EXCEPT ![u] = Unpardoned(u, row)]

(* record_failed_login, in the statement that writes it.                       *)
RecordFailedLogin(row) ==
    LET raised == row.failed + 1 IN
    [row EXCEPT !.failed = raised,
                !.locked = IF raised >= MaxAttempts THEN "until" ELSE @]

(* The refusal is raised inside the transaction, and takes the count back.     *)
CountFailureRolledBack(u) ==
    /\ checked' = [checked EXCEPT ![u] = @ + 1]
    /\ UNCHANGED users

(* _count_failure.                                                             *)
CountFailure(u) ==
    /\ users' = [users EXCEPT ![u] = RecordFailedLogin(users[u])]
    /\ checked' = [checked EXCEPT ![u] = @ + 1]

(* logout_all_sessions; revoke_all_for_user.                                   *)
LogoutAllSessions(u) == {s \in sessions : s.user # u}
RevokeAllForUser(u) == {t \in tokens : t.user # u}

-----------------------------------------------------------------------------
(* Signing in.                                                                 *)

(* _user_for_login: the row, once every earlier sign-in for it has committed.  *)
(* A wait that is too long refuses the request, which then did nothing; nor    *)
(* does one for a name nobody has.                                             *)
UserForLogin(r, u) ==
    /\ u \in DOMAIN users /\ Lock(r, u)
    /\ Begin(r, [op |-> "sign_in", no |-> started, user |-> u, seen |-> users[u]])
    /\ UNCHANGED <<data, history>>

(* authenticate_user's verdict on the row it locked, and create_session.       *)
AuthenticateUser(r) ==
    /\ reqs[r].op = "sign_in"
    /\ LET q == reqs[r]
           u == q.user
       IN  \/ ~MayEnter(q.seen) /\ UNCHANGED <<users, sessions, checked>>
           \/ MayEnter(q.seen) /\ CountFailure(u) /\ UNCHANGED sessions
           \/ /\ MayEnter(q.seen)
              /\ Write(u, Flushed(users[u], q.seen, Pardoned(q.seen)))
              /\ sessions' = sessions \cup {[id |-> q.no, user |-> u,
                                             pw |-> q.seen.pw, role |-> q.seen.role]}
    /\ End(r)
    /\ UNCHANGED <<tokens, setup, uncounted, expired, unseen>>

(* logout of one session, or it expires and cleanup_expired_sessions deletes it*)
EndSession(s) ==
    /\ sessions' = sessions \ {s}
    /\ UNCHANGED <<users, tokens, setup, owner, reqs, started, history>>

LockExpires(u) ==
    /\ users[u].locked = "until" /\ expired < MaxExpiries
    /\ users' = [users EXCEPT ![u].locked = "over"]
    /\ expired' = expired + 1
    /\ UNCHANGED <<sessions, tokens, setup, owner, reqs, started, checked,
                   uncounted, unseen>>

-----------------------------------------------------------------------------
(* Passwords.                                                                  *)

(* A signed-in user submits the form: verify_session stamps the session, and   *)
(* the stamp is written when the request commits.                              *)
SubmitChange(r, s) ==
    /\ IsValid(s)
    /\ Begin(r, [op |-> "queue", no |-> started, user |-> s.user, session |-> s])
    /\ UNCHANGED <<data, owner, history>>

(* get_by_id_for_login: the locks of a sign-in.                                *)
GetByIdForLogin(r) ==
    /\ reqs[r].op = "queue"
    /\ LET q == reqs[r] IN
       IF q.user \in DOMAIN users
       THEN /\ Lock(r, q.user)
            /\ reqs' = [reqs EXCEPT ![r] =
                   [op |-> "change", no |-> q.no, user |-> q.user,
                    session |-> q.session, seen |-> users[q.user]]]
            /\ UNCHANGED started
       ELSE End(r)
    /\ UNCHANGED <<data, history>>

(* change_password once it has the row.  A commit whose session is gone fails  *)
(* on the stamp and takes everything back, unless the purge has dropped it.    *)
ChangePassword(r) ==
    /\ reqs[r].op = "change"
    /\ LET q == reqs[r]
           u == q.user
           stamped == q.session \in sessions
           Kept == UNCHANGED <<users, sessions, tokens>>
       IN  \/ /\ ~MayEnter(q.seen) \/ ~stamped     \* refused, or a right one rolled back
              /\ Kept /\ UNCHANGED <<checked, uncounted>>
           \/ /\ MayEnter(q.seen) /\ stamped       \* wrong
              /\ CountFailure(u) /\ UNCHANGED <<sessions, tokens, uncounted>>
           \/ /\ MayEnter(q.seen) /\ ~stamped      \* wrong, and not counted
              /\ checked' = [checked EXCEPT ![u] = @ + 1]
              /\ uncounted' = uncounted + 1
              /\ Kept
           \/ /\ MayEnter(q.seen) /\ stamped       \* right, the new one refused
              /\ Write(u, Flushed(users[u], q.seen, Pardoned(q.seen)))
              /\ UNCHANGED <<sessions, tokens, uncounted>>
           \/ /\ MayEnter(q.seen)
              /\ Write(u, Flushed(users[u], q.seen, [Pardoned(q.seen) EXCEPT !.pw = q.no]))
              /\ sessions' = LogoutAllSessions(u)
              /\ tokens' = RevokeAllForUser(u)
              /\ UNCHANGED uncounted
    /\ End(r)
    /\ UNCHANGED <<setup, expired, unseen>>

(* reset_password by an admin: the row is locked before it is read.            *)
ResetPassword(r, u) ==
    /\ reqs[r] = Idle /\ started <= MaxRequests
    /\ ActiveAdmins # {} /\ u \in DOMAIN users /\ owner[u] = Nobody
    /\ started' = started + 1
    /\ Write(u, [Pardoned(users[u]) EXCEPT !.pw = started])
    /\ sessions' = LogoutAllSessions(u)
    /\ tokens' = RevokeAllForUser(u)
    /\ UNCHANGED <<setup, owner, reqs, uncounted, expired, unseen>>

(* The recovery command: get_by_login without a lock, then set_password, which *)
(* takes the row before the purge and writes the hash after it.                *)
GetByLogin(r, u) ==
    /\ u \in DOMAIN users
    /\ Begin(r, [op |-> "recover", no |-> started, user |-> u, seen |-> users[u]])
    /\ UNCHANGED <<data, owner, history>>

SetPassword(r) ==
    /\ reqs[r].op = "recover"
    /\ LET q == reqs[r]
           u == q.user
       IN  IF u \in DOMAIN users
           THEN /\ owner[u] = Nobody
                /\ Write(u, Flushed(users[u], q.seen,
                                    [Pardoned(q.seen) EXCEPT !.pw = q.no]))
                /\ sessions' = LogoutAllSessions(u)
                /\ tokens' = RevokeAllForUser(u)
           ELSE UNCHANGED <<users, sessions, tokens, checked>>
    /\ End(r)
    /\ UNCHANGED <<setup, uncounted, expired, unseen>>

-----------------------------------------------------------------------------
(* API tokens.                                                                 *)

SubmitToken(r, s) ==
    /\ IsValid(s)
    /\ Begin(r, [op |-> "mint", no |-> started, user |-> s.user, session |-> s])
    /\ UNCHANGED <<data, owner, history>>

(* The request does not write its session's stamp.                             *)
CreateTokenUnstamped(r) ==
    /\ reqs[r].op = "mint"
    /\ LET q == reqs[r] IN
       /\ owner[q.user] = Nobody
       /\ tokens' = tokens \cup {[user |-> q.user, pw |-> q.session.pw]}
    /\ End(r)
    /\ UNCHANGED <<users, sessions, setup, history>>

(* create_token: the insert waits for the user's row (its foreign key), and    *)
(* the session's stamp, written with it, fails once the session is gone.       *)
CreateToken(r) ==
    /\ reqs[r].op = "mint"
    /\ LET q == reqs[r] IN
       \/ /\ q.session \in sessions /\ owner[q.user] = Nobody
          /\ tokens' = tokens \cup {[user |-> q.user, pw |-> q.session.pw]}
       \/ q.session \notin sessions /\ UNCHANGED tokens
    /\ End(r)
    /\ UNCHANGED <<users, sessions, setup, history>>

(* revoke_token, or it expires.                                                *)
RevokeToken(t) ==
    /\ tokens' = tokens \ {t}
    /\ UNCHANGED <<users, sessions, setup, owner, reqs, started, history>>

-----------------------------------------------------------------------------
(* Users, changed by an admin.                                                 *)

(* create_user; a name that is taken changes nothing.                          *)
CreateUser(r, u) ==
    /\ reqs[r] = Idle /\ started <= MaxRequests
    /\ ActiveAdmins # {} /\ u \notin DOMAIN users
    /\ started' = started + 1
    /\ \E role \in Roles, active \in BOOLEAN :
          users' = [x \in DOMAIN users \cup {u} |->
                       IF x = u THEN NewUser(role, active, started) ELSE users[x]]
    /\ UNCHANGED <<sessions, tokens, setup, owner, reqs, history>>

(* _assert_an_active_admin_remains, judged on the row as it was read: whether  *)
(* the others have to be counted.                                              *)
AssertAnActiveAdminRemains(seen, staysActiveAdmin) ==
    IF IsActiveAdmin(seen) /\ ~staysActiveAdmin THEN "count" ELSE "write"

(* update_user and delete_user read the row without a lock; no one deletes     *)
(* their own account.                                                          *)
ReadForUpdate(r, u, new) ==
    /\ ActiveAdmins # {}
    /\ Begin(r, [op |-> "update", user |-> u, seen |-> users[u], new |-> new,
                 at |-> AssertAnActiveAdminRemains(users[u], IsActiveAdmin(new))])
    /\ UNCHANGED <<data, owner, history>>

ReadForDelete(r, u) ==
    /\ ActiveAdmins \ {u} # {}
    /\ Begin(r, [op |-> "delete", user |-> u, seen |-> users[u],
                 at |-> AssertAnActiveAdminRemains(users[u], FALSE)])
    /\ UNCHANGED <<data, owner, history>>

(* The other admins are counted and not locked.                                *)
CountOtherActiveAdminsUnlocked(r) ==
    /\ reqs[r].op \in {"update", "delete"} /\ reqs[r].at = "count"
    /\ IF ActiveAdmins \ {reqs[r].user} = {}
       THEN End(r)
       ELSE /\ reqs' = [reqs EXCEPT ![r].at = "write"]
            /\ UNCHANGED <<owner, started>>
    /\ UNCHANGED <<data, history>>

(* count_other_active_admins: every active admin's row is locked, the user's   *)
(* own included, once those who hold one have committed.                       *)
CountOtherActiveAdmins(r) ==
    /\ reqs[r].op \in {"update", "delete"} /\ reqs[r].at = "count"
    /\ \A a \in ActiveAdmins : owner[a] = Nobody
    /\ IF ActiveAdmins \ {reqs[r].user} = {}
       THEN End(r)
       ELSE /\ reqs' = [reqs EXCEPT ![r].at = "write"]
            /\ owner' = [x \in DOMAIN owner |->
                            IF x \in ActiveAdmins THEN r ELSE owner[x]]
            /\ UNCHANGED started
    /\ UNCHANGED <<data, history>>

Unseen(q, removed) == unseen' = (unseen \/ (removed /\ ~IsActiveAdmin(q.seen)))

(* update_user's writes: another role ends the sessions, under the row's lock. *)
(* The write of a row that is gone fails.                                      *)
UpdateUser(r) ==
    /\ reqs[r].op = "update" /\ reqs[r].at = "write"
    /\ LET q == reqs[r]
           u == q.user
       IN  IF u \notin DOMAIN users THEN UNCHANGED <<users, sessions, unseen>>
           ELSE /\ owner[u] \in {Nobody, r}
                /\ LET row == Flushed(users[u], q.seen, q.new) IN
                   /\ users' = [users EXCEPT ![u] = row]
                   /\ Unseen(q, IsActiveAdmin(users[u]) /\ ~IsActiveAdmin(row))
                /\ sessions' = IF q.new.role = q.seen.role THEN sessions
                               ELSE LogoutAllSessions(u)
    /\ End(r)
    /\ UNCHANGED <<tokens, setup, checked, uncounted, expired>>

(* delete_user: sessions and tokens go with the row.                           *)
DeleteUser(r) ==
    /\ reqs[r].op = "delete" /\ reqs[r].at = "write"
    /\ LET q == reqs[r]
           u == q.user
       IN  IF u \notin DOMAIN users
           THEN UNCHANGED <<users, sessions, tokens, checked, unseen>>
           ELSE /\ owner[u] \in {Nobody, r}
                /\ users' = Restrict(users, DOMAIN users \ {u})
                /\ sessions' = LogoutAllSessions(u)
                /\ tokens' = RevokeAllForUser(u)
                /\ checked' = [checked EXCEPT ![u] = 0]
                /\ Unseen(q, IsActiveAdmin(users[u]))
    /\ End(r)
    /\ UNCHANGED <<setup, uncounted, expired>>

(* unlock_user: read without a lock, then written.                             *)
ReadForUnlock(r, u) ==
    /\ ActiveAdmins # {}
    /\ Begin(r, [op |-> "unlock", user |-> u, seen |-> users[u]])
    /\ UNCHANGED <<data, owner, history>>

UnlockUser(r) ==
    /\ reqs[r].op = "unlock"
    /\ LET q == reqs[r]
           u == q.user
       IN  IF u \in DOMAIN users
           THEN /\ owner[u] = Nobody
                /\ Write(u, Flushed(users[u], q.seen, Pardoned(q.seen)))
           ELSE UNCHANGED <<users, checked>>
    /\ End(r)
    /\ UNCHANGED <<sessions, tokens, setup, uncounted, expired, unseen>>

-----------------------------------------------------------------------------
(* The first admin.                                                            *)

(* The users are counted and the lock is not taken.                            *)
FirstBootCountUnlocked(r, op) ==
    /\ NoUsers
    /\ Begin(r, [op |-> op, no |-> started])
    /\ UNCHANGED <<data, owner, history>>

(* bootstrap and create_first_admin: lock_first_boot, then count_users.        *)
FirstBootCount(r, op) ==
    /\ Lock(r, FirstBoot) /\ NoUsers
    /\ Begin(r, [op |-> op, no |-> started])
    /\ UNCHANGED <<data, history>>

(* Where users are seen to exist the setup token goes (bootstrap, setup_open,  *)
(* create_first_admin).                                                        *)
DiscardToken ==
    /\ setup /\ ~NoUsers
    /\ setup' = FALSE
    /\ UNCHANGED <<users, sessions, tokens, owner, reqs, started, history>>

AddAdmin(u, pw) ==
    /\ u \notin DOMAIN users
    /\ users' = [x \in DOMAIN users \cup {u} |->
                    IF x = u THEN NewUser("admin", TRUE, pw) ELSE users[x]]

(* bootstrap: the seed's admin, or without a seed it accepts the setup token   *)
(* is issued.                                                                  *)
Bootstrap(r) ==
    /\ reqs[r].op = "bootstrap"
    /\ \/ \E u \in Users : AddAdmin(u, reqs[r].no) /\ UNCHANGED setup
       \/ setup' = TRUE /\ UNCHANGED users
    /\ End(r)
    /\ UNCHANGED <<sessions, tokens, history>>

(* create_first_admin with the token that is stored: it is discarded once the  *)
(* admin is committed, if the process lives so long.                           *)
CreateFirstAdmin(r) ==
    /\ reqs[r].op = "setup"
    /\ IF setup THEN /\ \E u \in Users : AddAdmin(u, reqs[r].no)
                     /\ setup' \in {setup, FALSE}
       ELSE UNCHANGED <<users, setup>>
    /\ End(r)
    /\ UNCHANGED <<sessions, tokens, history>>

-----------------------------------------------------------------------------
(* A connection is lost, a statement times out, a lock is waited for too long, *)
(* a process dies: the request's answer tells nothing of a password.           *)
Rollback(r) ==
    /\ reqs[r] # Idle
    /\ End(r)
    /\ UNCHANGED <<data, history>>

Init ==
    /\ users \in Tables
    /\ sessions = {[id |-> 0, user |-> u, pw |-> 0, role |-> users[u].role] :
                      u \in DOMAIN users}
    /\ tokens = {}
    /\ setup = FALSE
    /\ owner = [x \in Users \cup {FirstBoot} |-> Nobody]
    /\ reqs = [r \in Requests |-> Idle]
    /\ started = 1
    /\ checked = [u \in Users |-> 0]
    /\ uncounted = 0 /\ expired = 0
    /\ unseen = FALSE

Next ==
    \/ \E r \in Requests :
          \/ \E u \in Users : UserForLogin(r, u) \/ GetByLogin(r, u)
                              \/ ResetPassword(r, u) \/ CreateUser(r, u)
          \/ \E u \in DOMAIN users :
                \/ ReadForDelete(r, u) \/ ReadForUnlock(r, u)
                \/ \E role \in Roles, active \in BOOLEAN :
                      ReadForUpdate(r, u, [users[u] EXCEPT !.role = role, !.active = active])
          \/ \E s \in sessions : SubmitChange(r, s) \/ SubmitToken(r, s)
          \/ \E op \in {"bootstrap", "setup"} : FirstBootCount(r, op)
          \/ AuthenticateUser(r) \/ GetByIdForLogin(r) \/ ChangePassword(r)
          \/ SetPassword(r) \/ CreateToken(r) \/ CountOtherActiveAdmins(r)
          \/ UpdateUser(r) \/ DeleteUser(r) \/ UnlockUser(r)
          \/ Bootstrap(r) \/ CreateFirstAdmin(r) \/ Rollback(r)
    \/ \E s \in sessions : EndSession(s)
    \/ \E t \in tokens : RevokeToken(t)
    \/ \E u \in DOMAIN users : LockExpires(u)
    \/ DiscardToken

Spec == Init /\ [][Next]_vars

-----------------------------------------------------------------------------
(* A password change, reset or recovery ends what was opened before it, and a  *)
(* change of role the sessions, whatever sign-in or token request was under    *)
(* way: every session was opened with the user's present password and role,    *)
(* and every token was minted from a session of the present password.          *)
CredentialsCurrent ==
    /\ \A s \in sessions : /\ s.user \in DOMAIN users
                           /\ s.pw = users[s.user].pw
                           /\ s.role = users[s.user].role
    /\ \A t \in tokens : t.user \in DOMAIN users /\ t.pw = users[t.user].pw

(* No password is compared with an account's hash past the limit: from one     *)
(* write that clears the count or the lock (a sign-in, a new password, an      *)
(* unlocking) to the next, no more than max_failed_attempts wrong ones are,    *)
(* with one more for each lock that ran out (the count is kept) and for each   *)
(* change whose session ended under it (the count is rolled back with the      *)
(* session's stamp).                                                           *)
GuessesLimited ==
    \A u \in Users : checked[u] <= MaxAttempts + expired + uncounted

(* Concurrent demotions, deactivations and deletions leave an active admin,    *)
(* unless a request removed one whose row it had read before it became one:    *)
(* the rule is judged on that row.                                             *)
AdminRemains == ~NoUsers /\ ActiveAdmins = {} => unseen

(* A first admin is only ever put into an empty table, by starting processes   *)
(* and setup forms together.                                                   *)
FirstIntoEmpty ==
    [][\A r \in Requests :
          /\ reqs[r].op \in {"bootstrap", "setup"}
          /\ reqs'[r] # reqs[r] /\ users' # users
          => NoUsers]_vars

=============================================================================
