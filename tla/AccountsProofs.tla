--------------------------- MODULE AccountsProofs ---------------------------
(* What the locks of Accounts buy, for any number of users and requests.  The  *)
(* invariant says what a request may rely on at its second step: who signs in  *)
(* or changes a password holds the row it read, so the row is still as read;   *)
(* who removes an admin it had to count holds another one; who creates the     *)
(* first admin finds no users.                                                 *)
EXTENDS Accounts, TLAPS

Types ==
    /\ DOMAIN users \subseteq Users /\ users \in [DOMAIN users -> Rows]
    /\ owner \in [Users \cup {FirstBoot} -> Requests \cup {Nobody}]
    /\ DOMAIN reqs = Requests
    /\ started \in Nat /\ uncounted \in Nat /\ expired \in Nat
    /\ checked \in [Users -> Nat]
    /\ unseen \in BOOLEAN

(* Sign-ins and changes hold the row they judge; only its lock may run out.    *)
Same(seen, row) ==
    /\ seen \in Rows
    /\ seen.role = row.role /\ seen.active = row.active
    /\ seen.pw = row.pw /\ seen.failed = row.failed
    /\ seen.locked = row.locked \/ seen.locked = "until"

Holds(r) ==
    reqs[r].op \in {"sign_in", "change"} =>
        /\ reqs[r].user \in DOMAIN users /\ reqs[r].no \in Nat
        /\ owner[reqs[r].user] = r
        /\ Same(reqs[r].seen, users[reqs[r].user])

(* What the others read, or were given, is a row.                              *)
Reads(r) ==
    /\ reqs[r].op \in {"recover", "unlock", "update", "delete"} =>
          reqs[r].user \in Users /\ reqs[r].seen \in Rows
    /\ reqs[r].op \in {"recover", "queue"} => reqs[r].no \in Nat
    /\ reqs[r].op \in {"queue", "mint"} =>
          reqs[r].user \in Users /\ reqs[r].session.user = reqs[r].user
    /\ reqs[r].op = "update" =>
          /\ reqs[r].new \in Rows
          /\ reqs[r].new.pw = reqs[r].seen.pw
          /\ reqs[r].new.failed = reqs[r].seen.failed
          /\ reqs[r].new.locked = reqs[r].seen.locked

Removes(q) ==
    /\ q.op \in {"update", "delete"} /\ q.at = "write"
    /\ IsActiveAdmin(q.seen)
    /\ q.op = "update" => ~IsActiveAdmin(q.new)

(* A removal that had to count the others holds one of them.                   *)
Counted(r) ==
    Removes(reqs[r]) =>
        \E a \in ActiveAdmins : a # reqs[r].user /\ owner[a] = r

FirstHolds(r) ==
    reqs[r].op \in {"bootstrap", "setup"} =>
        owner[FirstBoot] = r /\ NoUsers /\ reqs[r].no \in Nat

(* The stored count keeps up with the guesses, and a lock stands where it must.*)
Limited(u) ==
    IF u \in DOMAIN users
    THEN /\ checked[u] <= users[u].failed + uncounted
         /\ checked[u] <= MaxAttempts + expired + uncounted
         /\ users[u].locked = "no" => checked[u] < MaxAttempts + uncounted
         /\ users[u].locked = "over" => checked[u] < MaxAttempts + expired + uncounted
    ELSE checked[u] = 0

IInv ==
    /\ Types
    /\ \A r \in Requests : Holds(r) /\ Reads(r) /\ Counted(r) /\ FirstHolds(r)
    /\ \A u \in Users : Limited(u)
    /\ CredentialsCurrent
    /\ AdminRemains

LEMMA FlushedRow ==
    ASSUME NEW row \in Rows, NEW seen \in Rows, NEW new \in Rows
    PROVE  LET w == Flushed(row, seen, new) IN
           /\ w \in Rows
           /\ w.role = IF new.role = seen.role THEN row.role ELSE new.role
           /\ w.active = IF new.active = seen.active THEN row.active ELSE new.active
           /\ w.pw = IF new.pw = seen.pw THEN row.pw ELSE new.pw
           /\ w.failed = IF new.failed = seen.failed THEN row.failed ELSE new.failed
           /\ w.locked = IF new.locked = seen.locked THEN row.locked ELSE new.locked
BY DEF Flushed, Rows

Fine(r) == Holds(r) /\ Reads(r) /\ Counted(r) /\ FirstHolds(r)

(* A step of r, or of nobody, that respects the locks leaves what the other    *)
(* requests rely on.                                                           *)
LEMMA OthersUndisturbed ==
    ASSUME Types, Types', NEW r, NEW x \in Requests, Fine(x), x # r,
           reqs'[x] = reqs[x],
           \A y \in Users \cup {FirstBoot} :
               owner[y] \notin {Nobody, r} => owner'[y] = owner[y],
           \A u \in DOMAIN users :
               owner[u] \notin {Nobody, r} => u \in DOMAIN users' /\ users'[u] = users[u],
           owner[FirstBoot] \notin {Nobody, r} /\ NoUsers => NoUsers'
    PROVE  Fine(x)'
<1>1. Holds(x)'
  BY LocksAssumption DEF Fine, Holds, Types
<1>2. Reads(x)'
  BY DEF Fine, Reads
<1>3. Counted(x)'
  BY LocksAssumption DEF Fine, Counted, Removes, ActiveAdmins, Types
<1>4. FirstHolds(x)'
  BY LocksAssumption DEF Fine, FirstHolds, Types
<1> QED
  BY <1>1, <1>2, <1>3, <1>4 DEF Fine

LEMMA IdleIsFine ==
    ASSUME NEW r \in Requests, reqs'[r] = Idle
    PROVE  Fine(r)'
BY DEF Fine, Holds, Reads, Counted, Removes, FirstHolds, Idle

(* r has no request any more, and took no lock.                                *)
Ended(r) ==
    /\ owner' \in [Users \cup {FirstBoot} -> Requests \cup {Nobody}]
    /\ DOMAIN reqs' = Requests
    /\ started' \in Nat
    /\ reqs'[r] = Idle
    /\ \A x \in Requests : x # r => reqs'[x] = reqs[x]
    /\ \A y \in Users \cup {FirstBoot} :
          owner[y] \notin {Nobody, r} => owner'[y] = owner[y]

LEMMA EndIsEnded ==
    ASSUME IInv, NEW r \in Requests, End(r)
    PROVE  Ended(r)
BY DEF IInv, Types, End, Released, Ended

(* A request that ends having respected the locks.                             *)
LEMMA EndsFine ==
    ASSUME IInv, Types', NEW r \in Requests, Ended(r),
           \A u \in DOMAIN users :
               owner[u] \notin {Nobody, r} => u \in DOMAIN users' /\ users'[u] = users[u],
           owner[FirstBoot] \notin {Nobody, r} /\ NoUsers => NoUsers'
    PROVE  \A x \in Requests : Fine(x)'
<1> SUFFICES ASSUME NEW x \in Requests PROVE Fine(x)'
    OBVIOUS
<1>0. Types /\ Fine(x)
  BY DEF IInv, Fine
<1>1. CASE x = r
  BY <1>1, IdleIsFine DEF Ended
<1>2. CASE x # r
  BY <1>0, <1>2, OthersUndisturbed DEF Ended
<1> QED
  BY <1>1, <1>2

(* The facts about data when users and the counts stay.                        *)
DataFine == (\A u \in Users : Limited(u)) /\ CredentialsCurrent /\ AdminRemains

LEMMA DataKept ==
    ASSUME DataFine, UNCHANGED <<users, history>>,
           sessions' \subseteq sessions, tokens' \subseteq tokens
    PROVE  DataFine'
<1> USE DEF history, DataFine
<1>1. \A u \in Users : Limited(u)'
  BY DEF Limited
<1>2. CredentialsCurrent'
  BY DEF CredentialsCurrent
<1>3. AdminRemains'
  BY DEF AdminRemains, NoUsers, ActiveAdmins
<1> QED
  BY <1>1, <1>2, <1>3

LEMMA Parts == IInv <=> Types /\ (\A r \in Requests : Fine(r)) /\ DataFine
BY DEF IInv, Fine, DataFine

LEMMA PartsNext == IInv' <=> Types' /\ (\A r \in Requests : Fine(r)') /\ DataFine'
BY DEF IInv, Fine, DataFine

LEMMA InitHolds == Init => IInv
<1> SUFFICES ASSUME Init PROVE IInv
    OBVIOUS
<1>0. /\ DOMAIN users \subseteq Users /\ users \in [DOMAIN users -> Rows]
      /\ \A u \in DOMAIN users :
            users[u].pw = 0 /\ users[u].failed = 0 /\ users[u].locked = "no"
      /\ DOMAIN users # {} => \E u \in DOMAIN users : IsActiveAdmin(users[u])
  BY TablesAssumption DEF Init, IsActiveAdmin
<1>1. Types
  BY <1>0 DEF Init, Types
<1>2. \A r \in Requests : Fine(r)
  BY DEF Init, Fine, Holds, Reads, Counted, Removes, FirstHolds, Idle
<1>3. \A u \in Users : Limited(u)
  BY <1>0, LimitsAssumption DEF Init, Limited
<1>4. CredentialsCurrent
  BY <1>0 DEF Init, CredentialsCurrent
<1>5. AdminRemains
  BY <1>0 DEF AdminRemains, NoUsers, ActiveAdmins
<1> QED
  BY <1>1, <1>2, <1>3, <1>4, <1>5, Parts DEF DataFine

-----------------------------------------------------------------------------
(* The first steps.                                                            *)

LEMMA BeginsFine ==
    ASSUME IInv, NEW r \in Requests, NEW request, Begin(r, request),
           UNCHANGED <<data, owner, history>>, Fine(r)'
    PROVE  IInv'
<1>0. Types /\ (\A x \in Requests : Fine(x)) /\ DataFine
  BY Parts
<1>1. Types'
  BY <1>0 DEF Types, Begin, data, history
<1>2. \A x \in Requests : Fine(x)'
  <2> SUFFICES ASSUME NEW x \in Requests, x # r PROVE Fine(x)'
      OBVIOUS
  <2>1. reqs'[x] = reqs[x]
    BY <1>0 DEF Begin, Types
  <2>2. users' = users /\ owner' = owner /\ (NoUsers => NoUsers')
    BY DEF data, NoUsers
  <2> QED
    BY <1>0, <1>1, <2>1, <2>2, OthersUndisturbed
<1>3. DataFine'
  BY <1>0, DataKept DEF data
<1> QED
  BY <1>1, <1>2, <1>3, PartsNext

LEMMA GetByLoginKeeps ==
    ASSUME IInv, NEW r \in Requests, NEW u \in Users, GetByLogin(r, u)
    PROVE  IInv'
<1> DEFINE q == [op |-> "recover", no |-> started, user |-> u, seen |-> users[u]]
<1>1. u \in DOMAIN users /\ Begin(r, q) /\ UNCHANGED <<data, owner, history>>
  BY DEF GetByLogin
<1>2. reqs'[r] = q /\ started \in Nat /\ users[u] \in Rows
  BY <1>1 DEF Begin, IInv, Types
<1>3. Fine(r)'
  BY <1>2 DEF Fine, Holds, Reads, Counted, Removes, FirstHolds
<1> QED
  BY <1>1, <1>3, BeginsFine

LEMMA ReadForUnlockKeeps ==
    ASSUME IInv, NEW r \in Requests, NEW u \in DOMAIN users, ReadForUnlock(r, u)
    PROVE  IInv'
<1> DEFINE q == [op |-> "unlock", user |-> u, seen |-> users[u]]
<1>1. Begin(r, q) /\ UNCHANGED <<data, owner, history>>
  BY DEF ReadForUnlock
<1>2. reqs'[r] = q /\ users[u] \in Rows /\ u \in Users
  BY <1>1 DEF Begin, IInv, Types
<1>3. Fine(r)'
  BY <1>2 DEF Fine, Holds, Reads, Counted, Removes, FirstHolds
<1> QED
  BY <1>1, <1>3, BeginsFine

LEMMA ReadForDeleteKeeps ==
    ASSUME IInv, NEW r \in Requests, NEW u \in DOMAIN users, ReadForDelete(r, u)
    PROVE  IInv'
<1> DEFINE q == [op |-> "delete", user |-> u, seen |-> users[u],
                 at |-> AssertAnActiveAdminRemains(users[u], FALSE)]
<1>1. Begin(r, q) /\ UNCHANGED <<data, owner, history>>
  BY DEF ReadForDelete
<1>2. reqs'[r] = q /\ users[u] \in Rows /\ u \in Users
  BY <1>1 DEF Begin, IInv, Types
<1>3. ~(q.at = "write" /\ IsActiveAdmin(q.seen))
  BY DEF AssertAnActiveAdminRemains
<1>4. Holds(r)' /\ Reads(r)' /\ FirstHolds(r)'
  BY <1>2 DEF Holds, Reads, FirstHolds
<1>5. Counted(r)'
  BY <1>2, <1>3 DEF Counted, Removes
<1> QED
  BY <1>1, <1>4, <1>5, BeginsFine DEF Fine

LEMMA ReadForUpdateKeeps ==
    ASSUME IInv, NEW r \in Requests, NEW u \in DOMAIN users,
           NEW role \in Roles, NEW active \in BOOLEAN,
           ReadForUpdate(r, u, [users[u] EXCEPT !.role = role, !.active = active])
    PROVE  IInv'
<1> DEFINE new == [users[u] EXCEPT !.role = role, !.active = active]
           q == [op |-> "update", user |-> u, seen |-> users[u], new |-> new,
                 at |-> AssertAnActiveAdminRemains(users[u], IsActiveAdmin(new))]
<1>0. users[u] \in Rows /\ u \in Users
  BY DEF IInv, Types
<1>1. Begin(r, q) /\ UNCHANGED <<data, owner, history>>
  BY DEF ReadForUpdate
<1>2. /\ new \in Rows /\ new.pw = users[u].pw
      /\ new.failed = users[u].failed /\ new.locked = users[u].locked
  BY <1>0 DEF Rows, Roles
<1> HIDE DEF new
<1>3. reqs'[r] = q
  BY <1>1 DEF Begin, IInv, Types
<1>4. ~Removes(q)
  BY DEF Removes, AssertAnActiveAdminRemains
<1>5. Fine(r)'
  BY <1>0, <1>2, <1>3, <1>4 DEF Fine, Holds, Reads, Counted, Removes, FirstHolds
<1> QED
  BY <1>1, <1>5, BeginsFine

LEMMA SubmitChangeKeeps ==
    ASSUME IInv, NEW r \in Requests, NEW s \in sessions, SubmitChange(r, s)
    PROVE  IInv'
<1> DEFINE q == [op |-> "queue", no |-> started, user |-> s.user, session |-> s]
<1>1. Begin(r, q) /\ UNCHANGED <<data, owner, history>>
  BY DEF SubmitChange
<1>2. reqs'[r] = q /\ started \in Nat /\ s.user \in Users
  BY <1>1 DEF Begin, IInv, Types, CredentialsCurrent
<1>3. Fine(r)'
  BY <1>2 DEF Fine, Holds, Reads, Counted, Removes, FirstHolds
<1> QED
  BY <1>1, <1>3, BeginsFine

LEMMA SubmitTokenKeeps ==
    ASSUME IInv, NEW r \in Requests, NEW s \in sessions, SubmitToken(r, s)
    PROVE  IInv'
<1> DEFINE q == [op |-> "mint", no |-> started, user |-> s.user, session |-> s]
<1>1. Begin(r, q) /\ UNCHANGED <<data, owner, history>>
  BY DEF SubmitToken
<1>2. reqs'[r] = q /\ s.user \in Users
  BY <1>1 DEF Begin, IInv, Types, CredentialsCurrent
<1>3. Fine(r)'
  BY <1>2 DEF Fine, Holds, Reads, Counted, Removes, FirstHolds
<1> QED
  BY <1>1, <1>3, BeginsFine

(* Taking a lock that is free.                                                 *)
LEMMA LocksFine ==
    ASSUME IInv, NEW r \in Requests, NEW y \in Users \cup {FirstBoot}, Lock(r, y),
           DOMAIN reqs' = Requests, started' \in Nat,
           \A x \in Requests : x # r => reqs'[x] = reqs[x],
           UNCHANGED <<data, history>>, Fine(r)'
    PROVE  IInv'
<1>0. Types /\ (\A x \in Requests : Fine(x)) /\ DataFine
  BY Parts
<1>1. Types'
  BY <1>0 DEF Types, Lock, data, history
<1>2. \A x \in Requests : Fine(x)'
  <2> SUFFICES ASSUME NEW x \in Requests, x # r PROVE Fine(x)'
      OBVIOUS
  <2>1. \A z \in Users \cup {FirstBoot} :
            owner[z] \notin {Nobody, r} => owner'[z] = owner[z]
    BY <1>0 DEF Lock, Types
  <2>2. users' = users /\ (NoUsers => NoUsers')
    BY DEF data, NoUsers
  <2> QED
    BY <1>0, <1>1, <2>1, <2>2, OthersUndisturbed
<1>3. DataFine'
  BY <1>0, DataKept DEF data
<1> QED
  BY <1>1, <1>2, <1>3, PartsNext

LEMMA SameIsSame ==
    ASSUME NEW row \in Rows
    PROVE  Same(row, row)
BY DEF Same

LEMMA UserForLoginKeeps ==
    ASSUME IInv, NEW r \in Requests, NEW u \in Users, UserForLogin(r, u)
    PROVE  IInv'
<1> DEFINE q == [op |-> "sign_in", no |-> started, user |-> u, seen |-> users[u]]
<1>1. /\ u \in DOMAIN users /\ Lock(r, u) /\ Begin(r, q)
      /\ UNCHANGED <<data, history>>
  BY DEF UserForLogin
<1>2. /\ reqs'[r] = q /\ started \in Nat /\ started' \in Nat
      /\ DOMAIN reqs' = Requests
      /\ \A x \in Requests : x # r => reqs'[x] = reqs[x]
      /\ owner'[u] = r /\ users' = users
  BY <1>1 DEF Begin, Lock, IInv, Types, data
<1>3. Same(users[u], users'[u])
  BY <1>1, <1>2, SameIsSame DEF IInv, Types
<1>4. Fine(r)'
  BY <1>1, <1>2, <1>3 DEF Fine, Holds, Reads, Counted, Removes, FirstHolds
<1> QED
  BY <1>1, <1>2, <1>4, LocksFine

LEMMA FirstBootCountKeeps ==
    ASSUME IInv, NEW r \in Requests, NEW op \in {"bootstrap", "setup"},
           FirstBootCount(r, op)
    PROVE  IInv'
<1> DEFINE q == [op |-> op, no |-> started]
<1>1. /\ NoUsers /\ Lock(r, FirstBoot) /\ Begin(r, q)
      /\ UNCHANGED <<data, history>>
  BY DEF FirstBootCount
<1>2. /\ reqs'[r] = q /\ started \in Nat /\ started' \in Nat
      /\ DOMAIN reqs' = Requests
      /\ \A x \in Requests : x # r => reqs'[x] = reqs[x]
      /\ owner'[FirstBoot] = r /\ NoUsers'
  BY <1>1 DEF Begin, Lock, IInv, Types, data, NoUsers
<1>3. Fine(r)'
  BY <1>1, <1>2 DEF Fine, Holds, Reads, Counted, Removes, FirstHolds
<1> QED
  BY <1>1, <1>2, <1>3, LocksFine

LEMMA GetByIdForLoginKeeps ==
    ASSUME IInv, NEW r \in Requests, GetByIdForLogin(r)
    PROVE  IInv'
<1> DEFINE u == reqs[r].user
           q == [op |-> "change", no |-> reqs[r].no, user |-> u,
                 session |-> reqs[r].session, seen |-> users[u]]
<1>0. Types /\ Fine(r) /\ DataFine /\ u \in Users /\ reqs[r].no \in Nat
  BY Parts DEF GetByIdForLogin, Fine, Reads
<1>1. CASE u \in DOMAIN users
  <2>1. /\ Lock(r, u) /\ reqs' = [reqs EXCEPT ![r] = q]
        /\ started' = started /\ UNCHANGED <<data, history>>
    BY <1>1 DEF GetByIdForLogin
  <2>2. /\ reqs'[r] = q /\ started' \in Nat
        /\ DOMAIN reqs' = Requests
        /\ \A x \in Requests : x # r => reqs'[x] = reqs[x]
        /\ owner'[u] = r /\ users' = users
    BY <1>0, <2>1 DEF Lock, Types, data
  <2>3. Same(users[u], users'[u])
    BY <1>0, <1>1, <2>2, SameIsSame DEF Types
  <2>4. Fine(r)'
    BY <1>0, <1>1, <2>2, <2>3 DEF Fine, Holds, Reads, Counted, Removes, FirstHolds
  <2> QED
    BY <1>0, <2>1, <2>2, <2>4, LocksFine
<1>2. CASE u \notin DOMAIN users
  <2>1. Ended(r) /\ UNCHANGED <<data, history>>
    BY <1>2, EndIsEnded DEF GetByIdForLogin
  <2>2. Types'
    BY <1>0, <2>1 DEF Types, Ended, data, history
  <2>3. users' = users /\ (NoUsers => NoUsers')
    BY <2>1 DEF data, NoUsers
  <2>4. \A x \in Requests : Fine(x)'
    BY <2>1, <2>2, <2>3, EndsFine
  <2>5. DataFine'
    BY <1>0, <2>1, DataKept DEF data
  <2> QED
    BY <2>2, <2>4, <2>5, PartsNext
<1> QED
  BY <1>1, <1>2

-----------------------------------------------------------------------------
(* Steps that write one row, and end.                                          *)

RowIs(u, row) ==
    /\ DOMAIN users' = DOMAIN users
    /\ \A x \in DOMAIN users : users'[x] = IF x = u THEN row ELSE users[x]

LEMMA RowWritten ==
    ASSUME IInv, NEW r \in Requests, NEW u \in DOMAIN users, NEW row \in Rows,
           users' = [users EXCEPT ![u] = row], owner[u] \in {Nobody, r}, Ended(r),
           checked' \in [Users -> Nat], uncounted' \in Nat, expired' \in Nat,
           unseen' \in BOOLEAN
    PROVE  Types' /\ (\A x \in Requests : Fine(x)') /\ RowIs(u, row)
<1>0. Types
  BY Parts
<1>1. RowIs(u, row)
  BY <1>0 DEF RowIs, Types
<1>2. users' \in [DOMAIN users -> Rows]
  BY <1>0 DEF Types
<1>3. Types'
  BY <1>0, <1>1, <1>2 DEF Types, RowIs, Ended
<1>4. \A x \in Requests : Fine(x)'
  BY <1>1, <1>3, EndsFine DEF RowIs, NoUsers
<1> QED
  BY <1>1, <1>3, <1>4

LEMMA PardonLimits ==
    ASSUME IInv, NEW u \in DOMAIN users, NEW row \in Rows, RowIs(u, row),
           checked' = [checked EXCEPT ![u] = Unpardoned(u, row)],
           uncounted' = uncounted, expired' = expired
    PROVE  \A x \in Users : Limited(x)'
<1> SUFFICES ASSUME NEW x \in Users PROVE Limited(x)'
    OBVIOUS
<1>0. Types /\ Limited(x)
  BY DEF IInv
<1>1. CASE x = u
  BY <1>0, <1>1, LimitsAssumption DEF Limited, RowIs, Types, Rows, Unpardoned
<1>2. CASE x # u
  BY <1>0, <1>2 DEF Limited, RowIs, Types
<1> QED
  BY <1>1, <1>2

LEMMA CountLimits ==
    ASSUME IInv, NEW u \in DOMAIN users, NEW row \in Rows, RowIs(u, row),
           users[u].locked # "until", row.failed = users[u].failed + 1,
           row.locked = (IF row.failed >= MaxAttempts THEN "until" ELSE users[u].locked),
           checked' = [checked EXCEPT ![u] = @ + 1],
           uncounted' = uncounted, expired' = expired
    PROVE  \A x \in Users : Limited(x)'
<1> SUFFICES ASSUME NEW x \in Users PROVE Limited(x)'
    OBVIOUS
<1>0. Types /\ Limited(x)
  BY DEF IInv
<1>1. CASE x = u
  <2>1. /\ users[u] \in Rows /\ checked[u] \in Nat /\ uncounted \in Nat
        /\ expired \in Nat /\ checked'[u] = checked[u] + 1 /\ u \in DOMAIN users'
        /\ users'[u] = row
    BY <1>0, <1>1 DEF Types, RowIs
  <2>2. users[u].failed \in Nat /\ users[u].locked \in {"no", "over"}
    BY <2>1 DEF Rows
  <2>3. /\ checked[u] <= users[u].failed + uncounted
        /\ checked[u] < MaxAttempts + expired + uncounted
        /\ users[u].locked = "no" => checked[u] < MaxAttempts + uncounted
    BY <1>0, <1>1, <2>1, <2>2, LimitsAssumption DEF Limited
  <2> QED
    BY <1>1, <2>1, <2>2, <2>3, LimitsAssumption DEF Limited
<1>2. CASE x # u
  BY <1>0, <1>2 DEF Limited, RowIs, Types
<1> QED
  BY <1>1, <1>2

(* A row whose role and state stay leaves the admins.                          *)
LEMMA AdminsKept ==
    ASSUME IInv, NEW u \in DOMAIN users, NEW row, RowIs(u, row),
           row.role = users[u].role, row.active = users[u].active, unseen' = unseen
    PROVE  AdminRemains'
<1>1. ActiveAdmins' = ActiveAdmins
  BY DEF RowIs, ActiveAdmins, IsActiveAdmin
<1>2. NoUsers' = NoUsers
  BY DEF RowIs, NoUsers
<1>3. AdminRemains
  BY DEF IInv
<1> QED
  BY <1>1, <1>2, <1>3 DEF AdminRemains

LEMMA CredentialsKept ==
    ASSUME IInv, NEW u \in DOMAIN users, NEW row, RowIs(u, row),
           row.role = users[u].role, row.pw = users[u].pw,
           sessions' \subseteq sessions, tokens' \subseteq tokens
    PROVE  CredentialsCurrent'
BY DEF IInv, CredentialsCurrent, RowIs

LEMMA CredentialsPurged ==
    ASSUME IInv, NEW u \in DOMAIN users, NEW row, RowIs(u, row),
           sessions' = LogoutAllSessions(u), tokens' = RevokeAllForUser(u)
    PROVE  CredentialsCurrent'
BY DEF IInv, CredentialsCurrent, RowIs, LogoutAllSessions, RevokeAllForUser

LEMMA PardonedRow ==
    ASSUME NEW row \in Rows, NEW no \in Nat
    PROVE  /\ Pardoned(row) \in Rows
           /\ Pardoned(row).role = row.role /\ Pardoned(row).active = row.active
           /\ Pardoned(row).pw = row.pw
           /\ [Pardoned(row) EXCEPT !.pw = no] \in Rows
           /\ [Pardoned(row) EXCEPT !.pw = no].role = row.role
           /\ [Pardoned(row) EXCEPT !.pw = no].active = row.active
BY DEF Pardoned, Rows

LEMMA RaisedRow ==
    ASSUME NEW row \in Rows
    PROVE  LET new == RecordFailedLogin(row) IN
           /\ new \in Rows
           /\ new.role = row.role /\ new.active = row.active
           /\ new.pw = row.pw /\ new.failed = row.failed + 1
           /\ new.locked = IF new.failed >= MaxAttempts THEN "until" ELSE row.locked
<1> DEFINE mark == IF row.failed + 1 >= MaxAttempts THEN "until" ELSE row.locked
           new == [row EXCEPT !.failed = row.failed + 1, !.locked = mark]
<1>1. row.failed + 1 \in Nat /\ mark \in {"no", "until", "over"}
  BY DEF Rows
<1> HIDE DEF mark
<1>2. /\ new \in Rows
      /\ new.role = row.role /\ new.active = row.active
      /\ new.pw = row.pw /\ new.failed = row.failed + 1 /\ new.locked = mark
  BY <1>1 DEF Rows
<1>3. new = RecordFailedLogin(row)
  BY DEF RecordFailedLogin, mark
<1> HIDE DEF new
<1> QED
  BY <1>2, <1>3 DEF mark

LEMMA CountFailureIs ==
    ASSUME Types, NEW u \in DOMAIN users, CountFailure(u)
    PROVE  /\ users' = [users EXCEPT ![u] = RecordFailedLogin(users[u])]
           /\ checked' = [checked EXCEPT ![u] = @ + 1]
           /\ checked' \in [Users -> Nat]
BY DEF CountFailure, Types

(* A counted failure, when the row was not locked.                             *)
LEMMA CountFailureKeeps ==
    ASSUME IInv, NEW r \in Requests, NEW u \in DOMAIN users, owner[u] = r,
           users[u].locked # "until", CountFailure(u), Ended(r),
           UNCHANGED <<sessions, tokens, setup, uncounted, expired, unseen>>
    PROVE  IInv'
<1> DEFINE row == RecordFailedLogin(users[u])
<1>0. Types /\ users[u] \in Rows
  BY Parts DEF Types
<1>1. /\ row \in Rows /\ row.role = users[u].role /\ row.active = users[u].active
      /\ row.pw = users[u].pw /\ row.failed = users[u].failed + 1
      /\ row.locked = IF row.failed >= MaxAttempts THEN "until" ELSE users[u].locked
  BY <1>0, RaisedRow
<1>2. /\ users' = [users EXCEPT ![u] = row] /\ checked' = [checked EXCEPT ![u] = @ + 1]
      /\ checked' \in [Users -> Nat]
      /\ uncounted' \in Nat /\ expired' \in Nat /\ unseen' \in BOOLEAN
  BY <1>0, CountFailureIs DEF Types
<1> HIDE DEF row
<1>3. Types' /\ (\A x \in Requests : Fine(x)') /\ RowIs(u, row)
  BY <1>1, <1>2, RowWritten
<1>4. \A x \in Users : Limited(x)'
  BY <1>1, <1>2, <1>3, CountLimits
<1>5. CredentialsCurrent' /\ AdminRemains'
  BY <1>1, <1>3, CredentialsKept, AdminsKept
<1> QED
  BY <1>3, <1>4, <1>5, PartsNext DEF DataFine

(* A pardon that leaves password, role and state.                              *)
LEMMA PardonKeeps ==
    ASSUME IInv, NEW r \in Requests, NEW u \in DOMAIN users, NEW seen \in Rows,
           owner[u] \in {Nobody, r},
           Write(u, Flushed(users[u], seen, Pardoned(seen))), Ended(r),
           UNCHANGED <<uncounted, expired, unseen>>
    PROVE  LET row == Flushed(users[u], seen, Pardoned(seen)) IN
           /\ Types' /\ (\A x \in Requests : Fine(x)') /\ RowIs(u, row)
           /\ row.pw = users[u].pw /\ row.role = users[u].role
           /\ \A x \in Users : Limited(x)'
           /\ AdminRemains'
<1> DEFINE row == Flushed(users[u], seen, Pardoned(seen))
<1>0. Types /\ users[u] \in Rows /\ u \in Users
  BY Parts DEF Types
<1>1. /\ row \in Rows /\ row.role = users[u].role /\ row.active = users[u].active
      /\ row.pw = users[u].pw
  <2>1. /\ Pardoned(seen) \in Rows /\ Pardoned(seen).role = seen.role
        /\ Pardoned(seen).active = seen.active /\ Pardoned(seen).pw = seen.pw
    BY 0 \in Nat, PardonedRow
  <2> QED
    BY <1>0, <2>1, FlushedRow
<1>2. /\ users' = [users EXCEPT ![u] = row] /\ checked' = [checked EXCEPT ![u] = Unpardoned(u, row)]
      /\ checked' \in [Users -> Nat]
      /\ uncounted' = uncounted /\ expired' = expired
      /\ uncounted' \in Nat /\ expired' \in Nat /\ unseen' \in BOOLEAN
  BY <1>0 DEF Types, Write, Unpardoned
<1> HIDE DEF row
<1>3. Types' /\ (\A x \in Requests : Fine(x)') /\ RowIs(u, row)
  BY <1>1, <1>2, RowWritten
<1>4. \A x \in Users : Limited(x)'
  BY <1>1, <1>2, <1>3, PardonLimits
<1>5. AdminRemains'
  BY <1>1, <1>3, AdminsKept
<1> QED
  BY <1>1, <1>3, <1>4, <1>5 DEF row

(* A new password, whose purge ends what was opened before.                    *)
LEMMA NewPasswordKeeps ==
    ASSUME IInv, NEW r \in Requests, NEW u \in DOMAIN users, NEW row \in Rows,
           row.role = users[u].role, row.active = users[u].active,
           owner[u] \in {Nobody, r}, Write(u, row),
           sessions' = LogoutAllSessions(u), tokens' = RevokeAllForUser(u),
           Ended(r), UNCHANGED <<uncounted, expired, unseen>>
    PROVE  IInv'
<1>0. Types /\ u \in Users
  BY Parts DEF Types
<1>2. /\ users' = [users EXCEPT ![u] = row] /\ checked' = [checked EXCEPT ![u] = Unpardoned(u, row)]
      /\ checked' \in [Users -> Nat]
      /\ uncounted' = uncounted /\ expired' = expired
      /\ uncounted' \in Nat /\ expired' \in Nat /\ unseen' \in BOOLEAN
  BY <1>0 DEF Types, Write, Unpardoned
<1>3. Types' /\ (\A x \in Requests : Fine(x)') /\ RowIs(u, row)
  BY <1>2, RowWritten
<1>4. \A x \in Users : Limited(x)'
  BY <1>2, <1>3, PardonLimits
<1>5. CredentialsCurrent' /\ AdminRemains'
  BY <1>3, CredentialsPurged, AdminsKept
<1> QED
  BY <1>3, <1>4, <1>5, PartsNext DEF DataFine

LEMMA NewPasswordRow ==
    ASSUME NEW row \in Rows, NEW seen \in Rows, NEW no \in Nat
    PROVE  LET w == Flushed(row, seen, [Pardoned(seen) EXCEPT !.pw = no]) IN
           w \in Rows /\ w.role = row.role /\ w.active = row.active
<1> DEFINE new == [Pardoned(seen) EXCEPT !.pw = no]
<1>1. new \in Rows /\ new.role = seen.role /\ new.active = seen.active
  BY PardonedRow
<1> HIDE DEF new
<1>2. /\ Flushed(row, seen, new) \in Rows
      /\ Flushed(row, seen, new).role = row.role
      /\ Flushed(row, seen, new).active = row.active
  BY <1>1, FlushedRow
<1> QED
  BY <1>2 DEF new

-----------------------------------------------------------------------------
(* The second steps.                                                           *)

(* Ending without a change to users or counts.                                 *)
LEMMA QuietEndKeeps ==
    ASSUME IInv, NEW r \in Requests, Ended(r), UNCHANGED <<users, history>>,
           sessions' \subseteq sessions, tokens' \subseteq tokens
    PROVE  IInv'
<1>0. Types /\ DataFine
  BY Parts
<1>1. Types'
  BY <1>0 DEF Types, Ended, history
<1>2. users' = users /\ (NoUsers => NoUsers')
  BY DEF NoUsers
<1>3. \A x \in Requests : Fine(x)'
  BY <1>1, <1>2, EndsFine
<1>4. DataFine'
  BY <1>0, DataKept
<1> QED
  BY <1>1, <1>3, <1>4, PartsNext

LEMMA AuthenticateUserKeeps ==
    ASSUME IInv, NEW r \in Requests, AuthenticateUser(r)
    PROVE  IInv'
<1> DEFINE q == reqs[r]
           u == q.user
           opened == [id |-> q.no, user |-> u, pw |-> q.seen.pw, role |-> q.seen.role]
<1>0. /\ u \in DOMAIN users /\ owner[u] = r /\ Same(q.seen, users[u])
      /\ q.seen \in Rows /\ q.seen.pw = users[u].pw /\ q.seen.role = users[u].role
      /\ MayEnter(q.seen) => users[u].locked # "until"
  BY DEF IInv, Holds, AuthenticateUser, Same, MayEnter
<1>1. Ended(r) /\ UNCHANGED <<tokens, setup, uncounted, expired, unseen>>
  BY EndIsEnded DEF AuthenticateUser
<1>2. CASE UNCHANGED <<users, sessions, checked>>
  BY <1>1, <1>2, QuietEndKeeps DEF history
<1>3. CASE MayEnter(q.seen) /\ CountFailure(u) /\ UNCHANGED sessions
  BY <1>0, <1>1, <1>3, CountFailureKeeps
<1>4. CASE /\ Write(u, Flushed(users[u], q.seen, Pardoned(q.seen)))
           /\ sessions' = sessions \cup {opened}
  <2> DEFINE row == Flushed(users[u], q.seen, Pardoned(q.seen))
  <2>1. /\ Types' /\ (\A x \in Requests : Fine(x)') /\ RowIs(u, row)
        /\ row.pw = users[u].pw /\ row.role = users[u].role
        /\ \A x \in Users : Limited(x)'
        /\ AdminRemains'
    BY <1>0, <1>1, <1>4, PardonKeeps
  <2> HIDE DEF row
  <2>2. /\ opened.user = u /\ opened.pw = users[u].pw /\ opened.role = users[u].role
    BY <1>0
  <2> HIDE DEF opened
  <2>3. CredentialsCurrent
    BY DEF IInv
  <2>4. CredentialsCurrent'
    BY <1>0, <1>1, <1>4, <2>1, <2>2, <2>3 DEF CredentialsCurrent, RowIs
  <2> QED
    BY <2>1, <2>4, PartsNext DEF DataFine
<1> QED
  BY <1>2, <1>3, <1>4 DEF AuthenticateUser

LEMMA ChangePasswordKeeps ==
    ASSUME IInv, NEW r \in Requests, ChangePassword(r)
    PROVE  IInv'
<1> DEFINE q == reqs[r]
           u == q.user
           w == Flushed(users[u], q.seen, [Pardoned(q.seen) EXCEPT !.pw = q.no])
<1>0. /\ u \in DOMAIN users /\ owner[u] = r /\ q.no \in Nat /\ q.seen \in Rows
      /\ MayEnter(q.seen) => users[u].locked # "until"
      /\ users[u] \in Rows /\ Types
  BY DEF IInv, Types, Holds, ChangePassword, Same, MayEnter
<1>1. Ended(r) /\ UNCHANGED <<setup, expired, unseen>>
  BY EndIsEnded DEF ChangePassword
<1>2. CASE UNCHANGED <<users, sessions, tokens, checked, uncounted>>
  BY <1>1, <1>2, QuietEndKeeps DEF history
<1>3. CASE MayEnter(q.seen) /\ CountFailure(u) /\ UNCHANGED <<sessions, tokens, uncounted>>
  BY <1>0, <1>1, <1>3, CountFailureKeeps
<1>4. CASE /\ checked' = [checked EXCEPT ![u] = @ + 1] /\ uncounted' = uncounted + 1
           /\ UNCHANGED <<users, sessions, tokens>>
  <2>1. Types'
    BY <1>0, <1>1, <1>4 DEF Types, Ended
  <2>2. \A x \in Requests : Fine(x)'
    BY <1>1, <1>4, <2>1, EndsFine DEF NoUsers
  <2>3. \A x \in Users : Limited(x)'
    BY <1>0, <1>1, <1>4, LimitsAssumption DEF IInv, Limited, Types, Rows
  <2>4. CredentialsCurrent' /\ AdminRemains'
    BY <1>1, <1>4 DEF IInv, CredentialsCurrent, AdminRemains, NoUsers, ActiveAdmins
  <2> QED
    BY <2>1, <2>2, <2>3, <2>4, PartsNext DEF DataFine
<1>5. CASE /\ Write(u, Flushed(users[u], q.seen, Pardoned(q.seen)))
           /\ UNCHANGED <<sessions, tokens, uncounted>>
  <2> DEFINE row == Flushed(users[u], q.seen, Pardoned(q.seen))
  <2>1. /\ Types' /\ (\A x \in Requests : Fine(x)') /\ RowIs(u, row)
        /\ row.pw = users[u].pw /\ row.role = users[u].role
        /\ \A x \in Users : Limited(x)'
        /\ AdminRemains'
    BY <1>0, <1>1, <1>5, PardonKeeps
  <2> HIDE DEF row
  <2>2. CredentialsCurrent'
    BY <1>0, <1>5, <2>1, CredentialsKept
  <2> QED
    BY <2>1, <2>2, PartsNext DEF DataFine
<1>6. CASE /\ Write(u, w) /\ UNCHANGED uncounted
           /\ sessions' = LogoutAllSessions(u) /\ tokens' = RevokeAllForUser(u)
  <2>1. w \in Rows /\ w.role = users[u].role /\ w.active = users[u].active
    BY <1>0, NewPasswordRow
  <2> HIDE DEF w
  <2> QED
    BY <1>0, <1>1, <1>6, <2>1, NewPasswordKeeps
<1> QED
  BY <1>2, <1>3, <1>4, <1>5, <1>6 DEF ChangePassword

LEMMA ResetPasswordKeeps ==
    ASSUME IInv, NEW r \in Requests, NEW u \in Users, ResetPassword(r, u)
    PROVE  IInv'
<1> DEFINE w == [Pardoned(users[u]) EXCEPT !.pw = started]
<1>0. Types /\ u \in DOMAIN users /\ users[u] \in Rows /\ started \in Nat
  BY Parts DEF Types, ResetPassword
<1>1. w \in Rows /\ w.role = users[u].role /\ w.active = users[u].active
  BY <1>0, PardonedRow
<1>2. Ended(r)
  BY <1>0 DEF Ended, Types, ResetPassword
<1>3. /\ Write(u, w) /\ sessions' = LogoutAllSessions(u) /\ tokens' = RevokeAllForUser(u)
      /\ owner[u] = Nobody /\ UNCHANGED <<uncounted, expired, unseen>>
  BY DEF ResetPassword
<1> HIDE DEF w
<1> QED
  BY <1>0, <1>1, <1>2, <1>3, NewPasswordKeeps

LEMMA SetPasswordKeeps ==
    ASSUME IInv, NEW r \in Requests, SetPassword(r)
    PROVE  IInv'
<1> DEFINE q == reqs[r]
           u == q.user
           w == Flushed(users[u], q.seen, [Pardoned(q.seen) EXCEPT !.pw = q.no])
<1>0. q.seen \in Rows /\ q.no \in Nat /\ u \in Users
  BY DEF IInv, Reads, SetPassword
<1>1. Ended(r) /\ UNCHANGED <<setup, uncounted, expired, unseen>>
  BY EndIsEnded DEF SetPassword
<1>2. CASE u \notin DOMAIN users
  BY <1>1, <1>2, QuietEndKeeps DEF SetPassword, history
<1>3. CASE u \in DOMAIN users
  <2>0. users[u] \in Rows
    BY <1>3 DEF IInv, Types
  <2>1. w \in Rows /\ w.role = users[u].role /\ w.active = users[u].active
    BY <1>0, <2>0, NewPasswordRow
  <2>2. /\ Write(u, w) /\ owner[u] = Nobody
        /\ sessions' = LogoutAllSessions(u) /\ tokens' = RevokeAllForUser(u)
    BY <1>3 DEF SetPassword
  <2> HIDE DEF w
  <2> QED
    BY <1>1, <1>3, <2>1, <2>2, NewPasswordKeeps
<1> QED
  BY <1>2, <1>3

LEMMA UnlockUserKeeps ==
    ASSUME IInv, NEW r \in Requests, UnlockUser(r)
    PROVE  IInv'
<1> DEFINE q == reqs[r]
           u == q.user
           row == Flushed(users[u], q.seen, Pardoned(q.seen))
<1>0. q.seen \in Rows
  BY DEF IInv, Reads, UnlockUser
<1>1. Ended(r) /\ UNCHANGED <<sessions, tokens, setup, uncounted, expired, unseen>>
  BY EndIsEnded DEF UnlockUser
<1>2. CASE u \notin DOMAIN users
  BY <1>1, <1>2, QuietEndKeeps DEF UnlockUser, history
<1>3. CASE u \in DOMAIN users
  <2>1. owner[u] = Nobody /\ Write(u, row)
    BY <1>3 DEF UnlockUser
  <2>2. /\ Types' /\ (\A x \in Requests : Fine(x)') /\ RowIs(u, row)
        /\ row.pw = users[u].pw /\ row.role = users[u].role
        /\ \A x \in Users : Limited(x)'
        /\ AdminRemains'
    BY <1>0, <1>1, <1>3, <2>1, PardonKeeps
  <2> HIDE DEF row
  <2>3. CredentialsCurrent'
    BY <1>1, <1>3, <2>2, CredentialsKept
  <2> QED
    BY <2>2, <2>3, PartsNext DEF DataFine
<1> QED
  BY <1>2, <1>3

LEMMA CreateTokenKeeps ==
    ASSUME IInv, NEW r \in Requests, CreateToken(r)
    PROVE  IInv'
<1> DEFINE q == reqs[r]
           minted == [user |-> q.user, pw |-> q.session.pw]
<1>0. Types /\ DataFine /\ q.session.user = q.user
  BY Parts DEF Fine, Reads, CreateToken
<1>1. Ended(r) /\ UNCHANGED <<users, sessions, setup, history>>
  BY EndIsEnded DEF CreateToken
<1>2. CASE UNCHANGED tokens
  BY <1>1, <1>2, QuietEndKeeps
<1>3. CASE q.session \in sessions /\ tokens' = tokens \cup {minted}
  <2>1. Types'
    BY <1>0, <1>1 DEF Types, Ended, history
  <2>2. \A x \in Requests : Fine(x)'
    BY <1>1, <2>1, EndsFine DEF NoUsers
  <2>3. minted.user \in DOMAIN users /\ minted.pw = users[minted.user].pw
    BY <1>0, <1>3 DEF DataFine, CredentialsCurrent
  <2> HIDE DEF minted
  <2>4. CredentialsCurrent'
    BY <1>0, <1>1, <1>3, <2>3 DEF DataFine, CredentialsCurrent
  <2>5. (\A x \in Users : Limited(x)') /\ AdminRemains'
    BY <1>0, <1>1 DEF DataFine, Limited, AdminRemains, NoUsers, ActiveAdmins, history
  <2> QED
    BY <2>1, <2>2, <2>4, <2>5, PartsNext DEF DataFine
<1> QED
  BY <1>2, <1>3 DEF CreateToken

LEMMA RollbackKeeps ==
    ASSUME IInv, NEW r \in Requests, Rollback(r)
    PROVE  IInv'
BY EndIsEnded, QuietEndKeeps DEF Rollback, data

LEMMA CountOtherActiveAdminsKeeps ==
    ASSUME IInv, NEW r \in Requests, CountOtherActiveAdmins(r)
    PROVE  IInv'
<1> DEFINE u == reqs[r].user
<1>0. Types /\ Fine(r) /\ DataFine /\ (\A x \in Requests : Fine(x))
  BY Parts
<1>1. CASE End(r)
  BY <1>1, EndIsEnded, QuietEndKeeps DEF CountOtherActiveAdmins, data
<1>2. CASE ~End(r)
  <2>1. /\ ActiveAdmins \ {u} # {}
        /\ reqs' = [reqs EXCEPT ![r].at = "write"]
        /\ owner' = [x \in DOMAIN owner |-> IF x \in ActiveAdmins THEN r ELSE owner[x]]
        /\ started' = started /\ UNCHANGED <<data, history>>
        /\ reqs[r].op \in {"update", "delete"}
    BY <1>2 DEF CountOtherActiveAdmins
  <2>2. /\ DOMAIN reqs' = Requests /\ \A x \in Requests : x # r => reqs'[x] = reqs[x]
        /\ reqs'[r] = [reqs[r] EXCEPT !.at = "write"]
    BY <1>0, <2>1 DEF Types
  <2>3. Types'
    BY <1>0, <2>1, <2>2 DEF Types, data, history
  <2>4. \A y \in Users \cup {FirstBoot} :
            owner[y] \notin {Nobody, r} => owner'[y] = owner[y]
    BY <1>0, <2>1 DEF CountOtherActiveAdmins, Types
  <2>5. users' = users /\ (NoUsers => NoUsers')
    BY <2>1 DEF data, NoUsers
  <2>6. ASSUME NEW x \in Requests, x # r PROVE Fine(x)'
    BY <1>0, <2>2, <2>3, <2>4, <2>5, <2>6, OthersUndisturbed
  <2>7. /\ reqs'[r].op = reqs[r].op /\ reqs'[r].user = u /\ reqs'[r].seen = reqs[r].seen
        /\ reqs'[r].new = reqs[r].new
    BY <2>2
  <2>8. Holds(r)' /\ Reads(r)' /\ FirstHolds(r)'
    BY <1>0, <2>1, <2>7 DEF Fine, Holds, Reads, FirstHolds
  <2>9. Counted(r)'
    <3>1. PICK a \in ActiveAdmins : a # u
      BY <2>1
    <3>2. a \in ActiveAdmins' /\ owner'[a] = r
      BY <1>0, <2>1, <2>5, <3>1 DEF ActiveAdmins, Types
    <3> QED
      BY <2>7, <3>1, <3>2 DEF Counted
  <2>10. DataFine'
    BY <1>0, <2>1, DataKept DEF data
  <2> QED
    BY <2>3, <2>6, <2>8, <2>9, <2>10, PartsNext DEF Fine
<1> QED
  BY <1>1, <1>2

(* A change of role purges the sessions; an admin is taken away only where     *)
(* another one is held, or unseen says so.                                     *)
LEMMA UpdateUserKeeps ==
    ASSUME IInv, NEW r \in Requests, UpdateUser(r)
    PROVE  IInv'
<1> DEFINE q == reqs[r]
           u == q.user
           row == Flushed(users[u], q.seen, q.new)
<1>0. /\ Types /\ Counted(r) /\ DataFine
      /\ u \in Users /\ q.seen \in Rows /\ q.new \in Rows
      /\ q.new.pw = q.seen.pw /\ q.new.failed = q.seen.failed
      /\ q.new.locked = q.seen.locked /\ q.op = "update" /\ q.at = "write"
  BY Parts DEF Fine, Reads, UpdateUser
<1>1. Ended(r) /\ UNCHANGED <<tokens, setup, checked, uncounted, expired>>
  BY EndIsEnded DEF UpdateUser
<1>2. CASE u \notin DOMAIN users
  BY <1>1, <1>2, QuietEndKeeps DEF UpdateUser, history
<1>3. CASE u \in DOMAIN users
  <2>1. /\ owner[u] \in {Nobody, r} /\ users' = [users EXCEPT ![u] = row]
        /\ Unseen(q, IsActiveAdmin(users[u]) /\ ~IsActiveAdmin(row))
        /\ sessions' = IF q.new.role = q.seen.role THEN sessions ELSE LogoutAllSessions(u)
    BY <1>3 DEF UpdateUser
  <2>2. users[u] \in Rows /\ unseen' \in BOOLEAN
    BY <1>0, <1>3, <2>1 DEF Types, Unseen
  <2>3. /\ row \in Rows
        /\ row.role = IF q.new.role = q.seen.role THEN users[u].role ELSE q.new.role
        /\ row.active = IF q.new.active = q.seen.active THEN users[u].active ELSE q.new.active
        /\ row.pw = users[u].pw /\ row.failed = users[u].failed
        /\ row.locked = users[u].locked
    BY <1>0, <2>2, FlushedRow
  <2> HIDE DEF row
  <2>4. Types' /\ (\A x \in Requests : Fine(x)') /\ RowIs(u, row)
    BY <1>0, <1>1, <1>3, <2>1, <2>2, <2>3, RowWritten DEF Types
  <2>5. \A x \in Users : Limited(x)'
    BY <1>0, <1>1, <1>3, <2>3, <2>4 DEF DataFine, Limited, RowIs
  <2>6. CredentialsCurrent'
    BY <1>0, <1>1, <1>3, <2>1, <2>3, <2>4
       DEF DataFine, CredentialsCurrent, RowIs, LogoutAllSessions
  <2>7. AdminRemains'
    <3>1. CASE IsActiveAdmin(users[u]) /\ ~IsActiveAdmin(row) /\ ~IsActiveAdmin(q.seen)
      BY <2>1, <3>1 DEF Unseen, AdminRemains
    <3>2. CASE IsActiveAdmin(users[u]) /\ ~IsActiveAdmin(row) /\ IsActiveAdmin(q.seen)
      <4>1. ~IsActiveAdmin(q.new)
        BY <2>3, <3>2 DEF IsActiveAdmin
      <4>2. PICK a \in ActiveAdmins : a # u
        BY <1>0, <3>2, <4>1 DEF Counted, Removes
      <4>3. a \in ActiveAdmins'
        BY <2>4, <4>2 DEF ActiveAdmins, RowIs
      <4> QED
        BY <4>3 DEF AdminRemains
    <3>3. CASE ~(IsActiveAdmin(users[u]) /\ ~IsActiveAdmin(row))
      <4>1. ActiveAdmins \subseteq ActiveAdmins'
        BY <2>4, <3>3 DEF ActiveAdmins, RowIs
      <4>2. unseen => unseen'
        BY <2>1 DEF Unseen
      <4>3. NoUsers' = NoUsers
        BY <2>4 DEF NoUsers, RowIs
      <4> QED
        BY <1>0, <4>1, <4>2, <4>3 DEF DataFine, AdminRemains
    <3> QED
      BY <3>1, <3>2, <3>3
  <2> QED
    BY <2>4, <2>5, <2>6, <2>7, PartsNext DEF DataFine
<1> QED
  BY <1>2, <1>3

LEMMA DeleteUserKeeps ==
    ASSUME IInv, NEW r \in Requests, DeleteUser(r)
    PROVE  IInv'
<1> DEFINE q == reqs[r]
           u == q.user
<1>0. /\ Types /\ Counted(r) /\ DataFine /\ u \in Users
      /\ q.op = "delete" /\ q.at = "write"
  BY Parts DEF Fine, Reads, DeleteUser
<1>1. Ended(r) /\ UNCHANGED <<setup, uncounted, expired>>
  BY EndIsEnded DEF DeleteUser
<1>2. CASE u \notin DOMAIN users
  BY <1>1, <1>2, QuietEndKeeps DEF DeleteUser, history
<1>3. CASE u \in DOMAIN users
  <2>1. /\ owner[u] \in {Nobody, r}
        /\ users' = [x \in DOMAIN users \ {u} |-> users[x]]
        /\ sessions' = LogoutAllSessions(u) /\ tokens' = RevokeAllForUser(u)
        /\ checked' = [checked EXCEPT ![u] = 0]
        /\ Unseen(q, IsActiveAdmin(users[u]))
    BY <1>3 DEF DeleteUser, Restrict
  <2>2. /\ DOMAIN users' = DOMAIN users \ {u}
        /\ \A x \in DOMAIN users' : users'[x] = users[x]
    BY <2>1
  <2>3. Types'
    <3>1. unseen' \in BOOLEAN /\ checked' \in [Users -> Nat]
      BY <1>0, <2>1 DEF Types, Unseen
    <3>2. users' \in [DOMAIN users' -> Rows] /\ DOMAIN users' \subseteq Users
      BY <1>0, <2>1, <2>2 DEF Types
    <3> QED
      BY <1>0, <1>1, <3>1, <3>2 DEF Types, Ended
  <2>4. \A x \in Requests : Fine(x)'
    BY <1>1, <2>1, <2>2, <2>3, EndsFine DEF NoUsers
  <2>5. \A x \in Users : Limited(x)'
    BY <1>0, <1>1, <2>1, <2>2 DEF DataFine, Limited, Types
  <2>6. CredentialsCurrent'
    BY <1>0, <2>1, <2>2
       DEF DataFine, CredentialsCurrent, LogoutAllSessions, RevokeAllForUser
  <2>7. AdminRemains'
    <3>1. CASE IsActiveAdmin(users[u]) /\ ~IsActiveAdmin(q.seen)
      BY <2>1, <3>1 DEF Unseen, AdminRemains
    <3>2. CASE IsActiveAdmin(users[u]) /\ IsActiveAdmin(q.seen)
      <4>1. PICK a \in ActiveAdmins : a # u
        BY <1>0, <3>2 DEF Counted, Removes
      <4>2. a \in ActiveAdmins'
        BY <2>2, <4>1 DEF ActiveAdmins
      <4> QED
        BY <4>2 DEF AdminRemains
    <3>3. CASE ~IsActiveAdmin(users[u])
      <4>1. ActiveAdmins \subseteq ActiveAdmins'
        BY <2>2, <3>3 DEF ActiveAdmins
      <4>2. (unseen => unseen') /\ ~NoUsers
        BY <1>3, <2>1 DEF Unseen, NoUsers
      <4> QED
        BY <1>0, <4>1, <4>2 DEF DataFine, AdminRemains
    <3> QED
      BY <3>1, <3>2, <3>3
  <2> QED
    BY <2>3, <2>4, <2>5, <2>6, <2>7, PartsNext DEF DataFine
<1> QED
  BY <1>2, <1>3

(* A row is added: nobody holds it, and it opens nothing.                      *)
LEMMA AddedKeeps ==
    ASSUME IInv, NEW r \in Requests, Ended(r), NEW u \in Users, u \notin DOMAIN users,
           NEW row \in Rows, ~NoUsers \/ IsActiveAdmin(row),
           users' = [x \in DOMAIN users \cup {u} |-> IF x = u THEN row ELSE users[x]],
           owner[FirstBoot] \in {Nobody, r} \/ ~NoUsers,
           UNCHANGED <<sessions, tokens, history>>
    PROVE  IInv'
<1>0. Types /\ DataFine
  BY Parts
<1>1. /\ DOMAIN users' = DOMAIN users \cup {u}
      /\ \A x \in DOMAIN users : x # u /\ users'[x] = users[x]
      /\ users'[u] = row
  OBVIOUS
<1>2. users' \in [DOMAIN users' -> Rows] /\ DOMAIN users' \subseteq Users
  BY <1>0 DEF Types
<1>3. Types'
  BY <1>0, <1>2 DEF Types, Ended, history
<1>4. \A x \in Requests : Fine(x)'
  BY <1>1, <1>3, EndsFine
<1>5. \A x \in Users : Limited(x)'
  <2> SUFFICES ASSUME NEW x \in Users PROVE Limited(x)'
      OBVIOUS
  <2>1. CASE x = u
    <3>1. /\ checked'[u] = 0 /\ row.failed \in Nat /\ uncounted' \in Nat /\ expired' \in Nat
      BY <1>0, <1>3 DEF DataFine, Limited, history, Types, Rows
    <3>2. /\ 0 <= row.failed + uncounted'
          /\ 0 < MaxAttempts + uncounted'
          /\ 0 < MaxAttempts + expired' + uncounted'
          /\ 0 <= MaxAttempts + expired' + uncounted'
      BY <3>1, LimitsAssumption
    <3>3. u \in DOMAIN users' /\ users'[u] = row /\ checked'[u] = 0
      BY <1>1, <3>1
    <3> QED
      BY <2>1, <3>2, <3>3 DEF Limited
  <2>2. CASE x # u
    BY <1>0, <1>1, <2>2 DEF DataFine, Limited, history
  <2> QED
    BY <2>1, <2>2
<1>6. CredentialsCurrent'
  BY <1>0, <1>1 DEF DataFine, CredentialsCurrent
<1>7. AdminRemains'
  BY <1>0, <1>1 DEF DataFine, AdminRemains, NoUsers, ActiveAdmins, history
<1> QED
  BY <1>3, <1>4, <1>5, <1>6, <1>7, PartsNext DEF DataFine

LEMMA NewUserRow ==
    ASSUME NEW role \in Roles, NEW active \in BOOLEAN, NEW pw \in Nat
    PROVE  NewUser(role, active, pw) \in Rows
BY DEF NewUser, Rows, Roles

LEMMA CreateUserKeeps ==
    ASSUME IInv, NEW r \in Requests, NEW u \in Users, CreateUser(r, u)
    PROVE  IInv'
<1>0. Types
  BY Parts
<1>1. PICK role \in Roles, active \in BOOLEAN :
          users' = [x \in DOMAIN users \cup {u} |->
                       IF x = u THEN NewUser(role, active, started) ELSE users[x]]
  BY DEF CreateUser
<1>2. NewUser(role, active, started) \in Rows
  BY <1>0, NewUserRow DEF Types
<1>3. Ended(r)
  BY <1>0 DEF Ended, Types, CreateUser
<1>4. /\ ~NoUsers /\ u \notin DOMAIN users /\ UNCHANGED <<sessions, tokens, history>>
  BY DEF CreateUser, NoUsers, ActiveAdmins
<1> QED
  BY <1>1, <1>2, <1>3, <1>4, AddedKeeps

LEMMA FirstAdminKeeps ==
    ASSUME IInv, NEW r \in Requests, Ended(r), NEW u \in Users,
           reqs[r].op \in {"bootstrap", "setup"}, AddAdmin(u, reqs[r].no),
           UNCHANGED <<sessions, tokens, history>>
    PROVE  IInv'
<1> DEFINE row == NewUser("admin", TRUE, reqs[r].no)
<1>1. owner[FirstBoot] = r /\ reqs[r].no \in Nat
  BY DEF IInv, FirstHolds
<1>2. row \in Rows /\ IsActiveAdmin(row)
  BY <1>1, NewUserRow DEF NewUser, IsActiveAdmin, Roles
<1>3. /\ u \notin DOMAIN users
      /\ users' = [x \in DOMAIN users \cup {u} |-> IF x = u THEN row ELSE users[x]]
  BY DEF AddAdmin
<1> HIDE DEF row
<1> QED
  BY <1>1, <1>2, <1>3, AddedKeeps

LEMMA BootstrapKeeps ==
    ASSUME IInv, NEW r \in Requests, Bootstrap(r)
    PROVE  IInv'
BY EndIsEnded, FirstAdminKeeps, QuietEndKeeps DEF Bootstrap

LEMMA CreateFirstAdminKeeps ==
    ASSUME IInv, NEW r \in Requests, CreateFirstAdmin(r)
    PROVE  IInv'
BY EndIsEnded, FirstAdminKeeps, QuietEndKeeps DEF CreateFirstAdmin

-----------------------------------------------------------------------------
(* The steps of no request.                                                    *)

LEMMA FewerCredentials ==
    ASSUME IInv, sessions' \subseteq sessions, tokens' \subseteq tokens,
           UNCHANGED <<users, owner, reqs, started, history>>
    PROVE  IInv'
<1>0. Types /\ (\A x \in Requests : Fine(x)) /\ DataFine
  BY Parts
<1>1. Types'
  BY <1>0 DEF Types, history
<1>2. \A x \in Requests : Fine(x)'
  BY <1>0 DEF Fine, Holds, Reads, Counted, ActiveAdmins, FirstHolds, NoUsers
<1>3. DataFine'
  BY <1>0, DataKept
<1> QED
  BY <1>1, <1>2, <1>3, PartsNext

(* A lock that runs out lets one more guess in, and one more is allowed.       *)
LEMMA LockExpiresKeeps ==
    ASSUME IInv, NEW u \in DOMAIN users, LockExpires(u)
    PROVE  IInv'
<1> DEFINE row == [users[u] EXCEPT !.locked = "over"]
<1>0. Types /\ (\A x \in Requests : Fine(x)) /\ DataFine
  BY Parts
<1>1. /\ users[u] \in Rows /\ users[u].locked = "until"
      /\ users' = [users EXCEPT ![u] = row] /\ expired' = expired + 1
      /\ UNCHANGED <<sessions, tokens, owner, reqs, started, checked, uncounted, unseen>>
  BY <1>0 DEF LockExpires, Types
<1>2. /\ row \in Rows /\ row.locked = "over"
      /\ row.role = users[u].role /\ row.active = users[u].active
      /\ row.pw = users[u].pw /\ row.failed = users[u].failed
  BY <1>1 DEF Rows
<1> HIDE DEF row
<1>3. /\ DOMAIN users' = DOMAIN users /\ users'[u] = row
      /\ \A x \in DOMAIN users : x # u => users'[x] = users[x]
  BY <1>0, <1>1 DEF Types
<1>4. Types'
  BY <1>0, <1>1, <1>2, <1>3 DEF Types
<1>5. ActiveAdmins' = ActiveAdmins /\ (NoUsers' <=> NoUsers)
  BY <1>2, <1>3 DEF ActiveAdmins, IsActiveAdmin, NoUsers
<1>6. \A x \in Requests : Fine(x)'
  <2> SUFFICES ASSUME NEW x \in Requests PROVE Fine(x)'
      OBVIOUS
  <2>1. Fine(x) /\ reqs' = reqs /\ owner' = owner
    BY <1>0, <1>1
  <2>2. Holds(x)'
    BY <1>1, <1>2, <1>3, <2>1 DEF Fine, Holds, Same
  <2>3. Reads(x)' /\ FirstHolds(x)'
    BY <1>5, <2>1 DEF Fine, Reads, FirstHolds
  <2>4. Counted(x)'
    BY <1>5, <2>1 DEF Fine, Counted
  <2> QED
    BY <2>2, <2>3, <2>4 DEF Fine
<1>7. \A x \in Users : Limited(x)'
  <2> SUFFICES ASSUME NEW x \in Users PROVE Limited(x)'
      OBVIOUS
  <2>1. /\ Limited(x) /\ checked[x] \in Nat /\ checked' = checked /\ uncounted' = uncounted
        /\ uncounted \in Nat /\ expired \in Nat /\ MaxAttempts \in Nat
    BY <1>0, <1>1, LimitsAssumption DEF DataFine, Types
  <2>2. CASE x = u
    BY <1>1, <1>2, <1>3, <2>1, <2>2 DEF Limited
  <2>3. CASE x # u
    BY <1>1, <1>3, <2>1, <2>3 DEF Limited
  <2> QED
    BY <2>2, <2>3
<1>8. CredentialsCurrent'
  BY <1>0, <1>1, <1>2, <1>3 DEF DataFine, CredentialsCurrent
<1>9. AdminRemains'
  BY <1>0, <1>1, <1>5 DEF DataFine, AdminRemains
<1> QED
  BY <1>4, <1>6, <1>7, <1>8, <1>9, PartsNext DEF DataFine

LEMMA NextKeeps == IInv /\ [Next]_vars => IInv'
<1> SUFFICES ASSUME IInv, [Next]_vars PROVE IInv'
    OBVIOUS
<1>1. ASSUME NEW r \in Requests, NEW u \in Users,
             \/ UserForLogin(r, u) \/ GetByLogin(r, u)
             \/ ResetPassword(r, u) \/ CreateUser(r, u)
      PROVE  IInv'
  BY <1>1, UserForLoginKeeps, GetByLoginKeeps, ResetPasswordKeeps, CreateUserKeeps
<1>2. ASSUME NEW r \in Requests, NEW u \in DOMAIN users,
             ReadForDelete(r, u) \/ ReadForUnlock(r, u)
      PROVE  IInv'
  BY <1>2, ReadForDeleteKeeps, ReadForUnlockKeeps
<1>3. ASSUME NEW r \in Requests, NEW u \in DOMAIN users,
             NEW role \in Roles, NEW active \in BOOLEAN,
             ReadForUpdate(r, u, [users[u] EXCEPT !.role = role, !.active = active])
      PROVE  IInv'
  BY <1>3, ReadForUpdateKeeps
<1>4. ASSUME NEW r \in Requests, NEW s \in sessions, SubmitChange(r, s) \/ SubmitToken(r, s)
      PROVE  IInv'
  BY <1>4, SubmitChangeKeeps, SubmitTokenKeeps
<1>5. ASSUME NEW r \in Requests, NEW op \in {"bootstrap", "setup"}, FirstBootCount(r, op)
      PROVE  IInv'
  BY <1>5, FirstBootCountKeeps
<1>6. ASSUME NEW r \in Requests,
             \/ AuthenticateUser(r) \/ GetByIdForLogin(r) \/ ChangePassword(r)
             \/ SetPassword(r) \/ CreateToken(r) \/ CountOtherActiveAdmins(r)
             \/ UpdateUser(r) \/ DeleteUser(r) \/ UnlockUser(r)
             \/ Bootstrap(r) \/ CreateFirstAdmin(r) \/ Rollback(r)
      PROVE  IInv'
  BY <1>6, AuthenticateUserKeeps, GetByIdForLoginKeeps, ChangePasswordKeeps,
     SetPasswordKeeps, CreateTokenKeeps, CountOtherActiveAdminsKeeps,
     UpdateUserKeeps, DeleteUserKeeps, UnlockUserKeeps, BootstrapKeeps,
     CreateFirstAdminKeeps, RollbackKeeps
<1>7. ASSUME NEW s \in sessions, EndSession(s) PROVE IInv'
  BY <1>7, FewerCredentials DEF EndSession
<1>8. ASSUME NEW t \in tokens, RevokeToken(t) PROVE IInv'
  BY <1>8, FewerCredentials DEF RevokeToken
<1>9. ASSUME NEW u \in DOMAIN users, LockExpires(u) PROVE IInv'
  BY <1>9, LockExpiresKeeps
<1>10. CASE DiscardToken
  BY <1>10, FewerCredentials DEF DiscardToken
<1>11. CASE UNCHANGED vars
  BY <1>11, FewerCredentials DEF vars, history
<1> QED
  BY <1>1, <1>2, <1>3, <1>4, <1>5, <1>6, <1>7, <1>8, <1>9, <1>10, <1>11 DEF Next

-----------------------------------------------------------------------------
LEMMA AlwaysIInv == Spec => []IInv
BY InitHolds, NextKeeps, PTL DEF Spec

(* However sign-ins, token requests, password changes, resets, recoveries and  *)
(* changes of role interleave, no session outlives the password or role it was *)
(* opened under and no token the password (logout_all_sessions and             *)
(* revoke_all_for_user under the row's lock, and the stamp of the session).    *)
THEOREM CredentialsStayCurrent == Spec => []CredentialsCurrent
<1>1. IInv => CredentialsCurrent
  BY DEF IInv
<1> QED
  BY <1>1, AlwaysIInv, PTL

(* Any number of concurrent sign-ins and password changes compare no more      *)
(* wrong passwords than the lockout allows (get_by_username_for_login,         *)
(* get_by_id_for_login, record_failed_login).                                  *)
THEOREM GuessesStayLimited == Spec => []GuessesLimited
<1>1. IInv => GuessesLimited
  BY LimitsAssumption DEF IInv, Types, Limited, GuessesLimited
<1> QED
  BY <1>1, AlwaysIInv, PTL

(* Any number of concurrent updates and deletions leave an active admin, but   *)
(* for those that judged the rule on a row read before it became one           *)
(* (_assert_an_active_admin_remains, count_other_active_admins).               *)
THEOREM AnAdminRemains == Spec => []AdminRemains
<1>1. IInv => AdminRemains
  BY DEF IInv
<1> QED
  BY <1>1, AlwaysIInv, PTL

(* Any number of starting processes and setup forms put a first admin only     *)
(* into an empty table (lock_first_boot, count_users).                         *)
THEOREM FirstAdminIntoEmpty == Spec => FirstIntoEmpty
<1> DEFINE Into == \A r \in Requests :
                      /\ reqs[r].op \in {"bootstrap", "setup"}
                      /\ reqs'[r] # reqs[r] /\ users' # users
                      => NoUsers
<1>1. IInv => Into
  BY DEF IInv, FirstHolds
<1>2. IInv /\ [Next]_vars => [Into]_vars
  BY <1>1
<1> QED
  BY <1>2, AlwaysIInv, PTL DEF Spec, FirstIntoEmpty

=============================================================================
