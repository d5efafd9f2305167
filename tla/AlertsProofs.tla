---------------------------- MODULE AlertsProofs ----------------------------
(* What the reports of a check and the evaluation of an alert on it promise,   *)
(* for every alert, every number of requests and of results.                   *)
EXTENDS Alerts, FiniteSetTheorems, WellFoundedInduction, TLAPS

-----------------------------------------------------------------------------
(* A result is evaluated once: the results an open request has inserted are    *)
(* its own, and none of them is committed.                                     *)

(* What runs of the check may report.                                          *)
Reported == UNION {Readings(c.trigger) : c \in Configs}

IsRequest(r) == r = [pc |-> r.pc, fresh |-> r.fresh, todo |-> r.todo,
                     row |-> r.row, pages |-> r.pages]

LEMMA StepOfRequest ==
    ASSUME NEW r, IsRequest(r), NEW todo, NEW row, NEW pages
    PROVE  /\ [r EXCEPT !.todo = todo]
                = [pc |-> r.pc, fresh |-> r.fresh, todo |-> todo, row |-> r.row,
                   pages |-> r.pages]
           /\ [r EXCEPT !.todo = todo, !.row = row, !.pages = pages]
                = [pc |-> r.pc, fresh |-> r.fresh, todo |-> todo, row |-> row,
                   pages |-> pages]
<1>1. PICK pc, fresh, t, w, p :
         r = [pc |-> pc, fresh |-> fresh, todo |-> t, row |-> w, pages |-> p]
  BY DEF IsRequest
<1>2. r.pc = pc /\ r.fresh = fresh /\ r.row = w /\ r.pages = p
  BY <1>1
<1> DEFINE r1 == [r EXCEPT !.todo = todo]
           r2 == [r1 EXCEPT !.row = row]
           r3 == [r2 EXCEPT !.pages = pages]
<1>3. r1 = [pc |-> pc, fresh |-> fresh, todo |-> todo, row |-> w, pages |-> p]
  BY <1>1
<1> HIDE DEF r1
<1>4. r2 = [pc |-> pc, fresh |-> fresh, todo |-> todo, row |-> row, pages |-> p]
  BY <1>3
<1> HIDE DEF r2
<1>5. r3 = [pc |-> pc, fresh |-> fresh, todo |-> todo, row |-> row, pages |-> pages]
  BY <1>4
<1>6. [r EXCEPT !.todo = todo, !.row = row, !.pages = pages] = r3
  BY DEF r1, r2
<1> HIDE DEF r3
<1> QED
  BY <1>2, <1>3, <1>5, <1>6 DEF r1

OnceTypes ==
    /\ alert \in Configs
    /\ reading \in Seq(Reported) /\ Len(reading) <= MaxRuns
    /\ DOMAIN request = Requests /\ \A q \in Requests : IsRequest(request[q])

FreshIsOwn ==
    \A q \in Requests :
        /\ request[q].fresh \subseteq 1..MaxRuns
        /\ request[q].fresh \cap stored = {}
        /\ request[q].pc = "idle" => request[q].fresh = {}
        /\ \A p \in Requests \ {q} : request[q].fresh \cap request[p].fresh = {}

OnceInv == OnceTypes /\ FreshIsOwn /\ EvaluatedOnce

LEMMA InitOnce == Init => OnceInv
<1> SUFFICES ASSUME Init PROVE OnceInv
  OBVIOUS
<1>1. OnceTypes
  <2>1. reading \in Seq(Reported) /\ Len(reading) <= MaxRuns
    BY BoundsAssumption DEF Init
  <2>2. DOMAIN request = Requests /\ \A q \in Requests : request[q] = Idle
    BY DEF Init
  <2>3. IsRequest(Idle)
    BY DEF IsRequest, Idle
  <2> QED
    BY <2>1, <2>2, <2>3 DEF OnceTypes, Init
<1>2. FreshIsOwn /\ EvaluatedOnce
  BY DEF Init, FreshIsOwn, EvaluatedOnce, Idle
<1> QED
  BY <1>1, <1>2 DEF OnceInv

(* The evaluation of result t.                                                 *)
Evaluates(q, t) ==
    /\ request[q].pc = "evaluating" /\ t \in request[q].todo
    /\ IF watching /\ ShouldFire(q, reading[t])
         THEN FireAlert(q, t)
         ELSE /\ Quiet(q, t)
              /\ slips' = IF watching THEN slips ELSE slips \cup {"off"}
    /\ UNCHANGED <<switches, parentDown, reading, tables, evaluated, events>>

LEMMA EvaluatesOne ==
    ASSUME NEW q \in Requests, EvaluateCheckResult(q)
    PROVE  \E t \in request[q].todo : Evaluates(q, t)
BY DEF EvaluateCheckResult, Evaluates

(* Going on to the next result leaves what was inserted alone.                 *)
SameFresh ==
    /\ DOMAIN request' = DOMAIN request
    /\ \A p \in Requests : /\ IsRequest(request'[p])
                           /\ request'[p].fresh = request[p].fresh
                           /\ request'[p].pc = request[p].pc

LEMMA QuietSame ==
    ASSUME OnceTypes, NEW q \in Requests, NEW t, Quiet(q, t)
    PROVE  SameFresh
<1>1. request' = [request EXCEPT ![q] = [request[q] EXCEPT !.todo = request[q].todo \ {t}]]
  BY DEF Quiet
<1>2. DOMAIN request = Requests /\ \A p \in Requests : IsRequest(request[p])
  BY DEF OnceTypes
<1>3. \A p \in Requests \ {q} : request'[p] = request[p]
  BY <1>1, <1>2
<1>4. /\ IsRequest(request'[q]) /\ request'[q].fresh = request[q].fresh
      /\ request'[q].pc = request[q].pc
  BY <1>1, <1>2, StepOfRequest DEF IsRequest
<1> QED
  BY <1>1, <1>2, <1>3, <1>4 DEF SameFresh

LEMMA LoggedSame ==
    ASSUME OnceTypes, NEW q \in Requests, NEW t, NEW key, NEW count, NEW sent,
           Logged(q, t, key, count, sent)
    PROVE  SameFresh
<1>1. request' = [request EXCEPT ![q] =
                    [request[q] EXCEPT !.todo = request[q].todo \ {t},
                                       !.row = [at |-> now + 1, key |-> key,
                                                count |-> count],
                                       !.pages = request[q].pages + sent]]
  BY DEF Logged
<1>2. DOMAIN request = Requests /\ \A p \in Requests : IsRequest(request[p])
  BY DEF OnceTypes
<1>3. \A p \in Requests \ {q} : request'[p] = request[p]
  BY <1>1, <1>2
<1>4. /\ IsRequest(request'[q]) /\ request'[q].fresh = request[q].fresh
      /\ request'[q].pc = request[q].pc
  BY <1>1, <1>2, StepOfRequest DEF IsRequest
<1> QED
  BY <1>1, <1>2, <1>3, <1>4 DEF SameFresh

LEMMA EvaluateSame ==
    ASSUME OnceTypes, NEW q \in Requests, EvaluateCheckResult(q)
    PROVE  SameFresh
<1>1. PICK t : Evaluates(q, t)
  BY EvaluatesOne
<1>2. FireAlert(q, t) \/ Quiet(q, t)
  BY <1>1 DEF Evaluates
<1>3. CASE FireAlert(q, t)
  BY <1>3, QuietSame, LoggedSame DEF FireAlert, Suppress, Page
<1> QED
  BY <1>2, <1>3, QuietSame

(* An evaluation that fails: the request goes on without a row.                *)
LEMMA FailsIs ==
    ASSUME DOMAIN request = Requests, \A p \in Requests : IsRequest(request[p]),
           NEW q \in Requests, EvaluationFails(q)
    PROVE  /\ DOMAIN request' = Requests
           /\ \A p \in Requests \ {q} : request'[p] = request[p]
           /\ IsRequest(request'[q]) /\ request'[q].pc = request[q].pc
           /\ request'[q].fresh = request[q].fresh
           /\ request'[q].row = request[q].row /\ request'[q].pages = request[q].pages
           /\ request'[q].todo \subseteq request[q].todo
           /\ \/ UNCHANGED paging
              \/ /\ \E t \in request[q].todo : Tell(StateKey(reading[t]))
                 /\ lost' = lost + 1
<1>1. PICK t \in request[q].todo :
        /\ request' = [request EXCEPT ![q] =
                         [request[q] EXCEPT !.todo = request[q].todo \ {t}]]
        /\ UNCHANGED paging \/ (Tell(StateKey(reading[t])) /\ lost' = lost + 1)
  BY DEF EvaluationFails
<1> DEFINE rest == request[q].todo \ {t}
<1>2. request' = [request EXCEPT ![q] = [request[q] EXCEPT !.todo = rest]]
  BY <1>1
<1>3. rest \subseteq request[q].todo
  OBVIOUS
<1> HIDE DEF rest
<1>4. DOMAIN request' = Requests /\ \A p \in Requests \ {q} : request'[p] = request[p]
  BY <1>2
<1>5. request'[q] = [pc |-> request[q].pc, fresh |-> request[q].fresh, todo |-> rest,
                     row |-> request[q].row, pages |-> request[q].pages]
  BY <1>2, StepOfRequest
<1> QED
  BY <1>1, <1>3, <1>4, <1>5 DEF IsRequest

LEMMA SameFreshKeeps ==
    ASSUME OnceInv, SameFresh, UNCHANGED <<alert, reading, stored, evaluated>>
    PROVE  OnceInv'
BY DEF OnceInv, SameFresh, OnceTypes, FreshIsOwn, EvaluatedOnce

LEMMA ReportKeepsOnce ==
    ASSUME OnceInv, NEW q \in Requests, ProcessReport(q)
    PROVE  OnceInv'
<1> USE DEF OnceInv
<1>1. PICK batch \in SUBSET Runs :
        /\ \A p \in Requests : request[p].fresh \cap batch = {}
        /\ request' = [request EXCEPT ![q] =
                         [pc |-> "evaluating", fresh |-> batch \ stored,
                          todo |-> batch \ stored, row |-> None,
                          pages |-> 0]]
  BY DEF ProcessReport, Inserted
<1>2. UNCHANGED <<alert, reading, stored, evaluated>>
  BY DEF ProcessReport, switches, tables
<1>3. batch \subseteq 1..MaxRuns
  BY BoundsAssumption DEF Runs, OnceTypes
<1>4. OnceTypes'
  BY <1>1, <1>2 DEF OnceTypes, IsRequest
<1>5. /\ request'[q].fresh = batch \ stored /\ request'[q].pc = "evaluating"
      /\ \A p \in Requests \ {q} : request'[p] = request[p]
  BY <1>1 DEF OnceTypes
<1>6. FreshIsOwn'
  <2> DEFINE own == batch \ stored
  <2>1. \A p \in Requests : request[p].fresh \cap own = {}
    BY <1>1
  <2>2. own \cap stored = {} /\ own \subseteq 1..MaxRuns
    BY <1>3
  <2> HIDE DEF own
  <2>3. request'[q].fresh = own /\ request'[q].pc # "idle"
    BY <1>5 DEF own
  <2> SUFFICES ASSUME NEW p \in Requests
               PROVE  /\ request'[p].fresh \subseteq 1..MaxRuns
                      /\ request'[p].fresh \cap stored = {}
                      /\ request'[p].pc = "idle" => request'[p].fresh = {}
                      /\ \A o \in Requests \ {p} :
                            request'[p].fresh \cap request'[o].fresh = {}
    BY <1>2 DEF FreshIsOwn
  <2>4. CASE p = q
    BY <1>5, <2>1, <2>2, <2>3, <2>4 DEF FreshIsOwn
  <2>5. CASE p # q
    <3>1. request'[p] = request[p]
      BY <1>5, <2>5
    <3>2. \A o \in Requests \ {p} :
             request'[o].fresh \in {own, request[o].fresh}
      BY <1>5, <2>3
    <3> QED
      BY <2>1, <3>1, <3>2 DEF FreshIsOwn
  <2> QED
    BY <2>4, <2>5
<1> QED
  BY <1>2, <1>4, <1>6 DEF EvaluatedOnce

LEMMA CommitKeepsOnce ==
    ASSUME OnceInv, NEW q \in Requests, Commit(q)
    PROVE  OnceInv'
<1> USE DEF OnceInv
<1>1. /\ request' = [request EXCEPT ![q] = Idle]
      /\ stored' = stored \cup request[q].fresh
      /\ UNCHANGED <<alert, reading>>
  BY DEF Commit, switches
<1>2. OnceTypes'
  BY <1>1 DEF OnceTypes, IsRequest, Idle
<1>3. /\ request'[q].fresh = {}
      /\ \A p \in Requests \ {q} : request'[p] = request[p]
  BY <1>1 DEF OnceTypes, Idle
<1>4. FreshIsOwn'
  BY <1>1, <1>3 DEF FreshIsOwn
<1>5. EvaluatedOnce'
  <2> SUFFICES ASSUME NEW t \in 1..MaxRuns
               PROVE  evaluated'[t] = IF t \in stored' THEN 1 ELSE 0
    BY DEF EvaluatedOnce
  <2>1. evaluated'[t] = IF t \in request[q].fresh THEN evaluated[t] + 1
                                                  ELSE evaluated[t]
    BY DEF Commit
  <2>2. evaluated[t] = IF t \in stored THEN 1 ELSE 0
    BY DEF EvaluatedOnce
  <2>3. t \in request[q].fresh => t \notin stored
    BY DEF FreshIsOwn
  <2> QED
    BY <1>1, <2>1, <2>2, <2>3
<1> QED
  BY <1>2, <1>4, <1>5

LEMMA AbortKeepsOnce ==
    ASSUME OnceInv, NEW q \in Requests, Abort(q)
    PROVE  OnceInv'
<1> USE DEF OnceInv
<1>1. /\ request' = [request EXCEPT ![q] = Idle]
      /\ UNCHANGED <<alert, reading, stored, evaluated>>
  BY DEF Abort, switches, tables
<1>2. OnceTypes'
  BY <1>1 DEF OnceTypes, IsRequest, Idle
<1>3. /\ request'[q].fresh = {}
      /\ \A p \in Requests \ {q} : request'[p] = request[p]
  BY <1>1 DEF OnceTypes, Idle
<1>4. FreshIsOwn'
  BY <1>1, <1>3 DEF FreshIsOwn
<1> QED
  BY <1>1, <1>2, <1>4 DEF EvaluatedOnce

LEMMA OnceNext == OnceInv /\ [Next]_vars => OnceInv'
<1> SUFFICES ASSUME OnceInv, [Next]_vars PROVE OnceInv'
  OBVIOUS
<1>1. CASE RunCheck
  <2>1. UNCHANGED <<alert, request, stored, evaluated>>
    BY <1>1 DEF RunCheck, switches, tables
  <2>2. PICK r \in Readings(alert.trigger) : reading' = Append(reading, r)
    BY <1>1 DEF RunCheck
  <2>3. r \in Reported
    BY DEF OnceInv, OnceTypes, Reported
  <2>4. reading' \in Seq(Reported) /\ Len(reading') <= MaxRuns
    BY <1>1, <2>2, <2>3, BoundsAssumption DEF RunCheck, OnceInv, OnceTypes
  <2> QED
    BY <2>1, <2>4 DEF OnceInv, OnceTypes, FreshIsOwn, EvaluatedOnce
<1>2. CASE Edit \/ ParentTurns \/ Tick \/ UNCHANGED vars
  <2>1. UNCHANGED <<alert, reading, request, stored, evaluated>>
    BY <1>2 DEF Edit, ParentTurns, Tick, vars, switches, tables
  <2> QED
    BY <2>1 DEF OnceInv, OnceTypes, FreshIsOwn, EvaluatedOnce
<1>3. ASSUME NEW q \in Requests, ProcessReport(q) PROVE OnceInv'
  BY <1>3, ReportKeepsOnce
<1>4. ASSUME NEW q \in Requests, EvaluateCheckResult(q) PROVE OnceInv'
  <2>1. UNCHANGED <<alert, reading, stored, evaluated>>
    BY <1>4 DEF EvaluateCheckResult, switches, tables
  <2>2. SameFresh
    BY <1>4, EvaluateSame DEF OnceInv
  <2> QED
    BY <2>1, <2>2, SameFreshKeeps
<1>5. ASSUME NEW q \in Requests, Commit(q) PROVE OnceInv'
  BY <1>5, CommitKeepsOnce
<1>6. ASSUME NEW q \in Requests, Abort(q) PROVE OnceInv'
  BY <1>6, AbortKeepsOnce
<1>7. ASSUME NEW q \in Requests, EvaluationFails(q) PROVE OnceInv'
  <2>1. UNCHANGED <<alert, reading, stored, evaluated>>
    BY <1>7 DEF EvaluationFails, switches, tables
  <2>2. DOMAIN request = Requests /\ \A p \in Requests : IsRequest(request[p])
    BY DEF OnceInv, OnceTypes
  <2>3. SameFresh
    BY <1>7, <2>2, FailsIs DEF SameFresh
  <2> QED
    BY <2>1, <2>3, SameFreshKeeps
<1> QED
  BY <1>1, <1>2, <1>3, <1>4, <1>5, <1>6, <1>7 DEF Next

(* "A retried duplicate must not re-fire" (process_agent_report), for every    *)
(* number of requests and results: whatever is sent again, in whatever batches *)
(* and by however many requests at a time, the evaluation of a result is       *)
(* committed once, together with the result.                                   *)
THEOREM ResultsAreEvaluatedOnce == Spec => []EvaluatedOnce
<1>1. OnceInv => EvaluatedOnce
  BY DEF OnceInv
<1> QED
  BY <1>1, InitOnce, OnceNext, PTL DEF Spec

-----------------------------------------------------------------------------
(* The pages of one state in a row are capped: as long as nothing hides a row  *)
(* from the next evaluation, the count of the newest row of the state last     *)
(* paged follows the pages of it, but for those whose rows were lost.          *)

Clean == slips \cap {"overlap", "parent", "undelivered"} = {}

(* And no row was rolled back.                                                 *)
Kept == Clean /\ slips \cap {"rolled_back", "failed"} = {}

Capped == alert.resend = Never \/ alert.max # Never

(* The pages of the state last paged that a row knows of.                      *)
Known(row) == IF row # None /\ row.key = told THEN row.count + 1 ELSE 0

Within(row) ==
    Capped /\ row # None =>
        row.count <= IF alert.resend = Never THEN 0 ELSE alert.max

CountsPages(row) == inRow <= Known(row) + lost /\ Within(row)

(* The row tells the state last paged.                                         *)
Tells(row) == told = IF row = None THEN None ELSE row.key

PageTypes ==
    /\ alert \in Configs /\ now \in Nat /\ inRow \in Nat /\ lost \in Nat
    /\ last = None \/ (last \in LogRow /\ last.at <= now)
    /\ DOMAIN request = Requests
    /\ \A q \in Requests :
          /\ IsRequest(request[q]) /\ request[q].pages \in Nat
          /\ \/ request[q].row = None
             \/ request[q].row \in LogRow /\ request[q].row.at <= now
          /\ request[q].pc = "idle" => request[q].row = None

(* One request at a time, and whatever it logged it has paged.                 *)
OneAtATime ==
    /\ \A p, q \in Requests :
          request[p].pc # "idle" /\ request[q].pc # "idle" => p = q
    /\ \A q \in Requests :
          request[q].row # None =>
             request[q].pages > 0 /\ (last # None => last.at < request[q].row.at)

(* An open request may be rolled back to the newest committed row.             *)
PagesCounted ==
    /\ (\A q \in Requests : request[q].pc = "idle") => CountsPages(last)
    /\ \A q \in Requests : request[q].pc # "idle" =>
          /\ CountsPages(LastRow(q)) /\ Within(last)
          /\ inRow <= Known(last) + lost + request[q].pages

RowsTold ==
    /\ (\A q \in Requests : request[q].pc = "idle") => Tells(last)
    /\ \A q \in Requests : request[q].pc # "idle" => Tells(LastRow(q))

PageInv ==
    /\ PageTypes
    /\ Clean => OneAtATime /\ PagesCounted
    /\ Kept => RowsTold

(* A set of naturals has a least element.                                      *)
LEMMA MinOf ==
    ASSUME NEW S \in SUBSET Nat, S # {}
    PROVE  Min(S) \in S /\ \A y \in S : Min(S) =< y
<1>1. \E x \in S : \A y \in S : x =< y
  <2> DEFINE R == {ss \in Nat \X Nat : ss[1] < ss[2]}
  <2>1. IsWellFoundedOn(R, Nat)
    BY NatLessThanWellFounded DEF OpToRel
  <2> HIDE DEF R
  <2>2. PICK x \in S : \A y \in S : ~ (<<y, x>> \in R)
    BY <2>1, WFMin
  <2>3. \A y \in S : <<y, x>> \in R <=> y < x
    BY DEF R
  <2>4. ASSUME NEW y \in S  PROVE x =< y
    <3>1. x \in Nat /\ y \in Nat
      OBVIOUS
    <3>2. ~(y < x)
      BY <2>2, <2>3
    <3> QED
      BY <3>1, <3>2
  <2> QED
    BY <2>4
<1> QED
  BY <1>1 DEF Min

LEMMA StateKeyType ==
    ASSUME alert \in Configs, NEW r
    PROVE  StateKey(r) \in KeySet
<1>1. SslKey(r) \in KeySet
  <2>1. Bands(r) # {} => Min(Bands(r)) \in Nat
    <3>1. Bands(r) \in SUBSET Nat
      BY ConfigsAssumption DEF Bands
    <3> QED
      BY <3>1, MinOf
  <2>2. /\ Key("ssl", "unknown", 0) \in KeySet /\ Key("ssl", "ok", 0) \in KeySet
        /\ Bands(r) # {} => Key("ssl", "lte", Min(Bands(r))) \in KeySet
    BY <2>1 DEF Key, KeySet
  <2> QED
    BY <2>2, Zenon DEF SslKey
<1>2. CASE alert.trigger = "status_change"
  BY <1>2 DEF StateKey, Key, KeySet
<1>3. CASE alert.trigger = "ssl_cert_expiry"
  BY <1>1, <1>3 DEF StateKey
<1>4. CASE alert.trigger \in {"repeated_failure", "threshold"}
  BY <1>4 DEF StateKey, Key, KeySet
<1> QED
  BY <1>2, <1>3, <1>4, ConfigsAssumption

LEMMA InitPages == Init => PageInv
<1> SUFFICES ASSUME Init PROVE PageInv
  OBVIOUS
<1>1. DOMAIN request = Requests /\ \A q \in Requests : request[q] = Idle
  BY DEF Init
<1>2. Idle.pc = "idle" /\ Idle.row = None /\ Idle.pages = 0 /\ IsRequest(Idle)
  BY DEF Idle, IsRequest
<1>3. PageTypes
  BY <1>1, <1>2 DEF Init, PageTypes
<1>4. OneAtATime /\ PagesCounted /\ RowsTold
  BY <1>1, <1>2 DEF Init, OneAtATime, PagesCounted, RowsTold, CountsPages, Within, Known, Tells
<1> QED
  BY <1>3, <1>4 DEF PageInv

(* A step that leaves the rows and the pages alone.                            *)
LEMMA RowsStay ==
    ASSUME PageInv, now' \in Nat, now' >= now, Clean' => Clean, Kept' => Kept,
           UNCHANGED <<alert, last, told, inRow, lost>>, DOMAIN request' = Requests,
           \A q \in Requests : /\ IsRequest(request'[q])
                               /\ request'[q].pc = request[q].pc
                               /\ request'[q].row = request[q].row
                               /\ request'[q].pages = request[q].pages
    PROVE  PageInv'
<1>1. PageTypes'
  <2>1. last' = None \/ (last' \in LogRow /\ last'.at <= now')
    BY DEF PageInv, PageTypes, LogRow
  <2>2. ASSUME NEW q \in Requests
        PROVE  \/ request'[q].row = None
               \/ request'[q].row \in LogRow /\ request'[q].row.at <= now'
    BY DEF PageInv, PageTypes, LogRow
  <2> QED
    BY <2>1, <2>2 DEF PageInv, PageTypes
<1>2. ASSUME Clean' PROVE OneAtATime'
  BY <1>2 DEF PageInv, OneAtATime
<1>3. /\ \A row : CountsPages(row)' <=> CountsPages(row)
      /\ Known(last)' = Known(last) /\ (Within(last)' <=> Within(last))
      /\ \A row : Tells(row)' <=> Tells(row)
  BY DEF CountsPages, Within, Capped, Known, Tells
<1>4. \A q \in Requests : LastRow(q)' = LastRow(q)
  BY DEF LastRow
<1>5. ASSUME Clean' PROVE PagesCounted'
  <2>1. PagesCounted
    BY <1>5 DEF PageInv
  <2> QED
    BY <1>3, <1>4, <2>1 DEF PagesCounted
<1>6. ASSUME Kept' PROVE RowsTold'
  <2>1. RowsTold
    BY <1>6 DEF PageInv
  <2> QED
    BY <1>3, <1>4, <2>1 DEF RowsTold
<1> QED
  BY <1>1, <1>2, <1>5, <1>6 DEF PageInv

LEMMA QuietKeepsPages ==
    ASSUME PageInv, NEW q \in Requests, NEW t, Quiet(q, t), UNCHANGED <<alert, last>>,
           slips \subseteq slips'
    PROVE  PageInv'
<1>1. request' = [request EXCEPT ![q] = [request[q] EXCEPT !.todo = request[q].todo \ {t}]]
  BY DEF Quiet
<1>2. UNCHANGED <<now, told, inRow, lost>>
  BY DEF Quiet, paging
<1>3. DOMAIN request = Requests /\ \A p \in Requests : IsRequest(request[p])
  BY DEF PageInv, PageTypes
<1>4. \A p \in Requests \ {q} : request'[p] = request[p]
  BY <1>1, <1>3
<1>5. /\ IsRequest(request'[q]) /\ request'[q].pc = request[q].pc
      /\ request'[q].row = request[q].row /\ request'[q].pages = request[q].pages
  BY <1>1, <1>3, StepOfRequest DEF IsRequest
<1>6. now' \in Nat /\ now' >= now
  BY <1>2 DEF PageInv, PageTypes
<1>7. (Clean' => Clean) /\ (Kept' => Kept)
  BY DEF Clean, Kept
<1>8. DOMAIN request' = Requests /\
      \A p \in Requests : /\ IsRequest(request'[p])
                          /\ request'[p].pc = request[p].pc
                          /\ request'[p].row = request[p].row
                          /\ request'[p].pages = request[p].pages
  BY <1>1, <1>3, <1>4, <1>5
<1> QED
  BY <1>2, <1>6, <1>7, <1>8, RowsStay

(* A row logged by a request: the newest.                                      *)
LEMMA LoggedIs ==
    ASSUME PageTypes, NEW q \in Requests, NEW t, NEW key \in KeySet,
           NEW count \in Nat, NEW sent \in Nat, Logged(q, t, key, count, sent)
    PROVE  /\ now' = now + 1 /\ now' \in Nat
           /\ DOMAIN request' = Requests
           /\ \A p \in Requests \ {q} : request'[p] = request[p]
           /\ IsRequest(request'[q]) /\ request'[q].pc = request[q].pc
           /\ request'[q].row = [at |-> now', key |-> key, count |-> count]
           /\ request'[q].pages = request[q].pages + sent
           /\ request'[q].row \in LogRow /\ request'[q].row # None
<1> DEFINE row == [at |-> now + 1, key |-> key, count |-> count]
           pages == request[q].pages + sent
<1>1. request' = [request EXCEPT ![q] =
                    [request[q] EXCEPT !.todo = request[q].todo \ {t},
                                       !.row = row, !.pages = pages]]
  BY DEF Logged
<1>2. now' = now + 1 /\ now' \in Nat
  BY DEF Logged, PageTypes
<1>3. row \in LogRow
  BY <1>2 DEF LogRow
<1>4. row # None
  BY <1>3, NoneAssumption
<1> HIDE DEF row, pages
<1>5. DOMAIN request = Requests /\ \A p \in Requests : IsRequest(request[p])
  BY DEF PageTypes
<1>6. \A p \in Requests \ {q} : request'[p] = request[p]
  BY <1>1, <1>5
<1>7. /\ IsRequest(request'[q]) /\ request'[q].pc = request[q].pc
      /\ request'[q].row = row /\ request'[q].pages = pages
  BY <1>1, <1>5, StepOfRequest DEF IsRequest
<1>8. DOMAIN request' = Requests
  BY <1>1, <1>5
<1> QED
  BY <1>2, <1>3, <1>4, <1>6, <1>7, <1>8 DEF row, pages

LEMMA LogKeepsTypes ==
    ASSUME PageTypes, NEW q \in Requests, request[q].pc # "idle", NEW t,
           NEW key \in KeySet, NEW count \in Nat, NEW sent \in Nat,
           Logged(q, t, key, count, sent),
           inRow' \in Nat, lost' \in Nat, UNCHANGED <<alert, last>>
    PROVE  PageTypes'
<1>1. /\ now' = now + 1 /\ now' \in Nat /\ DOMAIN request' = Requests
      /\ \A p \in Requests \ {q} : request'[p] = request[p]
      /\ IsRequest(request'[q]) /\ request'[q].pc = request[q].pc
      /\ request'[q].row = [at |-> now', key |-> key, count |-> count]
      /\ request'[q].pages = request[q].pages + sent
      /\ request'[q].row \in LogRow
  BY ONLY PageTypes, q \in Requests, key \in KeySet, count \in Nat, sent \in Nat,
          Logged(q, t, key, count, sent), LoggedIs
<1>2. last' = None \/ (last' \in LogRow /\ last'.at <= now')
  BY <1>1 DEF PageTypes, LogRow
<1>3. ASSUME NEW p \in Requests
      PROVE  /\ request'[p].pages \in Nat
             /\ \/ request'[p].row = None
                \/ request'[p].row \in LogRow /\ request'[p].row.at <= now'
             /\ request'[p].pc = "idle" => request'[p].row = None
  <2>1. CASE p = q
    BY <1>1, <2>1 DEF PageTypes
  <2>2. CASE p # q
    BY <1>1, <2>2 DEF PageTypes, LogRow
  <2> QED
    BY <2>1, <2>2
<1> QED
  BY <1>1, <1>2, <1>3 DEF PageTypes

(* What the next page counts as (_should_send_notification, resend_decision).  *)
LEMMA CountFollows ==
    ASSUME alert \in Configs, inRow \in Nat, lost \in Nat, NEW q \in Requests, NEW r,
           LastRow(q) = None \/ LastRow(q) \in LogRow,
           CountsPages(LastRow(q)), ShouldSend(q, r) # None
    PROVE  /\ ShouldSend(q, r) \in Nat
           /\ (IF told = StateKey(r) THEN inRow + 1 ELSE 1)
                 <= ShouldSend(q, r) + 1 + lost
           /\ Capped => ShouldSend(q, r)
                           <= IF alert.resend = Never THEN 0 ELSE alert.max
<1> DEFINE row == LastRow(q)
           count == ShouldSend(q, r)
<1>0. Capped /\ alert.resend # Never => alert.max \in Nat \ {0}
  BY ConfigsAssumption DEF Capped
<1>1. inRow <= Known(row) + lost
  BY DEF CountsPages
<1>2. CASE row = None
  <2>1. count = 0 /\ Known(row) = 0
    BY <1>2 DEF ShouldSend, Known
  <2> QED
    BY <1>0, <1>1, <2>1
<1>3. CASE row # None /\ row.key # StateKey(r)
  <2>1. count = 0 /\ (told = StateKey(r) => Known(row) = 0)
    BY <1>3 DEF ShouldSend, Known
  <2> QED
    BY <1>0, <1>1, <2>1
<1>4. CASE row # None /\ row.key = StateKey(r)
  <2>1. count = ResendDecision(row)
    BY <1>4 DEF ShouldSend
  <2>2. /\ alert.resend # Never /\ count = row.count + 1
        /\ alert.max # Never => ~(row.count + 1 > alert.max)
    BY <2>1 DEF ResendDecision
  <2>3. row.count \in Nat /\ (told = StateKey(r) => Known(row) = row.count + 1)
    BY <1>4 DEF LogRow, Known
  <2>4. Capped => count <= alert.max
    BY <1>0, <2>2, <2>3 DEF Capped
  <2> QED
    BY <1>1, <2>2, <2>3, <2>4
<1> QED
  BY <1>2, <1>3, <1>4

LEMMA LastRowType ==
    ASSUME PageTypes, NEW q \in Requests
    PROVE  /\ LastRow(q) = None \/ LastRow(q) \in LogRow
           /\ LastRow(q) = None \/ LastRow(q).at <= now
           /\ request[q].row = None => LastRow(q) = last
BY DEF PageTypes, LastRow, Newer

(* One page more: what a row that stays knew of still counts.                  *)
LEMMA ToldOnce ==
    ASSUME inRow \in Nat, NEW key, Tell(key), NEW row, NEW extra \in Nat,
           row = None \/ row \in LogRow, inRow <= Known(row) + extra
    PROVE  inRow' \in Nat /\ inRow' <= Known(row)' + extra + 1
<1>1. row # None => row.count \in Nat
  BY DEF LogRow
<1>2. Known(row) \in Nat /\ Known(row)' \in Nat
  BY <1>1 DEF Known
<1>3. told = key => inRow' = inRow + 1 /\ Known(row)' = Known(row)
  BY DEF Tell, Known
<1>4. told # key => inRow' = 1
  BY DEF Tell
<1> QED
  BY <1>2, <1>3, <1>4

LEMMA PageKeeps ==
    ASSUME PageInv, NEW q \in Requests, request[q].pc # "idle", NEW t, NEW r,
           ShouldSend(q, r) # None, Page(q, t, StateKey(r), ShouldSend(q, r)),
           UNCHANGED <<alert, last>>
    PROVE  PageInv'
<1> DEFINE key == StateKey(r)
           count == ShouldSend(q, r)
<1>1. key \in KeySet
  BY StateKeyType DEF PageInv, PageTypes
<1>2. LastRow(q) = None \/ LastRow(q) \in LogRow
  BY LastRowType DEF PageInv
<1>3. count \in Nat
  <2>1. CASE LastRow(q) = None \/ LastRow(q).key # key
    BY <2>1 DEF ShouldSend
  <2>2. CASE LastRow(q) # None /\ LastRow(q).key = key
    <3>1. count = ResendDecision(LastRow(q))
      BY <2>2 DEF ShouldSend
    <3>2. count = LastRow(q).count + 1
      BY <3>1 DEF ResendDecision
    <3> QED
      BY <1>2, <2>2, <3>2 DEF LogRow
  <2> QED
    BY <2>1, <2>2
<1>4. inRow \in Nat /\ lost \in Nat /\ PageTypes
  BY DEF PageInv, PageTypes
<1>5. CASE Quiet(q, t) /\ slips' = slips \cup {"unrouted"}
  BY <1>5, QuietKeepsPages
<1>6. CASE /\ UNCHANGED paging /\ Logged(q, t, key, count, 0)
           /\ slips' = slips \cup {"undelivered"}
  <2>1. inRow' \in Nat /\ lost' \in Nat
    BY <1>4, <1>6 DEF paging
  <2>2. PageTypes'
    BY <1>1, <1>3, <1>4, <1>6, <2>1, LogKeepsTypes
  <2> QED
    BY <1>6, <2>2 DEF PageInv, Clean, Kept
<1>7. CASE Tell(key) /\ Logged(q, t, key, count, 1) /\ UNCHANGED <<lost, slips>>
  <2>1. inRow' \in Nat /\ lost' \in Nat
    BY <1>4, <1>7 DEF Tell
  <2>2. PageTypes'
    BY <1>1, <1>3, <1>4, <1>7, <2>1, LogKeepsTypes
  <2>3. SUFFICES ASSUME Clean, OneAtATime, PagesCounted
                 PROVE  OneAtATime' /\ PagesCounted' /\ RowsTold'
    BY <1>7, <2>2 DEF PageInv, Clean, Kept
  <2>4. /\ DOMAIN request' = Requests /\ now' = now + 1
        /\ \A p \in Requests \ {q} : request'[p] = request[p]
        /\ request'[q].pc = request[q].pc
        /\ request'[q].row = [at |-> now', key |-> key, count |-> count]
        /\ request'[q].pages = request[q].pages + 1
        /\ request'[q].row # None
    BY <1>1, <1>3, <1>4, <1>7, LoggedIs
  <2>5. /\ CountsPages(LastRow(q)) /\ Within(last)
        /\ inRow <= Known(last) + lost + request[q].pages
    BY <2>3 DEF PagesCounted
  <2>6. /\ (IF told = key THEN inRow + 1 ELSE 1) <= count + 1 + lost
        /\ Capped => count <= IF alert.resend = Never THEN 0 ELSE alert.max
    BY <1>2, <1>4, <2>5, CountFollows DEF PageTypes
  <2> HIDE DEF key, count
  <2>7. last' = last /\ (last = None \/ last.at < now')
    BY <1>4, <2>4 DEF PageTypes, LogRow
  <2>8. /\ request'[q].row.at = now' /\ request'[q].row.key = key
        /\ request'[q].row.count = count
    BY <2>4
  <2>9. request[q].pages \in Nat
    BY <1>4 DEF PageTypes
  <2>10. OneAtATime'
    <3>1. \A p \in Requests : request'[p].pc = request[p].pc
      BY <2>4
    <3>2. ASSUME NEW p \in Requests, request'[p].row # None
          PROVE  request'[p].pages > 0 /\ (last # None => last.at < request'[p].row.at)
      <4>1. CASE p = q
        BY <2>4, <2>7, <2>8, <2>9, <4>1
      <4>2. CASE p # q
        BY <2>3, <2>4, <3>2, <4>2 DEF OneAtATime
      <4> QED
        BY <4>1, <4>2
    <3> QED
      BY <2>3, <2>7, <3>1, <3>2 DEF OneAtATime
  <2>11. LastRow(q)' = request'[q].row
    <3>1. CASE last = None
      BY <2>7, <3>1 DEF LastRow, Newer
    <3>2. CASE last # None
      <4>1. last.at \in Nat /\ now' \in Nat /\ ~(last.at >= now')
        BY <2>2, <1>4, <2>7, <3>2 DEF PageTypes, LogRow
      <4> QED
        BY <2>4, <2>7, <2>8, <3>2, <4>1 DEF LastRow, Newer
    <3> QED
      BY <3>1, <3>2
  <2>12. CountsPages(LastRow(q))' /\ Tells(LastRow(q))'
    <3>1. told' = key /\ inRow' = (IF told = key THEN inRow + 1 ELSE 1) /\ lost' = lost
      BY <1>7 DEF Tell
    <3>2. Known(LastRow(q))' = count + 1
      BY <2>4, <2>8, <2>11, <3>1 DEF Known
    <3>3. inRow' <= Known(LastRow(q))' + lost'
      BY <2>6, <3>1, <3>2
    <3>4. Capped' => request'[q].row.count
                       <= IF alert'.resend = Never THEN 0 ELSE alert'.max
      BY <2>6, <2>8 DEF Capped
    <3> QED
      BY <2>4, <2>8, <2>11, <3>1, <3>3, <3>4 DEF CountsPages, Within, Tells
  <2>13. inRow' <= Known(last)' + lost' + request'[q].pages
    <3>1. lost + request[q].pages \in Nat /\ inRow <= Known(last) + (lost + request[q].pages)
      <4>1. Known(last) \in Nat
        BY <1>4 DEF Known, PageTypes, LogRow
      <4> QED
        BY <1>4, <2>5, <2>9, <4>1
    <3>2. inRow' <= Known(last)' + (lost + request[q].pages) + 1
      BY <1>4, <1>7, <2>7, <3>1, ToldOnce DEF PageTypes, Known
    <3>3. Known(last)' \in Nat
      BY <2>2 DEF Known, PageTypes, LogRow
    <3> QED
      BY <1>4, <1>7, <2>4, <2>9, <3>2, <3>3
  <2>14. \A p \in Requests : request'[p].pc # "idle" => p = q
    BY <2>3, <2>4 DEF OneAtATime
  <2>15. Within(last)'
    BY <2>5, <2>7 DEF Within, Capped
  <2> QED
    BY <2>4, <2>10, <2>12, <2>13, <2>14, <2>15 DEF PagesCounted, RowsTold
<1> QED
  BY <1>5, <1>6, <1>7 DEF Page

LEMMA SuppressKeeps ==
    ASSUME PageInv, NEW q \in Requests, request[q].pc # "idle", NEW t,
           Suppress(q, t), UNCHANGED <<alert, last>>
    PROVE  PageInv'
<1>1. slips' = slips \cup {"parent"}
  BY DEF Suppress
<1>2. CASE Quiet(q, t)
  BY <1>1, <1>2, QuietKeepsPages
<1>3. CASE UNCHANGED paging /\ Logged(q, t, ParentDown, 0, 0)
  <2>1. ParentDown \in KeySet
    BY DEF ParentDown, Key, KeySet
  <2>2. PageTypes'
    BY <1>3, <2>1, LogKeepsTypes DEF PageInv, PageTypes, paging
  <2> QED
    BY <1>1, <2>2 DEF PageInv, Clean, Kept
<1> QED
  BY <1>2, <1>3 DEF Suppress

LEMMA EvaluateKeepsPages ==
    ASSUME PageInv, NEW q \in Requests, EvaluateCheckResult(q)
    PROVE  PageInv'
<1>0. PICK t : Evaluates(q, t)
  BY EvaluatesOne
<1> DEFINE r == reading[t]
<1>1. request[q].pc # "idle" /\ UNCHANGED <<alert, last>>
  BY <1>0 DEF Evaluates, switches, tables
<1>2. \/ FireAlert(q, t)
      \/ Quiet(q, t) /\ slips \subseteq slips'
  BY <1>0 DEF Evaluates
<1>3. CASE FireAlert(q, t)
  <2>1. \/ Suppress(q, t)
        \/ Quiet(q, t) /\ slips \subseteq slips'
        \/ ShouldSend(q, r) # None /\ Page(q, t, StateKey(r), ShouldSend(q, r))
    BY <1>3 DEF FireAlert
  <2> HIDE DEF r
  <2> QED
    BY <1>1, <2>1, SuppressKeeps, QuietKeepsPages, PageKeeps
<1> QED
  BY <1>1, <1>2, <1>3, QuietKeepsPages

LEMMA FailKeepsPages ==
    ASSUME PageInv, NEW q \in Requests, EvaluationFails(q)
    PROVE  PageInv'
<1>1. /\ UNCHANGED <<alert, last, now>> /\ slips' = slips \cup {"failed"}
      /\ request[q].pc # "idle"
  BY DEF EvaluationFails, switches, tables
<1>2. DOMAIN request = Requests /\ (\A p \in Requests : IsRequest(request[p])) /\ PageTypes
  BY DEF PageInv, PageTypes
<1>3. /\ DOMAIN request' = Requests
      /\ \A p \in Requests \ {q} : request'[p] = request[p]
      /\ IsRequest(request'[q]) /\ request'[q].pc = request[q].pc
      /\ request'[q].row = request[q].row /\ request'[q].pages = request[q].pages
      /\ UNCHANGED paging \/ ((\E key : Tell(key)) /\ lost' = lost + 1)
  BY <1>2, FailsIs
<1>4. /\ inRow \in Nat /\ lost \in Nat /\ request[q].pages \in Nat
      /\ last = None \/ last \in LogRow
      /\ LastRow(q) = None \/ LastRow(q) \in LogRow
  BY <1>2, LastRowType DEF PageTypes
<1>5. inRow' \in Nat /\ lost' \in Nat
  BY <1>3, <1>4 DEF Tell, paging
<1>6. PageTypes'
  BY <1>1, <1>2, <1>3, <1>5 DEF PageTypes
<1>7. SUFFICES ASSUME Clean' PROVE OneAtATime' /\ PagesCounted'
  BY <1>1, <1>6 DEF PageInv, Kept
<1>8. OneAtATime /\ PagesCounted
  BY <1>1, <1>7 DEF Clean, PageInv
<1>9. /\ \A p \in Requests : /\ request'[p].pc = request[p].pc
                             /\ request'[p].row = request[p].row
                             /\ request'[p].pages = request[p].pages
      /\ LastRow(q)' = LastRow(q)
  BY <1>1, <1>3 DEF LastRow
<1>10. OneAtATime'
  BY <1>1, <1>8, <1>9 DEF OneAtATime
<1>11. /\ CountsPages(LastRow(q)) /\ Within(last)
       /\ inRow <= Known(last) + lost + request[q].pages
  BY <1>1, <1>8 DEF PagesCounted
<1>12. /\ inRow' <= Known(LastRow(q))' + lost'
       /\ inRow' <= Known(last)' + lost' + request[q].pages
  <2>1. CASE UNCHANGED paging
    BY <1>1, <1>9, <1>11, <2>1 DEF paging, CountsPages, Known
  <2>2. CASE (\E key : Tell(key)) /\ lost' = lost + 1
    <3>1. PICK key : Tell(key)
      BY <2>2
    <3>2. /\ Known(last) \in Nat /\ Known(last)' \in Nat
          /\ Known(LastRow(q)) \in Nat /\ Known(LastRow(q))' \in Nat
      BY <1>1, <1>4, <1>9 DEF Known, LogRow
    <3>3. ASSUME NEW row, row = None \/ row \in LogRow, NEW extra \in Nat,
                 inRow <= Known(row) + extra
          PROVE  inRow' <= Known(row)' + extra + 1
      BY <1>4, <3>1, <3>3, ToldOnce
    <3>4. inRow <= Known(LastRow(q)) + lost
      BY <1>11 DEF CountsPages
    <3>5. inRow <= Known(last) + (lost + request[q].pages) /\ lost + request[q].pages \in Nat
      BY <1>4, <1>11, <3>2
    <3> DEFINE Knows(row) == IF row # None /\ row.key = told' THEN row.count + 1 ELSE 0
    <3>6. /\ \A row : Knows(row) = Known(row)'
          /\ Known(LastRow(q))' = Knows(LastRow(q)) /\ Known(last)' = Knows(last)
      BY <1>1, <1>9 DEF Known
    <3> HIDE DEF Knows
    <3>7. inRow' <= Knows(LastRow(q)) + lost + 1
      BY <1>4, <3>3, <3>4, <3>6
    <3>8. inRow' <= Knows(last) + (lost + request[q].pages) + 1
      BY <1>4, <3>3, <3>5, <3>6
    <3> QED
      BY <1>4, <1>5, <2>2, <3>2, <3>6, <3>7, <3>8
  <2> QED
    BY <1>3, <2>1, <2>2
<1>13. CountsPages(LastRow(q))' /\ Within(last)'
  BY <1>1, <1>9, <1>11, <1>12 DEF CountsPages, Within, Capped
<1>14. \A p \in Requests : request'[p].pc # "idle" => p = q
  BY <1>1, <1>8, <1>9 DEF OneAtATime
<1> QED
  BY <1>1, <1>9, <1>10, <1>12, <1>13, <1>14 DEF PagesCounted

LEMMA ReportKeepsPages ==
    ASSUME PageInv, NEW q \in Requests, ProcessReport(q)
    PROVE  PageInv'
<1>1. PICK batch \in SUBSET Runs :
        /\ request' = [request EXCEPT ![q] =
                         [pc |-> "evaluating", fresh |-> batch \ stored,
                          todo |-> batch \ stored, row |-> None,
                          pages |-> 0]]
        /\ slips' = slips \cup Untimely(batch \ stored)
  BY DEF ProcessReport, Inserted
<1>2. /\ request[q].pc = "idle"
      /\ UNCHANGED <<alert, last, now, told, inRow, lost>>
  BY DEF ProcessReport, switches, tables, paging
<1>3. DOMAIN request = Requests /\ PageTypes
  BY DEF PageInv, PageTypes
<1>4. /\ DOMAIN request' = Requests
      /\ \A p \in Requests \ {q} : request'[p] = request[p]
      /\ request'[q].pc = "evaluating" /\ request'[q].row = None
      /\ request'[q].pages = 0 /\ IsRequest(request'[q])
  BY <1>1, <1>3 DEF IsRequest
<1>5. PageTypes'
  BY <1>2, <1>3, <1>4 DEF PageTypes
<1>6. LastRow(q)' = last
  BY <1>2, <1>4 DEF LastRow, Newer
<1>7. ASSUME Clean'
      PROVE  /\ Clean /\ \A p \in Requests : request[p].pc = "idle"
             /\ \A p \in Requests : request'[p].pc # "idle" => p = q
  <2>1. "overlap" \notin Untimely(batch \ stored) /\ Clean
    BY <1>1, <1>7 DEF Clean
  <2>2. \A p \in Requests : request[p].pc = "idle"
    BY <2>1 DEF Untimely
  <2> QED
    BY <1>4, <2>1, <2>2
<1>8. ASSUME Clean' PROVE OneAtATime' /\ PagesCounted'
  <2>1. \A p \in Requests : request'[p].row = None
    BY <1>3, <1>4, <1>7, <1>8 DEF PageTypes
  <2>2. CountsPages(last)
    BY <1>7, <1>8 DEF PageInv, PagesCounted
  <2>3. CountsPages(last)' /\ last' = last
    BY <1>2, <2>2 DEF CountsPages, Within, Capped, Known
  <2>4. CountsPages(LastRow(q))' /\ Within(last)'
    BY <1>6, <2>3 DEF CountsPages, Within, Capped, Known
  <2>5. inRow' <= Known(last)' + lost' + request'[q].pages
    <3>1. Known(last)' \in Nat /\ inRow' \in Nat /\ lost' \in Nat
      BY <1>5 DEF Known, PageTypes, LogRow
    <3> QED
      BY <1>4, <2>3, <3>1 DEF CountsPages
  <2> QED
    BY <1>4, <1>7, <1>8, <2>1, <2>4, <2>5 DEF OneAtATime, PagesCounted
<1>9. ASSUME Kept' PROVE RowsTold'
  <2>1. Clean' /\ Kept
    BY <1>1, <1>9 DEF Kept, Clean
  <2>2. Tells(last)
    BY <1>7, <2>1 DEF PageInv, RowsTold
  <2>3. Tells(LastRow(q))'
    BY <1>2, <1>6, <2>2 DEF Tells
  <2> QED
    BY <1>4, <1>7, <2>1, <2>3 DEF RowsTold
<1> QED
  BY <1>5, <1>8, <1>9 DEF PageInv

LEMMA EndsIdle ==
    ASSUME PageTypes, NEW q \in Requests, request' = [request EXCEPT ![q] = Idle],
           UNCHANGED <<alert, now, inRow>>, lost' \in Nat,
           last' = None \/ (last' \in LogRow /\ last'.at <= now)
    PROVE  /\ PageTypes'
           /\ request'[q].pc = "idle" /\ request'[q].row = None
           /\ \A p \in Requests \ {q} : request'[p] = request[p]
<1>1. Idle.pc = "idle" /\ Idle.row = None /\ Idle.pages = 0 /\ IsRequest(Idle)
  BY DEF Idle, IsRequest
<1>2. /\ DOMAIN request' = Requests /\ request'[q] = Idle
      /\ \A p \in Requests \ {q} : request'[p] = request[p]
  BY DEF PageTypes
<1> QED
  BY <1>1, <1>2 DEF PageTypes

LEMMA CommitKeepsPages ==
    ASSUME PageInv, NEW q \in Requests, Commit(q)
    PROVE  PageInv'
<1>1. /\ request' = [request EXCEPT ![q] = Idle] /\ last' = LastRow(q)
      /\ request[q].pc # "idle"
      /\ UNCHANGED <<alert, now, told, inRow, lost, slips>>
  BY DEF Commit, switches, paging
<1>2. PageTypes /\ lost' \in Nat
  BY <1>1 DEF PageInv, PageTypes
<1>3. /\ PageTypes'
      /\ request'[q].pc = "idle" /\ request'[q].row = None
      /\ \A p \in Requests \ {q} : request'[p] = request[p]
  BY <1>1, <1>2, EndsIdle, LastRowType
<1>4. ASSUME Clean' PROVE OneAtATime' /\ PagesCounted'
  <2>1. OneAtATime /\ CountsPages(LastRow(q))
    BY <1>1, <1>4 DEF Clean, PageInv, PagesCounted
  <2>2. \A p \in Requests : request'[p].pc = "idle"
    BY <1>1, <1>3, <2>1 DEF OneAtATime
  <2>3. \A p \in Requests : request'[p].row = None
    BY <1>3, <2>2 DEF PageTypes
  <2>4. CountsPages(last)'
    BY <1>1, <2>1 DEF CountsPages, Within, Capped, Known
  <2> QED
    BY <2>2, <2>3, <2>4 DEF OneAtATime, PagesCounted
<1>5. ASSUME Kept' PROVE RowsTold'
  <2>1. OneAtATime /\ RowsTold
    BY <1>1, <1>5 DEF Clean, Kept, PageInv
  <2>2. Tells(LastRow(q))
    BY <1>1, <2>1 DEF RowsTold
  <2>3. Tells(last)'
    BY <1>1, <2>2 DEF Tells
  <2>4. \A p \in Requests : request'[p].pc = "idle"
    BY <1>1, <1>3, <2>1 DEF OneAtATime
  <2> QED
    BY <2>3, <2>4 DEF RowsTold
<1> QED
  BY <1>3, <1>4, <1>5 DEF PageInv

LEMMA AbortKeepsPages ==
    ASSUME PageInv, NEW q \in Requests, Abort(q)
    PROVE  PageInv'
<1>1. /\ request' = [request EXCEPT ![q] = Idle] /\ request[q].pc # "idle"
      /\ lost' = lost + request[q].pages
      /\ slips' = IF request[q].pages > 0 THEN slips \cup {"rolled_back"} ELSE slips
      /\ UNCHANGED <<alert, now, last, told, inRow>>
  BY DEF Abort, switches, tables
<1>2. PageTypes /\ lost \in Nat /\ request[q].pages \in Nat /\ lost' \in Nat
  BY <1>1 DEF PageInv, PageTypes
<1>3. /\ PageTypes'
      /\ request'[q].pc = "idle" /\ request'[q].row = None
      /\ \A p \in Requests \ {q} : request'[p] = request[p]
  BY <1>1, <1>2, EndsIdle DEF PageTypes
<1>4. ASSUME Clean' PROVE OneAtATime' /\ PagesCounted'
  <2>1. OneAtATime /\ PagesCounted
    BY <1>1, <1>4 DEF Clean, PageInv
  <2>2. Within(last) /\ inRow <= Known(last) + lost + request[q].pages
    BY <1>1, <2>1 DEF PagesCounted
  <2>3. \A p \in Requests : request'[p].pc = "idle"
    BY <1>1, <1>3, <2>1 DEF OneAtATime
  <2>4. \A p \in Requests : request'[p].row = None
    BY <1>3, <2>3 DEF PageTypes
  <2>5. Known(last) \in Nat /\ Known(last)' = Known(last)
    BY <1>1, <1>2 DEF Known, PageTypes, LogRow
  <2>6. inRow' <= Known(last)' + lost'
    BY <1>1, <1>2, <2>2, <2>5
  <2>7. Within(last)'
    BY <1>1, <2>2 DEF Within, Capped
  <2>8. CountsPages(last)'
    BY <2>6, <2>7 DEF CountsPages
  <2> QED
    BY <2>3, <2>4, <2>8 DEF OneAtATime, PagesCounted
<1>5. ASSUME Kept' PROVE RowsTold'
  <2>1. ~(request[q].pages > 0) /\ Kept
    BY <1>1, <1>5 DEF Kept, Clean
  <2>2. OneAtATime /\ Tells(LastRow(q))
    BY <1>1, <2>1 DEF Kept, PageInv, RowsTold
  <2>3. LastRow(q) = last
    BY <1>2, <2>1, <2>2, LastRowType DEF OneAtATime
  <2>4. \A p \in Requests : request'[p].pc = "idle"
    BY <1>1, <1>3, <2>2 DEF OneAtATime
  <2>5. Tells(last)'
    BY <1>1, <2>2, <2>3 DEF Tells
  <2> QED
    BY <2>4, <2>5 DEF RowsTold
<1> QED
  BY <1>3, <1>4, <1>5 DEF PageInv

LEMMA PagesNext == PageInv /\ [Next]_vars => PageInv'
<1> SUFFICES ASSUME PageInv, [Next]_vars PROVE PageInv'
  OBVIOUS
<1>1. CASE RunCheck \/ Edit \/ ParentTurns \/ Tick \/ UNCHANGED vars
  <2>1. UNCHANGED <<alert, last, told, inRow, lost, request, slips>>
    BY <1>1 DEF RunCheck, Edit, ParentTurns, Tick, vars, switches, tables, paging
  <2>2. now' = now \/ now' = now + 1
    BY <1>1 DEF RunCheck, Edit, ParentTurns, Tick, vars
  <2>3. now' \in Nat /\ now' >= now
    BY <2>2 DEF PageInv, PageTypes
  <2>4. DOMAIN request' = Requests /\ \A q \in Requests : IsRequest(request'[q])
    BY <2>1 DEF PageInv, PageTypes
  <2>5. (Clean' => Clean) /\ (Kept' => Kept)
    BY <2>1 DEF Clean, Kept
  <2> QED
    BY <2>1, <2>3, <2>4, <2>5, RowsStay
<1>2. ASSUME NEW q \in Requests, ProcessReport(q) PROVE PageInv'
  BY <1>2, ReportKeepsPages
<1>3. ASSUME NEW q \in Requests, EvaluateCheckResult(q) PROVE PageInv'
  BY <1>3, EvaluateKeepsPages
<1>4. ASSUME NEW q \in Requests, Commit(q) PROVE PageInv'
  BY <1>4, CommitKeepsPages
<1>5. ASSUME NEW q \in Requests, Abort(q) PROVE PageInv'
  BY <1>5, AbortKeepsPages
<1>6. ASSUME NEW q \in Requests, EvaluationFails(q) PROVE PageInv'
  BY <1>6, FailKeepsPages
<1> QED
  BY <1>1, <1>2, <1>3, <1>4, <1>5, <1>6 DEF Next

LEMMA CountCaps == PageInv => PagesCapped
<1> SUFFICES ASSUME PageInv, Clean, Capped
             PROVE  inRow <= 1 + (IF alert.resend = Never THEN 0 ELSE alert.max) + lost
  BY DEF PagesCapped, Clean, Capped
<1> DEFINE cap == IF alert.resend = Never THEN 0 ELSE alert.max
<1>1. cap \in Nat /\ inRow \in Nat /\ lost \in Nat
  BY ConfigsAssumption DEF Capped, PageInv, PageTypes
<1>2. ASSUME NEW row, row = None \/ row \in LogRow, CountsPages(row)
      PROVE  inRow <= 1 + cap + lost
  <2>1. Known(row) = 0 \/ (row # None /\ Known(row) = row.count + 1)
    BY DEF Known
  <2>2. row # None => row.count \in Nat /\ row.count <= cap
    BY <1>2 DEF CountsPages, Within, LogRow
  <2>3. inRow <= Known(row) + lost
    BY <1>2 DEF CountsPages
  <2> HIDE DEF cap
  <2> QED
    BY <1>1, <2>1, <2>2, <2>3
<1>3. CASE \A q \in Requests : request[q].pc = "idle"
  BY <1>2, <1>3 DEF PageInv, PagesCounted, PageTypes
<1>4. CASE \E q \in Requests : request[q].pc # "idle"
  <2>1. PICK q \in Requests : request[q].pc # "idle"
    BY <1>4
  <2>2. CountsPages(LastRow(q)) /\ (LastRow(q) = None \/ LastRow(q) \in LogRow)
    BY <2>1, LastRowType DEF PageInv, PagesCounted
  <2> QED
    BY <1>2, <2>2
<1> QED
  BY <1>3, <1>4

(* "max_resends caps the resends" (resend_decision), for every alert: as long  *)
(* as requests do not overlap, no page is lost and no parent speaks, in one    *)
(* state the operator is paged once and then at most max_resends times more,   *)
(* or never more without an interval, however late and in whatever bursts      *)
(* results come and in whatever order a burst is judged; a page whose row is   *)
(* rolled back, with its savepoint or its transaction, costs one more at most. *)
THEOREM PagesStayCapped == Spec => []PagesCapped
<1> QED
  BY InitPages, PagesNext, CountCaps, PTL DEF Spec

-----------------------------------------------------------------------------
(* What the operator was told last, while reports come one at a time and each  *)
(* brings one result, newer than the ones before.                              *)

(* What the request has judged, with all that was before it.                   *)
Judged(q) == (stored \cup request[q].fresh) \ request[q].todo

Orderly == slips = {}

TellTypes ==
    /\ stored \subseteq Runs
    /\ \A q \in Requests : /\ request[q].fresh \subseteq Runs
                           /\ request[q].todo \subseteq request[q].fresh
    /\ told = None \/ \E r \in Reported : told = StateKey(r)

(* A report brings one result, newer than what was judged.                     *)
InOrder ==
    \A q \in Requests : request[q].pc # "idle" =>
        /\ \A t, u \in request[q].fresh : t = u
        /\ \A t \in request[q].todo : \A u \in Judged(q) : u < t

(* BandIsTold of a set of results that were judged.                            *)
BandTold(seen) ==
    seen # {} /\ reading[Max(seen)].days # NoCert
    => \/ told = SslKey(reading[Max(seen)])
       \/ told = None /\ SslKey(reading[Max(seen)]).state = "ok"

ForBands == alert.trigger = "ssl_cert_expiry" /\ alert.recovery

BandsTold ==
    /\ (\A q \in Requests : request[q].pc = "idle") => BandTold(stored)
    /\ \A q \in Requests : request[q].pc # "idle" =>
          BandTold(Judged(q)) /\ (request[q].pages = 0 => BandTold(stored))

(* DownIsTold of a set of results that were judged.                            *)
DownTold(seen) ==
    IF seen = {} THEN told = None
    ELSE /\ /\ Cardinality(Recent(seen, alert.consecutive)) = alert.consecutive
            /\ \A t \in Recent(seen, alert.consecutive) : ~reading[t].ok
            => told = Key("status", "down", 0)
         /\ reading[Max(seen)].ok => told # Key("status", "down", 0)

ForOutages ==
    alert.trigger = "status_change" /\ alert.recovery /\ "error" \in alert.on

OutagesTold ==
    /\ (\A q \in Requests : request[q].pc = "idle") => DownTold(stored)
    /\ \A q \in Requests : request[q].pc # "idle" =>
          DownTold(Judged(q)) /\ (request[q].pages = 0 => DownTold(stored))

TellInv ==
    /\ OnceInv /\ PageInv /\ TellTypes
    /\ Orderly => InOrder
    /\ Orderly /\ ForBands => BandsTold
    /\ Orderly /\ ForOutages => OutagesTold

(* A set of results has a newest one.                                          *)
LEMMA MaxOf ==
    ASSUME NEW n \in Nat, NEW S \in SUBSET (1..n), S # {}
    PROVE  Max(S) \in S /\ \A y \in S : Max(S) >= y
<1> DEFINE T == {n - x : x \in S}
<1>0. \A x \in S : x \in Nat /\ x =< n
  OBVIOUS
<1>1. T \in SUBSET Nat /\ T # {}
  <2>1. ASSUME NEW k \in T  PROVE k \in Nat
    <3>1. PICK x \in S : k = n - x
      OBVIOUS
    <3> QED
      BY <1>0, <3>1
  <2> QED
    BY <2>1
<1>2. PICK m \in T : \A k \in T : m =< k
  <2> HIDE DEF T
  <2> QED  BY <1>1, MinOf
<1>3. PICK x \in S : m = n - x
  BY <1>2
<1>4. \A y \in S : n - x =< n - y
  BY <1>2, <1>3
<1>5. \A y \in S : x >= y
  BY <1>0, <1>4
<1> QED
  BY <1>5 DEF Max

LEMMA MaxIs ==
    ASSUME NEW n \in Nat, NEW S \in SUBSET (1..n), NEW t \in S,
           \A u \in S : u =< t
    PROVE  Max(S) = t
<1>1. Max(S) \in S /\ Max(S) >= t
  BY MaxOf
<1>2. \A u \in S : u \in Nat /\ u =< t
  OBVIOUS
<1> DEFINE m == Max(S)
<1> HIDE DEF m
<1>3. m \in Nat /\ t \in Nat /\ m =< t /\ m >= t
  BY <1>1, <1>2 DEF m
<1>4. m = t
  BY <1>3
<1> QED
  BY <1>4 DEF m

LEMMA NewestIsRecent ==
    ASSUME NEW n \in Nat, NEW S \in SUBSET (1..n), NEW t \in S,
           \A u \in S : u =< t, NEW c \in Nat \ {0}
    PROVE  t \in Recent(S, c)
<1>0. t \in Nat /\ \A u \in S : u \in Nat
  OBVIOUS
<1>1. {u \in S : u > t} = {}
  <2>1. ASSUME NEW u \in S  PROVE ~(u > t)
    BY <1>0
  <2> QED
    BY <2>1
<1>2. Cardinality({}) = 0
  BY FS_EmptySet
<1> QED
  BY <1>1, <1>2 DEF Recent

(* The result before the newest one is what a recovery is judged by.           *)
LEMMA BeforeNewest ==
    ASSUME NEW n \in Nat, NEW S \in SUBSET (1..n), S # {}, NEW t \in 1..n,
           \A u \in S : u < t
    PROVE  /\ Cardinality(S \cup {t}) >= 2
           /\ Min(Recent(S \cup {t}, 2)) = Max(S)
<1> DEFINE all == S \cup {t}
           m == Max(S)
           after(x) == {u \in all : u > x}
<1>1. m \in S /\ \A y \in S : m >= y
  BY MaxOf
<1> HIDE DEF m
<1>0. \A u \in all : u \in Nat
  OBVIOUS
<1>2. m \in 1..n /\ m < t /\ m \in Nat /\ t \in Nat
  BY <1>1
<1>3. IsFiniteSet(all)
  <2>1. IsFiniteSet(1..n) /\ all \subseteq 1..n
    BY FS_Interval
  <2> HIDE DEF all
  <2> QED  BY <2>1, FS_Subset
<1>4. IsFiniteSet({m, t}) /\ Cardinality({m, t}) = 2
  <2>1. IsFiniteSet({m}) /\ Cardinality({m}) = 1
    BY FS_Singleton
  <2>2. t \notin {m} /\ {m} \cup {t} = {m, t}
    BY <1>2
  <2>3. IsFiniteSet({m} \cup {t}) /\ Cardinality({m} \cup {t}) = Cardinality({m}) + 1
    BY <2>1, <2>2, FS_AddElement
  <2> QED
    BY <2>1, <2>2, <2>3
<1>5. ASSUME NEW T, T \subseteq all, {m, t} \subseteq T
      PROVE  Cardinality(T) >= 2 /\ Cardinality(T) \in Nat
  <2> HIDE DEF all
  <2>1. IsFiniteSet(T)
    BY <1>3, <1>5, FS_Subset
  <2>2. Cardinality({m, t}) <= Cardinality(T) /\ Cardinality(T) \in Nat
    BY <1>5, <2>1, FS_Subset, FS_CardinalityType
  <2> QED
    BY <1>4, <2>2
<1>6. Cardinality(all) >= 2
  BY <1>1, <1>5
<1>7. t \in Recent(all, 2)
  <2>1. after(t) = {}
    <3>1. ASSUME NEW u \in all  PROVE ~(u > t)
      BY <1>0, <1>2
    <3> QED
      BY <3>1
  <2>2. Cardinality(after(t)) < 2
    BY <2>1, FS_EmptySet
  <2> QED
    BY <2>2 DEF Recent
<1>8. m \in Recent(all, 2)
  <2>1. after(m) = {t}
    <3>1. \A u \in S : ~(u > m)
      BY <1>0, <1>1, <1>2
    <3> QED
      BY <1>2, <3>1
  <2>2. Cardinality(after(m)) = 1
    BY <2>1, FS_Singleton
  <2>3. Cardinality(after(m)) < 2
    <3> HIDE DEF after
    <3> QED  BY <2>2
  <2> QED
    BY <1>1, <2>3 DEF Recent
<1>9. ASSUME NEW x \in all, x < m  PROVE x \notin Recent(all, 2)
  <2>1. {m, t} \subseteq after(x) /\ after(x) \subseteq all
    BY <1>1, <1>2, <1>9
  <2>2. Cardinality(after(x)) >= 2 /\ Cardinality(after(x)) \in Nat
    <3> HIDE DEF after, all
    <3> QED  BY <1>5, <2>1
  <2>3. ~(Cardinality(after(x)) < 2)
    <3> HIDE DEF after
    <3> QED  BY <2>2
  <2> QED
    BY <2>3 DEF Recent
<1>10. Recent(all, 2) \subseteq all /\ all \subseteq Nat
  BY DEF Recent
<1>11. ASSUME NEW y \in Recent(all, 2)  PROVE m =< y
  <2>1. y \in all /\ y \in Nat
    BY <1>10
  <2>2. ~(y < m)
    BY <1>9, <2>1
  <2> QED
    BY <1>2, <2>1, <2>2
<1>12. Min(Recent(all, 2)) = m
  <2> DEFINE R == Recent(all, 2)
  <2>1. R \in SUBSET Nat /\ m \in R /\ \A y \in R : m =< y
    BY <1>8, <1>10, <1>11
  <2> HIDE DEF R
  <2>2. Min(R) \in R /\ Min(R) =< m
    BY <2>1, MinOf
  <2>3. m =< Min(R) /\ Min(R) \in Nat /\ m \in Nat
    BY <2>1, <2>2
  <2>4. Min(R) = m
    BY <2>2, <2>3
  <2> QED
    BY <2>4 DEF R
<1> QED
  BY <1>6, <1>12 DEF m

LEMMA RunsAre ==
    ASSUME OnceInv
    PROVE  Runs = 1..Len(reading) /\ Len(reading) \in Nat /\ Runs \subseteq 1..MaxRuns
BY BoundsAssumption DEF OnceInv, OnceTypes, Runs

LEMMA JudgedRuns ==
    ASSUME TellTypes, NEW q \in Requests
    PROVE  Judged(q) \subseteq Runs
BY DEF TellTypes, Judged

LEMMA InitTell == Init => TellInv
<1> SUFFICES ASSUME Init PROVE TellInv
  OBVIOUS
<1>1. \A q \in Requests : request[q] = Idle
  BY DEF Init
<1>2. /\ Idle.pc = "idle" /\ Idle.fresh = {} /\ Idle.todo = {}
  BY DEF Idle
<1>3. stored = {} /\ told = None
  BY DEF Init
<1>4. TellTypes
  BY <1>1, <1>2, <1>3 DEF TellTypes
<1>5. InOrder /\ BandsTold /\ OutagesTold
  BY <1>1, <1>2, <1>3 DEF InOrder, BandsTold, BandTold, OutagesTold, DownTold
<1> QED
  BY <1>4, <1>5, InitOnce, InitPages DEF TellInv

(* What was told of results does not change while they and it stay.            *)
LEMMA ToldStays ==
    ASSUME OnceInv, NEW S \in SUBSET Runs, UNCHANGED <<alert, told>>,
           \A t \in Runs : reading'[t] = reading[t]
    PROVE  /\ BandTold(S) => BandTold(S)'
           /\ DownTold(S) => DownTold(S)'
<1>1. Len(reading) \in Nat /\ S \in SUBSET (1..Len(reading))
  BY RunsAre
<1>2. S # {} => Max(S) \in S /\ reading'[Max(S)] = reading[Max(S)]
  BY <1>1, MaxOf
<1>3. \A r : SslKey(r)' = SslKey(r)
  BY DEF SslKey, Bands, Key
<1>4. Recent(S, alert.consecutive) \subseteq S
  BY DEF Recent
<1>5. BandTold(S) => BandTold(S)'
  BY <1>2 DEF BandTold, SslKey, Bands
<1>6. \A t \in Recent(S, alert.consecutive) : reading'[t] = reading[t]
  BY <1>4
<1>7. DownTold(S) => DownTold(S)'
  BY <1>2, <1>6 DEF DownTold, Recent
<1> QED
  BY <1>5, <1>7

LEMMA WorldKeepsTell ==
    ASSUME TellInv, OnceInv', PageInv', RunCheck \/ Edit \/ ParentTurns \/ Tick \/ UNCHANGED vars
    PROVE  TellInv'
<1>1. UNCHANGED <<alert, stored, request, told, slips>>
  BY DEF RunCheck, Edit, ParentTurns, Tick, vars, switches, tables, paging
<1>2. Runs \subseteq Runs' /\ \A t \in Runs : reading'[t] = reading[t]
  <2>1. CASE RunCheck
    <3>1. PICK r : reading' = Append(reading, r)
      BY <2>1 DEF RunCheck
    <3>2. reading \in Seq(Reported)
      BY DEF TellInv, OnceInv, OnceTypes
    <3> QED
      BY <3>1, <3>2 DEF Runs
  <2>2. CASE reading' = reading
    BY <2>2 DEF Runs
  <2> QED
    BY <2>1, <2>2 DEF Edit, ParentTurns, Tick, vars
<1>3. TellTypes'
  <2>1. \A r : StateKey(r)' = StateKey(r)
    BY <1>1 DEF StateKey, SslKey, Bands, Key
  <2> QED
    BY <1>1, <1>2, <2>1 DEF TellInv, TellTypes
<1>4. \A q \in Requests : Judged(q)' = Judged(q) /\ Judged(q) \subseteq Runs
  BY <1>1, JudgedRuns DEF TellInv, Judged
<1>5. Orderly' => InOrder'
  BY <1>1, <1>4 DEF TellInv, Orderly, InOrder
<1>6. stored \subseteq Runs
  BY DEF TellInv, TellTypes
<1>7. /\ BandTold(stored) => BandTold(stored)'
      /\ DownTold(stored) => DownTold(stored)'
  BY <1>1, <1>2, <1>6, ToldStays DEF TellInv
<1>8. ASSUME NEW q \in Requests
      PROVE  /\ BandTold(Judged(q)) => BandTold(Judged(q))'
             /\ DownTold(Judged(q)) => DownTold(Judged(q))'
  BY <1>1, <1>2, <1>4, ToldStays DEF TellInv
<1>9. Orderly' /\ ForBands' => BandsTold'
  BY <1>1, <1>7, <1>8 DEF TellInv, Orderly, ForBands, BandsTold
<1>10. Orderly' /\ ForOutages' => OutagesTold'
  BY <1>1, <1>7, <1>8 DEF TellInv, Orderly, ForOutages, OutagesTold
<1> QED
  BY <1>3, <1>5, <1>9, <1>10 DEF TellInv

LEMMA ReportKeepsTell ==
    ASSUME TellInv, OnceInv', PageInv', NEW q \in Requests, ProcessReport(q)
    PROVE  TellInv'
<1>1. PICK batch \in SUBSET Runs :
        /\ request' = [request EXCEPT ![q] =
                         [pc |-> "evaluating", fresh |-> batch \ stored,
                          todo |-> batch \ stored, row |-> None,
                          pages |-> 0]]
        /\ slips' = slips \cup Untimely(batch \ stored)
  BY DEF ProcessReport, Inserted
<1>2. UNCHANGED <<alert, reading, stored, told>>
  BY DEF ProcessReport, switches, tables, paging
<1>3. /\ request'[q].fresh = batch \ stored /\ request'[q].todo = batch \ stored
      /\ request'[q].pc = "evaluating"
      /\ \A p \in Requests \ {q} : request'[p] = request[p]
  BY <1>1 DEF TellInv, OnceInv, OnceTypes
<1>4. stored \subseteq Runs /\ Runs' = Runs
  BY <1>2 DEF TellInv, TellTypes, Runs
<1>5. TellTypes'
  <2>1. \A r : StateKey(r)' = StateKey(r)
    BY <1>2 DEF StateKey, SslKey, Bands, Key
  <2>2. \A p \in Requests : /\ request'[p].fresh \subseteq Runs
                            /\ request'[p].todo \subseteq request'[p].fresh
    BY <1>3 DEF TellInv, TellTypes
  <2> QED
    BY <1>2, <1>4, <2>1, <2>2 DEF TellInv, TellTypes
<1>6. ASSUME Orderly'
      PROVE  /\ Orderly
             /\ \A p \in Requests : request[p].pc = "idle"
             /\ \A t \in batch \ stored, u \in stored : u < t
             /\ \A t, u \in batch \ stored : t = u
  <2>1. Orderly
    BY <1>1, <1>6 DEF Orderly
  <2>2. /\ "overlap" \notin Untimely(batch \ stored)
        /\ "late" \notin Untimely(batch \ stored)
        /\ "burst" \notin Untimely(batch \ stored)
    BY <1>1, <1>6 DEF Orderly
  <2>3. \A p \in Requests : request[p].pc = "idle"
    BY <2>2 DEF Untimely
  <2>4. ASSUME NEW t \in batch \ stored, NEW u \in stored  PROVE u < t
    <3>1. ~(u > t)
      BY <2>2 DEF Untimely
    <3>2. t \in Nat /\ u \in Nat /\ t # u
      BY <1>4, RunsAre DEF TellInv
    <3> QED
      BY <3>1, <3>2
  <2>5. \A t, u \in batch \ stored : t = u
    <3> DEFINE F == batch \ stored
    <3>1. ~(Cardinality(F) > 1)
      BY <2>2 DEF Untimely
    <3>2. IsFiniteSet(F)
      <4>1. IsFiniteSet(1..MaxRuns) /\ F \subseteq 1..MaxRuns
        BY RunsAre, FS_Interval, BoundsAssumption DEF TellInv
      <4> HIDE DEF F
      <4> QED  BY <4>1, FS_Subset
    <3> HIDE DEF F
    <3>3. ASSUME NEW t \in F, NEW u \in F, t # u  PROVE FALSE
      <4>1. IsFiniteSet({t}) /\ Cardinality({t}) = 1
        BY FS_Singleton
      <4>2. IsFiniteSet({t} \cup {u}) /\ Cardinality({t} \cup {u}) = Cardinality({t}) + 1
        BY <3>3, <4>1, FS_AddElement
      <4>3. {t} \cup {u} \subseteq F
        OBVIOUS
      <4>4. Cardinality({t} \cup {u}) <= Cardinality(F) /\ Cardinality(F) \in Nat
        BY <3>2, <4>3, FS_Subset, FS_CardinalityType
      <4> QED
        BY <3>1, <4>1, <4>2, <4>4
    <3> QED
      BY <3>3 DEF F
  <2> QED
    BY <2>1, <2>3, <2>4, <2>5
<1>7. Judged(q)' = stored
  BY <1>2, <1>3 DEF Judged
<1>8. ASSUME Orderly' PROVE \A p \in Requests : request'[p].pc # "idle" => p = q
  BY <1>3, <1>6, <1>8
<1>9. Orderly' => InOrder'
  BY <1>3, <1>6, <1>7, <1>8 DEF InOrder
<1>10. /\ BandTold(stored) => BandTold(stored)'
       /\ DownTold(stored) => DownTold(stored)'
  BY <1>2, <1>4, ToldStays DEF TellInv
<1>11. /\ BandTold(Judged(q))' <=> BandTold(stored)'
       /\ DownTold(Judged(q))' <=> DownTold(stored)'
  BY <1>2, <1>7 DEF BandTold, DownTold
<1>12. ASSUME Orderly', ForBands' PROVE BandsTold'
  <2>1. BandTold(stored)
    BY <1>2, <1>6, <1>12 DEF TellInv, ForBands, BandsTold
  <2> QED
    BY <1>3, <1>8, <1>10, <1>11, <1>12, <2>1 DEF BandsTold
<1>13. ASSUME Orderly', ForOutages' PROVE OutagesTold'
  <2>1. DownTold(stored)
    BY <1>2, <1>6, <1>13 DEF TellInv, ForOutages, OutagesTold
  <2> QED
    BY <1>3, <1>8, <1>10, <1>11, <1>13, <2>1 DEF OutagesTold
<1> QED
  BY <1>5, <1>9, <1>12, <1>13 DEF TellInv

(* What an evaluation does to the request.                                     *)
LEMMA EvaluateMoves ==
    ASSUME PageInv, NEW q \in Requests, NEW t, Evaluates(q, t)
    PROVE  /\ \A p \in Requests \ {q} : request'[p] = request[p]
           /\ request'[q].todo = request[q].todo \ {t}
           /\ request'[q].fresh = request[q].fresh
           /\ request'[q].pc = request[q].pc
           /\ request'[q].pages = 0 => request[q].pages = 0 /\ told' = told
           /\ told' = told \/ told' = StateKey(reading[t])
<1> DEFINE r == reading[t]
           rest == request[q].todo \ {t}
<1>0. DOMAIN request = Requests /\ \A p \in Requests : IsRequest(request[p])
  BY DEF PageInv, PageTypes
<1>1. ASSUME Quiet(q, t)
      PROVE  /\ \A p \in Requests \ {q} : request'[p] = request[p]
             /\ request'[q].todo = rest /\ request'[q].fresh = request[q].fresh
             /\ request'[q].pc = request[q].pc
             /\ request'[q].pages = request[q].pages /\ told' = told
  <2>1. request' = [request EXCEPT ![q] = [request[q] EXCEPT !.todo = rest]]
    BY <1>1 DEF Quiet
  <2>2. told' = told
    BY <1>1 DEF Quiet, paging
  <2> HIDE DEF rest
  <2> QED
    BY <1>0, <2>1, <2>2, StepOfRequest
<1>2. ASSUME NEW key, NEW count, NEW sent, Logged(q, t, key, count, sent)
      PROVE  /\ \A p \in Requests \ {q} : request'[p] = request[p]
             /\ request'[q].todo = rest /\ request'[q].fresh = request[q].fresh
             /\ request'[q].pc = request[q].pc
             /\ request'[q].pages = request[q].pages + sent
  <2> DEFINE row == [at |-> now + 1, key |-> key, count |-> count]
             pages == request[q].pages + sent
  <2>1. request' = [request EXCEPT ![q] =
                      [request[q] EXCEPT !.todo = rest, !.row = row, !.pages = pages]]
    BY <1>2 DEF Logged
  <2> HIDE DEF rest, row, pages
  <2>2. /\ \A p \in Requests \ {q} : request'[p] = request[p]
        /\ request'[q].todo = rest /\ request'[q].fresh = request[q].fresh
        /\ request'[q].pc = request[q].pc /\ request'[q].pages = pages
    BY <1>0, <2>1, StepOfRequest DEF IsRequest
  <2> QED
    BY <2>2 DEF pages
<1>3. \/ Quiet(q, t)
      \/ \E key, count : Logged(q, t, key, count, 0) /\ UNCHANGED paging
      \/ \E count : Logged(q, t, StateKey(r), count, 1) /\ told' = StateKey(r)
  <2>1. FireAlert(q, t) \/ Quiet(q, t)
    BY DEF Evaluates
  <2> HIDE DEF r
  <2>2. CASE FireAlert(q, t)
    BY <2>2 DEF FireAlert, Suppress, Page, Tell, r
  <2> QED
    BY <2>1, <2>2
<1> HIDE DEF r, rest
<1>4. CASE Quiet(q, t)
  BY <1>1, <1>4 DEF rest
<1>p. request[q].pages \in Nat
  BY DEF PageInv, PageTypes
<1>5. CASE \E key, count : Logged(q, t, key, count, 0) /\ UNCHANGED paging
  BY <1>2, <1>5, <1>p DEF rest, paging
<1>6. CASE \E count : Logged(q, t, StateKey(r), count, 1) /\ told' = StateKey(r)
  BY <1>2, <1>6, <1>p DEF rest, r
<1> QED
  BY <1>3, <1>4, <1>5, <1>6

(* An alert that fires with nothing in between leaves the operator told of the *)
(* state of the result; one that does not fire leaves what was told.           *)
LEMMA FiredIsTold ==
    ASSUME PageInv, NEW q \in Requests, NEW t, Evaluates(q, t), Orderly'
    PROVE  /\ slips' = slips
           /\ \/ ~ShouldFire(q, reading[t]) /\ told' = told
              \/ /\ ShouldFire(q, reading[t])
                 /\ told' = StateKey(reading[t])
<1> DEFINE r == reading[t]
<1>0. request[q].pc # "idle"
  BY DEF Evaluates
<1>1. \/ ShouldFire(q, r) /\ FireAlert(q, t)
      \/ /\ ~(watching /\ ShouldFire(q, r)) /\ Quiet(q, t)
         /\ slips' = IF watching THEN slips ELSE slips \cup {"off"}
  BY DEF Evaluates
<1> HIDE DEF r
<1>2. CASE ShouldFire(q, r) /\ FireAlert(q, t)
  <2>1. ~Suppress(q, t)
    BY DEF Suppress, Orderly
  <2>2. CASE ShouldSend(q, r) = None /\ Quiet(q, t)
             /\ slips' = IF snoozed THEN slips \cup {"snoozed"} ELSE slips
    <3>1. ~snoozed /\ slips' = slips
      BY <2>2 DEF Orderly
    <3>2. LastRow(q) # None /\ LastRow(q).key = StateKey(r)
      BY <2>2, <3>1, NoneAssumption DEF ShouldSend
    <3>3. Kept
      BY <3>1 DEF Clean, Kept, Orderly
    <3>4. told = LastRow(q).key
      BY <1>0, <3>2, <3>3 DEF PageInv, RowsTold, Tells
    <3>5. told' = told
      BY <2>2 DEF Quiet, paging
    <3> QED
      BY <1>2, <3>1, <3>2, <3>4, <3>5 DEF r
  <2>3. CASE Page(q, t, StateKey(r), ShouldSend(q, r))
    <3>1. told' = StateKey(r) /\ slips' = slips
      BY <2>3 DEF Page, Tell, Orderly
    <3> QED
      BY <1>2, <3>1 DEF r
  <2> QED
    BY <1>2, <2>1, <2>2, <2>3 DEF FireAlert, r
<1>3. CASE /\ ~(watching /\ ShouldFire(q, r)) /\ Quiet(q, t)
           /\ slips' = IF watching THEN slips ELSE slips \cup {"off"}
  <2>1. watching /\ slips' = slips
    BY <1>3 DEF Orderly
  <2>2. told' = told
    BY <1>3 DEF Quiet, paging
  <2> QED
    BY <1>3, <2>1, <2>2 DEF r
<1> QED
  BY <1>1, <1>2, <1>3

(* A certificate's band: the result just judged is the one that was told.      *)
LEMMA BandStep ==
    ASSUME TellInv, NEW q \in Requests, NEW t, Evaluates(q, t), Orderly', Orderly,
           ForBands
    PROVE  LET r == reading[t]
           IN  r.days # NoCert => \/ told' = SslKey(r)
                                  \/ told' = None /\ SslKey(r).state = "ok"
<1> DEFINE r == reading[t]
<1> SUFFICES ASSUME r.days # NoCert
             PROVE  told' = SslKey(r) \/ (told' = None /\ SslKey(r).state = "ok")
  OBVIOUS
<1>0. PageInv /\ request[q].pc # "idle"
  BY DEF TellInv, Evaluates
<1>1. \/ ~ShouldFire(q, r) /\ told' = told
      \/ ShouldFire(q, r) /\ told' = StateKey(r)
  BY <1>0, FiredIsTold
<1> HIDE DEF r
<1>2. \A x : StateKey(x) = SslKey(x)
  BY DEF ForBands, StateKey
<1>3. CASE told' = StateKey(r)
  BY <1>2, <1>3
<1>4. CASE ~ShouldFire(q, r) /\ told' = told
  <2>1. ~EvaluateSslCertExpiry(q, r)
    BY <1>4 DEF ShouldFire, ForBands
  <2>2. /\ r.days # Unread /\ Bands(r) = {}
        /\ \/ LastRow(q) = None
           \/ LastRow(q).key.type # "ssl" \/ LastRow(q).key.state = "ok"
    BY <2>1 DEF EvaluateSslCertExpiry, ForBands
  <2>3. SslKey(r) = Key("ssl", "ok", 0) /\ SslKey(r).state = "ok"
    BY <2>2 DEF SslKey, Key
  <2>4. Kept
    BY DEF Clean, Kept, Orderly
  <2>5. Tells(LastRow(q))
    BY <1>0, <2>4 DEF PageInv, RowsTold
  <2>6. CASE LastRow(q) = None
    BY <1>4, <2>3, <2>5, <2>6 DEF Tells
  <2>7. CASE LastRow(q) # None
    <3>1. told = LastRow(q).key
      BY <2>5, <2>7 DEF Tells
    <3>2. LastRow(q) \in LogRow
      BY <1>0, <2>7, LastRowType DEF PageInv
    <3>3. told \in KeySet
      BY <3>1, <3>2 DEF LogRow
    <3>4. PICK x \in Reported : told = SslKey(x)
      BY <1>2, <3>3, NoneAssumption DEF TellInv, TellTypes
    <3>5. told.type = "ssl" /\ (told.state = "ok" => told = Key("ssl", "ok", 0))
      BY <3>4 DEF SslKey, Key
    <3>6. told = Key("ssl", "ok", 0)
      BY <2>2, <2>7, <3>1, <3>5
    <3> QED
      BY <1>4, <2>3, <3>6
  <2> QED
    BY <2>6, <2>7
<1> QED
  BY <1>1, <1>3, <1>4

(* An outage: the same, where a report carries one result.                     *)
LEMMA DownStep ==
    ASSUME TellInv, NEW q \in Requests, NEW t, Evaluates(q, t), Orderly', Orderly,
           ForOutages, DownTold(stored), t \in Runs,
           request[q].fresh = {t}, \A u \in stored : u < t
    PROVE  LET seen == stored \cup {t}
               newest == Recent(seen, alert.consecutive)
           IN  /\ /\ Cardinality(newest) = alert.consecutive
                  /\ \A u \in newest : ~reading[u].ok
                  => told' = Key("status", "down", 0)
               /\ reading[t].ok => told' # Key("status", "down", 0)
<1> DEFINE seen == stored \cup {t}
           newest == Recent(seen, alert.consecutive)
           r == reading[t]
<1>0. PageInv /\ request[q].pc # "idle" /\ Seen(q) = seen
  BY DEF TellInv, Evaluates, Seen
<1>1. \/ ~ShouldFire(q, r) /\ told' = told
      \/ ShouldFire(q, r) /\ told' = StateKey(r)
  BY <1>0, FiredIsTold
<1>2. ShouldFire(q, r) <=> EvaluateStatusChange(q, r)
  BY DEF ShouldFire, ForOutages
<1>3. StateKey(r) = Key("status", IF r.ok THEN "up" ELSE "down", 0)
  BY DEF StateKey, ForOutages
<1>4. Len(reading) \in Nat /\ Runs = 1..Len(reading) /\ stored \subseteq Runs
  BY RunsAre DEF TellInv, TellTypes
<1>5. alert.consecutive \in Nat \ {0}
  BY ConfigsAssumption DEF TellInv, OnceInv, OnceTypes
<1>6. t \in newest
  <2>1. seen \in SUBSET (1..Len(reading)) /\ t \in seen
    BY <1>4
  <2>2. t \in Nat /\ \A u \in stored : u \in Nat
    BY <1>4
  <2>3. ASSUME NEW u \in seen  PROVE u =< t
    BY <2>2
  <2> HIDE DEF seen
  <2> QED
    BY <1>4, <1>5, <2>1, <2>3, NewestIsRecent
<1>7. CASE ~r.ok
  <2>1. ASSUME Cardinality(newest) = alert.consecutive,
               \A u \in newest : ~reading[u].ok
        PROVE  told' = Key("status", "down", 0)
    <3>1. EvaluateStatusChange(q, r)
      BY <1>0, <1>7, <2>1 DEF EvaluateStatusChange, ForOutages
    <3> QED
      BY <1>1, <1>2, <1>3, <1>7, <3>1
  <2> QED
    BY <1>7, <2>1
<1>8. CASE r.ok
  <2>1. ~(\A u \in newest : ~reading[u].ok)
    BY <1>6, <1>8
  <2>2. told' # Key("status", "down", 0)
    <3>1. CASE told' = StateKey(r)
      BY <1>3, <1>8, <3>1 DEF Key
    <3>2. CASE ~ShouldFire(q, r) /\ told' = told
      <4>1. ~Recovered(seen)
        BY <1>0, <1>2, <1>8, <3>2 DEF EvaluateStatusChange, ForOutages
      <4>2. CASE stored = {}
        <5>1. told' = None
          BY <3>2, <4>2 DEF DownTold
        <5>2. Key("status", "down", 0) \in KeySet
          BY DEF Key, KeySet
        <5> QED
          BY <5>1, <5>2, NoneAssumption
      <4>3. CASE stored # {}
        <5>1. stored \in SUBSET (1..Len(reading)) /\ t \in 1..Len(reading)
          BY <1>4
        <5>2. Cardinality(seen) >= 2 /\ Min(Recent(seen, 2)) = Max(stored)
          BY <1>4, <4>3, <5>1, BeforeNewest
        <5> HIDE DEF seen
        <5>3. reading[Max(stored)].ok
          BY <4>1, <5>2 DEF Recovered
        <5> QED
          BY <3>2, <4>3, <5>3 DEF DownTold
      <4> QED
        BY <4>2, <4>3
    <3> QED
      BY <1>1, <3>1, <3>2
  <2> QED
    BY <2>1, <2>2
<1> QED
  BY <1>7, <1>8

LEMMA EvaluateKeepsTell ==
    ASSUME TellInv, OnceInv', PageInv', NEW q \in Requests, EvaluateCheckResult(q)
    PROVE  TellInv'
<1>t. PICK t : Evaluates(q, t)
  BY EvaluatesOne
<1>0. OnceInv /\ PageInv /\ TellTypes
  BY DEF TellInv
<1>1. /\ UNCHANGED <<alert, reading, stored>> /\ t \in request[q].todo
      /\ request[q].pc # "idle"
  BY <1>t DEF Evaluates, switches, tables
<1>2. /\ \A p \in Requests \ {q} : request'[p] = request[p]
      /\ request'[q].todo = request[q].todo \ {t}
      /\ request'[q].fresh = request[q].fresh
      /\ request'[q].pc = request[q].pc
      /\ request'[q].pages = 0 => request[q].pages = 0 /\ told' = told
      /\ told' = told \/ told' = StateKey(reading[t])
  BY <1>0, <1>t, EvaluateMoves
<1>3. /\ Runs = 1..Len(reading) /\ Len(reading) \in Nat /\ stored \subseteq Runs
      /\ request[q].todo \subseteq request[q].fresh /\ request[q].fresh \subseteq Runs
  BY <1>0, RunsAre DEF TellTypes
<1>5. t \in Runs /\ t \in Nat /\ reading[t] \in Reported
  BY <1>0, <1>1, <1>3 DEF OnceInv, OnceTypes
<1>6. \A r : StateKey(r)' = StateKey(r) /\ SslKey(r)' = SslKey(r)
  BY <1>1 DEF StateKey, SslKey, Bands, Key
<1>7. TellTypes'
  <2>1. Runs' = Runs
    BY <1>1 DEF Runs
  <2>2. \A p \in Requests : /\ request'[p].fresh \subseteq Runs
                            /\ request'[p].todo \subseteq request'[p].fresh
    BY <1>0, <1>2 DEF TellTypes
  <2>3. told' = None \/ \E r \in Reported : told' = StateKey(r)'
    BY <1>0, <1>2, <1>5, <1>6 DEF TellTypes
  <2> QED
    BY <1>1, <1>3, <2>1, <2>2, <2>3 DEF TellTypes
<1> DEFINE J == Judged(q)
<1>8. Judged(q)' = J \cup {t} /\ J \subseteq Runs
  BY <1>1, <1>2, <1>3 DEF Judged
<1>10. ASSUME Orderly'
       PROVE  /\ Orderly /\ slips' = slips
              /\ \A p \in Requests : request'[p].pc # "idle" => p = q
              /\ \A u \in J : u < t
              /\ request[q].fresh = {t} /\ request[q].todo = {t}
  <2>1. slips' = slips
    BY <1>0, <1>t, <1>10, FiredIsTold
  <2>2. Orderly /\ Clean
    BY <1>10, <2>1 DEF Orderly, Clean
  <2>3. \A p \in Requests : request'[p].pc # "idle" => p = q
    BY <1>0, <1>1, <1>2, <2>2 DEF PageInv, OneAtATime
  <2>4. /\ \A u \in J : u < t
        /\ \A u, v \in request[q].fresh : u = v
    BY <1>1, <2>2 DEF TellInv, InOrder
  <2>5. request[q].fresh = {t} /\ request[q].todo = {t}
    BY <1>1, <1>3, <2>4
  <2> QED
    BY <2>1, <2>2, <2>3, <2>4, <2>5
<1>11. ASSUME Orderly'
       PROVE  Max(J \cup {t}) = t
  <2>1. J \cup {t} \in SUBSET (1..Len(reading)) /\ t \in J \cup {t}
    BY <1>3, <1>5, <1>8
  <2>2. \A u \in J : u \in Nat
    BY <1>3, <1>8
  <2>3. ASSUME NEW u \in J \cup {t}  PROVE u =< t
    BY <1>5, <1>10, <1>11, <2>2
  <2> HIDE DEF J
  <2> QED
    BY <1>3, <2>1, <2>3, MaxIs
<1>12. ASSUME Orderly' PROVE InOrder'
  <2>1. request'[q].todo = {} /\ request'[q].fresh = {t}
    BY <1>2, <1>10, <1>12
  <2> QED
    BY <1>10, <1>12, <2>1 DEF InOrder
<1>13. ASSUME Orderly', request'[q].pages = 0
       PROVE  /\ BandTold(stored) => BandTold(stored)'
              /\ DownTold(stored) => DownTold(stored)'
  <2>1. told' = told
    BY <1>2, <1>13
  <2> QED
    BY <1>0, <1>1, <1>3, <2>1, ToldStays
<1>14. ASSUME Orderly', ForBands' PROVE BandsTold'
  <2>1. ForBands /\ BandsTold
    BY <1>1, <1>10, <1>14 DEF ForBands, TellInv
  <2>2. reading[t].days # NoCert => \/ told' = SslKey(reading[t])
                                    \/ told' = None /\ SslKey(reading[t]).state = "ok"
    BY <1>t, <1>10, <1>14, <2>1, BandStep
  <2>3. BandTold(Judged(q))'
    <3>1. Max(Judged(q)') = t /\ reading' = reading
      BY <1>1, <1>8, <1>11, <1>14
    <3> QED
      BY <1>6, <2>2, <3>1 DEF BandTold
  <2>4. request'[q].pages = 0 => BandTold(stored)'
    BY <1>1, <1>2, <1>13, <1>14, <2>1 DEF BandsTold
  <2> QED
    BY <1>1, <1>2, <1>10, <1>14, <2>3, <2>4 DEF BandsTold
<1>15. ASSUME Orderly', ForOutages' PROVE OutagesTold'
  <2>1. ForOutages /\ OutagesTold
    BY <1>1, <1>10, <1>15 DEF ForOutages, TellInv
  <2>2. request[q].fresh = {t} /\ request[q].todo = {t}
    BY <1>10, <1>15
  <2>3. J = stored
    <3>1. t \notin stored
      BY <1>0, <2>2 DEF OnceInv, FreshIsOwn
    <3> QED
      BY <2>2, <3>1 DEF Judged
  <2>4. DownTold(stored)
    BY <1>1, <2>1, <2>3 DEF OutagesTold
  <2> DEFINE seen == stored \cup {t}
             newest == Recent(seen, alert.consecutive)
  <2>5. /\ /\ Cardinality(newest) = alert.consecutive
           /\ \A u \in newest : ~reading[u].ok
           => told' = Key("status", "down", 0)
        /\ reading[t].ok => told' # Key("status", "down", 0)
    <3>1. \A u \in stored : u < t
      BY <1>10, <1>15, <2>3
    <3> QED
      BY <1>t, <1>5, <1>10, <1>15, <2>1, <2>2, <2>4, <3>1, DownStep
  <2>6. Judged(q)' = seen /\ seen # {} /\ Max(seen) = t
    BY <1>8, <1>11, <1>15, <2>3
  <2>8. DownTold(Judged(q))'
    <3>1. Recent(Judged(q)', alert.consecutive) = newest
      BY <2>6
    <3> HIDE DEF seen, newest
    <3> QED
      BY <1>1, <2>5, <2>6, <3>1 DEF DownTold, Recent
  <2>9. request'[q].pages = 0 => DownTold(stored)'
    BY <1>13, <1>15, <2>4
  <2> QED
    BY <1>1, <1>2, <1>10, <1>15, <2>1, <2>8, <2>9 DEF OutagesTold
<1> QED
  BY <1>7, <1>12, <1>14, <1>15 DEF TellInv

LEMMA FailKeepsTell ==
    ASSUME TellInv, OnceInv', PageInv', NEW q \in Requests, EvaluationFails(q)
    PROVE  TellInv'
<1>0. OnceInv /\ TellTypes
  BY DEF TellInv
<1>1. UNCHANGED <<alert, reading, stored>> /\ ~Orderly'
  BY DEF EvaluationFails, switches, tables, Orderly
<1>2. /\ \A p \in Requests \ {q} : request'[p] = request[p]
      /\ request'[q].fresh = request[q].fresh
      /\ request'[q].todo \subseteq request[q].todo
      /\ told' = told \/ \E t \in request[q].todo : told' = StateKey(reading[t])
  BY <1>0, FailsIs DEF OnceInv, OnceTypes, paging, Tell
<1>3. \A t \in request[q].todo : reading[t] \in Reported
  BY <1>0, RunsAre DEF TellTypes, OnceInv, OnceTypes
<1>4. \A r : StateKey(r)' = StateKey(r)
  BY <1>1 DEF StateKey, SslKey, Bands, Key
<1>5. TellTypes'
  <2>1. Runs' = Runs
    BY <1>1 DEF Runs
  <2>2. \A p \in Requests : /\ request'[p].fresh \subseteq Runs
                            /\ request'[p].todo \subseteq request'[p].fresh
    BY <1>0, <1>2 DEF TellTypes
  <2>3. told' = None \/ \E r \in Reported : told' = StateKey(r)'
    BY <1>0, <1>2, <1>3, <1>4 DEF TellTypes
  <2> QED
    BY <1>0, <1>1, <2>1, <2>2, <2>3 DEF TellTypes
<1> QED
  BY <1>1, <1>5 DEF TellInv

LEMMA CommitKeepsTell ==
    ASSUME TellInv, OnceInv', PageInv', NEW q \in Requests, Commit(q)
    PROVE  TellInv'
<1>0. OnceInv /\ PageInv /\ TellTypes
  BY DEF TellInv
<1>1. /\ request' = [request EXCEPT ![q] = Idle] /\ request[q].pc # "idle"
      /\ request[q].todo = {} /\ stored' = stored \cup request[q].fresh
      /\ UNCHANGED <<alert, reading, told, slips>>
  BY DEF Commit, switches, paging
<1>2. /\ request'[q].pc = "idle" /\ request'[q].fresh = {} /\ request'[q].todo = {}
      /\ \A p \in Requests \ {q} : request'[p] = request[p]
  BY <1>0, <1>1 DEF OnceInv, OnceTypes, Idle
<1>3. stored' = Judged(q) /\ Judged(q) \subseteq Runs /\ Runs' = Runs
  BY <1>0, <1>1, JudgedRuns DEF Judged, Runs
<1>4. TellTypes'
  <2>1. \A r : StateKey(r)' = StateKey(r)
    BY <1>1 DEF StateKey, SslKey, Bands, Key
  <2> QED
    BY <1>0, <1>1, <1>2, <1>3, <2>1 DEF TellTypes
<1>5. ASSUME Orderly' PROVE \A p \in Requests : request'[p].pc = "idle"
  <2>1. Clean
    BY <1>1, <1>5 DEF Orderly, Clean
  <2> QED
    BY <1>0, <1>1, <1>2, <2>1 DEF PageInv, OneAtATime
<1>6. /\ BandTold(Judged(q)) => BandTold(stored)'
      /\ DownTold(Judged(q)) => DownTold(stored)'
  BY <1>1, <1>3 DEF BandTold, DownTold, Recent, SslKey, Bands
<1>7. Orderly' => InOrder'
  BY <1>5 DEF InOrder
<1>8. ASSUME Orderly', ForBands' PROVE BandsTold'
  <2>1. BandTold(Judged(q))
    BY <1>1, <1>8 DEF TellInv, Orderly, ForBands, BandsTold
  <2> QED
    BY <1>5, <1>6, <1>8, <2>1 DEF BandsTold
<1>9. ASSUME Orderly', ForOutages' PROVE OutagesTold'
  <2>1. DownTold(Judged(q))
    BY <1>1, <1>9 DEF TellInv, Orderly, ForOutages, OutagesTold
  <2> QED
    BY <1>5, <1>6, <1>9, <2>1 DEF OutagesTold
<1> QED
  BY <1>4, <1>7, <1>8, <1>9 DEF TellInv

LEMMA AbortKeepsTell ==
    ASSUME TellInv, OnceInv', PageInv', NEW q \in Requests, Abort(q)
    PROVE  TellInv'
<1>0. OnceInv /\ PageInv /\ TellTypes
  BY DEF TellInv
<1>1. /\ request' = [request EXCEPT ![q] = Idle] /\ request[q].pc # "idle"
      /\ slips' = IF request[q].pages > 0 THEN slips \cup {"rolled_back"} ELSE slips
      /\ UNCHANGED <<alert, reading, stored, told>>
  BY DEF Abort, switches, tables, paging
<1>2. /\ request'[q].pc = "idle" /\ request'[q].fresh = {} /\ request'[q].todo = {}
      /\ \A p \in Requests \ {q} : request'[p] = request[p]
  BY <1>0, <1>1 DEF OnceInv, OnceTypes, Idle
<1>3. TellTypes'
  <2>1. \A r : StateKey(r)' = StateKey(r)
    BY <1>1 DEF StateKey, SslKey, Bands, Key
  <2> QED
    BY <1>0, <1>1, <1>2, <2>1 DEF TellTypes, Runs
<1>4. ASSUME Orderly'
      PROVE  /\ \A p \in Requests : request'[p].pc = "idle"
             /\ request[q].pages = 0 /\ slips' = slips
  <2>1. request[q].pages = 0
    <3>1. ~(request[q].pages > 0) /\ request[q].pages \in Nat
      BY <1>0, <1>1, <1>4 DEF Orderly, PageInv, PageTypes
    <3> QED
      BY <3>1
  <2>2. slips' = slips
    BY <1>1, <2>1
  <2>3. Clean
    BY <1>4, <2>2 DEF Orderly, Clean
  <2> QED
    BY <1>0, <1>1, <1>2, <2>1, <2>2, <2>3 DEF PageInv, OneAtATime
<1>5. stored \subseteq Runs /\ \A u \in Runs : reading'[u] = reading[u]
  BY <1>0, <1>1 DEF TellTypes
<1>6. /\ BandTold(stored) => BandTold(stored)'
      /\ DownTold(stored) => DownTold(stored)'
  BY <1>0, <1>1, <1>5, ToldStays
<1>7. Orderly' => InOrder'
  BY <1>4 DEF InOrder
<1>8. ASSUME Orderly', ForBands' PROVE BandsTold'
  <2>1. BandTold(stored)
    BY <1>1, <1>4, <1>8 DEF TellInv, Orderly, ForBands, BandsTold
  <2> QED
    BY <1>4, <1>6, <1>8, <2>1 DEF BandsTold
<1>9. ASSUME Orderly', ForOutages' PROVE OutagesTold'
  <2>1. DownTold(stored)
    BY <1>1, <1>4, <1>9 DEF TellInv, Orderly, ForOutages, OutagesTold
  <2> QED
    BY <1>4, <1>6, <1>9, <2>1 DEF OutagesTold
<1> QED
  BY <1>3, <1>7, <1>8, <1>9 DEF TellInv

LEMMA TellNext == TellInv /\ [Next]_vars => TellInv'
<1> SUFFICES ASSUME TellInv, [Next]_vars PROVE TellInv'
  OBVIOUS
<1>1. OnceInv' /\ PageInv'
  BY OnceNext, PagesNext DEF TellInv
<1>2. CASE RunCheck \/ Edit \/ ParentTurns \/ Tick \/ UNCHANGED vars
  BY <1>1, <1>2, WorldKeepsTell
<1>3. ASSUME NEW q \in Requests, ProcessReport(q) PROVE TellInv'
  BY <1>1, <1>3, ReportKeepsTell
<1>4. ASSUME NEW q \in Requests, EvaluateCheckResult(q) PROVE TellInv'
  BY <1>1, <1>4, EvaluateKeepsTell
<1>5. ASSUME NEW q \in Requests, Commit(q) PROVE TellInv'
  BY <1>1, <1>5, CommitKeepsTell
<1>6. ASSUME NEW q \in Requests, Abort(q) PROVE TellInv'
  BY <1>1, <1>6, AbortKeepsTell
<1>7. ASSUME NEW q \in Requests, EvaluationFails(q) PROVE TellInv'
  BY <1>1, <1>7, FailKeepsTell
<1> QED
  BY <1>2, <1>3, <1>4, <1>5, <1>6, <1>7 DEF Next

(* "Always send on a status change" (docs, alerts), for every alert, every     *)
(* number of requests and of results: between reports, and unless something on *)
(* the list came between, a check that failed as often in a row as the alert   *)
(* asks was paged as down last, and a check that is up was not                 *)
(* (_evaluate_status_change, _should_send_notification).                       *)
THEOREM OutagesAreTold == Spec => []DownIsTold
<1>1. TellInv => DownIsTold
  <2> SUFFICES ASSUME TellInv, ForOutages, slips = {}, stored # {},
                      \A q \in Requests : request[q].pc = "idle"
               PROVE  LET newest == Recent(stored, alert.consecutive)
                      IN  /\ /\ Cardinality(newest) = alert.consecutive
                             /\ \A t \in newest : ~reading[t].ok
                             => told = Key("status", "down", 0)
                          /\ reading[Newest].ok => told # Key("status", "down", 0)
    BY DEF DownIsTold, ForOutages
  <2> QED
    BY DEF TellInv, Orderly, OutagesTold, DownTold, Newest
<1> QED
  BY <1>1, InitTell, TellNext, PTL DEF Spec

(* Each band of an expiring certificate is paged when it is entered, in either *)
(* direction, and a renewal ends it (_state_key, _evaluate_ssl_cert_expiry):   *)
(* unless something on the list came between, the operator was told the newest *)
(* band last.                                                                  *)
THEOREM BandsAreTold == Spec => []BandIsTold
<1>1. TellInv => BandIsTold
  BY DEF BandIsTold, TellInv, Orderly, ForBands, BandsTold, BandTold, Newest
<1> QED
  BY <1>1, InitTell, TellNext, PTL DEF Spec
=============================================================================
