--------------------------- MODULE SilenceProofs ---------------------------
(* An episode of silence has one first page, and one more for each pass that   *)
(* was cut short, for any agents, modes, thresholds, resend settings and ages  *)
(* of results.  The invariant says what a pass in progress may rely on: what   *)
(* it decided from the log is still true when it comes to record it, because   *)
(* whatever happens in between ends episodes and opens none.                   *)
EXTENDS Silence, FiniteSetTheorems, WellFoundedInduction, TLAPS

CheckKinds == {"none", "silent", "suppressed", "reporting"}
AgentKinds == {"none", "offline", "online"}

RowsOf(keys) == [key : keys, age : Nat, count : Nat, newer : BOOLEAN]

Pending == [about : Subjects, key : CheckKinds \cup AgentKinds, count : Nat]

Types ==
    /\ row \in RowsOf(CheckKinds) /\ arow \in RowsOf(AgentKinds)
    /\ notices \in SUBSET Pending
    /\ \A n \in notices : n.key \in IF n.about = Check THEN CheckKinds ELSE AgentKinds
    /\ pages \in [Subjects -> Nat] /\ faults \in Nat

CheckPaged == row.key = "silent" /\ ~row.newer
AgentPaged == arow.key = "offline" /\ ~arow.newer

(* The episode of s has been paged, and nothing has ended it.                  *)
Open(s) == IF s = Check THEN CheckPaged ELSE AgentPaged

(* Beyond the page an open episode has, every page was paid for by a fault.    *)
Charged == \A s \in Subjects : pages[s] <= faults + IF Open(s) THEN 1 ELSE 0

(* A notice that opens, suppresses or ends an episode meets none that is open; *)
(* any other is a resend, which leaves the episode it finds open.              *)
Due ==
    \A n \in notices :
        IF n.count = 0 THEN ~Open(n.about)
        ELSE n.key = IF n.about = Check THEN "silent" ELSE "offline"

OneNoticeEach == \A m, n \in notices : m.about = n.about => m = n

IInv == Types /\ Charged /\ Due /\ OneNoticeEach

-----------------------------------------------------------------------------
(* The first choice of the check is an agent, so it is not the check.  Of the  *)
(* sets {agents above a} one is minimal for inclusion: a is the highest.       *)
LEMMA HighestExists == \E a \in Agents : \A b \in Agents : a >= b
<1> DEFINE Higher(a) == {b \in Agents : b > a}
           T == {Higher(a) : a \in Agents}
           R == StrictSubsetOrdering(Agents)
<1>0. Agents # {} /\ IsFiniteSet(Agents)
  BY AgentsAssumption
<1>1. \A a \in Agents : a \in Nat
  BY AgentsAssumption
<1>2. IsWellFoundedOn(R, SUBSET Agents)
  BY <1>0, FS_StrictSubsetOrderingWellFounded, FS_FiniteSubsetsOfFinite
<1>3. T \subseteq SUBSET Agents /\ T # {}
  BY <1>0
<1>4. \E x \in T : \A y \in T : ~ (<<y, x>> \in R)
  <2> HIDE DEF T, R
  <2> QED  BY <1>2, <1>3, WFMin
<1>5. PICK a \in Agents : \A y \in T : ~ (<<y, Higher(a)>> \in R)
  BY <1>4
<1>6. ASSUME NEW b \in Agents, b > a  PROVE FALSE
  <2>1. Higher(b) \subseteq Higher(a)
    BY <1>1, <1>6
  <2>2. b \in Higher(a) /\ b \notin Higher(b)
    BY <1>1, <1>6
  <2>3. Higher(b) # Higher(a)
    BY <2>2
  <2>4. Higher(b) \in SUBSET Agents /\ Higher(a) \in SUBSET Agents
    OBVIOUS
  <2> HIDE DEF Higher
  <2>5. <<Higher(b), Higher(a)>> \in R
    BY <2>1, <2>3, <2>4 DEF StrictSubsetOrdering
  <2> QED
    BY <1>5, <2>5
<1> QED
  BY <1>1, <1>6

LEMMA HomeIsAnAgent == Home \in Agents /\ Home # Check
<1>1. Home \in Agents
  BY HighestExists DEF Home, Max
<1> QED
  BY <1>1, AgentsAssumption DEF Check

-----------------------------------------------------------------------------
(* What a pass decides.                                                        *)

(* A notice of the pass about s: a resend of the open page, or one that finds  *)
(* no page open.                                                               *)
Fitting(n, s) ==
    /\ n \in Pending /\ n.about = s
    /\ s = Check => n.key \in CheckKinds
    /\ s # Check => n.key \in AgentKinds
    /\ IF n.count = 0 THEN ~Open(s)
       ELSE n.key = IF s = Check THEN "silent" ELSE "offline"

(* resend_decision: at most one notice, and never one that counts as a first.  *)
LEMMA ResentFits ==
    ASSUME NEW s \in Subjects, NEW r, r.count \in Nat,
           r.key = IF s = Check THEN "silent" ELSE "offline"
    PROVE  /\ \A n \in Resent(s, r) : Fitting(n, s)
           /\ \A m, n \in Resent(s, r) : m = n
<1>1. \A n \in Resent(s, r) : n = Notice(s, r.key, r.count + 1)
  BY DEF Resent
<1>2. Fitting(Notice(s, r.key, r.count + 1), s)
  BY DEF Fitting, Notice, Pending, CheckKinds, AgentKinds
<1> QED
  BY <1>1, <1>2

LEMMA FirstFits ==
    ASSUME NEW s \in Subjects, ~Open(s),
           NEW k \in CheckKinds \cup AgentKinds,
           s = Check => k \in CheckKinds, s # Check => k \in AgentKinds
    PROVE  Fitting(Notice(s, k, 0), s)
<1> QED
  BY DEF Fitting, Notice, Pending

(* _decide_no_data.                                                            *)
LEMMA NoDataFits ==
    ASSUME Types
    PROVE  /\ \A n \in DecideNoData : Fitting(n, Check)
           /\ \A m, n \in DecideNoData : m = n
<1>0. Check \in Subjects /\ row.count \in Nat /\ row.newer \in BOOLEAN
  BY DEF Subjects, Types, RowsOf
<1>1. CASE DecideNoData = {}
  BY <1>1
<1>2. CASE DecideNoData = {Notice(Check, "reporting", 0)} /\ CheckRecovered
  <2>1. ~Open(Check)
    BY <1>2 DEF CheckRecovered, Open, CheckPaged
  <2> QED
    BY <1>0, <1>2, <2>1, FirstFits DEF CheckKinds
<1>3. CASE DecideNoData = {Notice(Check, "suppressed", 0)} /\ ~EpisodeOpen
  <2>1. ~Open(Check)
    BY <1>3 DEF EpisodeOpen, Silences, Open, CheckPaged
  <2> QED
    BY <1>0, <1>3, <2>1, FirstFits DEF CheckKinds
<1>4. CASE DecideNoData = Resent(Check, row) /\ row.key = "silent"
  BY <1>0, <1>4, ResentFits
<1>5. CASE /\ DecideNoData = {Notice(Check, "silent", 0)}
           /\ ~(EpisodeOpen /\ row.key = "silent")
  <2>1. ~Open(Check)
    BY <1>5 DEF EpisodeOpen, Silences, Open, CheckPaged
  <2> QED
    BY <1>0, <1>5, <2>1, FirstFits DEF CheckKinds
<1> QED
  BY <1>1, <1>2, <1>3, <1>4, <1>5 DEF DecideNoData

(* _decide_agent_offline.                                                      *)
LEMMA AgentOfflineFits ==
    ASSUME Types
    PROVE  /\ \A n \in DecideAgentOffline : Fitting(n, Home)
           /\ \A m, n \in DecideAgentOffline : m = n
<1>0. Home \in Subjects /\ Home # Check /\ arow.count \in Nat
  BY HomeIsAnAgent DEF Subjects, Types, RowsOf
<1>1. CASE DecideAgentOffline = {}
  BY <1>1
<1>2. CASE /\ DecideAgentOffline = {Notice(Home, "online", 0)}
           /\ arow.newer
  <2>1. ~Open(Home)
    BY <1>0, <1>2 DEF Open, AgentPaged
  <2> QED
    BY <1>0, <1>2, <2>1, FirstFits DEF AgentKinds
<1>3. CASE DecideAgentOffline = Resent(Home, arow) /\ arow.key = "offline"
  BY <1>0, <1>3, ResentFits
<1>4. CASE /\ DecideAgentOffline = {Notice(Home, "offline", 0)}
           /\ ~(arow.key = "offline" /\ ~arow.newer)
  <2>1. ~Open(Home)
    BY <1>0, <1>4 DEF Open, AgentPaged
  <2> QED
    BY <1>0, <1>4, <2>1, FirstFits DEF AgentKinds
<1> QED
  BY <1>1, <1>2, <1>3, <1>4 DEF DecideAgentOffline

-----------------------------------------------------------------------------
(* The steps.                                                                  *)

LEMMA InitHolds == Init => IInv
<1> SUFFICES ASSUME Init PROVE IInv
    OBVIOUS
<1>1. Types
  BY DEF Init, Types, Row, RowsOf, CheckKinds, AgentKinds
<1>2. pages = [s \in Subjects |-> 0] /\ faults = 0 /\ notices = {}
  BY DEF Init
<1>3. Charged
  BY <1>2 DEF Charged
<1> QED
  BY <1>1, <1>2, <1>3 DEF IInv, Due, OneNoticeEach

LEMMA DecideKeeps == ASSUME IInv, Decide PROVE IInv'
<1>0. /\ Types /\ notices' = DecideNoData \cup DecideAgentOffline
      /\ UNCHANGED <<row, arow, pages, faults>>
  BY DEF IInv, Decide
<1>1. \A n \in DecideNoData : Fitting(n, Check)
  BY <1>0, NoDataFits
<1>2. \A n \in DecideAgentOffline : Fitting(n, Home)
  BY <1>0, AgentOfflineFits
<1>3. Types'
  BY <1>0, <1>1, <1>2, HomeIsAnAgent DEF Types, Fitting
<1>4. Charged'
  BY <1>0 DEF IInv, Charged, Open, CheckPaged, AgentPaged
<1>5. Due'
  BY <1>0, <1>1, <1>2 DEF Due, Fitting, Open, CheckPaged, AgentPaged
<1>6. OneNoticeEach'
  <2>1. ASSUME NEW m \in DecideNoData, NEW n \in DecideAgentOffline
        PROVE  m.about # n.about
    BY <1>1, <1>2, HomeIsAnAgent DEF Fitting
  <2> QED
    BY <1>0, <2>1, NoDataFits, AgentOfflineFits DEF OneNoticeEach
<1> QED
  BY <1>3, <1>4, <1>5, <1>6 DEF IInv

(* Sending a notice: at most one page more, and that one finds none open.      *)
LEMMA PagedBy ==
    ASSUME IInv, NEW n \in notices, Paged(n)
    PROVE  /\ pages' \in [Subjects -> Nat]
           /\ \A s \in Subjects : s # n.about => pages'[s] = pages[s]
           /\ pages'[n.about] <= pages[n.about] + 1
           /\ pages'[n.about] # pages[n.about] => n.count = 0
<1>1. n \in Pending /\ n.about \in Subjects /\ pages \in [Subjects -> Nat]
  BY DEF IInv, Types, Pending
<1>2. CASE FirstPage(n)
  BY <1>1, <1>2 DEF Paged, FirstPage
<1>3. CASE ~FirstPage(n)
  BY <1>1, <1>3 DEF Paged
<1> QED
  BY <1>2, <1>3

LEMMA RecordKeeps == ASSUME IInv, NEW n \in notices, Record(n) PROVE IInv'
<1> DEFINE s == n.about
<1>0. /\ n \in Pending /\ s \in Subjects /\ n.count \in Nat
      /\ n.key \in IF s = Check THEN CheckKinds ELSE AgentKinds
      /\ faults' = faults /\ faults \in Nat
      /\ notices' = notices \ {n} /\ notices' \subseteq notices
      /\ Paged(n)
  BY DEF IInv, Types, Pending, Record
<1>1. /\ pages' \in [Subjects -> Nat] /\ pages \in [Subjects -> Nat]
      /\ \A t \in Subjects : t # s => pages'[t] = pages[t]
      /\ pages'[s] <= pages[s] + 1
      /\ pages'[s] # pages[s] => n.count = 0
  BY <1>0, PagedBy DEF IInv, Types
<1>2. Row(n.key, n.count) \in RowsOf(IF s = Check THEN CheckKinds ELSE AgentKinds)
  BY <1>0 DEF Row, RowsOf
<1>3. /\ row' = IF s = Check THEN Row(n.key, n.count) ELSE row
      /\ arow' = IF s = Check THEN arow ELSE Row(n.key, n.count)
  BY DEF Record
<1>4. Open(s)' <=> (n.key = IF s = Check THEN "silent" ELSE "offline")
  <2>1. CASE s = Check
    BY <1>3, <2>1 DEF Open, CheckPaged, Row
  <2>2. CASE s # Check
    BY <1>3, <2>2 DEF Open, AgentPaged, Row
  <2> QED
    BY <2>1, <2>2
<1>5. \A t \in Subjects : t # s => (Open(t)' <=> Open(t))
  BY <1>0, <1>3 DEF Open, CheckPaged, AgentPaged, Subjects
<1>6. Types'
  BY <1>0, <1>1, <1>2, <1>3 DEF IInv, Types
<1>7. Charged'
  <2>1. ASSUME NEW t \in Subjects, t # s
        PROVE  pages'[t] <= faults' + IF Open(t)' THEN 1 ELSE 0
    BY <1>0, <1>1, <1>5, <2>1 DEF IInv, Charged
  <2>2. pages'[s] <= faults' + IF Open(s)' THEN 1 ELSE 0
    <3>0. pages[s] \in Nat /\ pages'[s] \in Nat
      BY <1>0, <1>1
    <3>1. CASE n.count = 0 /\ FirstPage(n)
      <4>1. ~Open(s)
        BY <3>1 DEF IInv, Due
      <4>2. pages[s] <= faults
        BY <1>0, <3>0, <4>1 DEF IInv, Charged
      <4>3. Open(s)'
        BY <1>0, <1>4, <3>1 DEF FirstPage, CheckKinds, AgentKinds
      <4> QED
        BY <1>0, <1>1, <3>0, <4>2, <4>3
    <3>2. CASE n.count = 0 /\ ~FirstPage(n)
      <4>1. ~Open(s) /\ pages' = pages
        BY <1>0, <3>2 DEF IInv, Due, Paged
      <4>2. pages[s] <= faults
        BY <1>0, <3>0, <4>1 DEF IInv, Charged
      <4> QED
        BY <1>0, <3>0, <4>1, <4>2
    <3>3. CASE n.count # 0
      <4>1. Open(s)' /\ pages'[s] = pages[s]
        BY <1>0, <1>1, <1>4, <3>3 DEF IInv, Due
      <4>2. pages[s] <= faults + 1
        BY <1>0, <3>0 DEF IInv, Charged
      <4> QED
        BY <1>0, <3>0, <4>1, <4>2
    <3> QED
      BY <3>1, <3>2, <3>3
  <2> QED
    BY <2>1, <2>2 DEF Charged
<1>8. Due'
  <2> SUFFICES ASSUME NEW m \in notices'
               PROVE  IF m.count = 0 THEN ~Open(m.about)'
                      ELSE m.key = IF m.about = Check THEN "silent" ELSE "offline"
    BY DEF Due
  <2>1. m \in notices /\ m # n /\ m.about # s /\ m.about \in Subjects
    BY <1>0 DEF IInv, OneNoticeEach, Types, Pending
  <2> QED
    BY <1>5, <2>1 DEF IInv, Due
<1>9. OneNoticeEach'
  BY <1>0 DEF IInv, OneNoticeEach
<1> QED
  BY <1>6, <1>7, <1>8, <1>9 DEF IInv

(* The pass ends with what it had left to say unsaid.                          *)
LEMMA PassLostKeeps ==
    ASSUME IInv, CutShort \/ \E n \in notices : RollBack(n)
    PROVE  IInv'
<1>0. /\ notices' = {} /\ faults \in Nat /\ faults' = faults + 1
      /\ UNCHANGED <<row, arow>>
  BY DEF CutShort, RollBack, Fault, IInv, Types
<1>1. /\ pages \in [Subjects -> Nat] /\ pages' \in [Subjects -> Nat]
      /\ \A s \in Subjects : pages'[s] <= pages[s] + 1
  <2>1. CASE CutShort
    BY <2>1 DEF CutShort, IInv, Types
  <2>2. ASSUME NEW n \in notices, RollBack(n)
        PROVE  /\ pages \in [Subjects -> Nat] /\ pages' \in [Subjects -> Nat]
               /\ \A s \in Subjects : pages'[s] <= pages[s] + 1
    <3>1. Paged(n) /\ pages \in [Subjects -> Nat]
      BY <2>2 DEF RollBack, IInv, Types
    <3>2. /\ pages' \in [Subjects -> Nat]
          /\ \A s \in Subjects : s # n.about => pages'[s] = pages[s]
          /\ pages'[n.about] <= pages[n.about] + 1
      BY <3>1, PagedBy
    <3> QED
      BY <3>1, <3>2
  <2> QED
    BY <2>1, <2>2
<1>2. Charged'
  <2> SUFFICES ASSUME NEW s \in Subjects
               PROVE  pages'[s] <= faults' + IF Open(s)' THEN 1 ELSE 0
    BY DEF Charged
  <2>1. Open(s)' <=> Open(s)
    BY <1>0 DEF Open, CheckPaged, AgentPaged
  <2>2. pages[s] <= faults + IF Open(s) THEN 1 ELSE 0
    BY DEF IInv, Charged
  <2>3. pages[s] \in Nat /\ pages'[s] \in Nat /\ pages'[s] <= pages[s] + 1
    BY <1>1
  <2> QED
    BY <1>0, <2>1, <2>2, <2>3
<1> QED
  BY <1>0, <1>1, <1>2 DEF IInv, Types, Due, OneNoticeEach

(* Whatever happens outside the pass opens no episode, and ends one only with  *)
(* its count of pages set back.                                                *)
LEMMA OutsideKeeps ==
    ASSUME IInv, notices' = notices, faults' = faults,
           row' \in RowsOf(CheckKinds), arow' \in RowsOf(AgentKinds),
           pages' \in [Subjects -> Nat],
           \A s \in Subjects : Open(s)' => Open(s),
           \A s \in Subjects :
              pages'[s] = 0 \/ (pages'[s] = pages[s] /\ (Open(s) => Open(s)'))
    PROVE  IInv'
<1>1. Types'
  BY DEF IInv, Types
<1>2. Charged'
  <2> SUFFICES ASSUME NEW s \in Subjects
               PROVE  pages'[s] <= faults + IF Open(s)' THEN 1 ELSE 0
    BY DEF Charged
  <2>1. pages[s] <= faults + IF Open(s) THEN 1 ELSE 0
    BY DEF IInv, Charged
  <2>2. pages[s] \in Nat /\ pages'[s] \in Nat /\ faults \in Nat
    BY DEF IInv, Types
  <2> QED
    BY <2>1, <2>2
<1>3. Due'
  BY DEF IInv, Due, Types, Pending
<1> QED
  BY <1>1, <1>2, <1>3 DEF IInv, OneNoticeEach

LEMMA BeatKeeps ==
    ASSUME IInv, NEW a, NEW stopping, Beat(a, stopping)
    PROVE  IInv'
<1>0. notices' = notices /\ faults' = faults /\ row' = row
  BY DEF Beat
<1>t. /\ arow \in RowsOf(AgentKinds) /\ row \in RowsOf(CheckKinds)
      /\ pages \in [Subjects -> Nat]
  BY DEF IInv, Types
<1>1. CASE a = Home
  <2>1. /\ arow' = [arow EXCEPT !.newer = (arow.key = "offline")]
        /\ pages' = [pages EXCEPT ![Home] = 0]
    BY <1>1 DEF Beat
  <2>2. arow' \in RowsOf(AgentKinds) /\ ~AgentPaged'
    BY <1>t, <2>1 DEF RowsOf, AgentPaged
  <2>3. pages' \in [Subjects -> Nat] /\ pages'[Home] = 0 /\ pages'[Check] = pages[Check]
    BY <1>t, <2>1, HomeIsAnAgent DEF Subjects
  <2>4. /\ Open(Check)' <=> Open(Check)
        /\ ~Open(Home)'
    BY <1>0, <2>2, HomeIsAnAgent DEF Open, CheckPaged
  <2>5. /\ \A s \in Subjects : Open(s)' => Open(s)
        /\ \A s \in Subjects :
              pages'[s] = 0 \/ (pages'[s] = pages[s] /\ (Open(s) => Open(s)'))
    BY <2>3, <2>4 DEF Subjects
  <2> QED
    BY <1>0, <1>t, <2>2, <2>3, <2>5, OutsideKeeps
<1>2. CASE a # Home
  <2>1. arow' = arow /\ pages' = pages
    BY <1>2 DEF Beat
  <2>2. \A s \in Subjects : Open(s)' <=> Open(s)
    BY <1>0, <2>1 DEF Open, CheckPaged, AgentPaged
  <2> QED
    BY <1>0, <1>t, <2>1, <2>2, OutsideKeeps
<1> QED
  BY <1>1, <1>2

(* A late result leaves the row and the pages as they are, or ends the episode *)
(* and sets them back.                                                         *)
LEMMA StoreKeeps == ASSUME IInv, NEW k, StoreResult(k) PROVE IInv'
<1> DEFINE ended == [row EXCEPT !.newer = (row.key \in Silences)]
<1>0. notices' = notices /\ faults' = faults /\ arow' = arow
  BY DEF StoreResult
<1>1. row' = row \/ row' = ended
  BY DEF StoreResult
<1>t. /\ arow \in RowsOf(AgentKinds) /\ row \in RowsOf(CheckKinds)
      /\ pages \in [Subjects -> Nat] /\ Check \in Subjects
  BY DEF IInv, Types, Subjects
<1>2. /\ ended \in RowsOf(CheckKinds) /\ ended.key = row.key
      /\ row.key \in Silences => ended.newer
      /\ row.key \notin Silences => ~ended.newer
  <2>1. CASE row.key \in Silences
    <3>1. ended = [row EXCEPT !.newer = TRUE]
      BY <2>1
    <3> QED
      BY <1>t, <2>1, <3>1 DEF RowsOf
  <2>2. CASE row.key \notin Silences
    <3>0. (row.key \in Silences) = FALSE
      BY <2>2
    <3>1. ended = [row EXCEPT !.newer = FALSE]
      BY <3>0, Zenon
    <3> QED
      BY <1>t, <2>2, <3>1 DEF RowsOf
  <2> QED
    BY <2>1, <2>2
<1>3. row' \in RowsOf(CheckKinds) /\ row'.key = row.key
  BY <1>1, <1>2, <1>t
<1>4. CheckPaged' => CheckPaged /\ row' = row
  BY <1>1, <1>2 DEF CheckPaged, Silences
<1>5. pages' = IF row'.newer \/ row.key \notin Silences
               THEN [pages EXCEPT ![Check] = 0] ELSE pages
  BY DEF StoreResult
<1>6. CheckPaged /\ ~CheckPaged' => row'.newer
  BY <1>3 DEF CheckPaged
<1>7. pages' \in [Subjects -> Nat] /\ \A s \in Subjects : s # Check => pages'[s] = pages[s]
  BY <1>5, <1>t
<1>8. pages'[Check] = 0 \/ (pages'[Check] = pages[Check] /\ (CheckPaged => CheckPaged'))
  BY <1>5, <1>6, <1>t
<1>9. /\ Open(Check)' <=> CheckPaged'
      /\ Open(Check) <=> CheckPaged
      /\ \A s \in Subjects : s # Check => (Open(s)' <=> Open(s))
  BY <1>0 DEF Open, AgentPaged
<1>10. /\ \A s \in Subjects : Open(s)' => Open(s)
       /\ \A s \in Subjects :
             pages'[s] = 0 \/ (pages'[s] = pages[s] /\ (Open(s) => Open(s)'))
  BY <1>4, <1>7, <1>8, <1>9
<1> QED
  BY <1>0, <1>3, <1>7, <1>10, <1>t, OutsideKeeps

LEMMA TickKeeps == ASSUME IInv, Tick PROVE IInv'
<1>0. notices' = notices /\ faults' = faults /\ pages' = pages
  BY DEF Tick
<1>t. /\ arow \in RowsOf(AgentKinds) /\ row \in RowsOf(CheckKinds)
      /\ pages \in [Subjects -> Nat]
  BY DEF IInv, Types
<1>1. \A n \in Nat : Older(n, MaxRowAge) \in Nat
  BY TimesAssumption DEF Older
<1>2. row' \in RowsOf(CheckKinds) /\ row'.key = row.key /\ row'.newer = row.newer
  <2>1. [row EXCEPT !.age = Older(@, MaxRowAge)] \in RowsOf(CheckKinds)
    BY <1>t, <1>1 DEF RowsOf
  <2> QED
    BY <1>t, <2>1 DEF Tick, RowsOf
<1>3. arow' \in RowsOf(AgentKinds) /\ arow'.key = arow.key /\ arow'.newer = arow.newer
  <2>1. [arow EXCEPT !.age = Older(@, MaxRowAge)] \in RowsOf(AgentKinds)
    BY <1>t, <1>1 DEF RowsOf
  <2> QED
    BY <1>t, <2>1 DEF Tick, RowsOf
<1>4. \A s \in Subjects : Open(s)' <=> Open(s)
  BY <1>2, <1>3 DEF Open, CheckPaged, AgentPaged
<1> QED
  BY <1>0, <1>2, <1>3, <1>4, <1>t, OutsideKeeps

LEMMA SnoozeKeeps == ASSUME IInv, Snooze \/ UNCHANGED vars PROVE IInv'
<1>1. UNCHANGED <<row, arow, notices, pages, faults>>
  BY DEF Snooze, vars
<1> QED
  BY <1>1 DEF IInv, Types, Charged, Due, OneNoticeEach, Open, CheckPaged, AgentPaged

LEMMA StepKeeps == IInv /\ [Next]_vars => IInv'
<1> SUFFICES ASSUME IInv, [Next]_vars PROVE IInv'
    OBVIOUS
<1>1. CASE Next
  BY <1>1, DecideKeeps, RecordKeeps, PassLostKeeps, BeatKeeps, StoreKeeps,
     TickKeeps, SnoozeKeeps DEF Next
<1> QED
  BY <1>1, SnoozeKeeps

LEMMA AlwaysIInv == Spec => []IInv
<1> QED
  BY InitHolds, StepKeeps, PTL DEF Spec

(* _decide, _record: until data newer than the last notice comes, a check or   *)
(* an agent is paged for the first time once, and once more for each pass that *)
(* was cut short or rolled back, whatever is suppressed, snoozed, handed over, *)
(* stored late or heard from while the pass goes through its notices.          *)
THEOREM EpisodesPageOnce == Spec => []OnePagePerEpisode
<1>1. IInv => OnePagePerEpisode
  <2> SUFFICES ASSUME IInv, NEW s \in Subjects PROVE pages[s] <= 1 + faults
    BY DEF OnePagePerEpisode
  <2>1. pages[s] \in Nat /\ faults \in Nat
    BY DEF IInv, Types
  <2> QED
    BY <2>1 DEF IInv, Charged
<1> QED
  BY <1>1, AlwaysIInv, PTL

-----------------------------------------------------------------------------
(* The end of an episode.                                                      *)

CheckHeard == \E k \in Lateness : StoreResult(k)
AgentHeard == \E stopping \in BOOLEAN : Beat(Home, stopping)

(* An episode that was paged and has ended: the page is still the newest row.  *)
EndsEpisodes ==
    /\ CheckPaged /\ ~CheckPaged' => CheckHeard /\ row'.key = "silent" /\ row'.newer
    /\ AgentPaged /\ ~AgentPaged' => AgentHeard /\ arow'.key = "offline" /\ arow'.newer

(* A notice recorded over an open page is a resend of it.                      *)
LEMMA RecordEndsNone ==
    ASSUME IInv, NEW n \in notices, Record(n)
    PROVE  (CheckPaged => CheckPaged') /\ (AgentPaged => AgentPaged')
<1>0. n.about \in Subjects /\ n.count \in Nat
  BY DEF IInv, Types, Pending
<1>1. CASE n.about = Check
  <2>1. row' = Row(n.key, n.count) /\ arow' = arow
    BY <1>1 DEF Record
  <2>2. CheckPaged => n.key = "silent"
    BY <1>1 DEF IInv, Due, Open
  <2> QED
    BY <2>1, <2>2 DEF CheckPaged, AgentPaged, Row
<1>2. CASE n.about # Check
  <2>1. arow' = Row(n.key, n.count) /\ row' = row
    BY <1>2 DEF Record
  <2>2. AgentPaged => n.key = "offline"
    BY <1>2 DEF IInv, Due, Open
  <2> QED
    BY <2>1, <2>2 DEF CheckPaged, AgentPaged, Row
<1> QED
  BY <1>1, <1>2

LEMMA StepEndsEpisodes == ASSUME IInv, [Next]_vars PROVE EndsEpisodes
<1>t. row \in RowsOf(CheckKinds) /\ arow \in RowsOf(AgentKinds)
  BY DEF IInv, Types
<1>1. CASE UNCHANGED <<row, arow>>
  BY <1>1 DEF EndsEpisodes, CheckPaged, AgentPaged
<1>2. ASSUME NEW n \in notices, Record(n) PROVE EndsEpisodes
  BY <1>2, RecordEndsNone DEF EndsEpisodes
<1>3. ASSUME NEW a, NEW stopping \in BOOLEAN, Beat(a, stopping) PROVE EndsEpisodes
  <2>1. CASE a = Home
    <3>1. row' = row /\ arow' = [arow EXCEPT !.newer = (arow.key = "offline")]
      BY <1>3, <2>1 DEF Beat
    <3>2. AgentPaged => arow' = [arow EXCEPT !.newer = TRUE]
      <4> SUFFICES ASSUME arow.key = "offline"
                   PROVE  [arow EXCEPT !.newer = (arow.key = "offline")]
                            = [arow EXCEPT !.newer = TRUE]
        BY <3>1 DEF AgentPaged
      <4>1. (arow.key = "offline") = TRUE
        OBVIOUS
      <4> QED
        BY <4>1, Zenon
    <3>3. AgentPaged => arow'.key = "offline" /\ arow'.newer
      BY <1>t, <3>2 DEF AgentPaged, RowsOf
    <3>4. AgentHeard
      BY <1>3, <2>1 DEF AgentHeard
    <3>5. CheckPaged => CheckPaged'
      BY <3>1 DEF CheckPaged
    <3> QED
      BY <3>3, <3>4, <3>5 DEF EndsEpisodes
  <2>2. CASE a # Home
    BY <1>1, <1>3, <2>2 DEF Beat
  <2> QED
    BY <2>1, <2>2
<1>4. ASSUME NEW k \in Lateness, StoreResult(k) PROVE EndsEpisodes
  <2>1. arow' = arow
    BY <1>4 DEF StoreResult
  <2>2. \/ row' = row
        \/ row' = [row EXCEPT !.newer = (row.key \in Silences)]
    BY <1>4 DEF StoreResult
  <2>3. CheckPaged /\ ~CheckPaged' => row'.key = "silent" /\ row'.newer
    <3> SUFFICES ASSUME CheckPaged, row' # row PROVE row'.key = "silent" /\ row'.newer
      BY DEF CheckPaged
    <3>1. (row.key \in Silences) = TRUE
      BY DEF CheckPaged, Silences
    <3>2. row' = [row EXCEPT !.newer = TRUE]
      BY <2>2, <3>1, Zenon
    <3> QED
      BY <1>t, <3>2 DEF CheckPaged, RowsOf
  <2>4. CheckHeard
    BY <1>4 DEF CheckHeard
  <2> QED
    BY <2>1, <2>3, <2>4 DEF EndsEpisodes, AgentPaged
<1>5. CASE Tick
  <2>1. row'.key = row.key /\ row'.newer = row.newer
    BY <1>5, <1>t DEF Tick, RowsOf
  <2>2. arow'.key = arow.key /\ arow'.newer = arow.newer
    BY <1>5, <1>t DEF Tick, RowsOf
  <2> QED
    BY <2>1, <2>2 DEF EndsEpisodes, CheckPaged, AgentPaged
<1>6. CASE Decide \/ CutShort \/ Snooze \/ \E n \in notices : RollBack(n)
  BY <1>1, <1>6 DEF Decide, CutShort, Snooze, RollBack
<1> QED
  BY <1>1, <1>2, <1>3, <1>4, <1>5, <1>6 DEF Next, vars

(* _episode_open, _record: an episode that was paged ends when a result of the *)
(* check, or a heartbeat of the agent, newer than the page comes, and never by *)
(* a suppressed silence, a snooze, a recovery or a pass that decided earlier.  *)
THEOREM DataEndsEpisodes == Spec => [][EndsEpisodes]_vars
<1>1. IInv /\ [Next]_vars => [EndsEpisodes]_vars
  BY StepEndsEpisodes
<1> QED
  BY <1>1, AlwaysIInv, PTL DEF Spec

-----------------------------------------------------------------------------
(* The resends.                                                                *)

(* What a pass is about to record is within the limit as well.                 *)
ResendInv ==
    MaxResends # Never =>
        /\ row.count <= MaxResends /\ arow.count <= MaxResends
        /\ \A n \in notices : n.count <= MaxResends

ResendsWithin ==
    MaxResends # Never => row.count <= MaxResends /\ arow.count <= MaxResends

(* resend_decision.                                                            *)
LEMMA ResentWithin ==
    ASSUME MaxResends # Never, NEW s, NEW r, r.count \in Nat, NEW n \in Resent(s, r)
    PROVE  n.count <= MaxResends
<1>1. n = Notice(s, r.key, r.count + 1) /\ ~(r.count + 1 > MaxResends)
  BY DEF Resent
<1>2. n.count = r.count + 1
  BY <1>1 DEF Notice
<1>3. MaxResends \in Nat
  BY TimesAssumption
<1> QED
  BY <1>1, <1>2, <1>3

LEMMA DecidedWithin ==
    ASSUME MaxResends # Never, Types, NEW n \in DecideNoData \cup DecideAgentOffline
    PROVE  n.count <= MaxResends
<1>1. row.count \in Nat /\ arow.count \in Nat
  BY DEF Types, RowsOf
<1>2. \/ n \in Resent(Check, row) \/ n \in Resent(Home, arow)
      \/ \E s \in Subjects, k \in CheckKinds \cup AgentKinds : n = Notice(s, k, 0)
  BY DEF DecideNoData, DecideAgentOffline, Subjects, CheckKinds, AgentKinds
<1>3. MaxResends \in Nat
  BY TimesAssumption
<1>4. CASE \E s \in Subjects, k \in CheckKinds \cup AgentKinds : n = Notice(s, k, 0)
  <2>1. n.count = 0
    BY <1>4 DEF Notice
  <2> QED
    BY <1>3, <2>1
<1> QED
  BY <1>1, <1>2, <1>4, ResentWithin

LEMMA StepResends == ASSUME IInv, ResendInv, [Next]_vars PROVE ResendInv'
<1> SUFFICES ASSUME MaxResends # Never
             PROVE  /\ row'.count <= MaxResends /\ arow'.count <= MaxResends
                    /\ \A n \in notices' : n.count <= MaxResends
  BY DEF ResendInv
<1>0. /\ row.count <= MaxResends /\ arow.count <= MaxResends
      /\ \A n \in notices : n.count <= MaxResends
  BY DEF ResendInv
<1>t. row \in RowsOf(CheckKinds) /\ arow \in RowsOf(AgentKinds) /\ Types
  BY DEF IInv, Types
<1>1. CASE Decide
  BY <1>0, <1>1, <1>t, DecidedWithin DEF Decide
<1>2. ASSUME NEW n \in notices, Record(n)
      PROVE  /\ row'.count <= MaxResends /\ arow'.count <= MaxResends
             /\ \A m \in notices' : m.count <= MaxResends
  BY <1>0, <1>2 DEF Record, Row
<1>3. CASE \/ CutShort \/ \E n \in notices : RollBack(n)
  BY <1>0, <1>3 DEF CutShort, RollBack
<1>4. CASE \/ Tick \/ \E k \in Lateness : StoreResult(k)
           \/ \E a \in Pool, stopping \in BOOLEAN : Beat(a, stopping)
           \/ Snooze \/ UNCHANGED vars
  <2>1. notices' = notices
    BY <1>4 DEF Tick, StoreResult, Beat, Snooze, vars
  <2>2. row'.count = row.count
    BY <1>4, <1>t DEF Tick, StoreResult, Beat, Snooze, vars, RowsOf
  <2>3. arow'.count = arow.count
    BY <1>4, <1>t DEF Tick, StoreResult, Beat, Snooze, vars, RowsOf
  <2> QED
    BY <1>0, <2>1, <2>2, <2>3
<1> QED
  BY <1>1, <1>2, <1>3, <1>4 DEF Next

(* resend_decision: no page is resent more than max_resends times, although a  *)
(* pass records what it decided from a count it read before all its notices.   *)
THEOREM ResendsStayWithin == Spec => []ResendsWithin
<1>1. Init => ResendInv
  <2>1. MaxResends # Never => MaxResends \in Nat
    BY TimesAssumption
  <2> QED
    BY <2>1 DEF Init, ResendInv, Row
<1>2. IInv /\ ResendInv /\ [Next]_vars => ResendInv'
  BY StepResends
<1>3. ResendInv => ResendsWithin
  BY DEF ResendInv, ResendsWithin
<1> QED
  BY <1>1, <1>2, <1>3, AlwaysIInv, PTL DEF Spec
=============================================================================
