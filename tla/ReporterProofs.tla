--------------------------- MODULE ReporterProofs ---------------------------
(* Theorems about Reporter for every value of its constants: type correctness, *)
(* that it implements StoreAndForward, and its safety properties.              *)
(* TypeOK alone is not inductive: that a flush at a given await has one batch  *)
(* in hand, that a replay past a combined POST has one row, and that stop()'s  *)
(* own flush only stores, are what its steps rely on.                          *)
EXTENDS Reporter, TLAPS, FiniteSetTheorems, SequenceTheorems

\* The elements of a concatenation (`untried + refused` in _send_in_parts).
LEMMA RangeConcat ==
    ASSUME NEW S, NEW a \in Seq(S), NEW b \in Seq(S)
    PROVE  a \o b \in Seq(S) /\ Range(a \o b) = Range(a) \cup Range(b)
  <1>1. a \o b \in Seq(S)
    OBVIOUS
  <1>2. ASSUME NEW x \in Range(a) PROVE x \in Range(a \o b)
    <2>1. PICK i \in DOMAIN a : x = a[i]
      BY DEF Range
    <2>2. i \in DOMAIN (a \o b) /\ (a \o b)[i] = x
      BY <2>1
    <2> QED BY <2>2 DEF Range
  <1>3. ASSUME NEW x \in Range(b) PROVE x \in Range(a \o b)
    <2>1. PICK i \in DOMAIN b : x = b[i]
      BY DEF Range
    <2>2. Len(a) + i \in DOMAIN (a \o b) /\ (a \o b)[Len(a) + i] = x
      BY <2>1
    <2> QED BY <2>2 DEF Range
  <1>4. ASSUME NEW x \in Range(a \o b) PROVE x \in Range(a) \cup Range(b)
    <2>1. PICK i \in DOMAIN (a \o b) : x = (a \o b)[i]
      BY DEF Range
    <2>2. CASE i <= Len(a)
      BY <2>1, <2>2 DEF Range
    <2>3. CASE i > Len(a)
      <3>1. i - Len(a) \in DOMAIN b /\ x = b[i - Len(a)]
        BY <2>1, <2>3
      <3> QED BY <3>1 DEF Range
    <2> QED BY <2>1, <2>2, <2>3
  <1> QED BY <1>1, <1>2, <1>3, <1>4

\* The elements of a sequence over S are in S.
LEMMA RangeType ==
    ASSUME NEW S, NEW s \in Seq(S)
    PROVE  Range(s) \subseteq S
  BY DEF Range

\* The elements of a slice.
LEMMA SubSeqRange ==
    ASSUME NEW S, NEW s \in Seq(S), NEW m \in Nat, m >= 1, NEW n \in Nat, n <= Len(s)
    PROVE  /\ SubSeq(s, m, n) \in Seq(S)
           /\ \A x : x \in Range(SubSeq(s, m, n)) <=> \E i \in m..n : x = s[i]
  <1>1. SubSeq(s, m, n) \in Seq(S)
    BY SubSeqProperties
  <1>2. \A i \in DOMAIN SubSeq(s, m, n) : SubSeq(s, m, n)[i] = s[i + m - 1] /\ i + m - 1 \in m..n
    BY SubSeqProperties
  <1>3. \A j \in m..n : j - m + 1 \in DOMAIN SubSeq(s, m, n) /\ SubSeq(s, m, n)[j - m + 1] = s[j]
    BY SubSeqProperties
  <1>4. ASSUME NEW x \in Range(SubSeq(s, m, n)) PROVE \E i \in m..n : x = s[i]
    <2>1. PICK i \in DOMAIN SubSeq(s, m, n) : x = SubSeq(s, m, n)[i]
      BY DEF Range
    <2> QED BY <2>1, <1>2
  <1>5. ASSUME NEW x, NEW j \in m..n, x = s[j] PROVE x \in Range(SubSeq(s, m, n))
    <2>2. j - m + 1 \in DOMAIN SubSeq(s, m, n) /\ x = SubSeq(s, m, n)[j - m + 1]
      BY <1>3, <1>5
    <2> QED BY <2>2 DEF Range
  <1> QED BY <1>1, <1>4, <1>5

\* Range, spelled out by positions.
LEMMA RangeIs ==
    ASSUME NEW S, NEW s \in Seq(S)
    PROVE  \A x : x \in Range(s) <=> \E i \in 1..Len(s) : x = s[i]
  BY DEF Range

\* Trimming the batch to its newest results (add_result) invents none.
LEMMA NewestProperties ==
    ASSUME NEW S, NEW s \in Seq(S), NEW n \in Nat
    PROVE  Newest(s, n) \in Seq(S) /\ Range(Newest(s, n)) \subseteq Range(s)
  <1>1. CASE Len(s) <= n
    BY <1>1 DEF Newest
  <1>2. CASE Len(s) > n
    <2> DEFINE m == Len(s) - n + 1
               u == SubSeq(s, m, Len(s))
    <2>1. Newest(s, n) = u
      BY <1>2 DEF Newest
    <2>2. m \in Nat /\ m >= 1 /\ Len(s) <= Len(s) /\ Len(s) \in Nat
      BY <1>2
    <2> HIDE DEF m
    <2>3. u \in Seq(S) /\ \A x : x \in Range(u) <=> \E i \in m..Len(s) : x = s[i]
      BY <2>2, SubSeqRange
    <2>4. \A i \in m..Len(s) : i \in 1..Len(s)
      BY <2>2
    <2> QED BY <2>1, <2>3, <2>4, RangeIs
  <1> QED BY <1>1, <1>2

\* The two halves of a batch (_halves) hold its results and no others.
LEMMA HalvesProperties ==
    ASSUME NEW S, NEW s \in Seq(S)
    PROVE  Halves(s) \in Seq(Seq(S)) /\ Letters(Halves(s)) = Range(s)
  <1> DEFINE m == Len(s) \div 2
             a == SubSeq(s, 1, m)
             b == SubSeq(s, m + 1, Len(s))
  <1>0. Halves(s) = <<a, b>>
    BY DEF Halves
  <1>1. m \in Nat /\ m <= Len(s) /\ Len(s) \in Nat /\ Len(s) <= Len(s)
        /\ m + 1 \in Nat /\ m + 1 >= 1 /\ 1 \in Nat /\ 1 >= 1
    OBVIOUS
  <1> HIDE DEF m
  <1>2. a \in Seq(S) /\ \A x : x \in Range(a) <=> \E i \in 1..m : x = s[i]
    BY <1>1, SubSeqRange
  <1>3. b \in Seq(S) /\ \A x : x \in Range(b) <=> \E i \in (m + 1)..Len(s) : x = s[i]
    BY <1>1, SubSeqRange
  <1>4. \A i : i \in 1..Len(s) <=> i \in 1..m \/ i \in (m + 1)..Len(s)
    BY <1>1
  <1> HIDE DEF a, b
  <1>5. Range(a) \cup Range(b) = Range(s)
    BY <1>2, <1>3, <1>4, RangeIs
  <1>6. Letters(<<a, b>>) = Range(a) \cup Range(b)
    <2> DEFINE d == <<a, b>>
    <2>1. DOMAIN d = {1, 2} /\ d[1] = a /\ d[2] = b
      OBVIOUS
    <2> HIDE DEF d
    <2>2. \A x : x \in Letters(d) <=> \E i \in DOMAIN d : x \in Range(d[i])
      BY DEF Letters
    <2>3. Letters(d) = Range(a) \cup Range(b)
      BY <2>1, <2>2
    <2> QED BY <2>3 DEF d
  <1>7. <<a, b>> \in Seq(Seq(S))
    BY <1>2, <1>3
  <1> QED BY <1>0, <1>5, <1>6, <1>7

\* Taking the first part off the work list of _send_in_parts.
LEMMA LettersPop ==
    ASSUME NEW S, NEW w \in Seq(Seq(S)), w # <<>>
    PROVE  /\ Head(w) \in Seq(S) /\ Tail(w) \in Seq(Seq(S))
           /\ Letters(w) = Range(Head(w)) \cup Letters(Tail(w))
  <1>1. Head(w) \in Seq(S) /\ Tail(w) \in Seq(Seq(S))
    OBVIOUS
  <1>2. \A i \in DOMAIN Tail(w) : Tail(w)[i] = w[i + 1] /\ i + 1 \in DOMAIN w
    OBVIOUS
  <1>3. \A i \in DOMAIN w : i = 1 \/ (i - 1 \in DOMAIN Tail(w) /\ Tail(w)[i - 1] = w[i])
    OBVIOUS
  <1>4. 1 \in DOMAIN w /\ Head(w) = w[1]
    OBVIOUS
  <1>5. Letters(w) \subseteq Range(Head(w)) \cup Letters(Tail(w))
    BY <1>3, <1>4 DEF Letters
  <1>6. Range(Head(w)) \cup Letters(Tail(w)) \subseteq Letters(w)
    <2>1. Range(Head(w)) \subseteq Letters(w)
      BY <1>4 DEF Letters
    <2>2. ASSUME NEW x \in Letters(Tail(w)) PROVE x \in Letters(w)
      <3>1. PICK i \in DOMAIN Tail(w) : x \in Range(Tail(w)[i])
        BY DEF Letters
      <3>2. i + 1 \in DOMAIN w /\ x \in Range(w[i + 1])
        BY <3>1, <1>2
      <3> QED BY <3>2 DEF Letters
    <2> QED BY <2>1, <2>2
  <1> QED BY <1>1, <1>5, <1>6

\* Putting the halves of a part back in front of the work list.
LEMMA LettersConcat ==
    ASSUME NEW S, NEW v \in Seq(Seq(S)), NEW w \in Seq(Seq(S))
    PROVE  v \o w \in Seq(Seq(S)) /\ Letters(v \o w) = Letters(v) \cup Letters(w)
  <1>1. ASSUME NEW d \in Seq(Seq(S)), NEW x
        PROVE  x \in Letters(d) <=> \E e \in Range(d) : x \in Range(e)
    <2>1. x \in Letters(d) <=> \E i \in DOMAIN d : x \in Range(d[i])
      BY DEF Letters
    <2>2. \A e : e \in Range(d) <=> \E i \in DOMAIN d : e = d[i]
      BY DEF Range
    <2> QED BY <2>1, <2>2
  <1>2. v \o w \in Seq(Seq(S)) /\ Range(v \o w) = Range(v) \cup Range(w)
    BY RangeConcat
  <1> QED BY <1>1, <1>2

\* The results of a list of batches over S are in S.
LEMMA LettersType ==
    ASSUME NEW S, NEW d \in Seq(Seq(S))
    PROVE  Letters(d) \subseteq S
  BY DEF Letters, Range

-----------------------------------------------------------------------------
(* Type correctness.                                                           *)

\* A flush that is about to send or store has one batch in hand, and a replay
\* that is past a combined POST has one row.
OneInHand ==
    /\ \A t \in Storers : pc[t] \in {"post", "sleep", "dead", "store"} =>
           \E c \in Seq(Results) : group[t] = {[id |-> 0, checks |-> c]}
    /\ pc[Replay] \in {"parts", "post_part", "sleep_part", "dead_part", "rewrite", "move"} =>
           \E r \in Row : group[Replay] = {r}

\* A request is in flight only while attempts are left, and the count is back
\* at zero whenever no POST is at work.
Attempts ==
    \A t \in Tasks :
        /\ pc[t] \in {"post", "post_part"} => att[t] < MaxRetries
        /\ pc[t] \notin {"post", "post_part", "sleep", "sleep_part"} => att[t] = 0

TypeInv == TypeOK /\ OneInHand /\ Attempts

\* stop()'s own flush only stores, and only while stop() is at work.
StopperShape ==
    /\ pc[Stopper] \in {"idle", "store", "count", "prune"}
    /\ phase # "stopping" => pc[Stopper] = "idle"

\* The replay is no storer, and stop() is one.
LEMMA TaskFacts ==
    /\ Replay \in Tasks /\ Stopper \in Tasks /\ Stopper \in Storers
    /\ Replay \notin Storers /\ Storers \subseteq Tasks /\ Flushers \subseteq Storers
    /\ Tasks = Storers \cup {Replay}
  BY ReporterConstants DEF Tasks, Storers, Replay, Stopper

\* The locals of _send_in_parts before it is called are well typed.
LEMMA NoSplitType == NoSplit \in Splits
  BY DEF NoSplit, Splits

\* Only picks the element of a singleton.
LEMMA OnlyOfOne ==
    ASSUME NEW r PROVE Only({r}) = r
  BY DEF Only

\* The locals of _send_in_parts, field by field.
LEMMA SplitFields ==
    ASSUME TypeOK, NEW t \in Tasks
    PROVE  /\ split[t] \in Splits
           /\ split[t].work \in Seq(Seq(Results)) /\ split[t].part \in Seq(Results)
           /\ split[t].untried \in Seq(Results) /\ split[t].refused \in Seq(Results)
           /\ split[t].sent \in BOOLEAN /\ split[t].stop \in {"none", "too_large", "transient"}
           /\ Unsent(t) \in Seq(Results)
           /\ Range(Unsent(t)) = Range(split[t].untried) \cup Range(split[t].refused)
  <1>1. split[t] \in Splits
    BY DEF TypeOK
  <1>2. /\ split[t].work \in Seq(Seq(Results)) /\ split[t].part \in Seq(Results)
        /\ split[t].untried \in Seq(Results) /\ split[t].refused \in Seq(Results)
        /\ split[t].sent \in BOOLEAN /\ split[t].stop \in {"none", "too_large", "transient"}
    BY <1>1 DEF Splits
  <1> QED BY <1>1, <1>2, RangeConcat DEF Unsent

\* A flush moves to one of its own program points.
LEMMA StorerMoves ==
    ASSUME TypeOK, NEW t \in Storers, NEW v \in StorerPCs, pc' = [pc EXCEPT ![t] = v]
    PROVE  /\ pc' \in [Tasks -> StorerPCs \cup ReplayPCs] /\ pc'[Replay] \in ReplayPCs
           /\ pc'[Replay] = pc[Replay] /\ \A u \in Storers : pc'[u] \in StorerPCs
           /\ \A u \in Tasks \ {t} : pc'[u] = pc[u]
           /\ pc'[t] = v
  BY TaskFacts DEF TypeOK

\* The replay moves to one of its own program points.
LEMMA ReplayMoves ==
    ASSUME TypeOK, NEW v \in ReplayPCs, pc' = [pc EXCEPT ![Replay] = v]
    PROVE  /\ pc' \in [Tasks -> StorerPCs \cup ReplayPCs] /\ pc'[Replay] \in ReplayPCs
           /\ \A u \in Storers : pc'[u] \in StorerPCs /\ pc'[u] = pc[u]
           /\ pc'[Replay] = v
  BY TaskFacts DEF TypeOK

\* Rows hold results.
LEMMA ContentsType ==
    ASSUME NEW rows, rows \subseteq Row
    PROVE  Contents(rows) \subseteq Results
  <1>1. ASSUME NEW x \in Contents(rows) PROVE x \in Results
    <2>1. PICK r \in rows : x \in Range(r.checks)
      BY DEF Contents
    <2>2. r.checks \in Seq(Results)
      BY DEF Row
    <2> QED BY <2>1, <2>2, RangeType
  <1> QED BY <1>1

\* A request carries results.
LEMMA PayloadType ==
    ASSUME TypeOK, NEW t \in Tasks
    PROVE  Payload(t) \subseteq Results
  <1>1. group[t] \subseteq Row
    BY DEF TypeOK
  <1> QED BY <1>1, ContentsType, SplitFields, RangeType DEF Payload

\* A task has results in its hands.
LEMMA InHandType ==
    ASSUME TypeOK, NEW t \in Tasks
    PROVE  InHand(t) \subseteq Results
  <1>1. group[t] \subseteq Row
    BY DEF TypeOK
  <1>2. Letters(split[t].work) \subseteq Results
    BY SplitFields, LettersType
  <1> QED BY <1>1, <1>2, ContentsType, SplitFields, RangeType DEF InHand

\* Giving results up keeps the ledger of losses well typed.
LEMMA DropType ==
    ASSUME TypeOK, NEW why \in Losses, NEW S, S \subseteq Results, Drop(why, S)
    PROVE  lost' \in [Losses -> SUBSET Results]
  BY DEF TypeOK, Drop

\* ORDER BY created_at LIMIT k of a finite table is finite.
LEMMA OldestFinite ==
    ASSUME NEW rows, IsFiniteSet(rows), NEW k
    PROVE  Oldest(rows, k) \subseteq rows /\ IsFiniteSet(Oldest(rows, k))
  BY FS_Subset DEF Oldest

\* The state before start() is well typed.
LEMMA TypeInit == Init => TypeInv
  <1> SUFFICES ASSUME Init PROVE TypeInv
    OBVIOUS
  <1>1. IsFiniteSet({})
    BY FS_EmptySet
  <1>2. TypeOK
    BY <1>1, ReporterConstants, NoSplitType, TaskFacts DEF Init, TypeOK, StorerPCs, ReplayPCs
  <1>3. OneInHand
    BY TaskFacts DEF Init, OneInHand
  <1>4. Attempts
    BY ReporterConstants DEF Init, Attempts
  <1> QED BY <1>2, <1>3, <1>4 DEF TypeInv

\* Start keeps the type invariant.
LEMMA TypeStart ==
    ASSUME TypeInv, Start PROVE TypeInv'
  BY DEF TypeInv, TypeOK, OneInHand, Attempts, Start, memory, tables, bounds

\* AddResult keeps the type invariant.
LEMMA TypeAddResult ==
    ASSUME TypeInv, NEW kind \in Kinds, AddResult(kind) PROVE TypeInv'
  <1> DEFINE kept == IF Len(batch) >= MaxQueue THEN Newest(batch, MaxQueue - 1) ELSE batch
  <1>1. batch \in Seq(Results) /\ made \in Seq(Kinds) /\ Len(made) < MaxResults
    BY DEF TypeInv, TypeOK, AddResult
  <1>2. kept \in Seq(Results)
    BY <1>1, NewestProperties, ReporterConstants
  <1>3. batch' \in Seq(Results) /\ made' \in Seq(Kinds) /\ Len(made') <= MaxResults
    <2>1. Len(made) + 1 \in Results
      BY <1>1, ReporterConstants DEF Results
    <2>2. batch' = Append(kept, Len(made) + 1) /\ made' = Append(made, kind)
      BY DEF AddResult
    <2> QED BY <1>1, <1>2, <2>1, <2>2, ReporterConstants
  <1>4. lost' \in [Losses -> SUBSET Results]
    <2>1. Range(batch) \ Range(kept) \subseteq Results
      BY <1>1, RangeType
    <2>2. Drop("queue", Range(batch) \ Range(kept)) /\ "queue" \in Losses
      BY DEF AddResult, Losses
    <2> QED BY <2>1, <2>2, DropType DEF TypeInv
  <1> QED BY <1>3, <1>4 DEF TypeInv, TypeOK, OneInHand, Attempts, AddResult, tables, bounds

\* Flush keeps the type invariant.
LEMMA TypeFlush ==
    ASSUME TypeInv, NEW t \in Flushers, Flush(t) PROVE TypeInv'
  <1>1. t \in Storers /\ t \in Tasks /\ t # Replay
    BY TaskFacts
  <1>2. batch \in Seq(Results)
    BY DEF TypeInv, TypeOK
  <1>3. [id |-> 0, checks |-> batch] \in Row
    BY <1>2 DEF Row
  <1>4. TypeOK'
    <2>1. pc \in [Tasks -> StorerPCs \cup ReplayPCs] /\ group \in [Tasks -> SUBSET Row]
      BY DEF TypeInv, TypeOK
    <2>2. /\ pc' \in [Tasks -> StorerPCs \cup ReplayPCs]
          /\ pc'[Replay] = pc[Replay]
          /\ \A u \in Storers : pc'[u] = pc[u] \/ pc'[u] = "post"
      BY <1>1, <2>1, TaskFacts DEF Flush, StorerPCs
    <2>3. group' \in [Tasks -> SUBSET Row] /\ group'[Replay] = group[Replay]
      BY <1>1, <1>3, <2>1, TaskFacts DEF Flush
    <2>4. batch' \in Seq(Results)
      BY DEF Flush
    <2> QED BY <2>2, <2>3, <2>4 DEF TypeInv, TypeOK, Flush, tables, bounds, StorerPCs
  <1>5. OneInHand'
    BY <1>1, <1>2, TaskFacts DEF TypeInv, TypeOK, OneInHand, Flush
  <1>6. Attempts'
    BY <1>1, ReporterConstants DEF TypeInv, TypeOK, Attempts, Flush
  <1> QED BY <1>4, <1>5, <1>6 DEF TypeInv

\* An answer to a POST changes only what the server has received.
LEMMA AnswerType ==
    ASSUME TypeOK, NEW t \in Tasks, NEW out, Answer(t, out)
    PROVE  /\ pc[t] \in {"post", "post_part"}
           /\ received' \subseteq Results /\ faults' \in 0..MaxFaults
  BY PayloadType, ReporterConstants DEF TypeOK, Answer

\* PostFails keeps the type invariant.
LEMMA TypePostFails ==
    ASSUME TypeInv, NEW t \in Tasks, PostFails(t) PROVE TypeInv'
  <1>1. TypeOK /\ Answer(t, "transient")
    BY DEF TypeInv, PostFails
  <1>2. pc[t] \in {"post", "post_part"} /\ received' \subseteq Results /\ faults' \in 0..MaxFaults
    BY <1>1, AnswerType
  <1>3. pc' = [pc EXCEPT ![t] = IF @ = "post" THEN "sleep" ELSE "sleep_part"]
        /\ pc[t] \in StorerPCs \cap ReplayPCs
    BY <1>2 DEF PostFails, StorerPCs, ReplayPCs
  <1>4. att' \in [Tasks -> 0..MaxRetries]
    <2>1. att[t] \in 0..MaxRetries /\ att' = [att EXCEPT ![t] = @ + 1] /\ att \in [Tasks -> 0..MaxRetries]
      BY DEF TypeInv, TypeOK, PostFails
    <2>2. att[t] < MaxRetries
      BY <1>2 DEF TypeInv, Attempts
    <2> QED BY <2>1, <2>2, ReporterConstants
  <1>5. TypeOK'
    BY <1>2, <1>3, <1>4, TaskFacts
       DEF TypeInv, TypeOK, PostFails, tables, StorerPCs, ReplayPCs
  <1>6. OneInHand'
    BY <1>2, <1>3, TaskFacts DEF TypeInv, TypeOK, OneInHand, PostFails
  <1>7. Attempts'
    BY <1>2, <1>3 DEF TypeInv, TypeOK, Attempts, PostFails
  <1> QED BY <1>5, <1>6, <1>7 DEF TypeInv

\* PostAgain keeps the type invariant.
LEMMA TypePostAgain ==
    ASSUME TypeInv, NEW t \in Tasks, PostAgain(t) PROVE TypeInv'
  <1>1. pc[t] \in {"sleep", "sleep_part"} /\ att[t] < MaxRetries
        /\ pc' = [pc EXCEPT ![t] = IF @ = "sleep" THEN "post" ELSE "post_part"]
    BY DEF PostAgain
  <1>2. TypeOK'
    BY <1>1, TaskFacts
       DEF TypeInv, TypeOK, PostAgain, tables, bounds, StorerPCs, ReplayPCs
  <1>3. OneInHand'
    BY <1>1, TaskFacts DEF TypeInv, TypeOK, OneInHand, PostAgain
  <1>4. Attempts'
    BY <1>1 DEF TypeInv, TypeOK, Attempts, PostAgain
  <1> QED BY <1>2, <1>3, <1>4 DEF TypeInv

\* What is common to every way _post_batch returns.
LEMMA PostReturnsType ==
    ASSUME TypeInv, NEW t \in Tasks, NEW out \in Outcomes, PostReturns(t, out)
    PROVE  /\ pc[t] \in {"post", "post_part", "sleep", "sleep_part"}
           /\ received' \subseteq Results /\ faults' \in 0..MaxFaults
           /\ att' \in [Tasks -> 0..MaxRetries] /\ att'[t] = 0
           /\ \A u \in Tasks \ {t} : att'[u] = att[u]
  <1>1. TypeOK
    BY DEF TypeInv
  <1>2. att' = [att EXCEPT ![t] = 0] /\ att \in [Tasks -> 0..MaxRetries]
    BY <1>1 DEF PostReturns, TypeOK
  <1>3. CASE Answer(t, out)
    BY <1>1, <1>2, <1>3, AnswerType, ReporterConstants
  <1>4. CASE pc[t] \in {"sleep", "sleep_part"} /\ UNCHANGED <<received, faults>>
    BY <1>1, <1>2, <1>4, ReporterConstants DEF TypeOK
  <1> QED BY <1>3, <1>4 DEF PostReturns

\* The head of _send_in_parts leaves a well-typed split.
LEMMA StartPartsType ==
    ASSUME TypeOK, NEW t \in Tasks, NEW checks \in Seq(Results), StartParts(t, checks)
    PROVE  split' \in [Tasks -> Splits] /\ pc' = [pc EXCEPT ![t] = "parts"]
  <1>1. Halves(checks) \in Seq(Seq(Results))
    BY HalvesProperties
  <1>2. [NoSplit EXCEPT !.work = Halves(checks)] \in Splits
    <2> DEFINE w == Halves(checks)
    <2>1. w \in Seq(Seq(Results))
      BY <1>1
    <2> HIDE DEF w
    <2>2. ASSUME NEW s \in Splits PROVE [s EXCEPT !.work = w] \in Splits
      BY <2>1 DEF Splits
    <2>3. [NoSplit EXCEPT !.work = w] \in Splits
      BY <2>2, NoSplitType
    <2> QED BY <2>3 DEF w
  <1> QED BY <1>2 DEF TypeOK, StartParts

\* Deliver keeps the type invariant.
LEMMA TypeDeliver ==
    ASSUME TypeInv, NEW t \in Tasks, Deliver(t) PROVE TypeInv'
  <1>1. PICK out \in Outcomes : Deliver(t)!(out)
    BY DEF Deliver
  <1>2. t \in Storers /\ PostReturns(t, out) /\ ~InPart(t) /\ t # Replay
        /\ UNCHANGED <<held, excess, todo, solo>>
    BY <1>1, TaskFacts
  <1>3. pc[t] \in {"post", "sleep"}
    BY <1>2, PostReturnsType DEF InPart
  <1>4. PICK c \in Seq(Results) : group[t] = {[id |-> 0, checks |-> c]}
    BY <1>2, <1>3 DEF TypeInv, OneInHand
  <1>5. Only(group[t]).checks = c
    <2>1. Only(group[t]) = [id |-> 0, checks |-> c]
      BY <1>4, OnlyOfOne
    <2> QED BY <2>1
  <1>6. /\ pc' \in [Tasks -> StorerPCs \cup ReplayPCs]
        /\ pc'[t] \in {"idle", "dead", "store", "parts"}
        /\ \A u \in Tasks \ {t} : pc'[u] = pc[u]
        /\ split' \in [Tasks -> Splits]
        /\ group' = group \/ (group' = [group EXCEPT ![t] = {}] /\ pc'[t] = "idle")
    BY <1>1, <1>2, <1>5, StartPartsType DEF TypeInv, TypeOK, StorerPCs
  <1>7. TypeOK'
    BY <1>2, <1>6, PostReturnsType, TaskFacts
       DEF TypeInv, TypeOK, PostReturns, tables, StorerPCs
  <1>8. OneInHand'
    <2>1. \A u \in Tasks \ {t} : group'[u] = group[u] /\ pc'[u] = pc[u]
      BY <1>6 DEF TypeInv, TypeOK
    <2>2. pc'[t] = "idle" \/ group'[t] = {[id |-> 0, checks |-> c]}
      BY <1>4, <1>6
    <2> QED BY <1>2, <1>6, <2>1, <2>2, TaskFacts DEF TypeInv, OneInHand
  <1>9. Attempts'
    BY <1>2, <1>6, PostReturnsType DEF TypeInv, TypeOK, Attempts
  <1> QED BY <1>7, <1>8, <1>9 DEF TypeInv

\* NextPart keeps the type invariant.
LEMMA TypeNextPart ==
    ASSUME TypeInv, NEW t \in Tasks, NextPart(t) PROVE TypeInv'
  <1> DEFINE s == split[t]
  <1>1. TypeOK /\ pc[t] = "parts" /\ s.work # <<>>
    BY DEF TypeInv, NextPart
  <1>2. s \in Splits /\ s.untried \in Seq(Results)
        /\ Head(s.work) \in Seq(Results) /\ Tail(s.work) \in Seq(Seq(Results))
    BY <1>1, SplitFields, LettersPop
  <1>3. s.untried \o Head(s.work) \in Seq(Results)
    BY <1>2
  <1>4. split' \in [Tasks -> Splits]
    <2> DEFINE rest == [s EXCEPT !.work = Tail(@)]
    <2>1. rest \in Splits
      BY <1>2 DEF Splits
    <2>2. rest.untried = s.untried
      BY <1>2 DEF Splits
    <2>3. [rest EXCEPT !.part = Head(s.work)] \in Splits
          /\ [rest EXCEPT !.untried = @ \o Head(s.work)] \in Splits
          /\ [rest EXCEPT !.untried = @ \o Head(s.work), !.stop = "transient"] \in Splits
      <3> HIDE DEF rest
      <3> QED BY <2>1, <2>2, <1>2, <1>3 DEF Splits
    <2>4. split \in [Tasks -> Splits]
      BY <1>1 DEF TypeOK
    <2> QED BY <2>3, <2>4 DEF NextPart
  <1>5. pc' = pc \/ pc' = [pc EXCEPT ![t] = "post_part"]
    BY DEF NextPart
  <1>6. TypeOK'
    BY <1>1, <1>4, <1>5, TaskFacts DEF TypeOK, NextPart, tables, bounds, StorerPCs, ReplayPCs
  <1>7. OneInHand'
    BY <1>1, <1>5, TaskFacts DEF TypeInv, TypeOK, OneInHand, NextPart
  <1>8. Attempts'
    <2>1. att' = att /\ att[t] = 0 /\ att[t] < MaxRetries
      BY <1>1, ReporterConstants DEF TypeInv, Attempts, NextPart
    <2> QED BY <1>1, <1>5, <2>1 DEF TypeInv, TypeOK, Attempts
  <1> QED BY <1>6, <1>7, <1>8 DEF TypeInv

\* Resetting the locals of a part leaves them well typed.
LEMMA PartDoneType ==
    ASSUME TypeOK, NEW t \in Tasks, NEW s \in Splits, PartDone(t, s)
    PROVE  split' \in [Tasks -> Splits] /\ pc' = [pc EXCEPT ![t] = "parts"]
  <1>1. [s EXCEPT !.part = <<>>] \in Splits
    <2>1. ASSUME NEW e \in Seq(Results) PROVE [s EXCEPT !.part = e] \in Splits
      BY DEF Splits
    <2>2. <<>> \in Seq(Results)
      OBVIOUS
    <2> QED BY <2>1, <2>2
  <1> QED BY <1>1 DEF TypeOK, PartDone

\* PartAnswered keeps the type invariant.
LEMMA TypePartAnswered ==
    ASSUME TypeInv, NEW t \in Tasks, PartAnswered(t) PROVE TypeInv'
  <1> DEFINE s == split[t]
  <1>1. PICK out \in Outcomes : PartAnswered(t)!(out)
    BY DEF PartAnswered
  <1>2. TypeOK /\ PostReturns(t, out) /\ InPart(t) /\ UNCHANGED <<held, group, excess, todo, solo>>
    BY <1>1 DEF TypeInv
  <1>3. pc[t] \in {"post_part", "sleep_part"}
    BY <1>2, PostReturnsType DEF InPart
  <1>4. s \in Splits /\ s.part \in Seq(Results) /\ s.work \in Seq(Seq(Results))
        /\ s.untried \o s.part \in Seq(Results) /\ s.refused \o s.part \in Seq(Results)
        /\ Halves(s.part) \o s.work \in Seq(Seq(Results))
    BY <1>2, SplitFields, HalvesProperties, LettersConcat, RangeConcat
  <1>5. /\ split' \in [Tasks -> Splits]
        /\ pc' = [pc EXCEPT ![t] = "parts"] \/ pc' = [pc EXCEPT ![t] = "dead_part"]
    <2>1. CASE out = "sent" /\ PartDone(t, [s EXCEPT !.sent = TRUE])
      <3>1. [s EXCEPT !.sent = TRUE] \in Splits
        BY <1>4 DEF Splits
      <3> QED BY <2>1, <3>1, <1>2, PartDoneType
    <2>2. CASE out = "permanent" /\ pc' = [pc EXCEPT ![t] = "dead_part"] /\ UNCHANGED split
      BY <1>2, <2>2 DEF TypeOK
    <2>3. CASE PartDone(t, [s EXCEPT !.work = Halves(s.part) \o @])
      <3>1. [s EXCEPT !.work = Halves(s.part) \o @] \in Splits
        BY <1>4 DEF Splits
      <3> QED BY <2>3, <3>1, <1>2, PartDoneType
    <2>4. CASE PartDone(t, [s EXCEPT !.refused = s.refused \o s.part,
                                     !.stop = IF Len(s.refused \o s.part) >= 2 /\ ~s.sent
                                              THEN "too_large" ELSE @])
      <3>1. [s EXCEPT !.refused = s.refused \o s.part,
                      !.stop = IF Len(s.refused \o s.part) >= 2 /\ ~s.sent
                               THEN "too_large" ELSE @] \in Splits
        BY <1>4 DEF Splits
      <3> QED BY <2>4, <3>1, <1>2, PartDoneType
    <2>5. CASE PartDone(t, [s EXCEPT !.untried = @ \o s.part, !.stop = "transient"])
      <3>1. [s EXCEPT !.untried = @ \o s.part, !.stop = "transient"] \in Splits
        BY <1>4 DEF Splits
      <3> QED BY <2>5, <3>1, <1>2, PartDoneType
    <2> QED BY <1>1, <2>1, <2>2, <2>3, <2>4, <2>5
  <1>6. TypeOK'
    <2>1. /\ pc' \in [Tasks -> StorerPCs \cup ReplayPCs] /\ pc'[Replay] \in ReplayPCs
          /\ \A u \in Storers : pc'[u] \in StorerPCs
      <3>1. pc \in [Tasks -> StorerPCs \cup ReplayPCs] /\ pc[Replay] \in ReplayPCs
            /\ \A u \in Storers : pc[u] \in StorerPCs
        BY <1>2 DEF TypeOK
      <3> QED BY <1>5, <3>1, TaskFacts DEF StorerPCs, ReplayPCs
    <2>2. /\ received' \subseteq Results /\ faults' \in 0..MaxFaults
          /\ att' \in [Tasks -> 0..MaxRetries]
      BY <1>2, PostReturnsType
    <2>3. UNCHANGED <<phase, made, batch, tables, lost, diskFaults, stops, crashes>>
      BY <1>2 DEF PostReturns
    <2> QED BY <1>2, <1>5, <2>1, <2>2, <2>3 DEF TypeOK, tables
  <1>7. OneInHand'
    BY <1>2, <1>3, <1>5, TaskFacts DEF TypeInv, TypeOK, OneInHand
  <1>8. Attempts'
    BY <1>2, <1>5, PostReturnsType DEF TypeInv, TypeOK, Attempts
  <1> QED BY <1>6, <1>7, <1>8 DEF TypeInv

\* DeliverParts keeps the type invariant.
LEMMA TypeDeliverParts ==
    ASSUME TypeInv, NEW t \in Tasks, DeliverParts(t) PROVE TypeInv'
  <1>1. TypeOK /\ t \in Storers /\ t # Replay /\ pc[t] = "parts"
    BY TaskFacts DEF TypeInv, DeliverParts
  <1>2. Unsent(t) \in Seq(Results)
    BY <1>1, SplitFields
  <1>3. [id |-> 0, checks |-> Unsent(t)] \in Row
    BY <1>2 DEF Row
  <1>4. split' \in [Tasks -> Splits]
    BY <1>1, NoSplitType DEF TypeOK, DeliverParts
  <1>5. \/ pc' = [pc EXCEPT ![t] = "idle"] /\ group' = [group EXCEPT ![t] = {}]
        \/ pc' = [pc EXCEPT ![t] = "store"]
           /\ group' = [group EXCEPT ![t] = {[id |-> 0, checks |-> Unsent(t)]}]
    BY DEF DeliverParts
  <1>6. TypeOK'
    <2>1. group' \in [Tasks -> SUBSET Row] /\ group'[Replay] = group[Replay]
      BY <1>1, <1>3, <1>5, TaskFacts DEF TypeOK
    <2>2. pc' \in [Tasks -> StorerPCs \cup ReplayPCs] /\ pc'[Replay] = pc[Replay]
          /\ \A u \in Storers : pc'[u] \in StorerPCs
      <3>1. "idle" \in StorerPCs /\ "store" \in StorerPCs
        BY DEF StorerPCs
      <3> QED BY <1>1, <1>5, <3>1, StorerMoves
    <2>3. UNCHANGED <<phase, made, batch, held, att, excess, todo, solo, pending, nextId, dead,
                      received, lost, faults, diskFaults, stops, crashes>>
      BY DEF DeliverParts, tables, bounds
    <2> QED BY <1>1, <1>4, <2>1, <2>2, <2>3 DEF TypeOK
  <1>7. OneInHand'
    BY <1>1, <1>2, <1>5, TaskFacts DEF TypeInv, TypeOK, OneInHand
  <1>8. Attempts'
    BY <1>1, <1>5 DEF TypeInv, TypeOK, Attempts, DeliverParts
  <1> QED BY <1>6, <1>7, <1>8 DEF TypeInv

\* A dead letter, with the prune of the oldest, keeps the table well typed.
LEMMA InsertDeadType ==
    ASSUME TypeOK, NEW checks \in Seq(Results), InsertDead(checks)
    PROVE  dead' \in Seq(Seq(Results)) /\ lost' \in [Losses -> SUBSET Results]
  <1>1. dead \in Seq(Seq(Results)) /\ Append(dead, checks) \in Seq(Seq(Results))
    BY DEF TypeOK
  <1>2. dead' \in Seq(Seq(Results))
    BY <1>1, NewestProperties, ReporterConstants DEF InsertDead
  <1>3. (Letters(dead) \cup Range(checks)) \ Letters(dead') \subseteq Results
    BY <1>1, LettersType, RangeType
  <1> QED BY <1>2, <1>3, DropType DEF InsertDead, Losses

\* DeadLetterBatch keeps the type invariant.
LEMMA TypeDeadLetterBatch ==
    ASSUME TypeInv, NEW t \in Tasks, DeadLetterBatch(t) PROVE TypeInv'
  <1>1. TypeOK
    BY DEF TypeInv
  <1>2. CASE pc[t] = "dead"
    <2>1. t \in Storers /\ t # Replay
      BY <1>1, <1>2, TaskFacts DEF TypeOK, ReplayPCs
    <2>2. PICK c \in Seq(Results) : group[t] = {[id |-> 0, checks |-> c]}
      BY <1>2, <2>1 DEF TypeInv, OneInHand
    <2>3. Only(group[t]).checks \in Seq(Results)
      <3>1. Only(group[t]) = [id |-> 0, checks |-> c]
        BY <2>2, OnlyOfOne
      <3> QED BY <3>1
    <2>4. InsertDead(Only(group[t]).checks) /\ pc' = [pc EXCEPT ![t] = "idle"]
          /\ group' = [group EXCEPT ![t] = {}] /\ UNCHANGED split
      BY <1>2 DEF DeadLetterBatch
    <2>5. dead' \in Seq(Seq(Results)) /\ lost' \in [Losses -> SUBSET Results]
      BY <1>1, <2>3, <2>4, InsertDeadType
    <2>6. TypeOK'
      BY <1>1, <2>1, <2>4, <2>5, TaskFacts DEF TypeOK, DeadLetterBatch, bounds, StorerPCs
    <2>7. OneInHand'
      BY <1>1, <2>1, <2>4, TaskFacts DEF TypeInv, TypeOK, OneInHand
    <2>8. Attempts'
      BY <1>1, <1>2, <2>4 DEF TypeInv, TypeOK, Attempts, DeadLetterBatch
    <2> QED BY <2>6, <2>7, <2>8 DEF TypeInv
  <1>3. CASE pc[t] = "dead_part"
    <2>1. InsertDead(split[t].part) /\ PartDone(t, split[t]) /\ UNCHANGED group
      BY <1>3 DEF DeadLetterBatch
    <2>2. split' \in [Tasks -> Splits] /\ pc' = [pc EXCEPT ![t] = "parts"]
      BY <1>1, <2>1, SplitFields, PartDoneType
    <2>3. dead' \in Seq(Seq(Results)) /\ lost' \in [Losses -> SUBSET Results]
      BY <1>1, <2>1, SplitFields, InsertDeadType
    <2>4. TypeOK'
      BY <1>1, <2>1, <2>2, <2>3, TaskFacts DEF TypeOK, DeadLetterBatch, bounds, StorerPCs, ReplayPCs
    <2>5. OneInHand'
      BY <1>1, <1>3, <2>1, <2>2, TaskFacts DEF TypeInv, TypeOK, OneInHand
    <2>6. Attempts'
      BY <1>1, <1>3, <2>2 DEF TypeInv, TypeOK, Attempts, DeadLetterBatch
    <2> QED BY <2>4, <2>5, <2>6 DEF TypeInv
  <1> QED BY <1>2, <1>3 DEF DeadLetterBatch

\* StoreInsert keeps the type invariant.
LEMMA TypeStoreInsert ==
    ASSUME TypeInv, NEW t \in Tasks, StoreInsert(t) PROVE TypeInv'
  <1>1. TypeOK /\ pc[t] = "store"
    BY DEF TypeInv, StoreInsert
  <1>2. t \in Storers /\ t # Replay
    BY <1>1, TaskFacts DEF TypeOK, ReplayPCs
  <1>3. PICK c \in Seq(Results) : group[t] = {[id |-> 0, checks |-> c]}
    BY <1>1, <1>2 DEF TypeInv, OneInHand
  <1>4. Only(group[t]).checks = c
    <2>1. Only(group[t]) = [id |-> 0, checks |-> c]
      BY <1>3, OnlyOfOne
    <2> QED BY <2>1
  <1>5. pending' \subseteq Row /\ IsFiniteSet(pending') /\ nextId' \in Nat
    <2>1. [id |-> nextId, checks |-> c] \in Row
      BY <1>1 DEF Row, TypeOK
    <2>2. pending' = pending \cup {[id |-> nextId, checks |-> c]} /\ nextId' = nextId + 1
      BY <1>4 DEF StoreInsert, NewId
    <2>3. IsFiniteSet(pending) /\ pending \subseteq Row /\ nextId \in Nat
      BY <1>1 DEF TypeOK
    <2>4. IsFiniteSet(pending')
      BY <2>2, <2>3, FS_AddElement
    <2> QED BY <2>1, <2>2, <2>3, <2>4
  <1>6. pc' = [pc EXCEPT ![t] = "count"] /\ group' = [group EXCEPT ![t] = {}]
    BY DEF StoreInsert
  <1>7. TypeOK'
    <2>1. "count" \in StorerPCs
      BY DEF StorerPCs
    <2>2. group' \in [Tasks -> SUBSET Row] /\ group'[Replay] = group[Replay]
      BY <1>1, <1>2, <1>6, TaskFacts DEF TypeOK
    <2>3. UNCHANGED <<phase, made, batch, held, split, att, excess, todo, solo, dead,
                      received, lost, faults, diskFaults, stops, crashes>>
      BY DEF StoreInsert, bounds
    <2> QED BY <1>1, <1>2, <1>5, <1>6, <2>1, <2>2, <2>3, StorerMoves DEF TypeOK
  <1>8. OneInHand'
    BY <1>1, <1>2, <1>6, TaskFacts DEF TypeInv, TypeOK, OneInHand
  <1>9. Attempts'
    BY <1>1, <1>6 DEF TypeInv, TypeOK, Attempts, StoreInsert
  <1> QED BY <1>7, <1>8, <1>9 DEF TypeInv

\* StoreCount keeps the type invariant.
LEMMA TypeStoreCount ==
    ASSUME TypeInv, NEW t \in Tasks, StoreCount(t) PROVE TypeInv'
  <1>1. TypeOK /\ pc[t] = "count"
    BY DEF TypeInv, StoreCount
  <1>2. t \in Storers /\ t # Replay
    BY <1>1, TaskFacts DEF TypeOK, ReplayPCs
  <1>3. Surplus \in Nat
    <2>1. Cardinality(pending) \in Nat
      BY <1>1, FS_CardinalityType DEF TypeOK
    <2> QED BY <2>1, ReporterConstants DEF Surplus
  <1>4. /\ pc' = [pc EXCEPT ![t] = "prune"] \/ pc' = [pc EXCEPT ![t] = "idle"]
        /\ excess' = [excess EXCEPT ![t] = Surplus] \/ excess' = excess
    BY DEF StoreCount
  <1>5. TypeOK'
    <2>1. "prune" \in StorerPCs /\ "idle" \in StorerPCs
      BY DEF StorerPCs
    <2>2. excess' \in [Tasks -> Nat]
      BY <1>1, <1>3, <1>4 DEF TypeOK
    <2>3. UNCHANGED <<phase, made, batch, held, group, split, att, todo, solo, pending, nextId,
                      dead, received, lost, faults, diskFaults, stops, crashes>>
      BY DEF StoreCount, tables, bounds
    <2>4. /\ pc' \in [Tasks -> StorerPCs \cup ReplayPCs] /\ pc'[Replay] \in ReplayPCs
          /\ \A u \in Storers : pc'[u] \in StorerPCs
      BY <1>1, <1>2, <1>4, <2>1, StorerMoves
    <2> QED BY <1>1, <2>2, <2>3, <2>4 DEF TypeOK
  <1>6. OneInHand'
    BY <1>1, <1>2, <1>4, TaskFacts DEF TypeInv, TypeOK, OneInHand, StoreCount
  <1>7. Attempts'
    BY <1>1, <1>4 DEF TypeInv, TypeOK, Attempts, StoreCount
  <1> QED BY <1>5, <1>6, <1>7 DEF TypeInv

\* StorePrune keeps the type invariant.
LEMMA TypeStorePrune ==
    ASSUME TypeInv, NEW t \in Tasks, StorePrune(t) PROVE TypeInv'
  <1>1. TypeOK /\ pc[t] = "prune"
    BY DEF TypeInv, StorePrune
  <1>2. t \in Storers /\ t # Replay
    BY <1>1, TaskFacts DEF TypeOK, ReplayPCs
  <1> DEFINE gone == Oldest(pending, excess[t])
  <1>3. gone \subseteq pending
    BY DEF Oldest
  <1>4. pending' \subseteq Row /\ IsFiniteSet(pending')
    BY <1>1, FS_Subset DEF TypeOK, StorePrune
  <1>5. lost' \in [Losses -> SUBSET Results]
    <2>1. gone \subseteq Row
      BY <1>1, <1>3 DEF TypeOK
    <2>2. Drop("disk_cap", Contents(gone)) /\ "disk_cap" \in Losses
      BY DEF StorePrune, Losses
    <2> QED BY <1>1, <2>1, <2>2, ContentsType, DropType
  <1>6. pc' = [pc EXCEPT ![t] = "idle"] /\ excess' = [excess EXCEPT ![t] = 0]
    BY DEF StorePrune
  <1>7. TypeOK'
    BY <1>1, <1>2, <1>4, <1>5, <1>6, TaskFacts DEF TypeOK, StorePrune, bounds, StorerPCs
  <1>8. OneInHand'
    BY <1>1, <1>2, <1>6, TaskFacts DEF TypeInv, TypeOK, OneInHand, StorePrune
  <1>9. Attempts'
    BY <1>1, <1>6 DEF TypeInv, TypeOK, Attempts, StorePrune
  <1> QED BY <1>7, <1>8, <1>9 DEF TypeInv

\* ReplayRead keeps the type invariant.
LEMMA TypeReplayRead ==
    ASSUME TypeInv, ReplayRead PROVE TypeInv'
  <1> DEFINE rows == IF FreeRows = {} THEN Oldest(pending, MaxFiles) ELSE FreeRows
  <1>1. TypeOK /\ pc[Replay] = "idle" /\ pc' = [pc EXCEPT ![Replay] = "next"]
    BY DEF TypeInv, ReplayRead
  <1>2. rows \subseteq pending
    BY DEF FreeRows, Oldest
  <1>3. PICK corrupt \in SUBSET rows :
            /\ diskFaults + Cardinality(corrupt) <= MaxDiskFaults
            /\ diskFaults' = diskFaults + Cardinality(corrupt)
            /\ held' = IF FreeRows = {} THEN {} ELSE held
            /\ pending' = pending \ corrupt
            /\ Drop("disk", Contents(corrupt))
            /\ todo' = rows \ corrupt
    BY DEF ReplayRead
  <1>4. corrupt \subseteq pending /\ IsFiniteSet(corrupt) /\ IsFiniteSet(pending') /\ IsFiniteSet(todo')
        /\ pending' \subseteq Row /\ todo' \subseteq Row
    BY <1>1, <1>2, <1>3, FS_Subset DEF TypeOK
  <1>5. diskFaults' \in 0..MaxDiskFaults
    <2>1. Cardinality(corrupt) \in Nat
      BY <1>4, FS_CardinalityType
    <2> QED BY <1>1, <1>3, <2>1, ReporterConstants DEF TypeOK
  <1>6. lost' \in [Losses -> SUBSET Results]
    <2>1. corrupt \subseteq Row
      BY <1>1, <1>4 DEF TypeOK
    <2> QED BY <1>1, <1>3, <2>1, ContentsType, DropType DEF Losses
  <1>7. held' \subseteq Nat
    BY <1>1, <1>3 DEF TypeOK
  <1>8. TypeOK'
    BY <1>1, <1>4, <1>5, <1>6, <1>7, TaskFacts DEF TypeOK, ReplayRead, ReplayPCs
  <1>9. OneInHand'
    BY <1>1, TaskFacts DEF TypeInv, TypeOK, OneInHand, ReplayRead
  <1>10. Attempts'
    BY <1>1, TaskFacts DEF TypeInv, TypeOK, Attempts, ReplayRead
  <1> QED BY <1>8, <1>9, <1>10 DEF TypeInv

\* The end of a replay pass leaves the replay idle with nothing in hand.
LEMMA EndPassType ==
    ASSUME TypeInv, EndPass
    PROVE  /\ pc' = [pc EXCEPT ![Replay] = "idle"]
           /\ group' = [group EXCEPT ![Replay] = {}] /\ IsFiniteSet(group'[Replay])
           /\ group' \in [Tasks -> SUBSET Row]
           /\ split' \in [Tasks -> Splits]
           /\ todo' = {} /\ solo' = {} /\ IsFiniteSet(todo')
           /\ pc' \in [Tasks -> StorerPCs \cup ReplayPCs] /\ pc'[Replay] \in ReplayPCs
           /\ \A t \in Storers : pc'[t] \in StorerPCs
           /\ OneInHand'
  <1>1. IsFiniteSet({})
    BY FS_EmptySet
  <1> QED BY <1>1, NoSplitType, TaskFacts
          DEF TypeInv, TypeOK, OneInHand, EndPass, ReplayPCs

\* The next group of the replay is taken from the rows it has read.
LEMMA NextGroupFacts ==
    ASSUME NEW rows, IsFiniteSet(rows)
    PROVE  NextGroup(rows) \subseteq rows /\ IsFiniteSet(NextGroup(rows))
  BY OldestFinite DEF NextGroup

\* ReplayNext keeps the type invariant.
LEMMA TypeReplayNext ==
    ASSUME TypeInv, ReplayNext PROVE TypeInv'
  <1>1. TypeOK /\ pc[Replay] = "next"
    BY DEF TypeInv, ReplayNext
  <1>2. CASE EndPass
    <2>1. TypeOK'
      BY <1>1, <1>2, EndPassType DEF TypeOK, ReplayNext, tables, bounds
    <2>2. Attempts'
      BY <1>1, <1>2, EndPassType, TaskFacts DEF TypeInv, TypeOK, Attempts, ReplayNext
    <2> QED BY <1>2, <2>1, <2>2, EndPassType DEF TypeInv
  <1>3. CASE /\ phase = "up" /\ (solo # {} \/ todo # {})
             /\ LET rows == IF solo # {} THEN Oldest(solo, 1) ELSE NextGroup(todo)
                IN  /\ group' = [group EXCEPT ![Replay] = rows]
                    /\ solo' = solo \ rows
                    /\ todo' = todo \ rows
             /\ pc' = [pc EXCEPT ![Replay] = "post"]
             /\ UNCHANGED split
    <2> DEFINE rows == IF solo # {} THEN Oldest(solo, 1) ELSE NextGroup(todo)
    <2>1. rows \subseteq Row /\ IsFiniteSet(rows)
      BY <1>1, OldestFinite, NextGroupFacts DEF TypeOK
    <2>2. IsFiniteSet(todo')
      BY <1>1, <1>3, FS_Subset DEF TypeOK
    <2> HIDE DEF rows
    <2>3. group' = [group EXCEPT ![Replay] = rows] /\ solo' = solo \ rows /\ todo' = todo \ rows
      BY <1>3 DEF rows
    <2>4. TypeOK'
      <3>1. "post" \in ReplayPCs
        BY DEF ReplayPCs
      <3>2. group' \in [Tasks -> SUBSET Row] /\ IsFiniteSet(group'[Replay])
        BY <1>1, <2>1, <2>3, TaskFacts DEF TypeOK
      <3>3. UNCHANGED <<phase, made, batch, held, split, att, excess, pending, nextId, dead,
                        received, lost, faults, diskFaults, stops, crashes>>
        BY <1>3 DEF ReplayNext, tables, bounds
      <3>4. solo' \subseteq Row /\ todo' \subseteq Row /\ IsFiniteSet(solo')
        BY <1>1, <2>3, FS_Subset DEF TypeOK
      <3> QED BY <1>1, <1>3, <2>2, <3>1, <3>2, <3>3, <3>4, ReplayMoves DEF TypeOK
    <2>5. OneInHand'
      BY <1>1, <1>3, <2>3, TaskFacts DEF TypeInv, TypeOK, OneInHand
    <2>6. Attempts'
      <3>1. att' = att /\ att[Replay] = 0 /\ att[Replay] < MaxRetries
        BY <1>1, TaskFacts, ReporterConstants DEF TypeInv, Attempts, ReplayNext
      <3> QED BY <1>1, <1>3, <3>1, TaskFacts DEF TypeInv, TypeOK, Attempts
    <2> QED BY <2>4, <2>5, <2>6 DEF TypeInv
  <1> QED BY <1>2, <1>3 DEF ReplayNext

\* A group of one row is that row.
LEMMA AloneIsSingleton ==
    ASSUME NEW rows, IsFiniteSet(rows), Alone(rows)
    PROVE  \E r \in rows : rows = {r}
  BY FS_Singleton DEF Alone

\* ReplayGroup keeps the type invariant.
LEMMA TypeReplayGroup ==
    ASSUME TypeInv, ReplayGroup PROVE TypeInv'
  <1>1. PICK out \in Outcomes : ReplayGroup!(out)
    BY DEF ReplayGroup
  <1>2. TypeOK /\ ~InPart(Replay) /\ PostReturns(Replay, out) /\ UNCHANGED excess
    BY <1>1 DEF TypeInv
  <1>3. pc[Replay] \in {"post", "sleep"}
    BY <1>2, PostReturnsType, TaskFacts DEF InPart
  <1> DEFINE rows == group[Replay]
             stored == Only(rows)
  <1>4. rows \subseteq Row /\ IsFiniteSet(rows) /\ IsFiniteSet({})
    BY <1>2, TaskFacts, FS_EmptySet DEF TypeOK
  <1>5. Alone(rows) => rows = {stored} /\ stored \in Row /\ stored.checks \in Seq(Results)
                       /\ stored.id \in Nat
    <2> SUFFICES ASSUME Alone(rows) PROVE rows = {stored} /\ stored \in Row
      BY DEF Row
    <2>1. PICK r \in rows : rows = {r}
      BY <1>4, AloneIsSingleton
    <2>2. stored = r
      BY <2>1, OnlyOfOne
    <2> QED BY <2>1, <2>2, <1>4
  <1>6. /\ \E v \in {"delete", "parts", "next", "idle", "move"} :
              /\ pc' = [pc EXCEPT ![Replay] = v]
              /\ v \in {"parts", "move"} => group' = group /\ Alone(rows)
        /\ group' = group \/ group' = [group EXCEPT ![Replay] = {}]
        /\ split' \in [Tasks -> Splits]
        /\ held' \subseteq Nat
        /\ todo' = todo \/ todo' = {}
        /\ solo' = solo \/ solo' = rows \/ solo' = {}
    <2>1. split \in [Tasks -> Splits] /\ held \subseteq Nat
      BY <1>2 DEF TypeOK
    <2>2. CASE out = "sent"
      BY <1>1, <2>1, <2>2
    <2>3. CASE out = "too_large"
      BY <1>1, <1>2, <1>5, <2>1, <2>3, StartPartsType, TaskFacts
    <2>4. CASE out = "transient"
      <3>1. EndPass /\ UNCHANGED held
        BY <1>1, <2>4
      <3> QED BY <3>1, <2>1, EndPassType
    <2>5. CASE out = "permanent"
      BY <1>1, <2>1, <2>5
    <2> QED BY <2>2, <2>3, <2>4, <2>5 DEF Outcomes
  <1>7. PICK v \in {"delete", "parts", "next", "idle", "move"} :
              /\ pc' = [pc EXCEPT ![Replay] = v]
              /\ v \in {"parts", "move"} => group' = group /\ Alone(rows)
    BY <1>6
  <1>8. v \in ReplayPCs
    BY DEF ReplayPCs
  <1>9. TypeOK'
    <2>1. group' \in [Tasks -> SUBSET Row] /\ IsFiniteSet(group'[Replay])
      BY <1>2, <1>4, <1>6, TaskFacts DEF TypeOK
    <2>2. todo' \subseteq Row /\ IsFiniteSet(todo') /\ solo' \subseteq Row /\ IsFiniteSet(solo')
      BY <1>2, <1>4, <1>6 DEF TypeOK
    <2>3. UNCHANGED <<phase, made, batch, pending, nextId, dead, lost, diskFaults, stops, crashes>>
      BY <1>2 DEF PostReturns, tables
    <2> QED BY <1>2, <1>6, <1>7, <1>8, <2>1, <2>2, <2>3, PostReturnsType, ReplayMoves, TaskFacts
            DEF TypeOK
  <1>10. OneInHand'
    <2>1. \A u \in Storers : pc'[u] = pc[u] /\ group'[u] = group[u]
      BY <1>2, <1>6, <1>7, <1>8, ReplayMoves, TaskFacts DEF TypeOK
    <2>2. pc'[Replay] = v
      BY <1>2, <1>7, <1>8, ReplayMoves
    <2>3. v \in {"parts", "move"} => \E r \in Row : group'[Replay] = {r}
      BY <1>5, <1>7
    <2> QED BY <2>1, <2>2, <2>3 DEF TypeInv, OneInHand
  <1>11. Attempts'
    <2>1. pc'[Replay] = v /\ \A u \in Tasks \ {Replay} : pc'[u] = pc[u]
      BY <1>2, <1>7, TaskFacts DEF TypeOK
    <2>2. att'[Replay] = 0 /\ \A u \in Tasks \ {Replay} : att'[u] = att[u]
      BY <1>2, PostReturnsType, TaskFacts
    <2>3. ASSUME NEW u \in Tasks
          PROVE  /\ pc'[u] \in {"post", "post_part"} => att'[u] < MaxRetries
                 /\ pc'[u] \notin {"post", "post_part", "sleep", "sleep_part"} => att'[u] = 0
      <3>1. CASE u = Replay
        BY <2>1, <2>2, <3>1
      <3>2. CASE u # Replay
        BY <2>1, <2>2, <3>2 DEF TypeInv, Attempts
      <3> QED BY <3>1, <3>2
    <2> QED BY <2>3 DEF Attempts
  <1> QED BY <1>9, <1>10, <1>11 DEF TypeInv

\* ReplayParts keeps the type invariant.
LEMMA TypeReplayParts ==
    ASSUME TypeInv, ReplayParts PROVE TypeInv'
  <1>1. TypeOK /\ pc[Replay] = "parts"
    BY DEF TypeInv, ReplayParts
  <1>2. PICK r \in Row : group[Replay] = {r}
    BY <1>1 DEF TypeInv, OneInHand
  <1>3. Only(group[Replay]) = r /\ r.id \in Nat /\ IsFiniteSet({})
    BY <1>2, OnlyOfOne, FS_EmptySet DEF Row
  <1>4. UNCHANGED <<phase, made, batch, att, excess, pending, nextId, dead, received, lost,
                    faults, diskFaults, stops, crashes>>
    BY DEF ReplayParts, tables, bounds
  <1>5. CASE EndPass /\ UNCHANGED held
    <2>1. TypeOK'
      BY <1>1, <1>4, <1>5, EndPassType DEF TypeOK
    <2>2. Attempts'
      BY <1>1, <1>4, <1>5, EndPassType, TaskFacts DEF TypeInv, TypeOK, Attempts
    <2> QED BY <1>5, <2>1, <2>2, EndPassType DEF TypeInv
  <1>6. CASE \E v \in {"delete", "rewrite", "next"} :
               /\ pc' = [pc EXCEPT ![Replay] = v] /\ UNCHANGED <<todo, solo>>
               /\ group' = group \/ (group' = [group EXCEPT ![Replay] = {}] /\ v = "next")
               /\ split' = split \/ split' = [split EXCEPT ![Replay] = NoSplit]
               /\ held' = held \/ held' = held \cup {r.id}
    <2>1. PICK v \in {"delete", "rewrite", "next"} :
               /\ pc' = [pc EXCEPT ![Replay] = v] /\ UNCHANGED <<todo, solo>>
               /\ group' = group \/ (group' = [group EXCEPT ![Replay] = {}] /\ v = "next")
               /\ split' = split \/ split' = [split EXCEPT ![Replay] = NoSplit]
               /\ held' = held \/ held' = held \cup {r.id}
      BY <1>6
    <2>2. v \in ReplayPCs
      BY DEF ReplayPCs
    <2>3. group' \in [Tasks -> SUBSET Row] /\ IsFiniteSet(group'[Replay])
          /\ split' \in [Tasks -> Splits] /\ held' \subseteq Nat
      <3>1. group' \in [Tasks -> SUBSET Row] /\ IsFiniteSet(group'[Replay])
        BY <1>1, <1>3, <2>1, TaskFacts DEF TypeOK
      <3>2. split' \in [Tasks -> Splits]
        BY <1>1, <2>1, NoSplitType DEF TypeOK
      <3>3. held' \subseteq Nat
        BY <1>1, <1>3, <2>1 DEF TypeOK
      <3> QED BY <3>1, <3>2, <3>3
    <2>4. TypeOK'
      BY <1>1, <1>4, <2>1, <2>2, <2>3, ReplayMoves DEF TypeOK
    <2>5. OneInHand'
      <3>1. \A u \in Storers : pc'[u] = pc[u] /\ group'[u] = group[u]
        BY <1>1, <2>1, <2>2, ReplayMoves, TaskFacts DEF TypeOK
      <3>2. pc'[Replay] = v /\ (v = "rewrite" => group'[Replay] = {r})
        BY <1>1, <1>2, <2>1, <2>2, ReplayMoves
      <3> QED BY <3>1, <3>2 DEF TypeInv, OneInHand
    <2>6. Attempts'
      BY <1>1, <1>4, <2>1, TaskFacts DEF TypeInv, TypeOK, Attempts
    <2> QED BY <2>4, <2>5, <2>6 DEF TypeInv
  <1> QED BY <1>3, <1>5, <1>6 DEF ReplayParts

\* A replay step that changes the tables and hands the replay over to "next".
LEMMA TypeReplayRewrite ==
    ASSUME TypeInv, ReplayRewrite PROVE TypeInv'
  <1>1. TypeOK /\ pc[Replay] = "rewrite"
    BY DEF TypeInv, ReplayRewrite
  <1>2. PICK r \in Row : group[Replay] = {r}
    BY <1>1 DEF TypeInv, OneInHand
  <1>3. Only(group[Replay]) = r /\ r.id \in Nat /\ IsFiniteSet({})
    BY <1>2, OnlyOfOne, FS_EmptySet DEF Row
  <1>4. pending' \subseteq Row /\ IsFiniteSet(pending')
    <2> DEFINE f(q) == IF q.id = r.id THEN [q EXCEPT !.checks = Unsent(Replay)] ELSE q
    <2>1. Unsent(Replay) \in Seq(Results)
      BY <1>1, SplitFields, TaskFacts
    <2>2. \A q \in Row : f(q) \in Row
      BY <2>1 DEF Row
    <2>3. pending' = {f(q) : q \in pending}
      BY <1>3 DEF ReplayRewrite
    <2>4. IsFiniteSet(pending) /\ pending \subseteq Row
      BY <1>1 DEF TypeOK
    <2>5. IsFiniteSet({f(q) : q \in pending})
      <3> DEFINE T == {f(q) : q \in pending}
                 g == [q \in pending |-> f(q)]
      <3> HIDE DEF f
      <3>1. g \in Surjection(pending, T)
        BY DEF Surjection
      <3> QED BY <2>4, <3>1, FS_Surjection
    <2> QED BY <2>2, <2>3, <2>4, <2>5
  <1>5. UNCHANGED <<phase, made, batch, att, excess, nextId, dead, received, lost,
                    faults, diskFaults, stops, crashes>>
    BY DEF ReplayRewrite, bounds
  <1>6. CASE EndPass /\ UNCHANGED held
    <2>1. TypeOK'
      BY <1>1, <1>4, <1>5, <1>6, EndPassType DEF TypeOK
    <2>2. Attempts'
      BY <1>1, <1>5, <1>6, EndPassType, TaskFacts DEF TypeInv, TypeOK, Attempts
    <2> QED BY <1>6, <2>1, <2>2, EndPassType DEF TypeInv
  <1>7. CASE /\ held' = held \cup {r.id} /\ pc' = [pc EXCEPT ![Replay] = "next"]
             /\ group' = [group EXCEPT ![Replay] = {}]
             /\ split' = [split EXCEPT ![Replay] = NoSplit]
             /\ UNCHANGED <<todo, solo>>
    <2>1. "next" \in ReplayPCs
      BY DEF ReplayPCs
    <2>2. group' \in [Tasks -> SUBSET Row] /\ IsFiniteSet(group'[Replay])
          /\ split' \in [Tasks -> Splits] /\ held' \subseteq Nat
      BY <1>1, <1>3, <1>7, NoSplitType, TaskFacts DEF TypeOK
    <2>3. TypeOK'
      BY <1>1, <1>4, <1>5, <1>7, <2>1, <2>2, ReplayMoves DEF TypeOK
    <2>4. OneInHand'
      BY <1>1, <1>7, TaskFacts DEF TypeInv, TypeOK, OneInHand
    <2>5. Attempts'
      BY <1>1, <1>5, <1>7, TaskFacts DEF TypeInv, TypeOK, Attempts
    <2> QED BY <2>3, <2>4, <2>5 DEF TypeInv
  <1> QED BY <1>3, <1>6, <1>7 DEF ReplayRewrite

\* ReplayDelete keeps the type invariant.
LEMMA TypeReplayDelete ==
    ASSUME TypeInv, ReplayDelete PROVE TypeInv'
  <1>1. TypeOK /\ pc[Replay] = "delete"
    BY DEF TypeInv, ReplayDelete
  <1> DEFINE gone == Oldest(group[Replay], 1)
  <1>2. pending' \subseteq Row /\ IsFiniteSet(pending')
    BY <1>1, FS_Subset DEF TypeOK, ReplayDelete
  <1>3. group' = [group EXCEPT ![Replay] = @ \ gone]
        /\ (pc' = [pc EXCEPT ![Replay] = "next"] \/ pc' = [pc EXCEPT ![Replay] = "delete"])
    BY <1>1 DEF ReplayDelete
  <1> HIDE DEF gone
  <1>4. group' \in [Tasks -> SUBSET Row] /\ IsFiniteSet(group'[Replay])
    <2>1. group'[Replay] = group[Replay] \ gone
      BY <1>1, <1>3, TaskFacts DEF TypeOK
    <2>2. IsFiniteSet(group[Replay] \ gone)
      BY <1>1, FS_Subset DEF TypeOK
    <2> QED BY <1>1, <1>3, <2>1, <2>2, TaskFacts DEF TypeOK
  <1>5. UNCHANGED <<phase, made, batch, held, split, att, excess, todo, solo, nextId, dead,
                    received, lost, faults, diskFaults, stops, crashes>>
    BY DEF ReplayDelete, bounds
  <1>6. "next" \in ReplayPCs /\ "delete" \in ReplayPCs
    BY DEF ReplayPCs
  <1>7. TypeOK'
    BY <1>1, <1>2, <1>3, <1>4, <1>5, <1>6, ReplayMoves DEF TypeOK
  <1>8. OneInHand'
    BY <1>1, <1>3, TaskFacts DEF TypeInv, TypeOK, OneInHand
  <1>9. Attempts'
    BY <1>1, <1>3, <1>5, TaskFacts DEF TypeInv, TypeOK, Attempts
  <1> QED BY <1>7, <1>8, <1>9 DEF TypeInv

\* ReplayMove keeps the type invariant.
LEMMA TypeReplayMove ==
    ASSUME TypeInv, ReplayMove PROVE TypeInv'
  <1>1. TypeOK /\ pc[Replay] = "move"
    BY DEF TypeInv, ReplayMove
  <1> DEFINE row == {q \in pending : q.id = Only(group[Replay]).id}
  <1>2. /\ pending' \subseteq Row /\ IsFiniteSet(pending')
        /\ dead' \in Seq(Seq(Results)) /\ lost' \in [Losses -> SUBSET Results]
    <2>1. CASE row = {}
      <3>1. UNCHANGED <<pending, dead, lost>>
        BY <2>1 DEF ReplayMove
      <3> QED BY <1>1, <3>1 DEF TypeOK
    <2>2. CASE row # {}
      <3>1. pending' = pending \ row /\ InsertDead(Only(row).checks)
        BY <2>2 DEF ReplayMove
      <3>2. Only(row) \in row
        BY <2>2 DEF Only
      <3>3. Only(row).checks \in Seq(Results)
        BY <1>1, <3>2 DEF TypeOK, Row
      <3>4. IsFiniteSet(pending') /\ pending' \subseteq Row
        BY <1>1, <3>1, FS_Subset DEF TypeOK
      <3> QED BY <1>1, <3>1, <3>3, <3>4, InsertDeadType
    <2> QED BY <2>1, <2>2
  <1>3. pc' = [pc EXCEPT ![Replay] = "next"] /\ group' = [group EXCEPT ![Replay] = {}]
    BY DEF ReplayMove
  <1>4. UNCHANGED <<phase, made, batch, held, split, att, excess, todo, solo, nextId,
                    received, faults, diskFaults, stops, crashes>>
    BY DEF ReplayMove, bounds
  <1>5. "next" \in ReplayPCs /\ IsFiniteSet({})
    BY FS_EmptySet DEF ReplayPCs
  <1>6. group' \in [Tasks -> SUBSET Row] /\ IsFiniteSet(group'[Replay])
    BY <1>1, <1>3, <1>5, TaskFacts DEF TypeOK
  <1>7. TypeOK'
    BY <1>1, <1>2, <1>3, <1>4, <1>5, <1>6, ReplayMoves DEF TypeOK
  <1>8. OneInHand'
    BY <1>1, <1>3, TaskFacts DEF TypeInv, TypeOK, OneInHand
  <1>9. Attempts'
    BY <1>1, <1>3, <1>4, TaskFacts DEF TypeInv, TypeOK, Attempts
  <1> QED BY <1>7, <1>8, <1>9 DEF TypeInv

\* DiskFails keeps the type invariant.
LEMMA TypeDiskFails ==
    ASSUME TypeInv, NEW t \in Tasks, DiskFails(t) PROVE TypeInv'
  <1>1. TypeOK
    BY DEF TypeInv
  <1>2. UNCHANGED <<phase, made, batch, held, att, pending, nextId, dead, received, faults,
                    stops, crashes>>
    BY DEF DiskFails, tables
  <1>3. diskFaults' \in 0..MaxDiskFaults
    BY <1>1, ReporterConstants DEF TypeOK, DiskFails
  <1>4. CASE /\ pc[t] \in {"store", "dead"}
             /\ Drop("disk", Contents(group[t]))
             /\ pc' = [pc EXCEPT ![t] = "idle"]
             /\ group' = [group EXCEPT ![t] = {}]
             /\ UNCHANGED <<split, excess, todo, solo>>
    <2>1. t \in Storers /\ t # Replay /\ "idle" \in StorerPCs /\ "disk" \in Losses
      BY <1>1, <1>4, TaskFacts DEF TypeOK, ReplayPCs, StorerPCs, Losses
    <2>2. lost' \in [Losses -> SUBSET Results]
      <3>1. group[t] \subseteq Row
        BY <1>1 DEF TypeOK
      <3> QED BY <1>1, <1>4, <2>1, <3>1, ContentsType, DropType
    <2>3. group' \in [Tasks -> SUBSET Row] /\ group'[Replay] = group[Replay]
      BY <1>1, <1>4, <2>1, TaskFacts DEF TypeOK
    <2>4. TypeOK'
      BY <1>1, <1>2, <1>3, <1>4, <2>1, <2>2, <2>3, StorerMoves DEF TypeOK
    <2>5. OneInHand'
      BY <1>1, <1>4, <2>1, TaskFacts DEF TypeInv, TypeOK, OneInHand
    <2>6. Attempts'
      BY <1>1, <1>2, <1>4 DEF TypeInv, TypeOK, Attempts
    <2> QED BY <2>4, <2>5, <2>6 DEF TypeInv
  <1>5. CASE /\ pc[t] \in {"count", "prune"}
             /\ pc' = [pc EXCEPT ![t] = "idle"]
             /\ excess' = [excess EXCEPT ![t] = 0]
             /\ UNCHANGED <<group, split, todo, solo, lost>>
    <2>1. t \in Storers /\ t # Replay /\ "idle" \in StorerPCs
      BY <1>1, <1>5, TaskFacts DEF TypeOK, ReplayPCs, StorerPCs
    <2>2. excess' \in [Tasks -> Nat]
      BY <1>1, <1>5 DEF TypeOK
    <2>3. TypeOK'
      BY <1>1, <1>2, <1>3, <1>5, <2>1, <2>2, StorerMoves DEF TypeOK
    <2>4. OneInHand'
      BY <1>1, <1>5, <2>1, TaskFacts DEF TypeInv, TypeOK, OneInHand
    <2>5. Attempts'
      BY <1>1, <1>2, <1>5 DEF TypeInv, TypeOK, Attempts
    <2> QED BY <2>3, <2>4, <2>5 DEF TypeInv
  <1>6. CASE /\ pc[t] = "dead_part"
             /\ Drop("disk", Range(split[t].part))
             /\ PartDone(t, split[t])
             /\ UNCHANGED <<group, excess, todo, solo>>
    <2>1. split' \in [Tasks -> Splits] /\ pc' = [pc EXCEPT ![t] = "parts"]
      BY <1>1, <1>6, SplitFields, PartDoneType
    <2>2. lost' \in [Losses -> SUBSET Results]
      BY <1>1, <1>6, SplitFields, RangeType, DropType DEF Losses
    <2>3. TypeOK'
      BY <1>1, <1>2, <1>3, <1>6, <2>1, <2>2, TaskFacts DEF TypeOK, StorerPCs, ReplayPCs
    <2>4. OneInHand'
      BY <1>1, <1>6, <2>1, TaskFacts DEF TypeInv, TypeOK, OneInHand
    <2>5. Attempts'
      BY <1>1, <1>2, <1>6, <2>1 DEF TypeInv, TypeOK, Attempts
    <2> QED BY <2>3, <2>4, <2>5 DEF TypeInv
  <1>7. CASE t = Replay /\ pc[t] \in {"delete", "rewrite", "move"} /\ EndPass
             /\ UNCHANGED <<excess, lost>>
    <2>1. TypeOK'
      BY <1>1, <1>2, <1>3, <1>7, EndPassType DEF TypeOK
    <2>2. Attempts'
      BY <1>1, <1>2, <1>7, EndPassType, TaskFacts DEF TypeInv, TypeOK, Attempts
    <2> QED BY <1>7, <2>1, <2>2, EndPassType DEF TypeInv
  <1> QED BY <1>4, <1>5, <1>6, <1>7 DEF DiskFails

\* What a set of cancelled tasks had in hand are results.
LEMMA UnionType ==
    ASSUME TypeOK, NEW ts, ts \subseteq Tasks
    PROVE  UNION {InHand(t) : t \in ts} \subseteq Results
  BY InHandType

\* Stop keeps the type invariant.
LEMMA TypeStop ==
    ASSUME TypeInv, StopperShape, Stop PROVE TypeInv'
  <1> DEFINE cut == {t \in Flushers \cap {"result_processor"} : pc[t] # "idle"}
  <1>1. TypeOK /\ cut \subseteq Storers /\ Replay \notin cut /\ batch \in Seq(Results)
    BY TaskFacts DEF TypeInv, TypeOK
  <1>2. /\ pc' = [t \in Tasks |-> IF t \in cut THEN "idle"
                                  ELSE IF t = Stopper /\ batch # <<>> THEN "store"
                                  ELSE pc[t]]
        /\ group' = [t \in Tasks |-> IF t \in cut THEN {}
                                     ELSE IF t = Stopper /\ batch # <<>>
                                          THEN {[id |-> 0, checks |-> batch]}
                                     ELSE group[t]]
        /\ split' = [t \in Tasks |-> IF t \in cut THEN NoSplit ELSE split[t]]
        /\ att' = [t \in Tasks |-> IF t \in cut THEN 0 ELSE att[t]]
        /\ Drop("cancel", UNION {InHand(t) : t \in cut})
        /\ phase' = "stopping" /\ batch' = <<>> /\ stops' = stops + 1 /\ stops < MaxStops
        /\ UNCHANGED <<made, held, excess, todo, solo, pending, nextId, dead, received, faults,
                       diskFaults, crashes>>
    BY DEF Stop, tables
  <1>3. lost' \in [Losses -> SUBSET Results]
    <2>1. UNION {InHand(t) : t \in cut} \subseteq Results
      BY <1>1, UnionType, TaskFacts
    <2> HIDE DEF cut
    <2> QED BY <1>1, <1>2, <2>1, DropType DEF Losses
  <1> HIDE DEF cut
  <1>4. /\ pc' \in [Tasks -> StorerPCs \cup ReplayPCs] /\ pc'[Replay] \in ReplayPCs
        /\ \A t \in Storers : pc'[t] \in StorerPCs
    BY <1>1, <1>2, TaskFacts DEF TypeOK, StorerPCs
  <1>5. group' \in [Tasks -> SUBSET Row] /\ group'[Replay] = group[Replay]
    <2>1. [id |-> 0, checks |-> batch] \in Row
      BY <1>1 DEF Row
    <2> QED BY <1>1, <1>2, <2>1, TaskFacts DEF TypeOK
  <1>6. split' \in [Tasks -> Splits] /\ att' \in [Tasks -> 0..MaxRetries]
        /\ batch' \in Seq(Results) /\ stops' \in 0..MaxStops
    BY <1>1, <1>2, NoSplitType, ReporterConstants DEF TypeOK
  <1>7. TypeOK'
    BY <1>1, <1>2, <1>3, <1>4, <1>5, <1>6 DEF TypeOK
  <1>8. OneInHand'
    BY <1>1, <1>2, TaskFacts DEF TypeInv, TypeOK, OneInHand
  <1>9. Attempts'
    <2>1. pc[Stopper] = "idle" /\ att[Stopper] = 0
      BY TaskFacts DEF Stop, StopperShape, TypeInv, Attempts
    <2> QED BY <1>1, <1>2, <2>1, ReporterConstants DEF TypeInv, TypeOK, Attempts
  <1> QED BY <1>7, <1>8, <1>9 DEF TypeInv

\* StopEnds keeps the type invariant.
LEMMA TypeStopEnds ==
    ASSUME TypeInv, StopEnds PROVE TypeInv'
  <1> DEFINE busy == {t \in Tasks : pc[t] # "idle"}
  <1>1. TypeOK /\ busy \subseteq Tasks /\ IsFiniteSet({})
    BY FS_EmptySet DEF TypeInv
  <1>2. /\ pc' = [t \in Tasks |-> IF t \in busy THEN "idle" ELSE pc[t]]
        /\ split' = [t \in Tasks |-> IF t \in busy THEN NoSplit ELSE split[t]]
        /\ att' = [t \in Tasks |-> IF t \in busy THEN 0 ELSE att[t]]
        /\ Drop("cancel", UNION {InHand(t) : t \in busy \ {Replay}})
        /\ phase' = "down" /\ held' = {} /\ todo' = {} /\ solo' = {}
        /\ group' = [t \in Tasks |-> {}]
        /\ UNCHANGED <<made, batch, excess, pending, nextId, dead, received, faults, diskFaults,
                       stops, crashes>>
    BY DEF StopEnds, Cancel, tables, bounds
  <1>3. lost' \in [Losses -> SUBSET Results]
    <2>1. UNION {InHand(t) : t \in busy \ {Replay}} \subseteq Results
      BY <1>1, UnionType
    <2> HIDE DEF busy
    <2> QED BY <1>1, <1>2, <2>1, DropType DEF Losses
  <1>4. pc' = [t \in Tasks |-> "idle"]
    BY <1>2
  <1>5. split' \in [Tasks -> Splits] /\ att' \in [Tasks -> 0..MaxRetries]
    BY <1>1, <1>2, NoSplitType, ReporterConstants DEF TypeOK
  <1>6. att' = [t \in Tasks |-> 0]
    BY <1>2 DEF TypeInv, Attempts
  <1>7. TypeOK'
    BY <1>1, <1>2, <1>3, <1>4, <1>5, TaskFacts DEF TypeOK, StorerPCs, ReplayPCs
  <1>8. OneInHand' /\ Attempts'
    BY <1>4, <1>6, TaskFacts, ReporterConstants DEF OneInHand, Attempts
  <1> QED BY <1>7, <1>8 DEF TypeInv

\* Crash keeps the type invariant.
LEMMA TypeCrash ==
    ASSUME TypeInv, Crash PROVE TypeInv'
  <1>1. TypeOK /\ IsFiniteSet({})
    BY FS_EmptySet DEF TypeInv
  <1>2. /\ pc' = [t \in Tasks |-> "idle"] /\ group' = [t \in Tasks |-> {}]
        /\ split' = [t \in Tasks |-> NoSplit] /\ excess' = [t \in Tasks |-> 0]
        /\ att' = [t \in Tasks |-> 0]
        /\ crashes' = crashes + 1 /\ crashes < MaxCrashes
        /\ phase' = "down" /\ batch' = <<>> /\ held' = {} /\ todo' = {} /\ solo' = {}
        /\ Drop("crash", Range(batch) \cup UNION {InHand(t) : t \in Storers})
        /\ UNCHANGED <<made, pending, nextId, dead, received, faults, diskFaults, stops>>
    BY DEF Crash, tables
  <1>3. lost' \in [Losses -> SUBSET Results]
    <2>1. UNION {InHand(t) : t \in Storers} \subseteq Results
      BY <1>1, UnionType, TaskFacts
    <2>2. Range(batch) \subseteq Results
      BY <1>1, RangeType DEF TypeOK
    <2> QED BY <1>1, <1>2, <2>1, <2>2, DropType DEF Losses
  <1>4. crashes' \in 0..MaxCrashes /\ 0 \in 0..MaxRetries /\ batch' \in Seq(Results)
    BY <1>1, <1>2, ReporterConstants DEF TypeOK
  <1>5. TypeOK'
    BY <1>1, <1>2, <1>3, <1>4, NoSplitType, TaskFacts DEF TypeOK, StorerPCs, ReplayPCs
  <1>6. OneInHand' /\ Attempts'
    BY <1>2, TaskFacts DEF OneInHand, Attempts
  <1> QED BY <1>5, <1>6 DEF TypeInv

\* Every step keeps the type invariant.
LEMMA TypeNext == TypeInv /\ StopperShape /\ [Next]_vars => TypeInv'
  <1> SUFFICES ASSUME TypeInv, StopperShape, [Next]_vars PROVE TypeInv'
    OBVIOUS
  <1>1. CASE UNCHANGED vars
    BY <1>1 DEF TypeInv, TypeOK, OneInHand, Attempts, vars, memory, tables, bounds
  <1>2. ASSUME NEW t \in Tasks, TaskStep(t) PROVE TypeInv'
    BY <1>2, TypePostFails, TypePostAgain, TypeDeliver, TypeNextPart, TypePartAnswered,
       TypeDeliverParts, TypeDeadLetterBatch, TypeStoreInsert, TypeStoreCount, TypeStorePrune
       DEF TaskStep
  <1>3. ASSUME ReplayStep PROVE TypeInv'
    BY <1>3, TypeReplayNext, TypeReplayGroup, TypeReplayParts, TypeReplayRewrite,
       TypeReplayDelete, TypeReplayMove DEF ReplayStep
  <1>4. CASE Next
    BY <1>2, <1>3, <1>4, TypeStart, TypeAddResult, TypeFlush, TypeReplayRead, TypeDiskFails,
       TypeStop, TypeStopEnds, TypeCrash DEF Next
  <1> QED BY <1>1, <1>4

\* What a step of one task does to the program points: only that task moves.
LEMMA TaskStepMoves ==
    ASSUME TypeInv, NEW t \in Tasks, TaskStep(t) \/ DiskFails(t)
    PROVE  /\ phase' = phase /\ pc' \in [Tasks -> StorerPCs \cup ReplayPCs]
           /\ \A u \in Tasks \ {t} : pc'[u] = pc[u]
           /\ pc[t] = "store" => pc'[t] \in {"count", "idle"}
           /\ pc[t] = "count" => pc'[t] \in {"prune", "idle"}
           /\ pc[t] = "prune" => pc'[t] = "idle"
           /\ pc[t] # "idle"
  <1> USE DEF StorerPCs, ReplayPCs
  <1>1. TypeOK /\ pc \in [Tasks -> StorerPCs \cup ReplayPCs]
    BY DEF TypeInv, TypeOK
  <1>2. CASE PostFails(t)
    BY <1>1, <1>2, AnswerType DEF PostFails
  <1>3. CASE PostAgain(t)
    BY <1>1, <1>3 DEF PostAgain
  <1>4. CASE Deliver(t)
    <2>1. PICK out \in Outcomes : Deliver(t)!(out)
      BY <1>4 DEF Deliver
    <2>2. PostReturns(t, out) /\ \E v \in {"idle", "dead", "store", "parts"} :
                                    pc' = [pc EXCEPT ![t] = v]
      BY <2>1 DEF StartParts
    <2>3. pc[t] \in {"post", "post_part", "sleep", "sleep_part"}
      BY <2>2, PostReturnsType
    <2> QED BY <1>1, <2>2, <2>3 DEF PostReturns
  <1>5. CASE NextPart(t)
    BY <1>1, <1>5 DEF NextPart
  <1>6. CASE PartAnswered(t)
    <2>1. PICK out \in Outcomes : PartAnswered(t)!(out)
      BY <1>6 DEF PartAnswered
    <2>2. PostReturns(t, out) /\ \E v \in {"parts", "dead_part"} : pc' = [pc EXCEPT ![t] = v]
      BY <2>1 DEF PartDone
    <2>3. pc[t] \in {"post", "post_part", "sleep", "sleep_part"}
      BY <2>2, PostReturnsType
    <2> QED BY <1>1, <2>2, <2>3 DEF PostReturns
  <1>7. CASE DeliverParts(t)
    BY <1>1, <1>7 DEF DeliverParts
  <1>8. CASE DeadLetterBatch(t)
    BY <1>1, <1>8 DEF DeadLetterBatch, PartDone
  <1>9. CASE StoreInsert(t)
    BY <1>1, <1>9 DEF StoreInsert
  <1>10. CASE StoreCount(t)
    BY <1>1, <1>10 DEF StoreCount
  <1>11. CASE StorePrune(t)
    BY <1>1, <1>11 DEF StorePrune
  <1>12. CASE DiskFails(t)
    BY <1>1, <1>12 DEF DiskFails, PartDone, EndPass
  <1> QED BY <1>2, <1>3, <1>4, <1>5, <1>6, <1>7, <1>8, <1>9, <1>10, <1>11, <1>12 DEF TaskStep

\* A step of the replay moves the replay only.
LEMMA ReplayStepMoves ==
    ASSUME TypeInv, ReplayStep \/ ReplayRead
    PROVE  phase' = phase /\ \E v \in ReplayPCs : pc' = [pc EXCEPT ![Replay] = v]
  <1> USE DEF ReplayPCs
  <1>1. CASE ReplayGroup
    <2>1. PICK out \in Outcomes : ReplayGroup!(out)
      BY <1>1 DEF ReplayGroup
    <2>2. PostReturns(Replay, out)
          /\ \E v \in {"delete", "parts", "next", "idle", "move"} : pc' = [pc EXCEPT ![Replay] = v]
      BY <2>1 DEF StartParts, EndPass
    <2> QED BY <2>2 DEF PostReturns
  <1>2. CASE ReplayNext
    BY <1>2 DEF ReplayNext, EndPass
  <1>3. CASE ReplayParts
    BY <1>3 DEF ReplayParts, EndPass
  <1>4. CASE ReplayRewrite
    BY <1>4 DEF ReplayRewrite, EndPass
  <1>5. CASE ReplayDelete
    BY <1>5 DEF ReplayDelete, TypeInv, TypeOK
  <1>6. CASE ReplayMove \/ ReplayRead
    BY <1>6 DEF ReplayMove, ReplayRead
  <1> QED BY <1>1, <1>2, <1>3, <1>4, <1>5, <1>6 DEF ReplayStep

\* Every step keeps stop()'s own flush to storing.
LEMMA StopperNext == TypeInv /\ StopperShape /\ [Next]_vars => StopperShape'
  <1> SUFFICES ASSUME TypeInv, StopperShape, [Next]_vars PROVE StopperShape'
    OBVIOUS
  <1> USE DEF StopperShape
  <1>1. TypeOK /\ pc \in [Tasks -> StorerPCs \cup ReplayPCs] /\ Stopper \in Tasks
        /\ Stopper # Replay
    BY TaskFacts DEF TypeInv, TypeOK
  <1>2. ASSUME NEW t \in Tasks, TaskStep(t) \/ DiskFails(t) PROVE StopperShape'
    BY <1>1, <1>2, TaskStepMoves
  <1>3. CASE ReplayStep \/ ReplayRead
    BY <1>1, <1>3, ReplayStepMoves
  <1>4. CASE Start \/ \E kind \in Kinds : AddResult(kind)
    BY <1>1, <1>4 DEF Start, AddResult, memory
  <1>5. ASSUME NEW t \in Flushers, Flush(t) PROVE StopperShape'
    BY <1>1, <1>5, ReporterConstants DEF Flush, Stopper
  <1>6. CASE Stop
    BY <1>1, <1>6 DEF Stop
  <1>7. CASE StopEnds
    BY <1>1, <1>7 DEF StopEnds, Cancel
  <1>8. CASE Crash
    BY <1>1, <1>8 DEF Crash
  <1>9. CASE UNCHANGED vars
    BY <1>9 DEF vars, memory
  <1> QED BY <1>2, <1>3, <1>4, <1>5, <1>6, <1>7, <1>8, <1>9 DEF Next

\* The type invariant holds in every reachable state, for every value of the
\* constants: no step of any task leaves a table, a batch or a split ill-formed.
THEOREM TypeCorrect == Spec => []TypeOK
  <1>1. Init => TypeInv /\ StopperShape
    BY TypeInit, TaskFacts DEF Init, StopperShape
  <1>2. TypeInv /\ StopperShape /\ [Next]_vars => TypeInv' /\ StopperShape'
    BY TypeNext, StopperNext
  <1>3. TypeInv => TypeOK
    BY DEF TypeInv
  <1> QED BY <1>1, <1>2, <1>3, PTL DEF Spec

-----------------------------------------------------------------------------
(* What the tasks hold between two awaits, on which every safety property of   *)
(* the reporter rests.  First the rows of the table and the replay's copies.   *)

Copies == todo \cup solo \cup group[Replay]

\* Row ids are unique and never come again.
RowIds ==
    /\ \A q \in pending \cup Copies : q.id < nextId
    /\ \A q, r \in pending : q.id = r.id => q = r

\* The row at work is not among the rows still to come.
CopiesApart ==
    /\ \A q, r \in Copies : q.id = r.id => q = r
    /\ group[Replay] \cap (todo \cup solo) = {}
    /\ pc[Replay] = "idle" => group[Replay] = {}

RowInv == RowIds /\ CopiesApart /\ ReplayCopyCurrent

\* A step that inserts and rewrites no row keeps the copies current.
LEMMA RowsShrink ==
    ASSUME RowInv, pending' \subseteq pending, nextId' = nextId, Copies' \subseteq Copies,
           group'[Replay] \cap (todo' \cup solo') = {},
           pc'[Replay] = "idle" => group'[Replay] = {}
    PROVE  RowInv'
  <1>1. RowIds'
    BY DEF RowInv, RowIds
  <1>2. CopiesApart'
    BY DEF RowInv, CopiesApart
  <1>3. ReplayCopyCurrent'
    BY DEF RowInv, ReplayCopyCurrent, Copies
  <1> QED BY <1>1, <1>2, <1>3 DEF RowInv

\* A step of a flush, or of the replay inside a POST, leaves the copies alone.
LEMMA TaskCopies ==
    ASSUME TypeInv, NEW t \in Tasks, TaskStep(t)
    PROVE  /\ todo' = todo /\ solo' = solo /\ group'[Replay] = group[Replay]
           /\ pc'[Replay] = "idle" => pc[Replay] = "idle"
  <1>1. TypeOK /\ pc \in [Tasks -> StorerPCs \cup ReplayPCs] /\ group \in [Tasks -> SUBSET Row]
        /\ pc[Replay] \in ReplayPCs
    BY DEF TypeInv, TypeOK
  <1>2. CASE t # Replay
    <2>1. pc'[Replay] = pc[Replay]
      BY <1>2, TaskStepMoves, TaskFacts
    <2>2. todo' = todo /\ solo' = solo /\ group'[Replay] = group[Replay]
      <3>1. CASE Deliver(t)
        BY <1>1, <1>2, <3>1, TaskFacts DEF Deliver
      <3>2. CASE PartAnswered(t)
        BY <3>2 DEF PartAnswered
      <3>3. CASE PostFails(t) \/ PostAgain(t) \/ NextPart(t) \/ StoreCount(t) \/ StorePrune(t)
        BY <3>3 DEF PostFails, PostAgain, NextPart, StoreCount, StorePrune
      <3>4. CASE DeliverParts(t) \/ DeadLetterBatch(t) \/ StoreInsert(t)
        BY <1>1, <1>2, <3>4, TaskFacts DEF DeliverParts, DeadLetterBatch, StoreInsert
      <3> QED BY <3>1, <3>2, <3>3, <3>4 DEF TaskStep
    <2> QED BY <2>1, <2>2
  <1>3. CASE t = Replay
    <2>1. pc[Replay] \notin {"dead", "store", "count", "prune"} /\ Replay \notin Storers
      BY <1>1, TaskFacts DEF ReplayPCs
    <2>2. CASE PostFails(t) \/ PostAgain(t) \/ NextPart(t) \/ DeadLetterBatch(t)
      BY <1>1, <1>3, <2>1, <2>2, TaskFacts DEF PostFails, PostAgain, NextPart, DeadLetterBatch, PartDone
    <2>3. CASE PartAnswered(t)
      BY <1>1, <1>3, <2>3, TaskFacts DEF PartAnswered, PartDone
    <2> QED BY <1>3, <2>1, <2>2, <2>3
            DEF TaskStep, Deliver, DeliverParts, StoreInsert, StoreCount, StorePrune
  <1> QED BY <1>2, <1>3

\* Only StoreInsert and StorePrune, of the steps of a flush, touch the table.
LEMMA TaskTables ==
    ASSUME TypeInv, NEW t \in Tasks, TaskStep(t)
    PROVE  \/ pending' = pending /\ nextId' = nextId
           \/ StorePrune(t) /\ nextId' = nextId
           \/ StoreInsert(t)
  <1>1. CASE Deliver(t)
    BY <1>1 DEF Deliver, PostReturns, tables
  <1>2. CASE PartAnswered(t)
    BY <1>2 DEF PartAnswered, PostReturns, tables
  <1>3. CASE PostFails(t) \/ PostAgain(t) \/ NextPart(t) \/ StoreCount(t) \/ StorePrune(t)
    BY <1>3 DEF PostFails, PostAgain, NextPart, StoreCount, StorePrune, tables
  <1>4. CASE DeliverParts(t) \/ DeadLetterBatch(t)
    BY <1>4 DEF DeliverParts, DeadLetterBatch, tables
  <1> QED BY <1>1, <1>2, <1>3, <1>4 DEF TaskStep

\* The row a flush inserts holds the batch it had in hand.
LEMMA InsertRow ==
    ASSUME TypeInv, NEW t \in Tasks, StoreInsert(t)
    PROVE  /\ t \in Storers /\ t # Replay /\ nextId \in Nat
           /\ \E c \in Seq(Results) :
                 /\ group[t] = {[id |-> 0, checks |-> c]}
                 /\ pending' = pending \cup {[id |-> nextId, checks |-> c]}
                 /\ nextId' = nextId + 1
  <1>1. TypeOK /\ pc[t] = "store" /\ nextId \in Nat
    BY DEF TypeInv, TypeOK, StoreInsert
  <1>2. t \in Storers /\ t # Replay
    BY <1>1, TaskFacts DEF TypeOK, ReplayPCs
  <1>3. PICK c \in Seq(Results) : group[t] = {[id |-> 0, checks |-> c]}
    BY <1>1, <1>2 DEF TypeInv, OneInHand
  <1>4. Only(group[t]) = [id |-> 0, checks |-> c]
    BY <1>3, OnlyOfOne
  <1>5. Only(group[t]).checks = c
    BY <1>4
  <1> QED BY <1>1, <1>2, <1>3, <1>5 DEF StoreInsert, NewId

\* A step of a flush keeps the copies current.
LEMMA RowsTaskStep ==
    ASSUME TypeInv, RowInv, NEW t \in Tasks, TaskStep(t) PROVE RowInv'
  <1>1. /\ todo' = todo /\ solo' = solo /\ group'[Replay] = group[Replay]
        /\ pc'[Replay] = "idle" => pc[Replay] = "idle"
    BY TaskCopies
  <1>2. Copies' = Copies
    BY <1>1 DEF Copies
  <1>3. CASE pending' \subseteq pending /\ nextId' = nextId
    BY <1>1, <1>2, <1>3, RowsShrink DEF RowInv, CopiesApart
  <1>4. CASE StoreInsert(t)
    <2>1. PICK c \in Seq(Results) :
             /\ group[t] = {[id |-> 0, checks |-> c]}
             /\ pending' = pending \cup {[id |-> nextId, checks |-> c]}
             /\ nextId' = nextId + 1
      BY <1>4, InsertRow
    <2>2. nextId \in Nat /\ \A q \in pending \cup Copies : q.id \in Nat
      BY DEF TypeInv, TypeOK, Copies, Row, Tasks
    <2>3. RowIds'
      BY <1>2, <2>1, <2>2 DEF RowInv, RowIds
    <2>4. CopiesApart'
      BY <1>1, <1>2 DEF RowInv, CopiesApart
    <2>5. \A q \in Copies : q.id # nextId
      BY <2>2 DEF RowInv, RowIds
    <2>6. ReplayCopyCurrent'
      BY <1>2, <2>1, <2>5 DEF RowInv, ReplayCopyCurrent, Copies
    <2> QED BY <2>3, <2>4, <2>6 DEF RowInv
  <1>5. StorePrune(t) => pending' \subseteq pending
    BY DEF StorePrune
  <1> QED BY <1>3, <1>4, <1>5, TaskTables

\* The rows read from the table are copies of rows of the table.
LEMMA RowsReplayRead ==
    ASSUME TypeInv, RowInv, ReplayRead PROVE RowInv'
  <1> DEFINE rows == IF FreeRows = {} THEN Oldest(pending, MaxFiles) ELSE FreeRows
  <1>1. rows \subseteq pending
    BY DEF FreeRows, Oldest
  <1>2. PICK corrupt \in SUBSET rows : pending' = pending \ corrupt /\ todo' = rows \ corrupt
    BY DEF ReplayRead
  <1>3. /\ pc[Replay] = "idle" /\ pc'[Replay] = "next"
        /\ UNCHANGED <<group, solo, nextId>>
    BY TaskFacts DEF ReplayRead, TypeInv, TypeOK
  <1>4. group[Replay] = {} /\ todo' \subseteq pending' /\ Copies' = todo' \cup solo
        /\ pending' \subseteq pending
    BY <1>1, <1>2, <1>3 DEF RowInv, CopiesApart, Copies
  <1>5. RowIds'
    BY <1>3, <1>4 DEF RowInv, RowIds, Copies
  <1>6. \A q \in solo : \A r \in pending : r.id = q.id => r = q
    BY DEF RowInv, ReplayCopyCurrent
  <1>7. \A q, r \in pending : q.id = r.id => q = r
    BY DEF RowInv, RowIds
  <1>8. CopiesApart'
    BY <1>3, <1>4, <1>6, <1>7 DEF RowInv, CopiesApart, Copies
  <1>9. ReplayCopyCurrent'
    BY <1>3, <1>4, <1>6, <1>7 DEF ReplayCopyCurrent
  <1> QED BY <1>5, <1>8, <1>9 DEF RowInv

\* The end of a pass drops every copy.
LEMMA RowsEndPass ==
    ASSUME TypeInv, EndPass
    PROVE  Copies' = {} /\ group'[Replay] = {} /\ todo' = {} /\ solo' = {}
  BY TaskFacts DEF TypeInv, TypeOK, EndPass, Copies

\* The replay's next group comes out of the rows it has read.
LEMMA RowsReplayNext ==
    ASSUME TypeInv, RowInv, ReplayNext PROVE RowInv' /\ Copies' \subseteq Copies
  <1>1. pending' = pending /\ nextId' = nextId
    BY DEF ReplayNext, tables
  <1>2. CASE EndPass
    BY <1>1, <1>2, RowsEndPass, RowsShrink
  <1>3. CASE /\ LET rows == IF solo # {} THEN Oldest(solo, 1) ELSE NextGroup(todo)
                IN  /\ group' = [group EXCEPT ![Replay] = rows]
                    /\ solo' = solo \ rows
                    /\ todo' = todo \ rows
             /\ pc' = [pc EXCEPT ![Replay] = "post"]
    <2> DEFINE rows == IF solo # {} THEN Oldest(solo, 1) ELSE NextGroup(todo)
    <2>1. rows \subseteq solo \cup todo
      BY OldestFinite, NextGroupFacts DEF TypeInv, TypeOK
    <2> HIDE DEF rows
    <2>2. group' = [group EXCEPT ![Replay] = rows] /\ solo' = solo \ rows /\ todo' = todo \ rows
      BY <1>3 DEF rows
    <2>3. group'[Replay] = rows /\ pc'[Replay] = "post"
      BY <1>3, <2>2, TaskFacts DEF TypeInv, TypeOK
    <2> QED BY <1>1, <2>1, <2>2, <2>3, RowsShrink DEF Copies
  <1> QED BY <1>2, <1>3 DEF ReplayNext

\* What the replay does with the answer to a group's POST touches no row.
LEMMA RowsReplayGroup ==
    ASSUME TypeInv, RowInv, ReplayGroup PROVE RowInv' /\ Copies' \subseteq Copies
  <1>1. PICK out \in Outcomes : ReplayGroup!(out)
    BY DEF ReplayGroup
  <1>2. pending' = pending /\ nextId' = nextId
    BY <1>1 DEF PostReturns, tables
  <1>3. CASE EndPass
    BY <1>2, <1>3, RowsEndPass, RowsShrink
  <1>4. CASE ~EndPass
    <2>1. \E v \in {"delete", "parts", "next", "move"} : pc' = [pc EXCEPT ![Replay] = v]
      BY <1>1, <1>4 DEF StartParts
    <2>2. pc'[Replay] # "idle"
      BY <2>1, TaskFacts DEF TypeInv, TypeOK
    <2>3. \/ UNCHANGED <<group, todo, solo>>
          \/ group' = [group EXCEPT ![Replay] = {}] /\ UNCHANGED <<todo, solo>>
          \/ group' = [group EXCEPT ![Replay] = {}] /\ solo' = group[Replay] /\ UNCHANGED todo
      BY <1>1, <1>4
    <2>4. \/ group'[Replay] = group[Replay] /\ UNCHANGED <<todo, solo>>
          \/ group'[Replay] = {} /\ UNCHANGED <<todo, solo>>
          \/ group'[Replay] = {} /\ solo' = group[Replay] /\ UNCHANGED todo
      BY <2>3, TaskFacts DEF TypeInv, TypeOK
    <2>5. Copies' \subseteq Copies /\ group'[Replay] \cap (todo' \cup solo') = {}
      BY <2>4 DEF Copies, RowInv, CopiesApart
    <2> QED BY <1>2, <2>2, <2>5, RowsShrink
  <1> QED BY <1>3, <1>4

\* The end of _send_in_parts touches no row.
LEMMA RowsReplayParts ==
    ASSUME TypeInv, RowInv, ReplayParts PROVE RowInv' /\ Copies' \subseteq Copies
  <1>1. pending' = pending /\ nextId' = nextId
    BY DEF ReplayParts, tables
  <1>2. CASE EndPass
    BY <1>1, <1>2, RowsEndPass, RowsShrink
  <1>3. CASE ~EndPass
    <2>1. /\ \E v \in {"delete", "rewrite", "next"} : pc' = [pc EXCEPT ![Replay] = v]
          /\ group' = group \/ group' = [group EXCEPT ![Replay] = {}]
          /\ UNCHANGED <<todo, solo>>
      BY <1>3 DEF ReplayParts
    <2>2. pc'[Replay] # "idle" /\ (group'[Replay] = group[Replay] \/ group'[Replay] = {})
      BY <2>1, TaskFacts DEF TypeInv, TypeOK
    <2> QED BY <1>1, <2>1, <2>2, RowsShrink DEF Copies, RowInv, CopiesApart
  <1> QED BY <1>2, <1>3

\* What a rewrite does to the table: one row, if it is still there, shrinks to
\* what is left of it.
LEMMA RewriteRows ==
    ASSUME TypeInv, RowInv, ReplayRewrite
    PROVE  \E r \in Row :
             /\ group[Replay] = {r}
             /\ \A q \in pending : q.id = r.id => q = r
             /\ pending' = {IF q.id = r.id THEN [q EXCEPT !.checks = Unsent(Replay)] ELSE q
                               : q \in pending}
             /\ group'[Replay] = {} /\ todo' \subseteq todo /\ solo' \subseteq solo
             /\ pc'[Replay] \in {"idle", "next"}
  <1>1. PICK r \in Row : group[Replay] = {r}
    BY DEF TypeInv, OneInHand, ReplayRewrite
  <1>2. Only(group[Replay]) = r
    BY <1>1, OnlyOfOne
  <1>3. \A q \in pending : q.id = r.id => q = r
    BY <1>1 DEF RowInv, ReplayCopyCurrent
  <1>4. pending' = {IF q.id = r.id THEN [q EXCEPT !.checks = Unsent(Replay)] ELSE q : q \in pending}
    BY <1>2 DEF ReplayRewrite
  <1>5. group'[Replay] = {} /\ todo' \subseteq todo /\ solo' \subseteq solo
        /\ pc'[Replay] \in {"idle", "next"}
    <2>1. /\ pc' = [pc EXCEPT ![Replay] = "idle"] \/ pc' = [pc EXCEPT ![Replay] = "next"]
          /\ group' = [group EXCEPT ![Replay] = {}]
          /\ todo' \subseteq todo /\ solo' \subseteq solo
      BY DEF ReplayRewrite, EndPass
    <2> QED BY <2>1, TaskFacts DEF TypeInv, TypeOK
  <1> QED BY <1>1, <1>3, <1>4, <1>5

\* A rewrite reaches the row the replay tried and no other copy's row.
LEMMA RowsReplayRewrite ==
    ASSUME TypeInv, RowInv, ReplayRewrite PROVE RowInv' /\ Copies' \subseteq Copies
  <1>1. PICK r \in Row :
             /\ group[Replay] = {r}
             /\ \A q \in pending : q.id = r.id => q = r
             /\ pending' = {IF q.id = r.id THEN [q EXCEPT !.checks = Unsent(Replay)] ELSE q
                               : q \in pending}
             /\ group'[Replay] = {} /\ todo' \subseteq todo /\ solo' \subseteq solo
             /\ pc'[Replay] \in {"idle", "next"}
    BY RewriteRows
  <1>2. nextId' = nextId /\ pending \subseteq Row
    BY DEF ReplayRewrite, TypeInv, TypeOK
  <1> DEFINE new == [r EXCEPT !.checks = Unsent(Replay)]
  <1>3. new.id = r.id
    BY DEF Row
  <1>4. \A p \in pending' : (p = new /\ r \in pending) \/ (p \in pending /\ p.id # r.id)
    BY <1>1
  <1> HIDE DEF new
  <1>5. Copies' = todo' \cup solo' /\ Copies' \subseteq Copies
    BY <1>1 DEF Copies
  <1>6. \A q \in Copies' : q.id # r.id
    <2> SUFFICES ASSUME NEW q \in todo \cup solo, q.id = r.id PROVE FALSE
      BY <1>1, <1>5
    <2>1. q = r
      BY <1>1 DEF RowInv, CopiesApart, Copies
    <2> QED BY <1>1, <2>1 DEF RowInv, CopiesApart
  <1>7. RowIds'
    BY <1>2, <1>3, <1>4, <1>5 DEF RowInv, RowIds
  <1>8. CopiesApart'
    BY <1>1, <1>5 DEF RowInv, CopiesApart
  <1>9. ReplayCopyCurrent'
    <2>1. \A q \in Copies' : \A p \in pending' : p.id = q.id => p = q
      BY <1>3, <1>4, <1>5, <1>6 DEF RowInv, ReplayCopyCurrent, Copies
    <2> QED BY <2>1 DEF ReplayCopyCurrent, Copies
  <1> QED BY <1>5, <1>7, <1>8, <1>9 DEF RowInv

\* A delete or a move to the dead letters removes rows only.
LEMMA RowsReplayDelete ==
    ASSUME TypeInv, RowInv, ReplayDelete \/ ReplayMove PROVE RowInv' /\ Copies' \subseteq Copies
  <1>1. /\ pending' \subseteq pending /\ UNCHANGED <<nextId, todo, solo>>
        /\ \/ group' = [group EXCEPT ![Replay] = @ \ Oldest(group[Replay], 1)]
           \/ group' = [group EXCEPT ![Replay] = {}]
        /\ pc' = [pc EXCEPT ![Replay] = "next"] \/ pc' = pc
        /\ pc[Replay] \in {"delete", "move"}
    <2>1. CASE ReplayDelete
      BY <2>1 DEF ReplayDelete, TypeInv, TypeOK
    <2>2. CASE ReplayMove
      BY <2>2 DEF ReplayMove
    <2> QED BY <2>1, <2>2
  <1>2. pc'[Replay] # "idle" /\ group'[Replay] \subseteq group[Replay]
    BY <1>1, TaskFacts DEF TypeInv, TypeOK
  <1> QED BY <1>1, <1>2, RowsShrink DEF Copies, RowInv, CopiesApart

\* A failed SQLite call, a stop and a crash change no row.
LEMMA RowsFailures ==
    ASSUME TypeInv, StopperShape, RowInv,
           (\E t \in Tasks : DiskFails(t)) \/ Stop \/ StopEnds \/ Crash
    PROVE  RowInv' /\ Copies' \subseteq Copies
  <1>1. ASSUME NEW t \in Tasks, DiskFails(t) PROVE RowInv' /\ Copies' \subseteq Copies
    <2>1. pending' = pending /\ nextId' = nextId
      BY <1>1 DEF DiskFails, tables
    <2>2. CASE EndPass
      BY <2>1, <2>2, RowsEndPass, RowsShrink
    <2>3. CASE ~EndPass
      <3>1. todo' = todo /\ solo' = solo /\ group'[Replay] = group[Replay]
            /\ (pc'[Replay] = "idle" => pc[Replay] = "idle")
        BY <1>1, <2>3, TaskFacts DEF DiskFails, TypeInv, TypeOK, ReplayPCs, PartDone
      <3> QED BY <2>1, <3>1, RowsShrink DEF Copies, RowInv, CopiesApart
    <2> QED BY <2>2, <2>3
  <1>2. CASE Stop
    <2>1. /\ UNCHANGED <<pending, nextId, todo, solo>>
          /\ group'[Replay] = group[Replay] /\ pc'[Replay] = pc[Replay]
      BY <1>2, TaskFacts DEF Stop, tables
    <2> QED BY <2>1, RowsShrink DEF Copies, RowInv, CopiesApart
  <1>3. CASE StopEnds \/ Crash
    <2>1. UNCHANGED <<pending, nextId>> /\ todo' = {} /\ solo' = {} /\ group'[Replay] = {}
      BY <1>3, TaskFacts DEF StopEnds, Crash, tables
    <2> QED BY <2>1, RowsShrink DEF Copies
  <1> QED BY <1>1, <1>2, <1>3

\* Every step keeps the row ids unique and the replay's copies current.
LEMMA RowsNext == TypeInv /\ StopperShape /\ RowInv /\ [Next]_vars => RowInv'
  <1> SUFFICES ASSUME TypeInv, StopperShape, RowInv, [Next]_vars PROVE RowInv'
    OBVIOUS
  <1>1. CASE UNCHANGED vars
    BY <1>1, RowsShrink DEF vars, memory, tables, Copies, RowInv, CopiesApart
  <1>2. CASE Start \/ \E kind \in Kinds : AddResult(kind)
    <2>1. UNCHANGED <<pending, nextId, todo, solo, group, pc>>
      BY <1>2 DEF Start, AddResult, memory, tables
    <2> QED BY <2>1, RowsShrink DEF Copies, RowInv, CopiesApart
  <1>3. ASSUME NEW t \in Flushers, Flush(t) PROVE RowInv'
    <2>1. UNCHANGED <<pending, nextId, todo, solo>>
          /\ group'[Replay] = group[Replay] /\ pc'[Replay] = pc[Replay]
      BY <1>3, TaskFacts DEF Flush, tables, TypeInv, TypeOK
    <2> QED BY <2>1, RowsShrink DEF Copies, RowInv, CopiesApart
  <1>4. CASE ReplayStep
    BY <1>4, RowsReplayNext, RowsReplayGroup, RowsReplayParts, RowsReplayRewrite,
       RowsReplayDelete DEF ReplayStep
  <1> QED BY <1>1, <1>2, <1>3, <1>4, RowsTaskStep, RowsReplayRead, RowsFailures DEF Next

\* The replay works on rows as they are, for every value of the constants: a
\* rewrite, a delete or a move never hits results the replay did not try.
THEOREM CopiesCurrent == Spec => []ReplayCopyCurrent
  <1> DEFINE Inv == TypeInv /\ StopperShape /\ RowInv
  <1>1. Init => Inv
    <2> SUFFICES ASSUME Init PROVE RowInv
      BY TypeInit, TaskFacts DEF Init, StopperShape
    <2> QED BY TaskFacts DEF Init, RowInv, RowIds, CopiesApart, ReplayCopyCurrent, Copies
  <1>2. Inv /\ [Next]_vars => Inv'
    BY TypeNext, StopperNext, RowsNext
  <1>3. Inv => ReplayCopyCurrent
    BY DEF RowInv
  <1> QED BY <1>1, <1>2, <1>3, PTL DEF Spec

-----------------------------------------------------------------------------
(* What the tasks hold between two awaits.                                     *)

\* Where a task is inside _send_in_parts, and the results its locals s hold.
InParts       == {"parts", "post_part", "sleep_part", "dead_part"}
SplitHolds(s) == Letters(s.work) \cup Range(s.part) \cup Range(s.untried) \cup Range(s.refused)

\* Between two parts none is at work, and a rewrite has nothing left to try.
SplitShape ==
    /\ \A t \in Tasks : pc[t] = "parts" => split[t].part = <<>>
    /\ pc[Replay] = "rewrite" => split[Replay].work = <<>> /\ split[Replay].part = <<>>

\* A flush that is not delivering holds nothing.
HandShape == \A t \in Storers : pc[t] \in {"idle", "count", "prune"} => group[t] = {}

\* What the replay has taken off a row is settled: all of it before a delete,
\* all but the rest it is about to write back before a rewrite.
ReplayShape ==
    /\ pc[Replay] \in InParts \cup {"rewrite"} =>
          /\ SplitHolds(split[Replay]) \subseteq Contents(group[Replay])
          /\ Contents(group[Replay]) \subseteq SplitHolds(split[Replay]) \cup Settled
    /\ pc[Replay] = "delete" => Contents(group[Replay]) \subseteq Settled

LedgerInv == SplitShape /\ HandShape /\ ReplayShape

\* The locals of _send_in_parts, as a value.
LEMMA SplitHolding ==
    ASSUME NEW s \in Splits
    PROVE  /\ s.work \in Seq(Seq(Results)) /\ s.part \in Seq(Results)
           /\ s.untried \in Seq(Results) /\ s.refused \in Seq(Results)
           /\ Range(s.untried \o s.refused) = Range(s.untried) \cup Range(s.refused)
  <1>1. /\ s.work \in Seq(Seq(Results)) /\ s.part \in Seq(Results)
        /\ s.untried \in Seq(Results) /\ s.refused \in Seq(Results)
    BY DEF Splits
  <1> QED BY <1>1, RangeConcat

\* Nothing in an empty list.
LEMMA EmptyRange == Range(<<>>) = {} /\ Letters(<<>>) = {}
  BY DEF Range, Letters

\* What a task has in hand, by where it is.
LEMMA InHandIs ==
    ASSUME NEW t, split[t] \in Splits
    PROVE  InHand(t) = IF pc[t] \in InParts THEN SplitHolds(split[t]) ELSE Contents(group[t])
  BY SplitHolding DEF InHand, InParts, SplitHolds, Unsent

\* The same of the next state.
LEMMA InHandIsNext ==
    ASSUME NEW t, split'[t] \in Splits
    PROVE  InHand(t)' = IF pc'[t] \in InParts THEN SplitHolds(split'[t]) ELSE Contents(group'[t])
  BY SplitHolding DEF InHand, InParts, SplitHolds, Unsent

\* One row's results.
LEMMA ContentsOne ==
    ASSUME NEW r PROVE Contents({r}) = Range(r.checks)
  BY DEF Contents

\* The results of rows, by membership.
LEMMA ContentsIs ==
    ASSUME NEW rows
    PROVE  \A x : x \in Contents(rows) <=> \E r \in rows : x \in Range(r.checks)
  BY DEF Contents

\* A batch given up is on the ledger of losses.
LEMMA DropLost ==
    ASSUME TypeOK, NEW why \in Losses, NEW S, Drop(why, S)
    PROVE  Lost' = Lost \cup S
  <1>1. lost' = [lost EXCEPT ![why] = @ \cup S] /\ lost \in [Losses -> SUBSET Results]
    BY DEF Drop, TypeOK
  <1>2. lost'[why] = lost[why] \cup S /\ \A w \in Losses \ {why} : lost'[w] = lost[w]
    BY <1>1
  <1>3. \A x : x \in Lost <=> \E w \in Losses : x \in lost[w]
    BY DEF Lost
  <1>4. \A x : x \in Lost' <=> \E w \in Losses : x \in lost'[w]
    BY DEF Lost
  <1> QED BY <1>2, <1>3, <1>4

\* A dead letter goes to the table, and what its cap pushes out is given up.
LEMMA InsertDeadKeeps ==
    ASSUME TypeOK, NEW checks \in Seq(Results), InsertDead(checks)
    PROVE  /\ Letters(dead) \cup Range(checks) \subseteq Letters(dead') \cup Lost'
           /\ Lost \subseteq Lost'
           /\ Range(dead') \subseteq Range(dead) \cup {checks}
  <1>1. Drop("dead_cap", (Letters(dead) \cup Range(checks)) \ Letters(dead'))
        /\ "dead_cap" \in Losses
    BY DEF InsertDead, Losses
  <1>2. Lost' = Lost \cup ((Letters(dead) \cup Range(checks)) \ Letters(dead'))
    BY <1>1, DropLost
  <1>3. dead \in Seq(Seq(Results)) /\ Append(dead, checks) \in Seq(Seq(Results)) /\ MaxDead \in Nat
    BY ReporterConstants DEF TypeOK
  <1>4. Range(dead') \subseteq Range(Append(dead, checks))
    BY <1>3, NewestProperties DEF InsertDead
  <1>5. Range(Append(dead, checks)) \subseteq Range(dead) \cup {checks}
    <2> DEFINE a == Append(dead, checks)
    <2>1. \A i \in DOMAIN a : a[i] = checks \/ (i \in DOMAIN dead /\ a[i] = dead[i])
      BY <1>3
    <2> HIDE DEF a
    <2>2. Range(a) \subseteq Range(dead) \cup {checks}
      BY <2>1 DEF Range
    <2> QED BY <2>2 DEF a
  <1> QED BY <1>2, <1>4, <1>5

\* What an outcome of _post_batch says of the payload.
LEMMA PostOutcome ==
    ASSUME NEW t, NEW out, PostReturns(t, out)
    PROVE  /\ received \subseteq received' /\ UNCHANGED <<phase, made, batch, pending, nextId, dead, lost>>
           /\ out = "sent" => Payload(t) \subseteq received'
           /\ out = "permanent" => Verdict(Payload(t)) = "permanent"
  BY DEF PostReturns, Answer, tables

\* Settled results stay settled when the tables of letters and losses only grow.
LEMMA SettledGrows ==
    ASSUME received \subseteq received', Letters(dead) \subseteq Letters(dead') \cup Lost',
           Lost \subseteq Lost'
    PROVE  Settled \subseteq Settled'
  BY DEF Settled

\* One part fewer to try: the results of the work list and of the part at work
\* are where the loop of _send_in_parts put them.
LEMMA NextPartHolds ==
    ASSUME TypeInv, LedgerInv, NEW t \in Tasks, NextPart(t)
    PROVE  /\ split'[t] \in Splits /\ SplitHolds(split'[t]) = SplitHolds(split[t])
           /\ pc'[t] = "parts" => split'[t].part = <<>>
           /\ pc'[t] \in InParts /\ pc[t] \in InParts
  <1> DEFINE s == split[t]
             first == Head(s.work)
             rest == [s EXCEPT !.work = Tail(@)]
  <1>1. TypeOK /\ pc[t] = "parts" /\ s.work # <<>> /\ s.part = <<>> /\ s \in Splits
        /\ split \in [Tasks -> Splits] /\ pc \in [Tasks -> StorerPCs \cup ReplayPCs]
    BY DEF TypeInv, TypeOK, NextPart, LedgerInv, SplitShape
  <1>2. s.work \in Seq(Seq(Results)) /\ s.untried \in Seq(Results)
    BY <1>1, SplitHolding
  <1>3. first \in Seq(Results) /\ Tail(s.work) \in Seq(Seq(Results))
        /\ Letters(s.work) = Range(first) \cup Letters(Tail(s.work))
    BY <1>1, <1>2, LettersPop
  <1>4. Range(s.untried \o first) = Range(s.untried) \cup Range(first)
    BY <1>2, <1>3, RangeConcat
  <1>5. split' \in [Tasks -> Splits]
    <2>1. TypeInv'
      BY TypeNextPart
    <2> QED BY <2>1 DEF TypeInv, TypeOK
  <1>6. \/ split'[t] = [rest EXCEPT !.part = first] /\ pc'[t] = "post_part"
        \/ split'[t] = [rest EXCEPT !.untried = @ \o first] /\ pc'[t] = "parts"
        \/ split'[t] = [rest EXCEPT !.untried = @ \o first, !.stop = "transient"] /\ pc'[t] = "parts"
    BY <1>1 DEF NextPart
  <1>7. rest.work = Tail(s.work) /\ rest.part = <<>> /\ rest.untried = s.untried
        /\ rest.refused = s.refused /\ rest \in Splits
    BY <1>1, <1>3 DEF Splits
  <1> HIDE DEF rest, first
  <1> DEFINE n == split'[t]
  <1>8. \/ n.work = Tail(s.work) /\ n.part = first /\ n.untried = s.untried /\ n.refused = s.refused
           /\ pc'[t] = "post_part"
        \/ n.work = Tail(s.work) /\ n.part = <<>> /\ n.untried = s.untried \o first
           /\ n.refused = s.refused /\ pc'[t] = "parts"
    BY <1>6, <1>7 DEF Splits
  <1> HIDE DEF n
  <1>9. SplitHolds(n) = SplitHolds(s)
    BY <1>1, <1>3, <1>4, <1>8, EmptyRange DEF SplitHolds
  <1> QED BY <1>1, <1>5, <1>8, <1>9 DEF n, InParts

\* What the loop of _send_in_parts goes on with after a part.
LEMMA PartDoneFields ==
    ASSUME TypeInv, NEW t \in Tasks, NEW x \in Splits, PartDone(t, x)
    PROVE  /\ pc'[t] = "parts" /\ split'[t] \in Splits /\ split'[t].part = <<>>
           /\ split'[t].work = x.work /\ split'[t].untried = x.untried
           /\ split'[t].refused = x.refused
  <1>1. split \in [Tasks -> Splits] /\ pc \in [Tasks -> StorerPCs \cup ReplayPCs]
    BY DEF TypeInv, TypeOK
  <1>2. split'[t] = [x EXCEPT !.part = <<>>] /\ pc'[t] = "parts"
    BY <1>1 DEF PartDone
  <1>3. split'[t] \in Splits
    BY <1>1, PartDoneType DEF TypeInv
  <1> QED BY <1>2, <1>3 DEF Splits

\* A part is answered: what leaves the locals of _send_in_parts is received.
LEMMA PartAnsweredHolds ==
    ASSUME TypeInv, LedgerInv, NEW t \in Tasks, PartAnswered(t)
    PROVE  /\ split'[t] \in Splits
           /\ SplitHolds(split'[t]) \subseteq SplitHolds(split[t])
           /\ SplitHolds(split[t]) \subseteq SplitHolds(split'[t]) \cup received'
           /\ pc'[t] = "parts" => split'[t].part = <<>>
           /\ pc'[t] \in {"parts", "dead_part"} /\ pc[t] \in InParts
           /\ pc'[t] = "dead_part" => /\ split'[t] = split[t]
                                      /\ Verdict(Range(split[t].part)) = "permanent"
  <1> DEFINE s == split[t]
  <1>1. PICK out \in Outcomes : PartAnswered(t)!(out)
    BY DEF PartAnswered
  <1>2. TypeOK /\ PostReturns(t, out) /\ InPart(t) /\ s \in Splits
        /\ split \in [Tasks -> Splits] /\ pc \in [Tasks -> StorerPCs \cup ReplayPCs]
    BY <1>1 DEF TypeInv, TypeOK
  <1>3. pc[t] \in InParts /\ Payload(t) = Range(s.part)
    BY <1>2 DEF InPart, InParts, Payload
  <1>4. s.work \in Seq(Seq(Results)) /\ s.part \in Seq(Results) /\ s.untried \in Seq(Results)
        /\ s.refused \in Seq(Results)
    BY <1>2, SplitHolding
  <1>5. /\ Range(s.untried \o s.part) = Range(s.untried) \cup Range(s.part)
        /\ Range(s.refused \o s.part) = Range(s.refused) \cup Range(s.part)
        /\ Letters(Halves(s.part) \o s.work) = Range(s.part) \cup Letters(s.work)
    BY <1>4, RangeConcat, HalvesProperties, LettersConcat
  <1>6. split'[t] \in Splits
    <2>1. TypeInv'
      BY TypePartAnswered
    <2> QED BY <2>1 DEF TypeInv, TypeOK
  <1> DEFINE n == split'[t]
  <1>7. \/ /\ out = "sent" /\ pc'[t] = "parts" /\ n.part = <<>>
           /\ n.work = s.work /\ n.untried = s.untried /\ n.refused = s.refused
        \/ out = "permanent" /\ pc'[t] = "dead_part" /\ n = s
        \/ /\ pc'[t] = "parts" /\ n.part = <<>>
           /\ n.work = Halves(s.part) \o s.work /\ n.untried = s.untried /\ n.refused = s.refused
        \/ /\ pc'[t] = "parts" /\ n.part = <<>>
           /\ n.work = s.work /\ n.untried = s.untried /\ n.refused = s.refused \o s.part
        \/ /\ pc'[t] = "parts" /\ n.part = <<>>
           /\ n.work = s.work /\ n.untried = s.untried \o s.part /\ n.refused = s.refused
    <2>1. CASE out = "permanent"
      BY <1>1, <1>2, <2>1
    <2>2. CASE out = "sent"
      <3> DEFINE x == [s EXCEPT !.sent = TRUE]
      <3>1. x \in Splits /\ x.work = s.work /\ x.untried = s.untried /\ x.refused = s.refused
        BY <1>2 DEF Splits
      <3> HIDE DEF x
      <3>2. PartDone(t, x)
        BY <1>1, <2>2 DEF x
      <3> QED BY <2>2, <3>1, <3>2, PartDoneFields
    <2>3. CASE out = "transient"
      <3> DEFINE x == [s EXCEPT !.untried = @ \o s.part, !.stop = "transient"]
      <3>1. x \in Splits /\ x.work = s.work /\ x.untried = s.untried \o s.part
            /\ x.refused = s.refused
        BY <1>2, <1>4, RangeConcat DEF Splits
      <3> HIDE DEF x
      <3>2. PartDone(t, x)
        BY <1>1, <2>3 DEF x
      <3> QED BY <2>3, <3>1, <3>2, PartDoneFields
    <2>4. CASE out = "too_large" /\ Len(s.part) > 1
      <3> DEFINE x == [s EXCEPT !.work = Halves(s.part) \o @]
      <3>1. Halves(s.part) \o s.work \in Seq(Seq(Results))
        BY <1>4, HalvesProperties, LettersConcat
      <3>2. x \in Splits /\ x.work = Halves(s.part) \o s.work /\ x.untried = s.untried
            /\ x.refused = s.refused
        BY <1>2, <3>1 DEF Splits
      <3> HIDE DEF x
      <3>3. ~(Len(s.part) <= 1)
        BY <1>4, <2>4
      <3>4. PartDone(t, x)
        BY <1>1, <2>4, <3>3 DEF x
      <3> QED BY <2>4, <3>2, <3>4, PartDoneFields
    <2>5. CASE out = "too_large" /\ ~(Len(s.part) > 1)
      <3> DEFINE big == IF Len(s.refused \o s.part) >= 2 /\ ~s.sent THEN "too_large" ELSE s.stop
                 x == [s EXCEPT !.refused = s.refused \o s.part, !.stop = big]
      <3>1. s.refused \o s.part \in Seq(Results) /\ big \in {"none", "too_large", "transient"}
        BY <1>2, <1>4, RangeConcat DEF Splits
      <3>2. PartDone(t, x)
        BY <1>1, <2>5
      <3> HIDE DEF big
      <3>3. x \in Splits /\ x.work = s.work /\ x.untried = s.untried
            /\ x.refused = s.refused \o s.part
        BY <1>2, <3>1 DEF Splits
      <3> HIDE DEF x
      <3> QED BY <2>5, <3>2, <3>3, PartDoneFields
    <2> QED BY <2>1, <2>2, <2>3, <2>4, <2>5 DEF Outcomes
  <1> HIDE DEF n
  <1>8. out = "sent" => Range(s.part) \subseteq received'
    BY <1>2, <1>3, PostOutcome
  <1>9. out = "permanent" => Verdict(Range(s.part)) = "permanent"
    BY <1>2, <1>3, PostOutcome
  <1>10. SplitHolds(n) \subseteq SplitHolds(s) /\ SplitHolds(s) \subseteq SplitHolds(n) \cup received'
    BY <1>5, <1>7, <1>8, EmptyRange DEF SplitHolds
  <1> QED BY <1>3, <1>6, <1>7, <1>9, <1>10 DEF n, InParts

\* A part is a dead letter, or SQLite refused it: it leaves the locals.
LEMMA PartDropped ==
    ASSUME TypeInv, NEW t \in Tasks, PartDone(t, split[t])
    PROVE  /\ split'[t] \in Splits /\ split'[t].part = <<>> /\ pc'[t] = "parts"
           /\ SplitHolds(split[t]) = SplitHolds(split'[t]) \cup Range(split[t].part)
  <1> DEFINE s == split[t]
             n == split'[t]
  <1>1. s \in Splits
    BY DEF TypeInv, TypeOK
  <1>2. /\ pc'[t] = "parts" /\ n \in Splits /\ n.part = <<>>
        /\ n.work = s.work /\ n.untried = s.untried /\ n.refused = s.refused
    BY <1>1, PartDoneFields
  <1> HIDE DEF n
  <1>3. SplitHolds(s) = SplitHolds(n) \cup Range(s.part)
    BY <1>2, EmptyRange DEF SplitHolds
  <1> QED BY <1>2, <1>3 DEF n

-----------------------------------------------------------------------------
(* A step of one task hands its results on: it loses none and invents none.    *)

\* The other tasks stay where they are.
Others(t) ==
    \A u \in Tasks \ {t} : pc'[u] = pc[u] /\ group'[u] = group[u] /\ split'[u] = split[u]

\* What the task itself is left with has the shape LedgerInv asks for.
Tidy(t) ==
    /\ pc'[t] = "parts" => split'[t].part = <<>>
    /\ t \in Storers /\ pc'[t] \in {"idle", "count", "prune"} => group'[t] = {}
    /\ t = Replay =>
          /\ ReplayShape'
          /\ pc'[t] = "rewrite" => split'[t].work = <<>> /\ split'[t].part = <<>>

\* Results move from the hand of a flush to a row or to their fate, and from a
\* row to their fate, and no other way.
HandsOn(t) ==
    /\ UNCHANGED <<made, batch>> /\ Others(t)
    /\ Settled \subseteq Settled'
    /\ t \in Storers =>
          /\ InHand(t)' \subseteq InHand(t)
          /\ InHand(t) \subseteq InHand(t)' \cup Settled' \cup Contents(pending')
    /\ Contents(pending) \subseteq Contents(pending') \cup Settled'
    /\ Contents(pending') \subseteq Contents(pending) \cup (IF t \in Storers THEN InHand(t) ELSE {})

\* A step of a task moves that task alone.
LEMMA TaskOthers ==
    ASSUME TypeInv, NEW t \in Tasks, TaskStep(t) PROVE Others(t)
  <1>1. /\ pc \in [Tasks -> StorerPCs \cup ReplayPCs] /\ group \in [Tasks -> SUBSET Row]
        /\ split \in [Tasks -> Splits]
    BY DEF TypeInv, TypeOK
  <1> USE DEF Others
  <1>2. CASE Deliver(t)
    BY <1>1, <1>2 DEF Deliver, StartParts
  <1>3. CASE PartAnswered(t)
    BY <1>1, <1>3 DEF PartAnswered, PartDone
  <1>4. CASE PostFails(t) \/ PostAgain(t) \/ NextPart(t) \/ StoreCount(t) \/ StorePrune(t)
    BY <1>1, <1>4 DEF PostFails, PostAgain, NextPart, StoreCount, StorePrune
  <1>5. CASE DeliverParts(t) \/ DeadLetterBatch(t) \/ StoreInsert(t)
    BY <1>1, <1>5 DEF DeliverParts, DeadLetterBatch, StoreInsert, PartDone
  <1> QED BY <1>2, <1>3, <1>4, <1>5 DEF TaskStep

\* A failed SQLite call concerns one task.
LEMMA DiskOthers ==
    ASSUME TypeInv, NEW t \in Tasks, DiskFails(t) PROVE Others(t)
  BY DEF DiskFails, PartDone, EndPass, Others, TypeInv, TypeOK

\* A step of the replay moves the replay alone.
LEMMA ReplayOthers ==
    ASSUME TypeInv, ReplayStep \/ ReplayRead PROVE Others(Replay)
  <1>1. /\ pc \in [Tasks -> StorerPCs \cup ReplayPCs] /\ group \in [Tasks -> SUBSET Row]
        /\ split \in [Tasks -> Splits]
    BY DEF TypeInv, TypeOK
  <1> USE DEF Others
  <1>2. CASE ReplayGroup
    BY <1>1, <1>2 DEF ReplayGroup, StartParts, EndPass
  <1>3. CASE ReplayNext
    BY <1>1, <1>3 DEF ReplayNext, EndPass
  <1>4. CASE ReplayParts
    BY <1>1, <1>4 DEF ReplayParts, EndPass
  <1>5. CASE ReplayRewrite
    BY <1>1, <1>5 DEF ReplayRewrite, EndPass
  <1>6. CASE ReplayDelete \/ ReplayMove \/ ReplayRead
    BY <1>1, <1>6 DEF ReplayDelete, ReplayMove, ReplayRead
  <1> QED BY <1>2, <1>3, <1>4, <1>5, <1>6 DEF ReplayStep

\* A step of one task that hands on and stays tidy keeps the shapes.
LEMMA ShapesKept ==
    ASSUME TypeInv, LedgerInv, NEW t \in Tasks, HandsOn(t), Tidy(t)
    PROVE  LedgerInv'
  <1>1. SplitShape'
    <2>1. CASE t = Replay
      BY <2>1, TaskFacts DEF LedgerInv, SplitShape, HandsOn, Others, Tidy
    <2>2. CASE t # Replay
      BY <2>2, TaskFacts DEF LedgerInv, SplitShape, HandsOn, Others, Tidy
    <2> QED BY <2>1, <2>2
  <1>2. HandShape'
    BY TaskFacts DEF LedgerInv, HandShape, HandsOn, Others, Tidy
  <1>3. ReplayShape'
    <2>1. CASE t = Replay
      BY <2>1 DEF Tidy
    <2>2. CASE t # Replay
      <3>1. /\ pc'[Replay] = pc[Replay] /\ group'[Replay] = group[Replay]
            /\ split'[Replay] = split[Replay] /\ Settled \subseteq Settled'
        BY <2>2, TaskFacts DEF HandsOn, Others
      <3> QED BY <3>1 DEF LedgerInv, ReplayShape
    <2> QED BY <2>1, <2>2
  <1> QED BY <1>1, <1>2, <1>3 DEF LedgerInv

\* A step of _send_in_parts that takes only settled results off its locals.
LEMMA InsideParts ==
    ASSUME TypeInv, LedgerInv, NEW t \in Tasks, UNCHANGED <<made, batch, pending, group>>,
           Others(t), Settled \subseteq Settled', pc[t] \in InParts, pc'[t] \in InParts,
           split'[t] \in Splits, SplitHolds(split'[t]) \subseteq SplitHolds(split[t]),
           SplitHolds(split[t]) \subseteq SplitHolds(split'[t]) \cup Settled',
           pc'[t] = "parts" => split'[t].part = <<>>
    PROVE  HandsOn(t) /\ Tidy(t)
  <1>1. split[t] \in Splits
    BY DEF TypeInv, TypeOK
  <1>2. InHand(t) = SplitHolds(split[t]) /\ InHand(t)' = SplitHolds(split'[t])
    BY <1>1, InHandIs, InHandIsNext
  <1>3. HandsOn(t)
    BY <1>2 DEF HandsOn
  <1>4. t = Replay => ReplayShape'
    BY DEF LedgerInv, ReplayShape, InParts
  <1> QED BY <1>3, <1>4 DEF Tidy, InParts

\* A step that leaves the results in the hand, or in the row, they are in.
LEMMA NothingMoves ==
    ASSUME TypeInv, LedgerInv, NEW t \in Tasks, UNCHANGED <<made, batch, pending>>, Others(t),
           Settled \subseteq Settled', group'[t] = group[t], split'[t] = split[t],
           pc[t] \in InParts <=> pc'[t] \in InParts,
           pc'[t] = "parts" => pc[t] = "parts",
           pc'[t] \in {"idle", "count", "prune"} => pc[t] \in {"idle", "count", "prune"},
           pc'[t] \notin {"delete", "rewrite"}
    PROVE  HandsOn(t) /\ Tidy(t)
  <1>1. split[t] \in Splits
    BY DEF TypeInv, TypeOK
  <1>2. InHand(t)' = InHand(t)
    BY <1>1, InHandIs, InHandIsNext
  <1>3. HandsOn(t)
    BY <1>2 DEF HandsOn
  <1>4. t = Replay => ReplayShape'
    BY DEF LedgerInv, ReplayShape
  <1>5. Tidy(t)
    BY <1>4 DEF Tidy, LedgerInv, SplitShape, HandShape
  <1> QED BY <1>3, <1>5

\* A failed attempt and a retry keep the batch where it is.
LEMMA HandsPost ==
    ASSUME TypeInv, LedgerInv, NEW t \in Tasks, PostFails(t) \/ PostAgain(t)
    PROVE  HandsOn(t) /\ Tidy(t)
  <1>1. pc \in [Tasks -> StorerPCs \cup ReplayPCs]
    BY DEF TypeInv, TypeOK
  <1>2. /\ UNCHANGED <<made, batch, pending, dead, lost, group, split>> /\ received \subseteq received'
        /\ \/ pc[t] \in {"post", "sleep"} /\ pc'[t] \in {"post", "sleep"}
           \/ pc[t] \in {"post_part", "sleep_part"} /\ pc'[t] \in {"post_part", "sleep_part"}
    BY <1>1 DEF PostFails, PostAgain, Answer, tables
  <1>3. Settled \subseteq Settled'
    BY <1>2 DEF Settled, Lost
  <1>4. Others(t)
    BY TaskOthers DEF TaskStep
  <1> QED BY <1>2, <1>3, <1>4, NothingMoves DEF InParts

\* The one batch a flush has in hand.
LEMMA FlushHolds ==
    ASSUME TypeInv, NEW t \in Storers, pc[t] \in {"post", "sleep", "dead", "store"}
    PROVE  /\ Only(group[t]).checks \in Seq(Results)
           /\ Contents(group[t]) = Range(Only(group[t]).checks)
           /\ InHand(t) = Contents(group[t])
  <1>1. PICK c \in Seq(Results) : group[t] = {[id |-> 0, checks |-> c]}
    BY DEF TypeInv, OneInHand
  <1>2. Only(group[t]) = [id |-> 0, checks |-> c]
    BY <1>1, OnlyOfOne
  <1>3. Contents(group[t]) = Range(c)
    <2>1. Contents(group[t]) = Range([id |-> 0, checks |-> c].checks)
      BY <1>1, ContentsOne
    <2> QED BY <2>1
  <1>4. Only(group[t]).checks = c
    BY <1>2
  <1>5. InHand(t) = Contents(group[t])
    BY DEF InHand
  <1> QED BY <1>3, <1>4, <1>5

\* No rows, no results.
LEMMA ContentsEmpty == Contents({}) = {}
  BY DEF Contents

\* The head of _send_in_parts has the whole batch on its work list.
LEMMA StartPartsHolds ==
    ASSUME TypeInv, NEW t \in Tasks, NEW checks \in Seq(Results), StartParts(t, checks)
    PROVE  /\ split'[t] \in Splits /\ SplitHolds(split'[t]) = Range(checks)
           /\ split'[t].part = <<>> /\ pc'[t] = "parts"
  <1>1. split \in [Tasks -> Splits] /\ pc \in [Tasks -> StorerPCs \cup ReplayPCs]
    BY DEF TypeInv, TypeOK
  <1>2. Halves(checks) \in Seq(Seq(Results)) /\ Letters(Halves(checks)) = Range(checks)
    BY HalvesProperties
  <1>3. split'[t] = [NoSplit EXCEPT !.work = Halves(checks)] /\ pc'[t] = "parts"
    BY <1>1 DEF StartParts
  <1> DEFINE n == split'[t]
  <1>4. n.work = Halves(checks) /\ n.part = <<>> /\ n.untried = <<>> /\ n.refused = <<>>
    BY <1>3 DEF NoSplit
  <1>5. n \in Splits
    BY <1>1, StartPartsType DEF TypeInv
  <1> HIDE DEF n
  <1>6. SplitHolds(n) = Range(checks)
    BY <1>2, <1>4, EmptyRange DEF SplitHolds
  <1> QED BY <1>3, <1>4, <1>5, <1>6 DEF n

\* _deliver lets a batch go only when the server has it.
LEMMA HandsDeliver ==
    ASSUME TypeInv, LedgerInv, NEW t \in Tasks, Deliver(t)
    PROVE  HandsOn(t) /\ Tidy(t)
  <1>1. PICK out \in Outcomes : Deliver(t)!(out)
    BY DEF Deliver
  <1>2. t \in Storers /\ t # Replay /\ PostReturns(t, out) /\ ~InPart(t)
    BY <1>1, TaskFacts
  <1>3. pc[t] \in {"post", "sleep"} /\ Payload(t) = Contents(group[t])
    BY <1>2, PostReturnsType DEF InPart, Payload
  <1>4. /\ received \subseteq received' /\ UNCHANGED <<made, batch, pending, dead, lost>>
        /\ out = "sent" => Contents(group[t]) \subseteq received'
    BY <1>2, <1>3, PostOutcome
  <1>5. Settled \subseteq Settled' /\ received' \subseteq Settled'
    BY <1>4 DEF Settled, Lost
  <1>6. Others(t)
    BY TaskOthers DEF TaskStep
  <1>7. /\ Only(group[t]).checks \in Seq(Results)
        /\ Contents(group[t]) = Range(Only(group[t]).checks)
        /\ InHand(t) = Contents(group[t])
    BY <1>2, <1>3, FlushHolds
  <1>8. /\ pc \in [Tasks -> StorerPCs \cup ReplayPCs] /\ group \in [Tasks -> SUBSET Row]
        /\ split \in [Tasks -> Splits]
    BY DEF TypeInv, TypeOK
  <1>9. CASE out = "sent" /\ pc' = [pc EXCEPT ![t] = "idle"] /\ group' = [group EXCEPT ![t] = {}]
             /\ UNCHANGED split
    <2>1. pc'[t] = "idle" /\ group'[t] = {} /\ split'[t] \in Splits
      BY <1>8, <1>9
    <2>2. InHand(t)' = {}
      BY <2>1, InHandIsNext, ContentsEmpty DEF InParts
    <2> QED BY <1>2, <1>4, <1>5, <1>6, <1>7, <1>9, <2>1, <2>2 DEF HandsOn, Tidy
  <1>10. CASE UNCHANGED <<group, split>> /\ \E v \in {"dead", "store"} : pc' = [pc EXCEPT ![t] = v]
    <2>1. pc'[t] \in {"dead", "store"}
      BY <1>8, <1>10
    <2> QED BY <1>2, <1>3, <1>4, <1>5, <1>6, <1>10, <2>1, NothingMoves DEF InParts
  <1>11. CASE StartParts(t, Only(group[t]).checks) /\ UNCHANGED group
    <2>1. /\ split'[t] \in Splits /\ SplitHolds(split'[t]) = Contents(group[t])
          /\ split'[t].part = <<>> /\ pc'[t] = "parts"
      BY <1>7, <1>11, StartPartsHolds
    <2>2. InHand(t)' = InHand(t)
      BY <1>7, <2>1, InHandIsNext DEF InParts
    <2> QED BY <1>2, <1>4, <1>5, <1>6, <1>11, <2>1, <2>2 DEF HandsOn, Tidy
  <1> QED BY <1>1, <1>9, <1>10, <1>11 DEF Outcomes

\* The loop of _send_in_parts lets a part go only when its fate is decided.
LEMMA HandsParts ==
    ASSUME TypeInv, LedgerInv, NEW t \in Tasks, NextPart(t) \/ PartAnswered(t)
    PROVE  HandsOn(t) /\ Tidy(t)
  <1>1. Others(t)
    BY TaskOthers DEF TaskStep
  <1>2. CASE NextPart(t)
    <2>1. UNCHANGED <<made, batch, pending, dead, lost, group, received>>
      BY <1>2 DEF NextPart, tables
    <2>2. Settled \subseteq Settled'
      BY <2>1 DEF Settled, Lost
    <2> QED BY <1>1, <1>2, <2>1, <2>2, NextPartHolds, InsideParts
  <1>3. CASE PartAnswered(t)
    <2>1. UNCHANGED <<made, batch, pending, dead, lost, group>> /\ received \subseteq received'
      BY <1>3, PostOutcome DEF PartAnswered
    <2>2. Settled \subseteq Settled' /\ received' \subseteq Settled'
      BY <2>1 DEF Settled, Lost
    <2> QED BY <1>1, <1>3, <2>1, <2>2, PartAnsweredHolds, InsideParts DEF InParts
  <1> QED BY <1>2, <1>3

\* The end of a flush in parts: what is left is the batch to store.
LEMMA HandsDeliverParts ==
    ASSUME TypeInv, LedgerInv, NEW t \in Tasks, DeliverParts(t)
    PROVE  HandsOn(t) /\ Tidy(t)
  <1>1. Others(t) /\ t \in Storers /\ t # Replay
    BY TaskOthers, TaskFacts DEF TaskStep, DeliverParts
  <1>2. /\ pc \in [Tasks -> StorerPCs \cup ReplayPCs] /\ group \in [Tasks -> SUBSET Row]
        /\ split \in [Tasks -> Splits] /\ split[t] \in Splits /\ pc[t] = "parts"
        /\ split[t].work = <<>> /\ split[t].part = <<>>
    BY DEF TypeInv, TypeOK, DeliverParts, LedgerInv, SplitShape
  <1>3. InHand(t) = Range(Unsent(t))
    BY <1>2, SplitHolding, InHandIs, EmptyRange DEF SplitHolds, Unsent, InParts
  <1>4. UNCHANGED <<made, batch, pending, dead, lost, received>>
    BY DEF DeliverParts, tables
  <1>5. Settled' = Settled
    BY <1>4 DEF Settled, Lost
  <1>6. split'[t] \in Splits
    BY <1>2, NoSplitType DEF DeliverParts
  <1>7. \/ pc'[t] = "idle" /\ group'[t] = {} /\ Unsent(t) = <<>>
        \/ pc'[t] = "store" /\ group'[t] = {[id |-> 0, checks |-> Unsent(t)]}
    BY <1>2 DEF DeliverParts
  <1>8. Contents({[id |-> 0, checks |-> Unsent(t)]}) = Range(Unsent(t))
    <2>1. Contents({[id |-> 0, checks |-> Unsent(t)]}) = Range([id |-> 0, checks |-> Unsent(t)].checks)
      BY ContentsOne
    <2> QED BY <2>1
  <1>9. InHand(t)' = InHand(t)
    BY <1>3, <1>6, <1>7, <1>8, InHandIsNext, EmptyRange, ContentsEmpty DEF InParts
  <1> QED BY <1>1, <1>4, <1>5, <1>7, <1>9 DEF HandsOn, Tidy

\* A dead letter leaves the hand for the table of dead letters.
LEMMA HandsDeadLetter ==
    ASSUME TypeInv, LedgerInv, NEW t \in Tasks, DeadLetterBatch(t)
    PROVE  HandsOn(t) /\ Tidy(t)
  <1>1. Others(t) /\ UNCHANGED <<made, batch, pending, received>> /\ TypeOK
    BY TaskOthers DEF TaskStep, DeadLetterBatch, TypeInv
  <1>2. /\ pc \in [Tasks -> StorerPCs \cup ReplayPCs] /\ group \in [Tasks -> SUBSET Row]
        /\ split \in [Tasks -> Splits] /\ split[t] \in Splits /\ pc[Replay] \in ReplayPCs
    BY DEF TypeInv, TypeOK
  <1>3. ASSUME NEW c \in Seq(Results), InsertDead(c)
        PROVE  Settled \subseteq Settled' /\ Range(c) \subseteq Settled'
    BY <1>1, <1>3, InsertDeadKeeps DEF Settled
  <1>4. CASE pc[t] = "dead"
    <2>1. t \in Storers /\ t # Replay
      BY <1>2, <1>4, TaskFacts DEF ReplayPCs
    <2>2. /\ Only(group[t]).checks \in Seq(Results)
          /\ Contents(group[t]) = Range(Only(group[t]).checks)
          /\ InHand(t) = Contents(group[t])
      BY <1>4, <2>1, FlushHolds
    <2>3. InsertDead(Only(group[t]).checks) /\ pc'[t] = "idle" /\ group'[t] = {} /\ split'[t] \in Splits
      BY <1>2, <1>4 DEF DeadLetterBatch
    <2>4. InHand(t)' = {}
      BY <2>3, InHandIsNext, ContentsEmpty DEF InParts
    <2> QED BY <1>1, <1>3, <2>1, <2>2, <2>3, <2>4 DEF HandsOn, Tidy
  <1>5. CASE pc[t] = "dead_part"
    <2>1. InsertDead(split[t].part) /\ PartDone(t, split[t]) /\ UNCHANGED group
      BY <1>5 DEF DeadLetterBatch
    <2>2. split[t].part \in Seq(Results)
      BY <1>2, SplitHolding
    <2>3. /\ split'[t] \in Splits /\ split'[t].part = <<>> /\ pc'[t] = "parts"
          /\ SplitHolds(split[t]) = SplitHolds(split'[t]) \cup Range(split[t].part)
      BY <2>1, PartDropped
    <2> QED BY <1>1, <1>3, <1>5, <2>1, <2>2, <2>3, InsideParts DEF InParts
  <1> QED BY <1>4, <1>5 DEF DeadLetterBatch

\* A stored batch leaves the hand for a row of the table.
LEMMA HandsStore ==
    ASSUME TypeInv, LedgerInv, NEW t \in Tasks, StoreInsert(t)
    PROVE  HandsOn(t) /\ Tidy(t)
  <1>1. Others(t) /\ UNCHANGED <<made, batch, received, dead, lost>> /\ pc[t] = "store"
    BY TaskOthers DEF TaskStep, StoreInsert
  <1>2. Settled' = Settled
    BY <1>1 DEF Settled, Lost
  <1>3. t \in Storers /\ t # Replay
    BY InsertRow
  <1>4. PICK c \in Seq(Results) :
             /\ group[t] = {[id |-> 0, checks |-> c]}
             /\ pending' = pending \cup {[id |-> nextId, checks |-> c]}
    BY InsertRow
  <1>5. pc'[t] = "count" /\ group'[t] = {} /\ split'[t] \in Splits
    BY DEF StoreInsert, TypeInv, TypeOK
  <1>6. InHand(t)' = {}
    BY <1>5, InHandIsNext, ContentsEmpty DEF InParts
  <1>7. InHand(t) = Range(c)
    <2>1. Only(group[t]) = [id |-> 0, checks |-> c]
      BY <1>4, OnlyOfOne
    <2>2. Only(group[t]).checks = c
      BY <2>1
    <2> QED BY <1>1, <1>3, <2>2, FlushHolds
  <1>8. Contents(pending') = Contents(pending) \cup Range(c)
    <2> DEFINE n == [id |-> nextId, checks |-> c]
    <2>1. n.checks = c
      OBVIOUS
    <2> HIDE DEF n
    <2>2. pending' = pending \cup {n}
      BY <1>4 DEF n
    <2> QED BY <2>1, <2>2 DEF Contents
  <1> QED BY <1>1, <1>2, <1>3, <1>5, <1>6, <1>7, <1>8 DEF HandsOn, Tidy

\* Taking rows out of the table and settling their results.
LEMMA RowsGivenUp ==
    ASSUME NEW gone, pending' = pending \ gone, Contents(gone) \subseteq Settled'
    PROVE  /\ Contents(pending) \subseteq Contents(pending') \cup Settled'
           /\ Contents(pending') \subseteq Contents(pending)
  BY ContentsIs

\* The disk cap gives up the rows it deletes, on the record.
LEMMA HandsCap ==
    ASSUME TypeInv, LedgerInv, NEW t \in Tasks, StoreCount(t) \/ StorePrune(t)
    PROVE  HandsOn(t) /\ Tidy(t)
  <1>1. Others(t) /\ UNCHANGED <<made, batch, received, dead, group, split>> /\ TypeOK
    BY TaskOthers DEF TaskStep, StoreCount, StorePrune, tables, TypeInv
  <1>2. /\ pc \in [Tasks -> StorerPCs \cup ReplayPCs] /\ pc[t] \in {"count", "prune"}
        /\ pc'[t] \in {"idle", "prune"} /\ t # Replay /\ t \in Storers
    BY TaskFacts DEF StoreCount, StorePrune, TypeInv, TypeOK, ReplayPCs
  <1>3. CASE StoreCount(t)
    <2>1. UNCHANGED <<pending, lost>>
      BY <1>3 DEF StoreCount, tables
    <2>2. Settled' = Settled
      BY <1>1, <2>1 DEF Settled, Lost
    <2> QED BY <1>1, <1>2, <2>1, <2>2, NothingMoves DEF InParts
  <1>4. CASE StorePrune(t)
    <2> DEFINE gone == Oldest(pending, excess[t])
    <2>1. pending' = pending \ gone /\ Drop("disk_cap", Contents(gone)) /\ "disk_cap" \in Losses
      BY <1>4 DEF StorePrune, Losses
    <2> HIDE DEF gone
    <2>2. Lost' = Lost \cup Contents(gone)
      BY <1>1, <2>1, DropLost
    <2>3. Settled \subseteq Settled' /\ Contents(gone) \subseteq Settled'
      BY <1>1, <2>2 DEF Settled
    <2>4. /\ Contents(pending) \subseteq Contents(pending') \cup Settled'
          /\ Contents(pending') \subseteq Contents(pending)
      BY <2>1, <2>3, RowsGivenUp
    <2>5. InHand(t)' = InHand(t)
      BY <1>1, <1>2, InHandIs, InHandIsNext DEF TypeInv, TypeOK, InParts
    <2>6. HandsOn(t)
      BY <1>1, <2>3, <2>4, <2>5 DEF HandsOn
    <2> QED BY <1>1, <1>2, <2>6 DEF Tidy, LedgerInv, HandShape
  <1> QED BY <1>3, <1>4

\* A failed SQLite call loses what it was to store, on the record.
LEMMA HandsDiskFails ==
    ASSUME TypeInv, LedgerInv, NEW t \in Tasks, DiskFails(t)
    PROVE  HandsOn(t) /\ Tidy(t)
  <1>1. Others(t) /\ UNCHANGED <<made, batch, pending, received, dead>> /\ TypeOK
    BY DiskOthers DEF DiskFails, tables, TypeInv
  <1>2. /\ pc \in [Tasks -> StorerPCs \cup ReplayPCs] /\ group \in [Tasks -> SUBSET Row]
        /\ split \in [Tasks -> Splits] /\ split[t] \in Splits /\ pc[Replay] \in ReplayPCs
    BY DEF TypeInv, TypeOK
  <1>3. ASSUME NEW S, Drop("disk", S)
        PROVE  Settled \subseteq Settled' /\ S \subseteq Settled'
    <2>1. Lost' = Lost \cup S
      BY <1>1, <1>3, DropLost DEF Losses
    <2> QED BY <1>1, <2>1 DEF Settled
  <1>4. CASE /\ pc[t] \in {"store", "dead"}
             /\ Drop("disk", Contents(group[t]))
             /\ pc' = [pc EXCEPT ![t] = "idle"]
             /\ group' = [group EXCEPT ![t] = {}]
             /\ UNCHANGED <<split, excess, todo, solo>>
    <2>1. t \in Storers /\ t # Replay /\ pc'[t] = "idle" /\ group'[t] = {} /\ split'[t] \in Splits
      BY <1>2, <1>4, TaskFacts DEF ReplayPCs
    <2>2. InHand(t) = Contents(group[t]) /\ InHand(t)' = {}
      BY <1>4, <2>1, FlushHolds, InHandIsNext, ContentsEmpty DEF InParts
    <2>3. Settled \subseteq Settled' /\ Contents(group[t]) \subseteq Settled'
      BY <1>3, <1>4
    <2> QED BY <1>1, <2>1, <2>2, <2>3 DEF HandsOn, Tidy
  <1>5. CASE /\ pc[t] \in {"count", "prune"}
             /\ pc' = [pc EXCEPT ![t] = "idle"]
             /\ UNCHANGED <<group, split, todo, solo, lost>>
    <2>1. Settled' = Settled
      BY <1>1, <1>5 DEF Settled, Lost
    <2>2. pc'[t] = "idle"
      BY <1>2, <1>5
    <2> QED BY <1>1, <1>5, <2>1, <2>2, NothingMoves DEF InParts
  <1>6. CASE /\ pc[t] = "dead_part"
             /\ Drop("disk", Range(split[t].part))
             /\ PartDone(t, split[t])
             /\ UNCHANGED <<group, excess, todo, solo>>
    <2>1. /\ split'[t] \in Splits /\ split'[t].part = <<>> /\ pc'[t] = "parts"
          /\ SplitHolds(split[t]) = SplitHolds(split'[t]) \cup Range(split[t].part)
      BY <1>6, PartDropped
    <2>2. Settled \subseteq Settled' /\ Range(split[t].part) \subseteq Settled'
      BY <1>3, <1>6
    <2> QED BY <1>1, <1>6, <2>1, <2>2, InsideParts DEF InParts
  <1>7. CASE t = Replay /\ EndPass /\ UNCHANGED <<excess, lost>>
    <2>1. Settled' = Settled
      BY <1>1, <1>7 DEF Settled, Lost
    <2>2. pc'[Replay] = "idle" /\ Replay \notin Storers
      BY <1>2, <1>7, TaskFacts DEF EndPass
    <2>3. ReplayShape'
      BY <2>2 DEF ReplayShape, InParts
    <2> QED BY <1>1, <1>7, <2>1, <2>2, <2>3 DEF HandsOn, Tidy
  <1> QED BY <1>4, <1>5, <1>6, <1>7 DEF DiskFails

\* Every step of a flush, and of the replay inside a POST, hands on.
LEMMA HandsTaskStep ==
    ASSUME TypeInv, LedgerInv, NEW t \in Tasks, TaskStep(t)
    PROVE  HandsOn(t) /\ Tidy(t)
  BY HandsPost, HandsDeliver, HandsParts, HandsDeliverParts, HandsDeadLetter, HandsStore, HandsCap
     DEF TaskStep

\* A step of the replay that writes nothing and leaves it outside
\* _send_in_parts, a delete and a rewrite.
LEMMA ReplayIdles ==
    ASSUME TypeInv, UNCHANGED <<made, batch, pending, dead, lost>>, Others(Replay),
           received \subseteq received', pc'[Replay] \notin InParts \cup {"rewrite", "delete"}
    PROVE  HandsOn(Replay) /\ Tidy(Replay)
  <1>1. Settled \subseteq Settled'
    BY DEF Settled, Lost
  <1> QED BY <1>1, TaskFacts DEF HandsOn, Tidy, ReplayShape, InParts

\* A corrupt row is given up, on the record.
LEMMA HandsReplayRead ==
    ASSUME TypeInv, LedgerInv, ReplayRead PROVE HandsOn(Replay) /\ Tidy(Replay)
  <1>1. Others(Replay) /\ UNCHANGED <<made, batch, received, dead>> /\ TypeOK
    BY ReplayOthers DEF ReplayRead, TypeInv
  <1>2. PICK corrupt : pending' = pending \ corrupt /\ Drop("disk", Contents(corrupt))
    BY DEF ReplayRead
  <1>3. Lost' = Lost \cup Contents(corrupt)
    BY <1>1, <1>2, DropLost DEF Losses
  <1>4. Settled \subseteq Settled' /\ Contents(corrupt) \subseteq Settled'
    BY <1>1, <1>3 DEF Settled
  <1>5. /\ Contents(pending) \subseteq Contents(pending') \cup Settled'
        /\ Contents(pending') \subseteq Contents(pending)
    BY <1>2, <1>4, RowsGivenUp
  <1>6. pc'[Replay] = "next"
    BY TaskFacts DEF ReplayRead, TypeInv, TypeOK
  <1> QED BY <1>1, <1>4, <1>5, <1>6, TaskFacts DEF HandsOn, Tidy, ReplayShape, InParts

\* Choosing the next group moves no result.
LEMMA HandsReplayNext ==
    ASSUME TypeInv, LedgerInv, ReplayNext PROVE HandsOn(Replay) /\ Tidy(Replay)
  <1>1. Others(Replay) /\ UNCHANGED <<made, batch, pending, dead, lost, received>>
    BY ReplayOthers DEF ReplayStep, ReplayNext, tables
  <1>2. pc'[Replay] \in {"idle", "post"}
    BY TaskFacts DEF ReplayNext, EndPass, TypeInv, TypeOK
  <1> QED BY <1>1, <1>2, ReplayIdles DEF InParts

\* The replay goes on to delete a group only when the server has it, and to
\* take a row apart with all of it on the work list.
LEMMA HandsReplayGroup ==
    ASSUME TypeInv, LedgerInv, ReplayGroup PROVE HandsOn(Replay) /\ Tidy(Replay)
  <1>1. PICK out \in Outcomes : ReplayGroup!(out)
    BY DEF ReplayGroup
  <1>2. PostReturns(Replay, out) /\ ~InPart(Replay)
    BY <1>1
  <1>3. Payload(Replay) = Contents(group[Replay])
    BY <1>2 DEF Payload
  <1>4. /\ received \subseteq received' /\ UNCHANGED <<made, batch, pending, dead, lost>>
        /\ out = "sent" => Contents(group[Replay]) \subseteq received'
    BY <1>2, <1>3, PostOutcome
  <1>5. Settled \subseteq Settled' /\ received' \subseteq Settled'
    BY <1>4 DEF Settled, Lost
  <1>6. Others(Replay)
    BY ReplayOthers DEF ReplayStep
  <1>7. /\ pc \in [Tasks -> StorerPCs \cup ReplayPCs] /\ group \in [Tasks -> SUBSET Row]
        /\ IsFiniteSet(group[Replay]) /\ split \in [Tasks -> Splits]
    BY DEF TypeInv, TypeOK
  <1>8. CASE out = "sent"
    <2>1. pc'[Replay] = "delete" /\ group' = group
      BY <1>1, <1>7, <1>8, TaskFacts
    <2>2. HandsOn(Replay)
      BY <1>4, <1>5, <1>6, TaskFacts DEF HandsOn
    <2> QED BY <1>4, <1>5, <1>8, <2>1, <2>2, TaskFacts DEF Tidy, ReplayShape, InParts
  <1>9. CASE out = "too_large" /\ Alone(group[Replay]) /\ Len(Only(group[Replay]).checks) # 1
    <2>1. PICK r \in group[Replay] : group[Replay] = {r}
      BY <1>7, <1>9, AloneIsSingleton
    <2>2. Only(group[Replay]) = r /\ r.checks \in Seq(Results)
      <3>1. Only(group[Replay]) = r
        BY <2>1, OnlyOfOne
      <3>2. r \in Row
        BY <1>7, TaskFacts
      <3> QED BY <3>1, <3>2 DEF Row
    <2>3. StartParts(Replay, r.checks) /\ group' = group
      BY <1>1, <1>9, <2>2
    <2>4. /\ split'[Replay] \in Splits /\ SplitHolds(split'[Replay]) = Range(r.checks)
          /\ split'[Replay].part = <<>> /\ pc'[Replay] = "parts"
      BY <2>2, <2>3, StartPartsHolds, TaskFacts
    <2>5. Contents(group[Replay]) = Range(r.checks)
      BY <2>1, ContentsOne
    <2>6. HandsOn(Replay)
      BY <1>4, <1>5, <1>6, TaskFacts DEF HandsOn
    <2> QED BY <2>3, <2>4, <2>5, <2>6, TaskFacts DEF Tidy, ReplayShape, InParts
  <1>10. CASE ~(out = "sent") /\ ~(out = "too_large" /\ Alone(group[Replay])
                                   /\ Len(Only(group[Replay]).checks) # 1)
    <2>1. \E v \in {"next", "idle", "move"} : pc' = [pc EXCEPT ![Replay] = v]
      BY <1>1, <1>10 DEF EndPass, Outcomes
    <2>2. pc'[Replay] \in {"next", "idle", "move"}
      BY <1>7, <2>1, TaskFacts
    <2> QED BY <1>4, <1>6, <2>2, ReplayIdles DEF InParts
  <1> QED BY <1>8, <1>9, <1>10

\* The end of _send_in_parts: a row is deleted when no result of it is left, and
\* rewritten when what is not left is settled.
LEMMA HandsReplayParts ==
    ASSUME TypeInv, LedgerInv, ReplayParts PROVE HandsOn(Replay) /\ Tidy(Replay)
  <1>1. Others(Replay) /\ UNCHANGED <<made, batch, pending, dead, lost, received>>
    BY ReplayOthers DEF ReplayStep, ReplayParts, tables
  <1>2. /\ pc \in [Tasks -> StorerPCs \cup ReplayPCs] /\ group \in [Tasks -> SUBSET Row]
        /\ split \in [Tasks -> Splits] /\ split[Replay] \in Splits /\ pc[Replay] = "parts"
        /\ split[Replay].work = <<>> /\ split[Replay].part = <<>>
    BY TaskFacts DEF TypeInv, TypeOK, ReplayParts, LedgerInv, SplitShape
  <1>3. SplitHolds(split[Replay]) = Range(Unsent(Replay))
    BY <1>2, SplitHolding, EmptyRange DEF SplitHolds, Unsent
  <1>4. Settled' = Settled
    BY <1>1 DEF Settled, Lost
  <1>5. /\ SplitHolds(split[Replay]) \subseteq Contents(group[Replay])
        /\ Contents(group[Replay]) \subseteq SplitHolds(split[Replay]) \cup Settled
    BY <1>2 DEF LedgerInv, ReplayShape, InParts
  <1>6. HandsOn(Replay)
    BY <1>1, <1>4, TaskFacts DEF HandsOn
  <1>7. CASE Unsent(Replay) = <<>> /\ pc' = [pc EXCEPT ![Replay] = "delete"] /\ group' = group
    <2>1. pc'[Replay] = "delete" /\ Contents(group[Replay]) \subseteq Settled
      BY <1>2, <1>3, <1>5, <1>7, EmptyRange, TaskFacts
    <2> QED BY <1>4, <1>6, <1>7, <2>1, TaskFacts DEF Tidy, ReplayShape, InParts
  <1>8. CASE pc' = [pc EXCEPT ![Replay] = "rewrite"] /\ UNCHANGED <<group, split>>
    <2>1. pc'[Replay] = "rewrite"
      BY <1>2, <1>8, TaskFacts
    <2> QED BY <1>2, <1>4, <1>5, <1>6, <1>8, <2>1, TaskFacts DEF Tidy, ReplayShape, InParts
  <1>9. CASE \E v \in {"idle", "next"} : pc' = [pc EXCEPT ![Replay] = v]
    <2>1. pc'[Replay] \in {"idle", "next"}
      BY <1>2, <1>9, TaskFacts
    <2> QED BY <1>1, <2>1, ReplayIdles DEF InParts
  <1> QED BY <1>7, <1>8, <1>9 DEF ReplayParts, EndPass

\* A rewrite takes off the row only what is settled.
LEMMA HandsReplayRewrite ==
    ASSUME TypeInv, RowInv, LedgerInv, ReplayRewrite PROVE HandsOn(Replay) /\ Tidy(Replay)
  <1>1. Others(Replay) /\ UNCHANGED <<made, batch, dead, lost, received>> /\ pc[Replay] = "rewrite"
    BY ReplayOthers DEF ReplayStep, ReplayRewrite
  <1>2. PICK r \in Row :
             /\ group[Replay] = {r}
             /\ \A q \in pending : q.id = r.id => q = r
             /\ pending' = {IF q.id = r.id THEN [q EXCEPT !.checks = Unsent(Replay)] ELSE q
                               : q \in pending}
             /\ pc'[Replay] \in {"idle", "next"}
    BY RewriteRows
  <1>3. /\ split[Replay] \in Splits /\ split[Replay].work = <<>> /\ split[Replay].part = <<>>
    BY <1>1, TaskFacts DEF TypeInv, TypeOK, LedgerInv, SplitShape
  <1>4. SplitHolds(split[Replay]) = Range(Unsent(Replay))
    BY <1>3, SplitHolding, EmptyRange DEF SplitHolds, Unsent
  <1>5. Range(Unsent(Replay)) \subseteq Range(r.checks)
        /\ Range(r.checks) \subseteq Range(Unsent(Replay)) \cup Settled
    <2>1. Contents(group[Replay]) = Range(r.checks)
      BY <1>2, ContentsOne
    <2> QED BY <1>1, <1>4, <2>1 DEF LedgerInv, ReplayShape
  <1>6. Settled' = Settled
    BY <1>1 DEF Settled, Lost
  <1> DEFINE n == [r EXCEPT !.checks = Unsent(Replay)]
  <1>7. n.checks = Unsent(Replay)
    BY DEF Row
  <1>8. \A p \in pending' : (p = n /\ r \in pending) \/ p \in pending
    BY <1>2
  <1>9. \A q \in pending : (q = r /\ n \in pending') \/ q \in pending'
    BY <1>2
  <1> HIDE DEF n
  <1>10. Contents(pending') \subseteq Contents(pending)
    BY <1>5, <1>7, <1>8, ContentsIs
  <1>11. Contents(pending) \subseteq Contents(pending') \cup Settled'
    BY <1>5, <1>6, <1>7, <1>9, ContentsIs
  <1> QED BY <1>1, <1>2, <1>6, <1>10, <1>11, TaskFacts DEF HandsOn, Tidy, ReplayShape, InParts

\* A delete removes rows whose results the server has.
LEMMA HandsReplayDelete ==
    ASSUME TypeInv, RowInv, LedgerInv, ReplayDelete PROVE HandsOn(Replay) /\ Tidy(Replay)
  <1> DEFINE rows == Oldest(group[Replay], 1)
             gone == {q \in pending : \E g \in rows : q.id = g.id}
  <1>1. Others(Replay) /\ UNCHANGED <<made, batch, dead, lost, received>> /\ pc[Replay] = "delete"
    BY ReplayOthers DEF ReplayStep, ReplayDelete
  <1>2. Settled' = Settled
    BY <1>1 DEF Settled, Lost
  <1>3. pending' = pending \ gone
    BY DEF ReplayDelete
  <1>4. rows \subseteq group[Replay]
    BY DEF Oldest
  <1>5. gone \subseteq group[Replay]
    BY <1>4 DEF RowInv, ReplayCopyCurrent
  <1>6. Contents(group[Replay]) \subseteq Settled
    BY <1>1 DEF LedgerInv, ReplayShape
  <1>7. group'[Replay] \subseteq group[Replay] /\ pc'[Replay] \in {"delete", "next"}
    BY <1>1, TaskFacts DEF ReplayDelete, TypeInv, TypeOK
  <1> HIDE DEF gone
  <1>8. Contents(gone) \subseteq Settled /\ Contents(group'[Replay]) \subseteq Settled
    BY <1>5, <1>6, <1>7, ContentsIs
  <1>9. /\ Contents(pending) \subseteq Contents(pending') \cup Settled'
        /\ Contents(pending') \subseteq Contents(pending)
    BY <1>2, <1>3, <1>8, RowsGivenUp
  <1> QED BY <1>1, <1>2, <1>7, <1>8, <1>9, TaskFacts DEF HandsOn, Tidy, ReplayShape, InParts

\* A row is one row: ids are unique.
LEMMA OneRow ==
    ASSUME TypeInv, RowInv, NEW id, {q \in pending : q.id = id} # {}
    PROVE  \E r \in pending : /\ r.id = id /\ {q \in pending : q.id = id} = {r}
                              /\ Only({q \in pending : q.id = id}) = r
                              /\ r.checks \in Seq(Results)
  <1>1. PICK r \in pending : r.id = id
    OBVIOUS
  <1>2. {q \in pending : q.id = id} = {r}
    BY <1>1 DEF RowInv, RowIds
  <1>3. Only({q \in pending : q.id = id}) = r
    BY <1>2, OnlyOfOne
  <1>4. r.checks \in Seq(Results)
    BY DEF TypeInv, TypeOK, Row
  <1> QED BY <1>1, <1>2, <1>3, <1>4

\* A refused row leaves the table for the dead letters.
LEMMA HandsReplayMove ==
    ASSUME TypeInv, RowInv, LedgerInv, ReplayMove PROVE HandsOn(Replay) /\ Tidy(Replay)
  <1> DEFINE row == {q \in pending : q.id = Only(group[Replay]).id}
  <1>1. Others(Replay) /\ UNCHANGED <<made, batch, received>> /\ TypeOK
    BY ReplayOthers DEF ReplayStep, ReplayMove, TypeInv
  <1>2. pc'[Replay] = "next"
    BY TaskFacts DEF ReplayMove, TypeInv, TypeOK
  <1>3. CASE row = {}
    <2>1. UNCHANGED <<pending, dead, lost>>
      BY <1>3 DEF ReplayMove
    <2> QED BY <1>1, <1>2, <2>1, ReplayIdles DEF InParts
  <1>4. CASE row # {}
    <2>1. PICK r \in pending : row = {r} /\ Only(row) = r /\ r.checks \in Seq(Results)
      BY <1>4, OneRow
    <2>2. pending' = pending \ {r} /\ InsertDead(r.checks)
      BY <1>4, <2>1 DEF ReplayMove
    <2>3. Settled \subseteq Settled' /\ Range(r.checks) \subseteq Settled'
      BY <1>1, <2>1, <2>2, InsertDeadKeeps DEF Settled
    <2>4. Contents({r}) = Range(r.checks)
      BY ContentsOne
    <2>5. /\ Contents(pending) \subseteq Contents(pending') \cup Settled'
          /\ Contents(pending') \subseteq Contents(pending)
      BY <2>2, <2>3, <2>4, RowsGivenUp
    <2> QED BY <1>1, <1>2, <2>3, <2>5, TaskFacts DEF HandsOn, Tidy, ReplayShape, InParts
  <1> QED BY <1>3, <1>4

\* Every step of the replay hands on.
LEMMA HandsReplayStep ==
    ASSUME TypeInv, RowInv, LedgerInv, ReplayStep PROVE HandsOn(Replay) /\ Tidy(Replay)
  BY HandsReplayNext, HandsReplayGroup, HandsReplayParts, HandsReplayRewrite, HandsReplayDelete,
     HandsReplayMove DEF ReplayStep

-----------------------------------------------------------------------------
(* The ledger, and the refinement of StoreAndForward.                          *)

\* What the queue holds, by membership, now and in the next state.
LEMMA CustodyIs ==
    \A x : x \in Custody <=> \/ x \in Range(batch) \/ x \in Contents(pending)
                             \/ \E t \in Storers : x \in InHand(t)
  BY DEF Custody

LEMMA CustodyIsNext ==
    \A x : x \in Custody' <=> \/ x \in Range(batch') \/ x \in Contents(pending')
                              \/ \E t \in Storers : x \in InHand(t)'
  BY DEF Custody

\* One step of the abstract queue.
QueueMove ==
    /\ DOMAIN made \subseteq DOMAIN made' /\ Settled \subseteq Settled'
    /\ Custody' \subseteq Custody \cup (DOMAIN made' \ DOMAIN made)
    /\ Accounted'

\* A task with an unchanged program point and locals has in hand what it had.
LEMMA SameHand ==
    ASSUME NEW t, pc'[t] = pc[t], group'[t] = group[t], split'[t] = split[t]
    PROVE  InHand(t)' = InHand(t)
  BY DEF InHand, Unsent

\* A step of one task that hands on is a step of the queue.
LEMMA QueueHandsOn ==
    ASSUME TypeInv, Accounted, NEW t \in Tasks, HandsOn(t)
    PROVE  QueueMove
  <1>1. \A u \in Storers \ {t} : InHand(u)' = InHand(u)
    <2> TAKE u \in Storers \ {t}
    <2>1. pc'[u] = pc[u] /\ group'[u] = group[u] /\ split'[u] = split[u]
      BY TaskFacts DEF HandsOn, Others
    <2> QED BY <2>1, SameHand
  <1> DEFINE hand == IF t \in Storers THEN InHand(t) ELSE {}
             next == IF t \in Storers THEN InHand(t)' ELSE {}
  <1>2. /\ made' = made /\ batch' = batch /\ Settled \subseteq Settled'
        /\ next \subseteq hand /\ hand \subseteq next \cup Settled' \cup Contents(pending')
        /\ Contents(pending) \subseteq Contents(pending') \cup Settled'
        /\ Contents(pending') \subseteq Contents(pending) \cup hand
    BY DEF HandsOn
  <1>3. Custody' \subseteq Custody
    BY <1>1, <1>2, CustodyIs, CustodyIsNext
  <1>4. Custody \subseteq Custody' \cup Settled'
    BY <1>1, <1>2, CustodyIs, CustodyIsNext
  <1>5. Accounted'
    BY <1>2, <1>4 DEF Accounted
  <1> QED BY <1>2, <1>3, <1>5 DEF QueueMove

\* A step that moves no task, table or fate.
LEMMA QueueStart ==
    ASSUME Accounted, LedgerInv, Start PROVE QueueMove /\ LedgerInv'
  BY DEF Start, QueueMove, Accounted, Custody, Settled, Lost, InHand, Unsent, LedgerInv, SplitShape,
         HandShape, ReplayShape, memory, tables

\* An added result is in the batch; what the queue limit pushes out is given up.
LEMMA QueueAddResult ==
    ASSUME TypeInv, LedgerInv, Accounted, NEW kind \in Kinds, AddResult(kind)
    PROVE  QueueMove /\ LedgerInv' /\ Range(batch') \subseteq Range(batch) \cup {Len(made) + 1}
  <1> DEFINE kept == IF Len(batch) >= MaxQueue THEN Newest(batch, MaxQueue - 1) ELSE batch
             new == Len(made) + 1
  <1>1. TypeOK /\ batch \in Seq(Results) /\ made \in Seq(Kinds) /\ Len(made) < MaxResults
        /\ new \in Results
    <2>1. TypeOK /\ batch \in Seq(Results) /\ made \in Seq(Kinds) /\ Len(made) < MaxResults
      BY DEF TypeInv, TypeOK, AddResult
    <2>2. Len(made) \in Nat
      BY <2>1
    <2> QED BY <2>1, <2>2, ReporterConstants DEF Results
  <1>2. kept \in Seq(Results) /\ Range(kept) \subseteq Range(batch)
    <2>1. MaxQueue - 1 \in Nat
      BY ReporterConstants
    <2> QED BY <1>1, <2>1, NewestProperties
  <1>3. /\ batch' = Append(kept, new) /\ made' = Append(made, kind)
        /\ Drop("queue", Range(batch) \ Range(kept)) /\ "queue" \in Losses
        /\ UNCHANGED <<pc, group, split, pending, dead, received>>
    BY DEF AddResult, Losses, tables
  <1> HIDE DEF kept
  <1>4. DOMAIN made' = DOMAIN made \cup {new} /\ new \notin DOMAIN made
    BY <1>1, <1>3
  <1>5. Range(batch') = Range(kept) \cup {new}
    <2>1. Range(Append(kept, new)) = Range(kept) \cup {new}
      <3>1. \A i \in DOMAIN Append(kept, new) :
               Append(kept, new)[i] = new \/ (i \in DOMAIN kept /\ Append(kept, new)[i] = kept[i])
        BY <1>1, <1>2
      <3>2. \A i \in DOMAIN kept : i \in DOMAIN Append(kept, new) /\ Append(kept, new)[i] = kept[i]
        BY <1>1, <1>2
      <3>3. Len(kept) + 1 \in DOMAIN Append(kept, new) /\ Append(kept, new)[Len(kept) + 1] = new
        BY <1>1, <1>2
      <3> DEFINE a == Append(kept, new)
      <3> HIDE DEF a, new
      <3>4. Range(a) \subseteq Range(kept) \cup {new}
        BY <3>1 DEF a, Range
      <3>5. Range(kept) \subseteq Range(a)
        BY <3>2 DEF a, Range
      <3>6. new \in Range(a)
        BY <3>3 DEF a, Range
      <3> QED BY <3>4, <3>5, <3>6 DEF a
    <2> QED BY <1>3, <2>1
  <1> HIDE DEF new
  <1>6. Lost' = Lost \cup (Range(batch) \ Range(kept))
    BY <1>1, <1>3, DropLost
  <1>7. Settled' = Settled \cup (Range(batch) \ Range(kept))
    BY <1>3, <1>6 DEF Settled
  <1>8. \A t \in Storers : InHand(t)' = InHand(t)
    BY <1>3, SameHand
  <1>9. Custody' \subseteq Custody \cup {new} /\ Custody \cup {new} \subseteq Custody' \cup Settled'
    BY <1>2, <1>3, <1>5, <1>7, <1>8, CustodyIs, CustodyIsNext
  <1>10. Accounted'
    BY <1>4, <1>7, <1>9 DEF Accounted
  <1>11. LedgerInv'
    BY <1>3, <1>7 DEF LedgerInv, SplitShape, HandShape, ReplayShape
  <1>12. Range(batch') \subseteq Range(batch) \cup {Len(made) + 1}
    BY <1>2, <1>5 DEF new
  <1> QED BY <1>4, <1>7, <1>9, <1>10, <1>11, <1>12 DEF QueueMove

\* A flush takes the whole batch into its hand.
LEMMA QueueFlush ==
    ASSUME TypeInv, LedgerInv, Accounted, NEW t \in Flushers, Flush(t)
    PROVE  QueueMove /\ LedgerInv'
           /\ Range(batch') = {} /\ InHand(t)' = Range(batch)
           /\ \A u \in Storers \ {t} : InHand(u)' = InHand(u)
  <1>1. t \in Storers /\ t \in Tasks /\ t # Replay
    BY TaskFacts
  <1>2. /\ pc \in [Tasks -> StorerPCs \cup ReplayPCs] /\ group \in [Tasks -> SUBSET Row]
        /\ split \in [Tasks -> Splits]
    BY DEF TypeInv, TypeOK
  <1>3. /\ batch' = <<>> /\ UNCHANGED <<made, pending, dead, received, lost, split>>
        /\ pc[t] = "idle" /\ pc'[t] = "post" /\ group'[t] = {[id |-> 0, checks |-> batch]}
        /\ \A u \in Tasks \ {t} : pc'[u] = pc[u] /\ group'[u] = group[u]
    BY <1>1, <1>2 DEF Flush, tables
  <1>4. \A u \in Storers \ {t} : InHand(u)' = InHand(u)
    BY <1>3, SameHand, TaskFacts
  <1>5. InHand(t) = {}
    BY <1>1, <1>3, ContentsEmpty DEF LedgerInv, HandShape, InHand
  <1>6. InHand(t)' = Range(batch)
    <2>1. InHand(t)' = Contents(group'[t])
      BY <1>3 DEF InHand
    <2>2. Contents(group'[t]) = Range([id |-> 0, checks |-> batch].checks)
      BY <1>3, ContentsOne
    <2> QED BY <2>1, <2>2
  <1>7. Settled' = Settled
    BY <1>3 DEF Settled, Lost
  <1>8. Custody' = Custody
    <2>1. Range(batch') = {} /\ pending' = pending
      BY <1>3, EmptyRange
    <2>2. \A x : x \in Custody => x \in Custody'
      BY <1>1, <1>4, <1>5, <1>6, <2>1, CustodyIs, CustodyIsNext
    <2>3. \A x : x \in Custody' => x \in Custody
      BY <1>1, <1>4, <1>5, <1>6, <2>1, CustodyIs, CustodyIsNext
    <2> QED BY <2>2, <2>3
  <1>9. LedgerInv'
    BY <1>1, <1>3, <1>7, TaskFacts DEF LedgerInv, SplitShape, HandShape, ReplayShape
  <1> QED BY <1>3, <1>4, <1>6, <1>7, <1>8, <1>9, EmptyRange DEF QueueMove, Accounted

\* stop() takes the batch to store it; what it cancels is given up.
LEMMA QueueStop ==
    ASSUME TypeInv, StopperShape, LedgerInv, Accounted, Stop
    PROVE  QueueMove /\ LedgerInv'
           /\ Range(batch') = {} /\ InHand(Stopper)' = Range(batch)
           /\ \A u \in Storers \ {Stopper} : InHand(u)' \subseteq InHand(u)
  <1> DEFINE cut == {t \in Flushers \cap {"result_processor"} : pc[t] # "idle"}
  <1>1. TypeOK /\ cut \subseteq Storers /\ Replay \notin cut /\ Stopper \notin cut
        /\ pc[Stopper] = "idle"
    BY TaskFacts, ReporterConstants DEF TypeInv, Stop, StopperShape, Stopper
  <1>2. /\ pc' = [t \in Tasks |-> IF t \in cut THEN "idle"
                                  ELSE IF t = Stopper /\ batch # <<>> THEN "store"
                                  ELSE pc[t]]
        /\ group' = [t \in Tasks |-> IF t \in cut THEN {}
                                     ELSE IF t = Stopper /\ batch # <<>>
                                          THEN {[id |-> 0, checks |-> batch]}
                                     ELSE group[t]]
        /\ split' = [t \in Tasks |-> IF t \in cut THEN NoSplit ELSE split[t]]
        /\ Drop("cancel", UNION {InHand(t) : t \in cut}) /\ "cancel" \in Losses
        /\ batch' = <<>> /\ UNCHANGED <<made, pending, dead, received>>
    BY DEF Stop, tables, Losses
  <1> HIDE DEF cut
  <1>3. Lost' = Lost \cup UNION {InHand(t) : t \in cut}
    BY <1>1, <1>2, DropLost
  <1>4. Settled \subseteq Settled' /\ \A t \in cut : InHand(t) \subseteq Settled'
    BY <1>2, <1>3 DEF Settled
  <1>5. \A u \in Storers \ (cut \cup {Stopper}) : InHand(u)' = InHand(u)
    <2> TAKE u \in Storers \ (cut \cup {Stopper})
    <2>1. pc'[u] = pc[u] /\ group'[u] = group[u] /\ split'[u] = split[u]
      BY <1>2, TaskFacts
    <2> QED BY <2>1, SameHand
  <1>6. \A u \in cut : InHand(u)' = {}
    <2> TAKE u \in cut
    <2>1. pc'[u] = "idle" /\ group'[u] = {}
      BY <1>1, <1>2, TaskFacts
    <2> QED BY <2>1, ContentsEmpty DEF InHand
  <1>7. InHand(Stopper) = {}
    BY <1>1, TaskFacts, ContentsEmpty DEF LedgerInv, HandShape, InHand
  <1>8. InHand(Stopper)' = Range(batch)
    <2>1. CASE batch = <<>>
      <3>1. pc'[Stopper] = "idle" /\ group'[Stopper] = {}
        BY <1>1, <1>2, <2>1, TaskFacts DEF LedgerInv, HandShape
      <3> QED BY <2>1, <3>1, ContentsEmpty, EmptyRange DEF InHand
    <2>2. CASE batch # <<>>
      <3>1. pc'[Stopper] = "store" /\ group'[Stopper] = {[id |-> 0, checks |-> batch]}
        BY <1>1, <1>2, <2>2, TaskFacts
      <3>2. InHand(Stopper)' = Contents(group'[Stopper])
        BY <3>1 DEF InHand
      <3>3. Contents(group'[Stopper]) = Range([id |-> 0, checks |-> batch].checks)
        BY <3>1, ContentsOne
      <3> QED BY <3>2, <3>3
    <2> QED BY <2>1, <2>2
  <1>9. Custody' \subseteq Custody /\ Custody \subseteq Custody' \cup Settled'
    BY <1>1, <1>2, <1>4, <1>5, <1>6, <1>7, <1>8, EmptyRange, TaskFacts, CustodyIs, CustodyIsNext
  <1>10. Accounted'
    BY <1>2, <1>4, <1>9 DEF Accounted
  <1>11. SplitShape' /\ HandShape'
    BY <1>1, <1>2, TaskFacts DEF LedgerInv, SplitShape, HandShape
  <1>12. ReplayShape'
    <2>1. pc'[Replay] = pc[Replay] /\ group'[Replay] = group[Replay] /\ split'[Replay] = split[Replay]
      BY <1>1, <1>2, TaskFacts
    <2> QED BY <1>4, <2>1 DEF LedgerInv, ReplayShape
  <1>13. /\ Range(batch') = {} /\ InHand(Stopper)' = Range(batch)
         /\ \A u \in Storers \ {Stopper} : InHand(u)' \subseteq InHand(u)
    BY <1>2, <1>5, <1>6, <1>8, EmptyRange
  <1> QED BY <1>2, <1>4, <1>9, <1>10, <1>11, <1>12, <1>13 DEF QueueMove, LedgerInv

\* What the end of stop() cancels is given up.
LEMMA QueueStopEnds ==
    ASSUME TypeInv, LedgerInv, Accounted, StopEnds
    PROVE  QueueMove /\ LedgerInv' /\ \A t \in Storers : InHand(t)' = {}
  <1> DEFINE busy == {t \in Tasks : pc[t] # "idle"}
  <1>1. TypeOK /\ busy \subseteq Tasks
    BY DEF TypeInv
  <1>2. /\ Drop("cancel", UNION {InHand(t) : t \in busy \ {Replay}}) /\ "cancel" \in Losses
        /\ pc' = [t \in Tasks |-> IF t \in busy THEN "idle" ELSE pc[t]]
        /\ group' = [t \in Tasks |-> {}]
        /\ UNCHANGED <<made, batch, pending, dead, received>>
    BY DEF StopEnds, Cancel, tables, Losses
  <1>3. \A t \in Tasks : pc'[t] = "idle" /\ group'[t] = {}
    BY <1>2
  <1>4. \A t \in Storers \ busy : InHand(t) = {}
    <2> TAKE t \in Storers \ busy
    <2>1. pc[t] = "idle" /\ group[t] = {}
      BY TaskFacts DEF LedgerInv, HandShape
    <2> QED BY <2>1, ContentsEmpty DEF InHand
  <1> HIDE DEF busy
  <1>5. Lost' = Lost \cup UNION {InHand(t) : t \in busy \ {Replay}}
    BY <1>1, <1>2, DropLost
  <1>6. Settled \subseteq Settled' /\ \A t \in Storers : InHand(t) \subseteq Settled'
    <2>1. \A t \in Storers \cap busy : InHand(t) \subseteq Lost'
      BY <1>5, TaskFacts
    <2> QED BY <1>2, <1>4, <1>5, <2>1 DEF Settled
  <1>7. \A t \in Storers : InHand(t)' = {}
    <2> TAKE t \in Storers
    <2>1. pc'[t] = "idle" /\ group'[t] = {}
      BY <1>3, TaskFacts
    <2> QED BY <2>1, ContentsEmpty DEF InHand
  <1>8. Custody' \subseteq Custody /\ Custody \subseteq Custody' \cup Settled'
    BY <1>2, <1>6, <1>7, CustodyIs, CustodyIsNext
  <1>9. Accounted'
    BY <1>2, <1>6, <1>8 DEF Accounted
  <1>10. LedgerInv'
    BY <1>3, TaskFacts DEF LedgerInv, SplitShape, HandShape, ReplayShape, InParts
  <1> QED BY <1>2, <1>6, <1>7, <1>8, <1>9, <1>10 DEF QueueMove

\* A crash gives up what was in memory, and only that.
LEMMA QueueCrash ==
    ASSUME TypeInv, LedgerInv, Accounted, Crash
    PROVE  QueueMove /\ LedgerInv' /\ Range(batch') = {} /\ \A t \in Storers : InHand(t)' = {}
  <1> DEFINE memoryOnly == Range(batch) \cup UNION {InHand(t) : t \in Storers}
  <1>1. /\ Drop("crash", memoryOnly) /\ "crash" \in Losses /\ TypeOK
        /\ pc' = [t \in Tasks |-> "idle"] /\ group' = [t \in Tasks |-> {}] /\ batch' = <<>>
        /\ UNCHANGED <<made, pending, dead, received>>
    BY DEF Crash, tables, Losses, TypeInv
  <1>2. \A t \in Tasks : pc'[t] = "idle" /\ group'[t] = {}
    BY <1>1
  <1>3. Range(batch) \subseteq memoryOnly /\ \A t \in Storers : InHand(t) \subseteq memoryOnly
    OBVIOUS
  <1> HIDE DEF memoryOnly
  <1>4. Lost' = Lost \cup memoryOnly
    BY <1>1, DropLost
  <1>5. Settled \subseteq Settled' /\ memoryOnly \subseteq Settled'
    BY <1>1, <1>4 DEF Settled
  <1>6. \A t \in Storers : InHand(t)' = {}
    <2> TAKE t \in Storers
    <2>1. pc'[t] = "idle" /\ group'[t] = {}
      BY <1>2, TaskFacts
    <2> QED BY <2>1, ContentsEmpty DEF InHand
  <1>7. Range(batch') = {} /\ pending' = pending
    BY <1>1, EmptyRange
  <1>8. Custody' \subseteq Custody /\ Custody \subseteq Custody' \cup Settled'
    BY <1>3, <1>5, <1>6, <1>7, CustodyIs, CustodyIsNext
  <1>9. Accounted'
    BY <1>1, <1>5, <1>8 DEF Accounted
  <1>10. LedgerInv'
    BY <1>2, TaskFacts DEF LedgerInv, SplitShape, HandShape, ReplayShape, InParts
  <1> QED BY <1>1, <1>5, <1>6, <1>7, <1>8, <1>9, <1>10 DEF QueueMove

\* The invariant all the safety theorems of the reporter rest on.
QueueInv == TypeInv /\ StopperShape /\ RowInv /\ LedgerInv /\ Accounted

\* Before start() nothing is made, held or stored.
LEMMA QueueInit == Init => QueueInv /\ DOMAIN made = {} /\ Custody = {} /\ Settled = {}
  <1> SUFFICES ASSUME Init
               PROVE  QueueInv /\ DOMAIN made = {} /\ Custody = {} /\ Settled = {}
    OBVIOUS
  <1>1. TypeInv /\ StopperShape
    BY TypeInit, TaskFacts DEF Init, StopperShape
  <1>2. RowInv
    BY TaskFacts DEF Init, RowInv, RowIds, CopiesApart, ReplayCopyCurrent, Copies
  <1>3. \A t \in Tasks : pc[t] = "idle" /\ group[t] = {}
    BY DEF Init
  <1>4. LedgerInv
    BY <1>3, TaskFacts DEF LedgerInv, SplitShape, HandShape, ReplayShape, InParts
  <1>5. DOMAIN made = {}
    BY DEF Init
  <1>6. \A t \in Storers : InHand(t) = {}
    BY <1>3, ContentsEmpty, TaskFacts DEF InHand
  <1>7. Custody = {}
    <2>1. Range(batch) = {} /\ Contents(pending) = {}
      BY EmptyRange, ContentsEmpty DEF Init
    <2> QED BY <1>6, <2>1, CustodyIs
  <1>8. Settled = {}
    <2>1. Letters(dead) = {} /\ received = {}
      BY EmptyRange DEF Init
    <2>2. Lost = {}
      BY DEF Init, Lost
    <2> QED BY <2>1, <2>2 DEF Settled
  <1> QED BY <1>1, <1>2, <1>4, <1>5, <1>7, <1>8 DEF QueueInv, Accounted

\* Every step is a step of the abstract queue.
LEMMA QueueNext ==
    ASSUME QueueInv, Next PROVE QueueMove /\ LedgerInv'
  <1> USE DEF QueueInv
  <1>1. ASSUME NEW t \in Tasks, TaskStep(t) \/ DiskFails(t) PROVE QueueMove /\ LedgerInv'
    <2>1. HandsOn(t) /\ Tidy(t)
      BY <1>1, HandsTaskStep, HandsDiskFails
    <2> QED BY <2>1, QueueHandsOn, ShapesKept
  <1>2. CASE ReplayStep \/ ReplayRead
    <2>1. HandsOn(Replay) /\ Tidy(Replay) /\ Replay \in Tasks
      BY <1>2, HandsReplayStep, HandsReplayRead, TaskFacts
    <2> QED BY <2>1, QueueHandsOn, ShapesKept
  <1> QED BY <1>1, <1>2, QueueStart, QueueAddResult, QueueFlush, QueueStop, QueueStopEnds, QueueCrash
          DEF Next

\* A stuttering step of the reporter stutters.
LEMMA QueueStutters ==
    ASSUME LedgerInv, Accounted, UNCHANGED vars
    PROVE  LedgerInv' /\ Accounted' /\ made' = made /\ Custody' = Custody /\ Settled' = Settled
  <1>1. UNCHANGED <<made, batch, pc, group, split, pending, dead, received, lost>>
    BY DEF vars, memory, tables
  <1>2. made' = made /\ Custody' = Custody /\ Settled' = Settled
    BY <1>1 DEF Custody, Settled, Lost, InHand, Unsent
  <1> QED BY <1>1, <1>2 DEF LedgerInv, SplitShape, HandShape, ReplayShape, Accounted

\* The invariant is inductive.
LEMMA QueueInvNext == QueueInv /\ [Next]_vars => QueueInv'
  <1> SUFFICES ASSUME QueueInv, [Next]_vars PROVE QueueInv'
    OBVIOUS
  <1>1. TypeInv' /\ StopperShape' /\ RowInv'
    BY TypeNext, StopperNext, RowsNext DEF QueueInv
  <1>2. LedgerInv' /\ Accounted'
    BY QueueNext, QueueStutters DEF QueueInv, QueueMove
  <1> QED BY <1>1, <1>2 DEF QueueInv

\* No result is ever lost silently, for every value of the constants: whatever
\* the interleaving of flushes, replay, stop and crash, each added result is
\* held, stored, received, dead-lettered or given up on the record.
THEOREM EveryResultAccounted == Spec => []Accounted
  <1>1. Init => QueueInv
    BY QueueInit
  <1>2. QueueInv => Accounted
    BY DEF QueueInv
  <1> QED BY <1>1, <1>2, QueueInvNext, PTL DEF Spec

\* The reporter implements the store-and-forward queue, for every value of the
\* constants: no step takes a result's fate back, brings back a result it let
\* go, or lets one vanish.
THEOREM ReporterImplementsQueue == Spec => ImplementsQueue
  <1>1. Init => QueueInv /\ Queue!Init
    BY QueueInit DEF Queue!Init
  <1>2. QueueInv /\ [Next]_vars => [Queue!Move]_<<DOMAIN made, Custody, Settled>>
    <2> SUFFICES ASSUME QueueInv, [Next]_vars
                 PROVE  [Queue!Move]_<<DOMAIN made, Custody, Settled>>
      OBVIOUS
    <2>1. CASE Next
      BY <2>1, QueueNext DEF QueueMove, Queue!Move, Accounted
    <2>2. CASE UNCHANGED vars
      BY <2>2, QueueStutters DEF QueueInv
    <2> QED BY <2>1, <2>2
  <1> QED BY <1>1, <1>2, QueueInvNext, PTL DEF Spec, ImplementsQueue, Queue!Spec

-----------------------------------------------------------------------------
(* Dead letters are refused payloads.                                          *)

\* Nothing is held, copied or dead-lettered that was not added.
KnownInv ==
    /\ Custody \subseteq DOMAIN made /\ Contents(Copies) \subseteq DOMAIN made
    /\ \A c \in Range(dead) : Range(c) \subseteq DOMAIN made

\* What is about to become a dead letter is what the server refused.
RefusedAt(t) ==
    /\ pc[t] \in {"dead", "move"} => Verdict(Contents(group[t])) = "permanent"
    /\ pc[t] = "dead_part" => Verdict(Range(split[t].part)) = "permanent"

RefusedInv ==
    /\ \A t \in Tasks : RefusedAt(t)
    /\ \A c \in Range(dead) : Verdict(Range(c)) = "permanent"

\* The copies of the replay come out of the table.
LEMMA CopiesFrom ==
    ASSUME QueueInv, [Next]_vars PROVE Copies' \subseteq Copies \cup pending
  <1> USE DEF QueueInv
  <1>1. CASE UNCHANGED vars \/ Start \/ \E kind \in Kinds : AddResult(kind)
    BY <1>1 DEF vars, Start, AddResult, memory, Copies
  <1>2. ASSUME NEW t \in Flushers, Flush(t) PROVE Copies' \subseteq Copies
    <2>1. UNCHANGED <<todo, solo>> /\ group'[Replay] = group[Replay]
      BY <1>2, TaskFacts DEF Flush, TypeInv, TypeOK
    <2> QED BY <2>1 DEF Copies
  <1>3. ASSUME NEW t \in Tasks, TaskStep(t) PROVE Copies' \subseteq Copies
    BY <1>3, TaskCopies DEF Copies
  <1>4. CASE ReplayStep
    BY <1>4, RowsReplayNext, RowsReplayGroup, RowsReplayParts, RowsReplayRewrite, RowsReplayDelete
       DEF ReplayStep
  <1>5. CASE ReplayRead
    <2>1. todo' \subseteq pending /\ UNCHANGED <<solo, group>>
      BY <1>5 DEF ReplayRead, FreeRows, Oldest
    <2> QED BY <2>1 DEF Copies
  <1> QED BY <1>1, <1>2, <1>3, <1>4, <1>5, RowsFailures DEF Next

\* What a task is about to dead-letter is known.
LEMMA KnownHands ==
    ASSUME QueueInv, KnownInv, NEW t \in Tasks
    PROVE  /\ pc[t] \notin InParts => Contents(group[t]) \subseteq DOMAIN made
           /\ pc[t] \in InParts => Range(split[t].part) \subseteq DOMAIN made
  <1> USE DEF QueueInv
  <1>1. split[t] \in Splits
    BY DEF TypeInv, TypeOK
  <1>2. CASE t \in Storers
    <2>1. InHand(t) \subseteq DOMAIN made
      BY <1>2, CustodyIs DEF KnownInv
    <2> QED BY <1>1, <2>1, InHandIs DEF SplitHolds
  <1>3. CASE t = Replay
    <2>1. Contents(group[Replay]) \subseteq DOMAIN made
      <3>1. group[Replay] \subseteq Copies
        BY DEF Copies
      <3> QED BY <3>1, ContentsIs DEF KnownInv
    <2> QED BY <1>3, <2>1 DEF LedgerInv, ReplayShape, SplitHolds
  <1> QED BY <1>2, <1>3, TaskFacts

\* Adding a result changes the verdict on no payload made before.
LEMMA VerdictStable ==
    ASSUME TypeOK, NEW S, S \subseteq DOMAIN made, NEW kind, made' = Append(made, kind)
    PROVE  Verdict(S)' = Verdict(S)
  <1>1. \A r \in DOMAIN made : made'[r] = made[r]
    BY DEF TypeOK
  <1> QED BY <1>1 DEF Verdict

\* With no result added, no verdict changes.
LEMMA VerdictSame ==
    ASSUME NEW S, made' = made PROVE Verdict(S)' = Verdict(S)
  BY DEF Verdict

\* A step that dead-letters c: c is known and refused.
DeadStep(c) ==
    /\ made' = made /\ Range(dead') \subseteq Range(dead) \cup {c}
    /\ Range(c) \subseteq DOMAIN made /\ Verdict(Range(c)) = "permanent"

\* _dead_letter_batch stores what was refused.
LEMMA DeadLetterStep ==
    ASSUME QueueInv, KnownInv, RefusedInv, NEW t \in Tasks, DeadLetterBatch(t)
    PROVE  \E c \in Seq(Results) : DeadStep(c)
  <1> USE DEF QueueInv
  <1>1. TypeOK /\ made' = made /\ split[t] \in Splits /\ pc[Replay] \in ReplayPCs
    BY DEF DeadLetterBatch, TypeInv, TypeOK
  <1>2. CASE pc[t] = "dead"
    <2>1. t \in Storers
      BY <1>1, <1>2, TaskFacts DEF ReplayPCs
    <2>2. /\ Only(group[t]).checks \in Seq(Results)
          /\ Contents(group[t]) = Range(Only(group[t]).checks)
      BY <1>2, <2>1, FlushHolds
    <2>3. InsertDead(Only(group[t]).checks)
      BY <1>2 DEF DeadLetterBatch
    <2>4. Range(dead') \subseteq Range(dead) \cup {Only(group[t]).checks}
      BY <1>1, <2>2, <2>3, InsertDeadKeeps
    <2>5. Verdict(Contents(group[t])) = "permanent" /\ Contents(group[t]) \subseteq DOMAIN made
      BY <1>2, KnownHands DEF RefusedInv, RefusedAt, InParts
    <2> QED BY <1>1, <2>2, <2>4, <2>5 DEF DeadStep
  <1>3. CASE pc[t] = "dead_part"
    <2>1. split[t].part \in Seq(Results) /\ InsertDead(split[t].part)
      BY <1>1, <1>3, SplitHolding DEF DeadLetterBatch
    <2>2. Range(dead') \subseteq Range(dead) \cup {split[t].part}
      BY <1>1, <2>1, InsertDeadKeeps
    <2>3. Verdict(Range(split[t].part)) = "permanent" /\ Range(split[t].part) \subseteq DOMAIN made
      BY <1>3, KnownHands DEF RefusedInv, RefusedAt, InParts
    <2> QED BY <1>1, <2>1, <2>2, <2>3 DEF DeadStep
  <1> QED BY <1>2, <1>3 DEF DeadLetterBatch

\* _move_to_dead_letters stores the row that was refused, as it was sent.
LEMMA MoveStep ==
    ASSUME QueueInv, KnownInv, RefusedInv, ReplayMove
    PROVE  dead' = dead \/ \E c \in Seq(Results) : DeadStep(c)
  <1> USE DEF QueueInv
  <1> DEFINE row == {q \in pending : q.id = Only(group[Replay]).id}
  <1>1. TypeOK /\ made' = made /\ pc[Replay] = "move"
    BY DEF ReplayMove, TypeInv
  <1>2. PICK r \in Row : group[Replay] = {r}
    BY <1>1 DEF TypeInv, OneInHand
  <1>3. Only(group[Replay]) = r
    BY <1>2, OnlyOfOne
  <1>4. CASE row = {}
    BY <1>4 DEF ReplayMove
  <1>5. CASE row # {}
    <2>1. PICK q \in pending : q.id = r.id /\ Only(row) = q /\ q.checks \in Seq(Results)
      BY <1>3, <1>5, OneRow
    <2>2. q = r
      BY <1>2, <2>1 DEF RowInv, ReplayCopyCurrent
    <2>3. InsertDead(r.checks) /\ r.checks \in Seq(Results)
      BY <1>5, <2>1, <2>2 DEF ReplayMove
    <2>4. Range(dead') \subseteq Range(dead) \cup {r.checks}
      BY <1>1, <2>3, InsertDeadKeeps
    <2>5. Contents(group[Replay]) = Range(r.checks)
      BY <1>2, ContentsOne
    <2>6. Verdict(Range(r.checks)) = "permanent" /\ Range(r.checks) \subseteq DOMAIN made
      BY <1>1, <2>5, KnownHands, TaskFacts DEF RefusedInv, RefusedAt, InParts
    <2> QED BY <1>1, <2>3, <2>4, <2>6 DEF DeadStep
  <1> QED BY <1>4, <1>5

\* No other step touches the dead letters.
LEMMA DeadChanges ==
    ASSUME QueueInv, KnownInv, RefusedInv, [Next]_vars
    PROVE  dead' = dead \/ \E c \in Seq(Results) : DeadStep(c)
  <1>1. CASE UNCHANGED vars \/ Start \/ \E kind \in Kinds : AddResult(kind)
    BY <1>1 DEF vars, Start, AddResult, tables
  <1>2. CASE ReplayRead \/ Stop \/ StopEnds \/ Crash \/ \E t \in Flushers : Flush(t)
    BY <1>2 DEF ReplayRead, Stop, StopEnds, Crash, Flush, tables
  <1>3. ASSUME NEW t \in Tasks, DiskFails(t) PROVE dead' = dead
    BY <1>3 DEF DiskFails, tables
  <1>4. ASSUME NEW t \in Tasks, TaskStep(t)
        PROVE  dead' = dead \/ \E c \in Seq(Results) : DeadStep(c)
    <2>1. CASE DeadLetterBatch(t)
      BY <2>1, DeadLetterStep
    <2>2. CASE PostFails(t) \/ PostAgain(t) \/ NextPart(t) \/ DeliverParts(t)
      BY <2>2 DEF PostFails, PostAgain, NextPart, DeliverParts, tables
    <2>3. CASE StoreInsert(t) \/ StoreCount(t) \/ StorePrune(t)
      BY <2>3 DEF StoreInsert, StoreCount, StorePrune, tables
    <2>4. CASE Deliver(t)
      BY <2>4 DEF Deliver, PostReturns, tables
    <2>5. CASE PartAnswered(t)
      BY <2>5 DEF PartAnswered, PostReturns, tables
    <2> QED BY <1>4, <2>1, <2>2, <2>3, <2>4, <2>5 DEF TaskStep
  <1>5. CASE ReplayStep
    <2>1. CASE ReplayGroup
      BY <2>1 DEF ReplayGroup, PostReturns, tables
    <2>2. CASE ReplayNext \/ ReplayParts \/ ReplayRewrite \/ ReplayDelete
      BY <2>2 DEF ReplayNext, ReplayParts, ReplayRewrite, ReplayDelete, tables
    <2> QED BY <1>5, <2>1, <2>2, MoveStep DEF ReplayStep
  <1> QED BY <1>1, <1>2, <1>3, <1>4, <1>5 DEF Next

\* Every step keeps known what is held, copied or dead-lettered.
LEMMA KnownNext ==
    ASSUME QueueInv, KnownInv, RefusedInv, [Next]_vars PROVE KnownInv'
  <1>1. /\ DOMAIN made \subseteq DOMAIN made'
        /\ Custody' \subseteq Custody \cup (DOMAIN made' \ DOMAIN made)
    BY QueueNext, QueueStutters DEF QueueInv, QueueMove
  <1>2. Custody' \subseteq DOMAIN made'
    BY <1>1 DEF KnownInv
  <1>3. Contents(Copies') \subseteq DOMAIN made'
    <2>1. Copies' \subseteq Copies \cup pending
      BY CopiesFrom
    <2>2. Contents(pending) \subseteq DOMAIN made
      BY CustodyIs DEF KnownInv
    <2> QED BY <1>1, <2>1, <2>2, ContentsIs DEF KnownInv
  <1>4. \A c \in Range(dead') : Range(c) \subseteq DOMAIN made'
    BY <1>1, DeadChanges DEF KnownInv, DeadStep
  <1> QED BY <1>2, <1>3, <1>4 DEF KnownInv

\* A step of a task comes to a dead letter only by the server's refusal.
LEMMA RefusedTaskStep ==
    ASSUME QueueInv, RefusedInv, NEW t \in Tasks, TaskStep(t) \/ DiskFails(t)
    PROVE  RefusedAt(t)'
  <1> USE DEF QueueInv
  <1>1. pc \in [Tasks -> StorerPCs \cup ReplayPCs] /\ pc[Replay] \in ReplayPCs
    BY DEF TypeInv, TypeOK
  <1>2. CASE pc'[t] \notin {"dead", "move", "dead_part"}
    BY <1>2 DEF RefusedAt
  <1>3. CASE Deliver(t) /\ pc'[t] \in {"dead", "move", "dead_part"}
    <2>1. PICK out \in Outcomes : Deliver(t)!(out)
      BY <1>3 DEF Deliver
    <2>2. PostReturns(t, out) /\ ~InPart(t) /\ made' = made
      BY <2>1, PostOutcome
    <2>3. out = "permanent" /\ pc'[t] = "dead" /\ group' = group
      BY <1>1, <1>3, <2>1 DEF StartParts
    <2>4. Verdict(Contents(group[t])) = "permanent"
      BY <2>2, <2>3, PostOutcome DEF Payload
    <2> QED BY <2>2, <2>3, <2>4, VerdictSame DEF RefusedAt
  <1>4. CASE PartAnswered(t)
    <2>1. made' = made
      BY <1>4, PostOutcome DEF PartAnswered
    <2>2. /\ pc'[t] \in {"parts", "dead_part"}
          /\ pc'[t] = "dead_part" => /\ split'[t] = split[t]
                                     /\ Verdict(Range(split[t].part)) = "permanent"
      BY <1>4, PartAnsweredHolds
    <2> QED BY <2>1, <2>2, VerdictSame DEF RefusedAt
  <1>5. CASE PostFails(t) \/ PostAgain(t) \/ NextPart(t) \/ DeliverParts(t) \/ DeadLetterBatch(t)
    <2>1. pc'[t] \notin {"dead", "move", "dead_part"}
      BY <1>1, <1>5 DEF PostFails, PostAgain, NextPart, DeliverParts, DeadLetterBatch, PartDone
    <2> QED BY <1>2, <2>1
  <1>6. CASE StoreInsert(t) \/ StoreCount(t) \/ StorePrune(t) \/ DiskFails(t)
    <2>1. pc'[t] \notin {"dead", "move", "dead_part"}
      BY <1>1, <1>6 DEF StoreInsert, StoreCount, StorePrune, DiskFails, PartDone, EndPass
    <2> QED BY <1>2, <2>1
  <1> QED BY <1>2, <1>3, <1>4, <1>5, <1>6 DEF TaskStep

\* The replay comes to a move only by the server's refusal of that row alone.
LEMMA RefusedReplayStep ==
    ASSUME QueueInv, RefusedInv, ReplayStep \/ ReplayRead PROVE RefusedAt(Replay)'
  <1> USE DEF QueueInv
  <1>1. pc \in [Tasks -> StorerPCs \cup ReplayPCs] /\ Replay \in Tasks
    BY TaskFacts DEF TypeInv, TypeOK
  <1>2. CASE pc'[Replay] \notin {"dead", "move", "dead_part"}
    BY <1>2 DEF RefusedAt
  <1>3. CASE ReplayGroup /\ pc'[Replay] \in {"dead", "move", "dead_part"}
    <2>1. PICK out \in Outcomes : ReplayGroup!(out)
      BY <1>3 DEF ReplayGroup
    <2>2. PostReturns(Replay, out) /\ ~InPart(Replay) /\ made' = made
      BY <2>1, PostOutcome
    <2>3. out = "permanent" /\ pc'[Replay] = "move" /\ group' = group
      BY <1>1, <1>3, <2>1 DEF StartParts, EndPass
    <2>4. Verdict(Contents(group[Replay])) = "permanent"
      BY <2>2, <2>3, PostOutcome DEF Payload
    <2> QED BY <2>2, <2>3, <2>4, VerdictSame DEF RefusedAt
  <1>4. CASE ReplayNext \/ ReplayParts \/ ReplayRewrite
    <2>1. pc'[Replay] \notin {"dead", "move", "dead_part"}
      BY <1>1, <1>4 DEF ReplayNext, ReplayParts, ReplayRewrite, EndPass
    <2> QED BY <1>2, <2>1
  <1>5. CASE ReplayDelete \/ ReplayMove \/ ReplayRead
    <2>1. pc'[Replay] \notin {"dead", "move", "dead_part"}
      BY <1>1, <1>5 DEF ReplayDelete, ReplayMove, ReplayRead
    <2> QED BY <1>2, <2>1
  <1> QED BY <1>2, <1>3, <1>4, <1>5 DEF ReplayStep

\* A task that does not move keeps its refusal, with no result added.
LEMMA RefusedOthers ==
    ASSUME RefusedInv, NEW t \in Tasks, made' = made, Others(t), RefusedAt(t)'
    PROVE  \A u \in Tasks : RefusedAt(u)'
  <1> TAKE u \in Tasks
  <1>1. CASE u = t
    BY <1>1
  <1>2. CASE u # t
    <2>1. pc'[u] = pc[u] /\ group'[u] = group[u] /\ split'[u] = split[u]
      BY <1>2 DEF Others
    <2> QED BY <2>1, VerdictSame DEF RefusedInv, RefusedAt
  <1> QED BY <1>1, <1>2

\* Every step keeps the refusals of what is to be dead-lettered.
LEMMA RefusedHands ==
    ASSUME QueueInv, KnownInv, RefusedInv, [Next]_vars
    PROVE  \A t \in Tasks : RefusedAt(t)'
  <1> USE DEF QueueInv
  <1>1. ASSUME NEW t \in Tasks, TaskStep(t) \/ DiskFails(t) PROVE \A u \in Tasks : RefusedAt(u)'
    <2>1. HandsOn(t)
      BY <1>1, HandsTaskStep, HandsDiskFails
    <2> QED BY <1>1, <2>1, RefusedTaskStep, RefusedOthers DEF HandsOn
  <1>2. CASE ReplayStep \/ ReplayRead
    <2>1. HandsOn(Replay) /\ Replay \in Tasks
      BY <1>2, HandsReplayStep, HandsReplayRead, TaskFacts
    <2> QED BY <1>2, <2>1, RefusedReplayStep, RefusedOthers DEF HandsOn
  <1>3. CASE UNCHANGED vars \/ Start
    <2>1. UNCHANGED <<made, pc, group, split>>
      BY <1>3 DEF vars, Start, memory
    <2> QED BY <2>1, VerdictSame DEF RefusedInv, RefusedAt
  <1>4. ASSUME NEW kind \in Kinds, AddResult(kind) PROVE \A t \in Tasks : RefusedAt(t)'
    <2> TAKE t \in Tasks
    <2>1. made' = Append(made, kind) /\ UNCHANGED <<pc, group, split>> /\ TypeOK
      BY <1>4 DEF AddResult, TypeInv
    <2>2. pc[t] \in {"dead", "move"} => Verdict(Contents(group[t]))' = Verdict(Contents(group[t]))
      <3> SUFFICES ASSUME pc[t] \in {"dead", "move"}
                   PROVE  Verdict(Contents(group[t]))' = Verdict(Contents(group[t]))
        OBVIOUS
      <3> DEFINE S == Contents(group[t])
      <3>1. S \subseteq DOMAIN made
        BY KnownHands DEF InParts
      <3>2. S' = S
        BY <2>1
      <3>3. \A r \in DOMAIN made : made'[r] = made[r]
        BY <2>1 DEF TypeOK
      <3> HIDE DEF S
      <3>4. Verdict(S)' = Verdict(S)
        BY <3>1, <3>2, <3>3 DEF Verdict
      <3> QED BY <3>4 DEF S
    <2>3. pc[t] = "dead_part" => Verdict(Range(split[t].part))' = Verdict(Range(split[t].part))
      <3> SUFFICES ASSUME pc[t] = "dead_part"
                   PROVE  Verdict(Range(split[t].part))' = Verdict(Range(split[t].part))
        OBVIOUS
      <3> DEFINE S == Range(split[t].part)
      <3>1. S \subseteq DOMAIN made
        BY KnownHands DEF InParts
      <3>2. S' = S
        BY <2>1
      <3>3. \A r \in DOMAIN made : made'[r] = made[r]
        BY <2>1 DEF TypeOK
      <3> HIDE DEF S
      <3>4. Verdict(S)' = Verdict(S)
        BY <3>1, <3>2, <3>3 DEF Verdict
      <3> QED BY <3>4 DEF S
    <2> QED BY <2>1, <2>2, <2>3 DEF RefusedInv, RefusedAt
  <1>5. ASSUME NEW f \in Flushers, Flush(f) PROVE \A t \in Tasks : RefusedAt(t)'
    <2>1. /\ made' = made /\ split' = split /\ pc'[f] = "post"
          /\ \A t \in Tasks \ {f} : pc'[t] = pc[t] /\ group'[t] = group[t]
      BY <1>5, TaskFacts DEF Flush, TypeInv, TypeOK
    <2>2. RefusedAt(f)'
      BY <2>1 DEF RefusedAt
    <2> QED BY <2>1, <2>2, RefusedOthers, TaskFacts DEF Others
  <1>6. CASE Stop
    <2> TAKE t \in Tasks
    <2>1. made' = made /\ \/ pc'[t] \in {"idle", "store"}
                          \/ pc'[t] = pc[t] /\ group'[t] = group[t] /\ split'[t] = split[t]
      BY <1>6 DEF Stop
    <2> QED BY <2>1, VerdictSame DEF RefusedInv, RefusedAt
  <1>7. CASE StopEnds \/ Crash
    <2>1. \A t \in Tasks : pc'[t] = "idle"
      BY <1>7 DEF StopEnds, Cancel, Crash
    <2> QED BY <2>1 DEF RefusedAt
  <1> QED BY <1>1, <1>2, <1>3, <1>4, <1>5, <1>6, <1>7 DEF Next

\* Every step keeps the dead letters refused.
LEMMA RefusedNext ==
    ASSUME QueueInv, KnownInv, RefusedInv, [Next]_vars PROVE RefusedInv'
  <1>1. \A t \in Tasks : RefusedAt(t)'
    BY RefusedHands
  <1>2. ASSUME NEW c \in Range(dead') PROVE Verdict(Range(c))' = "permanent"
    <2>1. Verdict(Range(c)) = "permanent" /\ Range(c) \subseteq DOMAIN made
          /\ (c \in Range(dead) \/ made' = made)
      BY <1>2, DeadChanges DEF DeadStep, KnownInv, RefusedInv
    <2>2. made' = made \/ \E kind \in Kinds : made' = Append(made, kind)
      <3>1. CASE \E kind \in Kinds : AddResult(kind)
        BY <3>1 DEF AddResult
      <3>2. CASE Start \/ Stop \/ StopEnds \/ Crash \/ \E t \in Flushers : Flush(t)
        BY <3>2 DEF Start, Stop, StopEnds, Crash, Flush
      <3>3. ASSUME NEW t \in Tasks, TaskStep(t) \/ DiskFails(t) PROVE made' = made
        BY <3>3, HandsTaskStep, HandsDiskFails DEF HandsOn, QueueInv
      <3>4. CASE ReplayStep \/ ReplayRead
        BY <3>4, HandsReplayStep, HandsReplayRead DEF HandsOn, QueueInv
      <3> QED BY <3>1, <3>2, <3>3, <3>4 DEF Next, vars
    <2>3. Verdict(Range(c))' = Verdict(Range(c))
      BY <2>1, <2>2, VerdictSame, VerdictStable DEF QueueInv, TypeInv
    <2> QED BY <2>1, <2>3
  <1> QED BY <1>1, <1>2 DEF RefusedInv

\* Dead letters are refused payloads, for every value of the constants: no batch
\* is dead-lettered for its size, for the route's faults or for the fault of a
\* batch it was combined with.
THEOREM DeadLettersAreRefused == Spec => []DeadLettersRefused
  <1> DEFINE Inv == QueueInv /\ KnownInv /\ RefusedInv
  <1>1. Init => Inv
    <2> SUFFICES ASSUME Init PROVE KnownInv /\ RefusedInv
      BY QueueInit
    <2>1. Custody = {} /\ Copies = {} /\ Range(dead) = {}
      BY QueueInit, EmptyRange, TaskFacts DEF Init, Copies
    <2>2. Contents(Copies) = {}
      BY <2>1, ContentsEmpty
    <2>3. \A t \in Tasks : RefusedAt(t)
      BY DEF Init, RefusedAt
    <2> QED BY <2>1, <2>2, <2>3 DEF KnownInv, RefusedInv
  <1>2. Inv /\ [Next]_vars => Inv'
    BY QueueInvNext, KnownNext, RefusedNext
  <1>3. Inv => DeadLettersRefused
    <2> SUFFICES ASSUME RefusedInv, NEW i \in DOMAIN dead
                 PROVE  Verdict(Range(dead[i])) = "permanent"
      BY DEF DeadLettersRefused
    <2>1. dead[i] \in Range(dead)
      BY DEF Range
    <2> QED BY <2>1 DEF RefusedInv
  <1> QED BY <1>1, <1>2, <1>3, PTL DEF Spec

-----------------------------------------------------------------------------
(* A result has one custodian.                                                 *)

\* The rows of the next state are rows of this one, or what is left of them.
RowsOnlyShrink ==
    \A p \in pending' : \E q \in pending : q.id = p.id /\ Range(p.checks) \subseteq Range(q.checks)

\* OneCustodian, by pairs of places.
LEMMA CustodianPairs ==
    OneCustodian <=>
      /\ \A t \in Storers : \A x \in InHand(t) : x \notin Range(batch)
      /\ \A t, u \in Storers : t # u => \A x \in InHand(t) : x \notin InHand(u)
      /\ \A r \in pending : \A x \in Range(r.checks) :
            /\ x \notin Range(batch) /\ \A t \in Storers : x \notin InHand(t)
            /\ \A q \in pending : q # r => x \notin Range(q.checks)
  BY DEF OneCustodian

LEMMA CustodianPairsNext ==
    OneCustodian' <=>
      /\ \A t \in Storers : \A x \in InHand(t)' : x \notin Range(batch')
      /\ \A t, u \in Storers : t # u => \A x \in InHand(t)' : x \notin InHand(u)'
      /\ \A r \in pending' : \A x \in Range(r.checks) :
            /\ x \notin Range(batch') /\ \A t \in Storers : x \notin InHand(t)'
            /\ \A q \in pending' : q # r => x \notin Range(q.checks)
  BY DEF OneCustodian

\* Places that only shrink stay apart.
LEMMA CustodianShrinks ==
    ASSUME OneCustodian, RowIds', Range(batch') \subseteq Range(batch),
           \A t \in Storers : InHand(t)' \subseteq InHand(t), RowsOnlyShrink
    PROVE  OneCustodian'
  <1>1. \A q, r \in pending' : q.id = r.id => q = r
    BY DEF RowIds
  <1>2. \A t \in Storers : \A x \in InHand(t)' : x \notin Range(batch')
    BY CustodianPairs
  <1>3. \A t, u \in Storers : t # u => \A x \in InHand(t)' : x \notin InHand(u)'
    BY CustodianPairs
  <1>4. ASSUME NEW r \in pending', NEW x \in Range(r.checks)
        PROVE  /\ x \notin Range(batch') /\ \A t \in Storers : x \notin InHand(t)'
               /\ \A q \in pending' : q # r => x \notin Range(q.checks)
    <2>1. PICK p \in pending : p.id = r.id /\ Range(r.checks) \subseteq Range(p.checks)
      BY DEF RowsOnlyShrink
    <2>2. x \notin Range(batch') /\ \A t \in Storers : x \notin InHand(t)'
      BY <2>1, CustodianPairs
    <2>3. ASSUME NEW q \in pending', q # r PROVE x \notin Range(q.checks)
      <3>1. PICK o \in pending : o.id = q.id /\ Range(q.checks) \subseteq Range(o.checks)
        BY DEF RowsOnlyShrink
      <3>2. o # p
        BY <1>1, <2>1, <2>3, <3>1
      <3> QED BY <2>1, <3>1, <3>2, CustodianPairs
    <2> QED BY <2>2, <2>3
  <1> QED BY <1>2, <1>3, <1>4, CustodianPairsNext

\* A table that only loses rows.
LEMMA SubsetShrinks ==
    ASSUME pending' \subseteq pending PROVE RowsOnlyShrink
  BY DEF RowsOnlyShrink

\* A stored batch moves from a hand to a new row.
LEMMA CustodianStore ==
    ASSUME QueueInv, OneCustodian, NEW t \in Tasks, StoreInsert(t) PROVE OneCustodian'
  <1> USE DEF QueueInv
  <1>1. t \in Storers /\ HandsOn(t) /\ batch' = batch
    BY InsertRow, HandsStore DEF HandsOn
  <1>2. PICK c \in Seq(Results) :
             /\ group[t] = {[id |-> 0, checks |-> c]}
             /\ pending' = pending \cup {[id |-> nextId, checks |-> c]}
    BY InsertRow
  <1>3. InHand(t) = Range(c)
    <2>1. Only(group[t]) = [id |-> 0, checks |-> c] /\ pc[t] = "store"
      BY <1>2, OnlyOfOne DEF StoreInsert
    <2>2. Only(group[t]).checks = c
      BY <2>1
    <2> QED BY <1>1, <2>1, <2>2, FlushHolds
  <1>4. InHand(t)' = {}
    <2>1. pc'[t] = "count" /\ group'[t] = {} /\ split'[t] \in Splits
      BY DEF StoreInsert, TypeInv, TypeOK
    <2> QED BY <2>1, InHandIsNext, ContentsEmpty DEF InParts
  <1>5. \A u \in Storers \ {t} : InHand(u)' = InHand(u)
    <2> TAKE u \in Storers \ {t}
    <2>1. pc'[u] = pc[u] /\ group'[u] = group[u] /\ split'[u] = split[u]
      BY <1>1, TaskFacts DEF HandsOn, Others
    <2> QED BY <2>1, SameHand
  <1> DEFINE n == [id |-> nextId, checks |-> c]
  <1>6. n.checks = c /\ pending' = pending \cup {n}
    BY <1>2
  <1> HIDE DEF n
  <1>7. \A u \in Storers : \A x \in InHand(u)' : x \notin Range(batch')
    BY <1>1, <1>4, <1>5, CustodianPairs
  <1>8. \A v, u \in Storers : v # u => \A x \in InHand(v)' : x \notin InHand(u)'
    BY <1>4, <1>5, CustodianPairs
  <1>9. ASSUME NEW r \in pending', NEW x \in Range(r.checks)
        PROVE  /\ x \notin Range(batch') /\ \A u \in Storers : x \notin InHand(u)'
               /\ \A q \in pending' : q # r => x \notin Range(q.checks)
    <2>1. CASE r \in pending
      BY <1>1, <1>3, <1>4, <1>5, <1>6, <2>1, CustodianPairs
    <2>2. CASE r = n /\ n \notin pending
      <3>1. x \in InHand(t)
        BY <1>3, <1>6, <2>2
      <3> QED BY <1>1, <1>4, <1>5, <1>6, <2>2, <3>1, CustodianPairs
    <2> QED BY <1>6, <2>1, <2>2
  <1> QED BY <1>7, <1>8, <1>9, CustodianPairsNext

\* A rewrite leaves of the row what was not taken off it.
LEMMA RewriteShrinks ==
    ASSUME QueueInv, ReplayRewrite PROVE RowsOnlyShrink
  <1> USE DEF QueueInv
  <1>1. PICK r \in Row :
             /\ group[Replay] = {r}
             /\ \A q \in pending : q.id = r.id => q = r
             /\ pending' = {IF q.id = r.id THEN [q EXCEPT !.checks = Unsent(Replay)] ELSE q
                               : q \in pending}
    BY RewriteRows
  <1>2. /\ split[Replay] \in Splits /\ split[Replay].work = <<>> /\ split[Replay].part = <<>>
        /\ pc[Replay] = "rewrite"
    BY TaskFacts DEF ReplayRewrite, TypeInv, TypeOK, LedgerInv, SplitShape
  <1>3. SplitHolds(split[Replay]) = Range(Unsent(Replay))
    BY <1>2, SplitHolding, EmptyRange DEF SplitHolds, Unsent
  <1>4. Range(Unsent(Replay)) \subseteq Range(r.checks)
    <2>1. Contents(group[Replay]) = Range(r.checks)
      BY <1>1, ContentsOne
    <2> QED BY <1>2, <1>3, <2>1 DEF LedgerInv, ReplayShape
  <1> DEFINE n == [r EXCEPT !.checks = Unsent(Replay)]
  <1>5. n.checks = Unsent(Replay) /\ n.id = r.id
    BY DEF Row
  <1>6. \A p \in pending' : (p = n /\ r \in pending) \/ p \in pending
    BY <1>1
  <1> HIDE DEF n
  <1> QED BY <1>4, <1>5, <1>6 DEF RowsOnlyShrink

\* A step of one task other than a store keeps every result in one place.
LEMMA CustodianTask ==
    ASSUME QueueInv, QueueInv', OneCustodian, NEW t \in Tasks, HandsOn(t), RowsOnlyShrink
    PROVE  OneCustodian'
  <1>1. \A u \in Storers : InHand(u)' \subseteq InHand(u)
    <2> TAKE u \in Storers
    <2>1. CASE u = t
      BY <2>1 DEF HandsOn
    <2>2. CASE u # t
      <3>1. pc'[u] = pc[u] /\ group'[u] = group[u] /\ split'[u] = split[u]
        BY <2>2, TaskFacts DEF HandsOn, Others
      <3> QED BY <3>1, SameHand
    <2> QED BY <2>1, <2>2
  <1> QED BY <1>1, CustodianShrinks DEF HandsOn, QueueInv, RowInv

\* Every step keeps every result in one place.
LEMMA CustodianNext ==
    ASSUME QueueInv, KnownInv, OneCustodian, [Next]_vars PROVE OneCustodian'
  <1> USE DEF QueueInv
  <1>1. QueueInv'
    BY QueueInvNext
  <1>2. ASSUME NEW t \in Tasks, TaskStep(t) PROVE OneCustodian'
    <2>1. CASE StoreInsert(t)
      BY <2>1, CustodianStore
    <2>2. CASE pending' \subseteq pending
      BY <1>1, <1>2, <2>2, HandsTaskStep, SubsetShrinks, CustodianTask
    <2>3. StorePrune(t) => pending' \subseteq pending
      BY DEF StorePrune
    <2> QED BY <1>2, <2>1, <2>2, <2>3, TaskTables
  <1>3. ASSUME NEW t \in Tasks, DiskFails(t) PROVE OneCustodian'
    <2>1. pending' \subseteq pending
      BY <1>3 DEF DiskFails, tables
    <2> QED BY <1>1, <1>3, <2>1, HandsDiskFails, SubsetShrinks, CustodianTask
  <1>4. CASE ReplayStep \/ ReplayRead
    <2>1. HandsOn(Replay) /\ Replay \in Tasks
      BY <1>4, HandsReplayStep, HandsReplayRead, TaskFacts
    <2>2. RowsOnlyShrink
      <3>1. CASE ReplayGroup
        BY <3>1, SubsetShrinks DEF ReplayGroup, PostReturns, tables
      <3>2. CASE ReplayNext \/ ReplayParts \/ ReplayDelete \/ ReplayMove \/ ReplayRead
        <4>1. pending' \subseteq pending
          BY <3>2 DEF ReplayNext, ReplayParts, ReplayDelete, ReplayMove, ReplayRead, tables
        <4> QED BY <4>1, SubsetShrinks
      <3> QED BY <1>4, <3>1, <3>2, RewriteShrinks DEF ReplayStep
    <2> QED BY <1>1, <2>1, <2>2, CustodianTask
  <1>5. CASE UNCHANGED vars \/ Start
    <2>1. UNCHANGED <<batch, pending, pc, group, split>>
      BY <1>5 DEF vars, Start, memory, tables
    <2> QED BY <2>1 DEF OneCustodian, InHand, Unsent
  <1>6. ASSUME NEW kind \in Kinds, AddResult(kind) PROVE OneCustodian'
    <2>1. Range(batch') \subseteq Range(batch) \cup {Len(made) + 1}
      BY <1>6, QueueAddResult
    <2>2. UNCHANGED <<pending, pc, group, split>>
      BY <1>6 DEF AddResult, tables
    <2>3. \A u \in Storers : InHand(u)' = InHand(u)
      BY <2>2, SameHand
    <2>4. Len(made) + 1 \notin DOMAIN made
      BY DEF TypeInv, TypeOK
    <2>5. Len(made) + 1 \notin Custody
      BY <2>4 DEF KnownInv
    <2>6. /\ \A u \in Storers : Len(made) + 1 \notin InHand(u)
          /\ \A r \in pending : Len(made) + 1 \notin Range(r.checks)
      BY <2>5, CustodyIs, ContentsIs
    <2> QED BY <2>1, <2>2, <2>3, <2>6, CustodianPairs, CustodianPairsNext
  <1>7. ASSUME NEW t \in Storers, Range(batch') = {}, InHand(t)' = Range(batch), pending' = pending,
               \A u \in Storers \ {t} : InHand(u)' \subseteq InHand(u)
        PROVE  OneCustodian'
    BY <1>7, CustodianPairs, CustodianPairsNext
  <1>8. ASSUME NEW t \in Flushers, Flush(t) PROVE OneCustodian'
    <2>1. pending' = pending /\ t \in Storers
      BY <1>8, TaskFacts DEF Flush, tables
    <2> QED BY <1>7, <1>8, <2>1, QueueFlush
  <1>9. CASE Stop
    <2>1. pending' = pending /\ Stopper \in Storers
      BY <1>9, TaskFacts DEF Stop, tables
    <2> QED BY <1>7, <1>9, <2>1, QueueStop
  <1>10. CASE StopEnds \/ Crash
    <2>1. pending' = pending /\ Range(batch') \subseteq Range(batch)
      BY <1>10, EmptyRange DEF StopEnds, Crash, tables
    <2>2. \A t \in Storers : InHand(t)' = {}
      BY <1>10, QueueStopEnds, QueueCrash
    <2> QED BY <2>1, <2>2, CustodianPairs, CustodianPairsNext
  <1> QED BY <1>2, <1>3, <1>4, <1>5, <1>6, <1>8, <1>9, <1>10 DEF Next

\* One custodian, for every value of the constants: whatever retries, splits,
\* rewrites and restarts a result has been through, the agent keeps it in one
\* place, so what is sent or stored is never multiplied.
THEOREM ResultsHaveOneCustodian == Spec => []OneCustodian
  <1> DEFINE Inv == QueueInv /\ KnownInv /\ RefusedInv /\ OneCustodian
  <1>1. Init => Inv
    <2> SUFFICES ASSUME Init PROVE KnownInv /\ RefusedInv /\ OneCustodian
      BY QueueInit
    <2>1. Custody = {} /\ Copies = {} /\ Range(dead) = {} /\ pending = {}
      BY QueueInit, EmptyRange, TaskFacts DEF Init, Copies
    <2>2. Contents(Copies) = {}
      BY <2>1, ContentsEmpty
    <2>3. \A t \in Tasks : RefusedAt(t)
      BY DEF Init, RefusedAt
    <2>4. \A t \in Storers : InHand(t) = {}
      BY <2>1, CustodyIs
    <2>5. OneCustodian
      BY <2>1, <2>4, CustodianPairs
    <2> QED BY <2>1, <2>2, <2>3, <2>5 DEF KnownInv, RefusedInv
  <1>2. Inv /\ [Next]_vars => Inv'
    BY QueueInvNext, KnownNext, RefusedNext, CustodianNext
  <1>3. Inv => OneCustodian
    OBVIOUS
  <1> QED BY <1>1, <1>2, <1>3, PTL DEF Spec

-----------------------------------------------------------------------------
(* The batch is the newest results. *)

\* The batch is empty unless the reporter runs: stop() takes it, a crash loses it.
DownEmpty == phase # "up" => batch = <<>>

\* The positions of a trimmed batch: the last n of it, in order.
LEMMA NewestPositions ==
    ASSUME NEW S, NEW s \in Seq(S), NEW n \in Nat, Len(s) > n
    PROVE  /\ Len(Newest(s, n)) = n
           /\ \A i \in 1..n : Newest(s, n)[i] = s[Len(s) - n + i]
  <1>1. Newest(s, n) = SubSeq(s, Len(s) - n + 1, Len(s))
    BY DEF Newest
  <1>2. Len(s) - n + 1 \in 1..(Len(s) + 1) /\ Len(s) \in Nat
    OBVIOUS
  <1> QED BY <1>1, <1>2

\* What stays in the batch, and the result appended to it, are the newest ones.
LEMMA NewestAddResult ==
    ASSUME TypeInv, BatchIsNewest, NEW kind \in Kinds, AddResult(kind) PROVE BatchIsNewest'
  <1> DEFINE kept == IF Len(batch) >= MaxQueue THEN Newest(batch, MaxQueue - 1) ELSE batch
  <1>1. batch \in Seq(Results) /\ made \in Seq(Kinds)
    BY DEF TypeInv, TypeOK
  <1>2. phase = "up" /\ batch' = Append(kept, Len(made) + 1) /\ made' = Append(made, kind)
    BY DEF AddResult
  <1>3. \A i \in 1..Len(batch) : batch[i] = Len(made) - Len(batch) + i
    BY <1>1, <1>2 DEF BatchIsNewest
  <1>4. kept \in Seq(Results) /\ \A i \in 1..Len(kept) : kept[i] = Len(made) - Len(kept) + i
    <2>1. CASE Len(batch) >= MaxQueue
      <3> DEFINE n == MaxQueue - 1
      <3>1. n \in Nat /\ Len(batch) > n /\ kept = Newest(batch, n)
        BY <1>1, <2>1, ReporterConstants
      <3> HIDE DEF n, kept
      <3>2. kept \in Seq(Results)
        BY <1>1, <3>1, NewestProperties
      <3>3. Len(kept) = n /\ \A i \in 1..n : kept[i] = batch[Len(batch) - n + i]
        BY <1>1, <3>1, NewestPositions
      <3>4. ASSUME NEW i \in 1..n PROVE kept[i] = Len(made) - n + i
        <4>1. Len(batch) - n + i \in 1..Len(batch)
          BY <1>1, <3>1
        <4>2. batch[Len(batch) - n + i] = Len(made) - Len(batch) + (Len(batch) - n + i)
          BY <1>3, <4>1
        <4> QED BY <1>1, <3>1, <3>3, <4>2
      <3> QED BY <3>2, <3>3, <3>4
    <2>2. CASE ~(Len(batch) >= MaxQueue)
      BY <1>1, <1>3, <2>2
    <2> QED BY <2>1, <2>2
  <1> HIDE DEF kept
  <1>5. Len(batch') = Len(kept) + 1 /\ Len(made') = Len(made) + 1 /\ DOMAIN batch' = 1..Len(batch')
        /\ Len(kept) \in Nat /\ Len(made) \in Nat
    BY <1>1, <1>2, <1>4
  <1>6. ASSUME NEW i \in 1..Len(batch') PROVE batch'[i] = Len(made') - Len(batch') + i
    <2>1. CASE i \in 1..Len(kept)
      <3>1. batch'[i] = kept[i]
        BY <1>2, <1>4, <2>1
      <3> QED BY <1>4, <1>5, <2>1, <3>1
    <2>2. CASE i = Len(kept) + 1
      <3>1. batch'[i] = Len(made) + 1
        BY <1>2, <1>4, <2>2
      <3> QED BY <1>5, <2>2, <3>1
    <2> QED BY <1>5, <2>1, <2>2
  <1> QED BY <1>5, <1>6 DEF BatchIsNewest

\* A step of a task that has its batch in hand adds nothing and takes nothing.
LEMMA BatchKept ==
    ASSUME TypeInv,
           (\E t \in Tasks : TaskStep(t) \/ DiskFails(t)) \/ ReplayStep \/ ReplayRead
    PROVE  batch' = batch /\ made' = made /\ phase' = phase
  <1>1. ASSUME NEW t \in Tasks, TaskStep(t) PROVE batch' = batch /\ made' = made /\ phase' = phase
    <2>1. CASE PostFails(t) \/ PostAgain(t) \/ NextPart(t) \/ StoreCount(t) \/ StorePrune(t)
      BY <2>1 DEF PostFails, PostAgain, NextPart, StoreCount, StorePrune
    <2>2. CASE Deliver(t) \/ PartAnswered(t)
      BY <2>2 DEF Deliver, PartAnswered, PostReturns
    <2>3. CASE DeliverParts(t) \/ DeadLetterBatch(t) \/ StoreInsert(t)
      BY <2>3 DEF DeliverParts, DeadLetterBatch, StoreInsert
    <2> QED BY <1>1, <2>1, <2>2, <2>3 DEF TaskStep
  <1>2. ASSUME NEW t \in Tasks, DiskFails(t) PROVE batch' = batch /\ made' = made /\ phase' = phase
    BY <1>2 DEF DiskFails
  <1>3. CASE ReplayStep \/ ReplayRead
    <2>1. CASE ReplayGroup
      BY <2>1 DEF ReplayGroup, PostReturns
    <2>2. CASE ReplayRead \/ ReplayNext \/ ReplayParts \/ ReplayRewrite \/ ReplayDelete \/ ReplayMove
      BY <2>2 DEF ReplayRead, ReplayNext, ReplayParts, ReplayRewrite, ReplayDelete, ReplayMove
    <2> QED BY <1>3, <2>1, <2>2 DEF ReplayStep
  <1> QED BY <1>1, <1>2, <1>3

\* The batch is the newest results in order, for every value of the constants:
\* what a flush takes, and what add_result drops at capacity, is older than
\* everything that stays, across stops, crashes and restarts.
THEOREM BatchHoldsTheNewest == Spec => []BatchIsNewest
  <1> DEFINE Inv == TypeInv /\ StopperShape /\ DownEmpty /\ BatchIsNewest
  <1>1. Init => Inv
    BY TypeInit, TaskFacts DEF Init, StopperShape, DownEmpty, BatchIsNewest
  <1>2. Inv /\ [Next]_vars => Inv'
    <2> SUFFICES ASSUME Inv, [Next]_vars PROVE DownEmpty' /\ BatchIsNewest'
      BY TypeNext, StopperNext
    <2>1. CASE \E kind \in Kinds : AddResult(kind)
      BY <2>1, NewestAddResult DEF AddResult, DownEmpty
    <2>2. ASSUME batch' = <<>> PROVE DownEmpty' /\ BatchIsNewest'
      BY <2>2 DEF DownEmpty, BatchIsNewest
    <2>3. CASE (\E t \in Flushers : Flush(t)) \/ Stop \/ Crash
      BY <2>2, <2>3 DEF Flush, Stop, Crash
    <2>4. CASE Start \/ StopEnds
      BY <2>2, <2>4 DEF Start, StopEnds, DownEmpty, memory
    <2>5. ASSUME batch' = batch /\ made' = made /\ phase' = phase
          PROVE  DownEmpty' /\ BatchIsNewest'
      BY <2>5 DEF DownEmpty, BatchIsNewest
    <2>6. CASE (\E t \in Tasks : TaskStep(t) \/ DiskFails(t)) \/ ReplayStep \/ ReplayRead
      BY <2>5, <2>6, BatchKept
    <2>7. CASE UNCHANGED vars
      BY <2>5, <2>7 DEF vars, memory
    <2> QED BY <2>1, <2>3, <2>4, <2>6, <2>7 DEF Next
  <1> QED BY <1>1, <1>2, PTL DEF Spec

-----------------------------------------------------------------------------
(* The disk cap. *)

\* The flushes that have inserted their row and not pruned yet.
Growing == {t \in Storers : pc[t] \in {"count", "prune"}}

\* A surplus that was counted still covers the table, less what other flushes
\* have inserted since; it is never zero.
PruneCovers ==
    \A t \in Storers : pc[t] = "prune" =>
        /\ excess[t] >= 1
        /\ Cardinality(pending) + 1 <= MaxStored + excess[t] + Cardinality(Growing)

CapInv == crashes = 0 /\ diskFaults = 0 =>
    /\ Cardinality(pending) <= MaxStored + Cardinality(Growing)
    /\ PruneCovers

\* Deleting the oldest k rows leaves at most the number of rows less k: the
\* number of older rows numbers the survivors from k on.
LEMMA OldestLeaves ==
    ASSUME NEW rows \in SUBSET Row, IsFiniteSet(rows), NEW k \in Nat,
           \A q, r \in rows : q.id = r.id => q = r
    PROVE  /\ IsFiniteSet(rows \ Oldest(rows, k))
           /\ Cardinality(rows \ Oldest(rows, k)) <=
                 (IF Cardinality(rows) > k THEN Cardinality(rows) - k ELSE 0)
  <1> DEFINE older(r) == {q \in rows : q.id < r.id}
             rank(r) == Cardinality(older(r))
             rest == rows \ Oldest(rows, k)
             n == Cardinality(rows)
             f == [r \in rest |-> rank(r)]
  <1>1. n \in Nat /\ \A r \in rows : r.id \in Nat
    BY FS_CardinalityType DEF Row
  <1>2. ASSUME NEW r \in rows
        PROVE  /\ IsFiniteSet(older(r)) /\ rank(r) \in Nat /\ rank(r) < n
    <2>1. older(r) \in SUBSET rows /\ r \notin older(r)
      BY <1>1
    <2>2. IsFiniteSet(older(r)) /\ rank(r) <= n /\ (n = rank(r) => rows = older(r))
      BY <2>1, FS_Subset
    <2>3. rank(r) \in Nat
      BY <2>2, FS_CardinalityType
    <2> QED BY <1>1, <2>1, <2>2, <2>3
  <1>3. ASSUME NEW r \in rows, NEW s \in rows, r.id < s.id PROVE rank(r) # rank(s)
    <2>1. older(r) \in SUBSET older(s)
      BY <1>1, <1>3
    <2>2. r \in older(s) /\ r \notin older(r)
      BY <1>1, <1>3
    <2>3. rank(s) = rank(r) => older(s) = older(r)
      BY <1>2, <2>1, FS_Subset
    <2> QED BY <2>2, <2>3
  <1>4. \A r \in rest : r \in rows /\ rank(r) >= k
    <2>1. \A r \in rest : r \in rows /\ ~(rank(r) < k)
      BY DEF Oldest
    <2> HIDE DEF rest, rank
    <2>2. \A r \in rest : rank(r) \in Nat
      BY <1>2, <2>1
    <2> QED BY <2>1, <2>2
  <1> HIDE DEF rank
  <1>5. \A r \in rest : rank(r) \in k..(n - 1)
    <2> HIDE DEF rest, n, older
    <2> TAKE r \in rest
    <2>1. r \in rows /\ rank(r) >= k
      BY <1>4
    <2>2. rank(r) \in Nat /\ rank(r) < n
      BY <1>2, <2>1
    <2> QED BY <1>1, <2>1, <2>2
  <1>6. \A r, s \in rest : rank(r) = rank(s) => r = s
    <2> SUFFICES ASSUME NEW r \in rest, NEW s \in rest, r # s PROVE rank(r) # rank(s)
      OBVIOUS
    <2>1. r \in rows /\ s \in rows /\ r.id # s.id /\ r.id \in Nat /\ s.id \in Nat
      BY <1>1, <1>4
    <2>2. r.id < s.id \/ s.id < r.id
      BY <2>1
    <2>3. CASE r.id < s.id
      BY <1>3, <2>1, <2>3
    <2>4. CASE s.id < r.id
      BY <1>3, <2>1, <2>4
    <2> QED BY <2>2, <2>3, <2>4
  <1> HIDE DEF rest, n
  <1>7. f \in Injection(rest, k..(n - 1))
    BY <1>5, <1>6 DEF Injection, IsInjective
  <1>8. IsFiniteSet(k..(n - 1)) /\ Cardinality(k..(n - 1)) = (IF k > n - 1 THEN 0 ELSE n - 1 - k + 1)
    BY <1>1, FS_Interval
  <1>9. IsFiniteSet(rest) /\ Cardinality(rest) <= Cardinality(k..(n - 1))
    BY <1>7, <1>8, FS_Injection
  <1> QED BY <1>1, <1>8, <1>9 DEF rest, n

\* The flushes are few, and so are those that have yet to prune.
LEMMA GrowingFinite == IsFiniteSet(Storers) /\ \A S \in SUBSET Storers : IsFiniteSet(S) /\ Cardinality(S) \in Nat
  <1>1. Storers \in SUBSET {"batch_processor", "result_processor", Stopper}
    BY ReporterConstants DEF Storers
  <1>2. IsFiniteSet({"batch_processor", "result_processor", Stopper})
    <2>1. IsFiniteSet({"batch_processor"} \cup {"result_processor"})
      BY FS_Singleton, FS_Union
    <2>2. IsFiniteSet({"batch_processor"} \cup {"result_processor"} \cup {Stopper})
      BY <2>1, FS_Singleton, FS_Union
    <2>3. {"batch_processor"} \cup {"result_processor"} \cup {Stopper}
             = {"batch_processor", "result_processor", Stopper}
      OBVIOUS
    <2> QED BY <2>2, <2>3
  <1>3. IsFiniteSet(Storers)
    BY <1>1, <1>2, FS_Subset
  <1>4. ASSUME NEW S \in SUBSET Storers PROVE IsFiniteSet(S) /\ Cardinality(S) \in Nat
    BY <1>3, FS_Subset, FS_CardinalityType
  <1> QED BY <1>3, <1>4

\* A step that stores nothing and counts nothing keeps the cap.
LEMMA CapKept ==
    ASSUME CapInv, TypeInv, TypeInv',
           crashes' = 0 /\ diskFaults' = 0 => crashes = 0 /\ diskFaults = 0,
           Cardinality(pending)' <= Cardinality(pending),
           \A t \in Storers : pc'[t] \in {"count", "prune"} <=> pc[t] \in {"count", "prune"},
           \A t \in Storers : pc'[t] = "prune" => pc[t] = "prune" /\ excess'[t] = excess[t]
    PROVE  CapInv'
  <1>1. Growing' = Growing
    BY DEF Growing
  <1>2. Cardinality(Growing) \in Nat
    BY GrowingFinite DEF Growing
  <1>3. Cardinality(pending) \in Nat /\ Cardinality(pending)' \in Nat
    BY FS_CardinalityType DEF TypeInv, TypeOK
  <1>4. excess \in [Tasks -> Nat]
    BY DEF TypeInv, TypeOK
  <1>5. crashes' = 0 /\ diskFaults' = 0 => PruneCovers'
    <2> SUFFICES ASSUME crashes' = 0 /\ diskFaults' = 0, NEW t \in Storers, pc'[t] = "prune"
                 PROVE  /\ excess'[t] >= 1
                        /\ Cardinality(pending)' + 1 <= MaxStored + excess'[t] + Cardinality(Growing)'
      BY DEF PruneCovers
    <2>1. excess[t] >= 1 /\ Cardinality(pending) + 1 <= MaxStored + excess[t] + Cardinality(Growing)
          /\ excess'[t] = excess[t]
      BY DEF CapInv, PruneCovers
    <2> QED BY <1>1, <1>2, <1>3, <1>4, <2>1, TaskFacts, ReporterConstants
  <1>6. crashes' = 0 /\ diskFaults' = 0
            => Cardinality(pending)' <= MaxStored + Cardinality(Growing)'
    BY <1>1, <1>2, <1>3, ReporterConstants DEF CapInv
  <1> QED BY <1>5, <1>6 DEF CapInv

\* The insert: one row more, one flush more that has yet to prune.
LEMMA CapInsert ==
    ASSUME CapInv, TypeInv, RowInv, NEW t \in Tasks, StoreInsert(t) PROVE CapInv'
  <1> SUFFICES ASSUME crashes = 0 /\ diskFaults = 0
               PROVE  Cardinality(pending)' <= MaxStored + Cardinality(Growing)' /\ PruneCovers'
    BY DEF CapInv, StoreInsert, bounds
  <1>1. PICK c \in Seq(Results) : pending' = pending \cup {[id |-> nextId, checks |-> c]}
    BY InsertRow
  <1> DEFINE row == [id |-> nextId, checks |-> c]
  <1>2. IsFiniteSet(pending) /\ Cardinality(pending) \in Nat
    BY FS_CardinalityType DEF TypeInv, TypeOK
  <1>3. Cardinality(pending)' \in Nat /\ Cardinality(pending)' <= Cardinality(pending) + 1
    <2>1. pending' = pending \cup {row}
      BY <1>1
    <2> HIDE DEF row
    <2>2. IsFiniteSet(pending \cup {row}) /\ Cardinality(pending \cup {row}) =
             (IF row \in pending THEN Cardinality(pending) ELSE Cardinality(pending) + 1)
      BY <1>2, FS_AddElement
    <2> QED BY <1>2, <2>1, <2>2
  <1>4. t \in Storers /\ pc[t] = "store" /\ pc' = [pc EXCEPT ![t] = "count"] /\ excess' = excess
        /\ pc \in [Tasks -> StorerPCs \cup ReplayPCs] /\ excess \in [Tasks -> Nat]
    BY InsertRow DEF StoreInsert, TypeInv, TypeOK
  <1>5. Growing' = Growing \cup {t} /\ t \notin Growing
    BY <1>4, TaskFacts DEF Growing
  <1>6. Cardinality(Growing)' = Cardinality(Growing) + 1 /\ Cardinality(Growing) \in Nat
    <2>1. IsFiniteSet(Growing) /\ Cardinality(Growing) \in Nat
      BY GrowingFinite DEF Growing
    <2> QED BY <1>5, <2>1, FS_AddElement
  <1>7. Cardinality(pending)' <= MaxStored + Cardinality(Growing)'
    BY <1>2, <1>3, <1>6, ReporterConstants DEF CapInv
  <1>8. ASSUME NEW u \in Storers, pc'[u] = "prune"
        PROVE  excess'[u] >= 1
               /\ Cardinality(pending)' + 1 <= MaxStored + excess'[u] + Cardinality(Growing)'
    <2>1. pc[u] = "prune" /\ excess[u] \in Nat
      BY <1>4, <1>8, TaskFacts
    <2>2. excess[u] >= 1 /\ Cardinality(pending) + 1 <= MaxStored + excess[u] + Cardinality(Growing)
      BY <2>1 DEF CapInv, PruneCovers
    <2> QED BY <1>2, <1>3, <1>4, <1>6, <2>1, <2>2, ReporterConstants
  <1> QED BY <1>7, <1>8 DEF PruneCovers

\* The count: a surplus is counted while the flush still has to prune; with no
\* surplus the table is within the cap and the flush is done.
LEMMA CapCount ==
    ASSUME CapInv, TypeInv, NEW t \in Storers, StoreCount(t) PROVE CapInv'
  <1> SUFFICES ASSUME crashes = 0 /\ diskFaults = 0
               PROVE  Cardinality(pending)' <= MaxStored + Cardinality(Growing)' /\ PruneCovers'
    BY DEF CapInv, StoreCount, bounds
  <1> DEFINE n == Cardinality(pending)
  <1>1. n \in Nat /\ Cardinality(pending)' = n /\ MaxStored \in Nat
    BY FS_CardinalityType, ReporterConstants DEF TypeInv, TypeOK, StoreCount, tables
  <1>2. pc[t] = "count" /\ pc \in [Tasks -> StorerPCs \cup ReplayPCs] /\ excess \in [Tasks -> Nat]
    BY DEF StoreCount, TypeInv, TypeOK
  <1>3. t \in Growing /\ IsFiniteSet(Growing) /\ Cardinality(Growing) \in Nat
    BY <1>2, GrowingFinite DEF Growing
  <1>4. Cardinality(Growing) >= 1
    BY <1>3, FS_EmptySet
  <1>5. n <= MaxStored + Cardinality(Growing) /\ PruneCovers
    BY DEF CapInv
  <1> HIDE DEF n
  <1>6. CASE Surplus # 0
    <2>1. Surplus = n - MaxStored /\ n > MaxStored
      BY <1>6 DEF Surplus, n
    <2>2. pc' = [pc EXCEPT ![t] = "prune"] /\ excess' = [excess EXCEPT ![t] = n - MaxStored]
      BY <1>6, <2>1 DEF StoreCount
    <2>3. Growing' = Growing
      BY <1>2, <2>2, TaskFacts DEF Growing
    <2>4. ASSUME NEW u \in Storers, pc'[u] = "prune"
          PROVE  excess'[u] >= 1
                 /\ Cardinality(pending)' + 1 <= MaxStored + excess'[u] + Cardinality(Growing)'
      <3>1. CASE u = t
        <4>1. excess'[u] = n - MaxStored
          BY <1>2, <2>2, <3>1, TaskFacts
        <4> QED BY <1>1, <1>3, <1>4, <2>1, <2>3, <4>1
      <3>2. CASE u # t
        <4>1. pc[u] = "prune" /\ excess'[u] = excess[u]
          BY <1>2, <2>2, <2>4, <3>2, TaskFacts
        <4>2. excess[u] >= 1 /\ n + 1 <= MaxStored + excess[u] + Cardinality(Growing)
          BY <1>5, <4>1 DEF PruneCovers, n
        <4> QED BY <1>1, <2>3, <4>1, <4>2
      <3> QED BY <3>1, <3>2
    <2> QED BY <1>1, <1>5, <2>3, <2>4 DEF PruneCovers
  <1>7. CASE Surplus = 0
    <2>1. n <= MaxStored
      BY <1>1, <1>7 DEF Surplus, n
    <2>2. pc' = [pc EXCEPT ![t] = "idle"] /\ excess' = excess
      BY <1>7 DEF StoreCount
    <2>3. Growing' = Growing \ {t}
      BY <1>2, <2>2, TaskFacts DEF Growing
    <2>4. IsFiniteSet(Growing') /\ Cardinality(Growing)' \in Nat
      BY <2>3, GrowingFinite DEF Growing
    <2>5. ASSUME NEW u \in Storers, pc'[u] = "prune"
          PROVE  excess'[u] >= 1
                 /\ Cardinality(pending)' + 1 <= MaxStored + excess'[u] + Cardinality(Growing)'
      <3>1. pc[u] = "prune" /\ u # t /\ excess'[u] = excess[u] /\ excess[u] \in Nat
        BY <1>2, <2>2, <2>5, TaskFacts
      <3>2. excess[u] >= 1
        BY <1>5, <3>1 DEF PruneCovers
      <3> QED BY <1>1, <2>1, <2>4, <3>1, <3>2
    <2> QED BY <1>1, <2>1, <2>4, <2>5 DEF PruneCovers
  <1> QED BY <1>6, <1>7

\* The prune takes off what the count found, so the flush leaves the table no
\* fuller than the flushes still to prune allow, whatever was inserted between.
LEMMA CapPrune ==
    ASSUME CapInv, TypeInv, RowInv, NEW t \in Storers, StorePrune(t) PROVE CapInv'
  <1> SUFFICES ASSUME crashes = 0 /\ diskFaults = 0
               PROVE  Cardinality(pending)' <= MaxStored + Cardinality(Growing)' /\ PruneCovers'
    BY DEF CapInv, StorePrune, bounds
  <1> DEFINE n == Cardinality(pending)
             m == Cardinality(pending)'
             w == Cardinality(Growing)
             k == excess[t]
  <1>1. pc[t] = "prune" /\ pc \in [Tasks -> StorerPCs \cup ReplayPCs] /\ excess \in [Tasks -> Nat]
    BY DEF StorePrune, TypeInv, TypeOK
  <1>2. k \in Nat /\ MaxStored \in Nat
    BY <1>1, TaskFacts, ReporterConstants
  <1>3. n \in Nat /\ m \in Nat /\ m <= (IF n > k THEN n - k ELSE 0)
    <2>1. pending \in SUBSET Row /\ IsFiniteSet(pending) /\ \A q, r \in pending : q.id = r.id => q = r
      BY DEF TypeInv, TypeOK, RowInv, RowIds
    <2>2. pending' = pending \ Oldest(pending, excess[t])
      BY DEF StorePrune
    <2>3. IsFiniteSet(pending \ Oldest(pending, excess[t]))
          /\ Cardinality(pending \ Oldest(pending, excess[t])) <= (IF n > k THEN n - k ELSE 0)
      BY <1>2, <2>1, OldestLeaves
    <2> QED BY <2>1, <2>2, <2>3, FS_CardinalityType
  <1>4. t \in Growing /\ IsFiniteSet(Growing) /\ w \in Nat
    BY <1>1, GrowingFinite DEF Growing
  <1>5. pc' = [pc EXCEPT ![t] = "idle"] /\ excess' = [excess EXCEPT ![t] = 0]
    BY DEF StorePrune
  <1>6. Growing' = Growing \ {t}
    BY <1>1, <1>5, TaskFacts DEF Growing
  <1>7. Cardinality(Growing)' = w - 1 /\ w - 1 \in Nat
    <2>1. Cardinality(Growing \ {t}) = w - 1
      BY <1>4, FS_RemoveElement
    <2>2. Cardinality(Growing)' \in Nat
      BY <1>6, GrowingFinite DEF Growing
    <2> QED BY <1>6, <2>1, <2>2
  <1>8. k >= 1 /\ n + 1 <= MaxStored + k + w
    BY <1>1 DEF CapInv, PruneCovers
  <1>9. ASSUME NEW u \in Storers, pc'[u] = "prune"
        PROVE  excess'[u] >= 1 /\ m + 1 <= MaxStored + excess'[u] + Cardinality(Growing)'
    <2>1. u # t /\ pc[u] = "prune" /\ excess'[u] = excess[u] /\ excess[u] \in Nat
      BY <1>1, <1>5, <1>9, TaskFacts
    <2>2. excess[u] >= 1 /\ n + 1 <= MaxStored + excess[u] + w
      BY <2>1 DEF CapInv, PruneCovers
    <2> HIDE DEF n, m, k, w
    <2> QED BY <1>2, <1>3, <1>4, <1>7, <1>8, <2>1, <2>2
  <1>10. m <= MaxStored + Cardinality(Growing)'
    <2> HIDE DEF n, m, k, w
    <2> QED BY <1>2, <1>3, <1>4, <1>7, <1>8
  <1> QED BY <1>9, <1>10 DEF PruneCovers

\* The other steps of a flush neither fill the table nor leave a count open.
LEMMA CapTaskStep ==
    ASSUME CapInv, TypeInv, TypeInv', RowInv, NEW t \in Tasks, TaskStep(t) PROVE CapInv'
  <1>1. CASE StoreInsert(t)
    BY <1>1, CapInsert
  <1>2. CASE StoreCount(t) \/ StorePrune(t)
    <2>1. t \in Storers
      BY <1>2, TaskFacts DEF StoreCount, StorePrune, TypeInv, TypeOK, ReplayPCs
    <2> QED BY <1>2, <2>1, CapCount, CapPrune
  <1>3. CASE PostFails(t) \/ PostAgain(t) \/ Deliver(t) \/ NextPart(t) \/ PartAnswered(t)
             \/ DeliverParts(t) \/ DeadLetterBatch(t)
    <2>1. pc \in [Tasks -> StorerPCs \cup ReplayPCs] /\ Cardinality(pending) \in Nat
      BY FS_CardinalityType DEF TypeInv, TypeOK
    <2>2. /\ UNCHANGED <<pending, excess, diskFaults, crashes>>
          /\ pc[t] \notin {"count", "prune"}
          /\ pc' = pc \/ \E v \in {"idle", "dead", "store", "parts", "sleep", "sleep_part", "post",
                                   "post_part", "dead_part"} : pc' = [pc EXCEPT ![t] = v]
      <3>1. CASE PostFails(t)
        BY <3>1 DEF PostFails, Answer, tables
      <3>2. CASE PostAgain(t)
        BY <3>2 DEF PostAgain, tables, bounds
      <3>3. CASE Deliver(t)
        BY <3>3 DEF Deliver, PostReturns, Answer, StartParts, tables
      <3>4. CASE NextPart(t)
        BY <3>4 DEF NextPart, tables, bounds
      <3>5. CASE PartAnswered(t)
        BY <3>5 DEF PartAnswered, PostReturns, Answer, PartDone, tables
      <3>6. CASE DeliverParts(t)
        BY <3>6 DEF DeliverParts, tables, bounds
      <3>7. CASE DeadLetterBatch(t)
        BY <3>7 DEF DeadLetterBatch, PartDone, bounds
      <3> QED BY <1>3, <3>1, <3>2, <3>3, <3>4, <3>5, <3>6, <3>7
    <2>3. /\ \A u \in Storers : pc'[u] \in {"count", "prune"} <=> pc[u] \in {"count", "prune"}
          /\ \A u \in Storers : pc'[u] = "prune" => pc[u] = "prune"
      BY <2>1, <2>2, TaskFacts
    <2> QED BY <2>1, <2>2, <2>3, CapKept
  <1> QED BY <1>1, <1>2, <1>3 DEF TaskStep

\* The replay only takes rows away, or rewrites one.
LEMMA CapReplay ==
    ASSUME CapInv, TypeInv, TypeInv', RowInv, ReplayStep \/ ReplayRead PROVE CapInv'
  <1>1. IsFiniteSet(pending) /\ Cardinality(pending) \in Nat
    BY FS_CardinalityType DEF TypeInv, TypeOK
  <1>2. excess' = excess /\ crashes' = crashes
    <2>1. CASE ReplayGroup
      BY <2>1 DEF ReplayGroup, PostReturns, bounds
    <2>2. CASE ReplayRead \/ ReplayNext \/ ReplayParts \/ ReplayRewrite \/ ReplayDelete \/ ReplayMove
      BY <2>2 DEF ReplayRead, ReplayNext, ReplayParts, ReplayRewrite, ReplayDelete, ReplayMove, bounds
    <2> QED BY <2>1, <2>2 DEF ReplayStep
  <1>3. diskFaults' = 0 => diskFaults = 0
    <2>1. CASE ReplayRead
      <3>1. PICK S : IsFiniteSet(S) /\ diskFaults' = diskFaults + Cardinality(S)
        <4> DEFINE rows == IF FreeRows = {} THEN Oldest(pending, MaxFiles) ELSE FreeRows
        <4>1. PICK c \in SUBSET rows : diskFaults' = diskFaults + Cardinality(c)
          BY <2>1 DEF ReplayRead
        <4>2. rows \subseteq pending
          BY DEF FreeRows, Oldest
        <4>3. IsFiniteSet(c)
          BY <1>1, <4>1, <4>2, FS_Subset
        <4> QED BY <4>1, <4>3
      <3>2. Cardinality(S) \in Nat
        BY <3>1, FS_CardinalityType
      <3>3. diskFaults \in Nat
        BY ReporterConstants DEF TypeInv, TypeOK
      <3> QED BY <3>1, <3>2, <3>3
    <2>2. CASE ReplayGroup
      BY <2>2 DEF ReplayGroup, PostReturns, bounds
    <2>3. CASE ReplayNext \/ ReplayParts \/ ReplayRewrite \/ ReplayDelete \/ ReplayMove
      BY <2>3 DEF ReplayNext, ReplayParts, ReplayRewrite, ReplayDelete, ReplayMove, bounds
    <2> QED BY <2>1, <2>2, <2>3 DEF ReplayStep
  <1>4. Cardinality(pending)' <= Cardinality(pending)
    <2>1. CASE pending' \subseteq pending
      BY <1>1, <2>1, FS_Subset
    <2>2. CASE ReplayRewrite
      <3>1. PICK r \in Row : pending' = {IF q.id = r.id THEN [q EXCEPT !.checks = Unsent(Replay)] ELSE q
                                           : q \in pending}
        BY <2>2, RewriteRows
      <3> DEFINE f == [q \in pending |-> IF q.id = r.id THEN [q EXCEPT !.checks = Unsent(Replay)] ELSE q]
      <3>2. f \in Surjection(pending, pending')
        BY <3>1 DEF Surjection
      <3> QED BY <1>1, <3>2, FS_Surjection
    <2>3. ReplayGroup => pending' \subseteq pending
      BY DEF ReplayGroup, PostReturns, tables
    <2>4. ReplayNext \/ ReplayParts \/ ReplayDelete \/ ReplayMove \/ ReplayRead => pending' \subseteq pending
      BY DEF ReplayNext, ReplayParts, ReplayDelete, ReplayMove, ReplayRead, tables
    <2> QED BY <2>1, <2>2, <2>3, <2>4 DEF ReplayStep
  <1>5. \A u \in Storers : pc'[u] = pc[u]
    BY ReplayStepMoves, TaskFacts DEF TypeInv, TypeOK
  <1> QED BY <1>2, <1>3, <1>4, <1>5, CapKept

\* Stopping takes a flush that waits on the network, and none that prunes.
LEMMA CapStops ==
    ASSUME CapInv, TypeInv, TypeInv', StopperShape, Stop \/ StopEnds PROVE CapInv'
  <1>1. pc \in [Tasks -> StorerPCs \cup ReplayPCs] /\ Cardinality(pending) \in Nat
    BY FS_CardinalityType DEF TypeInv, TypeOK
  <1>2. UNCHANGED <<pending, excess, diskFaults, crashes>>
    BY DEF Stop, StopEnds, tables, bounds
  <1>3. \A u \in Storers : /\ pc'[u] \in {"count", "prune"} <=> pc[u] \in {"count", "prune"}
                           /\ pc'[u] = "prune" => pc[u] = "prune"
    <2>1. CASE Stop
      <3> SUFFICES ASSUME NEW u \in Storers, pc'[u] # pc[u]
                   PROVE  pc'[u] \notin {"count", "prune"} /\ pc[u] \notin {"count", "prune"}
        OBVIOUS
      <3>1. CASE u = Stopper
        BY <1>1, <2>1, <3>1, TaskFacts DEF Stop, StopperShape
      <3>2. CASE u # Stopper
        BY <1>1, <2>1, <3>2, TaskFacts DEF Stop
      <3> QED BY <3>1, <3>2
    <2>2. CASE StopEnds
      BY <1>1, <2>2, TaskFacts DEF StopEnds, Cancel
    <2> QED BY <2>1, <2>2
  <1> QED BY <1>1, <1>2, <1>3, CapKept

\* Every step keeps the cap.
LEMMA CapNext == TypeInv /\ StopperShape /\ RowInv /\ CapInv /\ [Next]_vars => CapInv'
  <1> SUFFICES ASSUME TypeInv, StopperShape, RowInv, CapInv, [Next]_vars PROVE CapInv'
    OBVIOUS
  <1>1. TypeInv' /\ Cardinality(pending) \in Nat /\ diskFaults \in Nat /\ crashes \in Nat
    <2>1. TypeInv'
      BY TypeNext
    <2>2. IsFiniteSet(pending) /\ diskFaults \in Nat /\ crashes \in Nat
      BY ReporterConstants DEF TypeInv, TypeOK
    <2> QED BY <2>1, <2>2, FS_CardinalityType
  <1>2. CASE (\E t \in Tasks : DiskFails(t)) \/ Crash
    BY <1>1, <1>2 DEF CapInv, DiskFails, Crash
  <1>3. CASE Start \/ (\E kind \in Kinds : AddResult(kind)) \/ UNCHANGED vars
    <2>1. UNCHANGED <<pending, pc, excess, diskFaults, crashes>>
      BY <1>3 DEF Start, AddResult, vars, memory, tables, bounds
    <2> QED BY <1>1, <2>1, CapKept
  <1>4. ASSUME NEW t \in Flushers, Flush(t) PROVE CapInv'
    <2>1. pc \in [Tasks -> StorerPCs \cup ReplayPCs]
      BY DEF TypeInv, TypeOK
    <2>2. UNCHANGED <<pending, excess, diskFaults, crashes>> /\ pc[t] = "idle"
          /\ pc' = [pc EXCEPT ![t] = "post"]
      BY <1>4 DEF Flush, tables, bounds
    <2>3. \A u \in Storers : /\ pc'[u] \in {"count", "prune"} <=> pc[u] \in {"count", "prune"}
                             /\ pc'[u] = "prune" => pc[u] = "prune"
      BY <2>1, <2>2, TaskFacts
    <2> QED BY <1>1, <2>2, <2>3, CapKept
  <1>5. CASE \E t \in Tasks : TaskStep(t)
    BY <1>1, <1>5, CapTaskStep
  <1>6. CASE ReplayStep \/ ReplayRead
    BY <1>1, <1>6, CapReplay
  <1>7. CASE Stop \/ StopEnds
    BY <1>1, <1>7, CapStops
  <1> QED BY <1>2, <1>3, <1>4, <1>5, <1>6, <1>7 DEF Next

\* The disk cap, for every cap and every number of batches: without a crash or
\* a SQLite error the table outgrows report_max_stored_batches only by the rows
\* of flushes that have not pruned yet, although the count and the delete are
\* two transactions that other flushes run between.
THEOREM TableStaysCapped == Spec => []DiskCap
  <1> DEFINE Inv == TypeInv /\ StopperShape /\ RowInv /\ CapInv
  <1>1. Init => Inv
    <2> SUFFICES ASSUME Init PROVE CapInv
      BY QueueInit DEF QueueInv
    <2>1. Cardinality(pending) = 0 /\ PruneCovers
      BY FS_EmptySet, TaskFacts DEF Init, PruneCovers
    <2>2. Cardinality(Growing) \in Nat
      BY GrowingFinite DEF Growing
    <2> QED BY <2>1, <2>2, ReporterConstants DEF CapInv
  <1>2. Inv /\ [Next]_vars => Inv'
    BY TypeNext, StopperNext, RowsNext, CapNext
  <1>3. Inv => DiskCap
    BY DEF CapInv, DiskCap, Growing
  <1> QED BY <1>1, <1>2, <1>3, PTL DEF Spec
=============================================================================
