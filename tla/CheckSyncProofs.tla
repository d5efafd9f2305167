-------------------------- MODULE CheckSyncProofs --------------------------
(* What rendezvous hashing promises the pool of a distributed check, for every *)
(* pool and every set of agents that are away, and that the version of its     *)
(* check list tells an agent of every change of a manual check.                *)
EXTENDS CheckSync, FiniteSetTheorems, WellFoundedInduction, TLAPS

-----------------------------------------------------------------------------
(* Rendezvous hashing.                                                         *)

(* Weights: natural numbers, no two agents with the same one.                  *)
Weights(score, A) ==
    /\ score \in [A -> Nat]
    /\ \A a, b \in A : score[a] = score[b] => a = b

IsFavourite(score, pool, a) ==
    a \in pool /\ \A b \in pool : score[a] >= score[b]

(* A finite pool has a heaviest agent: of the sets {agents heavier than a}     *)
(* one is minimal for inclusion, and its a is the heaviest.                    *)
LEMMA HeaviestExists ==
    ASSUME NEW A, NEW score, Weights(score, A), NEW pool \in SUBSET A,
           IsFiniteSet(pool), pool # {}
    PROVE  \E a \in pool : IsFavourite(score, pool, a)
<1> DEFINE Heavier(a) == {b \in pool : score[b] > score[a]}
           T == {Heavier(a) : a \in pool}
           R == StrictSubsetOrdering(pool)
<1>1. \A a \in pool : score[a] \in Nat
  BY DEF Weights
<1>2. IsWellFoundedOn(R, SUBSET pool)
  BY FS_StrictSubsetOrderingWellFounded, FS_FiniteSubsetsOfFinite
<1>3. T \subseteq SUBSET pool /\ T # {}
  OBVIOUS
<1>4. \E x \in T : \A y \in T : ~ (<<y, x>> \in R)
  <2> HIDE DEF T, R
  <2> QED  BY <1>2, <1>3, WFMin
<1>5. PICK a \in pool : \A y \in T : ~ (<<y, Heavier(a)>> \in R)
  BY <1>4
<1>6. ASSUME NEW b \in pool, score[b] > score[a]  PROVE FALSE
  <2>1. Heavier(b) \subseteq Heavier(a)
    BY <1>1, <1>6
  <2>2. b \in Heavier(a) /\ b \notin Heavier(b)
    BY <1>1, <1>6
  <2>3. Heavier(b) # Heavier(a)
    BY <2>2
  <2>4. Heavier(b) \in SUBSET pool /\ Heavier(a) \in SUBSET pool
    OBVIOUS
  <2> HIDE DEF Heavier
  <2>5. <<Heavier(b), Heavier(a)>> \in R
    BY <2>1, <2>3, <2>4 DEF StrictSubsetOrdering
  <2> QED
    BY <1>5, <2>5
<1>7. \A b \in pool : score[a] >= score[b]
  BY <1>1, <1>6
<1> QED
  BY <1>7 DEF IsFavourite

(* max() over the weights has one answer: the heaviest agent.                  *)
LEMMA FavouriteIs ==
    ASSUME NEW A, NEW score, Weights(score, A), NEW pool \in SUBSET A,
           NEW a, IsFavourite(score, pool, a)
    PROVE  Favourite(score, pool) = a
<1>1. \A b \in pool : (\A c \in pool : score[b] >= score[c]) => b = a
  BY DEF Weights, IsFavourite
<1> QED
  BY <1>1 DEF Favourite, IsFavourite

LEMMA FavouriteIsHeaviest ==
    ASSUME NEW A, NEW score, Weights(score, A), NEW pool \in SUBSET A,
           IsFiniteSet(pool), pool # {}
    PROVE  IsFavourite(score, pool, Favourite(score, pool))
<1>1. PICK a \in pool : IsFavourite(score, pool, a)
  BY HeaviestExists
<1>2. Favourite(score, pool) = a
  BY <1>1, FavouriteIs
<1> QED
  BY <1>1, <1>2

(* "When the agent pool changes, only the checks owned by the departing agent  *)
(* move" (get_assigned_agent_for_check): whoever else leaves a finite pool,    *)
(* its favourite stays.                                                        *)
THEOREM DepartureMovesOnlyItsChecks ==
    ASSUME NEW A, NEW score, Weights(score, A), NEW pool \in SUBSET A,
           IsFiniteSet(pool), pool # {}, NEW gone, gone # Favourite(score, pool)
    PROVE  Favourite(score, pool \ {gone}) = Favourite(score, pool)
<1> DEFINE a == Favourite(score, pool)
<1>1. IsFavourite(score, pool, a)
  BY FavouriteIsHeaviest
<1> HIDE DEF a
<1>2. IsFavourite(score, pool \ {gone}, a)
  BY <1>1 DEF IsFavourite, a
<1>3. Favourite(score, pool \ {gone}) = a
  BY <1>2, FavouriteIs
<1> QED
  BY <1>3 DEF a

LEMMA OwnerIsFavourite ==
    ASSUME NEW A, NEW score, Weights(score, A), NEW pool \in SUBSET A,
           IsFiniteSet(pool), NEW away, ~(pool \subseteq away)
    PROVE  IsFavourite(score, pool \ away, DistributeOwner(score, pool, away))
<1>1. pool \ away \in SUBSET A /\ pool \ away # {} /\ IsFiniteSet(pool \ away)
  BY FS_Difference
<1> QED
  BY <1>1, FavouriteIsHeaviest DEF DistributeOwner

(* As long as some agent of a finite pool is online, the owner is one of them, *)
(* and it stays the owner when another one goes away (distribute_owner).       *)
THEOREM OwnerIsOnlineAndStays ==
    ASSUME NEW A, NEW score, Weights(score, A), NEW pool \in SUBSET A,
           IsFiniteSet(pool), NEW away, ~(pool \subseteq away)
    PROVE  /\ DistributeOwner(score, pool, away) \in pool \ away
           /\ \A b : b # DistributeOwner(score, pool, away) =>
                 DistributeOwner(score, pool, away \cup {b})
                   = DistributeOwner(score, pool, away)
<1> DEFINE a == DistributeOwner(score, pool, away)
<1>1. IsFavourite(score, pool \ away, a)
  BY OwnerIsFavourite
<1> HIDE DEF a
<1>2. a \in pool \ away
  BY <1>1 DEF IsFavourite
<1>3. ASSUME NEW b, b # a
      PROVE  DistributeOwner(score, pool, away \cup {b}) = a
  <2>1. pool \ (away \cup {b}) \in SUBSET A /\ ~(pool \subseteq away \cup {b})
    BY <1>2, <1>3
  <2>2. IsFavourite(score, pool \ (away \cup {b}), a)
    BY <1>1, <1>3 DEF IsFavourite
  <2>3. Favourite(score, pool \ (away \cup {b})) = a
    BY <2>1, <2>2, FavouriteIs
  <2> QED
    BY <2>1, <2>3 DEF DistributeOwner
<1> QED
  BY <1>2, <1>3 DEF a

(* An agent that comes back takes the check only when it is heavier than the   *)
(* owner: the others keep what they have (distribute_owner).                   *)
THEOREM ReturnTakesOnlyItsChecks ==
    ASSUME NEW A, NEW score, Weights(score, A), NEW pool \in SUBSET A,
           IsFiniteSet(pool), NEW away, ~(pool \subseteq away),
           NEW back \in pool
    PROVE  DistributeOwner(score, pool, away \ {back})
             = IF score[back] > score[DistributeOwner(score, pool, away)]
               THEN back ELSE DistributeOwner(score, pool, away)
<1> DEFINE a == DistributeOwner(score, pool, away)
           now == IF score[back] > score[a] THEN back ELSE a
           online == pool \ (away \ {back})
<1>0. IsFavourite(score, pool \ away, a)
  BY OwnerIsFavourite
<1> HIDE DEF a
<1>1. a \in pool \ away /\ back \in online
  BY <1>0 DEF IsFavourite
<1>2. online \in SUBSET A /\ ~(pool \subseteq away \ {back})
  BY <1>1
<1>3. \A b \in A : score[b] \in Nat
  BY DEF Weights
<1>4. online \subseteq (pool \ away) \cup {back}
  OBVIOUS
<1>5. now \in online
  BY <1>1
<1>6. \A b \in pool \ away : score[a] >= score[b]
  BY <1>0 DEF IsFavourite
<1>7. \A b \in online : score[now] >= score[b]
  BY <1>1, <1>3, <1>4, <1>6
<1>8. Favourite(score, online) = now
  BY <1>2, <1>5, <1>7, FavouriteIs DEF IsFavourite
<1>9. DistributeOwner(score, pool, away \ {back}) = now
  BY <1>2, <1>8 DEF DistributeOwner
<1> QED
  BY <1>9 DEF a
-----------------------------------------------------------------------------
(* Manual checks: what the version of an agent's check list tells it.          *)

Table == [Checks -> [home : Agents \cup {None}, edit : Nat,
                     mode : {"absent"} \cup Modes]]
Version == [stamp : Nat, ids : SUBSET Checks]

SyncTypes ==
    /\ checks \in Table /\ edits \in Nat /\ stamp \in [Agents -> Nat]
    /\ pc \in [Agents -> {"down", "idle", "reload"}]
    /\ list \in [Agents -> SUBSET (Checks \X Nat)]
    /\ cache \in [Agents -> SUBSET (Checks \X Nat)]
    /\ version \in [Agents -> Version \cup {None}] /\ synced \subseteq Agents

(* No stamp and no version is ahead of the newest edit.                        *)
StampsPast ==
    \A a \in Agents : /\ stamp[a] <= edits
                      /\ version[a] # None => version[a].stamp <= edits

(* A loop that is to reload, or has reloaded, has a version.                   *)
VersionKnown ==
    \A a \in Agents : /\ pc[a] = "reload" => version[a] # None
                      /\ a \in synced => pc[a] # "down" /\ version[a] # None

(* The agent runs its manual checks as they are.                               *)
RunsOwn(a) ==
    \A c \in Checks : checks[c].mode = "manual" /\ checks[c].home = a
                      => <<c, checks[c].edit>> \in list[a]

(* The part of the version that matters is the stamp.                          *)
StampTells ==
    \A a \in synced : pc[a] = "idle" /\ version[a].stamp = stamp[a] => RunsOwn(a)

SyncInv == SyncTypes /\ StampsPast /\ VersionKnown /\ StampTells

LEMMA InitSync == Init => SyncInv
<1> SUFFICES ASSUME Init PROVE SyncInv
  OBVIOUS
<1> USE PoolAssumption DEF Init
<1>1. SyncTypes
  BY DEF SyncTypes, Table
<1>2. StampsPast /\ VersionKnown /\ StampTells
  BY DEF StampsPast, VersionKnown, StampTells
<1> QED
  BY <1>1, <1>2 DEF SyncInv

LEMMA OwnedIds == \A a, away : Owned(a, away) \in SUBSET Checks
BY DEF Owned

LEMMA CheckListType ==
    ASSUME SyncTypes, NEW a
    PROVE  CheckList(a) \in SUBSET (Checks \X Nat)
<1>1. \A c \in Checks : checks[c].edit \in Nat
  BY DEF SyncTypes, Table
<1> QED
  BY <1>1, OwnedIds DEF CheckList

(* An operation on checks: those of an agent it does not touch stay as they    *)
(* are, the others get a stamp no agent has seen.                              *)
Spares(touched) ==
    /\ checks' \in Table
    /\ \A c \in Checks :
          checks'[c].mode = "manual" /\ checks'[c].home \notin touched
          => checks'[c] = checks[c]

LEMMA OperationKeeps ==
    ASSUME SyncInv, NEW touched, Operate(touched), Spares(touched)
    PROVE  SyncInv'
<1> USE DEF SyncInv
<1>1. edits' = edits + 1 /\ edits \in Nat /\ edits' \in Nat
  BY DEF Operate, SyncTypes
<1>2. stamp' = [a \in Agents |-> IF a \in touched THEN edits' ELSE stamp[a]]
  BY DEF Operate
<1>3. UNCHANGED <<pc, list, cache, version, synced>>
  BY DEF Operate, agent
<1>4. \A a \in Agents : stamp[a] \in Nat /\ stamp[a] <= edits
  BY DEF SyncTypes, StampsPast
<1>5. \A a \in Agents : version[a] # None =>
          version[a].stamp <= edits /\ version[a].stamp \in Nat
  BY DEF SyncTypes, StampsPast, Version
<1>6. SyncTypes'
  BY <1>1, <1>2, <1>3 DEF SyncTypes, Spares
<1>7. StampsPast'
  BY <1>1, <1>2, <1>3, <1>4, <1>5 DEF StampsPast
<1>8. VersionKnown'
  BY <1>3 DEF VersionKnown
<1>9. StampTells'
  <2> SUFFICES ASSUME NEW a \in synced, pc[a] = "idle",
                      version[a].stamp = stamp'[a]
               PROVE  RunsOwn(a)'
    BY <1>3 DEF StampTells
  <2>1. a \in Agents /\ version[a] # None
    BY DEF SyncTypes, VersionKnown
  <2>2. a \notin touched
    BY <1>1, <1>2, <1>5, <2>1
  <2>3. RunsOwn(a)
    BY <1>2, <2>1, <2>2 DEF StampTells
  <2> QED
    BY <1>3, <2>2, <2>3 DEF RunsOwn, Spares
<1> QED
  BY <1>6, <1>7, <1>8, <1>9

(* A rewrite spares whom the new homes do not name.                            *)
LEMMA RewriteSpares ==
    ASSUME SyncTypes, edits' \in Nat, NEW cs \in SUBSET Checks, NEW new, NEW touched,
           DOMAIN new = cs,
           \A c \in cs : /\ new[c] \in [home : Agents \cup {None}, edit : Nat,
                                        mode : {"absent"} \cup Modes]
                         /\ new[c].mode = "manual" => new[c].home \in touched,
           Rewrite(new)
    PROVE  Spares(touched)
<1>1. \A c \in Checks \ cs : checks'[c] = checks[c]
  BY DEF Rewrite
<1>2. \A c \in cs : /\ checks'[c] \in [home : Agents \cup {None}, edit : Nat,
                                       mode : {"absent"} \cup Modes]
                    /\ checks'[c].home = new[c].home
                    /\ checks'[c].mode = new[c].mode
  BY DEF Rewrite
<1>3. checks' \in Table
  BY <1>1, <1>2 DEF Rewrite, Table, SyncTypes
<1> QED
  BY <1>1, <1>2, <1>3 DEF Spares

LEMMA CreateKeeps ==
    ASSUME SyncInv, NEW c \in Checks, NEW a \in Agents, CreateCheck(c, a)
    PROVE  SyncInv'
<1> USE DEF SyncInv
<1>1. PICK m \in Modes :
         checks' = [checks EXCEPT ![c] = [home |-> a, mode |-> m, edit |-> edits']]
  BY DEF CreateCheck
<1>2. Operate({a}) /\ edits' \in Nat
  BY DEF CreateCheck, Operate, SyncTypes
<1>3. Spares({a})
  BY <1>1, <1>2 DEF Spares, SyncTypes, Table
<1> QED
  BY <1>2, <1>3, OperationKeeps

LEMMA UpdateKeeps ==
    ASSUME SyncInv, NEW c \in Checks, UpdateCheck(c)
    PROVE  SyncInv'
<1> USE DEF SyncInv
<1>1. PICK m \in Modes : Rewrite([k \in {c} |-> [checks[k] EXCEPT !.mode = m]])
  BY DEF UpdateCheck
<1>2. Operate(AgentsOf({c})) /\ edits' \in Nat
  BY DEF UpdateCheck, Operate, SyncTypes
<1> DEFINE new == [k \in {c} |-> [checks[k] EXCEPT !.mode = m]]
<1>3. DOMAIN new = {c} /\ {c} \in SUBSET Checks
  OBVIOUS
<1>4. \A k \in {c} : /\ new[k] \in [home : Agents \cup {None}, edit : Nat,
                                    mode : {"absent"} \cup Modes]
                     /\ new[k].home \in AgentsOf({c})
  BY DEF AgentsOf, SyncTypes, Table
<1> HIDE DEF new
<1>5. Spares(AgentsOf({c}))
  BY <1>1, <1>2, <1>3, <1>4, RewriteSpares DEF new
<1> QED
  BY <1>2, <1>5, OperationKeeps

LEMMA DeleteKeeps ==
    ASSUME SyncInv, NEW cs \in SUBSET Checks, Operate(AgentsOf(cs)),
           checks' = [c \in Checks |-> IF c \in cs THEN NoCheck ELSE checks[c]]
    PROVE  SyncInv'
<1> USE DEF SyncInv
<1>1. Spares(AgentsOf(cs))
  BY DEF Spares, SyncTypes, Table, NoCheck
<1> QED
  BY <1>1, OperationKeeps

LEMMA BulkSetEnabledKeeps ==
    ASSUME SyncInv, NEW cs \in SUBSET Checks, BulkSetEnabled(cs)
    PROVE  SyncInv'
<1> USE DEF SyncInv
<1> DEFINE new == [c \in cs |-> checks[c]]
<1>1. Operate(AgentsOf(cs)) /\ edits' \in Nat /\ Rewrite(new)
  BY DEF BulkSetEnabled, Operate, SyncTypes
<1>2. DOMAIN new = cs
  OBVIOUS
<1>3. \A c \in cs : /\ new[c] \in [home : Agents \cup {None}, edit : Nat,
                                   mode : {"absent"} \cup Modes]
                    /\ new[c].home \in AgentsOf(cs)
  BY DEF AgentsOf, SyncTypes, Table
<1> HIDE DEF new
<1>4. Spares(AgentsOf(cs))
  BY <1>1, <1>2, <1>3, RewriteSpares
<1> QED
  BY <1>1, <1>4, OperationKeeps

(* bulk_modify, bulk_create, bulk_import: the checks go to one agent.          *)
LEMMA MoveKeeps ==
    ASSUME SyncInv, NEW cs \in SUBSET Checks, NEW a \in Agents,
           NEW touched, Operate(touched), a \in touched, NEW new, Rewrite(new),
           DOMAIN new = cs,
           \A c \in cs : /\ new[c] \in [home : Agents \cup {None}, edit : Nat,
                                        mode : {"absent"} \cup Modes]
                         /\ new[c].home = a
    PROVE  SyncInv'
<1> USE DEF SyncInv
<1>1. edits' \in Nat
  BY DEF Operate, SyncTypes
<1>2. Spares(touched)
  BY <1>1, RewriteSpares
<1> QED
  BY <1>2, OperationKeeps

LEMMA BulkMoveKeeps ==
    ASSUME SyncInv, NEW cs \in SUBSET Checks, NEW a \in Agents,
           BulkModify(cs, a) \/ BulkCreate(cs, a) \/ BulkImport(cs, a)
    PROVE  SyncInv'
<1>0. \A c \in cs : checks[c] \in [home : Agents \cup {None}, edit : Nat,
                                   mode : {"absent"} \cup Modes]
  BY DEF SyncInv, SyncTypes, Table
<1>1. CASE BulkModify(cs, a)
  <2> DEFINE new == [c \in cs |-> [checks[c] EXCEPT !.home = a]]
  <2>1. Operate(AgentsOf(cs) \cup {a}) /\ Rewrite(new)
    BY <1>1 DEF BulkModify
  <2>2. DOMAIN new = cs /\ \A c \in cs :
             /\ new[c] \in [home : Agents \cup {None}, edit : Nat,
                            mode : {"absent"} \cup Modes]
             /\ new[c].home = a
    BY <1>0
  <2> HIDE DEF new
  <2> QED
    BY <2>1, <2>2, MoveKeeps
<1>2. CASE BulkCreate(cs, a)
  <2> DEFINE new == [c \in cs |-> [checks[c] EXCEPT !.home = a, !.mode = "manual"]]
  <2>1. Operate({a}) /\ Rewrite(new)
    BY <1>2 DEF BulkCreate
  <2>2. DOMAIN new = cs /\ \A c \in cs :
             /\ new[c] \in [home : Agents \cup {None}, edit : Nat,
                            mode : {"absent"} \cup Modes]
             /\ new[c].home = a
    BY <1>0 DEF Modes
  <2> HIDE DEF new
  <2> QED
    BY <2>1, <2>2, MoveKeeps
<1>3. CASE BulkImport(cs, a)
  <2>0. PICK m \in Modes :
           Rewrite([c \in cs |-> [checks[c] EXCEPT !.home = a, !.mode = m]])
    BY <1>3 DEF BulkImport
  <2> DEFINE new == [c \in cs |-> [checks[c] EXCEPT !.home = a, !.mode = m]]
  <2>1. Operate({a}) /\ Rewrite(new)
    BY <1>3, <2>0 DEF BulkImport
  <2>2. DOMAIN new = cs /\ \A c \in cs :
             /\ new[c] \in [home : Agents \cup {None}, edit : Nat,
                            mode : {"absent"} \cup Modes]
             /\ new[c].home = a
    BY <1>0
  <2> HIDE DEF new
  <2> QED
    BY <2>1, <2>2, MoveKeeps
<1> QED
  BY <1>1, <1>2, <1>3

(* What the server answers is what the agent should run.                       *)
LEMMA ListIsOwn ==
    ASSUME NEW a, NEW c \in Checks, checks[c].mode = "manual", checks[c].home = a
    PROVE  <<c, checks[c].edit>> \in CheckList(a)
BY DEF CheckList, Owned

LEMMA FetchKeepsTypes ==
    ASSUME SyncTypes, NEW a \in Agents, NEW reload \in BOOLEAN, Fetched(a, reload)
    PROVE  /\ list' \in [Agents -> SUBSET (Checks \X Nat)]
           /\ cache' \in [Agents -> SUBSET (Checks \X Nat)]
           /\ synced' \subseteq Agents
           /\ \A b \in Agents \ {a} : list'[b] = list[b]
           /\ \A b \in Agents \ {a} : b \in synced' => b \in synced
<1>1. CheckList(a) \in SUBSET (Checks \X Nat)
  BY CheckListType
<1>2. cache[a] \in SUBSET (Checks \X Nat)
  BY DEF SyncTypes
<1> QED
  BY <1>1, <1>2 DEF Fetched, SyncTypes

LEMMA StartKeeps ==
    ASSUME SyncInv, NEW a \in Agents, Start(a)
    PROVE  SyncInv'
<1> USE DEF SyncInv
<1>1. Fetched(a, FALSE) /\ UNCHANGED <<checks, edits, stamp, version>>
  BY DEF Start, server
<1>2. SyncTypes'
  BY <1>1, FetchKeepsTypes DEF SyncTypes, Start
<1>3. a \notin synced /\ a \notin synced'
  BY <1>1 DEF Start, VersionKnown, Fetched
<1>4. pc' = [pc EXCEPT ![a] = "idle"] /\ pc[a] = "down"
  BY DEF Start
<1>5. StampsPast'
  BY <1>1 DEF StampsPast
<1>6. \A b \in Agents \ {a} :
         list'[b] = list[b] /\ pc'[b] = pc[b] /\ (b \in synced' => b \in synced)
  BY <1>1, <1>4, FetchKeepsTypes DEF SyncTypes
<1>7. VersionKnown'
  BY <1>1, <1>3, <1>4, <1>6 DEF VersionKnown, SyncTypes
<1>8. StampTells'
  <2> SUFFICES ASSUME NEW b \in synced', pc'[b] = "idle",
                      version[b].stamp = stamp[b]
               PROVE  RunsOwn(b)'
    BY <1>1 DEF StampTells
  <2>1. b \in Agents \ {a} /\ b \in synced
    BY <1>2, <1>3, <1>6 DEF SyncTypes
  <2>2. RunsOwn(b)
    BY <1>6, <2>1 DEF StampTells
  <2> QED
    BY <1>1, <1>6, <2>1, <2>2 DEF RunsOwn
<1> QED
  BY <1>2, <1>5, <1>7, <1>8

LEMMA ReloadKeeps ==
    ASSUME SyncInv, NEW a \in Agents, Reload(a)
    PROVE  SyncInv'
<1> USE DEF SyncInv
<1>1. Fetched(a, TRUE) /\ UNCHANGED <<checks, edits, stamp, version>>
  BY DEF Reload, server
<1>2. SyncTypes'
  BY <1>1, FetchKeepsTypes DEF SyncTypes, Reload
<1>3. pc' = [pc EXCEPT ![a] = "idle"] /\ version[a] # None
  BY DEF Reload, VersionKnown
<1>4. StampsPast'
  BY <1>1 DEF StampsPast
<1>5. \A b \in Agents \ {a} :
         list'[b] = list[b] /\ pc'[b] = pc[b] /\ (b \in synced' => b \in synced)
  BY <1>1, <1>3, FetchKeepsTypes DEF SyncTypes
<1>6. pc'[a] = "idle" /\ (a \in synced' => list'[a] = CheckList(a))
  BY <1>1, <1>3 DEF Fetched, SyncTypes
<1>7. VersionKnown'
  BY <1>1, <1>3, <1>5, <1>6 DEF VersionKnown
<1>8. StampTells'
  <2> SUFFICES ASSUME NEW b \in synced', pc'[b] = "idle",
                      version[b].stamp = stamp[b]
               PROVE  RunsOwn(b)'
    BY <1>1 DEF StampTells
  <2>1. CASE b = a
    BY <1>1, <1>6, <2>1, ListIsOwn DEF RunsOwn
  <2>2. CASE b # a
    <3>1. b \in Agents \ {a} /\ b \in synced
      BY <1>2, <1>5, <2>2 DEF SyncTypes
    <3>2. RunsOwn(b)
      BY <1>5, <3>1 DEF StampTells
    <3> QED
      BY <1>1, <1>5, <3>1, <3>2 DEF RunsOwn
  <2> QED
    BY <2>1, <2>2
<1> QED
  BY <1>2, <1>4, <1>7, <1>8

LEMMA HeartbeatKeeps ==
    ASSUME SyncInv, NEW a \in Agents, Heartbeat(a)
    PROVE  SyncInv'
<1> USE DEF SyncInv
<1> DEFINE answer == ConfigVersion(a, stopped' \cup silent')
<1>1. pc[a] = "idle" /\ UNCHANGED <<checks, edits, stamp, list, cache, synced>>
  BY DEF Heartbeat
<1>2. answer \in Version /\ answer # None /\ answer.stamp = stamp[a]
  BY OwnedIds, PoolAssumption DEF ConfigVersion, Version, SyncTypes
<1> HIDE DEF answer
<1>3. CASE SyncChecks(a, answer)
  <2>1. version' = [version EXCEPT ![a] = answer]
    BY <1>3 DEF SyncChecks
  <2>2. \/ pc' = [pc EXCEPT ![a] = "reload"]
        \/ pc' = pc /\ version[a] \in {None, answer}
    BY <1>3 DEF SyncChecks
  <2>3. SyncTypes'
    BY <1>1, <1>2, <2>1, <2>2 DEF SyncTypes
  <2>4. StampsPast'
    BY <1>1, <1>2, <2>1 DEF StampsPast, SyncTypes
  <2>5. VersionKnown'
    BY <1>1, <1>2, <2>1, <2>2 DEF VersionKnown, SyncTypes
  <2>6. StampTells'
    <3> SUFFICES ASSUME NEW b \in synced, pc'[b] = "idle",
                        version'[b].stamp = stamp[b]
                 PROVE  RunsOwn(b)
      BY <1>1 DEF StampTells, RunsOwn
    <3>1. b \in Agents /\ version[b] # None
      BY DEF SyncTypes, VersionKnown
    <3>2. pc[b] = "idle" /\ version'[b] = version[b]
      BY <2>1, <2>2, <3>1 DEF SyncTypes
    <3> QED
      BY <3>2 DEF StampTells
  <2> QED
    BY <2>3, <2>4, <2>5, <2>6
<1>4. CASE UNCHANGED <<pc, version>>
  BY <1>1, <1>4 DEF SyncTypes, StampsPast, VersionKnown, StampTells, RunsOwn
<1> QED
  BY <1>3, <1>4 DEF Heartbeat, answer

LEMMA StopKeeps ==
    ASSUME SyncInv, NEW a \in Agents, Stop(a)
    PROVE  SyncInv'
<1> USE DEF SyncInv
<1>1. UNCHANGED <<checks, edits, stamp, cache>> /\ synced' = synced \ {a}
  BY DEF Stop
<1>2. /\ pc' = [pc EXCEPT ![a] = "down"] /\ list' = [list EXCEPT ![a] = {}]
      /\ version' = [version EXCEPT ![a] = None]
  BY DEF Stop
<1>3. SyncTypes'
  BY <1>1, <1>2 DEF SyncTypes
<1>4. StampsPast' /\ VersionKnown'
  BY <1>1, <1>2 DEF StampsPast, VersionKnown, SyncTypes
<1>5. StampTells'
  BY <1>1, <1>2 DEF StampTells, RunsOwn, SyncTypes
<1> QED
  BY <1>3, <1>4, <1>5

LEMMA SyncNext == SyncInv /\ [Next]_vars => SyncInv'
<1> SUFFICES ASSUME SyncInv, [Next]_vars PROVE SyncInv'
  OBVIOUS
<1>1. ASSUME NEW c \in Checks, UpdateCheck(c) PROVE SyncInv'
  BY <1>1, UpdateKeeps
<1>2. ASSUME NEW c \in Checks, DeleteCheck(c) PROVE SyncInv'
  <2>1. checks' = [k \in Checks |-> IF k \in {c} THEN NoCheck ELSE checks[k]]
    BY <1>2 DEF DeleteCheck, SyncInv, SyncTypes, Table
  <2> QED
    BY <1>2, <2>1, DeleteKeeps DEF DeleteCheck
<1>3. ASSUME NEW c \in Checks, NEW d \in Checks, NEW a \in Agents,
             CreateCheck(c, a) \/ CloneCheck(c, d, a)
      PROVE  SyncInv'
  BY <1>3, CreateKeeps DEF CloneCheck
<1>4. ASSUME NEW cs \in SUBSET Existing \ {{}}, BulkSetEnabled(cs) \/ BulkDelete(cs)
      PROVE  SyncInv'
  BY <1>4, BulkSetEnabledKeeps, DeleteKeeps DEF BulkDelete, Existing
<1>5. ASSUME NEW cs \in SUBSET Checks \ {{}}, NEW a \in Agents,
             BulkModify(cs, a) \/ BulkCreate(cs, a) \/ BulkImport(cs, a)
      PROVE  SyncInv'
  BY <1>5, BulkMoveKeeps
<1>6. ASSUME NEW a \in Agents, ForceReload(a) PROVE SyncInv'
  <2>1. Operate({a}) /\ Spares({a})
    BY <1>6 DEF ForceReload, Spares, SyncInv, SyncTypes
  <2> QED
    BY <2>1, OperationKeeps
<1>7. ASSUME NEW a \in Agents, FallSilent(a) \/ SyncIntervalPasses(a) PROVE SyncInv'
  <2>1. UNCHANGED <<checks, edits, stamp, pc, list, cache, version, synced>>
    BY <1>7 DEF FallSilent, SyncIntervalPasses, server, agent
  <2> QED
    BY <2>1 DEF SyncInv, SyncTypes, StampsPast, VersionKnown, StampTells, RunsOwn
<1>8. ASSUME NEW a \in Agents, Start(a) \/ Heartbeat(a) \/ Reload(a) \/ Stop(a)
      PROVE  SyncInv'
  BY <1>8, StartKeeps, HeartbeatKeeps, ReloadKeeps, StopKeeps
<1>9. CASE UNCHANGED vars
  BY <1>9 DEF vars, SyncInv, SyncTypes, StampsPast, VersionKnown, StampTells,
              RunsOwn
<1> QED
  BY <1>1, <1>2, <1>3, <1>4, <1>5, <1>6, <1>7, <1>8, <1>9 DEF Next

LEMMA StampIsEnough == SyncInv => ManualEditsReach
<1> SUFFICES ASSUME SyncInv, NEW a \in synced, pc[a] = "idle",
                    version[a] = ConfigVersion(a, stopped \cup silent)
             PROVE  RunsOwn(a)
  BY DEF ManualEditsReach, RunsOwn
<1>1. version[a].stamp = stamp[a]
  BY DEF ConfigVersion
<1> QED
  BY <1>1 DEF SyncInv, StampTells

(* ManualEditsReach, for every pool of agents, every table of checks and every *)
(* number of edits, crashes and losses: an agent between two heartbeats whose  *)
(* latest reload reached the server and whose version is the server's runs     *)
(* each manual check of its own as it is (checks_updated_at, config_version,   *)
(* _sync_checks).                                                              *)
THEOREM ManualEditsAreFetched == Spec => []ManualEditsReach
<1>1. Init => SyncInv
  BY InitSync
<1>2. SyncInv /\ [Next]_vars => SyncInv'
  BY SyncNext
<1>3. SyncInv => ManualEditsReach
  BY StampIsEnough
<1> QED
  BY <1>1, <1>2, <1>3, PTL DEF Spec

-----------------------------------------------------------------------------
(* Where synchronisation leads.                                                *)

(* The server knows which agents are up, and each of them has its list.        *)
Settled ==
    \A a \in Agents :
        IF Up(a) THEN a \notin stopped \cup silent /\ list[a] = CheckList(a)
        ELSE a \in stopped \cup silent

LEMMA ListedIsOwned ==
    ASSUME Settled, NEW a \in Agents, Up(a), NEW c \in Checks
    PROVE  /\ Runs(a, c) <=> c \in Owned(a, stopped \cup silent)
           /\ Runs(a, c) => <<c, checks[c].edit>> \in list[a]
<1>1. list[a] = {<<d, checks[d].edit>> : d \in Owned(a, stopped \cup silent)}
  BY DEF Settled, CheckList
<1> HIDE DEF Settled
<1>2. \A e \in list[a] : e[1] \in Owned(a, stopped \cup silent)
                         /\ e = <<e[1], checks[e[1]].edit>>
  BY <1>1
<1>3. c \in Owned(a, stopped \cup silent) => <<c, checks[c].edit>> \in list[a]
  BY <1>1
<1>4. c \in Owned(a, stopped \cup silent) => Runs(a, c)
  BY <1>3 DEF Runs
<1>5. Runs(a, c) => c \in Owned(a, stopped \cup silent)
  BY <1>2 DEF Runs
<1> QED
  BY <1>3, <1>4, <1>5

LEMMA SettledRuns ==
    ASSUME SyncInv, Settled, NEW c \in Checks
    PROVE  RunAs(c)
<1> DEFINE up == {a \in Agents : Up(a)}
           runners == {a \in up : Runs(a, c)}
           away == stopped \cup silent
<1>1. \A a \in up : Runs(a, c) <=> c \in Owned(a, away)
  BY ListedIsOwned
<1>2. \A a \in runners : <<c, checks[c].edit>> \in list[a]
  BY ListedIsOwned
<1>3. \A a \in Agents : a \in up <=> a \notin away
  BY DEF Settled
<1>4. checks[c].mode \in {"absent"} \cup Modes
  BY DEF SyncInv, SyncTypes, Table
<1>5. CASE checks[c].mode = "absent"
  BY <1>1, <1>2, <1>5 DEF RunAs, Owned
<1>6. CASE checks[c].mode = "manual"
  <2>1. runners = up \cap {checks[c].home}
    BY <1>1, <1>6 DEF Owned
  <2> QED
    BY <1>2, <1>6, <2>1 DEF RunAs
<1>7. CASE checks[c].mode = "replicate"
  <2>1. runners = up
    BY <1>1, <1>7 DEF Owned
  <2> QED
    BY <1>2, <1>7, <2>1 DEF RunAs
<1>8. CASE checks[c].mode = "distribute"
  <2>1. (runners = {} /\ up = {}) \/ \E a \in up : runners = {a}
    <3>1. CASE up = {}
      BY <3>1
    <3>2. CASE up # {}
      <4> DEFINE owner == DistributeOwner(Score[c], Agents, away)
      <4>1. Weights(Score[c], Agents) /\ IsFiniteSet(Agents)
        BY PoolAssumption DEF Weights
      <4>2. ~(Agents \subseteq away)
        BY <1>3, <3>2
      <4>3. owner \in Agents \ away
        BY <4>1, <4>2, OwnerIsOnlineAndStays
      <4>4. \A a \in up : c \in Owned(a, away) <=> owner = a
        BY <1>8 DEF Owned
      <4> HIDE DEF owner
      <4>5. owner \in up /\ runners = {owner}
        BY <1>1, <1>3, <4>3, <4>4
      <4> QED
        BY <4>5
    <3> QED
      BY <3>1, <3>2
  <2> QED
    BY <1>2, <1>8, <2>1 DEF RunAs
<1> QED
  BY <1>4, <1>5, <1>6, <1>7, <1>8 DEF Modes

(* distribute_owner, _checks_for_agent, _sync_checks: for every pool and every *)
(* table, once the server knows who is up and each agent has its list, every   *)
(* check is run in its newest edit by exactly the agents it is for, a          *)
(* distributed one by exactly one: what RunAsAssigned says is reached is right.*)
THEOREM SettledRunsAsAssigned == Spec => [](Settled => \A c \in Checks : RunAs(c))
<1>1. Init => SyncInv
  BY InitSync
<1>2. SyncInv /\ [Next]_vars => SyncInv'
  BY SyncNext
<1>3. SyncInv => (Settled => \A c \in Checks : RunAs(c))
  BY SettledRuns
<1> QED
  BY <1>1, <1>2, <1>3, PTL DEF Spec
=============================================================================
