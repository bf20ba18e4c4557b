----------------------- MODULE InventoryControllerProofs -----------------------
(***************************************************************************)
(* Proofs about InventoryController, for any inventories, clusters, channel *)
(* capacity and budget.  The argument is the inductive invariant IInv of   *)
(* that module.  What the API machinery preserves is proved in             *)
(* KubeApiProofs; the rest is that the provider's list only ever grows at  *)
(* its end while a process lives, so that what was the list once is a      *)
(* prefix of it ever after.                                                *)
(***************************************************************************)
EXTENDS InventoryController, KubeApiProofs

-----------------------------------------------------------------------------
(* Values.                                                                 *)

\* The list a process starts from is a list of clusters.
LEMMA SeedType == SeedClusters \in Seq(ClusterIDs)
  BY DEF ClusterIDs, SeedClusters

\* A deleted inventory is still a version ...
LEMMA AbsentType == Absent \in Versions
<1>1. <<>> \in Seq(ClusterIDs)
  OBVIOUS
<1> QED BY <1>1 DEF Absent, Versions, NoStatus, Statuses

\* ... and so is one just created, each with its own resource version.
LEMMA CreatedType ==
  \A n \in Nat, b \in BOOLEAN :
    /\ [Absent EXCEPT !.rv = n] \in Versions
    /\ [Absent EXCEPT !.rv = n].rv = n
    /\ [Absent EXCEPT !.rv = n, !.live = b] \in Versions
    /\ [Absent EXCEPT !.rv = n, !.live = b].rv = n
<1>1. <<>> \in Seq(ClusterIDs)
  OBVIOUS
<1> QED BY <1>1 DEF Absent, Versions, NoStatus, Statuses

\* The version an edit stores.
LEMMA EditedType ==
  ASSUME NEW v \in Versions
  PROVE  [v EXCEPT !.rv = @ + 1] \in Versions /\ [v EXCEPT !.rv = @ + 1].rv = v.rv + 1
  BY DEF Versions

\* The version an accepted status update stores.
LEMMA NewStatusType ==
  ASSUME NEW v \in Versions, NEW s \in Statuses
  PROVE  LET w == [v EXCEPT !.rv = @ + 1, !.status = s]
         IN  /\ w \in Versions
             /\ w.rv = v.rv + 1
             /\ w.live = v.live
             /\ w.status = s
<1> DEFINE a == [v EXCEPT !.rv = v.rv + 1]
           w == [a EXCEPT !.status = s]
<1>1. a \in Versions /\ a.rv = v.rv + 1 /\ a.live = v.live
  BY DEF Versions
<1>2. w \in Versions /\ w.rv = a.rv /\ w.live = a.live /\ w.status = s
  <2> HIDE DEF a
  <2> QED BY <1>1 DEF Versions
<1> QED BY <1>1, <1>2

\* The copy that carries the list: a version as new as the one it was made of.
LEMMA ListedType ==
  ASSUME NEW v \in Versions, NEW s \in Seq(ClusterIDs)
  PROVE  LET w == [v EXCEPT !.status.services = s, !.status.synced = "True"]
         IN  /\ w \in Versions
             /\ w.rv = v.rv
             /\ w.status.services = s
             /\ w.status.synced = "True"
<1> DEFINE a == [v EXCEPT !.status.services = s]
           w == [a EXCEPT !.status.synced = "True"]
<1>1. a \in Versions /\ a.rv = v.rv /\ a.status.services = s
  BY DEF Versions, Statuses
<1>2. /\ w \in Versions
      /\ w.rv = a.rv
      /\ w.status.services = a.status.services
      /\ w.status.synced = "True"
  <2> HIDE DEF a
  <2> QED BY <1>1 DEF Versions, Statuses
<1> QED BY <1>1, <1>2

-----------------------------------------------------------------------------
(* Prefixes.                                                               *)

\* IsPrefix, element by element.
LEMMA PrefixElements ==
  ASSUME NEW S, NEW s \in Seq(S), NEW t \in Seq(S)
  PROVE  IsPrefix(s, t) <=>
           Len(s) <= Len(t) /\ \A i \in 1..Len(s) : s[i] = t[i]
<1>1. Len(s) \in Nat /\ Len(t) \in Nat
  OBVIOUS
<1>2. /\ Len(SubSeq(s, 1, Len(s))) = Len(s)
      /\ \A i \in 1..Len(s) : SubSeq(s, 1, Len(s))[i] = s[i]
  BY <1>1
<1>3. ASSUME Len(s) <= Len(t)
      PROVE  /\ SubSeq(t, 1, Len(s)) \in Seq(S)
             /\ Len(SubSeq(t, 1, Len(s))) = Len(s)
             /\ \A i \in 1..Len(s) : SubSeq(t, 1, Len(s))[i] = t[i]
  BY <1>1, <1>3
<1>4. SubSeq(s, 1, Len(s)) \in Seq(S)
  BY <1>1
<1>5. ASSUME Len(s) <= Len(t), \A i \in 1..Len(s) : s[i] = t[i]
      PROVE  SubSeq(s, 1, Len(s)) = SubSeq(t, 1, Len(s))
  <2>1. \A i \in 1..Len(s) : SubSeq(s, 1, Len(s))[i] = SubSeq(t, 1, Len(s))[i]
    BY <1>2, <1>3, <1>5
  <2> DEFINE a == SubSeq(s, 1, Len(s))
             b == SubSeq(t, 1, Len(s))
  <2>2. a \in Seq(S) /\ b \in Seq(S) /\ Len(a) = Len(b) /\ Len(a) = Len(s)
    BY <1>2, <1>3, <1>4, <1>5
  <2>3. \A i \in 1..Len(a) : a[i] = b[i]
    BY <2>1, <2>2
  <2> HIDE DEF a, b
  <2>4. a = b
    BY <2>2, <2>3, SeqEqual
  <2> QED BY <2>4 DEF a, b
<1> QED BY <1>2, <1>3, <1>5 DEF IsPrefix

\* What is a prefix of a list stays one when the list grows at its end; and
\* a list is a prefix of itself.
LEMMA PrefixGrows ==
  ASSUME NEW S, NEW s \in Seq(S), NEW t \in Seq(S), NEW e \in S
  PROVE  /\ IsPrefix(s, s)
         /\ IsPrefix(s, t) => IsPrefix(s, Append(t, e))
<1>1. IsPrefix(s, s)
  BY PrefixElements
<1>2. /\ Append(t, e) \in Seq(S)
      /\ Len(Append(t, e)) = Len(t) + 1
      /\ \A i \in 1..Len(t) : Append(t, e)[i] = t[i]
      /\ Len(s) \in Nat /\ Len(t) \in Nat
  OBVIOUS
<1>3. ASSUME IsPrefix(s, t)
      PROVE  IsPrefix(s, Append(t, e))
  <2>1. Len(s) <= Len(t) /\ \A i \in 1..Len(s) : s[i] = t[i]
    BY <1>3, PrefixElements
  <2>2. \A i \in 1..Len(s) : i \in 1..Len(t)
    BY <1>2, <2>1
  <2>3. Len(s) <= Len(Append(t, e)) /\ \A i \in 1..Len(s) : s[i] = Append(t, e)[i]
    BY <1>2, <2>1, <2>2
  <2> HIDE DEF IsPrefix
  <2> DEFINE u == Append(t, e)
  <2>4. u \in Seq(S)
    BY <1>2
  <2>5. Len(s) <= Len(u) /\ \A i \in 1..Len(s) : s[i] = u[i]
    BY <2>3
  <2> HIDE DEF u
  <2>6. IsPrefix(s, u)
    BY <2>4, <2>5, PrefixElements
  <2> QED BY <2>6 DEF u
<1> QED BY <1>1, <1>3

-----------------------------------------------------------------------------
(* The invariant, part by part.                                            *)

CloudType ==
  /\ addCluster \in Seq(ClusterIDs)
  /\ adding \in ClusterIDs \cup {NoID}
  /\ clusters \in Seq(ClusterIDs)

WorkerType ==
  /\ queue   \in SUBSET Keys
  /\ backoff \in SUBSET Keys
  /\ pc \in Locations
  /\ req \in IF pc = "idle" THEN {NoKey} ELSE Keys
  /\ inventory \in Versions
  /\ notices \in SUBSET Keys
  /\ budget \in [BudgetKinds -> Nat]

\* What the provider starts from it keeps.
SeedKept == IsPrefix(SeedClusters, clusters)

\* The status lists what the provider had at a moment of this process' life.
Truthful(status) ==
  /\ status.synced = "True"
  /\ IsPrefix(SeedClusters, status.services)
  /\ IsPrefix(status.services, clusters)

\* The parts of the inductive invariant, grouped by the state they speak of.
LEMMA InvParts ==
  IInv <=> /\ Informer(Versions)
           /\ CloudType
           /\ WorkerType
           /\ SeedKept
           /\ StaleCopyIsNoticed
           /\ CopyIsTruthful
           /\ RestingIsTruthful
  BY DEF IInv, TypeOK, Informer, Typed, CloudType, WorkerType, SeedKept

\* The parts of the invariant after a step make the invariant after it.
LEMMA InvPartsNext ==
  ASSUME Informer(Versions)', CloudType', WorkerType', SeedKept',
         StaleCopyIsNoticed', CopyIsTruthful', RestingIsTruthful'
  PROVE  IInv'
  BY DEF IInv, TypeOK, Informer, Typed, CloudType, WorkerType, SeedKept

\* Versions of inventories are numbered.
LEMMA VersionNumber == \A v \in Versions : v.rv \in Nat
  BY DEF Versions

\* A bound that is used up is still a bound.
LEMMA SpendType ==
  ASSUME budget \in [BudgetKinds -> Nat], NEW kind \in BudgetKinds, Spend(kind)
  PROVE  budget' \in [BudgetKinds -> Nat]
  BY DEF Spend

\* The provider's list keeps its prefixes while the process lives.
ListGrows ==
  /\ CloudType'
  /\ \A s \in Seq(ClusterIDs) : IsPrefix(s, clusters) => IsPrefix(s, clusters')

\* A step that leaves the provider alone does so.
LEMMA CloudStutters ==
  ASSUME CloudType, UNCHANGED cloudVars
  PROVE  ListGrows
  BY DEF cloudVars, CloudType, ListGrows

\* Sending a cluster, receiving it and appending it do so too.
LEMMA CloudGrows ==
  ASSUME CloudType,
         (\E id \in ClusterIDs : Send(id)) \/ ReceiveCluster \/ AppendCluster
  PROVE  ListGrows
<1>1. ASSUME NEW id \in ClusterIDs, Send(id)
      PROVE  CloudType' /\ clusters' = clusters
  BY <1>1 DEF CloudType, Send
<1>2. CASE ReceiveCluster
  <2>1. /\ addCluster[1] \in ClusterIDs
        /\ Tail(addCluster) \in Seq(ClusterIDs)
        /\ Head(addCluster) = addCluster[1]
    BY <1>2, TailFacts DEF CloudType, ReceiveCluster
  <2>2. CloudType' /\ clusters' = clusters
    BY <1>2, <2>1 DEF CloudType, ReceiveCluster
  <2> QED BY <2>2 DEF ListGrows
<1>3. CASE AppendCluster
  <2>1. /\ clusters \in Seq(ClusterIDs)
        /\ adding \in ClusterIDs
        /\ clusters' = Append(clusters, adding)
    BY <1>3 DEF CloudType, AppendCluster
  <2>2. CloudType'
    BY <1>3, <2>1 DEF CloudType, AppendCluster
  <2> QED BY <2>1, <2>2, PrefixGrows DEF ListGrows
<1> QED BY <1>1, <1>2, <1>3 DEF ListGrows

\* A status that was truthful stays so while the list grows.
LEMMA TruthfulKept ==
  ASSUME ListGrows, NEW v \in Versions, Truthful(v.status)
  PROVE  /\ IsPrefix(SeedClusters, v.status.services)
         /\ IsPrefix(v.status.services, clusters')
         /\ Truthful(v.status)'
<1>1. v.status.services \in Seq(ClusterIDs)
  BY DEF Versions, Statuses
<1>2. IsPrefix(v.status.services, clusters')
  BY <1>1 DEF ListGrows, Truthful
<1> QED
  <2> HIDE DEF IsPrefix
  <2> QED BY <1>2 DEF Truthful

-----------------------------------------------------------------------------
(* The steps of the environment.                                           *)

\* The worker's facts, and those about the inventories nobody looks at,
\* outlive what others do: whoever stores a version leaves a watch event,
\* and whoever takes an event or a retry queues its inventory.
LEMMA OthersKeepInv ==
  ASSUME IInv, Informer(Versions)', ListGrows,
         UNCHANGED <<pc, req, inventory>>,
         queue \subseteq queue', queue' \in SUBSET Keys,
         backoff \subseteq backoff' \cup queue', backoff' \in SUBSET Keys,
         notices' \in SUBSET Keys, budget' \in [BudgetKinds -> Nat],
         \A k \in Keys :
           \/ /\ server'[k] = server[k]
              /\ watch[k] # <<>> => watch'[k] # <<>> \/ k \in queue'
           \/ watch'[k] # <<>>
  PROVE  IInv'
<1> USE InvParts, InvPartsNext
<1> HIDE DEF IsPrefix
<1>1. WorkerType'
  BY DEF WorkerType
<1>2. SeedKept'
  BY SeedType DEF SeedKept, ListGrows
<1>3. pc # "idle" => req \in Keys
  BY DEF WorkerType
<1>4. StaleCopyIsNoticed'
  BY <1>3 DEF StaleCopyIsNoticed
<1>5. CopyIsTruthful'
  <2> SUFFICES ASSUME pc = "update"
               PROVE  Truthful(inventory.status)'
    BY DEF CopyIsTruthful, Truthful
  <2>1. inventory \in Versions /\ inventory' = inventory
    BY DEF WorkerType
  <2>2. Truthful(inventory.status)
    BY DEF CopyIsTruthful, Truthful
  <2> QED BY <2>1, <2>2, TruthfulKept DEF Truthful
<1>6. RestingIsTruthful'
  <2> SUFFICES ASSUME NEW k \in Keys, server'[k].live, AtRest(k)'
               PROVE  /\ server'[k].status.synced = "True"
                      /\ IsPrefix(SeedClusters, server'[k].status.services)
                      /\ IsPrefix(server'[k].status.services, clusters')
    BY DEF RestingIsTruthful
  <2>1. server'[k] = server[k] /\ AtRest(k)
    BY DEF AtRest
  <2>2. server[k] \in Versions
    BY DEF Informer, Typed
  <2>3. Truthful(server[k].status)
    BY <2>1 DEF RestingIsTruthful, Truthful
  <2> QED BY <2>1, <2>2, <2>3, TruthfulKept DEF Truthful
<1>7. CloudType'
  BY DEF ListGrows
<1> QED BY <1>1, <1>2, <1>4, <1>5, <1>6, <1>7

\* Users: create, edit, delete.
LEMMA UsersStep ==
  ASSUME IInv, NEW k \in Keys,
         CreateInventory(k) \/ EditInventory(k) \/ DeleteInventory(k)
  PROVE  IInv'
<1> USE InvParts
<1>1. server[k] \in Versions /\ server[k].rv \in Nat
  BY VersionNumber DEF Informer, Typed
<1>2. ASSUME NEW v \in Versions, v.rv = server[k].rv + 1, Store(k, v),
             NEW kind \in BudgetKinds, Spend(kind),
             UNCHANGED <<cloudVars, workVars, pc, req, inventory, notices>>
      PROVE  IInv'
  <2>1. /\ Informer(Versions)'
        /\ watch'[k] # <<>>
        /\ \A l \in Keys \ {k} : server'[l] = server[l] /\ watch'[l] = watch[l]
    BY <1>2, VersionNumber, StoreInforms
  <2>2. ListGrows
    BY <1>2, CloudStutters
  <2>3. budget' \in [BudgetKinds -> Nat]
    BY <1>2, SpendType DEF WorkerType
  <2>4. /\ queue' = queue /\ backoff' = backoff /\ notices' = notices
        /\ queue \in SUBSET Keys /\ backoff \in SUBSET Keys
        /\ notices \in SUBSET Keys
    BY <1>2 DEF workVars, WorkerType
  <2> QED BY <1>2, <2>1, <2>2, <2>3, <2>4, OthersKeepInv
<1>3. CASE CreateInventory(k)
  <2> DEFINE v == [Absent EXCEPT !.rv = server[k].rv + 1, !.live = TRUE]
  <2>1. server[k].rv + 1 \in Nat
    BY <1>1
  <2>2. v \in Versions /\ v.rv = server[k].rv + 1
    BY <2>1, CreatedType
  <2>3. /\ Store(k, v) /\ Spend("create")
        /\ UNCHANGED <<cloudVars, workVars, pc, req, inventory, notices>>
    BY <1>3 DEF CreateInventory
  <2> HIDE DEF v
  <2> QED BY <1>2, <2>2, <2>3 DEF BudgetKinds
<1>4. CASE EditInventory(k)
  BY <1>1, <1>2, <1>4, EditedType DEF EditInventory, BudgetKinds
<1>5. CASE DeleteInventory(k)
  <2> DEFINE v == [Absent EXCEPT !.rv = server[k].rv + 1]
  <2>1. server[k].rv + 1 \in Nat
    BY <1>1
  <2>2. v \in Versions /\ v.rv = server[k].rv + 1
    BY <2>1, CreatedType
  <2>3. /\ Store(k, v) /\ Spend("delete")
        /\ UNCHANGED <<cloudVars, workVars, pc, req, inventory, notices>>
    BY <1>5 DEF DeleteInventory
  <2> HIDE DEF v
  <2> QED BY <1>2, <2>2, <2>3 DEF BudgetKinds
<1> QED BY <1>3, <1>4, <1>5

\* The instance controller, and the provider's goroutine.
LEMMA ProviderStep ==
  ASSUME IInv,
         (\E name \in Names : MakeCluster(name)) \/ Receive \/ Add
  PROVE  IInv'
<1> USE InvParts
<1>1. /\ UNCHANGED <<apiVars, workVars, pc, req, inventory, notices>>
      /\ (\E id \in ClusterIDs : Send(id)) \/ ReceiveCluster \/ AppendCluster
      /\ Spend("make") \/ UNCHANGED budget
  BY DEF MakeCluster, Receive, Add, ClusterIDs, envVars
<1>2. ListGrows
  BY <1>1, CloudGrows
<1>3. Informer(Versions)' /\ UNCHANGED <<server, watch>>
  BY <1>1, InformerStutters DEF apiVars
<1>4. /\ queue' = queue /\ backoff' = backoff /\ notices' = notices
      /\ queue \in SUBSET Keys /\ backoff \in SUBSET Keys
      /\ notices \in SUBSET Keys
  BY <1>1 DEF workVars, WorkerType
<1>5. budget' \in [BudgetKinds -> Nat]
  BY <1>1, SpendType DEF WorkerType, BudgetKinds
<1> QED BY <1>1, <1>2, <1>3, <1>4, <1>5, OthersKeepInv

\* Events, resyncs and retries queue their inventory.
LEMMA QueueStep ==
  ASSUME IInv, NEW k \in Keys,
         InstanceChanges(k) \/ InstanceEvent(k) \/ Resync \/ Retry(k)
  PROVE  IInv'
<1> USE InvParts
<1>1. /\ UNCHANGED <<apiVars, cloudVars, pc, req, inventory, budget>>
      /\ queue \subseteq queue'
      /\ backoff \subseteq backoff' \cup queue'
      /\ queue' \in SUBSET Keys /\ backoff' \in SUBSET Keys
      /\ notices' \in SUBSET Keys
      /\ budget \in [BudgetKinds -> Nat]
  BY DEF InstanceChanges, InstanceEvent, Resync, Retry, WorkerType, workVars,
     envVars
<1>2. Informer(Versions)' /\ UNCHANGED <<server, watch>>
  BY <1>1, InformerStutters DEF apiVars
<1> QED BY <1>1, <1>2, CloudStutters, OthersKeepInv

\* A watch event updates the cache and queues its inventory.
LEMMA WatchEventStep ==
  ASSUME IInv, NEW k \in Keys, WatchEvent(k)
  PROVE  IInv'
<1> USE InvParts
<1>1. /\ Observe(k)
      /\ queue' = queue \cup {k}
      /\ UNCHANGED <<cloudVars, backoff, pc, req, inventory, notices, budget>>
  BY DEF WatchEvent, envVars
<1>2. /\ Informer(Versions)'
      /\ server' = server
      /\ \A l \in Keys \ {k} : watch'[l] = watch[l]
  BY <1>1, VersionNumber, ObserveInforms
<1>3. /\ queue' \in SUBSET Keys /\ backoff' \in SUBSET Keys
      /\ notices' \in SUBSET Keys
      /\ budget' \in [BudgetKinds -> Nat]
  BY <1>1 DEF WorkerType
<1>4. ListGrows
  BY <1>1, CloudStutters
<1> QED BY <1>1, <1>2, <1>3, <1>4, OthersKeepInv

\* A restart loses the provider's clusters, but every inventory that exists
\* is queued.
LEMMA RestartStep ==
  ASSUME IInv, Restart
  PROVE  IInv'
<1> USE InvParts, InvPartsNext DEF Restart
<1>1. Informer(Versions)' /\ server' = server
  BY VersionNumber, RelistInforms
<1>2. CloudType' /\ SeedKept'
  BY SeedType, PrefixElements DEF ResetCloud, CloudType, SeedKept
<1>3. budget' \in [BudgetKinds -> Nat]
  BY SpendType DEF WorkerType, BudgetKinds
<1>4. WorkerType'
  BY <1>3, AbsentType DEF WorkerType, Locations
<1>5. StaleCopyIsNoticed' /\ CopyIsTruthful'
  BY DEF StaleCopyIsNoticed, CopyIsTruthful
<1>6. RestingIsTruthful'
  BY <1>1 DEF RestingIsTruthful, AtRest
<1> QED BY <1>1, <1>2, <1>4, <1>5, <1>6

-----------------------------------------------------------------------------
(* The steps of Reconcile.                                                 *)

\* While the worker has an inventory in hand, the others are at rest or not
\* as they were.
LEMMA WorkerGoes ==
  ASSUME IInv, UNCHANGED <<apiVars, cloudVars, backoff, notices>>,
         NEW k \in Keys, req' = k, req \in {k, NoKey},
         queue' \in SUBSET Keys, queue \subseteq queue' \cup {k},
         pc' \in Locations \ {"idle"}, inventory' \in Versions,
         budget' \in [BudgetKinds -> Nat],
         StaleCopyIsNoticed', CopyIsTruthful'
  PROVE  IInv'
<1> USE InvParts, InvPartsNext
<1> HIDE DEF IsPrefix
<1>1. Informer(Versions)' /\ UNCHANGED <<server, watch>>
  BY InformerStutters DEF apiVars
<1>2. CloudType' /\ SeedKept' /\ clusters' = clusters
  BY DEF CloudType, SeedKept, cloudVars
<1>3. WorkerType'
  BY DEF WorkerType
<1>4. RestingIsTruthful'
  <2> SUFFICES ASSUME NEW l \in Keys, server'[l].live, AtRest(l)'
               PROVE  /\ server'[l].status.synced = "True"
                      /\ IsPrefix(SeedClusters, server'[l].status.services)
                      /\ IsPrefix(server'[l].status.services, clusters')
    BY DEF RestingIsTruthful
  <2>1. AtRest(l)
    BY <1>1, InventoryAssumption DEF AtRest
  <2> QED BY <1>1, <1>2, <2>1 DEF RestingIsTruthful
<1> QED BY <1>1, <1>2, <1>3, <1>4

\* When it lets go of one, that one is queued again, has an event on its way,
\* is gone, or is what it should be.
LEMMA WorkerEnds ==
  ASSUME IInv, NEW k \in Keys, req = k,
         Informer(Versions)',
         \A l \in Keys \ {k} : server'[l] = server[l] /\ watch'[l] = watch[l],
         UNCHANGED <<cloudVars, notices>>,
         budget' \in [BudgetKinds -> Nat],
         Return \/ ReturnRequeue,
         \/ ReturnRequeue
         \/ watch'[k] # <<>>
         \/ k \in queue
         \/ ~server'[k].live
         \/ Truthful(server'[k].status)
  PROVE  IInv'
<1> USE InvParts, InvPartsNext
<1> HIDE DEF IsPrefix
<1>1. /\ queue' = queue
      /\ backoff \subseteq backoff'
      /\ backoff' \in SUBSET Keys
      /\ pc' = "idle" /\ req' = NoKey /\ inventory' = Absent
      /\ ReturnRequeue => k \in backoff'
  BY DEF Return, ReturnRequeue, workVars, WorkerType
<1>2. CloudType' /\ SeedKept' /\ clusters' = clusters
  BY DEF CloudType, SeedKept, cloudVars
<1>3. WorkerType'
  BY <1>1, AbsentType DEF WorkerType, Locations
<1>4. StaleCopyIsNoticed' /\ CopyIsTruthful'
  BY <1>1 DEF StaleCopyIsNoticed, CopyIsTruthful
<1>5. RestingIsTruthful'
  <2> SUFFICES ASSUME NEW l \in Keys, server'[l].live, AtRest(l)'
               PROVE  /\ server'[l].status.synced = "True"
                      /\ IsPrefix(SeedClusters, server'[l].status.services)
                      /\ IsPrefix(server'[l].status.services, clusters')
    BY DEF RestingIsTruthful
  <2>1. CASE l = k
    BY <1>1, <1>2, <2>1 DEF AtRest, Truthful
  <2>2. CASE l # k
    <3>1. server'[l] = server[l] /\ AtRest(l)
      BY <1>1, <2>2 DEF AtRest
    <3> QED BY <1>2, <3>1 DEF RestingIsTruthful
  <2> QED BY <2>1, <2>2
<1> QED BY <1>2, <1>3, <1>4, <1>5

\* The worker takes a request.
LEMMA DequeueStep ==
  ASSUME IInv, NEW k \in Keys, Dequeue(k)
  PROVE  IInv'
<1> USE InvParts
<1>1. /\ UNCHANGED <<apiVars, cloudVars, backoff, notices, budget, inventory>>
      /\ pc = "idle" /\ pc' = "getInventory"
      /\ req' = k
      /\ queue' = queue \ {k}
  BY DEF Dequeue, envVars
<1>2. /\ req = NoKey
      /\ queue' \in SUBSET Keys
      /\ inventory' \in Versions
      /\ budget' \in [BudgetKinds -> Nat]
      /\ pc' \in Locations \ {"idle"}
  BY <1>1 DEF WorkerType, Locations
<1>3. StaleCopyIsNoticed' /\ CopyIsTruthful'
  BY <1>1 DEF StaleCopyIsNoticed, CopyIsTruthful
<1> QED BY <1>1, <1>2, <1>3, WorkerGoes

\* The cached inventory is taken for the server's; if it is not, an event is
\* on its way.
LEMMA GetInventoryStep ==
  ASSUME IInv, GetInventory
  PROVE  IInv'
<1> USE InvParts
<1>0. PICK k \in Keys : k = req
  BY DEF GetInventory, WorkerType
<1>1. /\ UNCHANGED <<apiVars, cloudVars, notices>>
      /\ pc = "getInventory"
  BY DEF GetInventory
<1>2. Informer(Versions)' /\ UNCHANGED <<server, watch>>
  BY <1>1, InformerStutters DEF apiVars
<1>3. watch[k] = <<>> => cache[k] = server[k]
  BY DEF Informer, InformerCatchesUp
<1>4. budget \in [BudgetKinds -> Nat]
  BY DEF WorkerType
<1>5. CASE ~cache[k].live /\ Return /\ UNCHANGED budget
  BY <1>0, <1>1, <1>2, <1>3, <1>4, <1>5, WorkerEnds
<1>6. CASE Goto("discover", cache[k]) /\ UNCHANGED budget
  <2>1. /\ pc' = "discover" /\ req' = k /\ inventory' = cache[k]
        /\ queue' = queue /\ backoff' = backoff
        /\ cache[k] \in Versions /\ queue \in SUBSET Keys
    BY <1>0, <1>6 DEF Goto, workVars, Informer, Typed, WorkerType
  <2>2. StaleCopyIsNoticed'
    BY <1>2, <1>3, <2>1 DEF StaleCopyIsNoticed
  <2>3. CopyIsTruthful'
    BY <2>1 DEF CopyIsTruthful
  <2>4. pc' \in Locations \ {"idle"}
    BY <2>1 DEF Locations
  <2> QED BY <1>0, <1>1, <1>4, <1>6, <2>1, <2>2, <2>3, <2>4, WorkerGoes
<1>7. CASE Spend("fault") /\ ReturnRequeue
  <2>1. budget' \in [BudgetKinds -> Nat]
    BY <1>4, <1>7, SpendType DEF BudgetKinds
  <2> QED BY <1>0, <1>1, <1>2, <1>7, <2>1, WorkerEnds
<1> QED BY <1>0, <1>5, <1>6, <1>7 DEF GetInventory

\* The copy is given the provider's list.
LEMMA DiscoverStep ==
  ASSUME IInv, Discover
  PROVE  IInv'
<1> USE InvParts
<1> HIDE DEF IsPrefix
<1> DEFINE w == [inventory EXCEPT !.status.services = clusters,
                                  !.status.synced = "True"]
<1>0. PICK k \in Keys : k = req
  BY DEF Discover, WorkerType
<1>1. /\ UNCHANGED <<apiVars, cloudVars, notices, budget, queue, backoff>>
      /\ pc = "discover" /\ pc' = "update" /\ req' = k
      /\ inventory' = w
      /\ queue \in SUBSET Keys
      /\ budget \in [BudgetKinds -> Nat]
      /\ inventory \in Versions
      /\ clusters \in Seq(ClusterIDs)
  BY <1>0 DEF Discover, Goto, workVars, envVars, WorkerType, CloudType
<1>2. /\ w \in Versions
      /\ w.rv = inventory.rv
      /\ w.status.services = clusters
      /\ w.status.synced = "True"
  BY <1>1, ListedType
<1> HIDE DEF w
<1>3. UNCHANGED <<server, watch, clusters>>
  BY <1>1 DEF apiVars, cloudVars
<1>4. StaleCopyIsNoticed'
  BY <1>0, <1>1, <1>2, <1>3 DEF StaleCopyIsNoticed
<1>5. IsPrefix(clusters, clusters)
  BY <1>1, PrefixElements
<1>6. CopyIsTruthful'
  BY <1>1, <1>2, <1>3, <1>5 DEF CopyIsTruthful, SeedKept
<1>7. pc' \in Locations \ {"idle"}
  BY <1>1 DEF Locations
<1> QED BY <1>0, <1>1, <1>2, <1>4, <1>6, <1>7, WorkerGoes

\* The update is stored, or refused, or fails.
LEMMA UpdateInventoryStatusStep ==
  ASSUME IInv, UpdateInventoryStatus
  PROVE  IInv'
<1> USE InvParts
<1> HIDE DEF IsPrefix
<1>0. PICK k \in Keys : k = req
  BY DEF UpdateInventoryStatus, WorkerType
<1>1. /\ UNCHANGED <<cloudVars, notices>>
      /\ pc = "update"
  BY DEF UpdateInventoryStatus
<1>2. /\ budget \in [BudgetKinds -> Nat]
      /\ inventory \in Versions
      /\ server[k] \in Versions
  BY DEF WorkerType, Informer, Typed
<1>3. Spend("fault") \/ UNCHANGED budget => budget' \in [BudgetKinds -> Nat]
  BY <1>2, SpendType DEF BudgetKinds
<1>4. ASSUME StoreStatus(k, inventory)
      PROVE  /\ Informer(Versions)'
             /\ server'[k].status = inventory.status
             /\ \A l \in Keys \ {k} : server'[l] = server[l] /\ watch'[l] = watch[l]
  <2> DEFINE w == [server[k] EXCEPT !.rv = @ + 1, !.status = inventory.status]
  <2>1. inventory.status \in Statuses
    BY <1>2 DEF Versions
  <2>2. /\ w \in Versions
        /\ w.rv = server[k].rv + 1
        /\ w.live = server[k].live
        /\ w.status = inventory.status
    BY <1>2, <2>1, NewStatusType
  <2>3. \/ Store(k, w)
        \/ inventory.status = server[k].status /\ UNCHANGED apiVars
    BY <1>4 DEF StoreStatus
  <2> HIDE DEF w
  <2> QED BY <2>2, <2>3, VersionNumber, StatusInforms
<1>5. CASE StoreStatus(k, inventory) /\ Return /\ UNCHANGED budget
  <2>1. Truthful(server'[k].status)
    BY <1>1, <1>4, <1>5 DEF CopyIsTruthful, Truthful
  <2>2. clusters' = clusters
    BY <1>1 DEF cloudVars
  <2> QED BY <1>0, <1>1, <1>3, <1>4, <1>5, <2>1, WorkerEnds
<1>6. CASE Conflict(k, inventory) /\ Return /\ UNCHANGED <<apiVars, budget>>
  <2>1. Informer(Versions)' /\ UNCHANGED <<server, watch>>
    BY <1>6, InformerStutters DEF apiVars
  <2>2. watch[k] # <<>> \/ k \in queue
    BY <1>0, <1>1, <1>6 DEF StaleCopyIsNoticed, Conflict
  <2> QED BY <1>0, <1>1, <1>3, <1>6, <2>1, <2>2, WorkerEnds
<1>7. CASE /\ ReturnRequeue
           /\ StoreStatus(k, inventory) \/ UNCHANGED apiVars
           /\ Spend("fault") \/ UNCHANGED budget
  <2>1. /\ Informer(Versions)'
        /\ \A l \in Keys \ {k} : server'[l] = server[l] /\ watch'[l] = watch[l]
    BY <1>4, <1>7, InformerStutters DEF apiVars
  <2> QED BY <1>0, <1>1, <1>3, <1>7, <2>1, WorkerEnds
<1> QED BY <1>0, <1>5, <1>6, <1>7 DEF UpdateInventoryStatus

-----------------------------------------------------------------------------
(* The theorems.                                                           *)

\* A step that changes nothing keeps the invariant.
LEMMA StutterKeepsInv ==
  ASSUME IInv, UNCHANGED vars
  PROVE  IInv'
<1> USE InvParts
<1>1. /\ UNCHANGED <<apiVars, cloudVars, pc, req, inventory>>
      /\ queue' = queue /\ backoff' = backoff /\ notices' = notices
      /\ budget' = budget
      /\ queue \in SUBSET Keys /\ backoff \in SUBSET Keys
      /\ notices \in SUBSET Keys /\ budget \in [BudgetKinds -> Nat]
  BY DEF vars, workVars, envVars, WorkerType
<1>2. Informer(Versions)' /\ UNCHANGED <<server, watch>>
  BY <1>1, InformerStutters DEF apiVars
<1> QED BY <1>1, <1>2, CloudStutters, OthersKeepInv

\* The operator starts with no inventory, an empty queue and the seeded list.
LEMMA InitInv == Init => IInv
<1> SUFFICES ASSUME Init PROVE IInv
  OBVIOUS
<1> USE DEF Init
<1>1. Informer(Versions)
  <2> HIDE DEF Init
  <2>0. /\ server = [k \in Keys |-> Absent]
        /\ cache = server
        /\ watch = [k \in Keys |-> <<>>]
    BY DEF Init
  <2>1. Typed(Versions)
    BY <2>0, AbsentType DEF Typed
  <2>2. InformerCatchesUp
    BY <2>0 DEF InformerCatchesUp
  <2>3. \A k \in Keys : Informed(k) = {server[k]}
    <3>1. \A k \in Keys : cache[k] = server[k] /\ watch[k] = <<>>
      BY <2>0
    <3>2. \A k \in Keys : {watch[k][i] : i \in 1..Len(watch[k])} = {}
      <4>1. 1..0 = {}
        OBVIOUS
      <4> QED BY <3>1, <4>1
    <3> QED BY <3>1, <3>2 DEF Informed
  <2>4. \A k \in Keys : server[k].rv <= server[k].rv
    BY <2>0, 0 <= 0 DEF Absent
  <2>5. VersionsOrdered
    BY <2>3, <2>4 DEF VersionsOrdered
  <2> QED BY <2>1, <2>2, <2>5 DEF Informer
<1>2. CloudType /\ SeedKept
  BY SeedType, PrefixElements DEF CloudType, InitCloud, SeedKept
<1>3. WorkerType
  BY AbsentType, InventoryAssumption DEF WorkerType, Locations
<1>4. StaleCopyIsNoticed /\ CopyIsTruthful
  BY DEF StaleCopyIsNoticed, CopyIsTruthful
<1>5. RestingIsTruthful
  BY DEF RestingIsTruthful, Absent
<1> QED BY <1>1, <1>2, <1>3, <1>4, <1>5, InvParts

\* Every step of the users, the environment and the worker keeps the
\* invariant.
LEMMA NextKeepsInv == IInv /\ [Next]_vars => IInv'
<1> SUFFICES ASSUME IInv, [Next]_vars PROVE IInv'
  OBVIOUS
<1>1. CASE \E k \in Keys :
             CreateInventory(k) \/ EditInventory(k) \/ DeleteInventory(k)
  BY <1>1, UsersStep
<1>2. CASE (\E name \in Names : MakeCluster(name)) \/ Receive \/ Add
  BY <1>2, ProviderStep
<1>3. CASE Restart
  BY <1>3, RestartStep
<1>4. CASE \E k \in Keys : WatchEvent(k)
  BY <1>4, WatchEventStep
<1>5. CASE \E k \in Keys : InstanceChanges(k) \/ InstanceEvent(k) \/ Retry(k)
  BY <1>5, QueueStep
<1>6. CASE Resync
  <2>1. CASE Keys = {}
    <3>1. UNCHANGED vars
      BY <1>6, <2>1, InvParts
      DEF Resync, vars, workVars, envVars, WorkerType
    <3> QED BY <3>1, StutterKeepsInv
  <2> QED BY <1>6, <2>1, QueueStep
<1>7. CASE \E k \in Keys : Dequeue(k)
  BY <1>7, DequeueStep
<1>8. CASE Reconcile
  BY <1>8, GetInventoryStep, DiscoverStep, UpdateInventoryStatusStep
  DEF Reconcile
<1>9. CASE UNCHANGED vars
  BY <1>9, StutterKeepsInv
<1> QED
  BY <1>1, <1>2, <1>3, <1>4, <1>5, <1>6, <1>7, <1>8, <1>9 DEF Next

(* The invariant holds in every reachable state.                           *)
THEOREM Invariance == Spec => []IInv
  BY InitInv, NextKeepsInv, PTL DEF Spec

(* updateInventoryStatus never forgets an inventory it has not brought up  *)
(* to date: one nobody is about to look at is synced, and what it lists is *)
(* what the provider had, in order, since the process started.             *)
THEOREM ListsAreTruthful == Spec => []RestingIsTruthful
<1>1. IInv => RestingIsTruthful
  BY DEF IInv
<1> QED BY <1>1, Invariance, PTL

=============================================================================
