----------------------- MODULE InstanceControllerProofs -----------------------
(***************************************************************************)
(* Proofs about InstanceController, for any instances, names, channel      *)
(* capacity and budget.  The argument is the inductive invariant IInv of   *)
(* that module.  The lemmas go from the outside in: what the API machinery *)
(* and the provider's list preserve, what the worker's copy may hold, then *)
(* one lemma per action of Next.                                           *)
(***************************************************************************)
EXTENDS InstanceController, KubeApiProofs

-----------------------------------------------------------------------------
(* Values.                                                                 *)

\* No cluster has the empty Id, so an empty status.instanceID means none.
LEMMA NoIDFresh == \A id \in ClusterIDs : id # NoID
  BY DEF ClusterIDs, NoID, ClusterID, SeedClusters

\* The list a process starts from is a list of three clusters.
LEMMA SeedType == SeedClusters \in Seq(ClusterIDs) /\ Len(SeedClusters) = 3
  BY DEF ClusterIDs, SeedClusters

\* A deleted object is still a version, with its own resource version.
LEMMA AbsentType == Absent \in Versions
  BY DEF Absent, Versions, NoStatus, NoName, NameParams, Statuses,
         NoCondition, Conditions

\* The version an accepted status update stores.
LEMMA NewStatusType ==
  ASSUME NEW v \in Versions, NEW s \in Statuses
  PROVE  LET w == [v EXCEPT !.rv = @ + 1, !.status = s]
         IN  /\ w \in Versions
             /\ w.rv = v.rv + 1
             /\ w.live = v.live
             /\ w.status = s
<1> DEFINE a == [v EXCEPT !.rv = v.rv + 1]
           w == [a EXCEPT !.status = s]
<1>1. a \in Versions /\ a.rv = v.rv + 1 /\ a.live = v.live
  BY DEF Versions
<1>2. w \in Versions /\ w.rv = a.rv /\ w.live = a.live /\ w.status = s
  <2> HIDE DEF a
  <2> QED BY <1>1 DEF Versions
<1> QED BY <1>1, <1>2

\* The version an edit stores.
LEMMA NewNameType ==
  ASSUME NEW v \in Versions, NEW n \in NameParams
  PROVE  LET w == [v EXCEPT !.rv = @ + 1, !.name = n]
         IN  w \in Versions /\ w.rv = v.rv + 1
<1> DEFINE a == [v EXCEPT !.rv = v.rv + 1]
           w == [a EXCEPT !.name = n]
<1>1. a \in Versions /\ a.rv = v.rv + 1
  BY DEF Versions
<1>2. w \in Versions /\ w.rv = a.rv
  <2> HIDE DEF a
  <2> QED BY <1>1 DEF Versions
<1> QED BY <1>1, <1>2

\* What the worker does to its copy leaves a version a version.
LEMMA PhaseType ==
  ASSUME NEW v \in Versions,
         NEW p \in {"", "Unknown", "Pending", "Creating", "Ready"}
  PROVE  /\ [v EXCEPT !.status.phase = p] \in Versions
         /\ [v EXCEPT !.status.phase = p].rv = v.rv
         /\ [v EXCEPT !.status.phase = p].name = v.name
         /\ [v EXCEPT !.status.phase = p].status.id = v.status.id
         /\ [v EXCEPT !.status.phase = p].status.phase = p
  BY DEF Versions, Statuses

\* setInstancePhaseAndDetailStatus makes a Ready version that carries
\* the cluster's Id.
LEMMA DetailedType ==
  ASSUME NEW v \in Versions, NEW id \in ClusterIDs
  PROVE  /\ Detailed(v, id) \in Versions
         /\ Detailed(v, id).rv = v.rv
         /\ Detailed(v, id).status.id = id
         /\ Detailed(v, id).status.phase = "Ready"
  BY DEF Versions, Statuses, Detailed

\* Setting the condition changes neither the version nor the status Id.
LEMMA WithConditionType ==
  ASSUME NEW v \in Versions, NEW s, NEW r, NEW m,
         [status |-> s, reason |-> r, msg |-> m] \in Conditions
  PROVE  /\ WithCondition(v, s, r, m) \in Versions
         /\ WithCondition(v, s, r, m).rv = v.rv
         /\ WithCondition(v, s, r, m).status.id = v.status.id
         /\ WithCondition(v, s, r, m).status.phase = v.status.phase
  BY DEF Versions, Statuses, WithCondition

-----------------------------------------------------------------------------
(* The API server and the informer.                                        *)

\* Versions of instances are numbered.
LEMMA VersionNumber == \A v \in Versions : v.rv \in Nat
  BY DEF Versions

\* An accepted status update stores the copy's status; it is a new version,
\* or nothing happens at all.
LEMMA StatusStored ==
  ASSUME Informer(Versions), NEW k \in Keys, NEW v \in Versions, StoreStatus(k, v)
  PROVE  /\ Informer(Versions)'
         /\ server'[k].status = v.status
         /\ server'[k].live = server[k].live
         /\ \/ server' = server /\ watch' = watch
            \/ /\ watch'[k] # <<>>
               /\ server'[k].rv = server[k].rv + 1
         /\ \A l \in Keys \ {k} : server'[l] = server[l] /\ watch'[l] = watch[l]
<1> DEFINE w == [server[k] EXCEPT !.rv = @ + 1, !.status = v.status]
<1>1. server[k] \in Versions /\ v.status \in Statuses
  BY DEF Informer, Typed, Versions
<1>2. /\ w \in Versions
      /\ w.rv = server[k].rv + 1
      /\ w.status = v.status
      /\ w.live = server[k].live
  BY <1>1, NewStatusType
<1>3. Store(k, w) \/ (v.status = server[k].status /\ UNCHANGED apiVars)
  BY DEF StoreStatus
<1> HIDE DEF w
<1> QED
  BY <1>2, <1>3, VersionNumber, StatusInforms

-----------------------------------------------------------------------------
(* The provider's list of clusters.                                        *)

CloudType ==
  /\ addCluster \in Seq(ClusterIDs)
  /\ adding \in ClusterIDs \cup {NoID}
  /\ clusters \in Seq(ClusterIDs)

\* The channel and the goroutine pass every cluster on.
LEMMA SendHolds ==
  ASSUME CloudType, NEW id \in ClusterIDs, Send(id)
  PROVE  /\ CloudType'
         /\ Held(id)'
         /\ \A i \in ClusterIDs : Held(i) => Held(i)'
<1>1. /\ addCluster \in Seq(ClusterIDs)
      /\ addCluster' = Append(addCluster, id)
      /\ adding' = adding
      /\ clusters' = clusters
  BY DEF CloudType, Send
<1>2. /\ Len(addCluster') = Len(addCluster) + 1
      /\ addCluster'[Len(addCluster) + 1] = id
      /\ \A i \in 1..Len(addCluster) : addCluster'[i] = addCluster[i]
      /\ Len(addCluster) \in Nat
  BY <1>1
<1>3. CloudType'
  BY <1>1 DEF CloudType
<1> QED
  BY <1>1, <1>2, <1>3 DEF Held, Listed

\* A cluster taken off the channel is in the goroutine's hands.
LEMMA ReceiveHolds ==
  ASSUME CloudType, ReceiveCluster
  PROVE  CloudType' /\ \A i \in ClusterIDs : Held(i) => Held(i)'
<1>1. /\ addCluster \in Seq(ClusterIDs)
      /\ addCluster # <<>>
      /\ adding = NoID
      /\ adding' = addCluster[1]
      /\ addCluster' = Tail(addCluster)
      /\ clusters' = clusters
  BY DEF CloudType, ReceiveCluster
<1>2. /\ Len(addCluster) \in Nat \ {0}
      /\ Len(addCluster') = Len(addCluster) - 1
      /\ \A i \in 1..Len(addCluster') : addCluster'[i] = addCluster[i + 1]
      /\ addCluster[1] \in ClusterIDs
      /\ addCluster' \in Seq(ClusterIDs)
  BY <1>1, TailFacts
<1>3. ASSUME NEW id \in ClusterIDs, Held(id)
      PROVE  Held(id)'
  <2>1. CASE Listed(id)
    BY <1>1, <2>1 DEF Held, Listed
  <2>2. CASE adding = id
    BY <1>1, <2>2, NoIDFresh
  <2>3. CASE \E i \in 1..Len(addCluster) : addCluster[i] = id
    <3>1. PICK i \in 1..Len(addCluster) : addCluster[i] = id
      BY <2>3
    <3>2. CASE i = 1
      BY <1>1, <3>1, <3>2 DEF Held
    <3>3. CASE i # 1
      <4>1. i - 1 \in 1..Len(addCluster') /\ addCluster'[i - 1] = id
        BY <1>2, <3>1, <3>3
      <4> QED BY <4>1 DEF Held
    <3> QED BY <3>2, <3>3
  <2> QED BY <1>3, <2>1, <2>2, <2>3 DEF Held
<1> QED
  BY <1>1, <1>2, <1>3 DEF CloudType

\* A cluster leaves the goroutine's hands for the list.
LEMMA AppendHolds ==
  ASSUME CloudType, AppendCluster
  PROVE  CloudType' /\ \A i \in ClusterIDs : Held(i) => Held(i)'
<1>1. /\ clusters \in Seq(ClusterIDs)
      /\ adding \in ClusterIDs
      /\ clusters' = Append(clusters, adding)
      /\ adding' = NoID
      /\ addCluster' = addCluster
  BY DEF CloudType, AppendCluster
<1>2. /\ Len(clusters) \in Nat
      /\ Len(clusters') = Len(clusters) + 1
      /\ clusters'[Len(clusters) + 1] = adding
      /\ \A i \in 1..Len(clusters) : clusters'[i] = clusters[i]
      /\ clusters' \in Seq(ClusterIDs)
  BY <1>1
<1> QED
  BY <1>1, <1>2 DEF CloudType, Held, Listed

-----------------------------------------------------------------------------
(* The invariant, part by part.                                            *)

WorkerType ==
  /\ queue   \in SUBSET Keys
  /\ backoff \in SUBSET Keys
  /\ pc \in Locations
  /\ req \in IF pc = "idle" THEN {NoKey} ELSE Keys
  /\ instance \in Versions
  /\ inventoryCached \in BOOLEAN
  /\ budget \in [BudgetKinds -> Nat]

\* The type invariant is that of the three parts of the state.
LEMMA TypeParts == TypeOK <=> Typed(Versions) /\ CloudType /\ WorkerType
  BY DEF TypeOK, Typed, CloudType, WorkerType

\* The parts of the inductive invariant, grouped by the state they speak of.
LEMMA InvParts ==
  IInv <=> /\ Informer(Versions)
           /\ CloudType
           /\ WorkerType
           /\ CopyKeepsID
           /\ StaleCopyIsNoticed
           /\ BranchTaken
           /\ RestingIsProvisioned
  BY TypeParts DEF IInv, Informer

\* The parts of the invariant after a step make the invariant after it.
LEMMA InvPartsNext ==
  ASSUME Informer(Versions)', CloudType', WorkerType', CopyKeepsID', StaleCopyIsNoticed',
         BranchTaken', RestingIsProvisioned'
  PROVE  IInv'
  BY DEF IInv, TypeOK, Informer, Typed, CloudType, WorkerType

\* A step that leaves the provider alone loses no cluster.
LEMMA CloudStutters ==
  ASSUME UNCHANGED cloudVars
  PROVE  /\ CloudType => CloudType'
         /\ \A id \in ClusterIDs : Held(id) => Held(id)'
  BY DEF cloudVars, CloudType, Held, Listed

\* A bound that is used up is still a bound.
LEMMA SpendType ==
  ASSUME budget \in [BudgetKinds -> Nat], NEW kind \in BudgetKinds, Spend(kind)
  PROVE  budget' \in [BudgetKinds -> Nat]
  BY DEF Spend

\* An instance that comes to rest has not changed, or is Ready.
LEMMA RestingKept ==
  ASSUME Informer(Versions), RestingIsProvisioned,
         \A id \in ClusterIDs : Held(id) => Held(id)',
         \A k \in Keys : server'[k].live /\ AtRest(k)' =>
           (server'[k] = server[k] /\ AtRest(k)) \/ Backed(k)'
  PROVE  RestingIsProvisioned'
<1> SUFFICES ASSUME NEW k \in Keys, server'[k].live, AtRest(k)'
             PROVE  Backed(k)'
  BY DEF RestingIsProvisioned
<1>1. CASE Backed(k)'
  BY <1>1
<1>2. CASE server'[k] = server[k] /\ AtRest(k)
  <2>1. Backed(k)
    BY <1>2 DEF RestingIsProvisioned
  <2>2. server[k].status.id \in ClusterIDs
    BY <2>1 DEF Informer, Typed, Versions, Statuses, Backed
  <2> QED BY <1>2, <2>1, <2>2 DEF Backed
<1> QED BY <1>1, <1>2

\* The worker's facts outlive what others do to the instances and the queue.
LEMMA WorkerWaits ==
  ASSUME IInv, Informer(Versions)', UNCHANGED <<pc, req, instance>>,
         queue \subseteq queue', queue' \in SUBSET Keys,
         backoff' \in SUBSET Keys,
         inventoryCached' \in BOOLEAN, budget' \in [BudgetKinds -> Nat],
         CloudType', \A id \in ClusterIDs : Held(id) => Held(id)',
         \A k \in Keys :
           \/ /\ server'[k] = server[k]
              /\ watch[k] # <<>> => watch'[k] # <<>> \/ k \in queue'
           \/ /\ server'[k].rv > server[k].rv
              /\ watch'[k] # <<>>,
         RestingIsProvisioned'
  PROVE  IInv'
<1> USE InvParts, InvPartsNext
<1>1. WorkerType'
  BY DEF WorkerType
<1>2. /\ Working' <=> Working
      /\ Working => req \in Keys
      /\ instance.rv \in Nat
      /\ \A k \in Keys : server[k].rv \in Nat /\ server'[k].rv \in Nat
      /\ instance.status.id # NoID => instance.status.id \in ClusterIDs
  BY DEF Working, WorkerType, Informer, Typed, Versions, Statuses
<1>3. BranchTaken'
  BY <1>2 DEF BranchTaken
<1>4. CASE ~Working
  BY <1>1, <1>2, <1>3, <1>4 DEF CopyKeepsID, StaleCopyIsNoticed
<1>5. CASE Working /\ server'[req] = server[req]
  <2>1. CopyKeepsID'
    BY <1>2, <1>5 DEF CopyKeepsID
  <2>2. watch[req] # <<>> => watch'[req] # <<>> \/ req \in queue'
    BY <1>2, <1>5
  <2>3. StaleCopyIsNoticed'
    BY <1>2, <1>5, <2>2 DEF StaleCopyIsNoticed
  <2> QED BY <1>1, <1>3, <2>1, <2>3
<1>6. CASE Working /\ server'[req].rv > server[req].rv /\ watch'[req] # <<>>
  <2>1. instance.rv <= server[req].rv
    BY <1>6 DEF CopyKeepsID
  <2>2. instance.rv < server'[req].rv
    BY <1>2, <1>6, <2>1
  <2>3. CopyKeepsID'
    BY <1>2, <2>2 DEF CopyKeepsID
  <2>4. StaleCopyIsNoticed'
    BY <1>6 DEF StaleCopyIsNoticed
  <2> QED BY <1>1, <1>3, <2>3, <2>4
<1> QED BY <1>2, <1>4, <1>5, <1>6

-----------------------------------------------------------------------------
(* The steps of the environment.                                           *)

\* Users: create, edit, delete.
LEMMA UserStores ==
  ASSUME IInv, NEW k \in Keys, NEW v \in Versions,
         v.rv = server[k].rv + 1, Store(k, v),
         UNCHANGED <<cloudVars, workVars, pc, req, instance, inventoryCached>>,
         budget' \in [BudgetKinds -> Nat]
  PROVE  IInv'
<1> USE InvParts
<1>1. /\ Informer(Versions)'
      /\ server'[k] = v
      /\ watch'[k] # <<>>
      /\ \A l \in Keys \ {k} : server'[l] = server[l] /\ watch'[l] = watch[l]
  BY StoreInforms, VersionNumber
<1>2. CloudType' /\ \A id \in ClusterIDs : Held(id) => Held(id)'
  BY CloudStutters
<1>3. server[k].rv \in Nat /\ server'[k].rv > server[k].rv
  BY <1>1 DEF Informer, Typed, Versions
<1>4. \A l \in Keys : server'[l].live /\ AtRest(l)' =>
        server'[l] = server[l] /\ AtRest(l)
  BY <1>1 DEF AtRest, workVars
<1>5. RestingIsProvisioned'
  BY <1>2, <1>4, RestingKept
<1>6. /\ queue \subseteq queue' /\ queue' \in SUBSET Keys
      /\ backoff' \in SUBSET Keys /\ inventoryCached' \in BOOLEAN
  BY DEF workVars, WorkerType
<1> QED
  BY <1>1, <1>2, <1>3, <1>5, <1>6, WorkerWaits

\* A user creates an instance: a new version with an empty status.
LEMMA CreateInstanceStep ==
  ASSUME IInv, NEW k \in Keys, NEW name \in NameParams, CreateInstance(k, name)
  PROVE  IInv'
<1> DEFINE v == [rv |-> server[k].rv + 1, live |-> TRUE, name |-> name,
                 status |-> NoStatus]
<1>1. server[k].rv \in Nat
  BY InvParts DEF Informer, Typed, Versions
<1>2. v \in Versions
  BY <1>1, AbsentType DEF Versions, Absent
<1>3. v.rv = server[k].rv + 1
  OBVIOUS
<1>4. Store(k, v)
  BY DEF CreateInstance
<1>5. budget' \in [BudgetKinds -> Nat]
  BY InvParts, SpendType DEF CreateInstance, WorkerType, BudgetKinds
<1>6. UNCHANGED <<cloudVars, workVars, pc, req, instance, inventoryCached>>
  BY DEF CreateInstance
<1> HIDE DEF v
<1> QED BY <1>2, <1>3, <1>4, <1>5, <1>6, UserStores

\* A user renames an instance: a new version with the old one's status.
LEMMA EditInstanceStep ==
  ASSUME IInv, NEW k \in Keys, NEW name \in NameParams, EditInstance(k, name)
  PROVE  IInv'
<1> DEFINE v == [server[k] EXCEPT !.rv = @ + 1, !.name = name]
<1>1. server[k] \in Versions
  BY InvParts DEF Informer, Typed
<1>2. v \in Versions /\ v.rv = server[k].rv + 1
  BY <1>1, NewNameType
<1>3. Store(k, v)
  BY DEF EditInstance
<1>4. budget' \in [BudgetKinds -> Nat]
  BY InvParts, SpendType DEF EditInstance, WorkerType, BudgetKinds
<1>5. UNCHANGED <<cloudVars, workVars, pc, req, instance, inventoryCached>>
  BY DEF EditInstance
<1> HIDE DEF v
<1> QED BY <1>2, <1>3, <1>4, <1>5, UserStores

\* A user deletes an instance, whatever the worker is doing with it.
LEMMA DeleteInstanceStep ==
  ASSUME IInv, NEW k \in Keys, DeleteInstance(k)
  PROVE  IInv'
<1> DEFINE v == [Absent EXCEPT !.rv = server[k].rv + 1]
<1>1. server[k].rv \in Nat
  BY InvParts DEF Informer, Typed, Versions
<1>2. v \in Versions /\ v.rv = server[k].rv + 1
  BY <1>1, AbsentType DEF Versions
<1>3. Store(k, v)
  BY DEF DeleteInstance
<1>4. /\ budget' \in [BudgetKinds -> Nat]
      /\ UNCHANGED <<cloudVars, workVars, pc, req, instance, inventoryCached>>
  BY InvParts, SpendType DEF DeleteInstance, WorkerType, BudgetKinds
<1> HIDE DEF v
<1> QED BY <1>2, <1>3, <1>4, UserStores

\* The inventory enters or leaves the cache.
LEMMA InventoryStep ==
  ASSUME IInv, InventoryChanges
  PROVE  IInv'
<1> USE InvParts DEF InventoryChanges
<1>1. Informer(Versions)'
  BY InformerStutters
<1>2. CloudType' /\ \A id \in ClusterIDs : Held(id) => Held(id)'
  BY CloudStutters
<1>3. /\ budget' \in [BudgetKinds -> Nat]
      /\ inventoryCached' \in BOOLEAN
      /\ queue' \in SUBSET Keys /\ backoff' \in SUBSET Keys
  BY SpendType DEF WorkerType, BudgetKinds, workVars
<1>4. UNCHANGED <<server, watch, queue, backoff, pc, req, instance>>
  BY DEF apiVars, workVars
<1>5. RestingIsProvisioned'
  BY <1>2, <1>4, RestingKept DEF AtRest
<1> QED BY <1>1, <1>2, <1>3, <1>4, <1>5, WorkerWaits

\* The process starts anew: whatever was forgotten is enqueued.
LEMMA RestartStep ==
  ASSUME IInv, Restart
  PROVE  IInv'
<1> USE InvParts DEF Restart
<1>1. Informer(Versions)' /\ server' = server
  BY RelistInforms, VersionNumber
<1>2. CloudType'
  BY SeedType DEF CloudType, ResetCloud
<1>3. WorkerType'
  BY <1>1, AbsentType, SpendType DEF WorkerType, Locations, BudgetKinds
<1>4. CopyKeepsID' /\ StaleCopyIsNoticed' /\ BranchTaken'
  BY DEF CopyKeepsID, StaleCopyIsNoticed, BranchTaken, Working
<1>5. RestingIsProvisioned'
  BY <1>1 DEF RestingIsProvisioned, AtRest
<1> QED BY <1>1, <1>2, <1>3, <1>4, <1>5, InvPartsNext

-----------------------------------------------------------------------------
(* The steps of the informer, the queue and the cloud's goroutine.         *)

\* An instance's informer hears of a version and queues the request.
LEMMA WatchEventStep ==
  ASSUME IInv, NEW k \in Keys, WatchEvent(k)
  PROVE  IInv'
<1> USE InvParts DEF WatchEvent
<1>1. /\ Informer(Versions)'
      /\ server' = server
      /\ \A l \in Keys \ {k} : watch'[l] = watch[l]
  BY ObserveInforms, VersionNumber
<1>2. CloudType' /\ \A id \in ClusterIDs : Held(id) => Held(id)'
  BY CloudStutters
<1>3. /\ budget' \in [BudgetKinds -> Nat]
      /\ inventoryCached' \in BOOLEAN
      /\ queue' = queue \cup {k}
      /\ queue' \in SUBSET Keys /\ backoff' \in SUBSET Keys
      /\ UNCHANGED <<backoff, pc, req, instance>>
  BY DEF WorkerType, envVars
<1>4. \A l \in Keys : AtRest(l)' => AtRest(l)
  BY <1>1, <1>3 DEF AtRest
<1>5. RestingIsProvisioned'
  BY <1>1, <1>2, <1>4, RestingKept
<1> QED BY <1>1, <1>2, <1>3, <1>5, WorkerWaits

\* The manager queues every cached object anew.
LEMMA ResyncStep ==
  ASSUME IInv, Resync
  PROVE  IInv'
<1> USE InvParts DEF Resync
<1>1. Informer(Versions)'
  BY InformerStutters
<1>2. CloudType' /\ \A id \in ClusterIDs : Held(id) => Held(id)'
  BY CloudStutters
<1>3. /\ budget' \in [BudgetKinds -> Nat]
      /\ inventoryCached' \in BOOLEAN
      /\ queue \subseteq queue'
      /\ queue' \in SUBSET Keys /\ backoff' \in SUBSET Keys
      /\ UNCHANGED <<server, watch, backoff, pc, req, instance>>
  BY DEF WorkerType, envVars, apiVars
<1>4. RestingIsProvisioned'
  BY <1>2, <1>3, RestingKept DEF AtRest
<1> QED BY <1>1, <1>2, <1>3, <1>4, WorkerWaits

\* A request returned with an error is queued again.
LEMMA RetryStep ==
  ASSUME IInv, NEW k \in Keys, Retry(k)
  PROVE  IInv'
<1> USE InvParts DEF Retry
<1>1. Informer(Versions)'
  BY InformerStutters
<1>2. CloudType' /\ \A id \in ClusterIDs : Held(id) => Held(id)'
  BY CloudStutters
<1>3. /\ budget' \in [BudgetKinds -> Nat]
      /\ inventoryCached' \in BOOLEAN
      /\ queue \subseteq queue'
      /\ queue' \in SUBSET Keys /\ backoff' \in SUBSET Keys
      /\ queue' \cup backoff' = queue \cup backoff
      /\ UNCHANGED <<server, watch, pc, req, instance>>
  BY DEF WorkerType, envVars, apiVars
<1>4. RestingIsProvisioned'
  BY <1>2, <1>3, RestingKept DEF AtRest
<1> QED BY <1>1, <1>2, <1>3, <1>4, WorkerWaits

\* The provider's goroutine receives or appends a cluster.
LEMMA ProviderStep ==
  ASSUME IInv, Receive \/ Add
  PROVE  IInv'
<1> USE InvParts
<1>1. CloudType' /\ \A id \in ClusterIDs : Held(id) => Held(id)'
  BY ReceiveHolds, AppendHolds DEF Receive, Add
<1>2. UNCHANGED <<apiVars, workVars, pc, req, instance, envVars>>
  BY DEF Receive, Add
<1>3. Informer(Versions)'
  BY <1>2, InformerStutters
<1>4. /\ budget' \in [BudgetKinds -> Nat]
      /\ inventoryCached' \in BOOLEAN
      /\ queue' \in SUBSET Keys /\ backoff' \in SUBSET Keys
      /\ UNCHANGED <<server, watch, queue, backoff, pc, req, instance>>
  BY <1>2 DEF WorkerType, envVars, workVars, apiVars
<1>5. RestingIsProvisioned'
  BY <1>1, <1>4, RestingKept DEF AtRest
<1> QED BY <1>1, <1>3, <1>4, <1>5, WorkerWaits

-----------------------------------------------------------------------------
(* The steps of the worker.                                                *)

\* One step further with the same request: what is to be shown of the copy.
LEMMA WorkerGoes ==
  ASSUME IInv, pc # "idle",
         NEW loc \in Locations \ {"idle", "getInstance"}, NEW copy \in Versions,
         Goto(loc, copy), UNCHANGED <<queue, backoff, inventoryCached>>,
         budget' \in [BudgetKinds -> Nat],
         CloudType', \A id \in ClusterIDs : Held(id) => Held(id)',
         Informer(Versions)',
         \A l \in Keys \ {req} : server'[l] = server[l] /\ watch'[l] = watch[l],
         copy.rv <= server'[req].rv,
         copy.rv = server'[req].rv =>
           \/ server'[req].status.id = copy.status.id
           \/ server'[req].status.id = NoID /\ copy.status.phase = "Ready",
         copy.rv # server'[req].rv => watch'[req] # <<>> \/ req \in queue,
         BranchTaken'
  PROVE  IInv'
<1> USE InvParts
<1>1. req \in Keys /\ req' = req /\ pc' = loc /\ instance' = copy
  BY DEF WorkerType, Goto
<1>2. WorkerType'
  BY <1>1 DEF WorkerType
<1>3. CopyKeepsID' /\ StaleCopyIsNoticed'
  BY <1>1 DEF CopyKeepsID, StaleCopyIsNoticed
<1>4. \A l \in Keys : AtRest(l)' =>
        l # req /\ AtRest(l) /\ server'[l] = server[l]
  BY <1>1 DEF AtRest
<1>5. RestingIsProvisioned'
  BY <1>4, RestingKept
<1> QED BY <1>2, <1>3, <1>5, InvPartsNext

\* The same, when the step leaves the API server alone and keeps the copy's
\* resourceVersion and InstanceID.
LEMMA WorkerGoesOn ==
  ASSUME IInv, Working,
         NEW loc \in Locations \ {"idle", "getInstance"}, NEW copy \in Versions,
         Goto(loc, copy), UNCHANGED <<apiVars, workVars, inventoryCached>>,
         budget' \in [BudgetKinds -> Nat],
         CloudType', \A id \in ClusterIDs : Held(id) => Held(id)',
         copy.rv = instance.rv,
         instance.status.phase = "Ready" => copy.status.phase = "Ready",
         \/ copy.status.id = instance.status.id
         \/ instance.status.id = NoID /\ copy.status.phase = "Ready",
         BranchTaken'
  PROVE  IInv'
<1> USE InvParts
<1>1. Informer(Versions)'
  BY InformerStutters
<1>2. /\ UNCHANGED <<server, watch, queue, backoff, inventoryCached>>
      /\ pc # "idle"
  BY DEF apiVars, workVars, Working
<1>3. /\ copy.rv <= server'[req].rv
      /\ copy.rv = server'[req].rv =>
           \/ server'[req].status.id = copy.status.id
           \/ server'[req].status.id = NoID /\ copy.status.phase = "Ready"
      /\ copy.rv # server'[req].rv => watch'[req] # <<>> \/ req \in queue
  BY <1>2 DEF CopyKeepsID, StaleCopyIsNoticed
<1> QED BY <1>1, <1>2, <1>3, WorkerGoes

\* Reconcile returns, and its request comes back ...
LEMMA WorkerRequeues ==
  ASSUME IInv, pc # "idle", ReturnRequeue,
         UNCHANGED <<cloudVars, inventoryCached>>,
         budget' \in [BudgetKinds -> Nat], Informer(Versions)',
         \A l \in Keys \ {req} : server'[l] = server[l] /\ watch'[l] = watch[l]
  PROVE  IInv'
<1> USE InvParts
<1>1. CloudType' /\ \A id \in ClusterIDs : Held(id) => Held(id)'
  BY CloudStutters
<1>2. /\ req \in Keys
      /\ pc' = "idle"
      /\ req' = NoKey
      /\ instance' = Absent
      /\ queue' = queue
      /\ backoff' = backoff \cup {req}
  BY DEF WorkerType, ReturnRequeue
<1>3. WorkerType'
  BY <1>2, AbsentType DEF WorkerType, Locations
<1>4. CopyKeepsID' /\ StaleCopyIsNoticed' /\ BranchTaken'
  BY <1>2 DEF CopyKeepsID, StaleCopyIsNoticed, BranchTaken, Working
<1>5. \A l \in Keys : AtRest(l)' =>
        l # req /\ AtRest(l) /\ server'[l] = server[l]
  BY <1>2 DEF AtRest
<1>6. RestingIsProvisioned'
  BY <1>1, <1>5, RestingKept
<1> QED BY <1>1, <1>3, <1>4, <1>6, InvPartsNext

\* ... or is forgotten, which has to be justified.
LEMMA WorkerForgets ==
  ASSUME IInv, pc # "idle", Return, NEW k \in Keys, k = req,
         UNCHANGED <<cloudVars, inventoryCached>>,
         budget' \in [BudgetKinds -> Nat], Informer(Versions)',
         \A l \in Keys \ {k} : server'[l] = server[l] /\ watch'[l] = watch[l],
         ~server'[k].live \/ watch'[k] # <<>> \/ k \in queue \/ Backed(k)'
  PROVE  IInv'
<1> USE InvParts
<1>1. CloudType' /\ \A id \in ClusterIDs : Held(id) => Held(id)'
  BY CloudStutters
<1>2. /\ pc' = "idle"
      /\ req' = NoKey
      /\ instance' = Absent
      /\ UNCHANGED <<queue, backoff>>
  BY DEF WorkerType, Return, workVars
<1>3. WorkerType'
  BY <1>2, AbsentType DEF WorkerType, Locations
<1>4. CopyKeepsID' /\ StaleCopyIsNoticed' /\ BranchTaken'
  BY <1>2 DEF CopyKeepsID, StaleCopyIsNoticed, BranchTaken, Working
<1>5. ASSUME NEW l \in Keys, server'[l].live, AtRest(l)'
      PROVE  (server'[l] = server[l] /\ AtRest(l)) \/ Backed(l)'
  <2>1. CASE l # k
    BY <1>2, <1>5, <2>1 DEF AtRest
  <2>2. CASE l = k
    BY <1>2, <1>5, <2>2 DEF AtRest
  <2> QED BY <2>1, <2>2
<1>6. RestingIsProvisioned'
  BY <1>1, <1>5, RestingKept
<1> QED BY <1>1, <1>3, <1>4, <1>6, InvPartsNext

\* The worker takes a request.
LEMMA DequeueStep ==
  ASSUME IInv, NEW k \in Keys, Dequeue(k)
  PROVE  IInv'
<1> USE InvParts DEF Dequeue
<1>1. Informer(Versions)'
  BY InformerStutters
<1>2. CloudType' /\ \A id \in ClusterIDs : Held(id) => Held(id)'
  BY CloudStutters
<1>3. WorkerType'
  BY DEF WorkerType, Locations, envVars
<1>4. CopyKeepsID' /\ StaleCopyIsNoticed' /\ BranchTaken'
  BY DEF CopyKeepsID, StaleCopyIsNoticed, BranchTaken, Working
<1>5. req = NoKey /\ UNCHANGED <<server, watch, backoff>>
  BY DEF WorkerType, apiVars
<1>6. \A l \in Keys : AtRest(l)' => AtRest(l)
  BY <1>5, InstanceAssumption DEF AtRest
<1>7. RestingIsProvisioned'
  BY <1>2, <1>5, <1>6, RestingKept
<1> QED BY <1>1, <1>2, <1>3, <1>4, <1>7, InvPartsNext

\* The worker copies the cached instance, or finds none and is done.
LEMMA GetInstanceStep ==
  ASSUME IInv, GetInstance
  PROVE  IInv'
<1> USE InvParts
<1>1. /\ pc = "getInstance"
      /\ req \in Keys
      /\ cache[req] \in Versions
      /\ UNCHANGED <<apiVars, cloudVars, inventoryCached>>
  BY DEF GetInstance, WorkerType, Informer, Typed
<1>2. Informer(Versions)' /\ UNCHANGED <<server, watch>>
  BY <1>1, InformerStutters DEF apiVars
<1>3. CloudType' /\ \A id \in ClusterIDs : Held(id) => Held(id)'
  BY <1>1, CloudStutters
<1>4. budget \in [BudgetKinds -> Nat]
  BY DEF WorkerType
<1>5. CASE ~cache[req].live /\ Return /\ UNCHANGED budget
  <2>1. ~server[req].live \/ watch[req] # <<>>
    BY <1>1, <1>5 DEF Informer, InformerCatchesUp
  <2> QED BY <1>1, <1>2, <1>4, <1>5, <2>1, WorkerForgets
<1>6. CASE /\ cache[req].live
           /\ Goto("getInventory", [cache[req] EXCEPT !.status.phase = "Unknown"])
           /\ UNCHANGED <<workVars, budget>>
  <2> DEFINE copy == [cache[req] EXCEPT !.status.phase = "Unknown"]
  <2>1. /\ copy \in Versions
        /\ copy.rv = cache[req].rv
        /\ copy.status.id = cache[req].status.id
        /\ copy.status.phase = "Unknown"
    BY <1>1, PhaseType
  <2>2. Goto("getInventory", copy)
    BY <1>6
  <2> HIDE DEF copy
  <2>3. /\ cache[req].rv <= server[req].rv
        /\ cache[req].rv = server[req].rv => cache[req] = server[req]
    BY <1>1 DEF Informer, VersionsOrdered, Informed
  <2>4. cache[req].rv # server[req].rv => watch[req] # <<>>
    BY <1>1 DEF Informer, InformerCatchesUp
  <2>5. BranchTaken'
    BY <2>1, <2>2 DEF BranchTaken, Goto, Working
  <2>6. UNCHANGED <<queue, backoff, inventoryCached, budget>>
    BY <1>1, <1>6 DEF workVars
  <2>7. "getInventory" \in Locations \ {"idle", "getInstance"}
    BY DEF Locations
  <2> QED
    BY <1>1, <1>2, <1>3, <1>4, <2>1, <2>2, <2>3, <2>4, <2>5, <2>6, <2>7,
       WorkerGoes
<1>7. CASE Spend("fault") /\ ReturnRequeue
  <2>1. budget' \in [BudgetKinds -> Nat]
    BY <1>4, <1>7, SpendType DEF BudgetKinds
  <2> QED BY <1>1, <1>2, <1>7, <2>1, WorkerRequeues
<1> QED BY <1>5, <1>6, <1>7 DEF GetInstance

\* A step that fails has changed nothing but the copy's condition.
LEMMA FailKeepsInv ==
  ASSUME IInv, Working, instance.status.phase # "Ready",
         NEW r, NEW m,
         [status |-> "False", reason |-> r, msg |-> m] \in Conditions,
         Fail(instance, r, m), UNCHANGED <<apiVars, cloudVars, envVars>>
  PROVE  IInv'
<1> USE InvParts
<1> DEFINE copy == WithCondition(instance, "False", r, m)
<1>1. /\ copy \in Versions
      /\ copy.rv = instance.rv
      /\ copy.status.id = instance.status.id
      /\ copy.status.phase = instance.status.phase
  BY WithConditionType DEF WorkerType
<1>2. Goto("reportFailure", copy) /\ UNCHANGED workVars
  BY DEF Fail
<1> HIDE DEF copy
<1>3. BranchTaken'
  BY <1>1, <1>2 DEF BranchTaken, Goto, Working
<1>4. CloudType' /\ \A id \in ClusterIDs : Held(id) => Held(id)'
  BY CloudStutters
<1>5. budget' \in [BudgetKinds -> Nat] /\ UNCHANGED inventoryCached
  BY DEF WorkerType, envVars
<1>6. "reportFailure" \in Locations \ {"idle", "getInstance"}
  BY DEF Locations
<1> QED BY <1>1, <1>2, <1>3, <1>4, <1>5, <1>6, WorkerGoesOn

\* The inventory is looked up in the cache: found, missing, or an error.
LEMMA GetInventoryStep ==
  ASSUME IInv, GetInventory
  PROVE  IInv'
<1> USE InvParts
<1>1. /\ pc = "getInventory"
      /\ Working
      /\ instance \in Versions
      /\ instance.status.phase # "Ready"
      /\ UNCHANGED <<apiVars, cloudVars, inventoryCached>>
  BY DEF GetInventory, WorkerType, Working, BranchTaken
<1>2. CloudType' /\ \A id \in ClusterIDs : Held(id) => Held(id)'
  BY <1>1, CloudStutters
<1>3. budget \in [BudgetKinds -> Nat]
  BY DEF WorkerType
<1>4. CASE /\ Fail(instance, "InventoryNotFound", "inventory not found")
           /\ UNCHANGED budget
  <2>1. [status |-> "False", reason |-> "InventoryNotFound",
         msg |-> "inventory not found"] \in Conditions
    BY DEF Conditions
  <2> QED BY <1>1, <1>4, <2>1, FailKeepsInv DEF envVars
<1>5. ASSUME NEW loc \in {"createCluster", "getCluster"},
             NEW p \in {"Creating", "Pending"},
             Goto(loc, [instance EXCEPT !.status.phase = p]),
             loc = "createCluster" <=> instance.status.id = NoID,
             UNCHANGED <<workVars, budget>>
      PROVE  IInv'
  <2> DEFINE copy == [instance EXCEPT !.status.phase = p]
  <2>0. p \in {"", "Unknown", "Pending", "Creating", "Ready"}
    OBVIOUS
  <2>1. /\ copy \in Versions
        /\ copy.rv = instance.rv
        /\ copy.status.id = instance.status.id
        /\ copy.status.phase = p
    BY <1>1, <2>0, PhaseType
  <2>2. Goto(loc, copy)
    BY <1>5
  <2> HIDE DEF copy
  <2>3. BranchTaken'
    BY <1>5, <2>1, <2>2 DEF BranchTaken, Goto, Working
  <2>4. loc \in Locations \ {"idle", "getInstance"}
    BY DEF Locations
  <2> QED BY <1>1, <1>2, <1>3, <1>5, <2>1, <2>2, <2>3, <2>4, WorkerGoesOn
<1>6. CASE Spend("fault") /\ ReturnRequeue
  <2>1. budget' \in [BudgetKinds -> Nat]
    BY <1>3, <1>6, SpendType DEF BudgetKinds
  <2>2. Informer(Versions)' /\ UNCHANGED <<server, watch>> /\ pc # "idle"
    BY <1>1, InformerStutters DEF apiVars
  <2> QED BY <1>1, <1>6, <2>1, <2>2, WorkerRequeues
<1> QED BY <1>4, <1>5, <1>6 DEF GetInventory

\* CreateCluster checks the name, then scans the list for it.
LEMMA CreateClusterStep ==
  ASSUME IInv, CreateCluster
  PROVE  IInv'
<1> USE InvParts
<1>1. /\ pc = "createCluster"
      /\ Working
      /\ instance \in Versions
      /\ instance.status.id = NoID
      /\ instance.status.phase # "Ready"
      /\ UNCHANGED <<apiVars, cloudVars, envVars>>
  BY DEF CreateCluster, WorkerType, Working, BranchTaken
<1>2. ASSUME NEW m \in {"name is required", "creation failed", "AlreadyExists"},
             Fail(instance, "BackendError", m)
      PROVE  IInv'
  <2>1. [status |-> "False", reason |-> "BackendError", msg |-> m] \in Conditions
    BY DEF Conditions
  <2> QED BY <1>1, <1>2, <2>1, FailKeepsInv
<1>3. CASE /\ instance.name \in Names
           /\ Goto("sendCluster", instance)
           /\ UNCHANGED workVars
  <2>1. BranchTaken'
    BY <1>1, <1>3 DEF BranchTaken, Goto, Working
  <2>2. "sendCluster" \in Locations \ {"idle", "getInstance"}
    BY DEF Locations
  <2>3. CloudType' /\ \A id \in ClusterIDs : Held(id) => Held(id)'
    BY <1>1, CloudStutters
  <2>4. budget' \in [BudgetKinds -> Nat] /\ UNCHANGED inventoryCached
    BY <1>1 DEF WorkerType, envVars
  <2> QED BY <1>1, <1>3, <2>1, <2>2, <2>3, <2>4, WorkerGoesOn
<1> QED BY <1>2, <1>3 DEF CreateCluster

\* The cluster is sent and its Id enters the copy: the Id is held.
LEMMA SendClusterStep ==
  ASSUME IInv, SendCluster
  PROVE  IInv'
<1> USE InvParts
<1>0. PICK id \in ClusterIDs : id = ClusterID(instance.name)
  BY DEF SendCluster, BranchTaken, ClusterIDs
<1> DEFINE copy == Detailed(instance, id)
<1>1. /\ pc = "sendCluster"
      /\ Working
      /\ instance \in Versions
      /\ instance.status.id = NoID
      /\ Send(id)
      /\ Goto("updateReady", copy)
      /\ UNCHANGED <<apiVars, workVars, envVars>>
  BY <1>0 DEF SendCluster, WorkerType, Working, BranchTaken
<1>2. /\ copy \in Versions
      /\ copy.rv = instance.rv
      /\ copy.status.id = id
      /\ copy.status.phase = "Ready"
  BY <1>1, DetailedType
<1> HIDE DEF copy
<1>3. /\ CloudType'
      /\ Held(id)'
      /\ \A i \in ClusterIDs : Held(i) => Held(i)'
  BY <1>1, SendHolds
<1>4. pc' = "updateReady" /\ instance' = copy
  BY <1>1 DEF Goto
<1>5. Held(instance.status.id)'
  BY <1>2, <1>3, <1>4 DEF Held, Listed
<1>6. BranchTaken'
  BY <1>1, <1>2, <1>4, <1>5, NoIDFresh DEF BranchTaken, Working
<1>7. budget' \in [BudgetKinds -> Nat] /\ UNCHANGED inventoryCached
  BY <1>1 DEF WorkerType, envVars
<1>8. "updateReady" \in Locations \ {"idle", "getInstance"}
  BY DEF Locations
<1> QED BY <1>1, <1>2, <1>3, <1>6, <1>7, <1>8, WorkerGoesOn

\* A listed cluster fills in the copy; one that is not listed is an error.
LEMMA GetClusterStep ==
  ASSUME IInv, GetCluster
  PROVE  IInv'
<1> USE InvParts
<1>1. /\ pc = "getCluster"
      /\ Working
      /\ instance \in Versions
      /\ instance.status.id \in ClusterIDs
      /\ instance.status.phase # "Ready"
      /\ UNCHANGED <<apiVars, cloudVars, envVars>>
  BY DEF GetCluster, WorkerType, Working, BranchTaken, Versions, Statuses
<1>2. CASE Fail(instance, "BackendError", "could not find cluster")
  <2>1. [status |-> "False", reason |-> "BackendError",
         msg |-> "could not find cluster"] \in Conditions
    BY DEF Conditions
  <2> QED BY <1>1, <1>2, <2>1, FailKeepsInv
<1>3. CASE /\ Listed(instance.status.id)
           /\ Goto("updateReady", Detailed(instance, instance.status.id))
           /\ UNCHANGED workVars
  <2> DEFINE copy == Detailed(instance, instance.status.id)
  <2>1. /\ copy \in Versions
        /\ copy.rv = instance.rv
        /\ copy.status.id = instance.status.id
        /\ copy.status.phase = "Ready"
    BY <1>1, DetailedType
  <2>2. Goto("updateReady", copy)
    BY <1>3
  <2> HIDE DEF copy
  <2>3. pc' = "updateReady" /\ instance' = copy
    BY <2>2 DEF Goto
  <2>4. CloudType' /\ \A i \in ClusterIDs : Held(i) => Held(i)'
    BY <1>1, CloudStutters
  <2>5. Held(instance.status.id)
    BY <1>3 DEF Held
  <2>6. Held(instance.status.id)'
    BY <1>1, <2>1, <2>3, <2>5 DEF Held, Listed, cloudVars
  <2>7. BranchTaken'
    BY <1>1, <2>1, <2>3, <2>6, NoIDFresh DEF BranchTaken, Working
  <2>8. budget' \in [BudgetKinds -> Nat] /\ UNCHANGED inventoryCached
    BY <1>1 DEF WorkerType, envVars
  <2>9. "updateReady" \in Locations \ {"idle", "getInstance"}
    BY DEF Locations
  <2> QED BY <1>1, <1>3, <2>1, <2>2, <2>4, <2>7, <2>8, <2>9, WorkerGoesOn
<1> QED BY <1>2, <1>3 DEF GetCluster

\* The second update is attempted with the copy the first one carried; that
\* one may have been carried out nevertheless.
LEMMA SecondAttemptKeepsInv ==
  ASSUME IInv, pc = "updateReady",
         NEW m, [status |-> "True", reason |-> "Ready", msg |-> m] \in Conditions,
         SecondAttempt(m),
         UNCHANGED apiVars \/ StoreStatus(req, instance),
         UNCHANGED <<cloudVars, inventoryCached>>,
         budget' \in [BudgetKinds -> Nat]
  PROVE  IInv'
<1> USE InvParts
<1> DEFINE copy == WithCondition(instance, "True", "Ready", m)
<1>1. /\ Working
      /\ pc # "idle"
      /\ req \in Keys
      /\ instance \in Versions
      /\ instance.status.phase = "Ready"
      /\ instance.status.id # NoID
      /\ Held(instance.status.id)
  BY DEF WorkerType, Working, BranchTaken
<1>2. /\ copy \in Versions
      /\ copy.rv = instance.rv
      /\ copy.status.id = instance.status.id
      /\ copy.status.phase = instance.status.phase
  BY <1>1, WithConditionType
<1>3. Goto("reportReady", copy) /\ UNCHANGED workVars
  BY DEF SecondAttempt
<1> HIDE DEF copy
<1>4. CloudType' /\ \A i \in ClusterIDs : Held(i) => Held(i)'
  BY CloudStutters
<1>5. pc' = "reportReady" /\ instance' = copy
  BY <1>3 DEF Goto
<1>6. Held(instance.status.id)'
  BY <1>1, <1>2, <1>5 DEF Held, Listed, cloudVars
<1>7. BranchTaken'
  BY <1>1, <1>2, <1>5, <1>6 DEF BranchTaken, Working
<1>8. "reportReady" \in Locations \ {"idle", "getInstance"}
  BY DEF Locations
<1>9. CASE UNCHANGED apiVars
  BY <1>1, <1>2, <1>3, <1>4, <1>7, <1>8, <1>9, WorkerGoesOn
<1>10. CASE StoreStatus(req, instance)
  <2>1. /\ Informer(Versions)'
        /\ \/ UNCHANGED <<server, watch>>
           \/ watch'[req] # <<>> /\ server'[req].rv = server[req].rv + 1
        /\ \A l \in Keys \ {req} : server'[l] = server[l] /\ watch'[l] = watch[l]
    BY <1>1, <1>10, StatusStored
  <2>2. instance.rv \in Nat /\ server[req].rv \in Nat
    BY <1>1 DEF Informer, Typed, Versions
  <2>3. /\ copy.rv <= server[req].rv
        /\ copy.rv = server[req].rv =>
             \/ server[req].status.id = copy.status.id
             \/ server[req].status.id = NoID /\ copy.status.phase = "Ready"
        /\ copy.rv # server[req].rv => watch[req] # <<>> \/ req \in queue
    BY <1>1, <1>2 DEF CopyKeepsID, StaleCopyIsNoticed
  <2>4. /\ copy.rv <= server'[req].rv
        /\ copy.rv = server'[req].rv =>
             \/ server'[req].status.id = copy.status.id
             \/ server'[req].status.id = NoID /\ copy.status.phase = "Ready"
        /\ copy.rv # server'[req].rv => watch'[req] # <<>> \/ req \in queue
    <3>1. CASE UNCHANGED <<server, watch>>
      BY <2>3, <3>1
    <3>2. CASE watch'[req] # <<>> /\ server'[req].rv = server[req].rv + 1
      <4>1. instance.rv <= server[req].rv
        BY <1>2, <2>3
      <4>2. instance.rv <= server'[req].rv /\ instance.rv # server'[req].rv
        BY <2>2, <3>2, <4>1
      <4> QED BY <1>2, <3>2, <4>2
    <3> QED BY <2>1, <3>1, <3>2
  <2>5. UNCHANGED <<queue, backoff, inventoryCached>>
    BY <1>3 DEF workVars
  <2> QED
    BY <1>1, <1>2, <1>3, <1>4, <1>7, <1>8, <2>1, <2>4, <2>5, WorkerGoes
<1> QED BY <1>9, <1>10

\* What an accepted update of the Ready instance leaves at the server.
LEMMA StoredReadyIsBacked ==
  ASSUME IInv, pc \in {"updateReady", "reportReady"}, NEW k \in Keys, k = req,
         StoreStatus(k, instance), UNCHANGED cloudVars
  PROVE  /\ Informer(Versions)'
         /\ \A l \in Keys \ {k} : server'[l] = server[l] /\ watch'[l] = watch[l]
         /\ Backed(k)'
<1> USE InvParts
<1>1. /\ instance \in Versions
      /\ instance.status.phase = "Ready"
      /\ instance.status.id # NoID
      /\ Held(instance.status.id)
  BY DEF WorkerType, Working, BranchTaken
<1>2. /\ Informer(Versions)'
      /\ server'[k].status = instance.status
      /\ \A l \in Keys \ {k} : server'[l] = server[l] /\ watch'[l] = watch[l]
  BY <1>1, StatusStored
<1>3. Backed(k)'
  BY <1>1, <1>2 DEF Backed, Held, Listed, cloudVars
<1> QED BY <1>2, <1>3

\* The status update of a Ready instance is accepted or refused.
LEMMA UpdateReadyStep ==
  ASSUME IInv, UpdateReady
  PROVE  IInv'
<1> USE InvParts
<1>0. PICK k \in Keys : k = req
  BY DEF UpdateReady, WorkerType
<1>1. /\ pc = "updateReady"
      /\ pc # "idle"
      /\ UNCHANGED <<cloudVars, inventoryCached>>
  BY DEF UpdateReady
<1>2. budget \in [BudgetKinds -> Nat]
  BY DEF WorkerType
<1>3. CASE StoreStatus(req, instance) /\ Return /\ UNCHANGED budget
  <2>1. /\ Informer(Versions)'
        /\ \A l \in Keys \ {k} : server'[l] = server[l] /\ watch'[l] = watch[l]
        /\ Backed(k)'
    BY <1>0, <1>1, <1>3, StoredReadyIsBacked
  <2> QED BY <1>0, <1>1, <1>2, <1>3, <2>1, WorkerForgets
<1>4. CASE ReturnRequeue /\ UNCHANGED <<apiVars, budget>>
  <2>1. Informer(Versions)' /\ UNCHANGED <<server, watch>>
    BY <1>4, InformerStutters DEF apiVars
  <2> QED BY <1>1, <1>2, <1>4, <2>1, WorkerRequeues
<1>5. ASSUME NEW m, [status |-> "True", reason |-> "Ready", msg |-> m] \in Conditions,
             SecondAttempt(m), UNCHANGED apiVars \/ StoreStatus(req, instance),
             Spend("fault") \/ UNCHANGED budget
      PROVE  IInv'
  <2>1. budget' \in [BudgetKinds -> Nat]
    BY <1>2, <1>5, SpendType DEF BudgetKinds
  <2> QED BY <1>1, <1>5, <2>1, SecondAttemptKeepsInv
<1>6. /\ [status |-> "True", reason |-> "Ready",
          msg |-> "instance not found"] \in Conditions
      /\ [status |-> "True", reason |-> "Ready",
          msg |-> "api unavailable"] \in Conditions
  BY DEF Conditions
<1> QED BY <1>3, <1>4, <1>5, <1>6 DEF UpdateReady

\* The second update of a Ready instance, after the first one failed.
LEMMA ReportReadyStep ==
  ASSUME IInv, ReportReady
  PROVE  IInv'
<1> USE InvParts
<1>0. PICK k \in Keys : k = req
  BY DEF ReportReady, WorkerType
<1>1. /\ pc = "reportReady"
      /\ pc # "idle"
      /\ Working
      /\ UNCHANGED <<cloudVars, inventoryCached>>
  BY DEF ReportReady, Working
<1>2. budget \in [BudgetKinds -> Nat]
  BY DEF WorkerType
<1>3. StoreStatus(req, instance) =>
        /\ Informer(Versions)'
        /\ \A l \in Keys \ {k} : server'[l] = server[l] /\ watch'[l] = watch[l]
        /\ Backed(k)'
  BY <1>0, <1>1, StoredReadyIsBacked
<1>4. UNCHANGED apiVars => Informer(Versions)' /\ UNCHANGED <<server, watch>>
  BY InformerStutters DEF apiVars
<1>5. CASE StoreStatus(req, instance) /\ Return /\ UNCHANGED budget
  BY <1>0, <1>1, <1>2, <1>3, <1>5, WorkerForgets
<1>6. CASE Conflict(req, instance) /\ Return /\ UNCHANGED <<apiVars, budget>>
  <2>1. watch[k] # <<>> \/ k \in queue
    BY <1>0, <1>1, <1>6 DEF StaleCopyIsNoticed, Conflict
  <2> QED BY <1>0, <1>1, <1>2, <1>4, <1>6, <2>1, WorkerForgets
<1>7. CASE /\ ReturnRequeue
           /\ StoreStatus(req, instance) \/ UNCHANGED apiVars
           /\ Spend("fault") \/ UNCHANGED budget
  <2>1. budget' \in [BudgetKinds -> Nat]
    BY <1>2, <1>7, SpendType DEF BudgetKinds
  <2> QED BY <1>0, <1>1, <1>3, <1>4, <1>7, <2>1, WorkerRequeues
<1> QED BY <1>5, <1>6, <1>7 DEF ReportReady

\* The deferred update after a failure: the request is queued again.
LEMMA ReportFailureStep ==
  ASSUME IInv, ReportFailure
  PROVE  IInv'
<1> USE InvParts
<1>1. /\ pc # "idle"
      /\ req \in Keys
      /\ instance \in Versions
      /\ ReturnRequeue
      /\ StoreStatus(req, instance) \/ UNCHANGED apiVars
      /\ Spend("fault") \/ UNCHANGED budget
      /\ UNCHANGED <<cloudVars, inventoryCached>>
  BY DEF ReportFailure, WorkerType
<1>2. budget' \in [BudgetKinds -> Nat]
  BY <1>1, SpendType DEF WorkerType, BudgetKinds
<1>3. /\ Informer(Versions)'
      /\ \A l \in Keys \ {req} : server'[l] = server[l] /\ watch'[l] = watch[l]
  BY <1>1, StatusStored, InformerStutters DEF apiVars
<1> QED BY <1>1, <1>2, <1>3, WorkerRequeues

-----------------------------------------------------------------------------
(* The theorems.                                                           *)

\* A step that changes nothing keeps the invariant.
LEMMA StutterKeepsInv ==
  ASSUME IInv, UNCHANGED vars
  PROVE  IInv'
  BY DEF vars, apiVars, cloudVars, workVars, envVars, IInv, TypeOK,
         InformerCatchesUp, VersionsOrdered, Informed, CopyKeepsID,
         StaleCopyIsNoticed, BranchTaken, Working, RestingIsProvisioned,
         AtRest, Backed, Held, Listed

\* The operator starts with no object, an empty queue and the seeded list.
LEMMA InitInv == Init => IInv
<1> SUFFICES ASSUME Init PROVE IInv
  OBVIOUS
<1> USE DEF Init
<1>1. Typed(Versions)
  BY AbsentType DEF Typed
<1>2. InformerCatchesUp
  BY DEF InformerCatchesUp
<1>3. VersionsOrdered
  BY DEF VersionsOrdered, Informed, Absent
<1>4. CloudType
  BY SeedType DEF CloudType, InitCloud
<1>5. WorkerType
  BY AbsentType, InstanceAssumption DEF WorkerType, Locations
<1>6. CopyKeepsID /\ StaleCopyIsNoticed /\ BranchTaken
  BY DEF CopyKeepsID, StaleCopyIsNoticed, BranchTaken, Working
<1>7. RestingIsProvisioned
  BY DEF RestingIsProvisioned, Absent
<1> QED
  BY <1>1, <1>2, <1>3, <1>4, <1>5, <1>6, <1>7, InvParts DEF Informer

\* Every step of the users, the environment and the worker keeps the
\* invariant.
LEMMA NextKeepsInv == IInv /\ [Next]_vars => IInv'
<1> SUFFICES ASSUME IInv, [Next]_vars PROVE IInv'
  OBVIOUS
<1>1. CASE \E k \in Keys, name \in NameParams : CreateInstance(k, name)
  BY <1>1, CreateInstanceStep
<1>2. CASE \E k \in Keys, name \in NameParams : EditInstance(k, name)
  BY <1>2, EditInstanceStep
<1>3. CASE \E k \in Keys : DeleteInstance(k)
  BY <1>3, DeleteInstanceStep
<1>4. CASE InventoryChanges
  BY <1>4, InventoryStep
<1>5. CASE Restart
  BY <1>5, RestartStep
<1>6. CASE \E k \in Keys : WatchEvent(k)
  BY <1>6, WatchEventStep
<1>7. CASE Resync
  BY <1>7, ResyncStep
<1>8. CASE \E k \in Keys : Retry(k)
  BY <1>8, RetryStep
<1>9. CASE Receive \/ Add
  BY <1>9, ProviderStep
<1>10. CASE \E k \in Keys : Dequeue(k)
  BY <1>10, DequeueStep
<1>11. CASE Reconcile
  BY <1>11, GetInstanceStep, GetInventoryStep, CreateClusterStep,
     SendClusterStep, GetClusterStep, UpdateReadyStep, ReportReadyStep,
     ReportFailureStep DEF Reconcile
<1>12. CASE UNCHANGED vars
  BY <1>12, StutterKeepsInv
<1> QED
  BY <1>1, <1>2, <1>3, <1>4, <1>5, <1>6, <1>7, <1>8, <1>9, <1>10, <1>11,
     <1>12 DEF Next

(* The invariant holds in every reachable state.                           *)
THEOREM Invariance == Spec => []IInv
  BY InitInv, NextKeepsInv, PTL DEF Spec

(* Every variable keeps its type: in particular an InstanceID is one the   *)
(* provider hands out, and the worker has a request exactly while          *)
(* Reconcile runs.                                                         *)
THEOREM TypeCorrect == Spec => []TypeOK
<1>1. IInv => TypeOK
  BY DEF IInv
<1> QED BY <1>1, Invariance, PTL

(* Reconcile never forgets an instance it has not provisioned: whatever    *)
(* fails and whoever writes in between, an instance that is neither queued *)
(* nor announced is Ready, and the provider has its cluster.               *)
THEOREM NoWorkIsLost == Spec => []RestingIsProvisioned
<1>1. IInv => RestingIsProvisioned
  BY DEF IInv
<1> QED BY <1>1, Invariance, PTL

-----------------------------------------------------------------------------
(* What a step may never do to an instance.                                *)

UserStep ==
  \/ \E k \in Keys, name \in NameParams : CreateInstance(k, name)
  \/ \E k \in Keys, name \in NameParams : EditInstance(k, name)
  \/ \E k \in Keys : DeleteInstance(k)

WorkerWrites(k) ==
  /\ k = req
  /\ pc \in {"updateReady", "reportReady", "reportFailure"}
  /\ Current(k, instance)
  /\ StoreStatus(k, instance)
  /\ UNCHANGED cloudVars

\* Only users and the three updates write to the server.
LEMMA Writers ==
  ASSUME IInv, [Next]_vars
  PROVE  UNCHANGED server \/ UserStep \/ \E k \in Keys : WorkerWrites(k)
<1>1. CASE UserStep
  BY <1>1
<1>2. CASE \/ InventoryChanges
           \/ Restart
           \/ \E k \in Keys : WatchEvent(k)
           \/ Resync
           \/ \E k \in Keys : Retry(k)
           \/ Receive
           \/ Add
           \/ \E k \in Keys : Dequeue(k)
           \/ UNCHANGED vars
  BY <1>2 DEF InventoryChanges, Restart, Relist, WatchEvent, Observe, Resync,
     Retry, Receive, Add, Dequeue, vars, apiVars
<1>3. CASE GetInstance \/ GetInventory \/ CreateCluster \/ SendCluster
             \/ GetCluster
  BY <1>3 DEF GetInstance, GetInventory, CreateCluster, SendCluster, GetCluster,
     apiVars
<1>4. CASE UpdateReady \/ ReportReady \/ ReportFailure
  <2>1. PICK k \in Keys : k = req
    BY <1>4, InvParts DEF UpdateReady, ReportReady, ReportFailure, WorkerType
  <2>2. /\ pc \in {"updateReady", "reportReady", "reportFailure"}
        /\ UNCHANGED cloudVars
        /\ \/ Current(k, instance) /\ StoreStatus(k, instance)
           \/ UNCHANGED apiVars
    BY <1>4, <2>1 DEF UpdateReady, ReportReady, ReportFailure
  <2> QED BY <2>1, <2>2 DEF WorkerWrites, apiVars
<1> QED BY <1>1, <1>2, <1>3, <1>4 DEF Next, Reconcile, UserStep

\* What a user's write does to an instance that exists before and after.
LEMMA UserStepKeepsStatus ==
  ASSUME IInv, UserStep, NEW k \in Keys
  PROVE  \/ server'[k].status = server[k].status
         \/ server'[k].status = NoStatus /\ ~(server[k].live /\ server'[k].live)
<1> USE InvParts
<1>1. /\ server \in [Keys -> Versions]
      /\ server[k] \in Versions
  BY DEF Informer, Typed
<1>2. ASSUME NEW l \in Keys, NEW name \in NameParams, CreateInstance(l, name)
      PROVE  \/ server'[k] = server[k]
             \/ server'[k].status = NoStatus /\ ~server[k].live
  BY <1>1, <1>2 DEF CreateInstance, Store
<1>3. ASSUME NEW l \in Keys, NEW name \in NameParams, EditInstance(l, name)
      PROVE  server'[k].status = server[k].status
  BY <1>1, <1>3 DEF EditInstance, Store, Versions
<1>4. ASSUME NEW l \in Keys, DeleteInstance(l)
      PROVE  \/ server'[k] = server[k]
             \/ server'[k].status = NoStatus /\ ~server'[k].live
  BY <1>1, <1>4 DEF DeleteInstance, Store, Absent
<1> QED BY <1>2, <1>3, <1>4 DEF UserStep

\* Where the worker's update is accepted the server has the copy's status,
\* whose Id is the stored one unless none was stored.
LEMMA WorkerWritesStatus ==
  ASSUME IInv, NEW k \in Keys, WorkerWrites(k)
  PROVE  /\ server'[k].status = instance.status
         /\ server[k].status.id \in {NoID, instance.status.id}
         /\ server[k].status.id # instance.status.id
              => instance.status.phase = "Ready"
         /\ instance.status.phase = "Ready" => Backed(k)'
         /\ \A l \in Keys \ {k} : server'[l] = server[l]
<1> USE InvParts DEF WorkerWrites
<1>1. Working /\ instance \in Versions
  BY DEF Working, WorkerType
<1>2. /\ server'[k].status = instance.status
      /\ \A l \in Keys \ {k} : server'[l] = server[l]
  BY <1>1, StatusStored
<1>3. /\ server[k].status.id \in {NoID, instance.status.id}
      /\ server[k].status.id # instance.status.id
           => instance.status.phase = "Ready"
  BY <1>1 DEF CopyKeepsID, Current
<1>4. instance.status.phase = "Ready" => pc \in {"updateReady", "reportReady"}
  BY <1>1 DEF BranchTaken
<1>5. instance.status.phase = "Ready" => Backed(k)'
  BY <1>4, StoredReadyIsBacked
<1> QED BY <1>2, <1>3, <1>5

(* The InstanceID of a living instance never changes: an update that would *)
(* overwrite it carries an old resourceVersion and is refused.             *)
THEOREM IDsAreSticky == Spec => IDSticky
<1>1. ASSUME IInv, [Next]_vars, NEW k \in Keys,
             server[k].live, server[k].status.id # NoID, server'[k].live
      PROVE  server'[k].status.id = server[k].status.id
  <2>1. CASE UNCHANGED server
    BY <2>1
  <2>2. CASE UserStep
    BY <1>1, <2>2, UserStepKeepsStatus
  <2>3. ASSUME NEW l \in Keys, WorkerWrites(l)
        PROVE  server'[k].status.id = server[k].status.id
    BY <1>1, <2>3, WorkerWritesStatus
  <2> QED BY <1>1, <2>1, <2>2, <2>3, Writers
<1>2. IInv /\ [Next]_vars =>
        [\A k \in Keys :
           /\ server[k].live /\ server[k].status.id # NoID
           /\ server'[k].live
           => server'[k].status.id = server[k].status.id]_vars
  BY <1>1
<1> QED BY <1>2, Invariance, PTL DEF Spec, IDSticky

(* No step makes an instance Ready that the provider has no cluster for.   *)
THEOREM ReadyIsBacked == Spec => ReadyOnlyWhenBacked
<1>1. ASSUME IInv, [Next]_vars, NEW k \in Keys,
             server[k].status.phase # "Ready",
             server'[k].status.phase = "Ready"
      PROVE  Backed(k)'
  <2>1. ~UNCHANGED server
    BY <1>1
  <2>2. ~UserStep
    <3>1. NoStatus.phase # "Ready"
      BY DEF NoStatus
    <3> QED BY <1>1, <3>1, UserStepKeepsStatus
  <2>3. ASSUME NEW l \in Keys, WorkerWrites(l)
        PROVE  Backed(k)'
    <3>1. CASE k = l
      BY <1>1, <2>3, <3>1, WorkerWritesStatus
    <3>2. CASE k # l
      BY <1>1, <2>3, <3>2, WorkerWritesStatus
    <3> QED BY <3>1, <3>2
  <2> QED BY <1>1, <2>1, <2>2, <2>3, Writers
<1>2. IInv /\ [Next]_vars =>
        [\A k \in Keys :
           /\ server[k].status.phase # "Ready"
           /\ server'[k].status.phase = "Ready"
           => Backed(k)']_vars
  BY <1>1
<1> QED BY <1>2, Invariance, PTL DEF Spec, ReadyOnlyWhenBacked

=============================================================================
