---------------------------- MODULE OperatorProofs ----------------------------
(***************************************************************************)
(* The safety of Operator: the invariants of the two controllers hold in   *)
(* the composition, where each one's environment is the other.             *)
(*                                                                         *)
(* The lemmas of both controllers are taken from their own proofs; a step  *)
(* of Operator is a step of one controller, and one that the other's       *)
(* invariant allows for.  The refinement of the life cycle is lifted from  *)
(* the instance controller in the same way.                                *)
(***************************************************************************)
EXTENDS Operator, TLAPS

IP == INSTANCE InstanceLifecycleProofs WITH
        Keys <- Instances, Budget <- InstanceBudget,
        server <- instances, cache <- instanceCache, watch <- instanceWatch,
        queue <- instanceQueue, backoff <- instanceBackoff,
        pc <- instancePC, req <- instanceReq,
        inventoryCached <- InventoryCached, budget <- instanceBudget

VP == INSTANCE InventoryControllerProofs WITH
        Keys <- {Inventory}, Budget <- InventoryBudget,
        server <- inventories, cache <- inventoryCache, watch <- inventoryWatch,
        queue <- inventoryQueue, backoff <- inventoryBackoff,
        pc <- inventoryPC, req <- inventoryReq, budget <- inventoryBudget

-----------------------------------------------------------------------------
(* The controllers' steps are those their proofs speak of: the modules are *)
(* instantiated with the same state.                                       *)

\* The instance controller's steps ...
LEMMA SameInstanceSteps == I!Next => IP!Next
  BY DEF
      I!apiVars, IP!apiVars, I!Current, IP!Current, I!Conflict, IP!Conflict,
      I!Missing, IP!Missing, I!Store, IP!Store, I!StoreStatus, IP!StoreStatus,
      I!Observe, IP!Observe, I!Relist, IP!Relist, I!NoName, IP!NoName,
      I!cloudVars, IP!cloudVars, I!NoID, IP!NoID, I!ClusterID, IP!ClusterID,
      I!SeedClusters, IP!SeedClusters, I!Listed, IP!Listed, I!Send, IP!Send,
      I!ReceiveCluster, IP!ReceiveCluster, I!AppendCluster, IP!AppendCluster,
      I!ResetCloud, IP!ResetCloud, I!workVars, IP!workVars, I!envVars,
      IP!envVars, I!NoCondition, IP!NoCondition, I!NoStatus, IP!NoStatus,
      I!Absent, IP!Absent, I!NameParams, IP!NameParams, I!Spend, IP!Spend,
      I!CreateInstance, IP!CreateInstance, I!EditInstance, IP!EditInstance,
      I!DeleteInstance, IP!DeleteInstance, I!InventoryChanges,
      IP!InventoryChanges, I!Restart, IP!Restart, I!WatchEvent, IP!WatchEvent,
      I!Resync, IP!Resync, I!Retry, IP!Retry, I!Receive, IP!Receive, I!Add,
      IP!Add, I!Goto, IP!Goto, I!Return, IP!Return, I!ReturnRequeue,
      IP!ReturnRequeue, I!WithCondition, IP!WithCondition, I!Fail, IP!Fail,
      I!Detailed, IP!Detailed, I!Dequeue, IP!Dequeue, I!GetInstance,
      IP!GetInstance, I!GetInventory, IP!GetInventory, I!CreateCluster,
      IP!CreateCluster, I!SendCluster, IP!SendCluster, I!GetCluster,
      IP!GetCluster, I!SecondAttempt, IP!SecondAttempt, I!UpdateReady,
      IP!UpdateReady, I!ReportReady, IP!ReportReady, I!ReportFailure,
      IP!ReportFailure, I!Reconcile, IP!Reconcile, I!Next, IP!Next

\* ... and the inventory controller's.
LEMMA SameInventorySteps == V!Next => VP!Next
  BY DEF
      V!apiVars, VP!apiVars, V!Current, VP!Current, V!Conflict, VP!Conflict,
      V!Missing, VP!Missing, V!Store, VP!Store, V!StoreStatus, VP!StoreStatus,
      V!Observe, VP!Observe, V!Relist, VP!Relist, V!cloudVars, VP!cloudVars,
      V!NoID, VP!NoID, V!ClusterID, VP!ClusterID, V!SeedClusters,
      VP!SeedClusters, V!Send, VP!Send, V!ReceiveCluster, VP!ReceiveCluster,
      V!AppendCluster, VP!AppendCluster, V!ResetCloud, VP!ResetCloud,
      V!workVars, VP!workVars, V!envVars, VP!envVars, V!NoStatus, VP!NoStatus,
      V!Absent, VP!Absent, V!Spend, VP!Spend, V!CreateInventory,
      VP!CreateInventory, V!EditInventory, VP!EditInventory,
      V!DeleteInventory, VP!DeleteInventory, V!MakeCluster, VP!MakeCluster,
      V!InstanceChanges, VP!InstanceChanges, V!Restart, VP!Restart,
      V!WatchEvent, VP!WatchEvent, V!InstanceEvent, VP!InstanceEvent,
      V!Resync, VP!Resync, V!Retry, VP!Retry, V!Receive, VP!Receive, V!Add,
      VP!Add, V!Goto, VP!Goto, V!Return, VP!Return, V!ReturnRequeue,
      VP!ReturnRequeue, V!Dequeue, VP!Dequeue, V!GetInventory,
      VP!GetInventory, V!Discover, VP!Discover, V!UpdateInventoryStatus,
      VP!UpdateInventoryStatus, V!Reconcile, VP!Reconcile, V!Next, VP!Next

-----------------------------------------------------------------------------
(* The invariant.                                                          *)

\* The controllers' assumptions on their constants hold.
LEMMA Assumed ==
  /\ IP!InstanceAssumption /\ IP!CloudAssumption
  /\ VP!InventoryAssumption /\ VP!CloudAssumption
  BY OperatorAssumption, CloudAssumption
  DEF IP!InstanceAssumption, VP!InventoryAssumption, IP!CloudAssumption,
      VP!CloudAssumption, IP!NoName, VP!NoName, NoName, I!BudgetKinds,
      IP!BudgetKinds, V!BudgetKinds, VP!BudgetKinds

\* The invariant: that of both controllers.
IInv == IP!IInv /\ VP!IInv

\* The inventory the process starts with is a version.
LEMMA FoundType == Found \in VP!Versions /\ Found.live \in BOOLEAN
<1>1. Found = [VP!Absent EXCEPT !.rv = 1, !.live = TRUE]
  BY DEF Found, V!Absent, VP!Absent, V!NoStatus, VP!NoStatus
<1>2. Found \in VP!Versions
  BY <1>1, Assumed, VP!CreatedType
<1> QED BY <1>2 DEF VP!Versions

\* The instance controller starts as it does alone.
LEMMA InitAsAlone == Init => IP!Init
<1> SUFFICES ASSUME Init PROVE IP!Init
  OBVIOUS
<1>1. InventoryCached \in BOOLEAN
  BY FoundType DEF InventoryCached, Init
<1> QED
  BY <1>1
  DEF Init, IP!Init, I!Absent, IP!Absent, I!NoStatus, IP!NoStatus,
      I!NoCondition, IP!NoCondition, InitCloud, IP!InitCloud, I!NoID, IP!NoID,
      I!NoName, IP!NoName, NoID, SeedClusters, IP!SeedClusters, ClusterID,
      IP!ClusterID

\* The inventory's starts with an inventory that is to be reconciled.
LEMMA InitInv == Init => IInv
<1> SUFFICES ASSUME Init PROVE IInv
  OBVIOUS
<1>1. /\ inventories = [k \in {Inventory} |-> Found]
      /\ inventoryCache = [k \in {Inventory} |-> Found]
      /\ inventoryWatch = [k \in {Inventory} |-> <<>>]
      /\ inventoryQueue = {Inventory}
      /\ addCluster = <<>> /\ adding = VP!NoID /\ clusters = VP!SeedClusters
  BY DEF Init, InitCloud, NoID, VP!NoID, SeedClusters, VP!SeedClusters,
         ClusterID, VP!ClusterID
<1>2. Found \in VP!Versions
  BY FoundType
<1>3. IP!Init
  BY InitAsAlone
<1>4. IP!IInv
  BY <1>3, Assumed, IP!InitInv
<1>5. VP!Informer(VP!Versions)
  <2>1. VP!Typed(VP!Versions)
    BY <1>1, <1>2 DEF VP!Typed
  <2>2. VP!InformerCatchesUp
    BY <1>1 DEF VP!InformerCatchesUp
  <2>3. VP!VersionsOrdered
    <3>1. Found.rv = 1
      BY DEF Found, V!Absent
    <3>2. \A k \in {Inventory} : VP!Informed(k) = {Found}
      BY <1>1 DEF VP!Informed
    <3> QED BY <1>1, <3>1, <3>2 DEF VP!VersionsOrdered
  <2> QED BY <2>1, <2>2, <2>3 DEF VP!Informer
<1>6. VP!CloudType /\ VP!SeedKept
  <2>1. VP!SeedClusters \in Seq(VP!ClusterIDs)
    BY Assumed, VP!SeedType
  <2>2. VP!IsPrefix(VP!SeedClusters, VP!SeedClusters)
    BY <2>1, Assumed, VP!PrefixElements
  <2> QED BY <1>1, <2>1, <2>2 DEF VP!CloudType, VP!SeedKept
<1>7. VP!WorkerType
  BY Assumed, VP!AbsentType, OperatorAssumption
  DEF Init, VP!WorkerType, VP!Locations, V!Absent, VP!Absent, V!NoStatus,
      VP!NoStatus, V!BudgetKinds, VP!BudgetKinds
<1>8. VP!StaleCopyIsNoticed /\ VP!CopyIsTruthful
  BY DEF Init, VP!StaleCopyIsNoticed, VP!CopyIsTruthful
<1>9. VP!RestingIsTruthful
  BY <1>1 DEF VP!RestingIsTruthful, VP!AtRest
<1> QED
  BY <1>4, <1>5, <1>6, <1>7, <1>8, <1>9, Assumed, VP!InvParts DEF IInv

-----------------------------------------------------------------------------
(* Steps.                                                                  *)

\* A step of the instances that leaves the provider alone does not touch what
\* the inventory controller looks at.
LEMMA InstanceAloneStep ==
  ASSUME IInv, I!Next, UNCHANGED <<cloudVars, inventoryVars, notices, inventoryBudget>>
  PROVE  IInv'
<1>1. IP!IInv'
  BY Assumed, SameInstanceSteps, IP!NextKeepsInv DEF IInv
<1>2. UNCHANGED VP!vars
  BY DEF inventoryVars, VP!vars, VP!apiVars, VP!cloudVars, VP!workVars, VP!envVars,
         cloudVars
<1>3. VP!IInv'
  BY <1>2, Assumed, VP!NextKeepsInv DEF IInv
<1> QED BY <1>1, <1>3 DEF IInv

\* One that the other controller takes part in is a step of both.
LEMMA CommonStep ==
  ASSUME IInv, I!Next, V!Next
  PROVE  IInv'
  BY Assumed, SameInstanceSteps, SameInventorySteps, IP!NextKeepsInv,
     VP!NextKeepsInv
  DEF IInv

\* The steps of the inventory controller and of the provider's goroutine lose
\* no cluster, and may change whether the inventory is in the cache.
LEMMA InventoryStep ==
  ASSUME IInv, V!Next, UNCHANGED <<instanceVars, instanceBudget>>,
         UNCHANGED cloudVars \/ V!Receive \/ V!Add
  PROVE  IInv'
<1>1. VP!IInv'
  BY Assumed, SameInventorySteps, VP!NextKeepsInv DEF IInv
<1>2. InventoryCached' \in BOOLEAN
  <2>1. inventoryCache'[Inventory] \in VP!Versions
    BY <1>1 DEF VP!IInv, VP!TypeOK
  <2> QED BY <2>1 DEF InventoryCached, VP!Versions
<1>3. /\ UNCHANGED IP!apiVars
      /\ instanceQueue' = instanceQueue /\ instanceBackoff' = instanceBackoff
      /\ UNCHANGED <<instances, instanceWatch, instancePC, instanceReq, instance>>
      /\ UNCHANGED instanceBudget
  BY DEF instanceVars, IP!apiVars
<1>4. /\ IP!Informer(IP!Versions) /\ IP!CloudType /\ IP!WorkerType
      /\ IP!RestingIsProvisioned
  BY Assumed, IP!InvParts DEF IInv
<1>5. IP!Informer(IP!Versions)'
  BY <1>3, <1>4, Assumed, IP!InformerStutters
<1>6. IP!CloudType' /\ \A id \in IP!ClusterIDs : IP!Held(id) => IP!Held(id)'
  <2>1. CASE UNCHANGED cloudVars
    <3>1. UNCHANGED IP!cloudVars
      BY <2>1 DEF cloudVars, IP!cloudVars
    <3> QED BY <1>4, <3>1, Assumed, IP!CloudStutters
  <2>2. CASE V!Receive
    <3>1. IP!ReceiveCluster
      BY <2>2 DEF V!Receive, V!ReceiveCluster, IP!ReceiveCluster, V!NoID, IP!NoID
    <3> QED BY <1>4, <3>1, Assumed, IP!ReceiveHolds
  <2>3. CASE V!Add
    <3>1. IP!AppendCluster
      BY <2>3 DEF V!Add, V!AppendCluster, IP!AppendCluster, V!NoID, IP!NoID
    <3> QED BY <1>4, <3>1, Assumed, IP!AppendHolds
  <2> QED BY <2>1, <2>2, <2>3
<1>7. IP!RestingIsProvisioned'
  <2>1. \A k \in Instances : IP!AtRest(k)' => IP!AtRest(k)
    BY <1>3 DEF IP!AtRest
  <2> QED BY <1>3, <1>4, <1>6, <2>1, Assumed, IP!RestingKept
<1>8. /\ instanceQueue \in SUBSET Instances /\ instanceBackoff \in SUBSET Instances
      /\ instanceBudget \in [IP!BudgetKinds -> Nat]
  BY <1>4 DEF IP!WorkerType
<1>9. IP!IInv'
  BY <1>2, <1>3, <1>5, <1>6, <1>7, <1>8, Assumed, IP!WorkerWaits DEF IInv
<1> QED BY <1>1, <1>9 DEF IInv

\* Every step of Operator is of one of these kinds.
LEMMA StepKinds ==
  ASSUME [Next]_vars
  PROVE  \/ I!Next /\ UNCHANGED <<cloudVars, inventoryVars, notices, inventoryBudget>>
         \/ I!Next /\ V!Next
         \/ /\ V!Next /\ UNCHANGED <<instanceVars, instanceBudget>>
            /\ UNCHANGED cloudVars \/ V!Receive \/ V!Add
         \/ UNCHANGED vars
<1> DEFINE alone == UNCHANGED <<cloudVars, inventoryVars, notices, inventoryBudget>>
<1>1. ASSUME NEW k \in Instances, CreateInstance(k)
      PROVE  I!Next /\ alone
  BY <1>1 DEF CreateInstance, InstanceAlone, I!CreateInstance, I!Next, I!cloudVars,
              cloudVars
<1>2. ASSUME NEW k \in Instances, InstanceRetry(k) \/ InstanceDequeue(k)
      PROVE  I!Next /\ alone
  BY <1>2 DEF InstanceRetry, InstanceDequeue, InstanceAlone, I!Retry, I!Dequeue,
              I!Next, I!cloudVars, cloudVars
<1>3. CASE ReconcileInstance /\ ~SendCluster
  <2>1. I!Next /\ alone
    BY <1>3 DEF ReconcileInstance, InstanceAlone, I!Next, I!Reconcile,
                I!GetInstance, I!GetInventory, I!CreateCluster, I!GetCluster,
                I!UpdateReady, I!ReportReady, I!ReportFailure, I!cloudVars, cloudVars
  <2> QED BY <2>1
<1>4. CASE SendCluster
  <2>1. I!Next /\ V!Next
    BY <1>4 DEF SendCluster, I!Next, I!Reconcile, V!Next
  <2> QED BY <2>1
<1>5. ASSUME NEW k \in Instances, InstanceWatchEvent(k)
      PROVE  I!Next /\ V!Next
  BY <1>5 DEF InstanceWatchEvent, I!Next, V!Next
<1>6. CASE \/ EditInventory \/ InventoryWatchEvent \/ InventoryInstanceEvent
           \/ InventoryResync \/ InventoryRetry \/ InventoryDequeue
           \/ ReconcileInventory
  <2>1. V!Next
    BY <1>6 DEF EditInventory, InventoryWatchEvent, InventoryInstanceEvent,
                InventoryResync, InventoryRetry, InventoryDequeue,
                ReconcileInventory, InventoryAlone, V!Next
  <2>2. UNCHANGED <<instanceVars, instanceBudget>>
    BY <1>6 DEF EditInventory, InventoryWatchEvent, InventoryInstanceEvent,
                InventoryResync, InventoryRetry, InventoryDequeue,
                ReconcileInventory, InventoryAlone
  <2>3. UNCHANGED cloudVars
    BY <1>6 DEF EditInventory, InventoryWatchEvent, InventoryInstanceEvent,
                InventoryResync, InventoryRetry, InventoryDequeue,
                ReconcileInventory, InventoryAlone, V!EditInventory, V!WatchEvent,
                V!InstanceEvent, V!Resync, V!Retry, V!Dequeue, V!Reconcile,
                V!GetInventory, V!Discover, V!UpdateInventoryStatus, V!cloudVars,
                cloudVars
  <2> QED BY <2>1, <2>2, <2>3
<1>7. CASE Receive \/ Add
  <2>1. V!Next /\ (V!Receive \/ V!Add) /\ UNCHANGED <<instanceVars, instanceBudget>>
    BY <1>7 DEF Receive, Add, V!Next
  <2> QED BY <2>1
<1> QED BY <1>1, <1>2, <1>3, <1>4, <1>5, <1>6, <1>7 DEF Next

\* A step that changes nothing changes nothing of either controller.
LEMMA BothStutter ==
  ASSUME UNCHANGED vars
  PROVE  UNCHANGED IP!vars /\ UNCHANGED VP!vars
  BY DEF vars, instanceVars, inventoryVars, IP!vars, IP!apiVars, IP!cloudVars,
         IP!workVars, IP!envVars, VP!vars, VP!apiVars, VP!cloudVars, VP!workVars,
         VP!envVars, cloudVars, InventoryCached

\* Whatever its kind, a step keeps the invariant.
LEMMA NextKeepsInv == IInv /\ [Next]_vars => IInv'
<1> SUFFICES ASSUME IInv, [Next]_vars PROVE IInv'
  OBVIOUS
<1>1. CASE UNCHANGED vars
  BY <1>1, BothStutter, Assumed, IP!NextKeepsInv, VP!NextKeepsInv DEF IInv
<1> QED BY <1>1, StepKinds, InstanceAloneStep, CommonStep, InventoryStep

-----------------------------------------------------------------------------
(* The life of an instance.                                                *)

\* The inventory's worker and the provider's goroutine neither make nor lose a
\* cluster, and touch no instance.
LEMMA InventoryMapped ==
  ASSUME IInv, V!Next, UNCHANGED <<instanceVars, instanceBudget>>,
         UNCHANGED cloudVars \/ V!Receive \/ V!Add
  PROVE  UNCHANGED IP!Life!vars
<1>0. IP!CloudType /\ instances' = instances
  BY Assumed, IP!InvParts DEF IInv, instanceVars
<1>1. ASSUME NEW id \in IP!ClusterIDs
      PROVE  IP!Held(id)' <=> IP!Held(id)
  <2>1. CASE UNCHANGED cloudVars
    BY <2>1 DEF cloudVars, IP!Held, IP!Listed
  <2>2. CASE V!Receive
    <3>1. IP!ReceiveCluster
      BY <2>2 DEF V!Receive, V!ReceiveCluster, IP!ReceiveCluster, V!NoID, IP!NoID
    <3> QED BY <1>0, <3>1, Assumed, IP!ReceiveHolds, IP!GoroutineAddsNothing
  <2>3. CASE V!Add
    <3>1. IP!AppendCluster
      BY <2>3 DEF V!Add, V!AppendCluster, IP!AppendCluster, V!NoID, IP!NoID
    <3> QED BY <1>0, <3>1, Assumed, IP!AppendHolds, IP!GoroutineAddsNothing
  <2> QED BY <2>1, <2>2, <2>3
<1>2. {id \in IP!ClusterIDs : IP!Held(id)}' = {id \in IP!ClusterIDs : IP!Held(id)}
  BY <1>1 DEF IP!ClusterIDs
<1> QED BY <1>0, <1>2 DEF IP!Life!vars

\* The steps of instances are those their own refinement maps, and a step of
\* the inventory is none of an instance's life.
LEMMA StepMapped ==
  ASSUME IInv, [Next]_vars
  PROVE  [IP!Life!Next]_(IP!Life!vars)
<1>1. CASE I!Next
  BY <1>1, Assumed, SameInstanceSteps, IP!StepMapped DEF IInv
<1>2. CASE UNCHANGED vars
  BY <1>2, BothStutter, Assumed, IP!StepMapped DEF IInv
<1> QED BY <1>1, <1>2, StepKinds, InventoryMapped

\* An instance's life is the same in both instances of its module.
LEMMA SameLife ==
  /\ IP!Life!Init => I!Life!Init
  /\ [IP!Life!Next]_(IP!Life!vars) => [I!Life!Next]_(I!Life!vars)
  BY DEF I!Life!Init, IP!Life!Init, I!Life!Next, IP!Life!Next, I!Life!vars,
         IP!Life!vars, I!Life!Ask, IP!Life!Ask, I!Life!Drop, IP!Life!Drop,
         I!Life!Make, IP!Life!Make, I!Life!Bind, IP!Life!Bind, I!Life!Doubt,
         IP!Life!Doubt, I!Life!Lose, IP!Life!Lose, I!NoID, IP!NoID,
         I!ClusterIDs, IP!ClusterIDs, I!SeedClusters, IP!SeedClusters,
         I!ClusterID, IP!ClusterID, I!Held, IP!Held, I!Listed, IP!Listed

-----------------------------------------------------------------------------
(* The theorems.                                                           *)

(* NothingIsDropped, for any set of instances and names, any capacity of   *)
(* the channel and any bounds.                                             *)
THEOREM Safety == Spec => []NothingIsDropped
<1>1. IInv => NothingIsDropped
  <2> SUFFICES ASSUME IInv PROVE NothingIsDropped
    OBVIOUS
  <2>1. I!RestingIsProvisioned
    BY DEF IInv, IP!IInv, IP!RestingIsProvisioned, I!RestingIsProvisioned,
           IP!AtRest, I!AtRest, IP!Backed, I!Backed, IP!NoID, I!NoID, IP!Held,
           I!Held, IP!Listed, I!Listed
  <2>2. V!RestingIsTruthful
    BY DEF IInv, VP!IInv, VP!RestingIsTruthful, V!RestingIsTruthful,
           VP!AtRest, V!AtRest, VP!SeedClusters, V!SeedClusters, VP!ClusterID,
           V!ClusterID, VP!IsPrefix, V!IsPrefix
  <2> QED BY <2>1, <2>2 DEF NothingIsDropped
<1> QED BY <1>1, InitInv, NextKeepsInv, PTL DEF Spec

(* ImplementsLifecycle: what the instance controller implements by itself  *)
(* it implements beside the inventory's, whose steps are none of its own.  *)
THEOREM Refinement == Spec => ImplementsLifecycle
<1>1. Init => I!Life!Init
  BY InitAsAlone, Assumed, IP!InitMapped, SameLife
<1>2. IInv /\ [Next]_vars => [I!Life!Next]_(I!Life!vars)
  BY StepMapped, SameLife
<1> QED
  BY <1>1, <1>2, InitInv, NextKeepsInv, PTL
  DEF Spec, ImplementsLifecycle, I!ImplementsLifecycle, I!Life!Spec

=============================================================================
