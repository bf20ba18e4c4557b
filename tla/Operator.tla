------------------------------- MODULE Operator -------------------------------
(***************************************************************************)
(* The instance and the inventory controller in one process (main.go): two *)
(* workers, two queues and two informers over one provider.  The instance  *)
(* controller looks for the inventory in the cache the inventory's         *)
(* informer fills; the events of instances also enqueue their inventory    *)
(* (instanceMapFn); both controllers call the same provider.               *)
(*                                                                         *)
(* One inventory, which was there when the process started and stays.      *)
(* Every step is a step of one controller, with what the other one sees of *)
(* it.  Users create instances and edit the inventory; what else they do,  *)
(* restarts and the resyncs of instances the controllers' modules have.    *)
(***************************************************************************)
EXTENDS ProviderCloud, SequencesExt

CONSTANTS
  Instances, Inventory, NoKey,
  InstanceBudget, InventoryBudget

VARIABLES
  instances, instanceCache, instanceWatch, instanceQueue, instanceBackoff,
  instancePC, instanceReq, instance, instanceBudget,
  inventories, inventoryCache, inventoryWatch, inventoryQueue, inventoryBackoff,
  inventoryPC, inventoryReq, inventory, notices, inventoryBudget

InventoryCached == inventoryCache[Inventory].live

I == INSTANCE InstanceController WITH
       Keys <- Instances, Budget <- InstanceBudget,
       server <- instances, cache <- instanceCache, watch <- instanceWatch,
       queue <- instanceQueue, backoff <- instanceBackoff,
       pc <- instancePC, req <- instanceReq,
       inventoryCached <- InventoryCached, budget <- instanceBudget

V == INSTANCE InventoryController WITH
       Keys <- {Inventory}, Budget <- InventoryBudget,
       server <- inventories, cache <- inventoryCache, watch <- inventoryWatch,
       queue <- inventoryQueue, backoff <- inventoryBackoff,
       pc <- inventoryPC, req <- inventoryReq, budget <- inventoryBudget

ASSUME OperatorAssumption ==
  /\ NoKey \notin Instances \cup {Inventory}
  /\ InstanceBudget \in [I!BudgetKinds -> Nat]
  /\ InventoryBudget \in [V!BudgetKinds -> Nat]

\* What each controller has for itself.
instanceVars ==
  <<instances, instanceCache, instanceWatch, instanceQueue, instanceBackoff,
    instancePC, instanceReq, instance>>
inventoryVars ==
  <<inventories, inventoryCache, inventoryWatch, inventoryQueue,
    inventoryBackoff, inventoryPC, inventoryReq, inventory>>

vars == <<cloudVars, instanceVars, instanceBudget, inventoryVars, notices,
          inventoryBudget>>

\* The process has listed the inventory and has looked at nothing yet.
Found == [V!Absent EXCEPT !.rv = 1, !.live = TRUE]

Init ==
  /\ instances = [k \in Instances |-> I!Absent]
  /\ instanceCache = instances
  /\ instanceWatch = [k \in Instances |-> <<>>]
  /\ instanceQueue = {}
  /\ instanceBackoff = {}
  /\ instancePC = "idle"
  /\ instanceReq = NoKey
  /\ instance = I!Absent
  /\ instanceBudget = InstanceBudget
  /\ inventories = [k \in {Inventory} |-> Found]
  /\ inventoryCache = inventories
  /\ inventoryWatch = [k \in {Inventory} |-> <<>>]
  /\ inventoryQueue = {Inventory}
  /\ inventoryBackoff = {}
  /\ inventoryPC = "idle"
  /\ inventoryReq = NoKey
  /\ inventory = V!Absent
  /\ notices = {}
  /\ inventoryBudget = InventoryBudget
  /\ InitCloud

-----------------------------------------------------------------------------
(* Steps of the instances, their informer and their worker.                *)

InstanceAlone(step) ==
  /\ UNCHANGED <<inventoryVars, notices, inventoryBudget>>
  /\ step

CreateInstance(k) ==
  \E name \in I!NameParams : InstanceAlone(I!CreateInstance(k, name))

\* A faulty variant of the next: the builder's Watches in the place of its For,
\* so that an instance's event reaches the inventory alone.
InstanceWatchEventMapped(k) ==
  /\ V!InstanceChanges(Inventory)
  /\ I!Observe(k)
  /\ UNCHANGED <<instanceQueue, instanceBackoff, instancePC, instanceReq,
                 instance, instanceBudget>>

\* The event goes to both controllers.
InstanceWatchEvent(k) ==
  /\ V!InstanceChanges(Inventory)
  /\ I!WatchEvent(k)

InstanceRetry(k) == InstanceAlone(I!Retry(k))

InstanceDequeue(k) == InstanceAlone(I!Dequeue(k))

\* The cluster is sent to the provider the other controller lists.
SendCluster ==
  /\ \E name \in Names : V!MakeCluster(name)
  /\ I!SendCluster

ReconcileInstance ==
  \/ InstanceAlone(I!GetInstance)
  \/ InstanceAlone(I!GetInventory)
  \/ InstanceAlone(I!CreateCluster)
  \/ SendCluster
  \/ InstanceAlone(I!GetCluster)
  \/ InstanceAlone(I!UpdateReady)
  \/ InstanceAlone(I!ReportReady)
  \/ InstanceAlone(I!ReportFailure)

-----------------------------------------------------------------------------
(* Steps of the inventory, its informer and its worker.                    *)

InventoryAlone(step) ==
  /\ step
  /\ UNCHANGED <<instanceVars, instanceBudget>>

EditInventory == InventoryAlone(V!EditInventory(Inventory))

InventoryWatchEvent == InventoryAlone(V!WatchEvent(Inventory))

InventoryInstanceEvent == InventoryAlone(V!InstanceEvent(Inventory))

InventoryResync == InventoryAlone(V!Resync)

InventoryRetry == InventoryAlone(V!Retry(Inventory))

InventoryDequeue == InventoryAlone(V!Dequeue(Inventory))

ReconcileInventory == InventoryAlone(V!Reconcile)

-----------------------------------------------------------------------------
(* The provider's goroutine.                                               *)

Receive ==
  /\ V!Receive
  /\ UNCHANGED <<instanceVars, instanceBudget>>

Add ==
  /\ V!Add
  /\ UNCHANGED <<instanceVars, instanceBudget>>

-----------------------------------------------------------------------------
Next ==
  \/ \E k \in Instances : CreateInstance(k)
  \/ \E k \in Instances : InstanceWatchEvent(k)
  \/ \E k \in Instances : InstanceRetry(k)
  \/ \E k \in Instances : InstanceDequeue(k)
  \/ ReconcileInstance
  \/ EditInventory
  \/ InventoryWatchEvent
  \/ InventoryInstanceEvent
  \/ InventoryResync
  \/ InventoryRetry
  \/ InventoryDequeue
  \/ ReconcileInventory
  \/ Receive
  \/ Add

Spec == Init /\ [][Next]_vars

(* The fairness of both controllers: see there.  One inventory never waits *)
(* for another, and the goroutine's two steps alternate.                   *)
Fairness ==
  /\ \A k \in Instances : WF_vars(InstanceWatchEvent(k))
  /\ \A k \in Instances : WF_vars(InstanceRetry(k))
  /\ \A k \in Instances : SF_vars(InstanceDequeue(k))
  /\ WF_vars(ReconcileInstance)
  /\ WF_vars(InventoryWatchEvent)
  /\ WF_vars(InventoryInstanceEvent)
  /\ WF_vars(InventoryResync)
  /\ WF_vars(InventoryRetry)
  /\ WF_vars(InventoryDequeue)
  /\ WF_vars(ReconcileInventory)
  /\ WF_vars(Receive \/ Add)

FairSpec == Spec /\ Fairness

-----------------------------------------------------------------------------
(* Properties.                                                             *)

(* Neither controller drops a request it has not carried out, whatever the *)
(* other one does to the provider, the caches and the queues they share:   *)
(* what the instance waits for is in the inventory's cache and the         *)
(* provider's list, which the steps of the other worker and the goroutine  *)
(* change between any two of its own.                                      *)
NothingIsDropped == I!RestingIsProvisioned /\ V!RestingIsTruthful

(* With the other controller's steps between its own, the instances' one   *)
(* still binds an instance once, to a cluster the provider has, and makes  *)
(* it ready only then: InventoryController's worker and goroutine take no  *)
(* cluster away between the list that is read and the status written.      *)
ImplementsLifecycle == I!ImplementsLifecycle

(* What the operator is for: an instance the provider can serve ends up    *)
(* Ready, and the inventory comes to list the cluster the instance is      *)
(* bound to.  The first GetCluster may come before the goroutine has       *)
(* appended the cluster, and so may the reconciliation of the inventory    *)
(* that the instance's last event leads to; updates conflict, requests and *)
(* answers get lost.                                                       *)
EventuallyServed ==
  \A k \in Instances :
    <>[]I!Provisionable(k)
      => <>[](/\ I!Backed(k)
              /\ Contains(inventories[Inventory].status.services,
                          instances[k].status.id))

=============================================================================
