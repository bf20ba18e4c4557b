-------------------------- MODULE InventoryController --------------------------
(***************************************************************************)
(* The ProviderInventory controller                                        *)
(* (controllers/dbaas/providerinventory_controller.go): it copies the list *)
(* of the provider's clusters into the inventory's status.  An inventory   *)
(* is reconciled on events of its own and of the instances that refer to   *)
(* it.  The instance controller, which adds clusters to the provider and   *)
(* then updates its instance, is part of the environment here.             *)
(*                                                                         *)
(* The version of an inventory is                                          *)
(*   [rv, live, status |-> [services, synced]]                             *)
(* with services the ServiceIDs of status.databaseServices and synced the  *)
(* condition "SpecSynced".  The condition is never set to False: creating  *)
(* the cloud service and listing its clusters do not fail.                 *)
(***************************************************************************)
EXTENDS KubeApi, ProviderCloud, SequencesExt

CONSTANTS
  NoKey,           \* the worker has no request
  Budget           \* how often each thing the environment does may happen

BudgetKinds == {"create", "edit", "delete", "make", "fault", "crash"}

ASSUME InventoryAssumption ==
  /\ NoKey \notin Keys
  /\ Budget \in [BudgetKinds -> Nat]

VARIABLES
  queue,           \* requests ready to be taken
  backoff,         \* requests added again through the rate limiter
  pc,              \* where in Reconcile the worker is
  req,             \* the request it is working on
  inventory,       \* its copy of the inventory (the local variable)
  notices,         \* inventories an instance event is on its way for
  budget           \* what is left of Budget

workVars == <<queue, backoff>>
envVars  == <<notices, budget>>
vars == <<apiVars, cloudVars, workVars, pc, req, inventory, envVars>>

-----------------------------------------------------------------------------
NoStatus == [services |-> <<>>, synced |-> "Absent"]
Absent   == [rv |-> 0, live |-> FALSE, status |-> NoStatus]

Statuses == [services : Seq(ClusterIDs), synced : {"Absent", "True"}]
Versions == [rv : Nat, live : BOOLEAN, status : Statuses]

Locations == {"idle", "getInventory", "discover", "update"}

TypeOK ==
  /\ server \in [Keys -> Versions]
  /\ cache  \in [Keys -> Versions]
  /\ watch  \in [Keys -> Seq(Versions)]
  /\ addCluster \in Seq(ClusterIDs)
  /\ adding \in ClusterIDs \cup {NoID}
  /\ clusters \in Seq(ClusterIDs)
  /\ queue   \in SUBSET Keys
  /\ backoff \in SUBSET Keys
  /\ pc \in Locations
  /\ req \in IF pc = "idle" THEN {NoKey} ELSE Keys
  /\ inventory \in Versions
  /\ notices \in SUBSET Keys
  /\ budget \in [BudgetKinds -> Nat]

Init ==
  /\ server = [k \in Keys |-> Absent]
  /\ cache  = [k \in Keys |-> Absent]
  /\ watch  = [k \in Keys |-> <<>>]
  /\ InitCloud
  /\ queue = {}
  /\ backoff = {}
  /\ pc = "idle"
  /\ req = NoKey
  /\ inventory = Absent
  /\ notices = {}
  /\ budget = Budget

Spend(kind) ==
  /\ budget[kind] > 0
  /\ budget' = [budget EXCEPT ![kind] = @ - 1]

-----------------------------------------------------------------------------
(* The environment.                                                        *)

CreateInventory(k) ==
  /\ ~server[k].live
  /\ Spend("create")
  /\ Store(k, [Absent EXCEPT !.rv = server[k].rv + 1, !.live = TRUE])
  /\ UNCHANGED <<cloudVars, workVars, pc, req, inventory, notices>>

\* Metadata or credentialsRef: neither makes a difference to Reconcile.
EditInventory(k) ==
  /\ server[k].live
  /\ Spend("edit")
  /\ Store(k, [server[k] EXCEPT !.rv = @ + 1])
  /\ UNCHANGED <<cloudVars, workVars, pc, req, inventory, notices>>

DeleteInventory(k) ==
  /\ server[k].live
  /\ Spend("delete")
  /\ Store(k, [Absent EXCEPT !.rv = server[k].rv + 1])
  /\ UNCHANGED <<cloudVars, workVars, pc, req, inventory, notices>>

\* The instance controller makes a cluster ...
MakeCluster(name) ==
  /\ Spend("make")
  /\ Send(ClusterID(name))
  /\ UNCHANGED <<apiVars, workVars, pc, req, inventory, notices>>

\* ... and instances of k are created, edited, updated and deleted.
InstanceChanges(k) ==
  /\ notices' = notices \cup {k}
  /\ UNCHANGED <<apiVars, cloudVars, workVars, pc, req, inventory, budget>>

\* A new process: the provider starts again from its built-in clusters, and
\* the informers report every inventory and every instance anew.
Restart ==
  /\ Spend("crash")
  /\ Relist
  /\ ResetCloud
  /\ queue' = {k \in Keys : server[k].live}
  /\ backoff' = {}
  /\ pc' = "idle"
  /\ req' = NoKey
  /\ inventory' = Absent
  /\ notices' \in SUBSET Keys

-----------------------------------------------------------------------------
(* The informers, the work queue and the cloud's goroutine.                *)

WatchEvent(k) ==
  /\ Observe(k)
  /\ queue' = queue \cup {k}
  /\ UNCHANGED <<cloudVars, backoff, pc, req, inventory, envVars>>

\* instanceMapFn: an event of an instance enqueues the inventory it names,
\* be it there or not.
InstanceEvent(k) ==
  /\ k \in notices
  /\ notices' = notices \ {k}
  /\ queue' = queue \cup {k}
  /\ UNCHANGED <<apiVars, cloudVars, backoff, pc, req, inventory, budget>>

Resync ==
  /\ queue' = queue \cup {k \in Keys : cache[k].live}
  /\ UNCHANGED <<apiVars, cloudVars, backoff, pc, req, inventory, envVars>>

Retry(k) ==
  /\ k \in backoff
  /\ backoff' = backoff \ {k}
  /\ queue' = queue \cup {k}
  /\ UNCHANGED <<apiVars, cloudVars, pc, req, inventory, envVars>>

Receive ==
  /\ ReceiveCluster
  /\ UNCHANGED <<apiVars, workVars, pc, req, inventory, envVars>>

Add ==
  /\ AppendCluster
  /\ UNCHANGED <<apiVars, workVars, pc, req, inventory, envVars>>

-----------------------------------------------------------------------------
(* How a step of Reconcile ends.                                           *)

Goto(loc, copy) ==
  /\ pc' = loc
  /\ inventory' = copy
  /\ UNCHANGED <<req, workVars>>

Return ==
  /\ pc' = "idle"
  /\ req' = NoKey
  /\ inventory' = Absent
  /\ UNCHANGED workVars

ReturnRequeue ==
  /\ pc' = "idle"
  /\ req' = NoKey
  /\ inventory' = Absent
  /\ backoff' = backoff \cup {req}
  /\ UNCHANGED queue

-----------------------------------------------------------------------------
(* Faulty variants of the steps below, part of no specification.           *)

\* What is synced is left alone.
GetInventoryOnce ==
  /\ pc = "getInventory"
  /\ \/ /\ cache[req].live /\ cache[req].status.synced # "True"
        /\ Goto("discover", cache[req])
     \/ /\ ~cache[req].live \/ cache[req].status.synced = "True"
        /\ Return
  /\ UNCHANGED <<apiVars, cloudVars, envVars>>

\* The clusters are listed in the status only the first time.
DiscoverIfNone ==
  /\ pc = "discover"
  /\ Goto("update",
       [inventory EXCEPT !.status.synced = "True",
                         !.status.services = IF @ = <<>> THEN clusters ELSE @])
  /\ UNCHANGED <<apiVars, cloudVars, envVars>>

\* A failed update is logged and that is all.
UpdateOnce ==
  /\ pc = "update"
  /\ \/ /\ Current(req, inventory)
        /\ StoreStatus(req, inventory)
        /\ UNCHANGED budget
     \/ /\ ~Current(req, inventory)
        /\ UNCHANGED <<apiVars, budget>>
     \/ /\ Spend("fault")
        /\ UNCHANGED apiVars
  /\ Return
  /\ UNCHANGED <<cloudVars, notices>>

-----------------------------------------------------------------------------
(* Reconcile.                                                              *)

Dequeue(k) ==
  /\ pc = "idle"
  /\ k \in queue
  /\ queue' = queue \ {k}
  /\ pc' = "getInventory"
  /\ req' = k
  /\ UNCHANGED <<apiVars, cloudVars, backoff, inventory, envVars>>

\* Creating the cloud service reads the secret and looks at nothing of it, so
\* the inventory's read leads straight to the list of clusters.
GetInventory ==
  /\ pc = "getInventory"
  /\ \/ /\ ~cache[req].live
        /\ Return
        /\ UNCHANGED budget
     \/ /\ cache[req].live
        /\ Goto("discover", cache[req])
        /\ UNCHANGED budget
     \/ /\ Spend("fault")
        /\ ReturnRequeue
  /\ UNCHANGED <<apiVars, cloudVars, notices>>

\* DiscoverClusters lists what the goroutine has appended so far.
Discover ==
  /\ pc = "discover"
  /\ Goto("update", [inventory EXCEPT !.status.services = clusters,
                                      !.status.synced = "True"])
  /\ UNCHANGED <<apiVars, cloudVars, envVars>>

\* updateInventoryStatus answers a conflict with nil.
UpdateInventoryStatus ==
  /\ pc = "update"
  /\ \/ /\ Current(req, inventory)
        /\ StoreStatus(req, inventory)
        /\ Return
        /\ UNCHANGED budget
     \/ /\ Conflict(req, inventory)
        /\ Return
        /\ UNCHANGED <<apiVars, budget>>
     \/ /\ Missing(req)
        /\ ReturnRequeue
        /\ UNCHANGED <<apiVars, budget>>
     \/ /\ Spend("fault")                 \* the request does not arrive
        /\ ReturnRequeue
        /\ UNCHANGED apiVars
     \/ /\ Spend("fault")                 \* the response does not arrive
        /\ Current(req, inventory)
        /\ StoreStatus(req, inventory)
        /\ ReturnRequeue
  /\ UNCHANGED <<cloudVars, notices>>

Reconcile ==
  \/ GetInventory
  \/ Discover
  \/ UpdateInventoryStatus

-----------------------------------------------------------------------------
Next ==
  \/ \E k \in Keys : CreateInventory(k)
  \/ \E k \in Keys : EditInventory(k)
  \/ \E k \in Keys : DeleteInventory(k)
  \/ \E name \in Names : MakeCluster(name)
  \/ \E k \in Keys : InstanceChanges(k)
  \/ Restart
  \/ \E k \in Keys : WatchEvent(k)
  \/ \E k \in Keys : InstanceEvent(k)
  \/ Resync
  \/ \E k \in Keys : Retry(k)
  \/ Receive
  \/ Add
  \/ \E k \in Keys : Dequeue(k)
  \/ Reconcile

Spec == Init /\ [][Next]_vars

(* Goroutines run, events arrive, delays end; and the manager's client     *)
(* resyncs its caches, if only every ten hours (main.go sets no            *)
(* SyncPeriod).  Users, instances, faults and restarts owe nothing.        *)
Fairness ==
  /\ WF_vars(Reconcile)
  /\ WF_vars(Receive)
  /\ WF_vars(Add)
  /\ WF_vars(Resync)
  /\ \A k \in Keys : WF_vars(WatchEvent(k))
  /\ \A k \in Keys : WF_vars(InstanceEvent(k))
  /\ \A k \in Keys : WF_vars(Retry(k))
  /\ \A k \in Keys : SF_vars(Dequeue(k))

FairSpec == Spec /\ Fairness

-----------------------------------------------------------------------------
(* Properties.                                                             *)

\* Nothing is on its way that would make the controller look at k.
AtRest(k) ==
  /\ watch[k] = <<>>
  /\ k \notin queue \cup backoff
  /\ req # k

(* An inventory nothing will look at again is synced, and what it lists is *)
(* what the provider had at some moment of this process' life, in order:   *)
(* no cluster that a restart has lost, none left out between two others.   *)
(* Reconcile drops its request when the update is refused as a conflict    *)
(* (updateInventoryStatus), and an update may be stored and its answer     *)
(* lost.                                                                   *)
RestingIsTruthful ==
  \A k \in Keys :
    server[k].live /\ AtRest(k) =>
      /\ server[k].status.synced = "True"
      /\ IsPrefix(SeedClusters, server[k].status.services)
      /\ IsPrefix(server[k].status.services, clusters)

(* The inventory comes to list all that the provider has.  The event of    *)
(* the instance may be handled before the goroutine has appended the       *)
(* instance's cluster; then the next resync has to put it right.           *)
EventuallyListed ==
  \A k \in Keys :
    <>[](server[k].live) => <>[](server[k].status.services = clusters)

-----------------------------------------------------------------------------
(* Why the first holds: an invariant that every step preserves.            *)

\* A copy an update would refuse is one the worker will be told of, or has
\* been told of already.
StaleCopyIsNoticed ==
  pc \notin {"idle", "getInventory"} /\ inventory.rv # server[req].rv
    => watch[req] # <<>> \/ req \in queue

\* The copy about to be stored lists what the provider had a moment ago.
CopyIsTruthful ==
  pc = "update" =>
    /\ inventory.status.synced = "True"
    /\ IsPrefix(SeedClusters, inventory.status.services)
    /\ IsPrefix(inventory.status.services, clusters)

IInv ==
  /\ TypeOK
  /\ InformerCatchesUp
  /\ VersionsOrdered
  /\ IsPrefix(SeedClusters, clusters)
  /\ StaleCopyIsNoticed
  /\ CopyIsTruthful
  /\ RestingIsTruthful

=============================================================================
