-------------------------- MODULE InstanceController --------------------------
(***************************************************************************)
(* The ProviderInstance controller                                         *)
(* (controllers/dbaas/providerinstance_controller.go) with the provider    *)
(* cloud it provisions clusters in.  One worker takes a request from the   *)
(* work queue, reads the instance from the informer's cache, creates or    *)
(* looks up the cluster and writes the status back; users, watch events,   *)
(* the cloud's goroutine and restarts interleave with its steps.           *)
(*                                                                         *)
(* The version of an instance is                                           *)
(*   [rv, live, name, status |-> [phase, id, cond]]                        *)
(* with name the provisioning parameter "name", id the status' InstanceID  *)
(* and cond the one condition the controller sets ("ReadyForBinding").     *)
(***************************************************************************)
EXTENDS KubeApi, ProviderCloud

CONSTANTS
  NoKey,           \* the worker has no request
  Budget           \* how often each thing the environment does may happen

BudgetKinds == {"create", "edit", "delete", "flap", "fault", "crash"}

ASSUME InstanceAssumption ==
  /\ NoKey \notin Keys
  /\ Budget \in [BudgetKinds -> Nat]

VARIABLES
  queue,           \* requests ready to be taken (the work queue's dirty set)
  backoff,         \* requests added again through the rate limiter
  pc,              \* where in Reconcile the worker is
  req,             \* the request it is working on
  instance,        \* its copy of the instance (the local variable)
  inventoryCached, \* the referenced ProviderInventory is in the cache
  budget           \* what is left of Budget

workVars == <<queue, backoff>>
envVars  == <<inventoryCached, budget>>
vars == <<apiVars, cloudVars, workVars, pc, req, instance, envVars>>

-----------------------------------------------------------------------------
(* Instances and their status.                                             *)
NoCondition == [status |-> "Absent", reason |-> "", msg |-> ""]
NoStatus    == [phase |-> "", id |-> NoID, cond |-> NoCondition]
Absent      == [rv |-> 0, live |-> FALSE, name |-> NoName, status |-> NoStatus]

NameParams == Names \cup {NoName}

Conditions ==
  [status : {"Absent", "True", "False"},
   reason : {"", "Ready", "InventoryNotFound", "BackendError"},
   msg    : {"", "inventory not found", "name is required", "creation failed",
             "AlreadyExists", "could not find cluster",
             "instance not found", "api unavailable"}]

Statuses ==
  [phase : {"", "Unknown", "Pending", "Creating", "Ready"},
   id    : ClusterIDs \cup {NoID},
   cond  : Conditions]

Versions == [rv : Nat, live : BOOLEAN, name : NameParams, status : Statuses]

Locations == {"idle", "getInstance", "getInventory", "createCluster",
              "sendCluster", "getCluster", "updateReady", "reportReady",
              "reportFailure"}

TypeOK ==
  /\ server \in [Keys -> Versions]
  /\ cache  \in [Keys -> Versions]
  /\ watch  \in [Keys -> Seq(Versions)]
  /\ addCluster \in Seq(ClusterIDs)
  /\ adding \in ClusterIDs \cup {NoID}
  /\ clusters \in Seq(ClusterIDs)
  /\ queue   \in SUBSET Keys
  /\ backoff \in SUBSET Keys
  /\ pc \in Locations
  /\ req \in IF pc = "idle" THEN {NoKey} ELSE Keys
  /\ instance \in Versions
  /\ inventoryCached \in BOOLEAN
  /\ budget \in [BudgetKinds -> Nat]

Init ==
  /\ server = [k \in Keys |-> Absent]
  /\ cache  = [k \in Keys |-> Absent]
  /\ watch  = [k \in Keys |-> <<>>]
  /\ InitCloud
  /\ queue = {}
  /\ backoff = {}
  /\ pc = "idle"
  /\ req = NoKey
  /\ instance = Absent
  /\ inventoryCached \in BOOLEAN
  /\ budget = Budget

Spend(kind) ==
  /\ budget[kind] > 0
  /\ budget' = [budget EXCEPT ![kind] = @ - 1]

-----------------------------------------------------------------------------
(* The environment: users, the inventory, the process' life.               *)

CreateInstance(k, name) ==
  /\ ~server[k].live
  /\ Spend("create")
  /\ Store(k, [rv |-> server[k].rv + 1, live |-> TRUE, name |-> name,
               status |-> NoStatus])
  /\ UNCHANGED <<cloudVars, workVars, pc, req, instance, inventoryCached>>

\* Metadata or spec change; the parameters may or may not be different.
EditInstance(k, name) ==
  /\ server[k].live
  /\ Spend("edit")
  /\ Store(k, [server[k] EXCEPT !.rv = @ + 1, !.name = name])
  /\ UNCHANGED <<cloudVars, workVars, pc, req, instance, inventoryCached>>

\* Nothing holds the object back: the controller sets no finalizer.
DeleteInstance(k) ==
  /\ server[k].live
  /\ Spend("delete")
  /\ Store(k, [Absent EXCEPT !.rv = server[k].rv + 1])
  /\ UNCHANGED <<cloudVars, workVars, pc, req, instance, inventoryCached>>

InventoryChanges ==
  /\ Spend("flap")
  /\ inventoryCached' = ~inventoryCached
  /\ UNCHANGED <<apiVars, cloudVars, workVars, pc, req, instance>>

\* The process dies at any point and the Deployment starts it again: what it
\* held in memory is gone, and the informers list every object anew.
Restart ==
  /\ Spend("crash")
  /\ Relist
  /\ ResetCloud
  /\ queue' = {k \in Keys : server[k].live}
  /\ backoff' = {}
  /\ pc' = "idle"
  /\ req' = NoKey
  /\ instance' = Absent
  /\ inventoryCached' \in BOOLEAN

-----------------------------------------------------------------------------
(* The informer, the work queue and the cloud's goroutine.                 *)

\* Every event of an instance enqueues it.
WatchEvent(k) ==
  /\ Observe(k)
  /\ queue' = queue \cup {k}
  /\ UNCHANGED <<cloudVars, backoff, pc, req, instance, envVars>>

\* The cache's periodic resync reports every instance it holds as updated.
Resync ==
  /\ queue' = queue \cup {k \in Keys : cache[k].live}
  /\ UNCHANGED <<apiVars, cloudVars, backoff, pc, req, instance, envVars>>

\* The rate limiter's delay is over.
Retry(k) ==
  /\ k \in backoff
  /\ backoff' = backoff \ {k}
  /\ queue' = queue \cup {k}
  /\ UNCHANGED <<apiVars, cloudVars, pc, req, instance, envVars>>

Receive ==
  /\ ReceiveCluster
  /\ UNCHANGED <<apiVars, workVars, pc, req, instance, envVars>>

Add ==
  /\ AppendCluster
  /\ UNCHANGED <<apiVars, workVars, pc, req, instance, envVars>>

-----------------------------------------------------------------------------
(* How a step of Reconcile ends.                                           *)

Goto(loc, copy) ==
  /\ pc' = loc
  /\ instance' = copy
  /\ UNCHANGED req

\* return ctrl.Result{}, nil: the request is forgotten.
Return ==
  /\ pc' = "idle"
  /\ req' = NoKey
  /\ instance' = Absent
  /\ UNCHANGED workVars

\* return with an error or with Requeue: the request comes back later.
ReturnRequeue ==
  /\ pc' = "idle"
  /\ req' = NoKey
  /\ instance' = Absent
  /\ backoff' = backoff \cup {req}
  /\ UNCHANGED queue

\* apimeta.SetStatusCondition on the copy, the first thing updateStatus does.
WithCondition(copy, status, reason, msg) ==
  [copy EXCEPT !.status.cond =
     [status |-> status, reason |-> reason, msg |-> msg]]

\* A failed step: the condition it reports, still to be written.
Fail(copy, reason, msg) ==
  /\ Goto("reportFailure", WithCondition(copy, "False", reason, msg))
  /\ UNCHANGED workVars

\* A faulty variant of the next: the cluster's Name for its Id.
DetailedByName(copy, id) ==
  [copy EXCEPT !.status.id = <<copy.name>>, !.status.phase = "Ready"]

\* updateClusterDetails and the Ready phase, on the copy.
Detailed(copy, id) ==
  [copy EXCEPT !.status.id = id, !.status.phase = "Ready"]

-----------------------------------------------------------------------------
(* Faulty variants of the steps below: mistakes the properties have to     *)
(* tell from the code.  They are part of no specification.                 *)

\* A missing instance is an error like any other.
GetInstanceOrError ==
  /\ pc = "getInstance"
  /\ \/ /\ ~cache[req].live
        /\ ReturnRequeue
     \/ /\ cache[req].live
        /\ Goto("getInventory", [cache[req] EXCEPT !.status.phase = "Unknown"])
        /\ UNCHANGED workVars
  /\ UNCHANGED <<apiVars, cloudVars, envVars>>

\* The InstanceID is not looked at before a cluster is created.
GetInventoryThenCreate ==
  /\ pc = "getInventory"
  /\ inventoryCached
  /\ Goto("createCluster", [instance EXCEPT !.status.phase = "Creating"])
  /\ UNCHANGED <<apiVars, cloudVars, workVars, envVars>>

\* The error of GetCluster is ignored.
GetClusterUnchecked ==
  /\ pc = "getCluster"
  /\ Goto("updateReady", Detailed(instance, instance.status.id))
  /\ UNCHANGED <<apiVars, cloudVars, workVars, envVars>>

\* A cluster that is gone ends the work.
GetClusterIfAny ==
  /\ pc = "getCluster"
  /\ \/ /\ Listed(instance.status.id)
        /\ Goto("updateReady", Detailed(instance, instance.status.id))
        /\ UNCHANGED workVars
     \/ /\ ~Listed(instance.status.id)
        /\ Return
  /\ UNCHANGED <<apiVars, cloudVars, envVars>>

\* The failure is reported and that is all.
ReportFailureOnce ==
  /\ pc = "reportFailure"
  /\ \/ /\ Current(req, instance)
        /\ StoreStatus(req, instance)
     \/ /\ ~Current(req, instance)
        /\ UNCHANGED apiVars
  /\ Return
  /\ UNCHANGED <<cloudVars, envVars>>

-----------------------------------------------------------------------------
(* Reconcile, one action per call that others can interleave with.         *)

Dequeue(k) ==
  /\ pc = "idle"
  /\ k \in queue
  /\ queue' = queue \ {k}
  /\ pc' = "getInstance"
  /\ req' = k
  /\ UNCHANGED <<apiVars, cloudVars, backoff, instance, envVars>>

GetInstance ==
  /\ pc = "getInstance"
  /\ \/ /\ ~cache[req].live
        /\ Return
        /\ UNCHANGED budget
     \/ /\ cache[req].live
        /\ Goto("getInventory", [cache[req] EXCEPT !.status.phase = "Unknown"])
        /\ UNCHANGED <<workVars, budget>>
     \/ /\ Spend("fault")
        /\ ReturnRequeue
  /\ UNCHANGED <<apiVars, cloudVars, inventoryCached>>

\* Creating the cloud service changes nothing and cannot fail, so the read of
\* the inventory leads straight to the branch on the InstanceID.
GetInventory ==
  /\ pc = "getInventory"
  /\ \/ /\ ~inventoryCached
        /\ Fail(instance, "InventoryNotFound", "inventory not found")
        /\ UNCHANGED budget
     \/ /\ inventoryCached
        /\ IF instance.status.id = NoID
             THEN Goto("createCluster", [instance EXCEPT !.status.phase = "Creating"])
             ELSE Goto("getCluster", [instance EXCEPT !.status.phase = "Pending"])
        /\ UNCHANGED <<workVars, budget>>
     \/ /\ Spend("fault")
        /\ ReturnRequeue
  /\ UNCHANGED <<apiVars, cloudVars, inventoryCached>>

\* r.CreateCluster up to the send: the parameters, then the scan.
CreateCluster ==
  /\ pc = "createCluster"
  /\ \/ /\ instance.name = NoName
        /\ Fail(instance, "BackendError", "name is required")
     \/ /\ instance.name \in InvalidNames
        /\ Fail(instance, "BackendError", "creation failed")
     \/ /\ instance.name \in Names \ InvalidNames
        /\ Listed(ClusterID(instance.name))
        /\ Fail(instance, "BackendError", "AlreadyExists")
     \/ /\ instance.name \in Names \ InvalidNames
        /\ ~Listed(ClusterID(instance.name))
        /\ Goto("sendCluster", instance)
        /\ UNCHANGED workVars
  /\ UNCHANGED <<apiVars, cloudVars, envVars>>

SendCluster ==
  /\ pc = "sendCluster"
  /\ Send(ClusterID(instance.name))
  /\ Goto("updateReady", Detailed(instance, ClusterID(instance.name)))
  /\ UNCHANGED <<apiVars, workVars, envVars>>

GetCluster ==
  /\ pc = "getCluster"
  /\ \/ /\ Listed(instance.status.id)
        /\ Goto("updateReady", Detailed(instance, instance.status.id))
        /\ UNCHANGED workVars
     \/ /\ ~Listed(instance.status.id)
        /\ Fail(instance, "BackendError", "could not find cluster")
  /\ UNCHANGED <<apiVars, cloudVars, envVars>>

\* An update that fails with neither success nor a conflict leads to a second
\* one, through updateStatus, that also sets the Ready condition.
SecondAttempt(msg) ==
  /\ Goto("reportReady", WithCondition(instance, "True", "Ready", msg))
  /\ UNCHANGED workVars

UpdateReady ==
  /\ pc = "updateReady"
  /\ \/ /\ Current(req, instance)
        /\ StoreStatus(req, instance)
        /\ Return
        /\ UNCHANGED budget
     \/ /\ Conflict(req, instance)
        /\ ReturnRequeue
        /\ UNCHANGED <<apiVars, budget>>
     \/ /\ Missing(req)
        /\ SecondAttempt("instance not found")
        /\ UNCHANGED <<apiVars, budget>>
     \/ /\ Spend("fault")                 \* the request does not arrive
        /\ SecondAttempt("api unavailable")
        /\ UNCHANGED apiVars
     \/ /\ Spend("fault")                 \* the response does not arrive
        /\ Current(req, instance)
        /\ StoreStatus(req, instance)
        /\ SecondAttempt("api unavailable")
  /\ UNCHANGED <<cloudVars, inventoryCached>>

\* updateStatus answers a conflict with nil, so the request is forgotten.
ReportReady ==
  /\ pc = "reportReady"
  /\ \/ /\ Current(req, instance)
        /\ StoreStatus(req, instance)
        /\ Return
        /\ UNCHANGED budget
     \/ /\ Conflict(req, instance)
        /\ Return
        /\ UNCHANGED <<apiVars, budget>>
     \/ /\ Missing(req)
        /\ ReturnRequeue
        /\ UNCHANGED <<apiVars, budget>>
     \/ /\ Spend("fault")
        /\ ReturnRequeue
        /\ UNCHANGED apiVars
     \/ /\ Spend("fault")
        /\ Current(req, instance)
        /\ StoreStatus(req, instance)
        /\ ReturnRequeue
  /\ UNCHANGED <<cloudVars, inventoryCached>>

\* updateStatus with the failure; whatever becomes of it, Reconcile returns an
\* error, the failure's or the update's.
ReportFailure ==
  /\ pc = "reportFailure"
  /\ \/ /\ Current(req, instance)
        /\ StoreStatus(req, instance)
        /\ UNCHANGED budget
     \/ /\ ~Current(req, instance)
        /\ UNCHANGED <<apiVars, budget>>
     \/ /\ Spend("fault")
        /\ UNCHANGED apiVars
  /\ ReturnRequeue
  /\ UNCHANGED <<cloudVars, inventoryCached>>

Reconcile ==
  \/ GetInstance
  \/ GetInventory
  \/ CreateCluster
  \/ SendCluster
  \/ GetCluster
  \/ UpdateReady
  \/ ReportReady
  \/ ReportFailure

-----------------------------------------------------------------------------
Next ==
  \/ \E k \in Keys, name \in NameParams : CreateInstance(k, name)
  \/ \E k \in Keys, name \in NameParams : EditInstance(k, name)
  \/ \E k \in Keys : DeleteInstance(k)
  \/ InventoryChanges
  \/ Restart
  \/ \E k \in Keys : WatchEvent(k)
  \/ Resync
  \/ \E k \in Keys : Retry(k)
  \/ Receive
  \/ Add
  \/ \E k \in Keys : Dequeue(k)
  \/ Reconcile

Spec == Init /\ [][Next]_vars

(* Goroutines that can run do run; the informer's connection delivers what *)
(* the server stored; the rate limiter's delay is finite; the work queue   *)
(* is first-in first-out, so no request waits for ever.  Users, faults,    *)
(* restarts and resyncs owe nothing.                                       *)
Fairness ==
  /\ WF_vars(Reconcile)
  /\ WF_vars(Receive)
  /\ WF_vars(Add)
  /\ \A k \in Keys : WF_vars(WatchEvent(k))
  /\ \A k \in Keys : WF_vars(Retry(k))
  /\ \A k \in Keys : SF_vars(Dequeue(k))

FairSpec == Spec /\ Fairness

-----------------------------------------------------------------------------
(* Properties.                                                             *)

\* Nothing is on its way that would make the controller look at k.
AtRest(k) ==
  /\ watch[k] = <<>>
  /\ k \notin queue \cup backoff
  /\ req # k

\* Ready, and the provider has the cluster the InstanceID names.
Backed(k) ==
  /\ server[k].status.phase = "Ready"
  /\ server[k].status.id # NoID
  /\ Held(server[k].status.id)

(* The controller never drops a request it has not carried out: an         *)
(* instance nothing will look at again is Ready and has its cluster.       *)
(* Reconcile ends with a nil error, and its request is forgotten, in three *)
(* places, one of which is an update that was refused as a conflict        *)
(* (updateStatus); and a restart empties the queue and the provider.       *)
RestingIsProvisioned ==
  \A k \in Keys : server[k].live /\ AtRest(k) => Backed(k)

(* An instance keeps its InstanceID as long as it lives.  Reconcile works  *)
(* on a cached copy that may lack the id a former pass has stored, makes   *)
(* a cluster for it and writes the whole status back; the parameters may   *)
(* have been changed to another name in between.                           *)
IDSticky ==
  [][\A k \in Keys :
       /\ server[k].live /\ server[k].status.id # NoID
       /\ server'[k].live
       => server'[k].status.id = server[k].status.id]_vars

(* The step that makes an instance Ready is taken when the provider has    *)
(* the cluster, or has at least been sent it: not from a copy that is      *)
(* older than a restart, and not when the channel could not take it.       *)
ReadyOnlyWhenBacked ==
  [][\A k \in Keys :
       /\ server[k].status.phase # "Ready"
       /\ server'[k].status.phase = "Ready"
       => Backed(k)']_vars

\* The instance asks for a cluster the provider can make.
Provisionable(k) ==
  server[k].live /\ server[k].name \in Names \ (InvalidNames \cup {SeededName})

(* Reconcile always returns: CreateCluster does not wait for ever on the   *)
(* addCluster channel, which the goroutine drains.                         *)
WorkerReturns == pc # "idle" ~> pc = "idle"

(* A deleted instance is forgotten: whatever Reconcile was doing with the  *)
(* instance when it disappeared, no request for it goes round for ever.    *)
DeletedIsForgotten ==
  \A k \in Keys : <>[](~server[k].live) => <>[]AtRest(k)

(* Ready does not outlive the cluster: the provider forgets its clusters   *)
(* in a restart, and the status of their instances comes to say so.        *)
LostClusterIsReported ==
  \A k \in Keys :
    (server[k].live /\ server[k].status.phase = "Ready" /\ ~Backed(k))
      ~> ~(server[k].live /\ server[k].status.phase = "Ready" /\ ~Backed(k))

-----------------------------------------------------------------------------
(* What it all amounts to: the life of an instance as InstanceLifecycle    *)
(* has it, when versions, copies and requests are left out.                *)
Life ==
  INSTANCE InstanceLifecycle WITH
    IDs      <- ClusterIDs,
    BuiltIn  <- {SeedClusters[i] : i \in 1..3},
    asked    <- {k \in Keys : server[k].live},
    bound    <- [k \in Keys |-> IF server[k].live THEN server[k].status.id
                                                  ELSE NoID],
    ready    <- {k \in Keys : server[k].live /\ server[k].status.phase = "Ready"},
    provider <- {id \in ClusterIDs : Held(id)}

(* Every step of the controller, its users, the provider and a restart is  *)
(* one of InstanceLifecycle's, or changes nothing there: the whole status  *)
(* is written back from a cached copy, and yet an instance is bound once,  *)
(* to a cluster the provider has, and is made ready in that very step.     *)
ImplementsLifecycle == Life!Spec

-----------------------------------------------------------------------------
(* Why they hold: an invariant that every step preserves.                  *)

Working == pc \notin {"idle", "getInstance"}

\* A copy an update would accept has the InstanceID its instance has, or one
\* for an instance that has none; so a failure is reported without the former.
CopyKeepsID ==
  Working =>
    /\ instance.rv <= server[req].rv
    /\ instance.rv = server[req].rv =>
         \/ server[req].status.id = instance.status.id
         \/ server[req].status.id = NoID /\ instance.status.phase = "Ready"

\* A copy an update would refuse is one the worker will be told of, or has
\* been told of already.
StaleCopyIsNoticed ==
  Working /\ instance.rv # server[req].rv => watch[req] # <<>> \/ req \in queue

\* What the branches of Reconcile have found out about the copy.
BranchTaken ==
  /\ pc \in {"createCluster", "sendCluster"} => instance.status.id = NoID
  /\ pc = "sendCluster" => instance.name \in Names
  /\ pc = "getCluster" => instance.status.id # NoID
  /\ pc \in {"updateReady", "reportReady"} =>
       /\ instance.status.id # NoID
       /\ Held(instance.status.id)
  /\ Working => (instance.status.phase = "Ready"
                   <=> pc \in {"updateReady", "reportReady"})

IInv ==
  /\ TypeOK
  /\ InformerCatchesUp
  /\ VersionsOrdered
  /\ CopyKeepsID
  /\ StaleCopyIsNoticed
  /\ BranchTaken
  /\ RestingIsProvisioned

-----------------------------------------------------------------------------
(* What the documentation says and the code does not do.                   *)

(* "Creating: Provisioning is in progress" (the CRD on status.phase): an   *)
(* instance does not stay in that phase for ever.  It does when the        *)
(* cluster was created and the update that carried its id was refused: the *)
(* reconciliation that the log announces finds the name taken.             *)
CreatingEnds ==
  \A k \in Keys :
    <>[](Provisionable(k) /\ inventoryCached)
      => []<>(server[k].status.phase # "Creating")

(* The InstanceID is used "to identify the instance on the database        *)
(* service" (the CRD on status.instanceID): two instances have not the     *)
(* same one.  They have when the second asks for the name before the       *)
(* goroutine has appended the cluster of the first.                        *)
IDIdentifies ==
  \A k, l \in Keys :
    /\ k # l
    /\ server[k].live /\ server[l].live
    /\ server[k].status.id # NoID
    => server[k].status.id # server[l].status.id

=============================================================================
