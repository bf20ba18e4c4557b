------------------------- MODULE ConnectionController -------------------------
(***************************************************************************)
(* The ProviderConnection controller                                       *)
(* (controllers/dbaas/providerconnection_controller.go).  For a connection *)
(* to a service its inventory lists it makes a Secret and a ConfigMap,     *)
(* each controlled by the connection, and names them in the status.  It is *)
(* woken by events of connections only: not by those of the inventory it   *)
(* reads nor by those of the children it makes.  Users, the inventory, the *)
(* garbage collector, informers and restarts interleave with its steps.    *)
(*                                                                         *)
(* The version of a connection is                                          *)
(*   [rv, live, uid, service, status |-> [cond, refs]]                     *)
(* with service the spec's databaseServiceID, cond the message of the      *)
(* condition "ReadyForBinding", True for "ready" only, and refs whether    *)
(* credentialsRef and connectionInfoRef are set.  The version of a child   *)
(* is [rv, live, uid, owner, intact], with owner the uid in its controller *)
(* reference and intact whether it says what the code writes into it.  The *)
(* resourceVersion an object is created with serves as its uid.            *)
(***************************************************************************)
EXTENDS KubeApi

CONSTANTS
  NoKey,               \* the worker has no request
  Services,            \* databaseServiceIDs that users ask for
  NoService,           \* that of no connection
  Kinds,               \* the children of a connection, in the order they are made
  MaxLag,              \* bound: events of a child the informer may be behind
  Budget               \* how often each thing the environment does may happen

\* "early" bounds how often the collector is ahead of the controller,
\* "trouble" edits, changes by others, failed calls and restarts together.
BudgetKinds == {"create", "early", "trouble"}

ASSUME ConnectionAssumption ==
  /\ NoKey \notin Keys
  /\ NoService \notin Services
  /\ Kinds \in Seq({"Secret", "ConfigMap"}) /\ Kinds # <<>>
  /\ MaxLag \in Nat \ {0}
  /\ Budget \in [BudgetKinds -> Nat]

Numbers  == 1..Len(Kinds)
Children == Numbers \X Keys      \* <<i, k>>: the i-th child of connection k

VARIABLES
  objects,             \* the children the server holds
  objectCache,         \* ... as the manager's client sees them
  objectWatch,         \* ... and has yet to see them
  doomed,              \* uids of the children the collector is about to delete
  inventory,           \* the referenced inventory, as cached
  queue,               \* requests ready to be taken
  backoff,             \* requests added again through the rate limiter
  pc,                  \* where in Reconcile the worker is
  req,                 \* the request it is working on
  connection,          \* its copy of the connection (the local variable)
  nth,                 \* the child it is at
  object,              \* its copy of the child it is about to write
  budget               \* what is left of Budget

Child == INSTANCE KubeApi WITH
           Keys <- Children, server <- objects, cache <- objectCache,
           watch <- objectWatch

childVars == <<objects, objectCache, objectWatch>>
workVars  == <<queue, backoff>>
copyVars  == <<pc, req, connection, nth, object>>
vars == <<apiVars, childVars, doomed, inventory, workVars, copyVars, budget>>

-----------------------------------------------------------------------------
NoStatus == [cond |-> "none", refs |-> FALSE]
Absent   == [rv |-> 0, live |-> FALSE, uid |-> 0, service |-> NoService,
             status |-> NoStatus]
NoChild  == [rv |-> 0, live |-> FALSE, uid |-> 0, owner |-> 0, intact |-> FALSE]

Conditions ==
  {"none", "inventory not found", "not in sync", "not listed",
   "backend error", "ready"}

Versions ==
  [rv : Nat, live : BOOLEAN, uid : Nat, service : Services \cup {NoService},
   status : [cond : Conditions, refs : BOOLEAN]]

ChildVersions ==
  [rv : Nat, live : BOOLEAN, uid : Nat, owner : Nat, intact : BOOLEAN]

\* An inventory that is synced stays so; it may be deleted and made again.
Inventories ==
  [live : {TRUE}, synced : {TRUE}, services : SUBSET Services]
    \cup [live : BOOLEAN, synced : {FALSE}, services : {{}}]

Locations ==
  {"idle", "getConnection", "getInventory", "getChild", "writeChild",
   "updateStatus", "reportFailure"}

TypeOK ==
  /\ server \in [Keys -> Versions]
  /\ cache  \in [Keys -> Versions]
  /\ watch  \in [Keys -> Seq(Versions)]
  /\ objects     \in [Children -> ChildVersions]
  /\ objectCache \in [Children -> ChildVersions]
  /\ objectWatch \in [Children -> Seq(ChildVersions)]
  /\ doomed \in [Children -> Nat]
  /\ inventory \in Inventories
  /\ queue   \in SUBSET Keys
  /\ backoff \in SUBSET Keys
  /\ pc \in Locations
  /\ req \in IF pc = "idle" THEN {NoKey} ELSE Keys
  /\ connection \in Versions
  /\ nth \in IF pc \in {"idle", "getConnection", "getInventory"} THEN {1} ELSE Numbers
  /\ object \in ChildVersions
  /\ budget \in [BudgetKinds -> Nat]

Init ==
  /\ server = [k \in Keys |-> Absent]
  /\ cache  = [k \in Keys |-> Absent]
  /\ watch  = [k \in Keys |-> <<>>]
  /\ objects     = [c \in Children |-> NoChild]
  /\ objectCache = [c \in Children |-> NoChild]
  /\ objectWatch = [c \in Children |-> <<>>]
  /\ doomed = [c \in Children |-> 0]
  /\ inventory \in Inventories
  /\ queue = {}
  /\ backoff = {}
  /\ pc = "idle"
  /\ req = NoKey
  /\ connection = Absent
  /\ nth = 1
  /\ object = NoChild
  /\ budget = Budget

Spend(kind) ==
  /\ budget[kind] > 0
  /\ budget' = [budget EXCEPT ![kind] = @ - 1]

-----------------------------------------------------------------------------
(* The environment: users, the inventory, the garbage collector, the       *)
(* process' life.                                                          *)

CreateConnection(k, service) ==
  /\ ~server[k].live
  /\ Spend("create")
  /\ Store(k, [rv |-> server[k].rv + 1, live |-> TRUE, uid |-> server[k].rv + 1,
               service |-> service, status |-> NoStatus])
  /\ UNCHANGED <<childVars, doomed, inventory, workVars, copyVars>>

EditConnection(k, service) ==
  /\ server[k].live
  /\ Spend("trouble")
  /\ Store(k, [server[k] EXCEPT !.rv = @ + 1, !.service = service])
  /\ UNCHANGED <<childVars, doomed, inventory, workVars, copyVars>>

\* Nothing holds the object back: the controller sets no finalizer.
DeleteConnection(k) ==
  /\ server[k].live
  /\ Store(k, [Absent EXCEPT !.rv = server[k].rv + 1])
  /\ UNCHANGED <<childVars, doomed, inventory, workVars, copyVars, budget>>

InventoryChanges ==
  /\ Spend("trouble")
  /\ inventory' \in Inventories \ {inventory}
  /\ UNCHANGED <<apiVars, childVars, doomed, workVars, copyVars>>

Removed(c) == [NoChild EXCEPT !.rv = objects[c].rv + 1]

\* Somebody deletes a child, or overwrites what it says.
Tamper(c) ==
  /\ objects[c].live
  /\ Spend("trouble")
  /\ Len(objectWatch[c]) < MaxLag
  /\ \/ Child!Store(c, Removed(c))
     \/ Child!Store(c, [objects[c] EXCEPT !.rv = @ + 1, !.intact = FALSE])
  /\ UNCHANGED <<apiVars, doomed, inventory, workVars, copyVars>>

\* The connection the child's controller reference means is not there: it has
\* been deleted, and perhaps another one has been created in its place.
Orphan(c) ==
  /\ objects[c].live /\ objects[c].owner # 0
  /\ ~(server[c[2]].live /\ server[c[2]].uid = objects[c].owner)

\* The collector finds an orphan, before the controller has heard that the
\* connection is gone (so often at most as Budget says) or after ...
FindOrphan(c) ==
  /\ Orphan(c)
  /\ doomed[c] = 0
  /\ doomed' = [doomed EXCEPT ![c] = objects[c].uid]
  /\ \/ /\ watch[c[2]] # <<>>
        /\ Spend("early")
     \/ /\ watch[c[2]] = <<>>
        /\ UNCHANGED budget
  /\ UNCHANGED <<apiVars, childVars, inventory, workVars, copyVars>>

\* ... and deletes the object of that uid, whoever owns it by then.
CollectOrphan(c) ==
  /\ doomed[c] # 0
  /\ Len(objectWatch[c]) < MaxLag
  /\ doomed' = [doomed EXCEPT ![c] = 0]
  /\ \/ /\ objects[c].live /\ objects[c].uid = doomed[c]
        /\ Child!Store(c, Removed(c))
     \/ /\ ~(objects[c].live /\ objects[c].uid = doomed[c])
        /\ UNCHANGED childVars
  /\ UNCHANGED <<apiVars, inventory, workVars, copyVars, budget>>

\* The process dies at any point and is started again.
Restart ==
  /\ Spend("trouble")
  /\ Relist
  /\ Child!Relist
  /\ queue' = {k \in Keys : server[k].live}
  /\ backoff' = {}
  /\ pc' = "idle"
  /\ req' = NoKey
  /\ connection' = Absent
  /\ nth' = 1
  /\ object' = NoChild
  /\ UNCHANGED <<doomed, inventory>>

-----------------------------------------------------------------------------
(* The informers and the work queue.                                       *)

\* Every event of a connection enqueues it.
WatchEvent(k) ==
  /\ Observe(k)
  /\ queue' = queue \cup {k}
  /\ UNCHANGED <<childVars, doomed, inventory, backoff, copyVars, budget>>

\* An event of a child changes the cache and nothing else.
ChildEvent(c) ==
  /\ Child!Observe(c)
  /\ UNCHANGED <<apiVars, doomed, inventory, workVars, copyVars, budget>>

Resync ==
  /\ queue' = queue \cup {k \in Keys : cache[k].live}
  /\ UNCHANGED <<apiVars, childVars, doomed, inventory, backoff, copyVars, budget>>

Retry(k) ==
  /\ k \in backoff
  /\ backoff' = backoff \ {k}
  /\ queue' = queue \cup {k}
  /\ UNCHANGED <<apiVars, childVars, doomed, inventory, copyVars, budget>>

-----------------------------------------------------------------------------
(* How a step of Reconcile ends.                                           *)

Goto(loc) ==
  /\ pc' = loc
  /\ UNCHANGED <<req, workVars>>

Done ==
  /\ pc' = "idle"
  /\ req' = NoKey
  /\ connection' = Absent
  /\ nth' = 1
  /\ object' = NoChild

\* return ctrl.Result{}, nil: the request is forgotten.
Return ==
  /\ Done
  /\ UNCHANGED workVars

\* return with an error or with Requeue: the request comes back later.
ReturnRequeue ==
  /\ Done
  /\ backoff' = backoff \cup {req}
  /\ UNCHANGED queue

\* Faulty variant, part of no specification: a failure starts a new status.
WithConditionOnly(copy, cond) ==
  [copy EXCEPT !.status = [cond |-> cond, refs |-> FALSE]]

WithCondition(copy, cond) == [copy EXCEPT !.status.cond = cond]

\* A failed step: the condition it reports, still to be written.
Fail(cond) ==
  /\ connection' = WithCondition(connection, cond)
  /\ object' = NoChild
  /\ Goto("reportFailure")
  /\ UNCHANGED nth

\* What Reconcile finds out from its inventory (getClusterInstance): the
\* condition it will set, "ready" if it can go on.
Verdict(service) ==
  CASE ~inventory.live                 -> "inventory not found"
    [] inventory.live /\ ~inventory.synced -> "not in sync"
    [] inventory.synced /\ service \notin inventory.services -> "not listed"
    [] OTHER                           -> "ready"

-----------------------------------------------------------------------------
(* Faulty variants of the definitions below, part of no specification.     *)

\* A child that is there needs no other controller.
AsWantedOfAnybody(child) == child.live /\ child.intact

\* The children are looked at until the status names them.
AsWantedIfNamed(child) == connection.status.refs \/ child.live

\* The controller reference is forgotten.
WantedUnowned(c) ==
  [rv |-> objects[c].rv + 1, live |-> TRUE, uid |-> objects[c].rv + 1,
   owner |-> 0, intact |-> TRUE]

\* The inventory of a connection that is ready is not looked at.
GetInventoryOnce ==
  /\ pc = "getInventory"
  /\ LET ok == Verdict(connection.service) = "ready" \/ connection.status.cond = "ready"
     IN \/ ok  /\ Goto("getChild") /\ UNCHANGED <<connection, nth, object>>
        \/ ~ok /\ Fail(Verdict(connection.service))
  /\ UNCHANGED <<apiVars, childVars, doomed, inventory, budget>>

\* The failure is reported and that is all.
ReportFailureOnce ==
  /\ pc = "reportFailure"
  /\ \/ Current(req, connection) /\ StoreStatus(req, connection)
     \/ ~Current(req, connection) /\ UNCHANGED apiVars
  /\ Return
  /\ UNCHANGED <<childVars, doomed, inventory, budget>>

-----------------------------------------------------------------------------
(* Reconcile, one action per call that others can interleave with.         *)

Dequeue(k) ==
  /\ pc = "idle"
  /\ k \in queue
  /\ queue' = queue \ {k}
  /\ pc' = "getConnection"
  /\ req' = k
  /\ UNCHANGED <<apiVars, childVars, doomed, inventory, backoff, connection,
                 nth, object, budget>>

GetConnection ==
  /\ pc = "getConnection"
  /\ \/ /\ ~cache[req].live
        /\ Return
        /\ UNCHANGED budget
     \/ /\ cache[req].live
        /\ connection' = cache[req]
        /\ Goto("getInventory")
        /\ UNCHANGED <<nth, object, budget>>
     \/ /\ Spend("trouble")
        /\ ReturnRequeue
  /\ UNCHANGED <<apiVars, childVars, doomed, inventory>>

\* The inventory is read, looked through, and the cloud service created for
\* it, which cannot fail.
GetInventory ==
  /\ pc = "getInventory"
  /\ \/ /\ Verdict(connection.service) # "ready"
        /\ Fail(Verdict(connection.service))
        /\ UNCHANGED budget
     \/ /\ Verdict(connection.service) = "ready"
        /\ Goto("getChild")
        /\ UNCHANGED <<connection, nth, object, budget>>
     \/ /\ Spend("trouble")
        /\ ReturnRequeue
  /\ UNCHANGED <<apiVars, childVars, doomed, inventory>>

\* The child is as it should be: the next one, or the status.
ChildDone ==
  IF nth < Len(Kinds)
    THEN Goto("getChild") /\ nth' = nth + 1
    ELSE Goto("updateStatus") /\ UNCHANGED nth

\* What the mutate function would leave as it is.
AsWanted(child) ==
  child.live /\ child.owner = connection.uid /\ child.intact

\* The first half of CreateOrUpdate: a cached read, then the mutate function.
\* A child's former controller has the connection's name, so
\* SetControllerReference replaces it.
GetChild ==
  /\ pc = "getChild"
  /\ \/ /\ AsWanted(objectCache[nth, req])
        /\ ChildDone
        /\ UNCHANGED <<connection, object, budget>>
     \/ /\ ~AsWanted(objectCache[nth, req])
        /\ object' = objectCache[nth, req]
        /\ Goto("writeChild")
        /\ UNCHANGED <<connection, nth, budget>>
     \/ /\ Spend("trouble")
        /\ Fail("backend error")
  /\ UNCHANGED <<apiVars, childVars, doomed, inventory>>

\* The child as the controller writes it: a new object or a new version.
Wanted(c) ==
  [rv |-> objects[c].rv + 1, live |-> TRUE,
   uid |-> IF object.live THEN objects[c].uid ELSE objects[c].rv + 1,
   owner |-> connection.uid, intact |-> TRUE]

\* The server takes a new object if there is none, an update if it is made
\* from the current version.
Accepted(c) ==
  IF object.live THEN Child!Current(c, object) ELSE ~objects[c].live

\* The second half: Create when the cache had no such child, else Update.
WriteChild ==
  /\ pc = "writeChild"
  /\ Len(objectWatch[nth, req]) < MaxLag
  /\ LET c == <<nth, req>> IN
     \/ /\ Accepted(c)
        /\ Child!Store(c, Wanted(c))
        /\ object' = NoChild
        /\ ChildDone
        /\ UNCHANGED <<connection, budget>>
     \/ /\ ~object.live /\ objects[c].live
        /\ Fail("backend error")
        /\ UNCHANGED <<childVars, budget>>
     \/ /\ object.live /\ Child!Conflict(c, object)
        /\ Fail("backend error")
        /\ UNCHANGED <<childVars, budget>>
     \/ /\ object.live /\ Child!Missing(c)
        /\ Fail("backend error")
        /\ UNCHANGED <<childVars, budget>>
     \/ /\ Spend("trouble")                 \* the request does not arrive
        /\ Fail("backend error")
        /\ UNCHANGED childVars
     \/ /\ Spend("trouble")                 \* the response does not arrive
        /\ Accepted(c)
        /\ Child!Store(c, Wanted(c))
        /\ Fail("backend error")
  /\ UNCHANGED <<apiVars, doomed, inventory>>

\* The copy with both references and the Ready condition.
Completed == [connection EXCEPT !.status = [cond |-> "ready", refs |-> TRUE]]

\* updateStatus answers a conflict with nil, so the request is forgotten.
UpdateStatus ==
  /\ pc = "updateStatus"
  /\ \/ /\ Current(req, connection)
        /\ StoreStatus(req, Completed)
        /\ Return
        /\ UNCHANGED budget
     \/ /\ Conflict(req, connection)
        /\ Return
        /\ UNCHANGED <<apiVars, budget>>
     \/ /\ Missing(req)
        /\ ReturnRequeue
        /\ UNCHANGED <<apiVars, budget>>
     \/ /\ Spend("trouble")
        /\ ReturnRequeue
        /\ UNCHANGED apiVars
     \/ /\ Spend("trouble")
        /\ Current(req, connection)
        /\ StoreStatus(req, Completed)
        /\ ReturnRequeue
  /\ UNCHANGED <<childVars, doomed, inventory>>

\* updateStatus with the failure; whatever becomes of it, Reconcile returns an
\* error, the failure's or the update's.
ReportFailure ==
  /\ pc = "reportFailure"
  /\ \/ /\ Current(req, connection)
        /\ StoreStatus(req, connection)
        /\ UNCHANGED budget
     \/ /\ ~Current(req, connection)
        /\ UNCHANGED <<apiVars, budget>>
     \/ /\ Spend("trouble")
        /\ UNCHANGED apiVars
  /\ ReturnRequeue
  /\ UNCHANGED <<childVars, doomed, inventory>>

Reconcile ==
  \/ GetConnection
  \/ GetInventory
  \/ GetChild
  \/ WriteChild
  \/ UpdateStatus
  \/ ReportFailure

-----------------------------------------------------------------------------
Next ==
  \/ \E k \in Keys, service \in Services : CreateConnection(k, service)
  \/ \E k \in Keys, service \in Services : EditConnection(k, service)
  \/ \E k \in Keys : DeleteConnection(k)
  \/ InventoryChanges
  \/ \E c \in Children : Tamper(c)
  \/ \E c \in Children : FindOrphan(c)
  \/ \E c \in Children : CollectOrphan(c)
  \/ Restart
  \/ \E k \in Keys : WatchEvent(k)
  \/ \E c \in Children : ChildEvent(c)
  \/ Resync
  \/ \E k \in Keys : Retry(k)
  \/ \E k \in Keys : Dequeue(k)
  \/ Reconcile

Spec == Init /\ [][Next]_vars

(* The worker runs, events arrive, delays end, the collector collects; and *)
(* the manager's client resyncs its caches, if only every ten hours        *)
(* (main.go sets no SyncPeriod).  Users, faults and restarts owe nothing.  *)
Fairness ==
  /\ WF_vars(Reconcile)
  /\ WF_vars(Resync)
  /\ \A c \in Children : WF_vars(FindOrphan(c))
  /\ \A c \in Children : WF_vars(CollectOrphan(c))
  /\ \A c \in Children : WF_vars(ChildEvent(c))
  /\ \A k \in Keys : WF_vars(WatchEvent(k))
  /\ \A k \in Keys : WF_vars(Retry(k))
  /\ \A k \in Keys : SF_vars(Dequeue(k))

FairSpec == Spec /\ Fairness

-----------------------------------------------------------------------------
(* Properties.                                                             *)

\* Nothing is on its way that would make the controller look at k.
AtRest(k) ==
  /\ watch[k] = <<>>
  /\ k \notin queue \cup backoff
  /\ req # k

\* The child is controlled by the connection there is now.
OwnChild(c) == objects[c].live /\ objects[c].owner = server[c[2]].uid

(* A connection nothing will look at again is ready, and no child it has   *)
(* belongs to a former connection of the same name, with which the         *)
(* collector would take it away.  Reconcile works on cached copies of the  *)
(* connection and of the children, each of which may be the predecessor's, *)
(* and drops its request when the status update is refused as a conflict.  *)
RestingOwnsChildren ==
  \A k \in Keys :
    server[k].live /\ AtRest(k) =>
      /\ server[k].status = [cond |-> "ready", refs |-> TRUE]
      /\ \A i \in Numbers : objects[i, k].live => OwnChild(<<i, k>>)

(* What the status of a connection refers to is never somebody else's: from *)
(* the moment the references are set, whatever happens to the children and  *)
(* whatever the worker still does from older copies, no child of the name   *)
(* belongs to a former connection.  An application that follows the         *)
(* reference must not read a secret that the collector is about to delete.  *)
BoundOwnsChildren ==
  \A k \in Keys, i \in Numbers :
    server[k].live /\ server[k].status.refs /\ objects[i, k].live
      => OwnChild(<<i, k>>)

(* A connection to a service its inventory lists comes to have its two     *)
(* children, its own and as written: after a call failed half way, after   *)
(* somebody deleted or overwrote one, after the collector, on its way to a *)
(* former connection's child, deleted the one that was taken over.  No     *)
(* event of a child wakes the controller; the next resync must.            *)
EventuallyBound ==
  \A k \in Keys :
    <>[](server[k].live /\ Verdict(server[k].service) = "ready")
      => <>[](\A i \in Numbers :
                OwnChild(<<i, k>>) /\ objects[i, k].intact)

(* A connection comes to say what its inventory says of the service: no    *)
(* event of the inventory wakes the controller.                            *)
FollowsInventory ==
  \A k \in Keys, v \in {"inventory not found", "not in sync", "not listed", "ready"} :
    <>[](server[k].live /\ Verdict(server[k].service) = v)
      => <>[](server[k].status.cond = v)

(* A deleted connection leaves nothing behind, though Reconcile may be     *)
(* about to create its children from a cached copy ("CR deleted since      *)
(* request queued, child objects getting GC'd, no requeue").               *)
NothingLeftBehind ==
  \A k \in Keys :
    <>[](~server[k].live)
      => <>[](AtRest(k) /\ \A i \in Numbers : ~objects[i, k].live)

-----------------------------------------------------------------------------
(* Why the first holds: an invariant that every step preserves.            *)

Working == pc \notin {"idle", "getConnection"}

\* A copy an update would refuse is one the worker will be told of, or has
\* been told of already.
StaleCopyIsNoticed ==
  Working /\ connection.rv # server[req].rv => watch[req] # <<>> \/ req \in queue

\* Connections of one name come one after the other, each with a uid of its
\* own: a resourceVersion there has been by then.
UidsGrow ==
  \A k \in Keys : \A v \in Informed(k) :
    /\ v.uid <= v.rv
    /\ \A w \in Informed(k) :
         v.rv <= w.rv /\ v.live /\ w.live => v.uid <= w.uid

\* So do their children's controllers, none of which is younger than any
\* connection the worker has yet to hear of.
OwnersGrow ==
  \A c \in Children : \A v \in Child!Informed(c) : v.live =>
    /\ v.owner <= server[c[2]].rv
    /\ \A w \in Child!Informed(c) : v.rv <= w.rv /\ w.live => v.owner <= w.owner
    /\ \A w \in Informed(c[2]) : w.live => v.owner <= w.uid

\* The worker's copy is of a connection no older than its children's owners
\* and no younger than those it has yet to hear of; if it is current, it is of
\* the connection there is.
CopyIsLatest ==
  Working =>
    /\ connection.uid <= connection.rv
    /\ connection.rv <= server[req].rv
    /\ connection.rv = server[req].rv => connection.uid = server[req].uid
    /\ \A w \in Informed(req) : w.live => connection.uid <= w.uid
    /\ \A i \in Numbers : \A v \in Child!Informed(<<i, req>>) :
         v.live => v.owner <= connection.uid

\* The children the worker is done with are the copy's.
DoneWith(i) ==
  \/ pc = "updateStatus"
  \/ pc \in {"getChild", "writeChild"} /\ i < nth

DoneAreOwned ==
  \A i \in Numbers :
    DoneWith(i) /\ objects[i, req].live => objects[i, req].owner = connection.uid

IInv ==
  /\ TypeOK
  /\ InformerCatchesUp
  /\ VersionsOrdered
  /\ EventsInOrder
  /\ Child!InformerCatchesUp
  /\ Child!VersionsOrdered
  /\ StaleCopyIsNoticed
  /\ UidsGrow
  /\ OwnersGrow
  /\ CopyIsLatest
  /\ DoneAreOwned
  /\ RestingOwnsChildren

(* Why what a bound connection refers to is never somebody else's: an      *)
(* invariant that every step preserves, given the one above.               *)

\* A connection whose references are set is the only one that the worker
\* knows of or has yet to hear of.
BoundIsKnown ==
  \A k \in Keys : server[k].live /\ server[k].status.refs =>
    /\ \A w \in Informed(k) : w.live => w.uid = server[k].uid
    /\ Working /\ req = k => connection.uid = server[k].uid

\* A copy the server would accept has the references if the server has them.
CopyKeepsRefs ==
  Working /\ connection.rv = server[req].rv
    => connection.status.refs = server[req].status.refs

\* No connection has the number 0.
LiveHasUid == \A k \in Keys : server[k].live => server[k].uid # 0

BInv ==
  /\ BoundOwnsChildren
  /\ BoundIsKnown
  /\ CopyKeepsRefs
  /\ LiveHasUid

-----------------------------------------------------------------------------
(* What it all amounts to: the binding of a name as ConnectionBinding has  *)
(* it, when versions, copies, requests and the inventory are left out.     *)
Binding ==
  INSTANCE ConnectionBinding WITH
    clock  <- [k \in Keys |-> server[k].rv],
    wants  <- [k \in Keys |-> IF server[k].live THEN server[k].uid ELSE 0],
    holder <- [c \in Children |-> IF objects[c].live THEN objects[c].owner ELSE 0],
    bound  <- {k \in Keys : server[k].live /\ server[k].status.refs}

(* Whatever users, the collector, failures and restarts do, a child passes *)
(* from a connection to a later one of its name only and, once a           *)
(* connection has its references, to no other: the steps of Reconcile, on  *)
(* copies of any age, are steps of ConnectionBinding.                      *)
ImplementsBinding == Binding!Spec

=============================================================================
