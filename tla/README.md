# A TLA+ model of the provider operator example

The operator in this repository integrates a database provider with the DBaaS
operator: three custom resources (inventory, instance, connection) are
reconciled against a provider cloud, and a fourth controller registers the
operator itself. The modules in this directory model its controllers with the
things that run concurrently with them (the API server and the informers'
caches, the goroutine behind the provider's cluster list, OLM and the garbage
collector, users, crashes), state what should hold of them, check it with TLC
on small instances and prove the main safety properties with TLAPS for
instances of any size.

## The system

| Part | Code | State it keeps | Operations |
|---|---|---|---|
| Instance controller | `controllers/dbaas/providerinstance_controller.go` | none of its own; `status` of each ProviderInstance (phase, instanceID, one condition) | `Reconcile`: get instance, get inventory, create or get the cluster, update the status (twice if the first update fails) |
| Inventory controller | `controllers/dbaas/providerinventory_controller.go` | `status` of each ProviderInventory (databaseServices, condition SpecSynced) | `Reconcile`: get inventory, list clusters, update the status; woken by its own events and by those of instances |
| Connection controller | `controllers/dbaas/providerconnection_controller.go` | `status` of each ProviderConnection, a Secret and a ConfigMap it controls | `Reconcile`: get connection, get inventory, find the service, create or update the two children, update the status |
| Registration controller | `controllers/dbaas/dbaasprovider_reconciler.go` | the cluster-scoped DBaaSProvider CR | `Reconcile`: get the Deployment, discover the CRD, get the CR, list ClusterRoles, create the CR; woken only by the create event of the operator's own Deployment |
| Provider cloud | `controllers/dbaas/testutil/*.go` (wired in by `main.go`) | list of clusters, `addCluster` channel of capacity 5, a mutex | create, get and list clusters; a goroutine appends what the channel brings |
| Manager | `main.go` | process memory: caches, work queues, the cloud above | start of everything, one worker per controller, no `SyncPeriod` (so the default resync of ten hours) |
| API types | `apis/dbaas/v1beta1` | — | scheme registration, generated deep copies |

How the parts interact:

* Controllers **read** through the manager's client, that is from informer
  caches which lag behind the server, and **write** status updates and new
  objects directly to the server. A status update carries the resourceVersion
  of the copy it was made from and is refused as a conflict if the object has
  changed since.
* Every event of an object enqueues a request for it. A request whose
  `Reconcile` returns an error or `Requeue` comes back through a rate limiter;
  one that returns neither is forgotten.
* An instance reads the existence of its inventory; an instance's events
  enqueue its inventory; a connection reads its inventory's status; instance and
  inventory share the provider cloud.
* `CreateCluster` and `GetCluster` scan the cluster list *after* releasing the
  mutex, and a created cluster is appended later by a goroutine. The provider
  and its clusters live in the memory of the operator's process.
* OLM creates and removes the Deployment and the ClusterRoles; the garbage
  collector removes the registration CR with the role that owns it.

What is hard about it, and hard to reach with a unit test, is the interleaving:
a copy from a cache that is updated by somebody else before the status is
written; an update whose answer is lost; a scan before an append; a restart that
forgets the clusters but not the statuses; an upgrade that replaces the owner of
the registration. `PROJECT.json` lists these hazards line by line.

What makes each part correct:

* Instance: no request is dropped before the instance is provisioned; an
  instance keeps its InstanceID; it becomes Ready only with a cluster; it ends up
  Ready if it can; a deleted instance leaves no request behind.
* Inventory: at rest it is synced and lists what the provider has; it catches up
  with what was added late.
* Connection: the children it reports exist, belong to this very connection and
  go with it.
* Registration: the CR comes into being, is owned by a role of the version that
  made it, and does not outlive the operator.

## Modules

| Module | Models |
|---|---|
| `KubeApi` | one kind of object: `server` (etcd), `cache` (informer), `watch` (events under way); the outcomes of an update; an accepted status update, a watch event, the list of a new process. External code, modelled as the controllers use it. Also what a controller may rely on: `InformerCatchesUp`, `VersionsOrdered`, `EventsInOrder`. |
| `ProviderCloud` | `fakeclient.go`: the channel `addCluster`, the cluster in the goroutine's hands `adding`, the list `clusters`. A cluster is its Id. |
| `InstanceController` | the instance controller over `KubeApi` and `ProviderCloud`. One worker; `pc` says which call comes next, `instance` is the local variable of `Reconcile`. |
| `InstanceLifecycle` | what the instance controller promises, abstractly: an instance is asked for, bound once to a cluster the provider has, reported ready or doubted, and dropped; the provider makes and loses clusters. `InstanceController` implements it (`ImplementsLifecycle`). |
| `InventoryController` | the inventory controller over `KubeApi` and `ProviderCloud`; instances are an environment that makes clusters and sends events. |
| `Operator` | the two controllers in one process: `InstanceController` and `InventoryController` instantiated over one provider. What one of them has for an environment is the other one: the inventory in the instance's way is the inventory's cache, the event of an instance wakes the inventory, the list the inventory copies is the one instances add to. |
| `ConnectionController` | the connection controller with two kinds of objects (`KubeApi` extended for connections and instantiated as `Child` for what they control), the garbage collector, the cached inventory, users and restarts. |
| `ConnectionBinding` | what the connection controller promises, abstractly: connections of one name come one after the other, their children pass from an earlier one to a later one only, and a bound connection's children are nobody else's. `ConnectionController` implements it (`ImplementsBinding`). |
| `ProviderRegistration` | the registration controller with OLM, garbage collection, the lazily started informers of the manager's client and successive processes of one or more versions. |
| `MC...` | the bounds of the runs. |
| `...Proofs` | theorems and proofs; `KubeApiProofs` has the lemmas on the informer that the controllers' proofs share. |

### Correspondence with the code

Every step of a `Reconcile` is one action per call that others can interleave
with, named after the call; between two calls the worker only changes local
variables. `Return` is `return ctrl.Result{}, nil`, `ReturnRequeue` is a return
with an error or with `Requeue: true` (the queue treats them alike). The
actions' disjuncts are the code's outcomes in their order: not found, success,
conflict, other error. An error that has no cause in the model (a failed or
unanswered call) spends the budget `fault` (`trouble` for connections); a write
whose answer is lost changes the server *and* takes the error path.

| Action | Code |
|---|---|
| `GetInstance`, `GetInventory` | `r.Get` from the cache; the phases Unknown, Pending and Creating that the code sets on its copy on the way |
| `CreateCluster`, `SendCluster` | `CreateCluster` of the service: checks and scan, then the send that may block |
| `GetCluster` | the scan for the InstanceID |
| `UpdateReady`, `ReportReady` | the status update with Ready, and the second attempt through `updateStatus` (line 145), which answers a conflict with nil |
| `ReportFailure` | `updateStatus` with a False condition; whatever becomes of it an error is returned |
| `Restart` | the process dies at any point; the informer lists anew, the cloud starts from its three built-in clusters |
| `Discover`, `UpdateInventoryStatus` | `DiscoverClusters`; `updateInventoryStatus` |
| `GetConnection`, `GetInventory` (connection) | the two reads; `Verdict` is `getClusterInstance` and the errors around it, evaluated on the inventory as cached |
| `GetChild`, `WriteChild` | the two halves of `CreateOrUpdate`, for the Secret and then for the ConfigMap: the cached read with the mutation (contents, `SetControllerReference`), and the create or update, which meets AlreadyExists, a conflict, NotFound or success |
| `UpdateStatus`, `ReportFailure` (connection) | the status update with both references; `updateStatus`, whose conflict is nil |
| `FindOrphan`, `CollectOrphan` | the garbage collector: it finds a child whose owner (by uid) is gone, and later deletes that child by the child's uid |
| `Tamper` | somebody else deletes or overwrites a child, which no event tells the controller of |
| `Announce` | the metadata informer's create event, through `ignoreOtherDeployments` and `evaluatePredicateObject` |
| `Sync(kind)` | an informer of the manager's client; the first sync is what the read that started the informer waits for |
| `CheckCrd`, `GetProvider`, `ListRoles`, `Create` | the steps of the registration's `Reconcile` |
| `InstanceWatchEvent`, `SendCluster` (operator) | steps both controllers take part in: an event through the instance's `For` and the inventory's `Watches` (`instanceMapFn`); a send to the provider the inventory lists |

Data are abstracted to what the properties distinguish. An instance has its
`name` parameter and the status fields `phase`, `instanceID` and the condition;
`metav1.Time`, the descriptive cluster fields and messages that no property
reads are left out. The name "" stands for a parameter that is not given,
`InvalidNames` for names with the suffix the fake provider refuses. A
connection has its uid, the service it asks for, its condition and whether its
two references are set; a child has the uid in its controller reference and
whether its contents are as the code writes them. A ClusterRole is its uid and
the version in its `olm.owner` label.

`Operator` starts with one inventory that exists and is never deleted, and has
no restart, no deletion of instances and no resync of instances: those are in
the controllers' own modules. What it adds is what no controller has alone, the
interleaving of two workers and one goroutine over one list and one cache.

Parts of the code that cannot be reached with the service `main.go` wires in
have no action: the error paths of `CreateCloudService` and `DiscoverClusters`
(neither fails), the error of `updateClusterDetails` (no cluster has an empty
Id), the goroutines for `deleteCluster` and `updateCluster` (nothing sends to
them).

`GetCluster`, `CreateCluster` and `ListClusters` read the slice while the goroutine
may be appending to it: a data race. A scan is one step of the model and sees the
list before or after the append. That covers every order of the two, not what a
read in the middle of the append could see (the slice's length, pointer and
capacity are separate words); no property speaks of that.

The model takes the permissions of the connection controller as granted.
`config/rbac/role.yaml` has no rule for config maps, but the bundle's CSV has one
under `permissions`, and in `AllNamespaces`, the only install mode it supports, OLM
grants these rules cluster-wide. ClusterRoles, which the registration lists, are
in neither (`RolesReadable`, below).

### Faulty variants

Each module has definitions that no specification uses: plausible mistakes in an
operation (`GetClusterUnchecked`, `UpdateOnce`, `AsWantedOfAnybody`,
`UnownedCR`...). With the variant in place of the operation, TLC reports the
property that guards against it violated. `PROJECT.json` pairs them under
`mutants`.

## Runs

Bounds are `Budget`s: how often users, failures and restarts may strike.
Everything else is unbounded. Deletions need no budget where creations have one.
States are distinct states, times are those of two workers.

| Run | Bounds | Checks |
|---|---|---|
| `InstanceFaults` | 1 instance, 3 names of which 1 is invalid; 1 edit, 1 deletion, 1 change of the inventory, 1 fault; 1.5 M states, 45 s | `IInv`, `RestingIsProvisioned`, `IDSticky`, `ImplementsLifecycle` |
| `InstanceCrash` | 1 key, 2 names, created twice, 1 restart; 417 k states, 2 min | `RestingIsProvisioned`, `ReadyOnlyWhenBacked`, `ImplementsLifecycle`; under fairness `LostClusterIsReported`, `DeletedIsForgotten`, `WorkerReturns` |
| `InventoryLife` | 1 inventory, created twice; 1 edit, 2 new clusters, 1 fault, 1 restart; 391 k states, 30 s | `IInv`, `RestingIsTruthful`, `EventuallyListed` |
| `OperatorLife` | 1 instance, 1 inventory; 1 edit of the inventory, 1 fault for each worker; 404 k states, 80 s | `NothingIsDropped`, `ImplementsLifecycle`; under fairness `EventuallyServed` |
| `ConnectionLife` | 1 connection, Secret and ConfigMap; 1 trouble (an edit, a change of the inventory, a tampered child, a failed call or a restart), the collector once ahead of the controller; 498 k states, 70 s | `IInv`, `RestingOwnsChildren`; under fairness `EventuallyBound`, `FollowsInventory` |
| `ConnectionAgain` | 1 key created twice, 1 kind of child, the collector once ahead; 246 k states, 40 s | `IInv`, `RestingOwnsChildren`, `BoundOwnsChildren`, `ImplementsBinding`; under fairness `EventuallyBound`, `NothingLeftBehind` |
| `RegistrationLife` | 2 versions; 2 installations, 1 removal (of the operator or the CR, with or without the CRD), 2 changes of the CRD while there is no CR, 1 crash, 1 fault; 383 k states, 40 s | `IInv`, `RestingIsRegistered`, `OwnedByCreator`; under fairness `CleanedUp`, `FirstRegisters`, `SettlesDown` |

What they show, beside the properties' own comments: with every call failing or
losing its answer once, with conflicts and with restarts, no controller drops a
request it has not carried out (`Resting...`); a status is the present provider's
or an earlier one's in order, never a mixture; a child belongs to this very
connection and not to an earlier one of the same name, and goes with it.
`RestingIsRegistered` is the registration's share of this: only one event ever
reaches its `Reconcile`, so the request must not leave its hands before the CR is
there. It speaks of a first installation that nobody interferes with
(`Untouched`: one version, and no removal of it or of its CR, be it with the CRD),
because after an upgrade or the loss of a CR that was there the code does rest
unregistered (`RegistrationUpgrade`); a late CRD, one that goes before the CR is
made and comes again, a late role, a crash and a failed or unanswered call are all
part of it. The CRD starts present or absent and may change twice, so it can go
between its discovery and the read of the CR, or between the read and the
creation, and still be there in the end.

The channel has capacity 1 in these runs (5 in the code): with 1 the worker
blocks after two clusters instead of six, so blocking happens within the bounds.
One fault is enough to put a failure at each call in turn, including the first
update whose failure leads to the second. Two edits or two flaps repeat what one
does at another moment. One connection is enough because children are found by
the connection's name: two connections meet only when the second has the name of
the first, which is `ConnectionAgain`; there one kind of child is enough, since
what a former connection left of the second kind is met the same way.
`MaxLag = 1` lets a child's informer be one event behind, so that a cached read
is stale; the collector's lead (`early`) puts its deletion between the two halves
of `CreateOrUpdate`. In `EventuallyServed` the bound of one fault for the instance
is part of the statement: if both status updates of a pass fail, the request
still comes back, but the provider has the cluster and the id is lost (see the
first disagreement below). The composition also starts with the inventory in
place: an instance that is older than its inventory can get stuck in Creating.

`CHECK_DEADLOCK FALSE` appears only for the registration: an operator that is
uninstalled for good has nothing left to do.

### The refinements

`ImplementsLifecycle` maps `asked` to the instances the server holds, `bound` to
their InstanceIDs, `ready` to those in phase Ready, and `provider` to the clusters
that are listed, in the channel or in the goroutine's hands. Caches, queues,
resource versions and the worker's copy disappear. That the mapping is a
refinement says that the code's write of a *whole* status from a cached copy
never takes back a binding, never binds to a cluster the provider has not, and
reports an instance ready only in the step that binds it or finds it bound still.
The property is stated of `InstanceController`, whose inventory comes and goes by
itself, and of `Operator`, whose inventory is another controller's object.

`ImplementsBinding` maps `wants` to the uid of the connection the server holds,
`clock` to its resourceVersion, `holder` to the controller reference of each child
and `bound` to the connections whose status has both references. Caches, events,
requests, the worker's copy, the contents of the children and the inventory
disappear. That it is a refinement says two things about `CreateOrUpdate` and the
status update, which work on copies of different age: `SetControllerReference`
never hands a child back to a former connection of the name, also when the worker
still works for it; and once a status refers to children they are this
connection's until it goes. Children are matched by name, connections by
resourceVersion, so neither call alone gives this. `BoundOwnsChildren` is the second
half as an invariant: unlike `RestingOwnsChildren` it holds between any two steps,
also while the worker is busy and an event is on its way.

### Fairness

* `WF(Reconcile)`, `WF(Receive)`, `WF(Add)`: goroutines that can run do run.
  `SendCluster` is disabled while the channel is full.
* `WF(WatchEvent)`, `WF(ChildEvent)`, `WF(Retry)`, `WF(Sync)`, `WF(Announce)`:
  watches deliver, and the rate limiters' delays are bounded (1000 s by default,
  30 min for the registration).
* `SF(Dequeue(k))`: the work queue is first-in first-out, so a request that is
  queued again and again is taken. With one inventory (`Operator`) weak fairness
  is enough.
* `WF(Resync)` for inventories and connections: `main.go` sets no `SyncPeriod`,
  so controller-runtime resyncs every ten hours. It is the only thing that makes
  an inventory notice a cluster appended late, and a connection notice its
  inventory or what became of its children. The instance controller's liveness
  does not use it; resyncs may still interfere there at any time.
* OLM, the garbage collector and the Deployment's controller finish what they
  begin. Users, faults and crashes owe nothing.

## What the documentation says and the code does not do

Four runs refute a sentence of the documentation; the property states the
sentence, and TLC finds the behaviour.

* `InstanceStuckCreating`: the CRD calls the phase Creating "Provisioning is in
  progress". If the update that carries the InstanceID of a cluster just created
  is a conflict, `Reconcile` logs "Instance modified, retry reconciling", but the
  id was only in its local copy. The retry finds the name taken
  (`AlreadyExists`), and so does every later one. It takes no edit: an inventory
  that appears just after its instance is enough, because the retry may read a
  cache that has not yet seen the controller's own failure report.
* `InstanceSameID`: the InstanceID is to "identify the instance on the database
  service". Two instances with one name, the second reconciled before the
  goroutine has appended the cluster of the first, both become Ready with the
  same id.
* `RegistrationUpgrade`: "once the operator deployed it will automatically create
  a cluster level DBaaSProvider custom resource (CR) object and register
  itself". The new version finds the CR of the old one and leaves it; the CR
  goes with the old version's ClusterRole, and no event makes the controller look
  again. The same holds for a CR that is deleted, by itself or with its CRD.
* `RegistrationRole`: the same sentence with `RolesReadable = FALSE`, which is
  what `config/rbac/role.yaml` and the bundle's CSV say: no rule lets the operator
  list ClusterRoles, so the cached list in `Reconcile`, called with
  `context.Background()`, never returns.

Two more are plain from one path of the code, whatever interleaves with it, and
have no run of their own:

* success sets no condition, so the `ReadyForBinding=False` of an earlier failure
  stays on an instance that is Ready, though a condition describes "one aspect of
  the current state";
* "The secret must exist within the same namespace as the inventory", and the
  controller has an `InputError` for it, but `CreateCloudService` drops the error
  of the retrieval and the inventory is `SpecSynced=True`.

## What is proved

All theorems hold for any value of the constants that satisfies the named
assumptions: any set of keys, names, services and versions, any channel capacity
and any budgets (so any number of failures and restarts). The assumptions say no
more than that invalid names are names, "" is not one, the capacity is positive,
`NoKey` is no key and the budgets are numbers.

**`InstanceControllerProofs`.** `Invariance` (`Spec => []IInv`), and with it
`TypeCorrect` and `NoWorkIsLost` (`RestingIsProvisioned`); `IDsAreSticky`
(`IDSticky`) and `ReadyIsBacked` (`ReadyOnlyWhenBacked`). `RestingIsProvisioned`
alone is not inductive. That a request may be forgotten after a conflict is sound
only because whatever made the copy stale is still under way to the worker:
`StaleCopyIsNoticed`. A deletion or edit keeps it through `InformerCatchesUp` (the
last event under way is the server's version) and `VersionsOrdered` (equal
resourceVersions mean equal versions, so the server accepts a copy only if it is
the current version with a new status). `CopyKeepsID` is what `IDSticky` needs: a
copy that would be accepted carries the instance's id or the instance has none;
`BranchTaken` records what the branches before the current call have established,
among it that the cluster about to be reported is `Held` by the provider.

**`InstanceLifecycleProofs`.** `Refinement` (`Spec => ImplementsLifecycle`): the
initial state maps to the initial state, and each step to a step of the life
cycle or to a stutter. A step is one of a user (`UserMapped`), of the provider or a
restart, or one that stores the worker's copy (`WorkerMapped`), which needs `IInv`:
what is stored is the instance's own version with a status whose id is the one it
had, or `Held`. The lemmas take `IInv` and a step, not the specification, so that
they can be cited for another one.

**`InventoryControllerProofs`.** `Invariance` (`Spec => []IInv`) and
`ListsAreTruthful` (`RestingIsTruthful`). The provider's list only grows at its end
while the process lives, so what was a prefix stays one (`PrefixGrows`,
`ListGrows`); a restart puts every inventory into the queue, so that none is at
rest; and a conflict is forgotten only while the event that caused it is under
way.

**`ConnectionControllerProofs`.** `Invariance` (`Spec => []IInv`) and `RestingOwns`
(`RestingOwnsChildren`), over two kinds of objects with an informer each. The
argument: the uids of the successive connections of one name grow (`UidsGrow`); so
do the owners of the successive versions of a child, and none of them is younger
than any connection the worker has yet to hear of (`OwnersGrow`). Events arrive in
the order of their versions (`EventsInOrder`), so the worker's copy is no older
than its children's owners and no younger than what it has yet to hear of
(`CopyIsLatest`). Hence a child that is made, taken over or found in order belongs
to the copy's connection and goes on doing so (`DoneAreOwned`); and a status is
accepted only if the copy is of the connection there is.

**`ConnectionBindingProofs`.** `BoundOwns` (`Spec => []BoundOwnsChildren`) and
`BindingImplemented` (`Spec => ImplementsBinding`). Whatever an action is, what it does
to the objects is one of three things (`Kinded`): it stores a version of a
connection (`WritesConnection`), it makes, hands on or removes a child
(`WritesChild`), or it moves caches, requests and the worker only
(`WritesNothing`). The invariant `BInv` is inductive relative to `IInv`, and each
kind has a lemma. `BoundOwnsChildren` is not inductive: a worker that holds a copy of
a former connection would take over the child of the one there is. It cannot,
because the connection there is got its references from this very worker, which
by then had heard of it, and events come in order: all live versions of a name
that a bound connection's informer has or will see have that connection's uid
(`BoundIsKnown`). `CopyKeepsRefs` says that a status update that reports a failure
does not take references back, and `LiveHasUid` that the abstract 0 is nobody's
number. From the same three kinds the refinement follows: a stored version is
`Ask`, `Drop`, `Change` or `Bind`, a child's is `Give` or `Lose`, and the rest stutters.

**`OperatorProofs`.** `Safety` (`Spec => []NothingIsDropped`) for the composition:
a step of one controller is a step of its module, for which its own proof holds,
and one that the other controller's invariant allows for. It leaves the other
one's state alone, changes only whether the inventory is in the cache, or moves
the provider's list on. The controllers' lemmas are cited as they stand; the only
thing proved anew is the initial state, in which the inventory is there and in
the queue. `Refinement` (`Spec => ImplementsLifecycle`) lifts the refinement of
`InstanceLifecycleProofs` the same way: a step of the composition is one of the
instance controller, to which its lemma applies, or one of the inventory
controller or the goroutine, after which the mapped state is what it was
(`InventoryMapped`).

**`ProviderRegistrationProofs`.** `RegistrationInvariance` (`Spec => []IInv`),
`OwnedByCreatorHolds` (`OwnedByCreator`) and `RestingIsRegisteredHolds`
(`Spec => []RestingIsRegistered`). The strengthening for the first two is `PickedOwn` (a worker
about to create holds a role of its own version), `Owned` (every CR has an owner
the garbage collector can follow) and `UidsSpent` (no uid is ever granted again,
so an owner that is gone stays gone). The third has an invariant of its own,
`FirstInv`, inductive relative to `IInv`. The controller may stop in three ways: it
does not find the Deployment, it finds the CR, or it has made it. While the
installation is `Untouched` the first is impossible, since there has been a
Deployment as long as there has been a process (`OneVersion`, `NothingStale`); the
second means that the CR is there, since one that was seen cannot have gone
(its owner is a role of the installed version, and those are not revoked; and the
CRD goes only while there is no CR, or the installation is no longer
`Untouched`); and every other way out leaves the request with the rate limiter.
`WithinBudget` is needed because what has happened so far is read off the budget
that is left.

**`KubeApiProofs`.** What storing a version, observing an event and listing anew do
to the server, the cache and what is under way (`StoreInforms`, `StatusInforms`,
`ObserveInforms`, `RelistInforms`), and that they keep the order of events. The set
of versions is a parameter, so the lemmas serve instances, inventories,
connections and, in a second instance, the connections' children.

Only model-checked: all liveness properties, since neither fairness nor `ENABLED`
is in the prover's reach. In particular that work which is not dropped does get
done rests on the runs: `RestingIsRegistered` is proved, and that the controller comes
to rest (`SettlesDown`), and so registers (`FirstRegisters`), is checked. `BInv` and
`FirstInv` were checked as invariants on the runs' instances before they were
proved and are not in the configurations, since the theorems cover them. The four
runs that refute a sentence have nothing to prove.

## Not modelled

* the content of the registration CR (`buildProviderSpec`): constant tables of
  provisioning parameters for a user interface, which no operation of this
  program reads;
* leader election, probes and flags of `main.go`: one process at a time;
* the `deleteCluster` and `updateCluster` goroutines of the fake client, which
  nothing sends to;
* reads of the cluster slice in the middle of an append;
* `apis/` beyond the fields above (scheme registration and generated deep copies);
  manifests and the bundle, except the permission to list ClusterRoles.

## What could come next

* `Operator` with restarts, with deletions, and with the connection controller as
  a third one: its inventory is the status the inventory controller writes.
  `EventuallyServed` would then go on to the children of the connection. State
  space is the obstacle: each controller alone takes some 400 k states.
* A second kind of child in `ConnectionAgain`, for a machine with more time.
* A consistency check of the provisioning parameters as constants: every
  dependency names a parameter and an option that exist.
