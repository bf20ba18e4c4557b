------------------------- MODULE ProviderRegistration -------------------------
(***************************************************************************)
(* The controller that registers the operator with the DBaaS operator      *)
(* (controllers/dbaas/dbaasprovider_reconciler.go).  The creation event of *)
(* the operator's own Deployment, seen once by every process, is its only  *)
(* entry-point; it then waits for the DBaaSProvider CRD, looks for the     *)
(* cluster-scoped registration CR and creates it, owned by a ClusterRole   *)
(* of the operator's version.                                              *)
(*                                                                         *)
(* Around it: OLM, which installs, upgrades and uninstalls the operator;   *)
(* the garbage collector; the informers of the manager's client, started   *)
(* by the first read of a kind.  Reads come from their caches, the         *)
(* discovery of the CRD and the creation of the CR go to the server.       *)
(***************************************************************************)
EXTENDS Naturals

CONSTANTS
  LastVersion,     \* the operator's versions are 1..LastVersion
  RolesReadable,   \* the operator's role lets it list and watch ClusterRoles
  Budget           \* how often each thing nobody owes may happen

BudgetKinds == {"install", "crd", "delete", "crash", "fault"}

ASSUME RegistrationAssumption ==
  /\ LastVersion \in Nat
  /\ RolesReadable \in BOOLEAN
  /\ Budget \in [BudgetKinds -> Nat]

VARIABLES
  csvs,            \* the versions OLM has to keep installed
  roles,           \* the ClusterRoles OLM has made for them
  uids,            \* the last uid a ClusterRole has been given
  deployment,      \* the version the Deployment is labelled with, 0 if none
  crd,             \* the DBaaSProvider CRD is installed
  cr,              \* the registration CR
  process,         \* the version that runs as leader, 0 if none
  announced,       \* its metadata informer knows the Deployment
  synced,          \* the kinds whose informers its client has synced
  depCache,        \* what they have cached: the Deployment,
  crCache,         \*   the registration CR,
  roleCache,       \*   the ClusterRoles
  queued,          \* the request is in the work queue
  backoff,         \* the request waits for the rate limiter
  pc,              \* where in Reconcile the worker is
  owner,           \* the ClusterRole it has picked
  budget           \* what is left of Budget

clusterVars == <<csvs, roles, uids, deployment, crd, cr>>
cacheVars   == <<announced, synced, depCache, crCache, roleCache>>
workVars    == <<queued, backoff>>
workerVars  == <<pc, owner>>
vars == <<clusterVars, process, cacheVars, workVars, workerVars, budget>>

-----------------------------------------------------------------------------
Versions == 1..LastVersion
Roles    == [version : Versions, uid : Nat]
NoRole   == [version |-> 0, uid |-> 0]
NoCR     == [exists |-> FALSE, owner |-> NoRole]

\* A faulty variant of the next: the CR is created without an owner.
UnownedCR(role) == [exists |-> TRUE, owner |-> NoRole]

\* buildProviderCR: all that the cluster looks at is the owner reference.
ProviderCR(role) == [exists |-> TRUE, owner |-> role]

Kinds == {"deployments", "providers", "clusterroles"}

Locations == {"idle", "getDeployment", "checkCrd", "getProvider",
              "listRoles", "create"}

TypeOK ==
  /\ csvs  \in SUBSET Versions
  /\ roles \in SUBSET Roles
  /\ uids  \in Nat
  /\ deployment \in Versions \cup {0}
  /\ crd \in BOOLEAN
  /\ cr  \in [exists : BOOLEAN, owner : Roles \cup {NoRole}]
  /\ process \in Versions \cup {0}
  /\ announced \in BOOLEAN
  /\ synced \in SUBSET Kinds
  /\ depCache \in BOOLEAN
  /\ crCache  \in BOOLEAN
  /\ roleCache \in SUBSET Roles
  /\ queued  \in BOOLEAN
  /\ backoff \in BOOLEAN
  /\ pc \in Locations
  /\ owner \in Roles \cup {NoRole}
  /\ budget \in [BudgetKinds -> Nat]

\* A process of version v, with nothing in memory yet.
FreshProcess(v) ==
  /\ process' = v
  /\ announced' = FALSE
  /\ synced' = {}
  /\ depCache' = FALSE
  /\ crCache' = FALSE
  /\ roleCache' = {}
  /\ queued' = FALSE
  /\ backoff' = FALSE
  /\ pc' = "idle"
  /\ owner' = NoRole

Init ==
  /\ csvs = {}
  /\ roles = {}
  /\ uids = 0
  /\ deployment = 0
  /\ crd \in BOOLEAN
  /\ cr = NoCR
  /\ process = 0
  /\ announced = FALSE
  /\ synced = {}
  /\ depCache = FALSE
  /\ crCache = FALSE
  /\ roleCache = {}
  /\ queued = FALSE
  /\ backoff = FALSE
  /\ pc = "idle"
  /\ owner = NoRole
  /\ budget = Budget

Spend(kind) ==
  /\ budget[kind] > 0
  /\ budget' = [budget EXCEPT ![kind] = @ - 1]

inProcess == <<process, cacheVars, workVars, workerVars>>

-----------------------------------------------------------------------------
(* Administrators and OLM.                                                 *)

\* A first installation, or an upgrade to the next version.
Install(v) ==
  /\ Spend("install")
  /\ csvs = {} \/ csvs = {v - 1}
  /\ csvs' = csvs \cup {v}
  /\ UNCHANGED <<roles, uids, deployment, crd, cr, inProcess>>

Uninstall ==
  /\ csvs # {}
  /\ Spend("delete")
  /\ csvs' = {}
  /\ UNCHANGED <<roles, uids, deployment, crd, cr, inProcess>>

\* With its CRD goes every object of the kind: it is a removal if there is one.
CrdChanges ==
  /\ Spend(IF crd /\ cr.exists THEN "delete" ELSE "crd")
  /\ crd' = ~crd
  /\ cr' = IF crd THEN NoCR ELSE cr
  /\ UNCHANGED <<csvs, roles, uids, deployment, inProcess>>

\* No event of the CR reaches the controller.
DeleteCR ==
  /\ cr.exists
  /\ Spend("delete")
  /\ cr' = NoCR
  /\ UNCHANGED <<csvs, roles, uids, deployment, crd, inProcess>>

GrantRole(v) ==
  /\ v \in csvs
  /\ \A r \in roles : r.version # v
  /\ uids' = uids + 1
  /\ roles' = roles \cup {[version |-> v, uid |-> uids + 1]}
  /\ UNCHANGED <<csvs, deployment, crd, cr, inProcess, budget>>

RevokeRole(r) ==
  /\ r \in roles
  /\ r.version \notin csvs
  /\ roles' = roles \ {r}
  /\ UNCHANGED <<csvs, uids, deployment, crd, cr, inProcess, budget>>

Deploy(v) ==
  /\ v \in csvs
  /\ \A w \in csvs : w <= v
  /\ deployment # v
  /\ deployment' = v
  /\ UNCHANGED <<csvs, roles, uids, crd, cr, inProcess, budget>>

Undeploy ==
  /\ csvs = {}
  /\ deployment # 0
  /\ deployment' = 0
  /\ UNCHANGED <<csvs, roles, uids, crd, cr, inProcess, budget>>

\* The version an upgrade replaces goes when the new one runs.
Replace(v) ==
  /\ v \in csvs
  /\ process \in csvs
  /\ v < process
  /\ csvs' = csvs \ {v}
  /\ UNCHANGED <<roles, uids, deployment, crd, cr, inProcess, budget>>

\* Kubernetes collects what has only owners that are gone.
Collect ==
  /\ cr.exists
  /\ cr.owner # NoRole
  /\ cr.owner \notin roles
  /\ cr' = NoCR
  /\ UNCHANGED <<csvs, roles, uids, deployment, crd, inProcess, budget>>

-----------------------------------------------------------------------------
(* The operator's process and its informers.                               *)

\* The Deployment's pod takes over from that of another version.
Rollout ==
  /\ process # deployment
  /\ FreshProcess(deployment)
  /\ UNCHANGED <<clusterVars, budget>>

Crash ==
  /\ process # 0
  /\ Spend("crash")
  /\ FreshProcess(process)
  /\ UNCHANGED clusterVars

\* evaluatePredicateObject: the Deployment is that of this very version.
OwnDeployment == deployment = process

\* The create event, the only one that ignoreOtherDeployments lets through.
Announce ==
  /\ process # 0
  /\ deployment # 0
  /\ ~announced
  /\ announced' = TRUE
  /\ queued' = (queued \/ OwnDeployment)
  /\ UNCHANGED <<clusterVars, process, synced, depCache, crCache, roleCache,
                 backoff, workerVars, budget>>

\* The delete event is filtered out; after it there may be another create.
Unannounce ==
  /\ announced
  /\ deployment = 0
  /\ announced' = FALSE
  /\ UNCHANGED <<clusterVars, process, synced, depCache, crCache, roleCache,
                 workVars, workerVars, budget>>

\* The kind the worker is about to read from a cache.
Wanted ==
  CASE pc = "getDeployment" -> {"deployments"}
    [] pc = "getProvider"   -> {"providers"}
    [] pc = "listRoles"     -> {"clusterroles"}
    [] OTHER                -> {}

\* An informer brings its cache up to date; the first time, the read that
\* started it has been waiting for that.
Sync(kind) ==
  /\ process # 0
  /\ kind \in synced \cup Wanted
  /\ kind = "providers" => crd \/ kind \in synced
  /\ kind = "clusterroles" => RolesReadable
  /\ synced' = synced \cup {kind}
  /\ depCache'  = IF kind = "deployments"  THEN deployment # 0 ELSE depCache
  /\ crCache'   = IF kind = "providers"    THEN cr.exists ELSE crCache
  /\ roleCache' = IF kind = "clusterroles" THEN roles ELSE roleCache
  /\ UNCHANGED <<clusterVars, process, announced, workVars, workerVars, budget>>

Retry ==
  /\ backoff
  /\ backoff' = FALSE
  /\ queued' = TRUE
  /\ UNCHANGED <<clusterVars, process, cacheVars, workerVars, budget>>

-----------------------------------------------------------------------------
(* How a step of Reconcile ends.                                           *)

Goto(loc, role) ==
  /\ pc' = loc
  /\ owner' = role
  /\ UNCHANGED workVars

Return ==
  /\ pc' = "idle"
  /\ owner' = NoRole
  /\ UNCHANGED workVars

\* An error, or Requeue: the rate limiter keeps the request for a while.
ReturnRequeue ==
  /\ pc' = "idle"
  /\ owner' = NoRole
  /\ backoff' = TRUE
  /\ UNCHANGED queued

\* A faulty variant of the next: the error is logged and dropped.
DroppedCall ==
  /\ Spend("fault")
  /\ Return

\* A read or a write that fails for reasons of its own.
FailedCall ==
  /\ Spend("fault")
  /\ ReturnRequeue

-----------------------------------------------------------------------------
(* Faulty variants of the definitions below, part of no specification.     *)

\* Without its CRD there is nothing to register with.
CheckCrdOnce ==
  /\ pc = "checkCrd"
  /\ \/ /\ crd
        /\ Goto("getProvider", NoRole)
     \/ /\ ~crd
        /\ Return
  /\ UNCHANGED <<clusterVars, process, cacheVars, budget>>

\* The CR is created without looking for it.
GetProviderNever ==
  /\ pc = "getProvider"
  /\ Goto("listRoles", NoRole)
  /\ UNCHANGED <<clusterVars, process, cacheVars, budget>>

\* The list of ClusterRoles without the selector on olm.owner.
AnyRoles == roleCache

-----------------------------------------------------------------------------
(* Reconcile.                                                              *)

Dequeue ==
  /\ pc = "idle"
  /\ queued
  /\ queued' = FALSE
  /\ pc' = "getDeployment"
  /\ UNCHANGED <<clusterVars, process, cacheVars, backoff, owner, budget>>

GetDeployment ==
  /\ pc = "getDeployment"
  /\ \/ /\ "deployments" \in synced
        /\ ~depCache
        /\ Return
        /\ UNCHANGED budget
     \/ /\ "deployments" \in synced
        /\ depCache
        /\ Goto("checkCrd", NoRole)
        /\ UNCHANGED budget
     \/ FailedCall
  /\ UNCHANGED <<clusterVars, process, cacheVars>>

CheckCrd ==
  /\ pc = "checkCrd"
  /\ \/ /\ crd
        /\ Goto("getProvider", NoRole)
        /\ UNCHANGED budget
     \/ /\ ~crd
        /\ ReturnRequeue
        /\ UNCHANGED budget
     \/ FailedCall
  /\ UNCHANGED <<clusterVars, process, cacheVars>>

\* The CRD may have gone again, and then the kind cannot be read.
GetProvider ==
  /\ pc = "getProvider"
  /\ \/ /\ "providers" \in synced
        /\ crCache
        /\ Return
        /\ UNCHANGED budget
     \/ /\ "providers" \in synced
        /\ ~crCache
        /\ Goto("listRoles", NoRole)
        /\ UNCHANGED budget
     \/ /\ "providers" \notin synced
        /\ ~crd
        /\ ReturnRequeue
        /\ UNCHANGED budget
     \/ FailedCall
  /\ UNCHANGED <<clusterVars, process, cacheVars>>

\* olm.owner is the operator's own name and version.
OwnRoles == {r \in roleCache : r.version = process}

\* The first item of a list in no particular order.
ListRoles ==
  /\ pc = "listRoles"
  /\ \/ /\ "clusterroles" \in synced
        /\ OwnRoles = {}
        /\ ReturnRequeue
        /\ UNCHANGED budget
     \/ /\ "clusterroles" \in synced
        /\ \E r \in OwnRoles : Goto("create", r)
        /\ UNCHANGED budget
     \/ FailedCall
  /\ UNCHANGED <<clusterVars, process, cacheVars>>

\* What is there already, or has no CRD, cannot be created.
Create ==
  /\ pc = "create"
  /\ \/ /\ crd /\ ~cr.exists
        /\ cr' = ProviderCR(owner)
        /\ Return
        /\ UNCHANGED budget
     \/ /\ ~crd \/ cr.exists
        /\ ReturnRequeue
        /\ UNCHANGED <<cr, budget>>
     \/ /\ FailedCall                      \* the request does not arrive
        /\ UNCHANGED cr
     \/ /\ crd /\ ~cr.exists               \* the response does not arrive
        /\ cr' = ProviderCR(owner)
        /\ FailedCall
  /\ UNCHANGED <<csvs, roles, uids, deployment, crd, process, cacheVars>>

Reconcile ==
  \/ Dequeue
  \/ GetDeployment
  \/ CheckCrd
  \/ GetProvider
  \/ ListRoles
  \/ Create

-----------------------------------------------------------------------------
Next ==
  \/ \E v \in Versions : Install(v)
  \/ Uninstall
  \/ CrdChanges
  \/ DeleteCR
  \/ \E v \in Versions : GrantRole(v)
  \/ \E r \in roles : RevokeRole(r)
  \/ \E v \in Versions : Deploy(v)
  \/ Undeploy
  \/ \E v \in Versions : Replace(v)
  \/ Collect
  \/ Rollout
  \/ Crash
  \/ Announce
  \/ Unannounce
  \/ \E kind \in Kinds : Sync(kind)
  \/ Retry
  \/ Reconcile

Spec == Init /\ [][Next]_vars

(* OLM, the garbage collector and the Deployment's controller bring about  *)
(* what they are there for; events and lists arrive; the rate limiter's    *)
(* delay is at most 30 minutes; the worker runs.                           *)
Fairness ==
  /\ \A v \in Versions : WF_vars(GrantRole(v))
  /\ WF_vars(\E r \in roles : RevokeRole(r))
  /\ \A v \in Versions : WF_vars(Deploy(v))
  /\ WF_vars(Undeploy)
  /\ \A v \in Versions : WF_vars(Replace(v))
  /\ WF_vars(Collect)
  /\ WF_vars(Rollout)
  /\ WF_vars(Announce)
  /\ WF_vars(Unannounce)
  /\ \A kind \in Kinds : WF_vars(Sync(kind))
  /\ WF_vars(Retry)
  /\ WF_vars(Reconcile)

FairSpec == Spec /\ Fairness

-----------------------------------------------------------------------------
(* Properties.                                                             *)

\* The operator is installed in one version, which runs.
Deployed ==
  /\ csvs # {}
  /\ csvs = {process}
  /\ deployment = process

\* A first installation so far: one version, and nobody has removed it, its CR
\* or the CRD with it.
Untouched ==
  /\ budget["install"] + 1 >= Budget["install"]
  /\ budget["delete"] >= Budget["delete"]

(* "Once the operator deployed it will automatically create a cluster      *)
(* level DBaaSProvider custom resource (CR) object" (README.md): with the  *)
(* operator and the CRD in place, the CR comes into being and stays.       *)
RegistersItself == <>[](Deployed /\ crd) => <>[]cr.exists

(* It does so for a first installation.  The CRD may come after the        *)
(* operator, or go between its discovery and the read of the CR and come   *)
(* again, the role may come after the Deployment, the process may die      *)
(* between any two steps, and a call may fail or its answer be lost.  Only *)
(* a CR that was there and is lost is not made again.                      *)
FirstRegisters ==
  <>[](Deployed /\ crd /\ Untouched) => <>[]cr.exists

(* With the operator in place, the controller comes to rest: it does not   *)
(* try for ever to create what is there, whatever its cache told it.       *)
SettlesDown ==
  <>[](Deployed /\ crd) => <>[](pc = "idle" /\ ~queued /\ ~backoff)

(* The owner is there "to ensure cleanup on uninstall" (the comment in     *)
(* Reconcile): no CR outlives the operator, not even one that a process    *)
(* creates from a cached list while OLM is removing what it lists.         *)
CleanedUp == <>[](csvs = {}) => <>[](~cr.exists)

(* The registration is owned by a ClusterRole of the version that creates  *)
(* it: during an upgrade the roles of two versions exist, and those of     *)
(* the old one are about to take what they own with them.                  *)
OwnedByCreator ==
  [][~cr.exists /\ cr'.exists => cr'.owner.version = process]_vars

\* A process that has seen the Deployment owes it nothing more.
Resting == process # 0 /\ announced /\ pc = "idle" /\ ~queued /\ ~backoff

(* The create event of the Deployment is the only one to reach Reconcile,  *)
(* so the controller may not come to rest before the CR exists: nothing    *)
(* would wake it again.  However early the event, however late the CRD,    *)
(* the role or the caches, also if the CRD goes before the CR is made and  *)
(* comes again, whichever call fails or loses its answer.                  *)
RestingIsRegistered == Untouched /\ Resting => cr.exists

-----------------------------------------------------------------------------
(* Why OwnedByCreator holds: an invariant that every step preserves.       *)

\* A worker about to create the CR has picked a role of its own version.
PickedOwn == pc = "create" => owner \in Roles /\ owner.version = process

\* Every CR can be collected: it has an owner, one that once was granted.
Owned == cr.exists => cr.owner \in Roles /\ cr.owner.uid <= uids

\* A uid names one role: the next one to be granted is new.
UidsSpent == \A r \in roles \cup roleCache \cup {owner} : r.uid <= uids

IInv ==
  /\ TypeOK
  /\ PickedOwn
  /\ Owned
  /\ UidsSpent

(* Why RestingIsRegistered holds: another one, relative to IInv.           *)

\* No budget grows, and without an installation there is no version.
WithinBudget ==
  /\ \A kind \in BudgetKinds : budget[kind] <= Budget[kind]
  /\ csvs # {} => budget["install"] < Budget["install"]

\* One version: everything that is there belongs to it and is to stay.
OneVersion ==
  /\ \A v, w \in csvs : v = w
  /\ deployment # 0 => deployment \in csvs
  /\ process # 0 => process = deployment
  /\ \A r \in roles : r.version \in csvs
  /\ cr.exists => crd /\ cr.owner \in roles

\* What a cache or the worker has seen is still there.
NothingStale ==
  /\ "deployments" \in synced => depCache
  /\ crCache => cr.exists
  /\ roleCache \subseteq roles
  /\ owner \in roles \cup {NoRole}

FirstInv ==
  /\ WithinBudget
  /\ Untouched => OneVersion /\ NothingStale /\ RestingIsRegistered

=============================================================================
