---------------------- MODULE ProviderRegistrationProofs ----------------------
(***************************************************************************)
(* What TLAPS proves of ProviderRegistration, for any number of versions   *)
(* and any budget: IInv is inductive, and from it, that the registration   *)
(* CR is owned by a ClusterRole of the version that creates it; FirstInv   *)
(* is inductive relative to it, and from it, that a first installation is  *)
(* registered before the controller comes to rest.                         *)
(***************************************************************************)
EXTENDS ProviderRegistration, TLAPS

(* The empty operator: nothing installed, nothing running.                 *)
LEMMA InitInv == Init => IInv
<1> SUFFICES ASSUME Init PROVE IInv
  OBVIOUS
<1>1. csvs \in SUBSET Versions /\ roles \in SUBSET Roles
      /\ roleCache \in SUBSET Roles /\ synced \in SUBSET Kinds
  BY DEF Init
<1>2. uids \in Nat /\ deployment \in Versions \cup {0}
      /\ process \in Versions \cup {0}
  BY DEF Init
<1>3. cr \in [exists : BOOLEAN, owner : Roles \cup {NoRole}]
      /\ owner \in Roles \cup {NoRole}
  BY DEF Init, NoCR
<1>4. crd \in BOOLEAN /\ announced \in BOOLEAN /\ depCache \in BOOLEAN
      /\ crCache \in BOOLEAN /\ queued \in BOOLEAN /\ backoff \in BOOLEAN
  BY Zenon DEF Init
<1>5. pc \in Locations /\ budget \in [BudgetKinds -> Nat]
  BY RegistrationAssumption DEF Init, Locations, RegistrationAssumption
<1>6. PickedOwn /\ Owned /\ UidsSpent
  BY DEF Init, PickedOwn, Owned, UidsSpent, NoCR, NoRole
<1> QED
  BY <1>1, <1>2, <1>3, <1>4, <1>5, <1>6 DEF IInv, TypeOK

(* A budget that pays for a step is a budget still.                        *)
LEMMA SpendTyped ==
  ASSUME TypeOK, NEW kind \in BudgetKinds, Spend(kind)
  PROVE  budget' \in [BudgetKinds -> Nat]
  BY DEF TypeOK, Spend

(* A new process (Rollout, Crash) keeps nothing that could break it.       *)
LEMMA FreshInv ==
  ASSUME IInv, NEW v \in Versions \cup {0}, FreshProcess(v),
         UNCHANGED clusterVars, budget' \in [BudgetKinds -> Nat]
  PROVE  IInv'
<1>1. announced' \in BOOLEAN /\ depCache' \in BOOLEAN /\ crCache' \in BOOLEAN
      /\ queued' \in BOOLEAN /\ backoff' \in BOOLEAN
  BY Zenon DEF FreshProcess
<1>2. TypeOK'
  BY <1>1 DEF IInv, TypeOK, FreshProcess, clusterVars, Locations
<1>3. PickedOwn' /\ Owned'
  BY DEF IInv, PickedOwn, Owned, FreshProcess, clusterVars
<1>4. UidsSpent'
  BY DEF IInv, TypeOK, UidsSpent, FreshProcess, clusterVars, NoRole
<1> QED
  BY <1>2, <1>3, <1>4 DEF IInv

(* The steps of administrators and OLM leave the process alone, and take   *)
(* no uid back.                                                            *)
LEMMA ClusterInv ==
  ASSUME IInv, UNCHANGED inProcess,
         csvs' \in SUBSET Versions, deployment' \in Versions \cup {0},
         crd' \in BOOLEAN, cr' \in {cr, NoCR},
         uids' \in Nat, uids <= uids',
         roles' \in SUBSET Roles, \A r \in roles' : r.uid <= uids',
         budget' \in [BudgetKinds -> Nat]
  PROVE  IInv'
<1> USE DEF IInv, inProcess, cacheVars, workVars, workerVars
<1>1. TypeOK'
  <2>1. cr' \in [exists : BOOLEAN, owner : Roles \cup {NoRole}]
    <3>1. cr \in [exists : BOOLEAN, owner : Roles \cup {NoRole}]
      BY DEF TypeOK
    <3>2. NoCR \in [exists : BOOLEAN, owner : Roles \cup {NoRole}]
      BY DEF NoCR
    <3> QED
      BY ONLY <3>1, <3>2, cr' \in {cr, NoCR}
  <2>2. process' = process /\ synced' = synced /\ roleCache' = roleCache
        /\ pc' = pc /\ owner' = owner
    OBVIOUS
  <2>3. announced' \in BOOLEAN /\ depCache' \in BOOLEAN /\ crCache' \in BOOLEAN
        /\ queued' \in BOOLEAN /\ backoff' \in BOOLEAN
    BY Zenon DEF TypeOK
  <2> QED
    BY <2>1, <2>2, <2>3 DEF TypeOK
<1>2. PickedOwn'
  BY DEF PickedOwn
<1>3. Owned'
  BY DEF Owned, TypeOK, NoCR, Roles
<1>4. UidsSpent'
  BY DEF UidsSpent, TypeOK, Roles, NoRole
<1> QED
  BY <1>1, <1>2, <1>3, <1>4

(* A step of the worker that leaves the cluster alone: it drops its role,  *)
(* keeps it, or picks one of its own version.                              *)
LEMMA WorkerInv ==
  ASSUME IInv, UNCHANGED <<clusterVars, process, cacheVars>>,
         queued' \in BOOLEAN, backoff' \in BOOLEAN,
         pc' \in Locations,
         owner' = NoRole \/ owner' \in roleCache,
         pc' = "create" => owner' \in OwnRoles,
         budget' \in [BudgetKinds -> Nat]
  PROVE  IInv'
<1> USE DEF IInv, clusterVars, cacheVars
<1>1. TypeOK'
  BY DEF TypeOK
<1>2. PickedOwn'
  BY DEF PickedOwn, OwnRoles, TypeOK
<1>3. Owned'
  BY DEF Owned
<1>4. UidsSpent'
  BY DEF UidsSpent, TypeOK, NoRole
<1> QED
  BY <1>1, <1>2, <1>3, <1>4

-----------------------------------------------------------------------------
(* One case per action of Next.                                            *)
LEMMA StepInv == IInv /\ [Next]_vars => IInv'
<1> SUFFICES ASSUME IInv, [Next]_vars PROVE IInv'
  OBVIOUS
<1> USE DEF BudgetKinds
<1>t. TypeOK
  BY DEF IInv
<1>u. \A r \in roles : r \in Roles /\ r.uid <= uids /\ r.uid \in Nat
  BY DEF IInv, TypeOK, UidsSpent, Roles
<1>1. CASE \E v \in Versions : Install(v)
  <2> PICK v \in Versions : Install(v)
    BY <1>1
  <2>1. budget' \in [BudgetKinds -> Nat]
    BY <1>t, SpendTyped DEF Install
  <2> QED
    BY <1>t, <1>u, <2>1, ClusterInv DEF Install, TypeOK
<1>2. CASE Uninstall
  <2>1. budget' \in [BudgetKinds -> Nat]
    BY <1>2, <1>t, SpendTyped DEF Uninstall
  <2> QED
    BY <1>2, <1>t, <1>u, <2>1, ClusterInv DEF Uninstall, TypeOK
<1>3. CASE CrdChanges
  <2>1. Spend("delete") \/ Spend("crd")
    BY <1>3 DEF CrdChanges
  <2>2. budget' \in [BudgetKinds -> Nat]
    BY <2>1, <1>t, SpendTyped
  <2> QED
    BY <1>3, <1>t, <1>u, <2>2, ClusterInv DEF CrdChanges, TypeOK
<1>4. CASE DeleteCR
  <2>1. budget' \in [BudgetKinds -> Nat]
    BY <1>4, <1>t, SpendTyped DEF DeleteCR
  <2> QED
    BY <1>4, <1>t, <1>u, <2>1, ClusterInv DEF DeleteCR, TypeOK
<1>5. CASE \E v \in Versions : GrantRole(v)
  <2> PICK v \in Versions : GrantRole(v)
    BY <1>5
  <2>1. uids' \in Nat /\ uids <= uids'
    BY <1>t DEF GrantRole, TypeOK
  <2>2. roles' \in SUBSET Roles
    BY <1>t DEF GrantRole, TypeOK, Roles
  <2>3. \A r \in roles' : r.uid <= uids'
    BY <1>t, <1>u DEF GrantRole, TypeOK
  <2> QED
    BY <1>t, <2>1, <2>2, <2>3, ClusterInv DEF GrantRole, TypeOK
<1>6. CASE \E r \in roles : RevokeRole(r)
  BY <1>6, <1>t, <1>u, ClusterInv DEF RevokeRole, TypeOK
<1>7. CASE \E v \in Versions : Deploy(v)
  BY <1>7, <1>t, <1>u, ClusterInv DEF Deploy, TypeOK
<1>8. CASE Undeploy
  BY <1>8, <1>t, <1>u, ClusterInv DEF Undeploy, TypeOK
<1>9. CASE \E v \in Versions : Replace(v)
  BY <1>9, <1>t, <1>u, ClusterInv DEF Replace, TypeOK
<1>10. CASE Collect
  BY <1>10, <1>t, <1>u, ClusterInv DEF Collect, TypeOK
<1>11. CASE Rollout
  BY <1>11, <1>t, FreshInv DEF Rollout, TypeOK
<1>12. CASE Crash
  <2>1. budget' \in [BudgetKinds -> Nat]
    BY <1>12, <1>t, SpendTyped DEF Crash
  <2> QED
    BY <1>12, <1>t, <2>1, FreshInv DEF Crash, TypeOK
<1>13. CASE Announce
  BY <1>13 DEF Announce, IInv, TypeOK, PickedOwn, Owned, UidsSpent,
               clusterVars, workerVars
<1>14. CASE Unannounce
  BY <1>14 DEF Unannounce, IInv, TypeOK, PickedOwn, Owned, UidsSpent,
               clusterVars, workVars, workerVars
<1>15. CASE \E kind \in Kinds : Sync(kind)
  <2> PICK kind \in Kinds : Sync(kind)
    BY <1>15
  <2>1. TypeOK'
    BY <1>t DEF Sync, TypeOK, clusterVars, workVars, workerVars
  <2>2. roleCache' \in {roles, roleCache}
    BY DEF Sync
  <2>3. PickedOwn' /\ Owned' /\ UidsSpent'
    BY <2>2 DEF Sync, IInv, PickedOwn, Owned, UidsSpent, clusterVars, workerVars
  <2> QED
    BY <2>1, <2>3 DEF IInv
<1>16. CASE Retry
  BY <1>16 DEF Retry, IInv, TypeOK, PickedOwn, Owned, UidsSpent,
               clusterVars, cacheVars, workerVars
<1>17. CASE Dequeue
  BY <1>17 DEF Dequeue, IInv, TypeOK, PickedOwn, Owned, UidsSpent,
               clusterVars, cacheVars, Locations
<1>18. ASSUME FailedCall PROVE budget' \in [BudgetKinds -> Nat]
  BY <1>18, <1>t, SpendTyped DEF FailedCall
<1>19. CASE GetDeployment
  BY <1>19, <1>18, <1>t, WorkerInv
     DEF GetDeployment, Goto, Return, ReturnRequeue, FailedCall, TypeOK,
         Locations, workVars
<1>20. CASE CheckCrd
  BY <1>20, <1>18, <1>t, WorkerInv
     DEF CheckCrd, Goto, Return, ReturnRequeue, FailedCall, TypeOK,
         Locations, workVars
<1>21. CASE GetProvider
  BY <1>21, <1>18, <1>t, WorkerInv
     DEF GetProvider, Goto, Return, ReturnRequeue, FailedCall, TypeOK,
         Locations, workVars
<1>22. CASE ListRoles
  BY <1>22, <1>18, <1>t, WorkerInv
     DEF ListRoles, Goto, ReturnRequeue, FailedCall, TypeOK,
         Locations, workVars, OwnRoles
<1>23. CASE Create
  <2>1. budget' \in [BudgetKinds -> Nat]
    BY <1>23, <1>18, <1>t DEF Create, TypeOK
  <2>2. cr' = cr \/ cr' = ProviderCR(owner)
    BY <1>23 DEF Create
  <2>3. owner \in Roles /\ owner.uid <= uids
    BY <1>23 DEF Create, IInv, PickedOwn, UidsSpent
  <2>4. cr' \in [exists : BOOLEAN, owner : Roles \cup {NoRole}] /\ Owned'
    <3>1. CASE cr' = cr
      BY <1>23, <1>t, <3>1 DEF Create, IInv, Owned, TypeOK
    <3>2. CASE cr' = ProviderCR(owner)
      <4>1. cr' = [exists |-> TRUE, owner |-> owner]
        BY <3>2 DEF ProviderCR
      <4>2. uids' = uids
        BY <1>23 DEF Create
      <4> QED
        BY <4>1, <4>2, <2>3 DEF Owned
    <3> QED
      BY <2>2, <3>1, <3>2
  <2>5. pc' = "idle" /\ owner' = NoRole /\ queued' = queued
        /\ backoff' \in BOOLEAN
    BY <1>23, <1>t DEF Create, Return, ReturnRequeue, FailedCall, TypeOK,
                       workVars
  <2>6. TypeOK'
    BY <1>23, <1>t, <2>1, <2>4, <2>5 DEF Create, TypeOK, cacheVars, Locations
  <2>7. PickedOwn'
    BY <2>5 DEF PickedOwn
  <2>8. UidsSpent'
    BY <1>23, <1>t, <2>5 DEF Create, IInv, UidsSpent, NoRole, cacheVars, TypeOK
  <2> QED
    BY <2>4, <2>6, <2>7, <2>8 DEF IInv
<1>24. CASE UNCHANGED vars
  BY <1>24 DEF IInv, TypeOK, PickedOwn, Owned, UidsSpent, vars, clusterVars,
               cacheVars, workVars, workerVars
<1> QED
  BY <1>1, <1>2, <1>3, <1>4, <1>5, <1>6, <1>7, <1>8, <1>9, <1>10, <1>11,
     <1>12, <1>13, <1>14, <1>15, <1>16, <1>17, <1>19, <1>20, <1>21, <1>22,
     <1>23, <1>24
     DEF Next, Reconcile

(* In every reachable state every registration CR has an owner the         *)
(* garbage collector can follow (buildProviderCR), the roles' uids are     *)
(* never reused, and a worker about to create has a role of its version.   *)
THEOREM RegistrationInvariance == Spec => []IInv
  BY InitInv, StepInv, PTL DEF Spec

-----------------------------------------------------------------------------
(* Only Create brings a CR into being, and with the role its worker has    *)
(* picked from those with its own version in olm.owner.                    *)
LEMMA StepOwned ==
  IInv /\ [Next]_vars
    => (~cr.exists /\ cr'.exists => cr'.owner.version = process)
<1> SUFFICES ASSUME IInv, [Next]_vars, ~cr.exists, cr'.exists
             PROVE  cr'.owner.version = process
  OBVIOUS
<1>1. cr' # cr /\ cr' # NoCR
  BY DEF NoCR
<1>2. Create
  BY <1>1 DEF Next, Reconcile, vars, clusterVars, Install, Uninstall, CrdChanges,
     DeleteCR, GrantRole, RevokeRole, Deploy, Undeploy, Replace, Collect,
     Rollout, Crash, Announce, Unannounce, Sync, Retry, Dequeue, GetDeployment,
     CheckCrd, GetProvider, ListRoles
<1>3. cr' = ProviderCR(owner)
  BY <1>1, <1>2 DEF Create
<1> QED
  BY <1>2, <1>3 DEF Create, IInv, PickedOwn, ProviderCR

(* The registration never hangs on a role of another version, whatever     *)
(* upgrades, removals, restarts and stale caches come together.            *)
THEOREM OwnedByCreatorHolds == Spec => OwnedByCreator
  BY RegistrationInvariance, StepOwned, PTL DEF Spec, OwnedByCreator

-----------------------------------------------------------------------------
(* RestingIsRegistered, from a second invariant.                           *)

(* What pays for a step is paid for, and the rest stays what it was.       *)
LEMMA SpendOne ==
  ASSUME TypeOK, NEW kind \in BudgetKinds, Spend(kind)
  PROVE  /\ budget[kind] \in Nat
         /\ budget'[kind] = budget[kind] - 1
         /\ \A k \in BudgetKinds : k # kind => budget'[k] = budget[k]
  BY DEF TypeOK, Spend

(* Steps that leave alone what a first installation is spared are steps    *)
(* of one, and keep within the budget.                                     *)
LEMMA SparedStep ==
  ASSUME TypeOK, WithinBudget, csvs' = csvs,
         \/ budget' = budget
         \/ Spend("crd") \/ Spend("crash") \/ Spend("fault")
  PROVE  WithinBudget' /\ Untouched' = Untouched
<1> USE DEF BudgetKinds
<1>1. /\ budget'["install"] = budget["install"]
      /\ budget'["delete"] = budget["delete"]
  BY SpendOne
<1>2. \A k \in BudgetKinds : budget'[k] <= budget[k]
  BY SpendOne DEF TypeOK
<1>3. \A k \in BudgetKinds : budget'[k] \in Nat /\ budget[k] \in Nat
  BY SpendTyped DEF TypeOK
<1>4. \A k \in BudgetKinds : Budget[k] \in Nat
  BY RegistrationAssumption DEF RegistrationAssumption
<1>5. WithinBudget'
  BY <1>1, <1>2, <1>3, <1>4 DEF WithinBudget
<1> QED
  BY <1>1, <1>5 DEF Untouched

(* The steps that spend a first installation leave none.                   *)
LEMMA SpentStep ==
  ASSUME TypeOK, WithinBudget, csvs' \in {csvs, {}}, Spend("delete")
  PROVE  WithinBudget' /\ ~Untouched'
<1> USE DEF BudgetKinds
<1>1. budget'["delete"] = budget["delete"] - 1 /\ budget["delete"] \in Nat
      /\ \A k \in BudgetKinds : k # "delete" => budget'[k] = budget[k]
  BY SpendOne
<1>2. \A k \in BudgetKinds : Budget[k] \in Nat /\ budget[k] \in Nat
  BY RegistrationAssumption DEF RegistrationAssumption, TypeOK
<1>3. WithinBudget'
  BY <1>1, <1>2 DEF WithinBudget
<1>4. ~Untouched'
  BY <1>1, <1>2 DEF Untouched, WithinBudget
<1> QED
  BY <1>3, <1>4

(* At the start nothing is there to be stale.                              *)
LEMMA InitFirst == Init => FirstInv
<1> SUFFICES ASSUME Init PROVE FirstInv
  OBVIOUS
<1>1. WithinBudget
  BY RegistrationAssumption DEF Init, WithinBudget, RegistrationAssumption
<1>2. OneVersion /\ NothingStale /\ RestingIsRegistered
  BY DEF Init, OneVersion, NothingStale, RestingIsRegistered, Resting, NoCR,
         NoRole
<1> QED
  BY <1>1, <1>2 DEF FirstInv

(* A new process (Rollout, Crash) has seen nothing yet.                    *)
LEMMA FreshFirst ==
  ASSUME IInv, FirstInv, FreshProcess(deployment), UNCHANGED clusterVars,
         budget' = budget \/ Spend("crash")
  PROVE  FirstInv'
<1>1. WithinBudget' /\ Untouched' = Untouched
  BY SparedStep DEF FirstInv, IInv, clusterVars
<1>2. SUFFICES ASSUME Untouched
               PROVE  OneVersion' /\ NothingStale' /\ RestingIsRegistered'
  BY <1>1 DEF FirstInv
<1>3. OneVersion'
  BY <1>2 DEF FirstInv, OneVersion, FreshProcess, clusterVars
<1>4. NothingStale' /\ RestingIsRegistered'
  BY DEF FreshProcess, NothingStale, RestingIsRegistered, Resting
<1> QED
  BY <1>3, <1>4

(* A step of the worker that leaves the cluster alone: it ends in another  *)
(* place, in the rate limiter, or because it has found the CR.             *)
LEMMA WorkerFirst ==
  ASSUME IInv, FirstInv, UNCHANGED <<clusterVars, process, cacheVars>>,
         budget' = budget \/ Spend("fault"),
         owner' = NoRole \/ owner' \in roleCache,
         Untouched => pc' # "idle" \/ backoff' \/ cr.exists
  PROVE  FirstInv'
<1> USE DEF clusterVars, cacheVars
<1>1. WithinBudget' /\ Untouched' = Untouched
  BY SparedStep DEF FirstInv, IInv
<1>2. SUFFICES ASSUME Untouched
               PROVE  OneVersion' /\ NothingStale' /\ RestingIsRegistered'
  BY <1>1 DEF FirstInv
<1>3. OneVersion'
  BY <1>2 DEF FirstInv, OneVersion
<1>4. NothingStale'
  BY <1>2 DEF FirstInv, NothingStale
<1>5. RestingIsRegistered'
  BY <1>2, Zenon DEF RestingIsRegistered, Resting
<1> QED
  BY <1>3, <1>4, <1>5

(* A step of the cluster that leaves the process, the CR and the CRD       *)
(* alone, and grants roles and makes Deployments of the installed version. *)
LEMMA ClusterFirst ==
  ASSUME IInv, FirstInv, UNCHANGED <<inProcess, cr, crd>>,
         WithinBudget', Untouched' => Untouched,
         Untouched => OneVersion',
         roles \subseteq roles'
  PROVE  FirstInv'
<1> USE DEF inProcess, cacheVars, workVars, workerVars
<1> SUFFICES ASSUME Untouched
             PROVE  NothingStale' /\ RestingIsRegistered'
  BY DEF FirstInv
<1>1. NothingStale'
  BY DEF FirstInv, NothingStale
<1>2. RestingIsRegistered'
  <2>1. RestingIsRegistered
    BY Zenon DEF FirstInv
  <2>2. Resting' = Resting /\ cr' = cr
    BY DEF Resting
  <2> QED
    BY <2>1, <2>2 DEF RestingIsRegistered
<1> QED
  BY <1>1, <1>2

(* One case per action of Next.                                            *)
LEMMA StepFirst == IInv /\ FirstInv /\ [Next]_vars => FirstInv'
<1> SUFFICES ASSUME IInv, FirstInv, [Next]_vars PROVE FirstInv'
  OBVIOUS
<1> USE DEF BudgetKinds
<1>t. TypeOK /\ WithinBudget
  BY DEF IInv, FirstInv
<1>b. \A k \in BudgetKinds : Budget[k] \in Nat /\ budget[k] \in Nat
  BY <1>t, RegistrationAssumption DEF RegistrationAssumption, TypeOK
<1>f. Untouched => OneVersion /\ NothingStale /\ RestingIsRegistered
  BY Zenon DEF FirstInv
<1>1. CASE \E v \in Versions : Install(v)
  <2> PICK v \in Versions : Install(v)
    BY <1>1
  <2>1. budget'["install"] = budget["install"] - 1
        /\ \A k \in BudgetKinds : k # "install" => budget'[k] = budget[k]
        /\ budget["install"] > 0
    BY <1>t, SpendOne DEF Install, Spend
  <2>2. WithinBudget'
    BY <1>t, <1>b, <2>1 DEF WithinBudget, Install
  <2>3. Untouched' => Untouched /\ csvs = {}
    BY <1>t, <1>b, <2>1 DEF Untouched, Install, WithinBudget
  <2>4. Untouched' => OneVersion'
    BY <1>f, <2>3 DEF OneVersion, Install, inProcess
  <2>5. Untouched' => NothingStale'
    BY <1>f, <2>3 DEF NothingStale, Install, inProcess, cacheVars, workerVars
  <2>6. Untouched' => RestingIsRegistered'
    BY <1>f, <2>3 DEF RestingIsRegistered, Resting, Install, inProcess,
                      cacheVars, workVars, workerVars
  <2> QED
    BY <2>2, <2>4, <2>5, <2>6 DEF FirstInv
<1>2. CASE Uninstall
  <2>1. WithinBudget' /\ ~Untouched'
    BY <1>2, <1>t, SpentStep DEF Uninstall
  <2> QED
    BY <2>1 DEF FirstInv
<1>3. CASE CrdChanges
  <2>1. CASE crd /\ cr.exists
    <3>1. WithinBudget' /\ ~Untouched'
      BY <1>3, <2>1, <1>t, SpentStep DEF CrdChanges
    <3> QED
      BY <3>1 DEF FirstInv
  <2>2. CASE ~(crd /\ cr.exists)
    <3>1. WithinBudget' /\ Untouched' = Untouched
      BY <1>3, <2>2, <1>t, SparedStep DEF CrdChanges
    <3>2. SUFFICES ASSUME Untouched
                   PROVE  OneVersion' /\ NothingStale' /\ RestingIsRegistered'
      BY <3>1 DEF FirstInv
    <3>3. ~cr.exists /\ ~cr'.exists
      BY <1>3, <1>f, <2>2, <3>2 DEF CrdChanges, OneVersion, NoCR
    <3>4. OneVersion'
      BY <1>3, <1>f, <3>2, <3>3 DEF OneVersion, CrdChanges, inProcess
    <3>5. NothingStale' /\ RestingIsRegistered'
      BY <1>3, <1>f, <3>2, <3>3
         DEF NothingStale, RestingIsRegistered, Resting, CrdChanges, inProcess,
             cacheVars, workVars, workerVars
    <3> QED
      BY <3>4, <3>5
  <2> QED
    BY <2>1, <2>2
<1>4. CASE DeleteCR
  <2>1. WithinBudget' /\ ~Untouched'
    BY <1>4, <1>t, SpentStep DEF DeleteCR
  <2> QED
    BY <2>1 DEF FirstInv
<1>5. CASE \E v \in Versions : GrantRole(v)
  <2> PICK v \in Versions : GrantRole(v)
    BY <1>5
  <2>1. WithinBudget' /\ Untouched' = Untouched
    BY <1>t, SparedStep DEF GrantRole
  <2>2. Untouched => OneVersion'
    BY <1>f DEF OneVersion, GrantRole, inProcess
  <2> QED
    BY <2>1, <2>2, ClusterFirst DEF GrantRole
<1>6. CASE \E r \in roles : RevokeRole(r)
  <2> PICK r \in roles : RevokeRole(r)
    BY <1>6
  <2>1. WithinBudget' /\ Untouched' = Untouched
    BY <1>t, SparedStep DEF RevokeRole
  <2>2. ~Untouched
    BY <1>f DEF OneVersion, RevokeRole
  <2> QED
    BY <2>1, <2>2 DEF FirstInv
<1>7. CASE \E v \in Versions : Deploy(v)
  <2> PICK v \in Versions : Deploy(v)
    BY <1>7
  <2>1. WithinBudget' /\ Untouched' = Untouched
    BY <1>t, SparedStep DEF Deploy
  <2>2. Untouched => deployment = 0
    BY <1>f DEF OneVersion, Deploy
  <2>3. Untouched => OneVersion'
    BY <1>f, <2>2 DEF OneVersion, Deploy, inProcess
  <2> QED
    BY <2>1, <2>3, ClusterFirst DEF Deploy
<1>8. CASE Undeploy
  <2>1. WithinBudget' /\ Untouched' = Untouched
    BY <1>8, <1>t, SparedStep DEF Undeploy
  <2>2. ~Untouched
    BY <1>8, <1>f DEF OneVersion, Undeploy
  <2> QED
    BY <2>1, <2>2 DEF FirstInv
<1>9. CASE \E v \in Versions : Replace(v)
  <2> PICK v \in Versions : Replace(v)
    BY <1>9
  <2>1. ~Untouched
    BY <1>f, <1>t DEF OneVersion, Replace, TypeOK, Versions
  <2>2. WithinBudget' /\ Untouched' = Untouched
    BY <1>t DEF Replace, WithinBudget, Untouched
  <2> QED
    BY <2>1, <2>2 DEF FirstInv
<1>10. CASE Collect
  <2>1. ~Untouched
    BY <1>10, <1>f DEF OneVersion, Collect
  <2>2. WithinBudget' /\ Untouched' = Untouched
    BY <1>10, <1>t, SparedStep DEF Collect
  <2> QED
    BY <2>1, <2>2 DEF FirstInv
<1>11. CASE Rollout
  BY <1>11, FreshFirst DEF Rollout
<1>12. CASE Crash
  <2>1. WithinBudget' /\ Untouched' = Untouched
    BY <1>12, <1>t, SparedStep DEF Crash, clusterVars
  <2>2. Untouched => process = deployment
    BY <1>12, <1>f DEF OneVersion, Crash
  <2>3. CASE Untouched
    BY <1>12, <2>2, <2>3, FreshFirst DEF Crash
  <2>4. CASE ~Untouched
    BY <2>1, <2>4 DEF FirstInv
  <2> QED
    BY <2>3, <2>4
<1>13. CASE Announce
  <2>1. WithinBudget' /\ Untouched' = Untouched
    BY <1>13, <1>t, SparedStep DEF Announce, clusterVars
  <2>2. Untouched => OneVersion'
    BY <1>13, <1>f DEF OneVersion, Announce, clusterVars
  <2>3. Untouched => NothingStale'
    BY <1>13, <1>f DEF NothingStale, Announce, clusterVars, workerVars
  <2>4. Untouched => queued'
    BY <1>13, <1>f DEF OneVersion, Announce, OwnDeployment
  <2>5. Untouched => RestingIsRegistered'
    BY <2>4, Zenon DEF RestingIsRegistered, Resting
  <2> QED
    BY <2>1, <2>2, <2>3, <2>5 DEF FirstInv
<1>14. CASE Unannounce
  <2>1. WithinBudget' /\ Untouched' = Untouched
    BY <1>14, <1>t, SparedStep DEF Unannounce, clusterVars
  <2>2. Untouched => OneVersion' /\ NothingStale'
    BY <1>14, <1>f DEF OneVersion, NothingStale, Unannounce, clusterVars,
                       workerVars
  <2>3. RestingIsRegistered'
    BY <1>14 DEF RestingIsRegistered, Resting, Unannounce
  <2> QED
    BY <2>1, <2>2, <2>3 DEF FirstInv
<1>15. CASE \E kind \in Kinds : Sync(kind)
  <2> PICK kind \in Kinds : Sync(kind)
    BY <1>15
  <2>1. WithinBudget' /\ Untouched' = Untouched
    BY <1>t, SparedStep DEF Sync, clusterVars
  <2>2. Untouched => OneVersion' /\ deployment # 0
    BY <1>f DEF OneVersion, Sync, clusterVars
  <2>3. Untouched => NothingStale'
    <3> SUFFICES ASSUME Untouched PROVE NothingStale'
      OBVIOUS
    <3>1. "deployments" \in synced' => depCache'
      BY <1>f, <2>2 DEF NothingStale, Sync
    <3>2. crCache' => cr.exists
      BY <1>f DEF NothingStale, Sync
    <3>3. roleCache' \subseteq roles
      BY <1>f DEF NothingStale, Sync
    <3>4. cr' = cr /\ roles' = roles /\ owner' = owner
      BY DEF Sync, clusterVars, workerVars
    <3> QED
      BY <1>f, <3>1, <3>2, <3>3, <3>4 DEF NothingStale
  <2>4. Untouched => RestingIsRegistered'
    BY <1>f DEF RestingIsRegistered, Resting, Sync, clusterVars, workVars,
                workerVars
  <2> QED
    BY <2>1, <2>2, <2>3, <2>4 DEF FirstInv
<1>16. CASE Retry
  <2>1. WithinBudget' /\ Untouched' = Untouched
    BY <1>16, <1>t, SparedStep DEF Retry, clusterVars
  <2>2. Untouched => OneVersion' /\ NothingStale'
    BY <1>16, <1>f DEF OneVersion, NothingStale, Retry, clusterVars, cacheVars,
                       workerVars
  <2>3. RestingIsRegistered'
    BY <1>16, Zenon DEF RestingIsRegistered, Resting, Retry
  <2> QED
    BY <2>1, <2>2, <2>3 DEF FirstInv
<1>17. CASE Dequeue
  <2>1. WithinBudget' /\ Untouched' = Untouched
    BY <1>17, <1>t, SparedStep DEF Dequeue, clusterVars
  <2>2. Untouched => OneVersion' /\ NothingStale'
    BY <1>17, <1>f DEF OneVersion, NothingStale, Dequeue, clusterVars,
                       cacheVars
  <2>3. RestingIsRegistered'
    BY <1>17 DEF RestingIsRegistered, Resting, Dequeue
  <2> QED
    BY <2>1, <2>2, <2>3 DEF FirstInv
<1>18. CASE GetDeployment
  <2>1. Untouched => pc' # "idle" \/ backoff' \/ cr.exists
    BY <1>18, <1>f DEF GetDeployment, Goto, ReturnRequeue, FailedCall,
                       NothingStale
  <2> QED
    BY <1>18, <2>1, WorkerFirst
       DEF GetDeployment, Goto, Return, ReturnRequeue, FailedCall
<1>19. CASE CheckCrd
  BY <1>19, WorkerFirst DEF CheckCrd, Goto, ReturnRequeue, FailedCall
<1>20. CASE GetProvider
  <2>1. Untouched => pc' # "idle" \/ backoff' \/ cr.exists
    BY <1>20, <1>f DEF GetProvider, Goto, ReturnRequeue, FailedCall,
                       NothingStale
  <2> QED
    BY <1>20, <2>1, WorkerFirst
       DEF GetProvider, Goto, Return, ReturnRequeue, FailedCall
<1>21. CASE ListRoles
  BY <1>21, WorkerFirst
     DEF ListRoles, OwnRoles, Goto, ReturnRequeue, FailedCall
<1>22. CASE Create
  <2>1. budget' = budget \/ Spend("fault")
    BY <1>22 DEF Create, FailedCall
  <2>2. WithinBudget' /\ Untouched' = Untouched
    BY <1>22, <1>t, <2>1, SparedStep DEF Create
  <2>3. SUFFICES ASSUME Untouched
                 PROVE  OneVersion' /\ NothingStale' /\ RestingIsRegistered'
    BY <2>2 DEF FirstInv
  <2>c. cr' = cr \/ (crd /\ cr' = ProviderCR(owner))
    BY <1>22 DEF Create
  <2>4. cr' = cr \/ (crd /\ cr' = [exists |-> TRUE, owner |-> owner])
    BY <2>c DEF ProviderCR
  <2>5. owner \in roles /\ owner' = NoRole
    BY <1>22, <1>f, <2>3
       DEF Create, Return, ReturnRequeue, FailedCall, NothingStale, IInv,
           PickedOwn, NoRole, Roles, Versions
  <2>6. cr'.exists => crd /\ cr'.owner \in roles
    BY <1>f, <2>3, <2>4, <2>5 DEF OneVersion
  <2>7. cr.exists => cr'.exists
    BY <2>4
  <2>8. OneVersion'
    BY <1>22, <1>f, <2>3, <2>6 DEF OneVersion, Create
  <2>9. NothingStale'
    BY <1>22, <1>f, <2>3, <2>5, <2>7 DEF NothingStale, Create, cacheVars
  <2>10. backoff' \/ cr'.exists
    BY <1>22 DEF Create, ReturnRequeue, FailedCall, ProviderCR
  <2> QED
    BY <2>8, <2>9, <2>10, Zenon DEF RestingIsRegistered, Resting
<1>23. CASE UNCHANGED vars
  BY <1>23 DEF FirstInv, WithinBudget, Untouched, OneVersion, NothingStale,
               RestingIsRegistered, Resting, vars, clusterVars, cacheVars,
               workVars, workerVars
<1> QED
  BY <1>1, <1>2, <1>3, <1>4, <1>5, <1>6, <1>7, <1>8, <1>9, <1>10, <1>11,
     <1>12, <1>13, <1>14, <1>15, <1>16, <1>17, <1>18, <1>19, <1>20, <1>21,
     <1>22, <1>23
     DEF Next, Reconcile

(* No first installation is left unregistered: whatever has died, failed   *)
(* or come late, the process that has taken in the Deployment's only event *)
(* has the CR, or still has the request in its hands.                      *)
THEOREM RestingIsRegisteredHolds == Spec => []RestingIsRegistered
<1>1. FirstInv => RestingIsRegistered
  BY DEF FirstInv, RestingIsRegistered
<1> QED
  BY <1>1, InitFirst, StepFirst, RegistrationInvariance, PTL DEF Spec

=============================================================================
