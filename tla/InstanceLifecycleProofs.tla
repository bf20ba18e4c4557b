----------------------- MODULE InstanceLifecycleProofs -----------------------
(***************************************************************************)
(* InstanceController implements InstanceLifecycle, for any instances,     *)
(* names, channel capacity and bounds.  A step changes either what the     *)
(* provider has or an instance, never both, so each is mapped on its own;  *)
(* the inductive invariant says what the worker knows when it writes.      *)
(***************************************************************************)
EXTENDS InstanceControllerProofs

BuiltIn == {SeedClusters[i] : i \in 1..3}

-----------------------------------------------------------------------------
(* The provider.                                                           *)

\* Sending a cluster adds that cluster and no other.
LEMMA SendAdds ==
  ASSUME CloudType, NEW id \in ClusterIDs, Send(id)
  PROVE  \A i \in ClusterIDs : Held(i)' => Held(i) \/ i = id
<1>1. /\ addCluster \in Seq(ClusterIDs)
      /\ addCluster' = Append(addCluster, id)
      /\ adding' = adding
      /\ clusters' = clusters
  BY DEF CloudType, Send
<1>2. /\ Len(addCluster') = Len(addCluster) + 1
      /\ addCluster'[Len(addCluster) + 1] = id
      /\ \A i \in 1..Len(addCluster) : addCluster'[i] = addCluster[i]
      /\ Len(addCluster) \in Nat
  BY <1>1
<1> QED BY <1>1, <1>2 DEF Held, Listed

\* The goroutine passes on what it was sent and nothing else.
LEMMA GoroutineAddsNothing ==
  ASSUME CloudType, ReceiveCluster \/ AppendCluster
  PROVE  \A i \in ClusterIDs : Held(i)' => Held(i)
<1>1. CASE ReceiveCluster
  <2>1. /\ addCluster \in Seq(ClusterIDs)
        /\ addCluster # <<>>
        /\ adding' = addCluster[1]
        /\ addCluster' = Tail(addCluster)
        /\ clusters' = clusters
    BY <1>1 DEF CloudType, ReceiveCluster
  <2>2. /\ Len(addCluster) \in Nat \ {0}
        /\ Len(addCluster') = Len(addCluster) - 1
        /\ \A i \in 1..Len(addCluster') : addCluster'[i] = addCluster[i + 1]
    BY <2>1, TailFacts
  <2>3. \A i \in 1..Len(addCluster') : i + 1 \in 1..Len(addCluster)
    BY <2>2
  <2>4. 1 \in 1..Len(addCluster)
    BY <2>2
  <2> QED BY <2>1, <2>2, <2>3, <2>4 DEF Held, Listed
<1>2. CASE AppendCluster
  <2>1. /\ clusters \in Seq(ClusterIDs)
        /\ clusters' = Append(clusters, adding)
        /\ adding' = NoID
        /\ addCluster' = addCluster
    BY <1>2 DEF CloudType, AppendCluster
  <2>2. /\ Len(clusters) \in Nat
        /\ Len(clusters') = Len(clusters) + 1
        /\ clusters'[Len(clusters) + 1] = adding
        /\ \A i \in 1..Len(clusters) : clusters'[i] = clusters[i]
    BY <2>1, <1>2 DEF CloudType, AppendCluster
  <2> QED BY <2>1, <2>2, NoIDFresh DEF Held, Listed
<1> QED BY <1>1, <1>2

\* A new process has the built-in clusters.
LEMMA ResetIsBuiltIn ==
  ASSUME clusters = SeedClusters, adding = NoID, addCluster = <<>>
  PROVE  {id \in ClusterIDs : Held(id)} = BuiltIn
<1>1. \A id \in ClusterIDs : Held(id) <=> \E i \in 1..3 : SeedClusters[i] = id
  BY SeedType, NoIDFresh DEF Held, Listed
<1>2. \A i \in 1..3 : SeedClusters[i] \in ClusterIDs
  BY DEF ClusterIDs
<1> QED BY <1>1, <1>2 DEF BuiltIn

\* The steps that change what the provider has leave the instances alone.
LEMMA ProviderMoves ==
  ASSUME IInv, [Next]_vars
  PROVE  \/ \A i \in ClusterIDs : Held(i)' <=> Held(i)
         \/ /\ UNCHANGED server
            /\ \E id \in ClusterIDs : \A i \in ClusterIDs :
                 Held(i)' <=> Held(i) \/ i = id
         \/ UNCHANGED server /\ ResetCloud
<1> USE InvParts
<1>1. CASE UNCHANGED cloudVars
  BY <1>1 DEF cloudVars, Held, Listed
<1>2. CASE Receive \/ Add
  <2>1. CloudType /\ (ReceiveCluster \/ AppendCluster)
    BY <1>2 DEF Receive, Add
  <2> QED BY <2>1, GoroutineAddsNothing, ReceiveHolds, AppendHolds
<1>3. CASE Restart
  BY <1>3 DEF Restart, Relist
<1>4. CASE SendCluster
  <2>1. PICK id \in ClusterIDs : id = ClusterID(instance.name)
    BY <1>4 DEF SendCluster, BranchTaken, ClusterIDs
  <2>2. Send(id) /\ UNCHANGED server
    BY <1>4, <2>1 DEF SendCluster, apiVars
  <2> QED BY <2>2, SendAdds, SendHolds
<1>5. CASE \/ \E k \in Keys, name \in NameParams : CreateInstance(k, name)
           \/ \E k \in Keys, name \in NameParams : EditInstance(k, name)
           \/ \E k \in Keys : DeleteInstance(k)
           \/ InventoryChanges
           \/ \E k \in Keys : WatchEvent(k)
           \/ Resync
           \/ \E k \in Keys : Retry(k)
           \/ \E k \in Keys : Dequeue(k)
  BY <1>1, <1>5 DEF CreateInstance, EditInstance, DeleteInstance,
     InventoryChanges, WatchEvent, Resync, Retry, Dequeue
<1>6. CASE GetInstance \/ GetInventory \/ CreateCluster \/ GetCluster
             \/ UpdateReady \/ ReportReady \/ ReportFailure
  BY <1>1, <1>6 DEF GetInstance, GetInventory, CreateCluster, GetCluster,
     UpdateReady, ReportReady, ReportFailure
<1>7. CASE UNCHANGED vars
  BY <1>1, <1>7 DEF vars
<1> QED BY <1>2, <1>3, <1>4, <1>5, <1>6, <1>7 DEF Next, Reconcile

-----------------------------------------------------------------------------
(* The instances.                                                          *)

\* With the provider as it was, the abstract state is that of the instances.
ProviderStays == \A i \in ClusterIDs : Held(i)' <=> Held(i)

\* What users do is asking for an instance, dropping one, or nothing.
LEMMA UserMapped ==
  ASSUME IInv, UserStep, ProviderStays
  PROVE  [Life!Next]_(Life!vars)
<1> USE InvParts DEF ProviderStays
<1>1. /\ server \in [Keys -> Versions]
      /\ {i \in ClusterIDs : Held(i)}' = {i \in ClusterIDs : Held(i)}
  BY DEF Informer, Typed
<1>2. ASSUME NEW k \in Keys, NEW name \in NameParams, CreateInstance(k, name)
      PROVE  Life!Ask(k)
  <2>1. /\ ~server[k].live
        /\ server' = [server EXCEPT ![k] =
             [rv |-> server[k].rv + 1, live |-> TRUE, name |-> name,
              status |-> NoStatus]]
    BY <1>2 DEF CreateInstance, Store
  <2>2. /\ server'[k].live /\ server'[k].status = NoStatus
        /\ \A l \in Keys \ {k} : server'[l] = server[l]
    BY <1>1, <2>1
  <2>3. NoStatus.phase # "Ready" /\ NoStatus.id = NoID
    BY DEF NoStatus
  <2> QED BY <1>1, <2>1, <2>2, <2>3 DEF Life!Ask
<1>3. ASSUME NEW k \in Keys, NEW name \in NameParams, EditInstance(k, name)
      PROVE  UNCHANGED Life!vars
  <2>1. server' = [server EXCEPT ![k] =
                     [server[k] EXCEPT !.rv = @ + 1, !.name = name]]
    BY <1>3 DEF EditInstance, Store
  <2>2. \A l \in Keys : /\ server'[l].live = server[l].live
                        /\ server'[l].status = server[l].status
    BY <1>1, <2>1 DEF Versions
  <2> QED BY <1>1, <2>2 DEF Life!vars
<1>4. ASSUME NEW k \in Keys, DeleteInstance(k)
      PROVE  Life!Drop(k)
  <2>1. /\ server[k].live
        /\ server' = [server EXCEPT ![k] =
                        [Absent EXCEPT !.rv = server[k].rv + 1]]
    BY <1>4 DEF DeleteInstance, Store
  <2>2. /\ ~server'[k].live
        /\ \A l \in Keys \ {k} : server'[l] = server[l]
    BY <1>1, <2>1 DEF Absent
  <2> QED BY <1>1, <2>1, <2>2 DEF Life!Drop
<1> QED BY <1>2, <1>3, <1>4 DEF UserStep, Life!Next

\* What the worker writes binds its instance, or takes back that it is ready.
LEMMA WorkerMapped ==
  ASSUME IInv, NEW k \in Keys, WorkerWrites(k), ProviderStays
  PROVE  [Life!Next]_(Life!vars)
<1> USE InvParts DEF ProviderStays
<1>1. /\ server \in [Keys -> Versions]
      /\ {i \in ClusterIDs : Held(i)}' = {i \in ClusterIDs : Held(i)}
  BY DEF Informer, Typed
<1>2. /\ server'[k].status = instance.status
      /\ server[k].status.id \in {NoID, instance.status.id}
      /\ server[k].status.id # instance.status.id
           => instance.status.phase = "Ready"
      /\ instance.status.phase = "Ready" => Backed(k)'
      /\ \A l \in Keys \ {k} : server'[l] = server[l]
  BY WorkerWritesStatus
<1>3. server[k].live /\ server'[k].live
  <2>1. Working /\ instance \in Versions
    BY DEF WorkerWrites, Working, WorkerType
  <2> QED BY <2>1, StatusStored DEF WorkerWrites, Current
<1>4. CASE instance.status.phase = "Ready"
  <2>1. PICK id \in ClusterIDs : id = instance.status.id /\ Held(id)
    <3>1. instance \in Versions /\ Working
      BY DEF WorkerType, WorkerWrites, Working
    <3>2. instance.status.id \in ClusterIDs /\ Held(instance.status.id)
      BY <1>4, <3>1 DEF BranchTaken, Versions, Statuses
    <3> QED BY <3>2
  <2>2. Life!Bind(k, id)
    BY <1>1, <1>2, <1>3, <1>4, <2>1 DEF Life!Bind
  <2> QED BY <2>2 DEF Life!Next
<1>5. CASE instance.status.phase # "Ready"
  <2>1. server[k].status.id = instance.status.id
    BY <1>2, <1>5
  <2>2. CASE server[k].status.phase = "Ready"
    <3>1. Life!Doubt(k)
      BY <1>1, <1>2, <1>3, <1>5, <2>1, <2>2 DEF Life!Doubt
    <3> QED BY <3>1 DEF Life!Next
  <2>3. CASE server[k].status.phase # "Ready"
    BY <1>1, <1>2, <1>3, <1>5, <2>1, <2>3 DEF Life!vars
  <2> QED BY <2>2, <2>3
<1> QED BY <1>4, <1>5

-----------------------------------------------------------------------------
(* The theorem.                                                            *)

\* The operator starts with no instance and the built-in clusters.
LEMMA InitMapped == Init => Life!Init
<1> SUFFICES ASSUME Init PROVE Life!Init
  OBVIOUS
<1>1. {id \in ClusterIDs : Held(id)} = BuiltIn
  BY ResetIsBuiltIn DEF Init, InitCloud
<1>2. \A k \in Keys : ~server[k].live
  BY DEF Init, Absent
<1> QED BY <1>1, <1>2 DEF Life!Init, BuiltIn

\* Every step is a step of the life of an instance or leaves it as it is.
LEMMA StepMapped ==
  ASSUME IInv, [Next]_vars
  PROVE  [Life!Next]_(Life!vars)
<1>1. CASE UNCHANGED server /\ ProviderStays
  <2>1. {i \in ClusterIDs : Held(i)}' = {i \in ClusterIDs : Held(i)}
    BY <1>1 DEF ProviderStays
  <2> QED BY <1>1, <2>1 DEF Life!vars
<1>2. CASE UNCHANGED server /\ ResetCloud
  <2>1. {id \in ClusterIDs : Held(id)}' = BuiltIn
    <3>1. /\ clusters' = SeedClusters
          /\ adding' = NoID
          /\ addCluster' = <<>>
      BY <1>2 DEF ResetCloud
    <3>2. \A id \in ClusterIDs :
            Held(id)' <=> \E i \in 1..3 : SeedClusters[i] = id
      BY <3>1, SeedType, NoIDFresh DEF Held, Listed
    <3>3. \A i \in 1..3 : SeedClusters[i] \in ClusterIDs
      BY DEF ClusterIDs
    <3> QED BY <3>2, <3>3 DEF BuiltIn
  <2>2. Life!Lose
    BY <1>2, <2>1 DEF Life!Lose, BuiltIn
  <2> QED BY <2>2 DEF Life!Next
<1>3. ASSUME UNCHANGED server, NEW id \in ClusterIDs,
             \A i \in ClusterIDs : Held(i)' <=> Held(i) \/ i = id
      PROVE  Life!Next
  <2>1. {i \in ClusterIDs : Held(i)}' = {i \in ClusterIDs : Held(i)} \cup {id}
    BY <1>3
  <2>2. Life!Make(id)
    BY <1>3, <2>1 DEF Life!Make
  <2> QED BY <2>2 DEF Life!Next
<1>4. CASE ~UNCHANGED server /\ ProviderStays
  BY <1>4, Writers, UserMapped, WorkerMapped
<1> QED BY <1>1, <1>2, <1>3, <1>4, ProviderMoves DEF ProviderStays

(* The controller implements the life of an instance: for all that it      *)
(* works on old copies, forgets what it held in a restart and has its      *)
(* updates refused, an instance is bound once, to a cluster the provider   *)
(* has, and is reported ready in that step.                                *)
THEOREM Refinement == Spec => ImplementsLifecycle
<1>1. IInv /\ [Next]_vars => [Life!Next]_(Life!vars)
  BY StepMapped
<1> QED
  BY <1>1, InitMapped, Invariance, PTL
  DEF Spec, ImplementsLifecycle, Life!Spec

=============================================================================
