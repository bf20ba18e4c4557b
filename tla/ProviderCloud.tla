---------------------------- MODULE ProviderCloud ----------------------------
(***************************************************************************)
(* The provider cloud the operator provisions clusters in, as             *)
(* controllers/dbaas/testutil implements it and main.go wires it in: a     *)
(* list of clusters in the operator's own memory, filled by a goroutine    *)
(* that receives new clusters from a buffered channel.  CreateCluster and  *)
(* GetCluster take the list's address under the mutex and scan it after    *)
(* releasing it, so a scan runs against whatever the goroutine has         *)
(* appended so far.                                                        *)
(*                                                                         *)
(* A cluster is represented by its Id.  The goroutines for deleteCluster   *)
(* and updateCluster have no action: nothing ever sends to their channels. *)
(***************************************************************************)
EXTENDS Naturals, Sequences

CONSTANTS
  Names,           \* cluster names a user may ask for
  InvalidNames,    \* those that end in "invalid-cluster-creation-request"
  SeededName,      \* the name whose Id the third built-in cluster carries
  AddClusterCap    \* capacity of the addCluster channel (5 in the code)

NoName == ""       \* the provisioning parameter "name" is not given

ASSUME CloudAssumption ==
  /\ InvalidNames \subseteq Names
  /\ NoName \notin Names
  /\ AddClusterCap \in Nat \ {0}

VARIABLES
  addCluster,      \* the channel: clusters sent and not yet received
  adding,          \* the cluster the goroutine has received, NoID if none
  clusters         \* the list: Ids in the order they were appended

cloudVars == <<addCluster, adding, clusters>>

-----------------------------------------------------------------------------
NoID == <<>>

ClusterID(name) == <<"a-cluster-instance-id-", name>>

SeedClusters ==
  << <<"a-cluster-instance-1-id">>,
     <<"a-cluster-instance-2-id">>,
     ClusterID(SeededName) >>

ClusterIDs ==
  {ClusterID(n) : n \in Names} \cup {SeedClusters[i] : i \in 1..3}

-----------------------------------------------------------------------------
(* What a scan of the list finds.                                          *)
Listed(id) == \E i \in 1..Len(clusters) : clusters[i] = id

(* The provider has the cluster or is about to: listed, in the goroutine's *)
(* hands, or in the channel.                                               *)
Held(id) ==
  \/ Listed(id)
  \/ adding = id
  \/ \E i \in 1..Len(addCluster) : addCluster[i] = id

-----------------------------------------------------------------------------
(* Faulty variants of the operations below, part of no specification.      *)

\* The send is given up when the channel is full.
SendOrDrop(id) ==
  /\ addCluster' = IF Len(addCluster) < AddClusterCap
                     THEN Append(addCluster, id) ELSE addCluster
  /\ UNCHANGED <<adding, clusters>>

\* The goroutine receives once instead of for ever.
ReceiveFirst ==
  /\ adding = NoID
  /\ addCluster # <<>>
  /\ clusters = SeedClusters
  /\ adding' = Head(addCluster)
  /\ addCluster' = Tail(addCluster)
  /\ UNCHANGED clusters

-----------------------------------------------------------------------------
InitCloud ==
  /\ addCluster = <<>>
  /\ adding = NoID
  /\ clusters = SeedClusters

(* f.addCluster <- cluster: blocks while the channel is full.              *)
Send(id) ==
  /\ Len(addCluster) < AddClusterCap
  /\ addCluster' = Append(addCluster, id)
  /\ UNCHANGED <<adding, clusters>>

(* The goroutine: receive from the channel ...                             *)
ReceiveCluster ==
  /\ adding = NoID
  /\ addCluster # <<>>
  /\ adding' = Head(addCluster)
  /\ addCluster' = Tail(addCluster)
  /\ UNCHANGED clusters

(* ... then lock, append, unlock.                                          *)
AppendCluster ==
  /\ adding # NoID
  /\ clusters' = Append(clusters, adding)
  /\ adding' = NoID
  /\ UNCHANGED addCluster

(* A new process starts from the built-in clusters.                        *)
ResetCloud ==
  /\ addCluster' = <<>>
  /\ adding' = NoID
  /\ clusters' = SeedClusters

=============================================================================
