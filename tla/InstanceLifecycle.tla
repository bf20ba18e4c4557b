-------------------------- MODULE InstanceLifecycle --------------------------
(***************************************************************************)
(* What the ProviderInstance controller promises, without caches, requests *)
(* or resource versions: an instance is asked for and bound once, and it   *)
(* is reported ready only when the provider has its cluster.  Instances    *)
(* may be deleted and the provider may lose clusters at any time; a report *)
(* that has become wrong so stands until it is doubted.                    *)
(* InstanceController implements this specification.                       *)
(***************************************************************************)
CONSTANTS
  Keys,            \* names of instances
  IDs,             \* ids of clusters
  NoID,            \* of none
  BuiltIn          \* the clusters every provider process starts with

VARIABLES
  asked,           \* instances that exist
  bound,           \* bound[k]: the cluster of k, NoID if it has none (yet)
  ready,           \* instances reported ready
  provider         \* clusters the provider has or has been sent

vars == <<asked, bound, ready, provider>>

Init ==
  /\ asked = {}
  /\ bound = [k \in Keys |-> NoID]
  /\ ready = {}
  /\ provider = BuiltIn

Ask(k) ==
  /\ k \notin asked
  /\ asked' = asked \cup {k}
  /\ UNCHANGED <<bound, ready, provider>>

Drop(k) ==
  /\ k \in asked
  /\ asked' = asked \ {k}
  /\ bound' = [bound EXCEPT ![k] = NoID]
  /\ ready' = ready \ {k}
  /\ UNCHANGED provider

\* A cluster is made for an instance that will be bound to it, or for none.
Make(id) ==
  /\ provider' = provider \cup {id}
  /\ UNCHANGED <<asked, bound, ready>>

\* The instance gets its cluster, or is found to have it still.
Bind(k, id) ==
  /\ k \in asked
  /\ bound[k] \in {NoID, id}
  /\ id \in provider
  /\ bound' = [bound EXCEPT ![k] = id]
  /\ ready' = ready \cup {k}
  /\ UNCHANGED <<asked, provider>>

\* A failure is reported; what the instance is bound to stays.
Doubt(k) ==
  /\ k \in ready
  /\ ready' = ready \ {k}
  /\ UNCHANGED <<asked, bound, provider>>

\* A new provider process.
Lose ==
  /\ provider' = BuiltIn
  /\ UNCHANGED <<asked, bound, ready>>

Next ==
  \/ \E k \in Keys : Ask(k)
  \/ \E k \in Keys : Drop(k)
  \/ \E id \in IDs : Make(id)
  \/ \E k \in Keys, id \in IDs : Bind(k, id)
  \/ \E k \in Keys : Doubt(k)
  \/ Lose

Spec == Init /\ [][Next]_vars

=============================================================================
