------------------------------- MODULE KubeApi -------------------------------
(***************************************************************************)
(* What every controller of the operator is written against: one kind of   *)
(* Kubernetes object, as the API server stores it and as the manager's     *)
(* client sees it.  r.Get reads the informer's cache; r.Status().Update    *)
(* goes to the server and is refused when the copy it carries is not the   *)
(* server's current version.  This code is controller-runtime's and the    *)
(* API server's, not this repository's: it is modelled from how the        *)
(* reconcilers in controllers/dbaas use it.                                *)
(*                                                                         *)
(* A version of an object is a record with at least the fields             *)
(*   rv      the resourceVersion,                                          *)
(*   live    whether the object exists (a deletion is a version too),      *)
(*   status  the status subresource.                                       *)
(***************************************************************************)
EXTENDS Naturals, Sequences

CONSTANT Keys          \* the namespaced names objects of the kind may have

VARIABLES
  server,              \* server[k]: the version of k that etcd holds
  cache,               \* cache[k]: the version of k in the informer's cache
  watch                \* watch[k]: versions of k the informer has yet to see

apiVars == <<server, cache, watch>>

-----------------------------------------------------------------------------
(* Outcomes of an Update that carries the copy v of the object k.          *)

\* Faulty variant, part of no specification: any version may be overwritten.
CurrentIfThere(k, v) == server[k].live

\* The copy is the server's version: the update is accepted.
Current(k, v) == server[k].live /\ server[k].rv = v.rv

\* Somebody has written the object since the copy was taken: IsConflict.
Conflict(k, v) == server[k].live /\ server[k].rv # v.rv

\* The object has been deleted: IsNotFound.
Missing(k) == ~server[k].live

-----------------------------------------------------------------------------
(* The server stores a new version and every watcher will see it.          *)
Store(k, v) ==
  /\ server' = [server EXCEPT ![k] = v]
  /\ watch'  = [watch EXCEPT ![k] = Append(@, v)]
  /\ UNCHANGED cache

(* An accepted r.Status().Update(v): only the status is taken from the     *)
(* copy, and an update that changes nothing creates no version.            *)
StoreStatus(k, v) ==
  \/ /\ v.status # server[k].status
     /\ Store(k, [server[k] EXCEPT !.rv = @ + 1, !.status = v.status])
  \/ /\ v.status = server[k].status
     /\ UNCHANGED apiVars

(* The informer takes the next watch event of k into its cache.            *)
Observe(k) ==
  /\ watch[k] # <<>>
  /\ cache' = [cache EXCEPT ![k] = Head(watch[k])]
  /\ watch' = [watch EXCEPT ![k] = Tail(@)]
  /\ UNCHANGED server

(* A new process lists the objects before it starts to watch them.         *)
Relist ==
  /\ cache' = server
  /\ watch' = [k \in Keys |-> <<>>]
  /\ UNCHANGED server

-----------------------------------------------------------------------------
(* What every controller may rely on.                                      *)

\* The versions of k the informer has, or has yet to see.
Informed(k) == {cache[k]} \cup {watch[k][i] : i \in 1..Len(watch[k])}

\* Without pending events the cache is up to date; with some, the last of
\* them brings it up to date.
InformerCatchesUp ==
  \A k \in Keys :
    IF watch[k] = <<>> THEN cache[k] = server[k]
                       ELSE watch[k][Len(watch[k])] = server[k]

\* A resourceVersion names one version, and the server has the newest.
VersionsOrdered ==
  \A k \in Keys : \A v \in Informed(k) :
    /\ v.rv <= server[k].rv
    /\ v.rv = server[k].rv => v = server[k]

\* Events arrive in the order of the versions they tell of.
EventsInOrder ==
  \A k \in Keys : \A i \in 1..Len(watch[k]) :
    /\ cache[k].rv <= watch[k][i].rv
    /\ \A j \in i..Len(watch[k]) : watch[k][i].rv <= watch[k][j].rv

=============================================================================
