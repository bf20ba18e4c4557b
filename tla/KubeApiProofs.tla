----------------------------- MODULE KubeApiProofs -----------------------------
(***************************************************************************)
(* Proofs about KubeApi, for objects of any kind: S stands for the set of  *)
(* their versions.  Whatever is stored, observed or listed, the informer   *)
(* is a stale copy of the server that the events on their way bring up to  *)
(* date.                                                                   *)
(***************************************************************************)
EXTENDS KubeApi, SequenceTheorems, TLAPS

\* What taking the head off a queue, a channel or a watch stream leaves.
LEMMA TailFacts ==
  ASSUME NEW S, NEW s \in Seq(S), s # <<>>
  PROVE  /\ Len(s) \in Nat \ {0}
         /\ s[1] \in S
         /\ Head(s) = s[1]
         /\ Tail(s) \in Seq(S)
         /\ Len(Tail(s)) = Len(s) - 1
         /\ \A i \in 1..Len(Tail(s)) : Tail(s)[i] = s[i + 1]
         /\ Tail(s) = <<>> <=> Len(s) = 1
<1>1. /\ Len(s) \in Nat \ {0}
      /\ Tail(s) \in Seq(S)
      /\ Len(Tail(s)) = Len(s) - 1
  OBVIOUS
<1>2. s[1] \in S /\ Head(s) = s[1]
  BY <1>1
<1>3. \A i \in 1..Len(Tail(s)) : Tail(s)[i] = s[i + 1]
  BY <1>1
<1>4. Tail(s) = <<>> <=> Len(Tail(s)) = 0
  BY <1>1, EmptySeq
<1>5. Len(Tail(s)) = 0 <=> Len(s) = 1
  BY <1>1
<1> QED BY <1>1, <1>2, <1>3, <1>4, <1>5

Typed(S) ==
  /\ server \in [Keys -> S]
  /\ cache  \in [Keys -> S]
  /\ watch  \in [Keys -> Seq(S)]

Informer(S) == Typed(S) /\ InformerCatchesUp /\ VersionsOrdered

\* A step that leaves the server and the informer alone keeps all this.
LEMMA InformerStutters ==
  ASSUME NEW S, Informer(S), UNCHANGED apiVars
  PROVE  Informer(S)'
  BY DEF apiVars, Informer, Typed, InformerCatchesUp, VersionsOrdered, Informed

\* What the informer knows are versions, the cache's and the server's among
\* them.
LEMMA InformedFacts ==
  ASSUME NEW S, Informer(S), NEW k \in Keys
  PROVE  /\ server[k] \in S /\ cache[k] \in S
         /\ \A v \in Informed(k) : v \in S
         /\ cache[k] \in Informed(k)
         /\ server[k] \in Informed(k)
<1>1. server[k] \in S /\ cache[k] \in S /\ watch[k] \in Seq(S)
  BY DEF Informer, Typed
<1>2. \A v \in Informed(k) : v \in S
  BY <1>1 DEF Informed
<1>3. cache[k] \in Informed(k)
  BY DEF Informed
<1>4. CASE watch[k] = <<>>
  <2>1. cache[k] = server[k]
    BY <1>4 DEF Informer, InformerCatchesUp
  <2>2. server[k] \in Informed(k)
    BY <1>3, <2>1 DEF Informed
  <2> QED BY <1>1, <1>2, <1>3, <2>2
<1>5. CASE watch[k] # <<>>
  <2>1. watch[k][Len(watch[k])] = server[k]
    BY <1>5 DEF Informer, InformerCatchesUp
  <2>2. Len(watch[k]) \in 1..Len(watch[k])
    BY <1>1, <1>5, TailFacts
  <2>3. server[k] \in Informed(k)
    BY <2>1, <2>2 DEF Informed
  <2> QED BY <1>1, <1>2, <1>3, <2>3
<1> QED BY <1>1, <1>2, <1>3, <1>4, <1>5

\* A new version is newer than all the informer has been told of.
LEMMA StoreInforms ==
  ASSUME NEW S, \A v \in S : v.rv \in Nat, Informer(S),
         NEW k \in Keys, NEW v \in S,
         v.rv = server[k].rv + 1, Store(k, v)
  PROVE  /\ Informer(S)'
         /\ server'[k] = v
         /\ watch'[k] # <<>>
         /\ \A l \in Keys \ {k} : server'[l] = server[l] /\ watch'[l] = watch[l]
         /\ \A l \in Keys : \A w \in Informed(l)' :
              w \in Informed(l) \/ (l = k /\ w = v)
<1>1. Typed(S)'
  BY DEF Informer, Typed, Store
<1>2. \A l \in Keys : server[l].rv \in Nat
  BY DEF Informer, Typed
<1>3. /\ server'[k] = v
      /\ watch'[k] = Append(watch[k], v)
      /\ \A l \in Keys \ {k} : server'[l] = server[l] /\ watch'[l] = watch[l]
      /\ cache' = cache
  BY DEF Informer, Typed, Store
<1>4. watch[k] \in Seq(S)
  BY DEF Informer, Typed
<1>5. /\ Len(watch'[k]) = Len(watch[k]) + 1
      /\ watch'[k][Len(watch[k]) + 1] = v
      /\ \A i \in 1..Len(watch[k]) : watch'[k][i] = watch[k][i]
      /\ watch'[k] # <<>>
  BY <1>3, <1>4
<1>6. InformerCatchesUp'
  BY <1>3, <1>5 DEF Informer, InformerCatchesUp
<1>7. ASSUME NEW l \in Keys, NEW w \in Informed(l)'
      PROVE  w \in Informed(l) \/ (l = k /\ w = v)
  <2>1. CASE l # k
    BY <1>3, <2>1 DEF Informed
  <2>2. CASE l = k
    <3>1. CASE w = cache'[k]
      BY <1>3, <2>2, <3>1 DEF Informed
    <3>2. CASE \E i \in 1..Len(watch'[k]) : w = watch'[k][i]
      <4>1. PICK i \in 1..Len(watch'[k]) : w = watch'[k][i]
        BY <3>2
      <4>2. Len(watch[k]) \in Nat
        BY <1>4
      <4>3. i = Len(watch[k]) + 1 \/ i \in 1..Len(watch[k])
        BY <1>5, <4>2
      <4> QED BY <1>5, <2>2, <4>1, <4>3 DEF Informed
    <3>3. w \in Informed(k)'
      BY <2>2
    <3> QED BY <3>1, <3>2, <3>3 DEF Informed
  <2> QED BY <2>1, <2>2
<1>8. ASSUME NEW l \in Keys, NEW w \in Informed(l)'
      PROVE  /\ w.rv <= server'[l].rv
             /\ w.rv = server'[l].rv => w = server'[l]
  <2>1. w \in Informed(l) =>
          /\ w.rv <= server[l].rv
          /\ w.rv = server[l].rv => w = server[l]
          /\ w.rv \in Nat
    BY InformedFacts DEF Informer, VersionsOrdered
  <2>2. CASE w \in Informed(l) /\ l # k
    BY <1>3, <2>1, <2>2
  <2>3. CASE w \in Informed(l) /\ l = k
    BY <1>2, <1>3, <2>1, <2>3
  <2>4. CASE l = k /\ w = v
    <3>1. v.rv <= v.rv
      BY <1>2
    <3> QED BY <1>3, <2>4, <3>1
  <2> QED BY <1>7, <2>2, <2>3, <2>4
<1>9. VersionsOrdered'
  BY <1>8 DEF VersionsOrdered
<1> QED
  BY <1>1, <1>3, <1>5, <1>6, <1>7, <1>9 DEF Informer

\* An accepted status update stores w, a new version with the copy's status,
\* or changes nothing because the server has that status.
LEMMA StatusInforms ==
  ASSUME NEW S, \A v \in S : v.rv \in Nat, Informer(S),
         NEW k \in Keys, NEW w \in S, NEW status,
         w.rv = server[k].rv + 1, w.live = server[k].live, w.status = status,
         Store(k, w) \/ (status = server[k].status /\ UNCHANGED apiVars)
  PROVE  /\ Informer(S)'
         /\ server'[k].status = status
         /\ server'[k].live = server[k].live
         /\ \/ server' = server /\ watch' = watch
            \/ /\ watch'[k] # <<>>
               /\ server'[k].rv = server[k].rv + 1
         /\ \A l \in Keys \ {k} : server'[l] = server[l] /\ watch'[l] = watch[l]
         /\ \A l \in Keys : \A v \in Informed(l)' :
              v \in Informed(l) \/ (l = k /\ v = w)
<1>1. CASE status = server[k].status /\ UNCHANGED apiVars
  BY <1>1, InformerStutters DEF apiVars, Informed
<1>2. CASE Store(k, w)
  BY <1>2, StoreInforms
<1> QED
  BY <1>1, <1>2

\* A watch event brings the cache one version closer to the server, and
\* touches no other object.
LEMMA ObserveInforms ==
  ASSUME NEW S, \A v \in S : v.rv \in Nat, Informer(S),
         NEW k \in Keys, Observe(k)
  PROVE  /\ Informer(S)'
         /\ server' = server
         /\ \A l \in Keys \ {k} : watch'[l] = watch[l]
         /\ \A l \in Keys : \A w \in Informed(l)' : w \in Informed(l)
<1>1. /\ watch[k] \in Seq(S)
      /\ watch[k] # <<>>
      /\ watch'[k] = Tail(watch[k])
      /\ cache'[k] = watch[k][1]
      /\ server' = server
      /\ \A l \in Keys \ {k} : watch'[l] = watch[l] /\ cache'[l] = cache[l]
  BY DEF Informer, Typed, Observe
<1>2. /\ Len(watch[k]) \in Nat \ {0}
      /\ watch[k][1] \in S
      /\ watch'[k] \in Seq(S)
      /\ Len(watch'[k]) = Len(watch[k]) - 1
      /\ \A i \in 1..Len(watch'[k]) : watch'[k][i] = watch[k][i + 1]
      /\ watch'[k] = <<>> <=> Len(watch[k]) = 1
  BY <1>1, TailFacts
<1>3. Typed(S)'
  BY <1>1, <1>2 DEF Informer, Typed, Observe
<1>4. ASSUME NEW l \in Keys
      PROVE  IF watch'[l] = <<>> THEN cache'[l] = server'[l]
                                 ELSE watch'[l][Len(watch'[l])] = server'[l]
  <2>1. CASE l = k
    <3>1. watch[k][Len(watch[k])] = server[k]
      BY <1>1 DEF Informer, InformerCatchesUp
    <3>2. CASE Len(watch[k]) = 1
      BY <1>1, <1>2, <2>1, <3>1, <3>2
    <3>3. CASE Len(watch[k]) # 1
      <4>1. /\ Len(watch'[k]) \in 1..Len(watch'[k])
            /\ Len(watch'[k]) + 1 = Len(watch[k])
        BY <1>2, <3>3
      <4>2. watch'[k][Len(watch'[k])] = server[k]
        BY <1>2, <3>1, <4>1
      <4> QED BY <1>1, <1>2, <2>1, <3>3, <4>2
    <3> QED BY <3>2, <3>3
  <2>2. CASE l # k
    BY <1>1, <2>2 DEF Informer, InformerCatchesUp
  <2> QED BY <2>1, <2>2
<1>5. ASSUME NEW l \in Keys, NEW w \in Informed(l)'
      PROVE  w \in Informed(l)
  <2>1. CASE l = k
    <3>1. w = cache'[k] \/ \E i \in 1..Len(watch'[k]) : w = watch'[k][i]
      BY <2>1 DEF Informed
    <3>2. CASE w = cache'[k]
      <4>1. 1 \in 1..Len(watch[k]) /\ w = watch[k][1]
        BY <1>1, <1>2, <3>2
      <4> QED BY <2>1, <4>1 DEF Informed
    <3>3. CASE \E i \in 1..Len(watch'[k]) : w = watch'[k][i]
      <4>1. PICK i \in 1..Len(watch'[k]) : w = watch'[k][i]
        BY <3>3
      <4>2. i + 1 \in 1..Len(watch[k]) /\ w = watch[k][i + 1]
        BY <1>2, <4>1
      <4> QED BY <2>1, <4>2 DEF Informed
    <3> QED BY <3>1, <3>2, <3>3
  <2>2. CASE l # k
    BY <1>1, <2>2 DEF Informed
  <2> QED BY <2>1, <2>2
<1> QED
  BY <1>1, <1>3, <1>4, <1>5 DEF Informer, InformerCatchesUp, VersionsOrdered

\* A new process lists the server's objects and has no event to wait for.
LEMMA RelistInforms ==
  ASSUME NEW S, \A v \in S : v.rv \in Nat, Informer(S),
         Relist
  PROVE  /\ Informer(S)'
         /\ server' = server
         /\ \A k \in Keys : \A w \in Informed(k)' : w \in Informed(k)
<1>1. Typed(S)'
  BY DEF Informer, Typed, Relist
<1>2. \A k \in Keys : watch'[k] = <<>> /\ cache'[k] = server'[k]
  BY DEF Relist
<1>3. \A k \in Keys : Informed(k)' = {server'[k]}
  BY <1>2 DEF Informed
<1>4. \A k \in Keys : server'[k].rv \in Nat
  BY <1>1 DEF Typed
<1>5. InformerCatchesUp'
  BY <1>2 DEF InformerCatchesUp
<1>6. VersionsOrdered'
  BY <1>3, <1>4 DEF VersionsOrdered
<1>7. server' = server
  BY DEF Relist
<1>8. \A k \in Keys : \A w \in Informed(k)' : w \in Informed(k)
  BY <1>3, <1>7, InformedFacts
<1> QED
  BY <1>1, <1>5, <1>6, <1>7, <1>8 DEF Informer

-----------------------------------------------------------------------------
(* The order of events.                                                    *)

\* The cache has the oldest version the informer knows of.
LEMMA CacheIsOldest ==
  ASSUME NEW S, \A v \in S : v.rv \in Nat, Informer(S), EventsInOrder,
         NEW k \in Keys, NEW w \in Informed(k)
  PROVE  cache[k].rv <= w.rv
<1>1. cache[k].rv <= cache[k].rv
  BY InformedFacts
<1> QED BY <1>1 DEF EventsInOrder, Informed

\* A version that is stored is the newest.
LEMMA StoreKeepsOrder ==
  ASSUME NEW S, \A v \in S : v.rv \in Nat, Informer(S), EventsInOrder,
         NEW k \in Keys, NEW v \in S,
         v.rv = server[k].rv + 1, Store(k, v)
  PROVE  EventsInOrder'
<1>1. /\ watch'[k] = Append(watch[k], v)
      /\ \A l \in Keys \ {k} : watch'[l] = watch[l]
      /\ cache' = cache
  BY DEF Informer, Typed, Store
<1>2. watch[k] \in Seq(S) /\ Len(watch[k]) \in Nat
  BY DEF Informer, Typed
<1>3. /\ Len(watch'[k]) = Len(watch[k]) + 1
      /\ watch'[k][Len(watch[k]) + 1] = v
      /\ \A i \in 1..Len(watch[k]) : watch'[k][i] = watch[k][i]
  BY <1>1, <1>2
<1>4. \A w \in Informed(k) : w.rv <= v.rv
  <2>1. \A w \in Informed(k) : w.rv \in Nat /\ w.rv <= server[k].rv
    BY InformedFacts DEF Informer, VersionsOrdered
  <2>2. server[k].rv \in Nat
    BY InformedFacts
  <2> QED BY <2>1, <2>2
<1>5. /\ cache[k].rv <= v.rv
      /\ \A i \in 1..Len(watch[k]) : watch[k][i].rv <= v.rv
  BY <1>4 DEF Informed
<1>6. v.rv <= v.rv
  OBVIOUS
<1>7. ASSUME NEW i \in 1..Len(watch'[k])
      PROVE  /\ cache'[k].rv <= watch'[k][i].rv
             /\ \A j \in i..Len(watch'[k]) : watch'[k][i].rv <= watch'[k][j].rv
  <2>1. CASE i = Len(watch[k]) + 1
    <3>1. \A j \in i..Len(watch'[k]) : j = i
      BY <1>2, <1>3, <2>1
    <3> QED BY <1>1, <1>3, <1>5, <1>6, <2>1, <3>1
  <2>2. CASE i \in 1..Len(watch[k])
    <3>1. ASSUME NEW j \in i..Len(watch'[k])
          PROVE  watch'[k][i].rv <= watch'[k][j].rv
      <4>1. j = Len(watch[k]) + 1 \/ j \in i..Len(watch[k])
        BY <1>2, <1>3
      <4>2. j \in i..Len(watch[k]) => j \in 1..Len(watch[k])
        BY <1>2
      <4> QED BY <1>3, <1>5, <2>2, <4>1, <4>2 DEF EventsInOrder
    <3> QED BY <1>1, <1>3, <2>2, <3>1 DEF EventsInOrder
  <2>3. i = Len(watch[k]) + 1 \/ i \in 1..Len(watch[k])
    BY <1>2, <1>3
  <2> QED BY <2>1, <2>2, <2>3
<1> QED BY <1>1, <1>7 DEF EventsInOrder

\* The events left after one is taken are no older than it.
LEMMA ObserveKeepsOrder ==
  ASSUME NEW S, \A v \in S : v.rv \in Nat, Informer(S), EventsInOrder,
         NEW k \in Keys, Observe(k)
  PROVE  EventsInOrder'
<1>1. /\ watch[k] \in Seq(S)
      /\ watch[k] # <<>>
      /\ watch'[k] = Tail(watch[k])
      /\ cache'[k] = watch[k][1]
      /\ \A l \in Keys \ {k} : watch'[l] = watch[l] /\ cache'[l] = cache[l]
  BY DEF Informer, Typed, Observe
<1>2. /\ Len(watch[k]) \in Nat \ {0}
      /\ Len(watch'[k]) = Len(watch[k]) - 1
      /\ \A i \in 1..Len(watch'[k]) : watch'[k][i] = watch[k][i + 1]
  BY <1>1, TailFacts
<1>3. ASSUME NEW i \in 1..Len(watch'[k])
      PROVE  /\ cache'[k].rv <= watch'[k][i].rv
             /\ \A j \in i..Len(watch'[k]) : watch'[k][i].rv <= watch'[k][j].rv
  <2>1. 1 \in 1..Len(watch[k]) /\ i + 1 \in 1..Len(watch[k])
    BY <1>2
  <2>2. watch[k][1].rv <= watch[k][i + 1].rv
    BY <2>1 DEF EventsInOrder
  <2>3. ASSUME NEW j \in i..Len(watch'[k])
        PROVE  watch'[k][i].rv <= watch'[k][j].rv
    <3>1. j \in 1..Len(watch'[k]) /\ j + 1 \in (i + 1)..Len(watch[k])
      BY <1>2
    <3>2. watch[k][i + 1].rv <= watch[k][j + 1].rv
      BY <2>1, <3>1 DEF EventsInOrder
    <3> QED BY <1>2, <3>1, <3>2
  <2> QED BY <1>1, <1>2, <2>2, <2>3
<1> QED BY <1>1, <1>3 DEF EventsInOrder

\* Whoever lists the objects has no events left.
LEMMA RelistKeepsOrder ==
  ASSUME Relist
  PROVE  EventsInOrder'
<1>1. \A k \in Keys : watch'[k] = <<>>
  BY DEF Relist
<1>2. 1..0 = {}
  OBVIOUS
<1> QED BY <1>1, <1>2 DEF EventsInOrder

================================================================================
