----------------------- MODULE ConnectionControllerProofs -----------------------
(***************************************************************************)
(* Proofs about ConnectionController, for any connections, services,       *)
(* children and budget.  The argument is the inductive invariant IInv of   *)
(* that module: connections of one name follow each other in the order of  *)
(* their uids, so do the controllers of their children, and the worker's   *)
(* copy is of the latest connection it has heard of.  Hence a child it     *)
(* finds to be its connection's, or makes so, is nobody else's later on.   *)
(***************************************************************************)
EXTENDS ConnectionController, KubeApiProofs

\* What KubeApiProofs says of connections holds of their children.
CP == INSTANCE KubeApiProofs WITH
        Keys <- Children, server <- objects, cache <- objectCache,
        watch <- objectWatch

-----------------------------------------------------------------------------
(* Values.                                                                 *)

\* A deleted object is still a version, with its own resource version.
LEMMA AbsentTypes == Absent \in Versions /\ NoChild \in ChildVersions
  BY DEF Absent, NoStatus, Versions, Conditions, NoChild, ChildVersions

\* The versions of connections and children are numbered.
LEMMA VersionNumbers ==
  /\ \A v \in Versions : v.rv \in Nat /\ v.uid \in Nat
  /\ \A v \in ChildVersions : v.rv \in Nat /\ v.uid \in Nat /\ v.owner \in Nat
  BY DEF Versions, ChildVersions

\* A connection just created, and one just deleted.
LEMMA CreatedType ==
  ASSUME NEW n \in Nat, NEW s \in Services
  PROVE  [rv |-> n, live |-> TRUE, uid |-> n, service |-> s,
          status |-> NoStatus] \in Versions
  BY DEF NoStatus, Versions, Conditions

LEMMA DeletedType ==
  ASSUME NEW n \in Nat
  PROVE  LET w == [Absent EXCEPT !.rv = n]
         IN  w \in Versions /\ w.rv = n /\ w.uid = 0 /\ ~w.live
  BY DEF Absent, NoStatus, Versions, Conditions

\* The version an edit stores is of the same connection.
LEMMA EditedType ==
  ASSUME NEW v \in Versions, NEW s \in Services
  PROVE  LET w == [v EXCEPT !.rv = @ + 1, !.service = s]
         IN  /\ w \in Versions
             /\ w.rv = v.rv + 1 /\ w.uid = v.uid /\ w.live = v.live
<1> DEFINE a == [v EXCEPT !.rv = v.rv + 1]
           w == [a EXCEPT !.service = s]
<1>1. a \in Versions /\ a.rv = v.rv + 1 /\ a.uid = v.uid /\ a.live = v.live
  BY DEF Versions
<1>2. w \in Versions /\ w.rv = a.rv /\ w.uid = a.uid /\ w.live = a.live
  <2> HIDE DEF a
  <2> QED BY <1>1 DEF Versions
<1> QED BY <1>1, <1>2

\* So is the one a status update stores.
LEMMA NewStatusType ==
  ASSUME NEW v \in Versions, NEW s \in [cond : Conditions, refs : BOOLEAN]
  PROVE  LET w == [v EXCEPT !.rv = @ + 1, !.status = s]
         IN  /\ w \in Versions
             /\ w.rv = v.rv + 1 /\ w.uid = v.uid /\ w.live = v.live
             /\ w.status = s
<1> DEFINE a == [v EXCEPT !.rv = v.rv + 1]
           w == [a EXCEPT !.status = s]
<1>1. a \in Versions /\ a.rv = v.rv + 1 /\ a.uid = v.uid /\ a.live = v.live
  BY DEF Versions
<1>2. /\ w \in Versions /\ w.rv = a.rv /\ w.uid = a.uid /\ w.live = a.live
      /\ w.status = s
  <2> HIDE DEF a
  <2> QED BY <1>1 DEF Versions
<1> QED BY <1>1, <1>2

\* Setting the condition, or all of the status, leaves the copy of the same
\* version of the same connection.
LEMMA CopyTypes ==
  ASSUME NEW v \in Versions
  PROVE  /\ \A c \in Conditions :
              LET w == WithCondition(v, c)
              IN  w \in Versions /\ w.rv = v.rv /\ w.uid = v.uid
         /\ LET w == [v EXCEPT !.status = [cond |-> "ready", refs |-> TRUE]]
            IN  /\ w \in Versions /\ w.rv = v.rv /\ w.uid = v.uid
                /\ w.status = [cond |-> "ready", refs |-> TRUE]
<1>1. [cond |-> "ready", refs |-> TRUE] \in [cond : Conditions, refs : BOOLEAN]
  BY DEF Conditions
<1> QED BY <1>1 DEF Versions, WithCondition

\* The versions of a child that is deleted, and of one that is written.
LEMMA RemovedType ==
  ASSUME NEW n \in Nat
  PROVE  LET w == [NoChild EXCEPT !.rv = n]
         IN  w \in ChildVersions /\ w.rv = n /\ ~w.live
  BY DEF ChildVersions, NoChild

LEMMA WrittenType ==
  ASSUME NEW n \in Nat, NEW u \in Nat, NEW o \in Nat
  PROVE  [rv |-> n, live |-> TRUE, uid |-> u, owner |-> o, intact |-> TRUE]
           \in ChildVersions
  BY DEF ChildVersions

\* A child that is overwritten keeps its controller.
LEMMA TamperedType ==
  ASSUME NEW v \in ChildVersions
  PROVE  LET w == [v EXCEPT !.rv = @ + 1, !.intact = FALSE]
         IN  /\ w \in ChildVersions
             /\ w.rv = v.rv + 1 /\ w.owner = v.owner
<1> DEFINE a == [v EXCEPT !.rv = v.rv + 1]
           w == [a EXCEPT !.intact = FALSE]
<1>1. a \in ChildVersions /\ a.rv = v.rv + 1 /\ a.owner = v.owner
  BY DEF ChildVersions
<1>2. w \in ChildVersions /\ w.rv = a.rv /\ w.owner = a.owner
  <2> HIDE DEF a
  <2> QED BY <1>1 DEF ChildVersions
<1> QED BY <1>1, <1>2

-----------------------------------------------------------------------------
(* The invariant, part by part.                                            *)

WorkerType ==
  /\ doomed \in [Children -> Nat]
  /\ inventory \in Inventories
  /\ queue   \in SUBSET Keys
  /\ backoff \in SUBSET Keys
  /\ pc \in Locations
  /\ req \in IF pc = "idle" THEN {NoKey} ELSE Keys
  /\ connection \in Versions
  /\ nth \in IF pc \in {"idle", "getConnection", "getInventory"} THEN {1} ELSE Numbers
  /\ object \in ChildVersions
  /\ budget \in [BudgetKinds -> Nat]

Informers == Informer(Versions) /\ EventsInOrder /\ CP!Informer(ChildVersions)

\* The parts of the inductive invariant, grouped by the state they speak of.
LEMMA InvParts ==
  IInv <=> /\ Informers
           /\ WorkerType
           /\ StaleCopyIsNoticed
           /\ UidsGrow
           /\ OwnersGrow
           /\ CopyIsLatest
           /\ DoneAreOwned
           /\ RestingOwnsChildren
  BY DEF IInv, TypeOK, Informers, Informer, Typed, CP!Informer, CP!Typed,
     WorkerType, Child!InformerCatchesUp, CP!InformerCatchesUp,
     Child!VersionsOrdered, CP!VersionsOrdered, Child!Informed, CP!Informed

\* The parts of the invariant after a step make the invariant after it.
LEMMA InvPartsNext ==
  ASSUME Informers', WorkerType', StaleCopyIsNoticed', UidsGrow', OwnersGrow',
         CopyIsLatest', DoneAreOwned', RestingOwnsChildren'
  PROVE  IInv'
  BY DEF IInv, TypeOK, Informers, Informer, Typed, CP!Informer, CP!Typed,
     WorkerType, Child!InformerCatchesUp, CP!InformerCatchesUp,
     Child!VersionsOrdered, CP!VersionsOrdered, Child!Informed, CP!Informed

\* What the informers know are versions, the caches' and the server's among
\* them; and the server's is the newest.
LEMMA Knowledge ==
  ASSUME Informers
  PROVE  /\ \A k \in Keys :
              /\ server[k] \in Informed(k) /\ server[k] \in Versions
              /\ cache[k] \in Informed(k) /\ cache[k] \in Versions
              /\ \A v \in Informed(k) : v \in Versions /\ v.rv <= server[k].rv
         /\ \A c \in Children :
              /\ objects[c] \in Child!Informed(c) /\ objects[c] \in ChildVersions
              /\ objectCache[c] \in Child!Informed(c)
              /\ objectCache[c] \in ChildVersions
              /\ \A v \in Child!Informed(c) :
                   v \in ChildVersions /\ v.rv <= objects[c].rv
<1>1. ASSUME NEW k \in Keys
      PROVE  /\ server[k] \in Informed(k) /\ server[k] \in Versions
             /\ cache[k] \in Informed(k) /\ cache[k] \in Versions
             /\ \A v \in Informed(k) : v \in Versions /\ v.rv <= server[k].rv
  <2>1. Informer(Versions)
    BY DEF Informers
  <2>2. \A v \in Informed(k) : v.rv <= server[k].rv
    BY <2>1 DEF Informer, VersionsOrdered
  <2> QED BY <2>1, <2>2, InformedFacts
<1>2. ASSUME NEW c \in Children
      PROVE  /\ objects[c] \in Child!Informed(c) /\ objects[c] \in ChildVersions
             /\ objectCache[c] \in Child!Informed(c)
             /\ objectCache[c] \in ChildVersions
             /\ \A v \in Child!Informed(c) :
                  v \in ChildVersions /\ v.rv <= objects[c].rv
  <2>1. CP!Informer(ChildVersions)
    BY DEF Informers
  <2>2. \A v \in CP!Informed(c) : v.rv <= objects[c].rv
    BY <2>1 DEF CP!Informer, CP!VersionsOrdered
  <2>3. CP!Informed(c) = Child!Informed(c)
    BY DEF CP!Informed, Child!Informed
  <2> QED BY <2>1, <2>2, <2>3, CP!InformedFacts
<1> QED BY <1>1, <1>2

-----------------------------------------------------------------------------
(* What a step does to a connection, and to a child.                       *)

SameConnection(k) ==
  server'[k] = server[k] /\ \A v \in Informed(k)' : v \in Informed(k)

\* The new version is of the same connection, or of a younger one.
NewConnection(k) ==
  /\ server'[k].rv = server[k].rv + 1
  /\ server'[k].uid \in Nat /\ server'[k].uid <= server'[k].rv
  /\ server'[k].live => \/ server'[k].uid = server'[k].rv
                        \/ server[k].live /\ server'[k].uid = server[k].uid
  /\ \A v \in Informed(k)' : v \in Informed(k) \/ v = server'[k]

SameChild(c) ==
  objects'[c] = objects[c] /\ \A v \in Child!Informed(c)' : v \in Child!Informed(c)

\* An owner no younger than any connection to come, no older than any owner
\* before it.
Fits(c, owner) ==
  /\ owner <= server[c[2]].rv
  /\ \A v \in Child!Informed(c) : v.live => v.owner <= owner
  /\ \A w \in Informed(c[2]) : w.live => owner <= w.uid
  /\ Working /\ c[2] = req => owner <= connection.uid

NewChild(c) ==
  /\ objects'[c].rv = objects[c].rv + 1
  /\ objects'[c].owner \in Nat
  /\ objects'[c].live => Fits(c, objects'[c].owner)
  /\ \A v \in Child!Informed(c)' : v \in Child!Informed(c) \/ v = objects'[c]

\* The worker's copy is of the same version of the same connection as before.
CopyKept ==
  Working' => /\ Working
              /\ req' = req
              /\ connection'.rv = connection.rv
              /\ connection'.uid = connection.uid

Orders == UidsGrow /\ OwnersGrow /\ CopyIsLatest

\* The i-th child of k is a child, and whose.
LEMMA ChildrenOf ==
  /\ \A i \in Numbers, k \in Keys : <<i, k>> \in Children /\ <<i, k>>[2] = k
  /\ \A c \in Children : c[2] \in Keys
  BY DEF Children

\* There is a first child.
LEMMA FirstChild == 1 \in Numbers /\ \A i \in Numbers : i \in Nat /\ ~(i < 1)
<1>1. Len(Kinds) \in Nat \ {0}
  BY ConnectionAssumption, EmptySeq
<1> QED BY <1>1 DEF Numbers

\* While there is a copy, it is of a connection the worker knows of.
LEMMA WorkingReq ==
  ASSUME WorkerType, Working
  PROVE  req \in Keys /\ connection \in Versions
  BY DEF WorkerType, Working

\* New versions of connections keep the order.
LEMMA ConnectionsMove ==
  ASSUME Informers, WorkerType, Orders, CopyKept,
         \A k \in Keys : SameConnection(k) \/ NewConnection(k),
         \A c \in Children : SameChild(c)
  PROVE  Orders'
<1>0. /\ \A k \in Keys : server[k].rv \in Nat /\ server[k].uid \in Nat
      /\ \A k \in Keys : \A v \in Informed(k) : v.rv \in Nat /\ v.uid \in Nat
      /\ \A c \in Children : \A v \in Child!Informed(c) : v.owner \in Nat
  BY Knowledge, VersionNumbers
<1>1. ASSUME NEW k \in Keys, NEW v \in Informed(k)', NEW w \in Informed(k)'
      PROVE  /\ v.uid <= v.rv
             /\ v.rv <= w.rv /\ v.live /\ w.live => v.uid <= w.uid
  <2>1. CASE SameConnection(k)
    BY <2>1 DEF SameConnection, Orders, UidsGrow
  <2>2. CASE NewConnection(k)
    <3>1. /\ v \in Informed(k) \/ v = server'[k]
          /\ w \in Informed(k) \/ w = server'[k]
      BY <2>2 DEF NewConnection
    <3>2. \A u \in Informed(k) : u.rv <= server[k].rv /\ u.uid <= u.rv
      BY Knowledge DEF Orders, UidsGrow
    <3>3. CASE v \in Informed(k) /\ w \in Informed(k)
      BY <3>3 DEF Orders, UidsGrow
    <3>4. CASE v \in Informed(k) /\ w = server'[k]
      <4>1. v.uid <= v.rv /\ v.rv <= server[k].rv
        BY <3>2, <3>4
      <4>2. server[k].live /\ v.live => v.uid <= server[k].uid
        BY <3>4, <4>1, Knowledge DEF Orders, UidsGrow
      <4> QED BY <1>0, <2>2, <3>4, <4>1, <4>2 DEF NewConnection
    <3>5. CASE v = server'[k] /\ w \in Informed(k)
      <4>1. w.rv <= server[k].rv
        BY <3>2, <3>5
      <4>2. ~(v.rv <= w.rv)
        BY <1>0, <2>2, <3>5, <4>1 DEF NewConnection
      <4> QED BY <2>2, <3>5, <4>2 DEF NewConnection
    <3>6. CASE v = server'[k] /\ w = server'[k]
      <4>1. v.uid \in Nat
        BY <2>2, <3>6 DEF NewConnection
      <4>2. v.uid <= v.uid
        BY <4>1
      <4> QED BY <2>2, <3>6, <4>2 DEF NewConnection
    <3> QED BY <3>1, <3>3, <3>4, <3>5, <3>6
  <2> QED BY <2>1, <2>2
<1>2. ASSUME NEW k \in Keys, NEW o \in Nat, o <= server[k].rv,
             \A w \in Informed(k) : w.live => o <= w.uid
      PROVE  /\ o <= server'[k].rv
             /\ \A w \in Informed(k)' : w.live => o <= w.uid
  <2>1. CASE SameConnection(k)
    BY <1>2, <2>1 DEF SameConnection
  <2>2. CASE NewConnection(k)
    <3>1. server[k].live => o <= server[k].uid
      BY <1>2, Knowledge
    <3>2. server'[k].live => o <= server'[k].uid
      BY <1>0, <1>2, <2>2, <3>1 DEF NewConnection
    <3> QED BY <1>0, <1>2, <2>2, <3>2 DEF NewConnection
  <2> QED BY <2>1, <2>2
<1>3. UidsGrow'
  BY <1>1 DEF UidsGrow
<1>4. ASSUME NEW c \in Children, NEW v \in Child!Informed(c)', v.live
      PROVE  /\ v.owner <= server'[c[2]].rv
             /\ \A w \in Child!Informed(c)' :
                  v.rv <= w.rv /\ w.live => v.owner <= w.owner
             /\ \A w \in Informed(c[2])' : w.live => v.owner <= w.uid
  <2>1. v \in Child!Informed(c)
    BY DEF SameChild
  <2>2. /\ v.owner <= server[c[2]].rv
        /\ \A w \in Child!Informed(c) :
             v.rv <= w.rv /\ w.live => v.owner <= w.owner
        /\ \A w \in Informed(c[2]) : w.live => v.owner <= w.uid
    BY <1>4, <2>1 DEF Orders, OwnersGrow
  <2>3. c[2] \in Keys /\ v.owner \in Nat
    BY <1>0, <2>1, ChildrenOf
  <2>4. \A w \in Child!Informed(c)' : w \in Child!Informed(c)
    BY DEF SameChild
  <2> QED BY <1>2, <2>2, <2>3, <2>4
<1>5. OwnersGrow'
  BY <1>4 DEF OwnersGrow
<1>6. CopyIsLatest'
  <2> SUFFICES ASSUME Working'
               PROVE  /\ connection'.uid <= connection'.rv
                      /\ connection'.rv <= server'[req'].rv
                      /\ connection'.rv = server'[req'].rv
                           => connection'.uid = server'[req'].uid
                      /\ \A w \in Informed(req)' : w.live => connection'.uid <= w.uid
                      /\ \A i \in Numbers : \A v \in Child!Informed(<<i, req>>)' :
                           v.live => v.owner <= connection'.uid
    BY DEF CopyIsLatest
  <2>0. PICK k \in Keys : k = req
    BY WorkingReq DEF CopyKept
  <2>1. /\ Working /\ req' = k
        /\ connection'.rv = connection.rv /\ connection'.uid = connection.uid
        /\ connection.rv \in Nat /\ connection.uid \in Nat
    BY <2>0, WorkingReq, VersionNumbers DEF CopyKept
  <2>2. /\ connection.uid <= connection.rv
        /\ connection.rv <= server[k].rv
        /\ connection.rv = server[k].rv => connection.uid = server[k].uid
        /\ \A w \in Informed(k) : w.live => connection.uid <= w.uid
        /\ \A i \in Numbers : \A v \in Child!Informed(<<i, k>>) :
             v.live => v.owner <= connection.uid
    BY <2>0, <2>1 DEF Orders, CopyIsLatest
  <2>3. connection.uid <= server[k].rv
    BY <1>0, <2>1, <2>2
  <2>4. \A w \in Informed(k)' : w.live => connection.uid <= w.uid
    BY <1>2, <2>1, <2>2, <2>3
  <2>5. /\ connection.rv <= server'[k].rv
        /\ connection.rv = server'[k].rv => connection.uid = server'[k].uid
    <3>1. CASE SameConnection(k)
      BY <2>2, <3>1 DEF SameConnection
    <3>2. CASE NewConnection(k)
      BY <1>0, <2>1, <2>2, <3>2 DEF NewConnection
    <3> QED BY <3>1, <3>2
  <2>6. \A i \in Numbers : \A v \in Child!Informed(<<i, k>>)' :
           v.live => v.owner <= connection.uid
    BY <2>2, ChildrenOf DEF SameChild
  <2> QED BY <2>1, <2>2, <2>4, <2>5, <2>6
<1> QED BY <1>3, <1>5, <1>6 DEF Orders

\* So do new versions of children whose owners fit in.
LEMMA ChildrenMove ==
  ASSUME Informers, WorkerType, Orders, CopyKept,
         \A k \in Keys : SameConnection(k),
         \A c \in Children : SameChild(c) \/ NewChild(c)
  PROVE  Orders'
<1>0. /\ \A c \in Children : objects[c].rv \in Nat
      /\ \A c \in Children : \A v \in Child!Informed(c) :
           v.rv \in Nat /\ v.owner \in Nat
  BY Knowledge, VersionNumbers
<1>1. UidsGrow'
  BY DEF Orders, UidsGrow, SameConnection
<1>2. ASSUME NEW c \in Children, NEW v \in Child!Informed(c)', v.live
      PROVE  /\ v.owner <= server[c[2]].rv
             /\ \A w \in Child!Informed(c)' :
                  v.rv <= w.rv /\ w.live => v.owner <= w.owner
             /\ \A w \in Informed(c[2]) : w.live => v.owner <= w.uid
             /\ Working /\ c[2] = req => v.owner <= connection.uid
  <2>1. \A u \in Child!Informed(c) : u.rv <= objects[c].rv
    BY Knowledge
  <2>2. ASSUME v \in Child!Informed(c)
        PROVE  /\ v.owner <= server[c[2]].rv
               /\ \A w \in Child!Informed(c) :
                    v.rv <= w.rv /\ w.live => v.owner <= w.owner
               /\ \A w \in Informed(c[2]) : w.live => v.owner <= w.uid
               /\ Working /\ c[2] = req => v.owner <= connection.uid
    <3>1. /\ v.owner <= server[c[2]].rv
          /\ \A w \in Child!Informed(c) :
               v.rv <= w.rv /\ w.live => v.owner <= w.owner
          /\ \A w \in Informed(c[2]) : w.live => v.owner <= w.uid
      BY <1>2, <2>2 DEF Orders, OwnersGrow
    <3>2. Working /\ c[2] = req => v.owner <= connection.uid
      <4>1. \E i \in Numbers : c = <<i, c[2]>>
        BY DEF Children
      <4> QED BY <1>2, <2>2, <4>1 DEF Orders, CopyIsLatest
    <3> QED BY <3>1, <3>2
  <2>3. CASE SameChild(c)
    BY <2>2, <2>3 DEF SameChild
  <2>4. CASE NewChild(c)
    <3>1. /\ \A w \in Child!Informed(c)' :
               w \in Child!Informed(c) \/ w = objects'[c]
          /\ objects'[c].rv = objects[c].rv + 1
      BY <2>4 DEF NewChild
    <3>2. CASE v \in Child!Informed(c)
      <4>1. objects'[c].live => v.owner <= objects'[c].owner
        BY <1>2, <2>4, <3>2 DEF NewChild, Fits
      <4> QED BY <2>2, <3>1, <3>2, <4>1
    <3>3. CASE v = objects'[c]
      <4>1. Fits(c, v.owner)
        BY <1>2, <2>4, <3>3 DEF NewChild
      <4>2. \A w \in Child!Informed(c) : ~(v.rv <= w.rv)
        BY <1>0, <2>1, <3>1, <3>3
      <4>3. v.owner \in Nat => v.owner <= v.owner
        OBVIOUS
      <4>4. v.owner \in Nat
        BY <1>2, <2>4, <3>3 DEF NewChild
      <4> QED BY <3>1, <3>3, <4>1, <4>2, <4>3, <4>4 DEF Fits
    <3> QED BY <3>1, <3>2, <3>3
  <2> QED BY <2>3, <2>4
<1>3. ASSUME NEW k \in Keys
      PROVE  server'[k] = server[k] /\ \A w \in Informed(k)' : w \in Informed(k)
  BY DEF SameConnection
<1>4. OwnersGrow'
  <2> SUFFICES ASSUME NEW c \in Children, NEW v \in Child!Informed(c)', v.live
               PROVE  /\ v.owner <= server'[c[2]].rv
                      /\ \A w \in Child!Informed(c)' :
                           v.rv <= w.rv /\ w.live => v.owner <= w.owner
                      /\ \A w \in Informed(c[2])' : w.live => v.owner <= w.uid
    BY DEF OwnersGrow
  <2>1. c[2] \in Keys
    BY ChildrenOf
  <2> QED BY <1>2, <1>3, <2>1
<1>5. CopyIsLatest'
  <2> SUFFICES ASSUME Working'
               PROVE  /\ connection'.uid <= connection'.rv
                      /\ connection'.rv <= server'[req'].rv
                      /\ connection'.rv = server'[req'].rv
                           => connection'.uid = server'[req'].uid
                      /\ \A w \in Informed(req)' : w.live => connection'.uid <= w.uid
                      /\ \A i \in Numbers : \A v \in Child!Informed(<<i, req>>)' :
                           v.live => v.owner <= connection'.uid
    BY DEF CopyIsLatest
  <2>0. PICK k \in Keys : k = req
    BY WorkingReq DEF CopyKept
  <2>1. /\ Working /\ req' = k
        /\ connection'.rv = connection.rv /\ connection'.uid = connection.uid
    BY <2>0 DEF CopyKept
  <2>2. /\ connection.uid <= connection.rv
        /\ connection.rv <= server[k].rv
        /\ connection.rv = server[k].rv => connection.uid = server[k].uid
        /\ \A w \in Informed(k) : w.live => connection.uid <= w.uid
    BY <2>0, <2>1 DEF Orders, CopyIsLatest
  <2>3. \A i \in Numbers : \A v \in Child!Informed(<<i, k>>)' :
           v.live => v.owner <= connection.uid
    BY <1>2, <2>0, <2>1, ChildrenOf
  <2>4. \A w \in Informed(k)' : w \in Informed(k)
    BY <1>3
  <2> QED BY <1>3, <2>1, <2>2, <2>3, <2>4
<1> QED BY <1>1, <1>4, <1>5 DEF Orders

\* Nothing is stored, observed or listed.
LEMMA NothingMoves ==
  ASSUME Informers, UNCHANGED <<apiVars, childVars>>
  PROVE  /\ Informers'
         /\ \A k \in Keys : SameConnection(k)
         /\ \A c \in Children : SameChild(c)
<1>1. Informer(Versions)' /\ EventsInOrder'
  BY InformerStutters DEF Informers, EventsInOrder, apiVars
<1>2. CP!Informer(ChildVersions)'
  BY CP!InformerStutters DEF Informers, CP!apiVars, childVars
<1>3. \A k \in Keys : SameConnection(k)
  BY DEF SameConnection, Informed, apiVars
<1>4. \A c \in Children : SameChild(c)
  BY DEF SameChild, Child!Informed, childVars
<1> QED BY <1>1, <1>2, <1>3, <1>4 DEF Informers

\* A new version of a connection is stored.
LEMMA ConnectionStored ==
  ASSUME Informers, NEW k \in Keys, NEW v \in Versions,
         v.rv = server[k].rv + 1, v.uid <= v.rv,
         v.live => \/ v.uid = v.rv
                   \/ server[k].live /\ v.uid = server[k].uid,
         Store(k, v), UNCHANGED childVars
  PROVE  /\ Informers'
         /\ server'[k] = v /\ watch'[k] # <<>>
         /\ \A l \in Keys \ {k} : server'[l] = server[l] /\ watch'[l] = watch[l]
         /\ \A l \in Keys : SameConnection(l) \/ NewConnection(l)
         /\ \A c \in Children : SameChild(c)
<1>1. /\ Informer(Versions)'
      /\ server'[k] = v /\ watch'[k] # <<>>
      /\ \A l \in Keys \ {k} : server'[l] = server[l] /\ watch'[l] = watch[l]
      /\ \A l \in Keys : \A w \in Informed(l)' :
           w \in Informed(l) \/ (l = k /\ w = v)
  BY VersionNumbers, StoreInforms DEF Informers
<1>2. EventsInOrder' /\ CP!Informer(ChildVersions)'
  BY VersionNumbers, StoreKeepsOrder, CP!InformerStutters
  DEF Informers, CP!apiVars, childVars
<1>3. \A l \in Keys : SameConnection(l) \/ NewConnection(l)
  <2>1. v.uid \in Nat
    BY VersionNumbers
  <2>2. NewConnection(k)
    BY <1>1, <2>1 DEF NewConnection
  <2>3. \A l \in Keys \ {k} : SameConnection(l)
    BY <1>1 DEF SameConnection
  <2> QED BY <2>2, <2>3
<1>4. \A c \in Children : SameChild(c)
  BY DEF SameChild, Child!Informed, childVars
<1> QED BY <1>1, <1>2, <1>3, <1>4 DEF Informers

\* A status update of the current version is stored, or changes nothing.
LEMMA StatusStored ==
  ASSUME Informers, UidsGrow, NEW k \in Keys, NEW v \in Versions,
         server[k].live, StoreStatus(k, v), UNCHANGED childVars
  PROVE  /\ Informers'
         /\ server'[k].status = v.status /\ server'[k].uid = server[k].uid
         /\ \A l \in Keys \ {k} : server'[l] = server[l] /\ watch'[l] = watch[l]
         /\ \A l \in Keys : SameConnection(l) \/ NewConnection(l)
         /\ \A c \in Children : SameChild(c)
<1> DEFINE w == [server[k] EXCEPT !.rv = @ + 1, !.status = v.status]
<1>1. /\ server[k] \in Versions /\ server[k].uid <= server[k].rv
      /\ v.status \in [cond : Conditions, refs : BOOLEAN]
  BY Knowledge DEF UidsGrow, Versions
<1>2. /\ w \in Versions
      /\ w.rv = server[k].rv + 1 /\ w.uid = server[k].uid /\ w.live = server[k].live
      /\ w.status = v.status
  BY <1>1, NewStatusType
<1>3. w.uid <= w.rv
  BY <1>1, <1>2, VersionNumbers
<1>4. \/ Store(k, w)
      \/ v.status = server[k].status /\ UNCHANGED apiVars
  BY DEF StoreStatus
<1> HIDE DEF w
<1>5. CASE Store(k, w)
  BY <1>2, <1>3, <1>5, ConnectionStored
<1>6. CASE v.status = server[k].status /\ UNCHANGED apiVars
  BY <1>6, NothingMoves DEF apiVars
<1> QED BY <1>4, <1>5, <1>6

\* A new version of a child is stored.
LEMMA ChildStored ==
  ASSUME Informers, NEW c \in Children, NEW v \in ChildVersions,
         v.rv = objects[c].rv + 1, v.live => Fits(c, v.owner),
         Child!Store(c, v), UNCHANGED apiVars
  PROVE  /\ Informers'
         /\ objects'[c] = v
         /\ \A d \in Children \ {c} : objects'[d] = objects[d]
         /\ \A k \in Keys : SameConnection(k)
         /\ \A d \in Children : SameChild(d) \/ NewChild(d)
<1>1. Informer(Versions)' /\ EventsInOrder'
  BY InformerStutters DEF Informers, EventsInOrder, apiVars
<1>2. CP!Store(c, v)
  BY DEF CP!Store, Child!Store
<1>3. /\ CP!Informer(ChildVersions)'
      /\ objects'[c] = v
      /\ \A d \in Children \ {c} : objects'[d] = objects[d]
      /\ \A d \in Children : \A w \in CP!Informed(d)' :
           w \in CP!Informed(d) \/ (d = c /\ w = v)
  BY <1>2, VersionNumbers, CP!StoreInforms DEF Informers
<1>4. \A d \in Children : \A w \in Child!Informed(d)' :
           w \in Child!Informed(d) \/ (d = c /\ w = v)
  BY <1>3 DEF CP!Informed, Child!Informed
<1>5. \A k \in Keys : SameConnection(k)
  BY DEF SameConnection, Informed, apiVars
<1>6. NewChild(c)
  BY <1>3, <1>4, VersionNumbers DEF NewChild
<1>7. \A d \in Children \ {c} : SameChild(d)
  BY <1>3, <1>4 DEF SameChild
<1> QED BY <1>1, <1>3, <1>5, <1>6, <1>7 DEF Informers

-----------------------------------------------------------------------------
(* The steps that are not Reconcile's.                                     *)

\* The children there are after the step have the controllers they had.
ControllersKept ==
  \A c \in Children :
    objects'[c].live => objects[c].live /\ objects'[c].owner = objects[c].owner

\* A step that leaves the worker alone, and takes no connection out of sight,
\* keeps the invariant.
LEMMA OthersKeepInv ==
  ASSUME IInv, Informers', Orders', WorkerType',
         UNCHANGED <<pc, req, connection, nth>>,
         queue \subseteq queue', backoff \subseteq backoff' \cup queue',
         \A k \in Keys :
           \/ /\ server'[k] = server[k]
              /\ watch[k] # <<>> => watch'[k] # <<>> \/ k \in queue'
           \/ watch'[k] # <<>>,
         ControllersKept
  PROVE  IInv'
<1>0. /\ WorkerType /\ StaleCopyIsNoticed /\ DoneAreOwned /\ RestingOwnsChildren
  BY InvParts
<1>1. StaleCopyIsNoticed'
  <2> SUFFICES ASSUME Working', connection'.rv # server'[req'].rv
               PROVE  watch'[req'] # <<>> \/ req' \in queue'
    BY DEF StaleCopyIsNoticed
  <2>1. Working /\ req' = req /\ connection' = connection
    BY DEF Working
  <2>2. PICK k \in Keys : k = req
    BY <1>0, <2>1, WorkingReq
  <2> QED BY <1>0, <2>1, <2>2 DEF StaleCopyIsNoticed
<1>2. DoneAreOwned'
  <2> SUFFICES ASSUME NEW i \in Numbers, DoneWith(i)', objects'[i, req'].live
               PROVE  objects'[i, req'].owner = connection'.uid
    BY DEF DoneAreOwned
  <2>1. DoneWith(i) /\ req' = req /\ connection' = connection
    BY DEF DoneWith
  <2>2. req \in Keys
    BY <1>0, <2>1 DEF DoneWith, WorkerType
  <2>3. <<i, req>> \in Children
    BY <2>2, ChildrenOf
  <2> QED BY <1>0, <2>1, <2>3 DEF DoneAreOwned, ControllersKept
<1>3. RestingOwnsChildren'
  <2> SUFFICES ASSUME NEW k \in Keys, server'[k].live, AtRest(k)'
               PROVE  /\ server'[k].status = [cond |-> "ready", refs |-> TRUE]
                      /\ \A i \in Numbers : objects'[i, k].live =>
                           /\ objects'[i, k].live
                           /\ objects'[i, k].owner = server'[<<i, k>>[2]].uid
    BY DEF RestingOwnsChildren, OwnChild
  <2>1. AtRest(k) /\ server'[k] = server[k]
    BY DEF AtRest
  <2>2. server[k].live
    BY <2>1
  <2>3. /\ server[k].status = [cond |-> "ready", refs |-> TRUE]
        /\ \A i \in Numbers : objects[i, k].live => OwnChild(<<i, k>>)
    BY <1>0, <2>1, <2>2 DEF RestingOwnsChildren
  <2> QED BY <2>1, <2>3, ChildrenOf DEF OwnChild, ControllersKept
<1> QED BY <1>1, <1>2, <1>3, InvPartsNext DEF Orders

\* What the budget is after something has been spent of it.
LEMMA SpendType ==
  ASSUME WorkerType, NEW kind \in BudgetKinds, Spend(kind)
  PROVE  budget' \in [BudgetKinds -> Nat]
  BY DEF Spend, WorkerType

\* Users: create, edit, delete.
LEMMA UsersStep ==
  ASSUME IInv, NEW k \in Keys,
         \/ \E service \in Services :
              CreateConnection(k, service) \/ EditConnection(k, service)
         \/ DeleteConnection(k)
  PROVE  IInv'
<1>0. /\ Informers /\ WorkerType /\ UidsGrow /\ Orders
      /\ server[k] \in Versions /\ server[k].uid <= server[k].rv
      /\ server[k].rv \in Nat /\ server[k].uid \in Nat
      /\ server[k].rv + 1 \in Nat
  BY InvParts, Knowledge, VersionNumbers DEF UidsGrow, Orders
<1>1. SUFFICES
        ASSUME NEW v \in Versions, v.rv = server[k].rv + 1, v.uid <= v.rv,
               v.live => \/ v.uid = v.rv
                         \/ server[k].live /\ v.uid = server[k].uid,
               Store(k, v),
               UNCHANGED <<childVars, doomed, inventory, workVars, copyVars>>,
               budget' \in [BudgetKinds -> Nat]
        PROVE  IInv'
  <2>1. ASSUME NEW service \in Services, CreateConnection(k, service)
        PROVE  IInv'
    <3> DEFINE v == [rv |-> server[k].rv + 1, live |-> TRUE,
                     uid |-> server[k].rv + 1, service |-> service,
                     status |-> NoStatus]
    <3>1. v \in Versions /\ v.rv = server[k].rv + 1 /\ v.uid = v.rv
      BY <1>0, CreatedType
    <3>2. budget' \in [BudgetKinds -> Nat]
      BY <1>0, <2>1, SpendType DEF CreateConnection, BudgetKinds
    <3>3. /\ Store(k, v)
          /\ UNCHANGED <<childVars, doomed, inventory, workVars, copyVars>>
      BY <2>1 DEF CreateConnection
    <3> HIDE DEF v
    <3>4. v.uid <= v.rv
      BY <1>0, <3>1
    <3> QED BY <1>1, <3>1, <3>2, <3>3, <3>4
  <2>2. ASSUME NEW service \in Services, EditConnection(k, service)
        PROVE  IInv'
    <3> DEFINE v == [server[k] EXCEPT !.rv = @ + 1, !.service = service]
    <3>1. /\ v \in Versions /\ v.rv = server[k].rv + 1
          /\ v.uid = server[k].uid /\ v.live = server[k].live
      BY <1>0, EditedType
    <3>2. budget' \in [BudgetKinds -> Nat]
      BY <1>0, <2>2, SpendType DEF EditConnection, BudgetKinds
    <3>3. /\ Store(k, v)
          /\ UNCHANGED <<childVars, doomed, inventory, workVars, copyVars>>
      BY <2>2 DEF EditConnection
    <3> HIDE DEF v
    <3>4. v.uid <= v.rv
      BY <1>0, <3>1
    <3> QED BY <1>1, <3>1, <3>2, <3>3, <3>4
  <2>3. ASSUME DeleteConnection(k)
        PROVE  IInv'
    <3> DEFINE v == [Absent EXCEPT !.rv = server[k].rv + 1]
    <3>1. v \in Versions /\ v.rv = server[k].rv + 1 /\ v.uid = 0 /\ ~v.live
      BY <1>0, DeletedType
    <3>2. budget' \in [BudgetKinds -> Nat]
      BY <1>0, <2>3 DEF DeleteConnection, WorkerType
    <3>3. /\ Store(k, v)
          /\ UNCHANGED <<childVars, doomed, inventory, workVars, copyVars>>
      BY <2>3 DEF DeleteConnection
    <3> HIDE DEF v
    <3>4. v.uid <= v.rv
      BY <1>0, <3>1
    <3> QED BY <1>1, <3>1, <3>2, <3>3, <3>4
  <2> QED BY <2>1, <2>2, <2>3
<1>2. /\ Informers'
      /\ watch'[k] # <<>>
      /\ \A l \in Keys \ {k} : server'[l] = server[l] /\ watch'[l] = watch[l]
      /\ \A l \in Keys : SameConnection(l) \/ NewConnection(l)
      /\ \A c \in Children : SameChild(c)
  BY <1>0, <1>1, ConnectionStored
<1>3. CopyKept
  BY <1>1 DEF CopyKept, Working, copyVars
<1>4. Orders'
  BY <1>0, <1>2, <1>3, ConnectionsMove
<1>5. WorkerType'
  BY <1>0, <1>1 DEF WorkerType, workVars, copyVars
<1>6. ControllersKept
  BY <1>2 DEF SameChild, ControllersKept
<1> QED
  BY <1>0, <1>1, <1>2, <1>4, <1>5, <1>6, OthersKeepInv
  DEF workVars, copyVars, WorkerType

\* A step that stores, observes and lists nothing, and leaves the worker alone.
LEMMA QuietStep ==
  ASSUME IInv, UNCHANGED <<apiVars, childVars, copyVars>>, WorkerType',
         queue \subseteq queue', backoff \subseteq backoff' \cup queue'
  PROVE  IInv'
<1>1. Informers /\ WorkerType /\ Orders
  BY InvParts DEF Orders
<1>2. /\ Informers'
      /\ \A k \in Keys : SameConnection(k)
      /\ \A c \in Children : SameChild(c)
  BY <1>1, NothingMoves
<1>3. CopyKept
  BY DEF CopyKept, Working, copyVars
<1>4. Orders'
  BY <1>1, <1>2, <1>3, ConnectionsMove
<1>5. ControllersKept
  BY <1>2 DEF SameChild, ControllersKept
<1> QED BY <1>2, <1>4, <1>5, OthersKeepInv DEF apiVars, copyVars

\* The inventory, the collector's findings and the queue are none of a
\* connection's or child's state.
LEMMA QuietSteps ==
  ASSUME IInv,
         \/ InventoryChanges
         \/ \E c \in Children : FindOrphan(c)
         \/ Resync
         \/ \E k \in Keys : Retry(k)
         \/ UNCHANGED vars
  PROVE  IInv'
<1>0. Informers /\ WorkerType
  BY InvParts
<1>1. CASE InventoryChanges
  <2>1. budget' \in [BudgetKinds -> Nat]
    BY <1>0, <1>1, SpendType DEF InventoryChanges, BudgetKinds
  <2>2. /\ UNCHANGED <<apiVars, childVars, copyVars, queue, backoff, doomed>>
        /\ inventory' \in Inventories
    BY <1>1 DEF InventoryChanges, workVars
  <2>3. WorkerType'
    BY <1>0, <2>1, <2>2 DEF WorkerType, copyVars
  <2> QED BY <2>2, <2>3, QuietStep
<1>2. ASSUME NEW c \in Children, FindOrphan(c)
      PROVE  IInv'
  <2>1. budget' \in [BudgetKinds -> Nat]
    BY <1>0, <1>2, SpendType DEF FindOrphan, BudgetKinds, WorkerType
  <2>2. objects[c].uid \in Nat
    BY <1>0, Knowledge, VersionNumbers
  <2>3. /\ UNCHANGED <<apiVars, childVars, copyVars, queue, backoff, inventory>>
        /\ doomed' = [doomed EXCEPT ![c] = objects[c].uid]
    BY <1>2 DEF FindOrphan, workVars
  <2>4. WorkerType'
    BY <1>0, <2>1, <2>2, <2>3 DEF WorkerType, copyVars
  <2> QED BY <2>3, <2>4, QuietStep
<1>3. CASE Resync \/ \E k \in Keys : Retry(k)
  <2>1. /\ UNCHANGED <<apiVars, childVars, copyVars, doomed, inventory, budget>>
        /\ queue \subseteq queue' /\ backoff \subseteq backoff' \cup queue'
        /\ queue' \in SUBSET Keys /\ backoff' \in SUBSET Keys
    BY <1>0, <1>3 DEF Resync, Retry, WorkerType
  <2>2. WorkerType'
    BY <1>0, <2>1 DEF WorkerType, copyVars
  <2> QED BY <2>1, <2>2, QuietStep
<1>4. CASE UNCHANGED vars
  <2>1. /\ UNCHANGED <<apiVars, childVars, copyVars>>
        /\ UNCHANGED <<doomed, inventory, budget, queue, backoff>>
    BY <1>4 DEF vars, workVars
  <2>2. WorkerType'
    BY <1>0, <2>1 DEF WorkerType, copyVars
  <2> QED BY <2>1, <2>2, QuietStep
<1> QED BY <1>1, <1>2, <1>3, <1>4

\* A step that stores a version of a child which is gone or has the
\* controller it had.
LEMMA ChildStep ==
  ASSUME IInv, NEW c \in Children, NEW v \in ChildVersions,
         v.rv = objects[c].rv + 1,
         v.live => objects[c].live /\ v.owner = objects[c].owner,
         Child!Store(c, v),
         UNCHANGED <<apiVars, copyVars, workVars>>, WorkerType'
  PROVE  IInv'
<1>1. Informers /\ WorkerType /\ Orders /\ OwnersGrow /\ CopyIsLatest
  BY InvParts DEF Orders
<1>2. ASSUME v.live
      PROVE  Fits(c, v.owner)
  <2>1. /\ objects[c] \in Child!Informed(c) /\ objects[c].live
        /\ v.owner = objects[c].owner
    BY <1>1, <1>2, Knowledge
  <2>2. \A w \in Child!Informed(c) : w.rv <= objects[c].rv
    BY <1>1, Knowledge
  <2>3. /\ v.owner <= server[c[2]].rv
        /\ \A w \in Informed(c[2]) : w.live => v.owner <= w.uid
    BY <1>1, <2>1 DEF OwnersGrow
  <2>4. \A w \in Child!Informed(c) : w.live => w.owner <= v.owner
    BY <1>1, <2>1, <2>2 DEF OwnersGrow
  <2>5. Working /\ c[2] = req => v.owner <= connection.uid
    <3>1. \E i \in Numbers : c = <<i, c[2]>>
      BY DEF Children
    <3> QED BY <1>1, <2>1, <3>1 DEF CopyIsLatest
  <2> QED BY <2>3, <2>4, <2>5 DEF Fits
<1>3. /\ Informers'
      /\ objects'[c] = v
      /\ \A d \in Children \ {c} : objects'[d] = objects[d]
      /\ \A k \in Keys : SameConnection(k)
      /\ \A d \in Children : SameChild(d) \/ NewChild(d)
  BY <1>1, <1>2, ChildStored
<1>4. CopyKept
  BY DEF CopyKept, Working, copyVars
<1>5. Orders'
  BY <1>1, <1>3, <1>4, ChildrenMove
<1>6. ControllersKept
  BY <1>3 DEF ControllersKept
<1> QED BY <1>3, <1>5, <1>6, OthersKeepInv DEF apiVars, copyVars, workVars

\* Somebody deletes or overwrites a child.
LEMMA TamperStep ==
  ASSUME IInv, NEW c \in Children, Tamper(c)
  PROVE  IInv'
<1>0. /\ Informers /\ WorkerType
      /\ objects[c] \in ChildVersions /\ objects[c].rv + 1 \in Nat
  BY InvParts, Knowledge, VersionNumbers
<1>1. budget' \in [BudgetKinds -> Nat]
  BY <1>0, SpendType DEF Tamper, BudgetKinds
<1>2. /\ UNCHANGED <<apiVars, copyVars, workVars, doomed, inventory>>
      /\ objects[c].live
  BY DEF Tamper
<1>3. WorkerType'
  BY <1>0, <1>1, <1>2 DEF WorkerType, copyVars, workVars
<1>4. CASE Child!Store(c, Removed(c))
  <2> DEFINE v == Removed(c)
  <2>1. v \in ChildVersions /\ v.rv = objects[c].rv + 1 /\ ~v.live
    BY <1>0, RemovedType DEF Removed
  <2>2. Child!Store(c, v)
    BY <1>4
  <2> HIDE DEF v
  <2> QED BY <1>2, <1>3, <2>1, <2>2, ChildStep
<1>5. CASE Child!Store(c, [objects[c] EXCEPT !.rv = @ + 1, !.intact = FALSE])
  <2> DEFINE v == [objects[c] EXCEPT !.rv = @ + 1, !.intact = FALSE]
  <2>1. v \in ChildVersions /\ v.rv = objects[c].rv + 1
        /\ v.owner = objects[c].owner
    BY <1>0, TamperedType
  <2>2. Child!Store(c, v)
    BY <1>5
  <2> HIDE DEF v
  <2> QED BY <1>2, <1>3, <2>1, <2>2, ChildStep
<1> QED BY <1>4, <1>5 DEF Tamper

\* The collector deletes the child it found, or finds it gone.
LEMMA CollectOrphanStep ==
  ASSUME IInv, NEW c \in Children, CollectOrphan(c)
  PROVE  IInv'
<1>0. /\ Informers /\ WorkerType
      /\ objects[c] \in ChildVersions /\ objects[c].rv + 1 \in Nat
  BY InvParts, Knowledge, VersionNumbers
<1>1. /\ UNCHANGED <<apiVars, copyVars, workVars, budget, inventory>>
      /\ doomed' = [doomed EXCEPT ![c] = 0]
  BY DEF CollectOrphan
<1>2. WorkerType'
  BY <1>0, <1>1 DEF WorkerType, copyVars, workVars
<1>3. CASE Child!Store(c, Removed(c))
  <2> DEFINE v == Removed(c)
  <2>1. v \in ChildVersions /\ v.rv = objects[c].rv + 1 /\ ~v.live
    BY <1>0, RemovedType DEF Removed
  <2>2. Child!Store(c, v)
    BY <1>3
  <2> HIDE DEF v
  <2> QED BY <1>1, <1>2, <2>1, <2>2, ChildStep
<1>4. CASE UNCHANGED childVars
  BY <1>1, <1>2, <1>4, QuietStep DEF workVars
<1> QED BY <1>3, <1>4 DEF CollectOrphan

\* A watch event updates the cache and queues its connection.
LEMMA WatchEventStep ==
  ASSUME IInv, NEW k \in Keys, WatchEvent(k)
  PROVE  IInv'
<1>0. Informers /\ WorkerType /\ Orders
  BY InvParts DEF Orders
<1>1. /\ Observe(k)
      /\ queue' = queue \cup {k}
      /\ UNCHANGED <<childVars, doomed, inventory, backoff, copyVars, budget>>
  BY DEF WatchEvent
<1>2. /\ Informer(Versions)'
      /\ server' = server
      /\ \A l \in Keys \ {k} : watch'[l] = watch[l]
      /\ \A l \in Keys : \A w \in Informed(l)' : w \in Informed(l)
  BY <1>0, <1>1, VersionNumbers, ObserveInforms DEF Informers
<1>3. EventsInOrder' /\ CP!Informer(ChildVersions)'
  BY <1>0, <1>1, VersionNumbers, ObserveKeepsOrder, CP!InformerStutters
  DEF Informers, CP!apiVars, childVars
<1>4. \A c \in Children : SameChild(c)
  BY <1>1 DEF SameChild, Child!Informed, childVars
<1>5. \A l \in Keys : SameConnection(l)
  BY <1>2 DEF SameConnection
<1>6. Informers'
  BY <1>2, <1>3 DEF Informers
<1>7. CopyKept
  BY <1>1 DEF CopyKept, Working, copyVars
<1>8. Orders'
  BY <1>0, <1>4, <1>5, <1>7, ConnectionsMove
<1>9. WorkerType'
  BY <1>0, <1>1 DEF WorkerType, copyVars
<1>10. ControllersKept
  BY <1>4 DEF SameChild, ControllersKept
<1> QED BY <1>1, <1>2, <1>6, <1>8, <1>9, <1>10, OthersKeepInv DEF copyVars

\* An event of a child updates its cache.
LEMMA ChildEventStep ==
  ASSUME IInv, NEW c \in Children, ChildEvent(c)
  PROVE  IInv'
<1>0. Informers /\ WorkerType /\ Orders
  BY InvParts DEF Orders
<1>1. /\ CP!Observe(c)
      /\ UNCHANGED <<apiVars, doomed, inventory, workVars, copyVars, budget>>
  BY DEF ChildEvent, CP!Observe, Child!Observe
<1>2. /\ CP!Informer(ChildVersions)'
      /\ objects' = objects
      /\ \A d \in Children : \A w \in CP!Informed(d)' : w \in CP!Informed(d)
  BY <1>0, <1>1, VersionNumbers, CP!ObserveInforms DEF Informers
<1>3. Informer(Versions)' /\ EventsInOrder'
  BY <1>0, <1>1, InformerStutters DEF Informers, EventsInOrder, apiVars
<1>4. \A d \in Children : SameChild(d)
  BY <1>2 DEF SameChild, Child!Informed, CP!Informed
<1>5. \A k \in Keys : SameConnection(k)
  BY <1>1 DEF SameConnection, Informed, apiVars
<1>6. Informers'
  BY <1>2, <1>3 DEF Informers
<1>7. CopyKept
  BY <1>1 DEF CopyKept, Working, copyVars
<1>8. Orders'
  BY <1>0, <1>4, <1>5, <1>7, ConnectionsMove
<1>9. WorkerType'
  BY <1>0, <1>1 DEF WorkerType, workVars, copyVars
<1>10. ControllersKept
  BY <1>4 DEF SameChild, ControllersKept
<1> QED
  BY <1>1, <1>6, <1>8, <1>9, <1>10, OthersKeepInv DEF apiVars, workVars, copyVars

\* A restart forgets the worker's copies, but every connection that exists is
\* queued.
LEMMA RestartStep ==
  ASSUME IInv, Restart
  PROVE  IInv'
<1>0. Informers /\ WorkerType /\ Orders
  BY InvParts DEF Orders
<1>1. /\ Relist /\ CP!Relist
      /\ queue' = {k \in Keys : server[k].live} /\ backoff' = {}
      /\ pc' = "idle" /\ req' = NoKey /\ connection' = Absent /\ nth' = 1
      /\ object' = NoChild
      /\ UNCHANGED <<doomed, inventory>>
  BY DEF Restart, CP!Relist, Child!Relist
<1>2. /\ Informer(Versions)'
      /\ server' = server
      /\ \A k \in Keys : \A w \in Informed(k)' : w \in Informed(k)
  BY <1>0, <1>1, VersionNumbers, RelistInforms DEF Informers
<1>13. EventsInOrder'
  BY <1>1, RelistKeepsOrder
<1>3. /\ CP!Informer(ChildVersions)'
      /\ objects' = objects
      /\ \A d \in Children : \A w \in CP!Informed(d)' : w \in CP!Informed(d)
  BY <1>0, <1>1, VersionNumbers, CP!RelistInforms DEF Informers
<1>4. \A d \in Children : SameChild(d)
  BY <1>3 DEF SameChild, Child!Informed, CP!Informed
<1>5. \A k \in Keys : SameConnection(k)
  BY <1>2 DEF SameConnection
<1>6. ~Working' /\ CopyKept
  BY <1>1 DEF CopyKept, Working
<1>7. Orders'
  BY <1>0, <1>4, <1>5, <1>6, ConnectionsMove
<1>8. 1 \in Numbers
  BY FirstChild
<1>9. budget' \in [BudgetKinds -> Nat]
  BY <1>0, SpendType DEF Restart, BudgetKinds
<1>10. WorkerType'
  BY <1>0, <1>1, <1>8, <1>9, AbsentTypes DEF WorkerType, Locations
<1>11. StaleCopyIsNoticed' /\ DoneAreOwned'
  BY <1>1, <1>6 DEF StaleCopyIsNoticed, DoneAreOwned, DoneWith
<1>12. RestingOwnsChildren'
  BY <1>1, <1>2 DEF RestingOwnsChildren, AtRest
<1> QED
  BY <1>2, <1>3, <1>7, <1>10, <1>11, <1>12, <1>13, InvPartsNext
  DEF Informers, Orders

-----------------------------------------------------------------------------
(* The steps of Reconcile.                                                 *)

\* While the worker has a connection in hand, the others are at rest or not
\* as they were.
LEMMA WorkerGoes ==
  ASSUME IInv, Informers', Orders', WorkerType',
         UNCHANGED <<server, watch, backoff>>,
         NEW k \in Keys, req' = k, req \in {k, NoKey},
         queue \subseteq queue' \cup {k},
         \A c \in Children : c[2] # k => objects'[c] = objects[c],
         StaleCopyIsNoticed', DoneAreOwned'
  PROVE  IInv'
<1>0. RestingOwnsChildren
  BY InvParts
<1>1. RestingOwnsChildren'
  <2> SUFFICES ASSUME NEW l \in Keys, server'[l].live, AtRest(l)'
               PROVE  /\ server'[l].status = [cond |-> "ready", refs |-> TRUE]
                      /\ \A i \in Numbers : objects'[<<i, l>>].live =>
                           /\ objects'[<<i, l>>].live
                           /\ objects'[<<i, l>>].owner = server'[<<i, l>>[2]].uid
    BY DEF RestingOwnsChildren, OwnChild
  <2>1. AtRest(l) /\ l # k
    BY ConnectionAssumption DEF AtRest
  <2>2. /\ server[l].status = [cond |-> "ready", refs |-> TRUE]
        /\ \A i \in Numbers : objects[<<i, l>>].live =>
             /\ objects[<<i, l>>].live
             /\ objects[<<i, l>>].owner = server[<<i, l>>[2]].uid
    BY <1>0, <2>1 DEF RestingOwnsChildren, OwnChild
  <2>3. \A i \in Numbers : objects'[<<i, l>>] = objects[<<i, l>>]
    BY <2>1, ChildrenOf
  <2> QED BY <2>2, <2>3
<1> QED BY <1>1, InvPartsNext DEF Orders

\* When it lets go of one, that one is queued again, has an event on its way,
\* is gone, or is ready and has children of its own.
LEMMA WorkerEnds ==
  ASSUME IInv, NEW k \in Keys, req = k,
         Informers',
         \A l \in Keys \ {k} : server'[l] = server[l] /\ watch'[l] = watch[l],
         \A l \in Keys : SameConnection(l) \/ NewConnection(l),
         UNCHANGED <<childVars, doomed, inventory>>,
         budget' \in [BudgetKinds -> Nat],
         Return \/ ReturnRequeue,
         \/ ReturnRequeue
         \/ watch'[k] # <<>>
         \/ k \in queue
         \/ ~server'[k].live
         \/ /\ server'[k].status = [cond |-> "ready", refs |-> TRUE]
            /\ \A i \in Numbers :
                 objects[<<i, k>>].live =>
                   objects[<<i, k>>].owner = server'[k].uid
  PROVE  IInv'
<1>0. Informers /\ WorkerType /\ Orders /\ RestingOwnsChildren
  BY InvParts DEF Orders
<1>1. /\ queue' = queue
      /\ backoff \subseteq backoff'
      /\ backoff' \in SUBSET Keys
      /\ pc' = "idle" /\ req' = NoKey /\ connection' = Absent
      /\ nth' = 1 /\ object' = NoChild
      /\ ReturnRequeue => k \in backoff'
  BY <1>0 DEF Return, ReturnRequeue, Done, workVars, WorkerType
<1>2. ~Working' /\ CopyKept
  BY <1>1 DEF CopyKept, Working
<1>3. \A c \in Children : SameChild(c)
  BY DEF SameChild, Child!Informed, childVars
<1>4. Orders'
  BY <1>0, <1>2, <1>3, ConnectionsMove
<1>5. WorkerType'
  BY <1>0, <1>1, AbsentTypes, FirstChild DEF WorkerType, Locations
<1>6. StaleCopyIsNoticed' /\ DoneAreOwned'
  BY <1>1, <1>2 DEF StaleCopyIsNoticed, DoneAreOwned, DoneWith
<1>7. RestingOwnsChildren'
  <2> SUFFICES ASSUME NEW l \in Keys, server'[l].live, AtRest(l)'
               PROVE  /\ server'[l].status = [cond |-> "ready", refs |-> TRUE]
                      /\ \A i \in Numbers : objects'[<<i, l>>].live =>
                           /\ objects'[<<i, l>>].live
                           /\ objects'[<<i, l>>].owner = server'[<<i, l>>[2]].uid
    BY DEF RestingOwnsChildren, OwnChild
  <2>1. objects' = objects /\ \A i \in Numbers : <<i, l>>[2] = l
    BY DEF childVars
  <2>2. CASE l = k
    BY <1>1, <2>1, <2>2 DEF AtRest
  <2>3. CASE l # k
    <3>1. server'[l] = server[l] /\ AtRest(l)
      BY <1>1, <2>3 DEF AtRest
    <3>2. /\ server[l].status = [cond |-> "ready", refs |-> TRUE]
          /\ \A i \in Numbers : objects[<<i, l>>].live =>
               /\ objects[<<i, l>>].live
               /\ objects[<<i, l>>].owner = server[<<i, l>>[2]].uid
      BY <1>0, <3>1 DEF RestingOwnsChildren, OwnChild
    <3> QED BY <2>1, <3>1, <3>2
  <2> QED BY <2>2, <2>3
<1> QED BY <1>4, <1>5, <1>6, <1>7, InvPartsNext DEF Orders

\* The worker takes a request.
LEMMA DequeueStep ==
  ASSUME IInv, NEW k \in Keys, Dequeue(k)
  PROVE  IInv'
<1>0. Informers /\ WorkerType /\ Orders
  BY InvParts DEF Orders
<1>1. /\ UNCHANGED <<apiVars, childVars, doomed, inventory, backoff, connection,
                     nth, object, budget>>
      /\ pc = "idle" /\ pc' = "getConnection" /\ req' = k
      /\ queue' = queue \ {k}
  BY DEF Dequeue
<1>2. /\ Informers'
      /\ \A l \in Keys : SameConnection(l)
      /\ \A c \in Children : SameChild(c)
  BY <1>0, <1>1, NothingMoves
<1>3. ~Working' /\ CopyKept
  BY <1>1 DEF CopyKept, Working
<1>4. Orders'
  BY <1>0, <1>2, <1>3, ConnectionsMove
<1>5. WorkerType' /\ req = NoKey
  BY <1>0, <1>1 DEF WorkerType, Locations
<1>6. StaleCopyIsNoticed' /\ DoneAreOwned'
  BY <1>1, <1>3 DEF StaleCopyIsNoticed, DoneAreOwned, DoneWith
<1>7. /\ UNCHANGED <<server, watch, backoff>>
      /\ queue \subseteq queue' \cup {k}
      /\ objects' = objects
  BY <1>1 DEF apiVars, childVars
<1> QED BY <1>1, <1>2, <1>4, <1>5, <1>6, <1>7, WorkerGoes

\* The cached connection is the latest the worker has heard of; if it is not
\* the server's, an event is on its way.
LEMMA GetConnectionStep ==
  ASSUME IInv, GetConnection
  PROVE  IInv'
<1>0. Informers /\ WorkerType /\ UidsGrow /\ OwnersGrow
  BY InvParts
<1>1. /\ UNCHANGED <<apiVars, childVars, doomed, inventory>>
      /\ pc = "getConnection"
  BY DEF GetConnection
<1>2. PICK k \in Keys : k = req
  BY <1>0, <1>1 DEF WorkerType
<1>3. /\ Informers'
      /\ \A l \in Keys : SameConnection(l)
      /\ \A c \in Children : SameChild(c)
      /\ UNCHANGED <<server, watch, objects>>
  BY <1>0, <1>1, NothingMoves DEF apiVars, childVars
<1>4. /\ watch[k] = <<>> => cache[k] = server[k]
      /\ cache[k] \in Informed(k) /\ cache[k] \in Versions
  BY <1>0, Knowledge DEF Informers, Informer, InformerCatchesUp
<1>5. budget \in [BudgetKinds -> Nat]
  BY <1>0 DEF WorkerType
<1>6. CASE ~cache[k].live /\ Return /\ UNCHANGED budget
  BY <1>1, <1>2, <1>3, <1>4, <1>5, <1>6, WorkerEnds
<1>7. CASE Spend("trouble") /\ ReturnRequeue
  <2>1. budget' \in [BudgetKinds -> Nat]
    BY <1>0, <1>7, SpendType DEF BudgetKinds
  <2> QED BY <1>1, <1>2, <1>3, <1>7, <2>1, WorkerEnds
<1>8. CASE /\ cache[k].live /\ connection' = cache[k]
           /\ Goto("getInventory")
           /\ UNCHANGED <<nth, object, budget>>
  <2>1. /\ pc' = "getInventory" /\ req' = k /\ Working'
        /\ queue' = queue /\ backoff' = backoff
    BY <1>2, <1>8 DEF Goto, workVars, Working
  <2>2. WorkerType'
    BY <1>0, <1>1, <1>2, <1>4, <1>8, <2>1 DEF WorkerType, Locations
  <2>3. UidsGrow' /\ OwnersGrow'
    <3>1. UidsGrow'
      BY <1>0, <1>3 DEF UidsGrow, SameConnection
    <3>2. OwnersGrow'
      BY <1>0, <1>3, ChildrenOf DEF OwnersGrow, SameConnection, SameChild
    <3> QED BY <3>1, <3>2
  <2>4. CopyIsLatest'
    <3>1. cache[k].uid <= cache[k].rv
      BY <1>0, <1>4 DEF UidsGrow
    <3>2. /\ cache[k].rv <= server[k].rv
          /\ cache[k].rv = server[k].rv => cache[k] = server[k]
      BY <1>0, <1>4 DEF Informers, Informer, VersionsOrdered
    <3>3. \A w \in Informed(k) : cache[k].rv <= w.rv
      BY <1>0, VersionNumbers, CacheIsOldest DEF Informers
    <3>4. \A w \in Informed(k) : w.live => cache[k].uid <= w.uid
      BY <1>0, <1>4, <1>8, <3>3 DEF UidsGrow
    <3>5. \A i \in Numbers : \A v \in Child!Informed(<<i, k>>) :
             v.live => v.owner <= cache[k].uid
      BY <1>0, <1>4, <1>8, ChildrenOf DEF OwnersGrow
    <3>6. /\ connection' = cache[k] /\ server' = server
          /\ Informed(k)' = Informed(k)
          /\ \A i \in Numbers :
               Child!Informed(<<i, k>>)' = Child!Informed(<<i, k>>)
      BY <1>1, <1>8 DEF Informed, Child!Informed, apiVars, childVars
    <3> SUFFICES ASSUME Working'
                 PROVE  /\ connection'.uid <= connection'.rv
                        /\ connection'.rv <= server'[k].rv
                        /\ connection'.rv = server'[k].rv
                             => connection'.uid = server'[k].uid
                        /\ \A w \in Informed(k)' : w.live => connection'.uid <= w.uid
                        /\ \A i \in Numbers : \A v \in Child!Informed(<<i, k>>)' :
                             v.live => v.owner <= connection'.uid
      BY <1>2, <2>1 DEF CopyIsLatest
    <3> QED BY <3>1, <3>2, <3>4, <3>5, <3>6
  <2>5. StaleCopyIsNoticed'
    BY <1>3, <1>4, <1>8, <2>1 DEF StaleCopyIsNoticed
  <2>6. DoneAreOwned'
    BY <2>1 DEF DoneAreOwned, DoneWith
  <2> QED
    BY <1>2, <1>3, <2>1, <2>2, <2>3, <2>4, <2>5, <2>6, WorkerGoes DEF Orders
<1> QED BY <1>2, <1>6, <1>7, <1>8 DEF GetConnection

\* A step in which nothing but the worker's copies changes, of the same
\* version of the same connection.
LEMMA WorkerThinks ==
  ASSUME IInv, UNCHANGED <<apiVars, childVars, doomed, inventory, queue, backoff>>,
         NEW k \in Keys, req = k, req' = k, Working, Working', pc' \in Locations,
         connection' \in Versions,
         connection'.rv = connection.rv, connection'.uid = connection.uid,
         nth' \in IF pc' = "getInventory" THEN {1} ELSE Numbers,
         object' \in ChildVersions, budget' \in [BudgetKinds -> Nat],
         DoneAreOwned'
  PROVE  IInv'
<1>0. Informers /\ WorkerType /\ Orders /\ StaleCopyIsNoticed
  BY InvParts DEF Orders
<1>1. /\ Informers'
      /\ \A l \in Keys : SameConnection(l)
      /\ \A c \in Children : SameChild(c)
      /\ UNCHANGED <<server, watch, objects>>
  BY <1>0, NothingMoves DEF apiVars, childVars
<1>2. CopyKept
  BY DEF CopyKept
<1>3. Orders'
  BY <1>0, <1>1, <1>2, ConnectionsMove
<1>4. WorkerType'
  BY <1>0 DEF WorkerType, Working
<1>5. StaleCopyIsNoticed'
  BY <1>0, <1>1 DEF StaleCopyIsNoticed
<1> QED BY <1>1, <1>3, <1>4, <1>5, WorkerGoes

\* A failure that is going to be reported.
LEMMA FailThinks ==
  ASSUME IInv, UNCHANGED <<apiVars, childVars, doomed, inventory>>, Working,
         NEW cond \in Conditions, Fail(cond), budget' \in [BudgetKinds -> Nat]
  PROVE  IInv'
<1>0. WorkerType
  BY InvParts
<1>1. PICK k \in Keys : k = req
  BY <1>0, WorkingReq
<1>2. /\ connection' = WithCondition(connection, cond)
      /\ object' = NoChild /\ pc' = "reportFailure" /\ nth' = nth
      /\ UNCHANGED <<req, queue, backoff>>
  BY DEF Fail, Goto, workVars
<1>3. /\ connection' \in Versions
      /\ connection'.rv = connection.rv /\ connection'.uid = connection.uid
  BY <1>0, <1>2, WorkingReq, CopyTypes
<1>4. /\ pc' \in Locations /\ Working' /\ object' \in ChildVersions
      /\ nth' \in IF pc' = "getInventory" THEN {1} ELSE Numbers
  BY <1>0, <1>2, AbsentTypes, FirstChild DEF Working, Locations, WorkerType
<1>5. DoneAreOwned'
  BY <1>2 DEF DoneAreOwned, DoneWith
<1> QED BY <1>1, <1>2, <1>3, <1>4, <1>5, WorkerThinks

\* The inventory's verdict.
LEMMA GetInventoryStep ==
  ASSUME IInv, GetInventory
  PROVE  IInv'
<1>0. Informers /\ WorkerType
  BY InvParts
<1>1. /\ UNCHANGED <<apiVars, childVars, doomed, inventory>>
      /\ pc = "getInventory" /\ Working
  BY DEF GetInventory, Working
<1>2. PICK k \in Keys : k = req
  BY <1>0, <1>1, WorkingReq
<1>3. budget \in [BudgetKinds -> Nat] /\ nth = 1
  BY <1>0, <1>1 DEF WorkerType
<1>4. CASE Fail(Verdict(connection.service)) /\ UNCHANGED budget
  <2>1. Verdict(connection.service) \in Conditions
    BY DEF Verdict, Conditions
  <2> QED BY <1>1, <1>3, <1>4, <2>1, FailThinks
<1>5. CASE Goto("getChild") /\ UNCHANGED <<connection, nth, object, budget>>
  <2>1. /\ pc' = "getChild"
        /\ UNCHANGED <<req, queue, backoff>>
    BY <1>5 DEF Goto, workVars
  <2>2. DoneAreOwned'
    BY <1>3, <1>5, <2>1, FirstChild DEF DoneAreOwned, DoneWith
  <2>3. /\ Working' /\ pc' \in Locations
        /\ nth' \in Numbers
        /\ connection' \in Versions /\ object' \in ChildVersions
    BY <1>0, <1>1, <1>3, <1>5, <2>1, FirstChild DEF Working, Locations, WorkerType
  <2> QED BY <1>1, <1>2, <1>3, <1>5, <2>1, <2>2, <2>3, WorkerThinks
<1>6. CASE Spend("trouble") /\ ReturnRequeue
  <2>1. budget' \in [BudgetKinds -> Nat]
    BY <1>0, <1>6, SpendType DEF BudgetKinds
  <2>2. /\ Informers'
        /\ \A l \in Keys : SameConnection(l)
        /\ UNCHANGED <<server, watch>>
    BY <1>0, <1>1, NothingMoves DEF apiVars, childVars
  <2> QED BY <1>1, <1>2, <1>6, <2>1, <2>2, WorkerEnds
<1> QED BY <1>4, <1>5, <1>6 DEF GetInventory

\* After the last child comes the status, after any other the next one; the
\* child just looked at joins those the worker is done with.
LEMMA ChildDoneFacts ==
  ASSUME WorkerType, pc \in {"getChild", "writeChild"}, ChildDone
  PROVE  /\ UNCHANGED <<req, queue, backoff>>
         /\ Working' /\ pc' \in Locations /\ pc' # "getInventory"
         /\ nth \in Numbers /\ nth' \in Numbers
         /\ \A i \in Numbers : DoneWith(i)' => DoneWith(i) \/ i = nth
<1>1. Len(Kinds) \in Nat /\ nth \in 1..Len(Kinds)
  BY ConnectionAssumption DEF WorkerType, Numbers
<1>2. CASE nth < Len(Kinds)
  <2>1. pc' = "getChild" /\ nth' = nth + 1 /\ UNCHANGED <<req, queue, backoff>>
    BY <1>2 DEF ChildDone, Goto, workVars
  <2>2. \A i \in Numbers : i < nth + 1 => i < nth \/ i = nth
    BY <1>1 DEF Numbers
  <2> QED
    BY <1>1, <1>2, <2>1, <2>2 DEF Working, Locations, Numbers, DoneWith
<1>3. CASE ~(nth < Len(Kinds))
  <2>1. pc' = "updateStatus" /\ nth' = nth /\ UNCHANGED <<req, queue, backoff>>
    BY <1>3 DEF ChildDone, Goto, workVars
  <2>2. \A i \in Numbers : i < nth \/ i = nth
    BY <1>1, <1>3 DEF Numbers
  <2> QED
    BY <1>1, <2>1, <2>2 DEF Working, Locations, Numbers, DoneWith
<1> QED BY <1>2, <1>3

\* A cached child that is as wanted is the connection's; so is the server's,
\* if there is one.
LEMMA GetChildStep ==
  ASSUME IInv, GetChild
  PROVE  IInv'
<1>0. /\ Informers /\ WorkerType /\ DoneAreOwned /\ OwnersGrow /\ CopyIsLatest
  BY InvParts
<1>1. /\ UNCHANGED <<apiVars, childVars, doomed, inventory>>
      /\ pc = "getChild" /\ Working
  BY DEF GetChild, Working
<1>2. PICK k \in Keys : k = req
  BY <1>0, <1>1, WorkingReq
<1>3. /\ budget \in [BudgetKinds -> Nat] /\ nth \in Numbers
      /\ connection \in Versions /\ object \in ChildVersions
  BY <1>0, <1>1 DEF WorkerType
<1>4. PICK c \in Children : c = <<nth, k>>
  BY <1>3, ChildrenOf
<1>5. /\ objects[c] \in Child!Informed(c) /\ objects[c] \in ChildVersions
      /\ objectCache[c] \in Child!Informed(c) /\ objectCache[c] \in ChildVersions
      /\ objectCache[c].rv <= objects[c].rv
  BY <1>0, Knowledge
<1>6. CASE AsWanted(objectCache[c]) /\ ChildDone /\ UNCHANGED <<connection, object, budget>>
  <2>1. objectCache[c].live /\ objectCache[c].owner = connection.uid
    BY <1>6 DEF AsWanted
  <2>2. objects[c].live => objects[c].owner = connection.uid
    <3>1. objects[c].live => connection.uid <= objects[c].owner
      BY <1>0, <1>5, <2>1 DEF OwnersGrow
    <3>2. objects[c].live => objects[c].owner <= connection.uid
      BY <1>0, <1>1, <1>2, <1>3, <1>4, <1>5 DEF CopyIsLatest
    <3> QED BY <1>3, <1>5, <3>1, <3>2, VersionNumbers
  <2>3. /\ UNCHANGED <<req, queue, backoff>>
        /\ Working' /\ pc' \in Locations /\ pc' # "getInventory"
        /\ nth' \in Numbers
        /\ \A i \in Numbers : DoneWith(i)' => DoneWith(i) \/ i = nth
    BY <1>0, <1>1, <1>6, ChildDoneFacts
  <2>4. DoneAreOwned'
    <3> SUFFICES ASSUME NEW i \in Numbers, DoneWith(i)', objects'[<<i, req'>>].live
                 PROVE  objects'[<<i, req'>>].owner = connection'.uid
      BY DEF DoneAreOwned
    <3>1. objects' = objects /\ req' = k /\ connection' = connection
      BY <1>1, <1>2, <1>6, <2>3 DEF childVars
    <3>2. CASE DoneWith(i)
      <4>1. \A j \in Numbers : DoneWith(j) /\ objects[<<j, k>>].live =>
              objects[<<j, k>>].owner = connection.uid
        BY <1>0, <1>2 DEF DoneAreOwned
      <4> QED BY <3>1, <3>2, <4>1
    <3>3. CASE i = nth
      BY <1>4, <2>2, <3>1, <3>3
    <3> QED BY <2>3, <3>2, <3>3
  <2> QED BY <1>1, <1>2, <1>3, <1>6, <2>3, <2>4, WorkerThinks
<1>7. CASE /\ object' = objectCache[c] /\ Goto("writeChild")
           /\ UNCHANGED <<connection, nth, budget>>
  <2>1. pc' = "writeChild" /\ UNCHANGED <<req, queue, backoff>>
    BY <1>7 DEF Goto, workVars
  <2>2. Working' /\ pc' \in Locations /\ pc' # "getInventory"
    BY <2>1 DEF Working, Locations
  <2>3. DoneAreOwned'
    <3> SUFFICES ASSUME NEW i \in Numbers, DoneWith(i)', objects'[<<i, req'>>].live
                 PROVE  objects'[<<i, req'>>].owner = connection'.uid
      BY DEF DoneAreOwned
    <3>1. objects' = objects /\ req' = req /\ connection' = connection
      BY <1>1, <1>7, <2>1 DEF childVars
    <3>2. DoneWith(i)
      BY <1>1, <1>7, <2>1 DEF DoneWith
    <3>3. \A j \in Numbers : DoneWith(j) /\ objects[<<j, req>>].live =>
              objects[<<j, req>>].owner = connection.uid
      BY <1>0 DEF DoneAreOwned
    <3> QED BY <3>1, <3>2, <3>3
  <2> QED BY <1>1, <1>2, <1>3, <1>5, <1>7, <2>1, <2>2, <2>3, WorkerThinks
<1>8. CASE Spend("trouble") /\ Fail("backend error")
  <2>1. budget' \in [BudgetKinds -> Nat]
    BY <1>0, <1>8, SpendType DEF BudgetKinds
  <2>2. "backend error" \in Conditions
    BY DEF Conditions
  <2> QED BY <1>1, <1>8, <2>1, <2>2, FailThinks
<1> QED BY <1>2, <1>4, <1>6, <1>7, <1>8 DEF GetChild

\* The child written is the connection's.
LEMMA ChildWritten ==
  ASSUME IInv, pc = "writeChild", NEW k \in Keys, k = req,
         NEW c \in Children, c = <<nth, k>>, Child!Store(c, Wanted(c)),
         UNCHANGED <<apiVars, doomed, inventory, req, queue, backoff>>,
         budget' \in [BudgetKinds -> Nat],
         Working', pc' \in Locations, pc' # "getInventory", nth' \in Numbers,
         connection' \in Versions, object' \in ChildVersions,
         connection'.rv = connection.rv, connection'.uid = connection.uid,
         \A i \in Numbers : DoneWith(i)' => DoneWith(i) \/ i = nth
  PROVE  IInv'
<1> DEFINE v == Wanted(c)
<1>0. /\ Informers /\ WorkerType /\ Orders /\ DoneAreOwned /\ CopyIsLatest
      /\ StaleCopyIsNoticed
  BY InvParts DEF Orders
<1>1. Working /\ connection \in Versions /\ connection.uid \in Nat
      /\ connection.rv \in Nat
  BY <1>0, WorkingReq, VersionNumbers DEF Working
<1>2. objects[c].rv + 1 \in Nat /\ objects[c].uid \in Nat /\ server[k].rv \in Nat
  BY <1>0, Knowledge, VersionNumbers
<1>3. /\ v \in ChildVersions /\ v.rv = objects[c].rv + 1
      /\ v.live /\ v.owner = connection.uid
  BY <1>1, <1>2 DEF Wanted, ChildVersions
<1>4. c[2] = k
  OBVIOUS
<1>5. Fits(c, v.owner)
  <2>1. connection.uid <= server[k].rv
    BY <1>0, <1>1, <1>2 DEF CopyIsLatest
  <2>2. \A w \in Informed(k) : w.live => connection.uid <= w.uid
    BY <1>0, <1>1 DEF CopyIsLatest
  <2>3. \A w \in Child!Informed(c) : w.live => w.owner <= connection.uid
    <3>1. nth \in Numbers
      BY <1>0 DEF WorkerType
    <3> QED BY <1>0, <1>1, <3>1 DEF CopyIsLatest
  <2>4. connection.uid <= connection.uid
    BY <1>1
  <2> QED BY <1>3, <1>4, <2>1, <2>2, <2>3, <2>4 DEF Fits
<1>6. Child!Store(c, v)
  OBVIOUS
<1> HIDE DEF v
<1>7. /\ Informers'
      /\ objects'[c] = v
      /\ \A d \in Children \ {c} : objects'[d] = objects[d]
      /\ \A l \in Keys : SameConnection(l)
      /\ \A d \in Children : SameChild(d) \/ NewChild(d)
  BY <1>0, <1>3, <1>5, <1>6, ChildStored
<1>8. CopyKept
  BY <1>1 DEF CopyKept
<1>9. Orders'
  BY <1>0, <1>7, <1>8, ChildrenMove
<1>10. WorkerType'
  BY <1>0 DEF WorkerType, Working
<1>11. UNCHANGED <<server, watch>>
  BY DEF apiVars
<1>12. StaleCopyIsNoticed'
  BY <1>0, <1>1, <1>11 DEF StaleCopyIsNoticed
<1>13. DoneAreOwned'
  <2> SUFFICES ASSUME NEW i \in Numbers, DoneWith(i)', objects'[<<i, req'>>].live
               PROVE  objects'[<<i, req'>>].owner = connection'.uid
    BY DEF DoneAreOwned
  <2>1. CASE i = nth
    BY <1>3, <1>7, <2>1
  <2>2. CASE i # nth
    <3>1. DoneWith(i) /\ <<i, k>> \in Children \ {c}
      BY <2>2, ChildrenOf
    <3>2. objects'[<<i, k>>] = objects[<<i, k>>]
      BY <1>7, <3>1
    <3>3. \A j \in Numbers : DoneWith(j) /\ objects[<<j, k>>].live =>
            objects[<<j, k>>].owner = connection.uid
      BY <1>0 DEF DoneAreOwned
    <3> QED BY <3>1, <3>2, <3>3
  <2> QED BY <2>1, <2>2
<1>14. \A d \in Children : d[2] # k => objects'[d] = objects[d]
  BY <1>4, <1>7
<1> QED BY <1>7, <1>9, <1>10, <1>11, <1>12, <1>13, <1>14, WorkerGoes

\* The child is written and the next one is looked at, or the failure is to
\* be reported, whether the child was written or not.
LEMMA WriteChildStep ==
  ASSUME IInv, WriteChild
  PROVE  IInv'
<1>0. WorkerType
  BY InvParts
<1>1. /\ UNCHANGED <<apiVars, doomed, inventory>>
      /\ pc = "writeChild" /\ Working
  BY DEF WriteChild, Working
<1>2. PICK k \in Keys : k = req
  BY <1>0, <1>1, WorkingReq
<1>3. /\ budget \in [BudgetKinds -> Nat] /\ nth \in Numbers
      /\ connection \in Versions
  BY <1>0, <1>1 DEF WorkerType
<1>4. PICK c \in Children : c = <<nth, k>>
  BY <1>3, ChildrenOf
<1>5. "backend error" \in Conditions
  BY DEF Conditions
<1>6. CASE /\ Child!Store(c, Wanted(c)) /\ object' = NoChild /\ ChildDone
           /\ UNCHANGED <<connection, budget>>
  <2>1. /\ UNCHANGED <<req, queue, backoff>>
        /\ Working' /\ pc' \in Locations /\ pc' # "getInventory"
        /\ nth' \in Numbers
        /\ \A i \in Numbers : DoneWith(i)' => DoneWith(i) \/ i = nth
    BY <1>0, <1>1, <1>6, ChildDoneFacts
  <2> QED BY <1>1, <1>2, <1>3, <1>4, <1>6, <2>1, AbsentTypes, ChildWritten
<1>7. CASE Fail("backend error") /\ UNCHANGED <<childVars, budget>>
  BY <1>1, <1>3, <1>5, <1>7, FailThinks
<1>8. CASE Spend("trouble") /\ Fail("backend error") /\ UNCHANGED childVars
  <2>1. budget' \in [BudgetKinds -> Nat]
    BY <1>0, <1>8, SpendType DEF BudgetKinds
  <2> QED BY <1>1, <1>5, <1>8, <2>1, FailThinks
<1>9. CASE /\ Spend("trouble") /\ Child!Store(c, Wanted(c))
           /\ Fail("backend error")
  <2>1. budget' \in [BudgetKinds -> Nat]
    BY <1>0, <1>9, SpendType DEF BudgetKinds
  <2>2. /\ connection' = WithCondition(connection, "backend error")
        /\ object' = NoChild /\ pc' = "reportFailure" /\ nth' = nth
        /\ UNCHANGED <<req, queue, backoff>>
    BY <1>9 DEF Fail, Goto, workVars
  <2>3. /\ connection' \in Versions
        /\ connection'.rv = connection.rv /\ connection'.uid = connection.uid
    BY <1>3, <1>5, <2>2, CopyTypes
  <2>4. /\ pc' \in Locations /\ Working' /\ pc' # "getInventory"
        /\ object' \in ChildVersions
        /\ \A i \in Numbers : ~DoneWith(i)'
    BY <2>2, AbsentTypes DEF Working, Locations, DoneWith
  <2> QED BY <1>1, <1>2, <1>3, <1>4, <1>9, <2>1, <2>2, <2>3, <2>4, ChildWritten
<1> QED BY <1>2, <1>4, <1>6, <1>7, <1>8, <1>9 DEF WriteChild

\* The status is stored, of children that are the connection's; or the worker
\* is told that its copy is stale, or tries again.
LEMMA UpdateStatusStep ==
  ASSUME IInv, UpdateStatus
  PROVE  IInv'
<1>0. /\ Informers /\ WorkerType /\ UidsGrow /\ CopyIsLatest /\ DoneAreOwned
      /\ StaleCopyIsNoticed
  BY InvParts
<1>1. /\ UNCHANGED <<childVars, doomed, inventory>>
      /\ pc = "updateStatus" /\ Working
  BY DEF UpdateStatus, Working
<1>2. PICK k \in Keys : k = req
  BY <1>0, <1>1, WorkingReq
<1>3. /\ budget \in [BudgetKinds -> Nat]
      /\ Completed \in Versions
      /\ Completed.status = [cond |-> "ready", refs |-> TRUE]
  BY <1>0, <1>1, CopyTypes DEF WorkerType, Completed
<1>4. Spend("trouble") \/ UNCHANGED budget => budget' \in [BudgetKinds -> Nat]
  BY <1>0, <1>3, SpendType DEF BudgetKinds
<1>5. ASSUME Current(k, connection), StoreStatus(k, Completed)
      PROVE  /\ Informers'
             /\ server'[k].status = [cond |-> "ready", refs |-> TRUE]
             /\ server'[k].uid = server[k].uid
             /\ \A l \in Keys \ {k} : server'[l] = server[l] /\ watch'[l] = watch[l]
             /\ \A l \in Keys : SameConnection(l) \/ NewConnection(l)
  <2>1. server[k].live
    BY <1>5 DEF Current
  <2> QED BY <1>0, <1>1, <1>3, <1>5, <2>1, StatusStored
<1>6. ASSUME UNCHANGED apiVars
      PROVE  /\ Informers'
             /\ \A l \in Keys : SameConnection(l)
             /\ UNCHANGED <<server, watch>>
  BY <1>0, <1>1, <1>6, NothingMoves DEF apiVars
<1>7. CASE /\ Current(k, connection) /\ StoreStatus(k, Completed)
           /\ Return /\ UNCHANGED budget
  <2>1. connection.uid = server[k].uid
    BY <1>0, <1>1, <1>2, <1>7 DEF CopyIsLatest, Current
  <2>2. \A i \in Numbers :
          objects[<<i, k>>].live => objects[<<i, k>>].owner = connection.uid
    BY <1>0, <1>1, <1>2 DEF DoneAreOwned, DoneWith
  <2> QED BY <1>1, <1>2, <1>4, <1>5, <1>7, <2>1, <2>2, WorkerEnds
<1>8. CASE Conflict(k, connection) /\ Return /\ UNCHANGED <<apiVars, budget>>
  <2>1. watch[k] # <<>> \/ k \in queue
    BY <1>0, <1>1, <1>2, <1>8 DEF StaleCopyIsNoticed, Conflict
  <2> QED BY <1>1, <1>2, <1>4, <1>6, <1>8, <2>1, WorkerEnds
<1>9. CASE /\ ReturnRequeue
           /\ \/ UNCHANGED apiVars
              \/ Current(k, connection) /\ StoreStatus(k, Completed)
           /\ Spend("trouble") \/ UNCHANGED budget
  BY <1>1, <1>2, <1>4, <1>5, <1>6, <1>9, WorkerEnds
<1> QED BY <1>2, <1>7, <1>8, <1>9 DEF UpdateStatus

\* The failure is stored or not; the request is made again in any case.
LEMMA ReportFailureStep ==
  ASSUME IInv, ReportFailure
  PROVE  IInv'
<1>0. Informers /\ WorkerType /\ UidsGrow
  BY InvParts
<1>1. /\ UNCHANGED <<childVars, doomed, inventory>>
      /\ pc = "reportFailure" /\ Working /\ ReturnRequeue
  BY DEF ReportFailure, Working
<1>2. PICK k \in Keys : k = req
  BY <1>0, <1>1, WorkingReq
<1>3. budget \in [BudgetKinds -> Nat] /\ connection \in Versions
  BY <1>0, <1>1 DEF WorkerType
<1>4. budget' \in [BudgetKinds -> Nat]
  BY <1>0, <1>3, SpendType DEF ReportFailure, BudgetKinds
<1>5. CASE Current(k, connection) /\ StoreStatus(k, connection)
  <2>1. server[k].live
    BY <1>5 DEF Current
  <2>2. /\ Informers'
        /\ \A l \in Keys \ {k} : server'[l] = server[l] /\ watch'[l] = watch[l]
        /\ \A l \in Keys : SameConnection(l) \/ NewConnection(l)
    BY <1>0, <1>1, <1>3, <1>5, <2>1, StatusStored
  <2> QED BY <1>1, <1>2, <1>4, <2>2, WorkerEnds
<1>6. CASE UNCHANGED apiVars
  <2>1. /\ Informers'
        /\ \A l \in Keys : SameConnection(l)
        /\ UNCHANGED <<server, watch>>
    BY <1>0, <1>1, <1>6, NothingMoves DEF apiVars
  <2> QED BY <1>1, <1>2, <1>4, <2>1, WorkerEnds
<1> QED BY <1>2, <1>5, <1>6 DEF ReportFailure

-----------------------------------------------------------------------------
(* The theorems.                                                           *)

\* The operator starts with no connection, no child and an empty queue.
LEMMA InitInv == Init => IInv
<1> SUFFICES ASSUME Init PROVE IInv
  OBVIOUS
<1>0. /\ server = [k \in Keys |-> Absent] /\ cache = server
      /\ watch = [k \in Keys |-> <<>>]
      /\ objects = [c \in Children |-> NoChild] /\ objectCache = objects
      /\ objectWatch = [c \in Children |-> <<>>]
  BY DEF Init
<1>1. 1..0 = {}
  OBVIOUS
<1>2. \A k \in Keys : Informed(k) = {server[k]}
  <2>1. \A k \in Keys : cache[k] = server[k] /\ watch[k] = <<>>
    BY <1>0
  <2>2. \A k \in Keys : {watch[k][i] : i \in 1..Len(watch[k])} = {}
    BY <1>1, <2>1
  <2> QED BY <2>1, <2>2 DEF Informed
<1>3. \A c \in Children : Child!Informed(c) = {objects[c]}
  <2>1. \A c \in Children : objectCache[c] = objects[c] /\ objectWatch[c] = <<>>
    BY <1>0
  <2>2. \A c \in Children :
          {objectWatch[c][i] : i \in 1..Len(objectWatch[c])} = {}
    BY <1>1, <2>1
  <2> QED BY <2>1, <2>2 DEF Child!Informed
<1>4. /\ \A k \in Keys : server[k].rv = 0 /\ server[k].uid = 0 /\ ~server[k].live
      /\ \A c \in Children : objects[c].rv = 0 /\ ~objects[c].live
      /\ 0 <= 0
  BY <1>0 DEF Absent, NoChild
<1>5. Informer(Versions)
  <2>1. Typed(Versions)
    BY <1>0, AbsentTypes DEF Typed
  <2>2. InformerCatchesUp
    BY <1>0 DEF InformerCatchesUp
  <2>3. VersionsOrdered
    BY <1>2, <1>4 DEF VersionsOrdered
  <2> QED BY <2>1, <2>2, <2>3 DEF Informer
<1>6. CP!Informer(ChildVersions)
  <2>1. CP!Typed(ChildVersions)
    BY <1>0, AbsentTypes DEF CP!Typed
  <2>2. CP!InformerCatchesUp
    BY <1>0 DEF CP!InformerCatchesUp
  <2>3. \A c \in Children : CP!Informed(c) = {objects[c]}
    BY <1>3 DEF CP!Informed, Child!Informed
  <2>4. CP!VersionsOrdered
    BY <1>4, <2>3 DEF CP!VersionsOrdered
  <2> QED BY <2>1, <2>2, <2>4 DEF CP!Informer
<1>7. EventsInOrder
  <2>1. \A k \in Keys : watch[k] = <<>>
    BY <1>0
  <2> QED BY <1>1, <2>1 DEF EventsInOrder
<1>8. doomed \in [Children -> Nat] /\ budget \in [BudgetKinds -> Nat]
  BY ConnectionAssumption DEF Init
<1>9. WorkerType
  BY <1>8, AbsentTypes DEF Init, WorkerType, Locations
<1>10. UidsGrow
  BY <1>2, <1>4 DEF UidsGrow
<1>11. OwnersGrow
  BY <1>3, <1>4 DEF OwnersGrow
<1>12. StaleCopyIsNoticed /\ CopyIsLatest
  BY DEF Init, StaleCopyIsNoticed, CopyIsLatest, Working
<1>13. DoneAreOwned
  BY FirstChild DEF Init, DoneAreOwned, DoneWith
<1>14. RestingOwnsChildren
  BY <1>4 DEF RestingOwnsChildren
<1> QED
  BY <1>5, <1>6, <1>7, <1>9, <1>10, <1>11, <1>12, <1>13, <1>14, InvParts
  DEF Informers

\* Every step of the users, the environment and the worker keeps the
\* invariant.
LEMMA NextKeepsInv == IInv /\ [Next]_vars => IInv'
<1> SUFFICES ASSUME IInv, [Next]_vars PROVE IInv'
  OBVIOUS
<1>1. CASE \/ \E k \in Keys, service \in Services :
                CreateConnection(k, service) \/ EditConnection(k, service)
           \/ \E k \in Keys : DeleteConnection(k)
  BY <1>1, UsersStep
<1>2. CASE \/ InventoryChanges
           \/ \E c \in Children : FindOrphan(c)
           \/ Resync
           \/ \E k \in Keys : Retry(k)
           \/ UNCHANGED vars
  BY <1>2, QuietSteps
<1>3. CASE \E c \in Children : Tamper(c) \/ CollectOrphan(c) \/ ChildEvent(c)
  BY <1>3, TamperStep, CollectOrphanStep, ChildEventStep
<1>4. CASE Restart
  BY <1>4, RestartStep
<1>5. CASE \E k \in Keys : WatchEvent(k) \/ Dequeue(k)
  BY <1>5, WatchEventStep, DequeueStep
<1>6. CASE Reconcile
  BY <1>6, GetConnectionStep, GetInventoryStep, GetChildStep, WriteChildStep,
     UpdateStatusStep, ReportFailureStep DEF Reconcile
<1> QED BY <1>1, <1>2, <1>3, <1>4, <1>5, <1>6 DEF Next

(* The invariant holds in every reachable state.                           *)
THEOREM Invariance == Spec => []IInv
  BY InitInv, NextKeepsInv, PTL DEF Spec

(* What Reconcile drops, it has done: a connection nobody is about to look *)
(* at is ready, with children of its own and none of a predecessor's.      *)
THEOREM RestingOwns == Spec => []RestingOwnsChildren
<1>1. IInv => RestingOwnsChildren
  BY DEF IInv
<1> QED BY <1>1, Invariance, PTL

=============================================================================
