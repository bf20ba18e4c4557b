------------------------ MODULE ConnectionBindingProofs ------------------------
(***************************************************************************)
(* Proofs that what a bound connection refers to is never somebody else's, *)
(* and that ConnectionController implements ConnectionBinding.  Every step *)
(* of the controller and of its environment is of one of three kinds: it   *)
(* writes a connection, or a child, or neither; the kind alone decides     *)
(* what becomes of the invariant BInv and which step of ConnectionBinding  *)
(* is taken.                                                               *)
(***************************************************************************)
EXTENDS ConnectionControllerProofs

-----------------------------------------------------------------------------
(* The kinds of steps.                                                     *)

Bound(k) == server[k].live /\ server[k].status.refs

\* How a connection is written.
Asked(k) ==
  /\ ~server[k].live /\ server'[k].live
  /\ ~server'[k].status.refs
  /\ server'[k].uid = server'[k].rv

Dropped(k) == server[k].live /\ ~server'[k].live

Kept(k) ==
  /\ server[k].live /\ server'[k].live
  /\ server'[k].uid = server[k].uid

Changed(k) == Kept(k) /\ server'[k].status.refs = server[k].status.refs

BoundNow(k) ==
  /\ Kept(k)
  /\ server'[k].status.refs = TRUE
  /\ \A w \in Informed(k) : w.live => w.uid = server[k].uid
  /\ \A i \in Numbers :
       objects[<<i, k>>].live => objects[<<i, k>>].owner = server[k].uid
  /\ ~Working'

\* What the copy says, after the step as before.
CopyStays ==
  Working' => /\ Working
              /\ req' = req
              /\ connection'.rv = connection.rv
              /\ connection'.uid = connection.uid
              /\ connection'.status.refs = connection.status.refs

\* The copy is taken from the cache.
CopyTaken ==
  /\ pc = "getConnection"
  /\ req' = req
  /\ cache[req].live
  /\ connection' = cache[req]

WritesConnection(k) ==
  /\ NewConnection(k)
  /\ \A l \in Keys \ {k} : SameConnection(l)
  /\ Asked(k) \/ Dropped(k) \/ Changed(k) \/ BoundNow(k)
  /\ objects' = objects
  /\ CopyStays

WritesChild(c) ==
  /\ \A k \in Keys : SameConnection(k)
  /\ \A d \in Children \ {c} : objects'[d] = objects[d]
  /\ \/ ~objects'[c].live
     \/ objects[c].live /\ objects'[c].owner = objects[c].owner
     \/ /\ Working /\ req = c[2]
        /\ objects'[c].owner = connection.uid
  /\ CopyStays

WritesNothing ==
  /\ \A k \in Keys : SameConnection(k)
  /\ objects' = objects
  /\ CopyStays \/ CopyTaken

Kinded ==
  \/ \E k \in Keys : WritesConnection(k)
  \/ \E c \in Children : WritesChild(c)
  \/ WritesNothing

-----------------------------------------------------------------------------
(* Every step is of one of these kinds.                                    *)

\* A copy that stays as it is, or is given up, stays.
LEMMA CopyFacts ==
  /\ UNCHANGED copyVars => CopyStays
  /\ Done => ~Working' /\ CopyStays
  /\ Working /\ req' = req /\ connection' = connection => CopyStays
  BY DEF CopyStays, Working, copyVars, Done

\* A failure leaves what the copy refers to.
LEMMA FailCopy ==
  ASSUME WorkerType, Working, NEW cond, Fail(cond)
  PROVE  CopyStays
<1>1. connection \in Versions
  BY WorkingReq
<1>2. connection' = WithCondition(connection, cond) /\ req' = req
  BY DEF Fail, Goto
<1>3. LET w == WithCondition(connection, cond)
      IN  /\ w.rv = connection.rv /\ w.uid = connection.uid
          /\ w.status.refs = connection.status.refs
  BY <1>1 DEF Versions, WithCondition
<1> QED BY <1>2, <1>3 DEF CopyStays

\* Nothing is stored, observed or listed.
LEMMA NothingStored ==
  ASSUME Informers, UNCHANGED <<apiVars, childVars>>, CopyStays \/ CopyTaken
  PROVE  Kinded
<1>1. \A k \in Keys : SameConnection(k)
  BY DEF SameConnection, Informed, apiVars
<1> QED BY <1>1 DEF Kinded, WritesNothing, childVars

\* A version of a connection is stored.
LEMMA ConnectionWrites ==
  ASSUME Informers, NEW k \in Keys, NEW v \in Versions,
         v.rv = server[k].rv + 1, v.uid <= v.rv,
         v.live => \/ v.uid = v.rv
                   \/ server[k].live /\ v.uid = server[k].uid,
         Store(k, v), UNCHANGED childVars, CopyStays,
         Asked(k) \/ Dropped(k) \/ Changed(k) \/ BoundNow(k)
  PROVE  Kinded
<1>1. /\ server'[k] = v
      /\ \A l \in Keys \ {k} : server'[l] = server[l]
      /\ \A l \in Keys : SameConnection(l) \/ NewConnection(l)
  BY ConnectionStored
<1>2. \A l \in Keys : server[l].rv \in Nat
  BY Knowledge, VersionNumbers
<1>3. NewConnection(k)
  BY <1>1, <1>2 DEF SameConnection
<1>4. \A l \in Keys \ {k} : SameConnection(l)
  BY <1>1, <1>2 DEF NewConnection
<1> QED BY <1>3, <1>4 DEF Kinded, WritesConnection, childVars

\* What a stored version is.
LEMMA StoredIs ==
  ASSUME Informers, NEW k \in Keys, NEW v, Store(k, v)
  PROVE  server'[k] = v
  BY DEF Informers, Informer, Typed, Store

\* An edit leaves the status.
LEMMA EditedStatus ==
  ASSUME NEW v \in Versions, NEW s \in Services
  PROVE  [v EXCEPT !.rv = @ + 1, !.service = s].status = v.status
<1> DEFINE a == [v EXCEPT !.rv = v.rv + 1]
<1>1. a.status = v.status /\ a \in Versions
  BY DEF Versions
<1>2. [a EXCEPT !.service = s].status = a.status
  <2> HIDE DEF a
  <2> QED BY <1>1 DEF Versions
<1> QED BY <1>1, <1>2

\* Users: create, edit, delete.
LEMMA UsersKind ==
  ASSUME IInv, NEW k \in Keys,
         \/ \E service \in Services :
              CreateConnection(k, service) \/ EditConnection(k, service)
         \/ DeleteConnection(k)
  PROVE  Kinded
<1>0. /\ Informers
      /\ server[k] \in Versions /\ server[k].uid <= server[k].rv
      /\ server[k].rv \in Nat /\ server[k].uid \in Nat
      /\ server[k].rv + 1 \in Nat
  BY InvParts, Knowledge, VersionNumbers DEF UidsGrow
<1>1. ASSUME NEW service \in Services, CreateConnection(k, service)
      PROVE  Kinded
  <2> DEFINE v == [rv |-> server[k].rv + 1, live |-> TRUE,
                   uid |-> server[k].rv + 1, service |-> service,
                   status |-> NoStatus]
  <2>1. /\ v \in Versions /\ v.rv = server[k].rv + 1 /\ v.uid = v.rv
        /\ v.live /\ ~v.status.refs
    BY <1>0, CreatedType DEF NoStatus
  <2>2. Store(k, v) /\ ~server[k].live /\ UNCHANGED <<childVars, copyVars>>
    BY <1>1 DEF CreateConnection
  <2> HIDE DEF v
  <2>3. Asked(k)
    BY <1>0, <2>1, <2>2, StoredIs DEF Asked
  <2>4. v.uid <= v.rv
    BY <1>0, <2>1
  <2> QED BY <1>0, <2>1, <2>2, <2>3, <2>4, CopyFacts, ConnectionWrites
<1>2. ASSUME NEW service \in Services, EditConnection(k, service)
      PROVE  Kinded
  <2> DEFINE v == [server[k] EXCEPT !.rv = @ + 1, !.service = service]
  <2>1. /\ v \in Versions /\ v.rv = server[k].rv + 1
        /\ v.uid = server[k].uid /\ v.live = server[k].live
    BY <1>0, EditedType
  <2>2. v.status = server[k].status
    BY <1>0, EditedStatus
  <2>3. Store(k, v) /\ server[k].live /\ UNCHANGED <<childVars, copyVars>>
    BY <1>2 DEF EditConnection
  <2> HIDE DEF v
  <2>4. Changed(k)
    BY <1>0, <2>1, <2>2, <2>3, StoredIs DEF Changed, Kept
  <2>5. v.uid <= v.rv
    BY <1>0, <2>1
  <2> QED BY <1>0, <2>1, <2>3, <2>4, <2>5, CopyFacts, ConnectionWrites
<1>3. ASSUME DeleteConnection(k)
      PROVE  Kinded
  <2> DEFINE v == [Absent EXCEPT !.rv = server[k].rv + 1]
  <2>1. v \in Versions /\ v.rv = server[k].rv + 1 /\ v.uid = 0 /\ ~v.live
    BY <1>0, DeletedType
  <2>2. Store(k, v) /\ server[k].live /\ UNCHANGED <<childVars, copyVars>>
    BY <1>3 DEF DeleteConnection
  <2> HIDE DEF v
  <2>3. Dropped(k)
    BY <1>0, <2>1, <2>2, StoredIs DEF Dropped
  <2>4. v.uid <= v.rv
    BY <1>0, <2>1
  <2> QED BY <1>0, <2>1, <2>2, <2>3, <2>4, CopyFacts, ConnectionWrites
<1> QED BY <1>1, <1>2, <1>3

\* The inventory, the collector's findings, the queue and what the informers
\* take from their streams write nothing.
LEMMA QuietKinds ==
  ASSUME IInv,
         \/ InventoryChanges
         \/ \E c \in Children : FindOrphan(c)
         \/ Resync
         \/ \E k \in Keys : Retry(k)
         \/ UNCHANGED vars
  PROVE  Kinded
<1>1. UNCHANGED <<apiVars, childVars, copyVars>>
  BY DEF InventoryChanges, FindOrphan, Resync, Retry, vars
<1> QED BY <1>1, InvParts, CopyFacts, NothingStored

LEMMA ObservedKinds ==
  ASSUME IInv,
         \/ \E k \in Keys : WatchEvent(k)
         \/ \E c \in Children : ChildEvent(c)
         \/ Restart
  PROVE  Kinded
<1>0. Informers
  BY InvParts
<1>1. ASSUME NEW k \in Keys, WatchEvent(k)
      PROVE  Kinded
  <2>1. Observe(k) /\ UNCHANGED <<childVars, copyVars>>
    BY <1>1 DEF WatchEvent
  <2>2. \A l \in Keys : SameConnection(l)
    BY <1>0, <2>1, VersionNumbers, ObserveInforms DEF Informers, SameConnection
  <2> QED BY <2>1, <2>2, CopyFacts DEF Kinded, WritesNothing, childVars
<1>2. ASSUME NEW c \in Children, ChildEvent(c)
      PROVE  Kinded
  <2>1. UNCHANGED <<apiVars, objects, copyVars>>
    BY <1>2 DEF ChildEvent, Child!Observe
  <2>2. \A l \in Keys : SameConnection(l)
    BY <2>1 DEF SameConnection, Informed, apiVars
  <2> QED BY <2>1, <2>2, CopyFacts DEF Kinded, WritesNothing
<1>3. ASSUME Restart
      PROVE  Kinded
  <2>1. Relist /\ objects' = objects /\ ~Working'
    BY <1>3 DEF Restart, Child!Relist, Working
  <2>2. \A l \in Keys : SameConnection(l)
    BY <1>0, <2>1, VersionNumbers, RelistInforms DEF Informers, SameConnection
  <2> QED BY <2>1, <2>2 DEF Kinded, WritesNothing, CopyStays
<1> QED BY <1>1, <1>2, <1>3

\* A version of a child is stored: of one that is gone, that has the owner it
\* had, or that has the worker's connection for its owner.
LEMMA ChildWrites ==
  ASSUME Informers, NEW c \in Children, NEW v, Child!Store(c, v),
         UNCHANGED apiVars, CopyStays,
         \/ ~v.live
         \/ objects[c].live /\ v.owner = objects[c].owner
         \/ Working /\ req = c[2] /\ v.owner = connection.uid
  PROVE  Kinded
<1>1. /\ objects'[c] = v
      /\ \A d \in Children \ {c} : objects'[d] = objects[d]
  BY DEF Child!Store, Informers, CP!Informer, CP!Typed
<1>2. \A k \in Keys : SameConnection(k)
  BY DEF SameConnection, Informed, apiVars
<1> QED BY <1>1, <1>2 DEF Kinded, WritesChild

\* Somebody deletes or overwrites a child.
LEMMA TamperKind ==
  ASSUME IInv, NEW c \in Children, Tamper(c) \/ CollectOrphan(c)
  PROVE  Kinded
<1>0. Informers /\ objects[c] \in ChildVersions
  BY InvParts, Knowledge
<1>1. UNCHANGED <<apiVars, copyVars>> /\ CopyStays
  BY CopyFacts DEF Tamper, CollectOrphan
<1>2. CASE Child!Store(c, Removed(c))
  <2>1. ~Removed(c).live
    BY <1>0, RemovedType, VersionNumbers DEF Removed, NoChild
  <2> QED BY <1>0, <1>1, <1>2, <2>1, ChildWrites
<1>3. CASE /\ objects[c].live
           /\ Child!Store(c, [objects[c] EXCEPT !.rv = @ + 1, !.intact = FALSE])
  <2> DEFINE v == [objects[c] EXCEPT !.rv = @ + 1, !.intact = FALSE]
  <2>1. v.owner = objects[c].owner
    BY <1>0, TamperedType
  <2>2. Child!Store(c, v)
    BY <1>3
  <2> HIDE DEF v
  <2> QED BY <1>0, <1>1, <1>3, <2>1, <2>2, ChildWrites
<1>4. CASE UNCHANGED childVars
  BY <1>0, <1>1, <1>4, NothingStored
<1> QED BY <1>2, <1>3, <1>4 DEF Tamper, CollectOrphan

-----------------------------------------------------------------------------
(* The steps of Reconcile.                                                 *)

\* A child is read, or the inventory, or a request is taken.
LEMMA ReadingKinds ==
  ASSUME IInv,
         \/ \E k \in Keys : Dequeue(k)
         \/ GetConnection
         \/ GetInventory
         \/ GetChild
  PROVE  Kinded
<1>0. Informers /\ WorkerType
  BY InvParts
<1>1. UNCHANGED <<apiVars, childVars>>
  BY DEF Dequeue, GetConnection, GetInventory, GetChild
<1>2. CASE \E k \in Keys : Dequeue(k)
  <2>1. CopyStays
    BY <1>2 DEF Dequeue, CopyStays, Working
  <2> QED BY <1>0, <1>1, <2>1, NothingStored
<1>3. CASE GetConnection
  <2>1. CASE cache[req].live /\ connection' = cache[req] /\ Goto("getInventory")
    <3>1. CopyTaken
      BY <1>3, <2>1 DEF CopyTaken, GetConnection, Goto
    <3> QED BY <1>0, <1>1, <3>1, NothingStored
  <2>2. CASE Done
    BY <1>0, <1>1, <2>2, CopyFacts, NothingStored
  <2> QED BY <1>3, <2>1, <2>2 DEF GetConnection, Return, ReturnRequeue
<1>4. CASE GetInventory
  <2>1. Working
    BY <1>4 DEF GetInventory, Working
  <2>2. CASE Fail(Verdict(connection.service))
    BY <1>0, <1>1, <2>1, <2>2, FailCopy, NothingStored
  <2>3. CASE Goto("getChild") /\ UNCHANGED connection
    <3>1. CopyStays
      BY <2>1, <2>3, CopyFacts DEF Goto
    <3> QED BY <1>0, <1>1, <3>1, NothingStored
  <2>4. CASE Done
    BY <1>0, <1>1, <2>4, CopyFacts, NothingStored
  <2> QED BY <1>4, <2>2, <2>3, <2>4 DEF GetInventory, ReturnRequeue
<1>5. CASE GetChild
  <2>1. Working
    BY <1>5 DEF GetChild, Working
  <2>2. CASE Fail("backend error")
    BY <1>0, <1>1, <2>1, <2>2, FailCopy, NothingStored
  <2>3. CASE connection' = connection /\ (ChildDone \/ Goto("writeChild"))
    <3>1. CopyStays
      BY <2>1, <2>3, CopyFacts DEF Goto, ChildDone
    <3> QED BY <1>0, <1>1, <3>1, NothingStored
  <2> QED BY <1>5, <2>2, <2>3 DEF GetChild
<1> QED BY <1>2, <1>3, <1>4, <1>5

\* The child is the worker's connection's, or is not written.
LEMMA WriteChildKind ==
  ASSUME IInv, WriteChild
  PROVE  Kinded
<1>0. Informers /\ WorkerType
  BY InvParts
<1>1. Working /\ UNCHANGED apiVars
  BY DEF WriteChild, Working
<1>2. PICK c \in Children : c = <<nth, req>>
  <2>1. req \in Keys /\ nth \in Numbers
    BY <1>0 DEF WorkerType, WriteChild
  <2> QED BY <2>1, ChildrenOf
<1>3. c[2] = req
  BY <1>2
<1>4. CopyStays
  <2>1. CASE Fail("backend error")
    BY <1>0, <1>1, <2>1, FailCopy
  <2>2. CASE ChildDone /\ UNCHANGED connection
    BY <1>1, <2>2, CopyFacts DEF ChildDone, Goto
  <2> QED BY <2>1, <2>2 DEF WriteChild
<1>5. CASE Child!Store(c, Wanted(c))
  <2>1. Wanted(c).owner = connection.uid
    BY DEF Wanted
  <2> QED BY <1>0, <1>1, <1>3, <1>4, <1>5, <2>1, ChildWrites
<1>6. CASE UNCHANGED childVars
  BY <1>0, <1>1, <1>4, <1>6, NothingStored
<1> QED BY <1>2, <1>5, <1>6 DEF WriteChild

\* The version a status update stores is of the connection there is.
LEMMA StatusWrites ==
  ASSUME IInv, NEW k \in Keys, NEW v \in Versions, server[k].live,
         StoreStatus(k, v), UNCHANGED childVars, CopyStays,
         \/ v.status.refs = server[k].status.refs
         \/ /\ v.status.refs = TRUE
            /\ \A w \in Informed(k) : w.live => w.uid = server[k].uid
            /\ \A i \in Numbers :
                 objects[<<i, k>>].live => objects[<<i, k>>].owner = server[k].uid
            /\ ~Working'
  PROVE  Kinded
<1> DEFINE w == [server[k] EXCEPT !.rv = @ + 1, !.status = v.status]
<1>0. Informers
  BY InvParts
<1>1. /\ server[k] \in Versions /\ server[k].uid <= server[k].rv
      /\ v.status \in [cond : Conditions, refs : BOOLEAN]
  BY <1>0, InvParts, Knowledge DEF UidsGrow, Versions
<1>2. /\ w \in Versions
      /\ w.rv = server[k].rv + 1 /\ w.uid = server[k].uid /\ w.live = server[k].live
      /\ w.status = v.status
  BY <1>1, NewStatusType
<1>3. w.uid <= w.rv
  BY <1>1, <1>2, VersionNumbers
<1>4. Store(k, w) \/ UNCHANGED apiVars
  BY DEF StoreStatus
<1> HIDE DEF w
<1>5. CASE Store(k, w)
  <2>1. Changed(k) \/ BoundNow(k)
    <3>1. server'[k] = w
      BY <1>0, <1>5, StoredIs
    <3> QED BY <1>2, <3>1 DEF Changed, Kept, BoundNow
  <2> QED BY <1>0, <1>2, <1>3, <1>5, <2>1, ConnectionWrites
<1>6. CASE UNCHANGED apiVars
  BY <1>0, <1>6, NothingStored
<1> QED BY <1>4, <1>5, <1>6

\* The worker is done with every child when it sets the references, and its
\* copy, which the server accepts, is of the connection there is: every other
\* one it could hear of is that one too.
LEMMA UpdateStatusKind ==
  ASSUME IInv, UpdateStatus
  PROVE  Kinded
<1>0. /\ Informers /\ WorkerType
      /\ CopyIsLatest /\ UidsGrow /\ DoneAreOwned
  BY InvParts
<1>1. /\ Working /\ pc = "updateStatus" /\ UNCHANGED childVars /\ Done
  BY DEF UpdateStatus, Working, Return, ReturnRequeue
<1>2. PICK k \in Keys : k = req
  BY <1>0, <1>1, WorkingReq
<1>3. ~Working' /\ CopyStays
  BY <1>1, CopyFacts
<1>4. CASE Current(k, connection) /\ StoreStatus(k, Completed)
  <2>1. /\ Completed \in Versions
        /\ Completed.status = [cond |-> "ready", refs |-> TRUE]
    BY <1>0, <1>1, WorkingReq, CopyTypes DEF Completed
  <2>2. Completed.status.refs = TRUE
    BY <2>1
  <2>3. /\ server[k].live /\ connection.uid = server[k].uid
        /\ \A w \in Informed(k) : w.live => connection.uid <= w.uid
    BY <1>0, <1>1, <1>2, <1>4 DEF CopyIsLatest, Current
  <2>4. ASSUME NEW w \in Informed(k), w.live
        PROVE  w.uid = server[k].uid
    <3>1. w.uid <= server[k].uid
      BY <1>0, <2>3, <2>4, Knowledge DEF UidsGrow
    <3>2. w.uid \in Nat /\ server[k].uid \in Nat
      BY <1>0, Knowledge, VersionNumbers
    <3> QED BY <2>3, <2>4, <3>1, <3>2
  <2>5. \A i \in Numbers :
          objects[<<i, k>>].live => objects[<<i, k>>].owner = server[k].uid
    BY <1>0, <1>1, <1>2, <2>3 DEF DoneAreOwned, DoneWith
  <2> QED BY <1>1, <1>3, <1>4, <2>1, <2>2, <2>3, <2>4, <2>5, StatusWrites
<1>5. CASE UNCHANGED apiVars
  BY <1>0, <1>1, <1>3, <1>5, NothingStored
<1> QED BY <1>2, <1>4, <1>5 DEF UpdateStatus

\* A failure is written over a status that refers to what the copy refers to.
LEMMA ReportFailureKind ==
  ASSUME IInv, BInv, ReportFailure
  PROVE  Kinded
<1>0. Informers /\ WorkerType /\ CopyKeepsRefs
  BY InvParts DEF BInv
<1>1. Working /\ UNCHANGED childVars /\ Done
  BY DEF ReportFailure, Working, ReturnRequeue
<1>2. PICK k \in Keys : k = req
  BY <1>0, <1>1, WorkingReq
<1>3. CopyStays
  BY <1>1, CopyFacts
<1>4. CASE Current(k, connection) /\ StoreStatus(k, connection)
  <2>1. server[k].live /\ connection.status.refs = server[k].status.refs
    BY <1>0, <1>1, <1>2, <1>4 DEF CopyKeepsRefs, Current
  <2>2. connection \in Versions
    BY <1>0, <1>1, WorkingReq
  <2> QED BY <1>1, <1>3, <1>4, <2>1, <2>2, StatusWrites
<1>5. CASE UNCHANGED apiVars
  BY <1>0, <1>1, <1>3, <1>5, NothingStored
<1> QED BY <1>2, <1>4, <1>5 DEF ReportFailure

\* The steps of users, environment and worker are of the three kinds.
LEMMA EveryStepKinded ==
  ASSUME IInv, BInv, [Next]_vars
  PROVE  Kinded
<1>1. CASE \/ \E k \in Keys, service \in Services :
                CreateConnection(k, service) \/ EditConnection(k, service)
           \/ \E k \in Keys : DeleteConnection(k)
  BY <1>1, UsersKind
<1>2. CASE \/ InventoryChanges
           \/ \E c \in Children : FindOrphan(c)
           \/ Resync
           \/ \E k \in Keys : Retry(k)
           \/ UNCHANGED vars
  BY <1>2, QuietKinds
<1>3. CASE \E c \in Children : Tamper(c) \/ CollectOrphan(c)
  BY <1>3, TamperKind
<1>4. CASE \/ \E k \in Keys : WatchEvent(k)
           \/ \E c \in Children : ChildEvent(c)
           \/ Restart
  BY <1>4, ObservedKinds
<1>5. CASE \/ \E k \in Keys : Dequeue(k)
           \/ Reconcile
  BY <1>5, ReadingKinds, WriteChildKind, UpdateStatusKind, ReportFailureKind
  DEF Reconcile
<1> QED BY <1>1, <1>2, <1>3, <1>4, <1>5 DEF Next

-----------------------------------------------------------------------------
(* What the kinds do to the invariant.                                     *)

\* The numbers the invariant compares.
LEMMA Comparable ==
  ASSUME IInv
  PROVE  /\ \A k \in Keys : server[k].rv \in Nat /\ server[k].uid \in Nat
         /\ Working => /\ req \in Keys
                       /\ connection.rv \in Nat /\ connection.uid \in Nat
                       /\ connection.rv <= server[req].rv
         /\ \A c \in Children : c[2] \in Keys
         /\ \A k \in Keys, i \in Numbers : <<i, k>> \in Children /\ <<i, k>>[2] = k
<1>1. Informers /\ WorkerType /\ CopyIsLatest
  BY InvParts
<1> QED BY <1>1, Knowledge, VersionNumbers, WorkingReq, ChildrenOf DEF CopyIsLatest

LEMMA WritesConnectionKeeps ==
  ASSUME IInv, BInv, NEW k \in Keys, WritesConnection(k)
  PROVE  BInv'
<1>0. /\ BoundOwnsChildren /\ BoundIsKnown /\ CopyKeepsRefs /\ LiveHasUid
      /\ objects' = objects /\ CopyStays
      /\ \A l \in Keys \ {k} : SameConnection(l)
      /\ NewConnection(k)
      /\ Asked(k) \/ Dropped(k) \/ Changed(k) \/ BoundNow(k)
  BY DEF BInv, WritesConnection
<1>1. BoundOwnsChildren'
  <2> SUFFICES ASSUME NEW l \in Keys, NEW i \in Numbers, Bound(l)',
                      objects'[<<i, l>>].live
               PROVE  objects'[<<i, l>>].owner = server'[l].uid
    BY Comparable DEF BoundOwnsChildren, OwnChild, Bound
  <2>1. ASSUME Bound(l), server'[l].uid = server[l].uid
        PROVE  objects[<<i, l>>].owner = server'[l].uid
    BY <1>0, <2>1, Comparable DEF BoundOwnsChildren, OwnChild, Bound
  <2>2. CASE l # k
    BY <1>0, <2>1, <2>2 DEF SameConnection, Bound
  <2>3. CASE l = k /\ Changed(k)
    BY <1>0, <2>1, <2>3 DEF Changed, Kept, Bound
  <2>4. CASE l = k /\ BoundNow(k)
    BY <1>0, <2>4 DEF BoundNow, Kept
  <2> QED BY <1>0, <2>2, <2>3, <2>4 DEF Asked, Dropped, Bound
<1>2. BoundIsKnown'
  <2> SUFFICES ASSUME NEW l \in Keys, Bound(l)'
               PROVE  /\ \A w \in Informed(l)' : w.live => w.uid = server'[l].uid
                      /\ Working' /\ req' = l => connection'.uid = server'[l].uid
    BY DEF BoundIsKnown, Bound
  <2>1. CASE l # k
    <3>1. Bound(l) /\ server'[l] = server[l]
      BY <1>0, <2>1 DEF SameConnection, Bound
    <3> QED BY <1>0, <2>1, <3>1 DEF SameConnection, BoundIsKnown, Bound, CopyStays
  <2>2. CASE l = k /\ Changed(k)
    <3>1. Bound(k) /\ server'[k].uid = server[k].uid
      BY <2>2 DEF Changed, Kept, Bound
    <3> QED BY <1>0, <2>2, <3>1 DEF NewConnection, BoundIsKnown, Bound, CopyStays
  <2>3. CASE l = k /\ BoundNow(k)
    BY <1>0, <2>3 DEF NewConnection, BoundNow, Kept
  <2> QED BY <1>0, <2>1, <2>2, <2>3 DEF Asked, Dropped, Bound
<1>3. CopyKeepsRefs'
  <2> SUFFICES ASSUME Working', connection'.rv = server'[req'].rv
               PROVE  connection'.status.refs = server'[req'].status.refs
    BY DEF CopyKeepsRefs
  <2>1. /\ Working /\ req' = req /\ req \in Keys
        /\ connection'.rv = connection.rv
        /\ connection'.status.refs = connection.status.refs
    BY <1>0, Comparable DEF CopyStays
  <2>2. req # k
    BY <1>0, <2>1, Comparable DEF NewConnection
  <2> QED BY <1>0, <2>1, <2>2 DEF SameConnection, CopyKeepsRefs
<1>4. LiveHasUid'
  <2> SUFFICES ASSUME NEW l \in Keys, server'[l].live
               PROVE  server'[l].uid # 0
    BY DEF LiveHasUid
  <2>1. CASE l # k
    BY <1>0, <2>1 DEF SameConnection, LiveHasUid
  <2>2. CASE l = k /\ Asked(k)
    BY <1>0, <2>2, Comparable DEF Asked, NewConnection
  <2>3. CASE l = k /\ Kept(k)
    BY <1>0, <2>3 DEF Kept, LiveHasUid
  <2> QED BY <1>0, <2>1, <2>2, <2>3 DEF Dropped, Changed, BoundNow
<1> QED BY <1>1, <1>2, <1>3, <1>4 DEF BInv

\* Where no connection is written and the copy stays, only the children count.
LEMMA ConnectionsSame ==
  ASSUME IInv, BInv, \A k \in Keys : SameConnection(k), CopyStays
  PROVE  BoundIsKnown' /\ CopyKeepsRefs' /\ LiveHasUid'
<1>0. BoundIsKnown /\ CopyKeepsRefs /\ LiveHasUid
  BY DEF BInv
<1>1. BoundIsKnown'
  <2> SUFFICES ASSUME NEW l \in Keys, Bound(l)'
               PROVE  /\ \A w \in Informed(l)' : w.live => w.uid = server'[l].uid
                      /\ Working' /\ req' = l => connection'.uid = server'[l].uid
    BY DEF BoundIsKnown, Bound
  <2> QED BY <1>0 DEF SameConnection, BoundIsKnown, Bound, CopyStays
<1>2. CopyKeepsRefs'
  BY <1>0, Comparable DEF SameConnection, CopyKeepsRefs, CopyStays
<1>3. LiveHasUid'
  BY <1>0 DEF SameConnection, LiveHasUid
<1> QED BY <1>1, <1>2, <1>3

LEMMA WritesChildKeeps ==
  ASSUME IInv, BInv, NEW c \in Children, WritesChild(c)
  PROVE  BInv'
<1>0. /\ BoundOwnsChildren /\ BoundIsKnown
      /\ \A k \in Keys : SameConnection(k)
      /\ CopyStays
  BY DEF BInv, WritesChild
<1>1. BoundOwnsChildren'
  <2> SUFFICES ASSUME NEW k \in Keys, NEW i \in Numbers, Bound(k)',
                      objects'[<<i, k>>].live
               PROVE  objects'[<<i, k>>].owner = server'[k].uid
    BY Comparable DEF BoundOwnsChildren, OwnChild, Bound
  <2>1. Bound(k) /\ server'[k] = server[k]
    BY <1>0 DEF SameConnection, Bound
  <2>2. objects[<<i, k>>].live => objects[<<i, k>>].owner = server[k].uid
    BY <1>0, <2>1, Comparable DEF BoundOwnsChildren, OwnChild, Bound
  <2>3. Working /\ req = k => connection.uid = server[k].uid
    BY <1>0, <2>1 DEF BoundIsKnown, Bound
  <2> QED BY <2>1, <2>2, <2>3, Comparable DEF WritesChild
<1> QED BY <1>0, <1>1, ConnectionsSame DEF BInv

LEMMA WritesNothingKeeps ==
  ASSUME IInv, BInv, WritesNothing
  PROVE  BInv'
<1>0. /\ BoundOwnsChildren /\ BoundIsKnown /\ LiveHasUid
      /\ \A k \in Keys : SameConnection(k)
      /\ objects' = objects
  BY DEF BInv, WritesNothing
<1>1. BoundOwnsChildren'
  <2> SUFFICES ASSUME NEW k \in Keys, NEW i \in Numbers, Bound(k)',
                      objects'[<<i, k>>].live
               PROVE  objects'[<<i, k>>].owner = server'[k].uid
    BY Comparable DEF BoundOwnsChildren, OwnChild, Bound
  <2>1. Bound(k) /\ server'[k] = server[k]
    BY <1>0 DEF SameConnection, Bound
  <2>2. objects[<<i, k>>].live => objects[<<i, k>>].owner = server[k].uid
    BY <1>0, <2>1, Comparable DEF BoundOwnsChildren, OwnChild, Bound
  <2> QED BY <1>0, <2>1, <2>2
<1>2. CASE CopyStays
  BY <1>0, <1>1, <1>2, ConnectionsSame DEF BInv
<1>3. CASE CopyTaken
  <2>0. PICK k \in Keys : k = req
    <3>1. WorkerType
      BY InvParts
    <3> QED BY <1>3, <3>1 DEF CopyTaken, WorkerType
  <2>1. /\ req' = k /\ connection' = cache[k] /\ cache[k].live
        /\ cache[k] \in Informed(k)
        /\ cache[k].rv = server[k].rv => cache[k] = server[k]
    <3>1. cache[k] \in Informed(k)
      BY InvParts, Knowledge
    <3>2. cache[k].rv = server[k].rv => cache[k] = server[k]
      BY <3>1 DEF IInv, VersionsOrdered
    <3> QED BY <1>3, <2>0, <3>1, <3>2 DEF CopyTaken
  <2>2. BoundIsKnown'
    <3> SUFFICES ASSUME NEW l \in Keys, Bound(l)'
                 PROVE  /\ \A w \in Informed(l)' : w.live => w.uid = server'[l].uid
                        /\ req' = l => connection'.uid = server'[l].uid
      BY DEF BoundIsKnown, Bound
    <3>1. Bound(l) /\ server'[l] = server[l]
      BY <1>0 DEF SameConnection, Bound
    <3>2. \A w \in Informed(l) : w.live => w.uid = server[l].uid
      BY <1>0, <3>1 DEF BoundIsKnown, Bound
    <3> QED BY <1>0, <2>1, <3>1, <3>2 DEF SameConnection
  <2>3. CopyKeepsRefs'
    BY <1>0, <2>1 DEF SameConnection, CopyKeepsRefs
  <2>4. LiveHasUid'
    BY <1>0 DEF SameConnection, LiveHasUid
  <2> QED BY <1>1, <2>2, <2>3, <2>4 DEF BInv
<1> QED BY <1>2, <1>3 DEF WritesNothing

\* No connection, no child, no copy.
LEMMA InitBInv == Init => BInv
<1> SUFFICES ASSUME Init PROVE BInv
  OBVIOUS
<1>1. \A k \in Keys : ~server[k].live
  BY DEF Init, Absent
<1>2. ~Working
  BY DEF Init, Working
<1> QED
  BY <1>1, <1>2
  DEF BInv, BoundOwnsChildren, BoundIsKnown, CopyKeepsRefs, LiveHasUid

LEMMA NextKeepsBInv == IInv /\ BInv /\ [Next]_vars => BInv'
  BY EveryStepKinded, WritesConnectionKeeps, WritesChildKeeps, WritesNothingKeeps
  DEF Kinded

-----------------------------------------------------------------------------
(* Which step of ConnectionBinding each kind is.                           *)

\* The state of ConnectionBinding, as the controller's state has it.
Clock  == [k \in Keys |-> server[k].rv]
Wants  == [k \in Keys |-> IF server[k].live THEN server[k].uid ELSE 0]
Holder == [c \in Children |-> IF objects[c].live THEN objects[c].owner ELSE 0]
Bounds == {k \in Keys : Bound(k)}

\* A write of a connection is a tick of its clock, and of no other.
LEMMA ClockTicks ==
  ASSUME NEW k \in Keys, WritesConnection(k)
  PROVE  /\ Clock' = [Clock EXCEPT ![k] = @ + 1]
         /\ Holder' = Holder
  BY DEF Clock, Holder, WritesConnection, NewConnection, SameConnection

\* What else changes is the connection's own.
LEMMA ConnectionMapped ==
  ASSUME IInv, BInv, NEW k \in Keys, WritesConnection(k)
  PROVE  Binding!Next
<1>0. /\ LiveHasUid
      /\ \A l \in Keys \ {k} : server'[l] = server[l]
      /\ server'[k].rv = server[k].rv + 1
      /\ Asked(k) \/ Dropped(k) \/ Changed(k) \/ BoundNow(k)
      /\ server[k].status.refs \in BOOLEAN
  BY InvParts, Knowledge DEF BInv, WritesConnection, SameConnection, NewConnection, Versions
<1>1. Binding!Tick(k) /\ Holder' = Holder
  BY ClockTicks DEF Binding!Tick, Clock
<1>2. CASE Asked(k)
  <2>1. /\ Wants[k] = 0 /\ Bounds' = Bounds
        /\ Wants' = [Wants EXCEPT ![k] = Clock[k] + 1]
    BY <1>0, <1>2 DEF Asked, Wants, Clock, Bounds, Bound
  <2>2. Binding!Ask(k)
    BY <1>1, <2>1 DEF Binding!Ask, Wants, Clock, Holder, Bounds, Bound
  <2> QED BY <2>2 DEF Binding!Next
<1>3. CASE Dropped(k)
  <2>1. /\ Wants[k] # 0 /\ Bounds' = Bounds \ {k}
        /\ Wants' = [Wants EXCEPT ![k] = 0]
    BY <1>0, <1>3 DEF Dropped, Wants, Bounds, Bound, LiveHasUid
  <2>2. Binding!Drop(k)
    BY <1>1, <2>1 DEF Binding!Drop, Wants, Holder, Bounds, Bound
  <2> QED BY <2>2 DEF Binding!Next
<1>4. CASE Changed(k)
  <2>1. /\ Wants[k] # 0 /\ Bounds' = Bounds
        /\ Wants' = Wants
    BY <1>0, <1>4 DEF Changed, Kept, Wants, Bounds, Bound, LiveHasUid
  <2>2. Binding!Change(k)
    BY <1>1, <2>1 DEF Binding!Change, Wants, Holder, Bounds, Bound
  <2> QED BY <2>2 DEF Binding!Next
<1>5. CASE BoundNow(k)
  <2>1. /\ Wants[k] # 0 /\ Bounds' = Bounds \cup {k}
        /\ Wants' = Wants
    BY <1>0, <1>5 DEF BoundNow, Kept, Wants, Bounds, Bound, LiveHasUid
  <2>2. ASSUME NEW c \in Children, c[2] = k
        PROVE  Holder[c] \in {0, Wants[k]}
    <3>1. \E i \in Numbers : c = <<i, k>>
      BY <2>2 DEF Children
    <3> QED BY <1>5, <3>1 DEF BoundNow, Kept, Holder, Wants
  <2>3. Binding!Bind(k)
    BY <1>1, <2>1, <2>2 DEF Binding!Bind, Wants, Holder, Bounds, Bound
  <2> QED BY <2>3 DEF Binding!Next
<1> QED BY <1>0, <1>2, <1>3, <1>4, <1>5

\* Where no connection is written, they are wanted and bound as before.
LEMMA ConnectionsMapped ==
  ASSUME \A k \in Keys : SameConnection(k)
  PROVE  Clock' = Clock /\ Wants' = Wants /\ Bounds' = Bounds
  BY DEF SameConnection, Clock, Wants, Bounds, Bound

\* A child is given to the worker's connection, which is no older than its
\* holder and, if it is not the one there is, that one is not bound.
LEMMA ChildMapped ==
  ASSUME IInv, BInv, NEW c \in Children, WritesChild(c)
  PROVE  Binding!Next \/ UNCHANGED Binding!vars
<1>0. /\ \A k \in Keys : SameConnection(k)
      /\ \A d \in Children \ {c} : objects'[d] = objects[d]
      /\ CopyIsLatest /\ BoundIsKnown
      /\ objects[c].owner \in Nat
      /\ objects[c] \in Child!Informed(c)
      /\ c[2] \in Keys
  BY InvParts, Knowledge, VersionNumbers, ChildrenOf DEF BInv, WritesChild
<1>1. Clock' = Clock /\ Wants' = Wants /\ Bounds' = Bounds
  BY <1>0, ConnectionsMapped
<1>2. Holder' = [Holder EXCEPT ![c] =
                   IF objects'[c].live THEN objects'[c].owner ELSE 0]
  <2>1. \A d \in Children : Holder'[d] = IF objects'[d].live THEN objects'[d].owner ELSE 0
    BY DEF Holder
  <2>2. \A d \in Children \ {c} : Holder'[d] = Holder[d]
    BY <1>0 DEF Holder
  <2>3. Holder = [d \in Children |-> Holder[d]] /\ Holder' = [d \in Children |-> Holder'[d]]
    BY DEF Holder
  <2> QED BY <2>1, <2>2, <2>3
<1>3. CASE Holder'[c] = Holder[c]
  <2>1. Holder' = Holder
    BY <1>2, <1>3 DEF Holder
  <2> QED BY <1>1, <2>1 DEF Binding!vars, Clock, Wants, Holder, Bounds, Bound
<1>4. CASE Holder'[c] = 0 /\ Holder[c] # 0
  <2>1. Holder' = [Holder EXCEPT ![c] = 0]
    BY <1>2, <1>4 DEF Holder
  <2>2. Binding!Lose(c)
    BY <1>1, <1>4, <2>1 DEF Binding!Lose, Clock, Wants, Holder, Bounds, Bound
  <2> QED BY <2>2 DEF Binding!Next
<1>5. CASE Holder'[c] # 0 /\ Holder'[c] # Holder[c]
  <2>0. /\ objects'[c].live /\ objects'[c].owner = connection.uid
        /\ Working /\ req = c[2]
    BY <1>5 DEF Holder, WritesChild
  <2> PICK n \in Nat : n = connection.uid
    BY <2>0, Comparable
  <2>1. /\ objects'[c].live /\ objects'[c].owner = n
        /\ Working /\ req = c[2]
    BY <2>0
  <2>2. Holder'[c] = n
    BY <2>1 DEF Holder
  <2>3. n \in 1..Clock[c[2]]
    <3>1. n \in Nat /\ n # 0 /\ server[c[2]].rv \in Nat /\ connection.rv \in Nat
      BY <1>0, <1>5, <2>1, <2>2, Comparable
    <3>2. n <= connection.rv /\ connection.rv <= server[c[2]].rv
      BY <1>0, <2>1 DEF CopyIsLatest
    <3>3. n <= server[c[2]].rv
      BY <3>1, <3>2
    <3> QED BY <1>0, <3>1, <3>3 DEF Clock
  <2>4. Holder[c] <= n
    <3>1. \E i \in Numbers : c = <<i, req>>
      BY <2>1 DEF Children
    <3>2. objects[c].live => objects[c].owner <= n
      BY <1>0, <2>1, <3>1 DEF CopyIsLatest
    <3>3. n \in Nat
      BY <2>1, Comparable
    <3> QED BY <3>2, <3>3 DEF Holder
  <2>5. c[2] \in Bounds => n = Wants[c[2]]
    BY <1>0, <2>1 DEF Bounds, Bound, Wants, BoundIsKnown
  <2>6. Holder' = [Holder EXCEPT ![c] = n]
    BY <1>2, <2>1 DEF Holder
  <2>7. Binding!Give(c, n)
    BY <1>1, <2>4, <2>5, <2>6 DEF Binding!Give, Clock, Wants, Holder, Bounds, Bound
  <2> QED BY <2>3, <2>7 DEF Binding!Next, Clock
<1> QED BY <1>3, <1>4, <1>5

LEMMA NothingMapped ==
  ASSUME WritesNothing
  PROVE  UNCHANGED Binding!vars
<1>1. Clock' = Clock /\ Wants' = Wants /\ Bounds' = Bounds
  BY ConnectionsMapped DEF WritesNothing
<1>2. Holder' = Holder
  BY DEF WritesNothing, Holder
<1> QED BY <1>1, <1>2 DEF Binding!vars, Clock, Wants, Holder, Bounds, Bound

LEMMA InitMapped == Init => Binding!Init
  BY DEF Init, Binding!Init, Absent, NoChild

LEMMA StepMapped ==
  IInv /\ BInv /\ [Next]_vars => [Binding!Next]_Binding!vars
  BY EveryStepKinded, ConnectionMapped, ChildMapped, NothingMapped DEF Kinded

-----------------------------------------------------------------------------
(* The theorems.                                                           *)

\* The invariant of the bound connections holds in every reachable state.
LEMMA BoundInvariance == Spec => [](IInv /\ BInv)
  BY InitInv, InitBInv, NextKeepsInv, NextKeepsBInv, PTL DEF Spec

(* The references of a connection never lead to a former connection's      *)
(* children: not after an orphan was taken over, not while the worker      *)
(* still acts on a copy of the predecessor, not after a restart.           *)
THEOREM BoundOwns == Spec => []BoundOwnsChildren
<1>1. BInv => BoundOwnsChildren
  BY DEF BInv
<1> QED BY <1>1, BoundInvariance, PTL

(* UpdateStatus, ReportFailure and CreateOrUpdate, whatever their copies'  *)
(* age, take the steps of ConnectionBinding only.                          *)
THEOREM BindingImplemented == Spec => ImplementsBinding
  BY InitMapped, StepMapped, BoundInvariance, PTL
  DEF Spec, ImplementsBinding, Binding!Spec

===============================================================================
