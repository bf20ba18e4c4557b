--------------------------- MODULE ConnectionBinding ---------------------------
(***************************************************************************)
(* What the ProviderConnection controller promises to those who use a      *)
(* connection, without caches, requests, copies or the inventory.          *)
(*                                                                         *)
(* Connections of one name come one after the other, each with the number  *)
(* of its time, its uid; the children of the name are handed on from one   *)
(* to the next and never back, and once a connection is bound, that is,    *)
(* once its status refers to its children, they are nobody else's.         *)
(* Anybody may remove a child at any time.                                 *)
(***************************************************************************)
EXTENDS Naturals

CONSTANTS
  Keys,            \* names of connections
  Children         \* <<i, k>>: the i-th child of name k

VARIABLES
  clock,           \* clock[k]: how often a connection k has been written
  wants,           \* wants[k]: the number of the connection k, 0 if none
  holder,          \* holder[c]: the number of the connection c belongs to, or 0
  bound            \* the connections whose references are set

vars == <<clock, wants, holder, bound>>

Init ==
  /\ clock = [k \in Keys |-> 0]
  /\ wants = [k \in Keys |-> 0]
  /\ holder = [c \in Children |-> 0]
  /\ bound = {}

Tick(k) == clock' = [clock EXCEPT ![k] = @ + 1]

Ask(k) ==
  /\ wants[k] = 0
  /\ Tick(k)
  /\ wants' = [wants EXCEPT ![k] = clock[k] + 1]
  /\ UNCHANGED <<holder, bound>>

Drop(k) ==
  /\ wants[k] # 0
  /\ Tick(k)
  /\ wants' = [wants EXCEPT ![k] = 0]
  /\ bound' = bound \ {k}
  /\ UNCHANGED holder

\* The connection is written, and stays as bound as it was.
Change(k) ==
  /\ wants[k] # 0
  /\ Tick(k)
  /\ UNCHANGED <<wants, holder, bound>>

\* The references are set: the children there are belong to the connection.
Bind(k) ==
  /\ wants[k] # 0
  /\ \A c \in Children : c[2] = k => holder[c] \in {0, wants[k]}
  /\ Tick(k)
  /\ bound' = bound \cup {k}
  /\ UNCHANGED <<wants, holder>>

\* A child is made or handed on: to the connection there is, if it is bound,
\* else perhaps to one that has gone.
Give(c, n) ==
  /\ holder[c] <= n
  /\ c[2] \in bound => n = wants[c[2]]
  /\ holder' = [holder EXCEPT ![c] = n]
  /\ UNCHANGED <<clock, wants, bound>>

Lose(c) ==
  /\ holder[c] # 0
  /\ holder' = [holder EXCEPT ![c] = 0]
  /\ UNCHANGED <<clock, wants, bound>>

Next ==
  \/ \E k \in Keys : Ask(k) \/ Drop(k) \/ Change(k) \/ Bind(k)
  \/ \E c \in Children : Lose(c) \/ \E n \in 1..clock[c[2]] : Give(c, n)

Spec == Init /\ [][Next]_vars

===============================================================================
