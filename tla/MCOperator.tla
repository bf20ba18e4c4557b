------------------------------ MODULE MCOperator ------------------------------
(***************************************************************************)
(* Bounds for TLC: how often users and failures may strike in the run of   *)
(* Operator.                                                               *)
(***************************************************************************)
EXTENDS Operator

\* One instance, and one failed request of its worker.
OneInstance ==
  [create |-> 1, edit |-> 0, delete |-> 0, flap |-> 0, fault |-> 1, crash |-> 0]

\* One edit of the inventory, one failed request of its worker, and more
\* clusters than an instance can lead to.
OneInventory ==
  [create |-> 0, edit |-> 1, delete |-> 0, make |-> 3, fault |-> 1, crash |-> 0]
===============================================================================
