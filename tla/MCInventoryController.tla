----------------------- MODULE MCInventoryController -----------------------
(***************************************************************************)
(* Bounds for TLC: how often users, instances, failures and restarts may   *)
(* strike in each run of InventoryController.                              *)
(***************************************************************************)
EXTENDS InventoryController

\* An inventory, perhaps created again, that is edited while two clusters are
\* made, a call fails and the process dies.
LifeBudget ==
  [create |-> 2, edit |-> 1, delete |-> 2, make |-> 2, fault |-> 1, crash |-> 1]
=============================================================================
