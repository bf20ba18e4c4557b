------------------------ MODULE MCInstanceController ------------------------
(***************************************************************************)
(* Bounds for TLC: how often users, failures and restarts may strike in    *)
(* each run of InstanceController.                                         *)
(***************************************************************************)
EXTENDS InstanceController

\* One instance: an edit, an inventory that comes or goes, a failed request.
FaultBudget ==
  [create |-> 1, edit |-> 1, delete |-> 1, flap |-> 1, fault |-> 1, crash |-> 0]

\* Two instances, one after the other, and a restart.
LossBudget ==
  [create |-> 2, edit |-> 0, delete |-> 2, flap |-> 0, fault |-> 0, crash |-> 1]

\* The inventory appears after the instance.
LateInventoryBudget ==
  [create |-> 1, edit |-> 0, delete |-> 1, flap |-> 1, fault |-> 0, crash |-> 0]

\* Two instances, or one that is created again, and nothing fails.
TwoInstancesBudget ==
  [create |-> 2, edit |-> 0, delete |-> 2, flap |-> 0, fault |-> 0, crash |-> 0]
=============================================================================
