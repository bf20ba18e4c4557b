----------------------- MODULE MCConnectionController -----------------------
(***************************************************************************)
(* Bounds for TLC: how often users, failures and restarts may strike in    *)
(* each run of ConnectionController.                                       *)
(***************************************************************************)
EXTENDS ConnectionController

Children2 == <<"Secret", "ConfigMap">>
Children1 == <<"ConfigMap">>

\* One connection with both children, and one thing that goes wrong.
LifeBudget ==
  [create |-> 1, early |-> 1, trouble |-> 1]

\* A connection that is created again, with one child.
AgainBudget ==
  [create |-> 2, early |-> 1, trouble |-> 0]
=============================================================================
