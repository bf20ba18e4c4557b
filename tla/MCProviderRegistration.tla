----------------------- MODULE MCProviderRegistration -----------------------
(***************************************************************************)
(* Bounds for TLC: the installations, failures and removals of each run of *)
(* ProviderRegistration.                                                   *)
(***************************************************************************)
EXTENDS ProviderRegistration

\* Two installations, one of them perhaps an upgrade; one removal of the
\* operator or of its CR, with or without the CRD; a CRD that comes and goes, or
\* goes and comes again; a crash; a failed call.
LifeBudget ==
  [install |-> 2, crd |-> 2, delete |-> 1, crash |-> 1, fault |-> 1]

\* An upgrade and nothing else.
UpgradeBudget ==
  [install |-> 2, crd |-> 0, delete |-> 0, crash |-> 0, fault |-> 0]

\* One installation and nothing else.
PlainBudget ==
  [install |-> 1, crd |-> 0, delete |-> 0, crash |-> 0, fault |-> 0]
=============================================================================
