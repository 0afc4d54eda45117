---------------------------- MODULE MCOcLifecycle ----------------------------
(***************************************************************************)
(* Instances of OcLifecycle for TLC.                                       *)
(***************************************************************************)
EXTENDS OcLifecycle

\* Every OC names the same PI.
OnePi == [o \in Ocs |-> "pi"]
=============================================================================
