-------------------------- MODULE MCDeliveryUnits --------------------------
(***************************************************************************)
(* Instances of DeliveryUnits for TLC.                                     *)
(***************************************************************************)
EXTENDS DeliveryUnits, TLC

\* Requests are interchangeable, and so are the dates.
Symmetry == Permutations(Requests) \cup Permutations(Dates)
=============================================================================
