--------------------------- MODULE MCSkuLifecycle ---------------------------
(***************************************************************************)
(* Instances of SkuLifecycle for TLC.                                      *)
(***************************************************************************)
EXTENDS SkuLifecycle, TLC

CONSTANTS a, b

\* Two styles of one provider each.
TwoStyles == (a :> "A") @@ (b :> "B")

Symmetry == Permutations(Creators) \cup Permutations(Syncs) \cup Permutations(Colors)
=============================================================================
