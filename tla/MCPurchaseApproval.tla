------------------------- MODULE MCPurchaseApproval -------------------------
(***************************************************************************)
(* Instances of PurchaseApproval for TLC.                                  *)
(***************************************************************************)
EXTENDS PurchaseApproval, TLC

CONSTANTS s1, s2, c1, c2

\* Two styles of one colour each, or one style.
OneColorEach == (c1 :> s1) @@ (c2 :> s2)
OneStyle == c1 :> s1

\* What is maintained: every style, or also the first alone.
All == {Styles}
AllOrOne == {Styles, {s1}}
=============================================================================
