------------------------------ MODULE MCServices ------------------------------
(***************************************************************************)
(* An instance of Services for TLC.                                        *)
(***************************************************************************)
EXTENDS Services

LineOf(at, style0, colors) == [at |-> at, style |-> style0, colors |-> colors]

\* A line; a line in each of two stores; the same style and store twice.
MCAssociations ==
  { << LineOf(1, "s1", {"c1", "c2"}) >>,
    << LineOf(1, "s2", {"c1"}), LineOf(2, "s2", {"c2"}) >>,
    << LineOf(1, "s1", {"c2"}), LineOf(1, "s1", {"c1"}) >> }
=============================================================================
