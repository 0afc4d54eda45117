---------------------------- MODULE MCStyleDetails ----------------------------
(***************************************************************************)
(* An instance of StyleDetails for TLC: each type of field with the        *)
(* provider, whose change removes SKUs, and the origin with the size.      *)
(***************************************************************************)
EXTENDS StyleDetails

EachWithProvider == {{t, "Provider"} : t \in DetailsType} \cup {{"Origin", "Size"}, {"BM", "PM"}}

Texts == {NoText, "1", "2"}
=============================================================================
