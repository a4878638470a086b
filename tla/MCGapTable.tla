----------------------------- MODULE MCGapTable -----------------------------
(* A gap as wide as the groups in front of it, and one that is not.        *)
EXTENDS GapTable
=============================================================================
