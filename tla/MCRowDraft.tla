----------------------------- MODULE MCRowDraft -----------------------------
(***************************************************************************)
(* RowDraft for two tabs of a record of two fields: the analyst of one     *)
(* changes both, and back; the analyst of the other changes the first.     *)
(***************************************************************************)
EXTENDS RowDraft

CONSTANTS t1, t2, f, g, v0, v1, v2

MCEntries == {<<t1, f, v0>>, <<t1, f, v1>>, <<t1, g, v1>>, <<t2, f, v2>>}
=============================================================================
