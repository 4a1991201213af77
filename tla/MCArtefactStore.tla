-------------------------- MODULE MCArtefactStore ---------------------------
(***************************************************************************)
(* ArtefactStore for a case or two, two records and two digests.           *)
(***************************************************************************)
EXTENDS ArtefactStore, TLC

Symmetry == Permutations(Rows) \cup Permutations(Hashes)
=============================================================================
