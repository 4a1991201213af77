---------------------------- MODULE MCInstallCopy ----------------------------
(***************************************************************************)
(* InstallCopy for a case or two, two records and two digests.             *)
(***************************************************************************)
EXTENDS InstallCopy, TLC

Symmetry == Permutations(Rows) \cup Permutations(Hashes)
=============================================================================
