----------------------------- MODULE MCCaseRows -----------------------------
(***************************************************************************)
(* CaseRows on a case of three rows and one to be created, in two          *)
(* collections.                                                            *)
(***************************************************************************)
EXTENDS CaseRowsProps, TLC

MCCollections == {"assets", "malware"}

(* Rows 1 and 2 are assets, 3 is malware found on one of them, and so is 4 *)
(* once there.                                                             *)
MCCollectionOf == [r \in Rows |-> IF r < 3 THEN "assets" ELSE "malware"]

(* One half each of the rule that spans two fields, and a reference by     *)
(* foreign key.                                                            *)
AllPatches == {[kind |-> "domain"], [scoped |-> TRUE], [one |-> 1]}
=============================================================================
