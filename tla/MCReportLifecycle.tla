-------------------------- MODULE MCReportLifecycle --------------------------
(***************************************************************************)
(* ReportLifecycle on a case of one report and those that correct it.      *)
(***************************************************************************)
EXTENDS ReportLifecycle, TLC

MCRequiredBy == [l \in Layouts |-> IF l = "nis2" THEN {"summary"} ELSE {}]

MCFirstReports == 1 :> "nis2"

(* The first report holds its required section.                            *)
MCFirstParts == 1 :> [of |-> 1, section |-> "summary"]
=============================================================================
