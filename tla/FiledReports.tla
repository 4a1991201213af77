---------------------------- MODULE FiledReports ----------------------------
(***************************************************************************)
(* What the report tier promises whoever was sent a report                 *)
(* (openspec/specs/report/spec.md): a draft may change in any way; sending *)
(* preserves exactly what the report holds at that moment; a report that   *)
(* was sent never changes again, whatever happens around it; a correction  *)
(* is a further report, and at most one corrects another.                  *)
(***************************************************************************)
CONSTANTS
    Reports,    \* report ids
    None        \* a report that corrects nothing; a draft has preserved nothing

VARIABLES
    held,       \* the parts each report holds
    stage,      \* "unborn", "draft", "sent" or "gone"
    document,   \* what was preserved when it was sent
    corrects    \* the report each one replaces

vars == <<held, stage, document, corrects>>

Init ==
    /\ stage \in [Reports -> {"unborn", "draft"}]
    /\ document = [r \in Reports |-> None]
    /\ corrects = [r \in Reports |-> None]

(* Drafts change, one is begun, or one is removed with its parts; what     *)
(* replaced a removed draft replaces nothing from then on.                 *)
Draft ==
    /\ document' = document
    /\ \A r \in Reports :
        /\ stage[r] = "sent" => /\ stage'[r] = "sent"
                                /\ held'[r] = held[r]
                                /\ corrects'[r] = corrects[r]
        /\ stage[r] = "draft" => stage'[r] \in {"draft", "gone"}
        /\ stage[r] = "gone" => stage'[r] = "gone"
        /\ stage[r] = "unborn" => stage'[r] \in {"unborn", "draft"}
        /\ corrects'[r] # corrects[r] =>
              \/ stage[r] = "unborn"
              \/ corrects'[r] = None
    /\ \A r, s \in Reports :
        corrects'[r] = corrects'[s] /\ corrects'[r] # None => r = s

(* A draft is sent: what is preserved is what it holds.                    *)
Send(r) ==
    /\ stage[r] = "draft"
    /\ stage' = [stage EXCEPT ![r] = "sent"]
    /\ document' = [document EXCEPT ![r] = held[r]]
    /\ UNCHANGED <<held, corrects>>

Next == Draft \/ \E r \in Reports : Send(r)

Spec == Init /\ [][Next]_vars
=============================================================================
