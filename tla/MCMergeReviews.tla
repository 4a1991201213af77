--------------------------- MODULE MCMergeReviews ---------------------------
(* MergeReviews with two tabs of one analyst and one of another.           *)
EXTENDS MergeReviews, TLC

TwoTabs == [s \in Sessions |-> IF s = "b1" THEN "b" ELSE "a"]

(* Two answers to one field, one of them with a field nobody disagrees on. *)
TwoFieldForms == {[f |-> "y"], [f |-> "z", g |-> "y"]}

(* A refusal, a review and its answer, beside one request of the other tab *)
(* and one of the other analyst.                                           *)
Requests == "a1" :> 3 @@ "a2" :> 1 @@ "b1" :> 1

(* The rows are interchangeable.                                          *)
Symmetry == Permutations(Rows)
=============================================================================
