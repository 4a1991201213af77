--------------------------- MODULE MCCustomerReach ---------------------------
(* CustomerReach beside the installs of InstallAccounts: a directory of    *)
(* two customers and the default, two groups and two cases, administered   *)
(* by one analyst while the other is demoted or comes in.                  *)
EXTENDS CustomerReach, TLC

MCNobodys == [shipped |-> FALSE, room |-> 0, acts |-> 3, stops |-> 1,
              who |-> [t \in Accounts |-> "none"]]

MCKept == [shipped |-> FALSE, room |-> 0, acts |-> 2, stops |-> 1,
           who |-> [t \in Accounts |-> "admin"]]

MCShipped == [shipped |-> TRUE, room |-> 0, acts |-> 1, stops |-> 1,
              who |-> [t \in Accounts |-> IF t = "a" THEN "admin" ELSE "analyst"]]

MCTrail == [shipped |-> TRUE, room |-> 3, acts |-> 0, stops |-> 0,
            who |-> [t \in Accounts |-> "admin"]]

(* The directory at work, with an account's change beside it or without.   *)
MCReach(n) == [shipped |-> FALSE, room |-> 0, acts |-> n, stops |-> 0,
               who |-> [t \in Accounts |-> IF t = "a" THEN "admin" ELSE "analyst"]]

MCInstalls == {MCNobodys, MCKept, MCShipped, MCTrail, MCReach(0), MCReach(1)}

(* Both cases carry one reference, so they stay with two customers.        *)
MCRefOf == [k \in Cases |-> "t1"]

MCMember == [g \in Groups |-> [t \in Accounts |-> IF t = "b" THEN 2 ELSE 0]]

(* One case has its customer and the other none yet.                       *)
MCBehind == [k \in Cases |-> IF k = "k1" THEN "x" ELSE "d"]

MCDirectories ==
    {[behind |-> MCBehind, held |-> {<<"g", "x">>, <<"h", "y">>}, member |-> MCMember,
      asks |-> 3, acts |-> 0],
     [behind |-> MCBehind, held |-> {<<"g", "x">>}, member |-> MCMember,
      asks |-> 1, acts |-> 1]}
=============================================================================
