---------------------------- MODULE MCHeldProse ----------------------------
(***************************************************************************)
(* HeldProse for connections of one analyst or of several.                 *)
(***************************************************************************)
EXTENDS HeldProse, TLC

EachTheirOwn == [c \in Conns |-> c]

AllOfOne == [c \in Conns |-> "ana"]

=============================================================================
