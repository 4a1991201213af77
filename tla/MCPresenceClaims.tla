-------------------------- MODULE MCPresenceClaims --------------------------
(***************************************************************************)
(* PresenceClaims with two connections, each on a server of its own.       *)
(***************************************************************************)
EXTENDS PresenceClaims

CONSTANTS c1, c2, p1, p2

MCServerOf == [c \in Peers |-> IF c = c1 THEN p1 ELSE p2]
=============================================================================
