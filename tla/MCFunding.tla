----------------------------- MODULE MCFunding ------------------------------
(* An instance of Funding for TLC. *)
EXTENDS Funding

CONSTANTS ann, bob, s1

(* Two UUIDs that share all groups but the first.                          *)
UserGroups ==
  [u \in Users |-> [i \in 1..5 |-> IF i = 1 /\ u = ann THEN "0a" ELSE "0b"]]

NoRequests == {}
=============================================================================
