----------------------------- MODULE MCPurchase -----------------------------
(* An instance of Purchase for TLC. *)
EXTENDS Purchase

CONSTANTS ann, k1, s1, s2

(* Ann's wallet is funded once, with enough for one of two purchases.      *)
Funding ==
  {[op |-> "credit", user |-> ann, to |-> ann, amount |-> 2, key |-> k1,
    saga |-> s1]}
=============================================================================
