------------------------------ MODULE MCWallet ------------------------------
(* Instances of Wallet for TLC, with the conservation of money.            *)
EXTENDS Conservation

CONSTANTS ann, bob, k1, k2, k3, k4, k5, k6, s1

Req(op, u, v, a, k, s) ==
  [op |-> op, user |-> u, to |-> v, amount |-> a, key |-> k, saga |-> s]

(* Ann is funded and pays Bob, who pays back part of it. A saga's debit    *)
(* competes with the transfers for the money, and a completion and a       *)
(* compensation compete for the saga. Two requests are refused.            *)
SomeRequests ==
  {Req("credit", ann, ann, 2, k1, s1),
   Req("transfer", ann, bob, 2, k2, s1),
   Req("transfer", bob, ann, 1, k3, s1),
   Req("debit", ann, ann, 2, k4, s1),
   Req("compensate", ann, ann, 0, k1, s1),
   Req("complete", ann, ann, 0, k1, s1),
   Req("credit", bob, bob, -1, k5, s1),
   Req("transfer", bob, bob, 1, k6, s1)}
=============================================================================
