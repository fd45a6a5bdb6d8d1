---------------------------- MODULE MCUnitOfWork ----------------------------
(* An instance of UnitOfWork for TLC: transfers in opposite directions, a  *)
(* credit each, and a saga for all of Ann's money, with both of its ends.   *)
EXTENDS UnitOfWork

CONSTANTS ann, bob, k1, k2, k3, k4, k5, s1

Req(op, u, v, a, k, s) ==
  [op |-> op, user |-> u, to |-> v, amount |-> a, key |-> k, saga |-> s]

SomeRequests ==
  {Req("credit", ann, ann, 1, k1, s1),
   Req("transfer", ann, bob, 1, k2, s1),
   Req("transfer", bob, ann, 1, k3, s1),
   Req("credit", bob, bob, 1, k5, s1),
   Req("debit", ann, ann, 2, k4, s1),
   Req("compensate", ann, ann, 0, k1, s1),
   Req("complete", ann, ann, 0, k1, s1)}
=============================================================================
