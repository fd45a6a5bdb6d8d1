---------------------------- MODULE Conservation ----------------------------
(***************************************************************************)
(* The conservation of money in wallet-service: a sum over its tables,     *)
(* which are finite, so there are finitely many users and sagas.           *)
(***************************************************************************)
EXTENDS Wallet, FiniteSetsExt

ASSUME FiniteTables == IsFiniteSet(Users) /\ IsFiniteSet(Sagas)

Sum(f, S) == MapThenSumSet(LAMBDA x : f[x], S)

(* k is the idempotency key of money that came to u from outside.          *)
IsCredit(u, k) ==
  \E r \in Requests : r.op = "credit" /\ r.user = u /\ k = ReqKey(r.key)

(* The entries of history l that credited u, and what they brought.        *)
Credits(l, u) == {i \in 1..Len(l) : IsCredit(u, l[i].key)}
PaidIn(l, u) == Sum([i \in Credits(l, u) |-> l[i].amount], Credits(l, u))

Credited == [u \in Users |-> PaidIn(ledger[u], u)]
Balances == [u \in Users |-> wallet[u].balance]
Amounts == [s \in Sagas |-> saga[s].amount]
Kept == {s \in Sagas : saga[s].status \in {"PENDING", "COMPLETED"}}

(* The money credited is in a balance, in a pending saga, or spent by a    *)
(* completed one: none is created or lost (wallet_usecase.go: every body   *)
(* pairs its UpdateBalance with the rows it inserts).                      *)
MoneyConserved == Sum(Credited, Users) = Sum(Balances, Users) + Sum(Amounts, Kept)
=============================================================================
