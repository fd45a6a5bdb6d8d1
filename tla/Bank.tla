-------------------------------- MODULE Bank --------------------------------
(***************************************************************************)
(* What wallet-service promises, with no handlers, no snapshots and no     *)
(* optimistic locking: every operation on the money happens at one moment, *)
(* on the current balances, at most once per idempotency key or saga.      *)
(* Wallet.tla implements this specification.                               *)
(***************************************************************************)
EXTENDS WalletDomain

VARIABLES
  opened,     \* users who have a wallet
  locked,     \* users whose wallet is administratively locked
  balance,    \* the money of each user
  used,       \* idempotency keys of the transactions recorded so far
  hold        \* for each saga, the money it holds, kept or gave back

vars == <<opened, locked, balance, used, hold>>

Init ==
  /\ opened = {}
  /\ locked = {}
  /\ balance = [u \in Users |-> 0]
  /\ used = {}
  /\ hold = [s \in Sagas |-> NoSaga]

Usable(u) == u \in opened /\ u \notin locked

Open(u) ==
  /\ u \notin opened
  /\ opened' = opened \cup {u}
  /\ UNCHANGED <<locked, balance, used, hold>>

ToggleLock(u) ==
  /\ u \in opened
  /\ locked' = IF u \in locked THEN locked \ {u} ELSE locked \cup {u}
  /\ UNCHANGED <<opened, balance, used, hold>>

Credit(r) ==
  /\ r.op = "credit" /\ r.amount > 0 /\ Usable(r.user)
  /\ ReqKey(r.key) \notin used
  /\ used' = used \cup {ReqKey(r.key)}
  /\ balance' = [balance EXCEPT ![r.user] = @ + r.amount]
  /\ UNCHANGED <<opened, locked, hold>>

Transfer(r) ==
  /\ r.op = "transfer" /\ r.amount > 0 /\ r.user # r.to
  /\ Usable(r.user) /\ Usable(r.to) /\ balance[r.user] >= r.amount
  /\ {ReqKey(r.key), CreditKey(r.key)} \cap used = {}
  /\ used' = used \cup {ReqKey(r.key), CreditKey(r.key)}
  /\ balance' = [balance EXCEPT ![r.user] = @ - r.amount,
                                ![r.to] = @ + r.amount]
  /\ UNCHANGED <<opened, locked, hold>>

Hold(r) ==
  /\ r.op = "debit" /\ r.amount > 0 /\ Usable(r.user)
  /\ balance[r.user] >= r.amount
  /\ ReqKey(r.key) \notin used /\ hold[r.saga].status = "none"
  /\ used' = used \cup {ReqKey(r.key)}
  /\ balance' = [balance EXCEPT ![r.user] = @ - r.amount]
  /\ hold' = [hold EXCEPT ![r.saga] =
                [status |-> "PENDING", user |-> r.user,
                 amount |-> r.amount, key |-> r.key]]
  /\ UNCHANGED <<opened, locked>>

Refund(s) ==
  /\ hold[s].status = "PENDING"
  /\ hold' = [hold EXCEPT ![s].status = "COMPENSATED"]
  /\ used' = used \cup {CompKey(s)}
  /\ balance' = [balance EXCEPT ![hold[s].user] = @ + hold[s].amount]
  /\ UNCHANGED <<opened, locked>>

Settle(s) ==
  /\ hold[s].status = "PENDING"
  /\ hold' = [hold EXCEPT ![s].status = "COMPLETED"]
  /\ UNCHANGED <<opened, locked, balance, used>>

Next ==
  \/ \E u \in Users : Open(u) \/ ToggleLock(u)
  \/ \E r \in Requests : Credit(r) \/ Transfer(r) \/ Hold(r)
  \/ \E s \in Sagas : Refund(s) \/ Settle(s)

Spec == Init /\ [][Next]_vars
=============================================================================
