------------------------------- MODULE Wallet -------------------------------
(***************************************************************************)
(* wallet-service: internal/usecase/wallet_usecase.go over                 *)
(* internal/repository/postgres.                                           *)
(*                                                                         *)
(* A handler (the goroutine that serves one HTTP request) validates the    *)
(* request and looks its idempotency key up OUTSIDE any transaction, then  *)
(* runs the usecase's body inside UnitOfWork.Execute: it reads rows,       *)
(* computes new balances from what it read, and writes. The model splits   *)
(* a handler there: Receive (lookup), Begin (the transaction's reads and   *)
(* the checks on them), then the commit, which applies the writes only if  *)
(* no row read has changed (UpdateBalance's version test, PostgreSQL's     *)
(* serializable isolation) and no key inserted is taken (unique indexes).  *)
(* Any other handler may act in between.                                   *)
(*                                                                         *)
(* The database schema is not in the repository: unique indexes on         *)
(* wallets.user_id, wallet_transactions.idempotency_key and                *)
(* saga_compensations.saga_id, a balance and a version that start at 0.    *)
(* They are what the code's handling of error 23505 relies on.             *)
(***************************************************************************)
EXTENDS WalletDomain, Sequences

CONSTANTS
  Handlers,   \* requests served at the same time
  NoRequest   \* the request of an idle handler

VARIABLES
  wallet,     \* table wallets
  ledger,     \* table wallet_transactions, per wallet in commit order
  txnStatus,  \* its status column, by idempotency key
  saga,       \* table saga_compensations
  pc,         \* where a handler is: "idle", "received" or "open" (in a tx)
  req,        \* the request it serves
  snap,       \* the wallet rows its transaction has read
  snapSaga,   \* the saga row its transaction has read
  acked       \* the requests that some client was told have succeeded

db == <<wallet, ledger, txnStatus, saga>>
vars == <<wallet, ledger, txnStatus, saga, pc, req, snap, snapSaga, acked>>

-----------------------------------------------------------------------------
WalletRow == [open : BOOLEAN, locked : BOOLEAN, balance : Int, version : Nat]

(* A row of wallet_transactions. type and amount are one signed amount:    *)
(* positive for CREDIT, negative for DEBIT.                                *)
Entry == [key : TxnKeys, amount : Int, before : Int, after : Int]

NoSnap == [u \in {} |-> 0]

Init ==
  /\ wallet = [u \in Users |->
                [open |-> FALSE, locked |-> FALSE, balance |-> 0, version |-> 0]]
  /\ ledger = [u \in Users |-> << >>]
  /\ txnStatus = [k \in TxnKeys |-> "none"]
  /\ saga = [s \in Sagas |-> NoSaga]
  /\ pc = [h \in Handlers |-> "idle"]
  /\ req = [h \in Handlers |-> NoRequest]
  /\ snap = [h \in Handlers |-> NoSnap]
  /\ snapSaga = [h \in Handlers |-> NoSaga]
  /\ acked = {}

-----------------------------------------------------------------------------
(* The checks of the usecase layer.                                        *)

Valid(r) ==
  /\ r.op \in Keyed => r.amount > 0
  /\ r.op = "transfer" => r.user # r.to

(* The lookups before the transaction: by key, or by saga id for a debit.  *)
AlreadyDone(r) ==
  \/ r.op \in {"credit", "transfer"} /\ txnStatus[ReqKey(r.key)] # "none"
  \/ r.op = "debit" /\ saga[r.saga].status # "none"

Usable(u) == wallet[u].open /\ ~wallet[u].locked

(* Mutant: the comparison is off by one.                                   *)
NearlySufficient(u, amount) == wallet[u].balance + 1 >= amount

HasSufficientBalance(u, amount) == wallet[u].balance >= amount

(* What the body of a transaction tests on the rows it reads.              *)
Admits(r) ==
  /\ r.op \in Keyed => Usable(r.user)
  /\ r.op \in {"transfer", "debit"} => HasSufficientBalance(r.user, r.amount)
  /\ r.op = "transfer" => Usable(r.to)
  /\ r.op \in OnSaga => saga[r.saga].status = "PENDING"

(* The wallets whose balance the operation updates. A compensation finds   *)
(* its wallet through the saga row and does not test its lock.             *)
Touched(r) ==
  CASE r.op = "transfer"   -> {r.user, r.to}
    [] r.op = "compensate" -> {saga[r.saga].user}
    [] r.op = "complete"   -> {}
    [] OTHER               -> {r.user}

KeysOf(r) ==
  CASE r.op = "transfer"   -> {ReqKey(r.key), CreditKey(r.key)}
    [] r.op = "compensate" -> {CompKey(r.saga)}
    [] r.op = "complete"   -> {}
    [] OTHER               -> {ReqKey(r.key)}

-----------------------------------------------------------------------------
(* What the database tests when a transaction writes and commits.          *)

(* Mutants: UpdateBalance without its version test; serializable isolation *)
(* replaced by a level that lets the lock flag change under the reader.    *)
RowAnyVersion(h, u) == wallet[u].locked = snap[h][u].locked
RowSameVersion(h, u) == wallet[u].version = snap[h][u].version

(* "WHERE version = $3"; and a row another transaction has written since   *)
(* it was read (a lock changes no version) is a serialization failure.     *)
RowCurrent(h, u) ==
  /\ wallet[u].version = snap[h][u].version
  /\ wallet[u].locked = snap[h][u].locked

(* Mutant: no unique index on wallet_transactions.idempotency_key.         *)
KeyUnindexed(k) == txnStatus[k] \in TxnStatus

KeyFree(k) == txnStatus[k] = "none"

(* Mutant: READ COMMITTED; the saga row may have moved on since the read.  *)
SagaStale(h) == req[h].op = "debit" => saga[req[h].saga].status = "none"

(* A debit inserts the saga row. The others overwrite it with no test of   *)
(* its status that matters: only serializable isolation keeps a transition *)
(* from being decided on a stale row.                                      *)
SagaCurrent(h) ==
  LET r == req[h]
  IN  CASE r.op = "debit" -> saga[r.saga].status = "none"
        [] r.op \in OnSaga -> saga[r.saga] = snapSaga[h]
        [] OTHER -> TRUE

CanCommit(h) ==
  /\ \A u \in DOMAIN snap[h] : RowCurrent(h, u)
  /\ \A k \in KeysOf(req[h]) : KeyFree(k)
  /\ SagaCurrent(h)

-----------------------------------------------------------------------------
(* Mutant: a handler keeps its place when its request is over.             *)
DoneInPlace(h) ==
  /\ req' = [req EXCEPT ![h] = NoRequest]
  /\ UNCHANGED <<pc, snap, snapSaga>>

Done(h) ==
  /\ pc' = [pc EXCEPT ![h] = "idle"]
  /\ req' = [req EXCEPT ![h] = NoRequest]
  /\ snap' = [snap EXCEPT ![h] = NoSnap]
  /\ snapSaga' = [snapSaga EXCEPT ![h] = NoSaga]

(* The reply of a committed request may never reach its client.            *)
Reply(h) ==
  /\ acked' \in {acked, acked \cup {req[h]}}
  /\ Done(h)

(* POST /wallets: one INSERT, refused if the user already has a wallet.    *)
CreateWallet(u) ==
  /\ ~wallet[u].open
  /\ wallet' = [wallet EXCEPT ![u].open = TRUE]
  /\ UNCHANGED <<ledger, txnStatus, saga, pc, req, snap, snapSaga, acked>>

(* is_locked is read by the code and written by something outside it.      *)
ToggleLock(u) ==
  /\ wallet[u].open
  /\ wallet' = [wallet EXCEPT ![u].locked = ~@]
  /\ UNCHANGED <<ledger, txnStatus, saga, pc, req, snap, snapSaga, acked>>

(* A debit goes on as well if its lookup fails.                            *)
Receive(h, r) ==
  /\ pc[h] = "idle"
  /\ Valid(r)
  /\ ~AlreadyDone(r) \/ r.op = "debit"
  /\ pc' = [pc EXCEPT ![h] = "received"]
  /\ req' = [req EXCEPT ![h] = r]
  /\ UNCHANGED <<db, snap, snapSaga, acked>>

(* A request seen before is answered from the rows it left. The balance in *)
(* the answer is read from the user's wallet, which must exist.            *)
ReceiveAgain(h, r) ==
  /\ pc[h] = "idle"
  /\ Valid(r)
  /\ AlreadyDone(r)
  /\ wallet[r.user].open
  /\ acked' = acked \cup {r}
  /\ UNCHANGED <<db, pc, req, snap, snapSaga>>

Begin(h) ==
  /\ pc[h] = "received"
  /\ Admits(req[h])
  /\ pc' = [pc EXCEPT ![h] = "open"]
  /\ snap' = [snap EXCEPT ![h] = [u \in Touched(req[h]) |-> wallet[u]]]
  /\ snapSaga' = [snapSaga EXCEPT ![h] =
                    IF req[h].op \in OnSaga THEN saga[req[h].saga] ELSE NoSaga]
  /\ UNCHANGED <<db, req, acked>>

(* Mutant: any saga that is not pending counts as completed.               *)
CompleteSettled(h) ==
  /\ pc[h] = "received"
  /\ req[h].op = "complete"
  /\ saga[req[h].saga].status \in {"COMPLETED", "COMPENSATED"}
  /\ Reply(h)
  /\ UNCHANGED db

(* A saga that is complete already is completed again: a success.          *)
CompleteAgain(h) ==
  /\ pc[h] = "received"
  /\ req[h].op = "complete"
  /\ saga[req[h].saga].status = "COMPLETED"
  /\ Reply(h)
  /\ UNCHANGED db

(* No wallet, a locked one, too little money, a saga that is not pending.  *)
Reject(h) ==
  /\ pc[h] = "received"
  /\ ~Admits(req[h])
  /\ Done(h)
  /\ UNCHANGED <<db, acked>>

(* The INSERT of one transaction row and UpdateBalance, on each wallet the *)
(* transaction has read: the amounts are applied to the balances READ.     *)
Post(h, delta, key) ==
  LET U == DOMAIN snap[h]
      new(u) == snap[h][u].balance + delta[u]
  IN  /\ wallet' = [u \in Users |->
           IF u \in U THEN [wallet[u] EXCEPT !.balance = new(u),
                                             !.version = @ + 1]
                      ELSE wallet[u]]
      /\ ledger' = [u \in Users |->
           IF u \in U THEN Append(ledger[u],
                             [key |-> key[u], amount |-> delta[u],
                              before |-> snap[h][u].balance, after |-> new(u)])
                      ELSE ledger[u]]

Commits(h, op) == pc[h] = "open" /\ req[h].op = op /\ CanCommit(h)

CreditWallet(h) ==
  LET r == req[h]
  IN  /\ Commits(h, "credit")
      /\ Post(h, [u \in {r.user} |-> r.amount],
                 [u \in {r.user} |-> ReqKey(r.key)])
      /\ txnStatus' = [txnStatus EXCEPT ![ReqKey(r.key)] = "COMPLETED"]
      /\ UNCHANGED saga
      /\ Reply(h)

TransferWallet(h) ==
  LET r == req[h]
      U == {r.user, r.to}
  IN  /\ Commits(h, "transfer")
      /\ Post(h, [u \in U |-> IF u = r.user THEN -r.amount ELSE r.amount],
                 [u \in U |-> IF u = r.user THEN ReqKey(r.key)
                                            ELSE CreditKey(r.key)])
      /\ txnStatus' = [txnStatus EXCEPT ![ReqKey(r.key)] = "COMPLETED",
                                        ![CreditKey(r.key)] = "COMPLETED"]
      /\ UNCHANGED saga
      /\ Reply(h)

(* The money leaves the balance at once and stays in the saga row.         *)
DebitForSaga(h) ==
  LET r == req[h]
  IN  /\ Commits(h, "debit")
      /\ Post(h, [u \in {r.user} |-> -r.amount],
                 [u \in {r.user} |-> ReqKey(r.key)])
      /\ txnStatus' = [txnStatus EXCEPT ![ReqKey(r.key)] = "PENDING"]
      /\ saga' = [saga EXCEPT ![r.saga] =
                    [status |-> "PENDING", user |-> r.user,
                     amount |-> r.amount, key |-> r.key]]
      /\ Reply(h)

CompensateSaga(h) ==
  LET s == snapSaga[h]
      k == CompKey(req[h].saga)
  IN  /\ Commits(h, "compensate")
      /\ Post(h, [u \in {s.user} |-> s.amount], [u \in {s.user} |-> k])
      /\ txnStatus' = [txnStatus EXCEPT ![ReqKey(s.key)] = "REVERSED",
                                        ![k] = "COMPLETED"]
      /\ saga' = [saga EXCEPT ![req[h].saga].status = "COMPENSATED"]
      /\ Reply(h)

CompleteSaga(h) ==
  LET s == snapSaga[h]
  IN  /\ Commits(h, "complete")
      /\ txnStatus' = [txnStatus EXCEPT ![ReqKey(s.key)] = "COMPLETED"]
      /\ saga' = [saga EXCEPT ![req[h].saga].status = "COMPLETED"]
      /\ UNCHANGED <<wallet, ledger>>
      /\ Reply(h)

(* The transaction loses a race: UpdateBalance finds no row, an INSERT     *)
(* finds its key taken, or PostgreSQL refuses to serialize. The body rolls *)
(* back and the client gets an error; nothing retries.                     *)
Conflict(h) ==
  /\ pc[h] = "open"
  /\ ~CanCommit(h)
  /\ Done(h)
  /\ UNCHANGED <<db, acked>>

(* The client leaves (its context is cancelled), the connection drops or   *)
(* the process dies; an open transaction is rolled back.                   *)
Fail(h) ==
  /\ pc[h] # "idle"
  /\ Done(h)
  /\ UNCHANGED <<db, acked>>

Commit(h) ==
  \/ CreditWallet(h) \/ TransferWallet(h) \/ DebitForSaga(h)
  \/ CompensateSaga(h) \/ CompleteSaga(h)

Serve(h) == Begin(h) \/ CompleteAgain(h) \/ Reject(h) \/ Commit(h) \/ Conflict(h)

Next ==
  \/ \E u \in Users : CreateWallet(u) \/ ToggleLock(u)
  \/ \E h \in Handlers, r \in Requests : Receive(h, r) \/ ReceiveAgain(h, r)
  \/ \E h \in Handlers : Serve(h) \/ Fail(h)

Spec == Init /\ [][Next]_vars
-----------------------------------------------------------------------------
(* Every variable has its type; a handler that is not idle serves a        *)
(* request, and one in a transaction has read the rows of its wallets.     *)
TypeOK ==
  /\ wallet \in [Users -> WalletRow]
  /\ ledger \in [Users -> Seq(Entry)]
  /\ txnStatus \in [TxnKeys -> TxnStatus]
  /\ saga \in [Sagas -> SagaRow]
  /\ pc \in [Handlers -> {"idle", "received", "open"}]
  /\ DOMAIN req = Handlers
  /\ \A h \in Handlers : pc[h] # "idle" => req[h] \in Requests
  /\ DOMAIN snap = Handlers
  /\ \A h \in Handlers : /\ DOMAIN snap[h] \subseteq Users
                         /\ \A u \in DOMAIN snap[h] : snap[h][u] \in WalletRow
  /\ snapSaga \in [Handlers -> SagaRow]
  /\ acked \subseteq Requests

(* No interleaving of credits, transfers, debits and refunds overdraws a   *)
(* wallet, although the sufficiency test ran before the write              *)
(* (wallet_usecase.go: HasSufficientBalance ... UpdateBalance).            *)
NonNegativeBalance == \A u \in Users : wallet[u].balance >= 0

(* The balance before the i-th transaction of history l.                   *)
BalanceAt(l, i) == IF i = 1 THEN 0 ELSE l[i - 1].after

Reconciles(l, b) ==
  /\ \A i \in 1..Len(l) : /\ l[i].before = BalanceAt(l, i)
                          /\ l[i].after = l[i].before + l[i].amount
  /\ b = BalanceAt(l, Len(l) + 1)

(* Every wallet's history reconciles: each transaction starts from the     *)
(* balance the previous one left, changes it by its amount, and the last   *)
(* one leaves the wallet's balance. A lost update breaks it.               *)
LedgerReconciles ==
  \A u \in Users : Reconciles(ledger[u], wallet[u].balance)

(* However often a request is sent, and however its copies interleave, its *)
(* idempotency key labels at most one transaction in the whole table.      *)
KeyRecordedOnce ==
  \A u, v \in Users :
    \A i \in 1..Len(ledger[u]), j \in 1..Len(ledger[v]) :
      ledger[u][i].key = ledger[v][j].key => u = v /\ i = j

Recorded(u, k, a) ==
  \E i \in 1..Len(ledger[u]) : ledger[u][i].key = k /\ ledger[u][i].amount = a

(* A saga, its debit and its refund tell one story: the debit was taken    *)
(* from the saga's wallet, it is PENDING, COMPLETED or REVERSED as the     *)
(* saga is PENDING, COMPLETED or COMPENSATED, and the refund is in the     *)
(* ledger exactly when the saga is COMPENSATED. So completing and          *)
(* compensating one saga at the same time never does both.                 *)
SagaAgrees ==
  \A s \in Sagas :
    LET g == saga[s]
    IN  /\ g.status # "none" => Recorded(g.user, ReqKey(g.key), -g.amount)
        /\ g.status = "PENDING" => txnStatus[ReqKey(g.key)] = "PENDING"
        /\ g.status = "COMPLETED" => txnStatus[ReqKey(g.key)] = "COMPLETED"
        /\ g.status = "COMPENSATED" =>
             /\ txnStatus[ReqKey(g.key)] = "REVERSED"
             /\ Recorded(g.user, CompKey(s), g.amount)
        /\ g.status # "COMPENSATED" =>
             \A u \in Users : \A i \in 1..Len(ledger[u]) :
               ledger[u][i].key # CompKey(s)

(* What a success answer means.                                            *)
Effect(r) ==
  /\ r.op = "credit" => Recorded(r.user, ReqKey(r.key), r.amount)
  /\ r.op = "transfer" => /\ Recorded(r.user, ReqKey(r.key), -r.amount)
                          /\ Recorded(r.to, CreditKey(r.key), r.amount)
  /\ r.op = "debit" => /\ Recorded(r.user, ReqKey(r.key), -r.amount)
                       /\ saga[r.saga].status # "none"
  /\ r.op = "compensate" => saga[r.saga].status = "COMPENSATED"
  /\ r.op = "complete" => saga[r.saga].status = "COMPLETED"

(* A client that was told its request succeeded - by the handler that did  *)
(* it or by one that found it done - finds all of its effect in the        *)
(* tables, now and later, whatever else runs.                              *)
AckedHasEffect == \A r \in acked : Effect(r)

(* An administratively locked wallet loses no money and receives none,     *)
(* except that a compensation gives it back what its own saga held.        *)
LockedWalletFrozen ==
  [][\A u \in Users :
       wallet[u].locked /\ wallet'[u].balance # wallet[u].balance =>
         \E s \in Sagas : /\ saga[s].user = u /\ saga[s].status = "PENDING"
                          /\ saga'[s].status = "COMPENSATED"
                          /\ wallet'[u].balance = wallet[u].balance + saga[s].amount
    ]_vars

(* A saga that was completed or compensated stays so.                      *)
SagaOutcomeIsFinal ==
  [][\A s \in Sagas : saga[s].status \in {"COMPLETED", "COMPENSATED"}
                        => saga'[s] = saga[s]]_vars

(* The refinement: the wallet service implements Bank.                     *)
B == INSTANCE Bank WITH
  opened <- {u \in Users : wallet[u].open},
  locked <- {u \in Users : wallet[u].locked},
  balance <- [u \in Users |-> wallet[u].balance],
  used <- {k \in TxnKeys : txnStatus[k] # "none"},
  hold <- saga

(* Every step of the handlers, snapshots and optimistic checks included,   *)
(* is an atomic operation of Bank on the current money, or changes none.   *)
ImplementsBank == B!Spec
=============================================================================
