----------------------------- MODULE UnitOfWork -----------------------------
(***************************************************************************)
(* wallet-service's transactions, statement by statement:                  *)
(* internal/repository/postgres/unit_of_work.go (Execute) around the       *)
(* bodies of internal/usecase/wallet_usecase.go, on PostgreSQL at          *)
(* isolation level SERIALIZABLE.                                           *)
(*                                                                         *)
(* Of PostgreSQL, which is not in the repository, this much is modelled:   *)
(* a transaction reads the snapshot its first statement takes; a row it    *)
(* writes, or a unique key it inserts, is locked until it ends; another    *)
(* transaction that wants the row waits; an UPDATE of a row that was       *)
(* committed after the snapshot is a serialization failure, an INSERT of   *)
(* a key that is there a unique violation; a transaction in a cycle of     *)
(* waits is aborted; an error aborts the transaction at once, and every    *)
(* later statement of it fails. Other serialization failures may come at   *)
(* any time (Fail).                                                        *)
(*                                                                         *)
(* Wallet.tla has two steps where this module has all of them.             *)
(***************************************************************************)
EXTENDS WalletDomain, Sequences, Functions

CONSTANTS
  Handlers,   \* requests served at the same time
  NoRequest,  \* the request of an idle handler
  Lockable    \* the users whose wallet may get locked: bounds the runs

VARIABLES
  wallet, ledger, txnStatus, saga,   \* the tables, as committed
  pc,         \* "idle", "received", "open" (in a tx) or "aborted" (in a dead one)
  req,        \* the request a handler serves
  snap,       \* the wallet rows its transaction has read
  snapSaga,   \* the saga row its transaction has read
  body,       \* the statements its transaction writes, computed from those
  done,       \* how many of them it has written
  stale,      \* the rows it is to update that changed after its snapshot
  acked       \* the requests that some client was told have succeeded

db == <<wallet, ledger, txnStatus, saga>>
vars == <<wallet, ledger, txnStatus, saga, pc, req, snap, snapSaga, body,
          done, stale, acked>>

(* Wallet's view: a transaction that is aborted is open, and cannot commit.*)
W == INSTANCE Wallet WITH
  pc <- [h \in Handlers |-> IF pc[h] = "aborted" THEN "open" ELSE pc[h]]

Init ==
  /\ pc = [h \in Handlers |-> "idle"]
  /\ W!Init
  /\ body = [h \in Handlers |-> << >>]
  /\ done = [h \in Handlers |-> 0]
  /\ stale = [h \in Handlers |-> {}]

-----------------------------------------------------------------------------
(* The writing statements of each body, in the order of the code. A row is *)
(* named by its table and its unique key.                                  *)
WalletRow(u) == <<"wallet", u>>
TxnRow(k) == <<"txn", k>>
SagaOf(s) == <<"saga", s>>

(* TransactionRepo.Create and UpdateStatus, WalletRepo.UpdateBalance,      *)
(* SagaRepo.Create, UpdateStatus and MarkCompleted.                        *)
InsertTxn(k, status, u, before, amount) ==
  [kind |-> "insert", row |-> TxnRow(k), status |-> status, user |-> u,
   entry |-> [key |-> k, amount |-> amount,
              before |-> before, after |-> before + amount]]
UpdateTxn(k, status) ==
  [kind |-> "update", row |-> TxnRow(k), status |-> status]
UpdateBalance(u, balance) ==
  [kind |-> "update", row |-> WalletRow(u), balance |-> balance]
InsertSaga(s, g) == [kind |-> "insert", row |-> SagaOf(s), saga |-> g]
UpdateSaga(s, g) == [kind |-> "update", row |-> SagaOf(s), saga |-> g]

CreditBody(r, bal) ==
  << InsertTxn(ReqKey(r.key), "COMPLETED", r.user, bal[r.user], r.amount),
     UpdateBalance(r.user, bal[r.user] + r.amount) >>

(* Mutant: the receiver's balance is not updated.                          *)
OneSidedBody(r, bal) ==
  << InsertTxn(ReqKey(r.key), "COMPLETED", r.user, bal[r.user], -r.amount),
     InsertTxn(CreditKey(r.key), "COMPLETED", r.to, bal[r.to], r.amount),
     UpdateBalance(r.user, bal[r.user] - r.amount) >>

TransferBody(r, bal) ==
  << InsertTxn(ReqKey(r.key), "COMPLETED", r.user, bal[r.user], -r.amount),
     InsertTxn(CreditKey(r.key), "COMPLETED", r.to, bal[r.to], r.amount),
     UpdateBalance(r.user, bal[r.user] - r.amount),
     UpdateBalance(r.to, bal[r.to] + r.amount) >>

DebitBody(r, bal) ==
  << InsertTxn(ReqKey(r.key), "PENDING", r.user, bal[r.user], -r.amount),
     InsertSaga(r.saga, [status |-> "PENDING", user |-> r.user,
                         amount |-> r.amount, key |-> r.key]),
     UpdateBalance(r.user, bal[r.user] - r.amount) >>

CompensateBody(r, g, bal) ==
  << UpdateTxn(ReqKey(g.key), "REVERSED"),
     InsertTxn(CompKey(r.saga), "COMPLETED", g.user, bal[g.user], g.amount),
     UpdateBalance(g.user, bal[g.user] + g.amount),
     UpdateSaga(r.saga, [g EXCEPT !.status = "COMPENSATED"]) >>

CompleteBody(r, g) ==
  << UpdateTxn(ReqKey(g.key), "COMPLETED"),
     UpdateSaga(r.saga, [g EXCEPT !.status = "COMPLETED"]) >>

Body(r, g, bal) ==
  CASE r.op = "credit"     -> CreditBody(r, bal)
    [] r.op = "transfer"   -> TransferBody(r, bal)
    [] r.op = "debit"      -> DebitBody(r, bal)
    [] r.op = "compensate" -> CompensateBody(r, g, bal)
    [] r.op = "complete"   -> CompleteBody(r, g)

Writing(h) == pc[h] = "open" /\ done[h] < Len(body[h])
Stmt(h) == body[h][done[h] + 1]
RowsOf(h) == {st.row : st \in Range(body[h])}
Updates(h) == {st.row : st \in {x \in Range(body[h]) : x.kind = "update"}}

-----------------------------------------------------------------------------
(* What the database does with a statement.                                *)

(* The locks of a transaction; aborting and ending it release them.        *)
Locked(h) ==
  IF pc[h] = "open" THEN {body[h][i].row : i \in 1..done[h]} ELSE {}

WaitsFor(h, g) == g # h /\ Writing(h) /\ Stmt(h).row \in Locked(g)

Free(row) == \A g \in Handlers : row \notin Locked(g)

MayWrite(h) == Writing(h) /\ \A g \in Handlers : ~WaitsFor(h, g)

(* Every member of a set waits for a member and is waited for by one.      *)
Deadlocked(h) ==
  \E S \in SUBSET Handlers :
    /\ h \in S
    /\ \A g \in S : /\ \E f \in S : WaitsFor(g, f)
                    /\ \E f \in S : WaitsFor(f, g)

Exists(row) ==
  \/ row[1] = "txn" /\ txnStatus[row[2]] # "none"
  \/ row[1] = "saga" /\ saga[row[2]].status # "none"

UniqueViolation(h) == Stmt(h).kind = "insert" /\ Exists(Stmt(h).row)

(* Mutant: READ COMMITTED lets an UPDATE see what its snapshot did not.    *)
NotSerialized(h) == FALSE
SerializationFailure(h) ==
  Stmt(h).kind = "update" /\ Stmt(h).row \in stale[h]

(* UpdateBalance finds no row with the version read:                       *)
(* ErrConcurrentModification.                                              *)
VersionMoved(h) ==
  \E u \in DOMAIN snap[h] :
    Stmt(h).row = WalletRow(u) /\ wallet[u].version # snap[h][u].version

-----------------------------------------------------------------------------
(* The request of h is over, and with it its transaction and locks; st is  *)
(* what is now out of date for the others.                                 *)
Leave(h, st) ==
  /\ pc' = [pc EXCEPT ![h] = "idle"]
  /\ req' = [req EXCEPT ![h] = NoRequest]
  /\ snap' = [snap EXCEPT ![h] = W!NoSnap]
  /\ snapSaga' = [snapSaga EXCEPT ![h] = NoSaga]
  /\ body' = [body EXCEPT ![h] = << >>]
  /\ done' = [done EXCEPT ![h] = 0]
  /\ stale' = [st EXCEPT ![h] = {}]

(* Mutant: an error returns without tx.Rollback().                         *)
Leak(h) == UNCHANGED <<pc, req, snap, snapSaga, body, done, stale>>
Release(h) == Leave(h, stale)

(* The rows in R have a new version: open transactions that are to update  *)
(* one of them have read an old one.                                       *)
Outdate(R) ==
  [g \in Handlers |->
     IF pc[g] = "open" THEN stale[g] \cup (R \cap Updates(g)) ELSE stale[g]]

CreateWallet(u) ==
  /\ ~wallet[u].open
  /\ wallet' = [wallet EXCEPT ![u].open = TRUE]
  /\ UNCHANGED <<ledger, txnStatus, saga, pc, req, snap, snapSaga, body, done,
                 stale, acked>>

(* Something outside the code updates is_locked, and waits for the row.    *)
ToggleLock(u) ==
  /\ u \in Lockable
  /\ wallet[u].open
  /\ Free(WalletRow(u))
  /\ wallet' = [wallet EXCEPT ![u].locked = ~@]
  /\ stale' = Outdate({WalletRow(u)})
  /\ UNCHANGED <<ledger, txnStatus, saga, pc, req, snap, snapSaga, body, done,
                 acked>>

(* The lookup of the key, outside any transaction; a debit goes on as well *)
(* if its lookup fails.                                                    *)
Receive(h, r) ==
  /\ pc[h] = "idle"
  /\ W!Valid(r)
  /\ ~W!AlreadyDone(r) \/ r.op = "debit"
  /\ pc' = [pc EXCEPT ![h] = "received"]
  /\ req' = [req EXCEPT ![h] = r]
  /\ UNCHANGED <<db, snap, snapSaga, body, done, stale, acked>>

(* The answer to a request seen before quotes the wallet; a read that      *)
(* fails leaves a nil pointer, and the handler ends in a panic and no      *)
(* answer of success (the stuttering case).                                *)
ReceiveAgain(h, r) ==
  /\ pc[h] = "idle"
  /\ W!Valid(r)
  /\ W!AlreadyDone(r)
  /\ wallet[r.user].open
  /\ acked' = acked \cup {r}
  /\ UNCHANGED <<db, pc, req, snap, snapSaga, body, done, stale>>

(* BeginTx and the SELECTs, which all see the first one's snapshot.        *)
Begin(h) ==
  LET r == req[h]
      g == IF r.op \in OnSaga THEN saga[r.saga] ELSE NoSaga
      bal == [u \in W!Touched(r) |-> wallet[u].balance]
  IN  /\ pc[h] = "received"
      /\ W!Admits(r)
      /\ pc' = [pc EXCEPT ![h] = "open"]
      /\ snap' = [snap EXCEPT ![h] = [u \in W!Touched(r) |-> wallet[u]]]
      /\ snapSaga' = [snapSaga EXCEPT ![h] = g]
      /\ body' = [body EXCEPT ![h] = Body(r, g, bal)]
      /\ UNCHANGED <<db, req, done, stale, acked>>

(* A transaction that only reads: refused, or a saga completed before.     *)
ReadOnly(h) ==
  /\ pc[h] = "received"
  /\ ~W!Admits(req[h])
  /\ acked' = IF req[h].op = "complete" /\ saga[req[h].saga].status = "COMPLETED"
              THEN acked \cup {req[h]} ELSE acked
  /\ Release(h)
  /\ UNCHANGED db

Write(h) ==
  /\ MayWrite(h)
  /\ ~UniqueViolation(h) /\ ~SerializationFailure(h) /\ ~VersionMoved(h)
  /\ done' = [done EXCEPT ![h] = @ + 1]
  /\ UNCHANGED <<db, pc, req, snap, snapSaga, body, stale, acked>>

Abort(h) ==
  /\ pc' = [pc EXCEPT ![h] = "aborted"]
  /\ UNCHANGED <<db, req, snap, snapSaga, body, done, stale, acked>>

WriteFails(h) ==
  /\ MayWrite(h)
  /\ UniqueViolation(h) \/ SerializationFailure(h) \/ VersionMoved(h)
  /\ Abort(h)

BreakDeadlock(h) == Deadlocked(h) /\ Abort(h)

(* The body returns its error: on a duplicate key after one more SELECT,   *)
(* which the aborted transaction refuses. Execute rolls back.              *)
Rollback(h) ==
  /\ pc[h] = "aborted"
  /\ Release(h)
  /\ UNCHANGED <<db, acked>>

Written(h, row) == {st \in Range(body[h]) : st.row = row}
Entries(h, u) ==
  {st \in Range(body[h]) : st.kind = "insert" /\ st.row[1] = "txn" /\ st.user = u}

(* tx.Commit(): all rows at once; no body inserts two transactions of one  *)
(* wallet. (That the answer may not reach the client is in Wallet.tla, and *)
(* makes no difference here.)                                              *)
Commit(h) ==
  LET new(row) == CHOOSE st \in Written(h, row) : TRUE
  IN  /\ pc[h] = "open" /\ done[h] = Len(body[h])
      /\ wallet' = [u \in Users |->
           IF WalletRow(u) \in RowsOf(h)
           THEN [wallet[u] EXCEPT !.balance = new(WalletRow(u)).balance,
                                  !.version = @ + 1]
           ELSE wallet[u]]
      /\ ledger' = [u \in Users |->
           IF Entries(h, u) = {} THEN ledger[u]
           ELSE Append(ledger[u], (CHOOSE st \in Entries(h, u) : TRUE).entry)]
      /\ txnStatus' = [k \in TxnKeys |->
           IF TxnRow(k) \in RowsOf(h) THEN new(TxnRow(k)).status ELSE txnStatus[k]]
      /\ saga' = [s \in Sagas |->
           IF SagaOf(s) \in RowsOf(h) THEN new(SagaOf(s)).saga ELSE saga[s]]
      /\ Leave(h, Outdate(RowsOf(h)))
      /\ acked' = acked \cup {req[h]}

(* The client leaves, the connection drops, the process dies, or the       *)
(* database refuses for a reason of its own.                               *)
Fail(h) ==
  /\ pc[h] \in {"received", "open"}
  /\ Release(h)
  /\ UNCHANGED <<db, acked>>

Step(h) == Begin(h) \/ ReadOnly(h) \/ Write(h) \/ WriteFails(h) \/ Rollback(h) \/ Commit(h)

Next ==
  \/ \E u \in Users : CreateWallet(u) \/ ToggleLock(u)
  \/ \E h \in Handlers, r \in Requests : Receive(h, r) \/ ReceiveAgain(h, r)
  \/ \E h \in Handlers : Step(h) \/ BreakDeadlock(h) \/ Fail(h)

(* The scheduler runs every handler. PostgreSQL hands a row to those who   *)
(* wait for it in the order they came, so a statement that is possible     *)
(* again and again is executed; and it detects deadlocks.                  *)
Fairness ==
  /\ \A h \in Handlers : SF_vars(Step(h))
  /\ WF_vars(\E h \in Handlers : BreakDeadlock(h))

Spec == Init /\ [][Next]_vars /\ Fairness
-----------------------------------------------------------------------------
(* Locks, snapshots and aborts make each body of wallet_usecase.go the two *)
(* steps of Wallet.tla: what its transactions read, and a commit that      *)
(* finds every row as it was read and every key free. So what is proved of *)
(* Wallet holds of the statements, in whatever order they interleave.      *)
ImplementsWallet == W!Spec

(* Under LevelSerializable UpdateBalance's "AND version = $3"              *)
(* (repositories.go:105) never decides: a row that PostgreSQL lets a       *)
(* transaction update has the version that it read. ("Transaction          *)
(* conflict, please retry" is therefore never told; the loser of a race is *)
(* told of an internal error.)                                             *)
VersionTestRedundant ==
  \A h \in Handlers :
    MayWrite(h) /\ ~SerializationFailure(h) => ~VersionMoved(h)

(* Every request ends, although transactions wait for the rows and keys of *)
(* others, and transfers in opposite directions update the same two rows   *)
(* in opposite orders (wallet_usecase.go:265).                             *)
EveryRequestEnds == \A h \in Handlers : pc[h] # "idle" ~> pc[h] = "idle"
=============================================================================
