---------------------------- MODULE WalletProofs ----------------------------
(***************************************************************************)
(* Proofs about Wallet, for any sets of users, keys, sagas, handlers and   *)
(* requests that satisfy WalletDomain's assumptions and, where money is    *)
(* summed, for finitely many wallets and sagas (FiniteTables).             *)
(***************************************************************************)
EXTENDS Conservation, FiniteSetTheorems, TLAPS

(* The wallets an open transaction will write are those it has read.       *)
SnapDomain ==
  \A h \in Handlers : pc[h] = "open" =>
    /\ req[h].op = "transfer" => DOMAIN snap[h] = {req[h].user, req[h].to}
    /\ req[h].op = "compensate" => DOMAIN snap[h] = {snapSaga[h].user}
    /\ req[h].op = "complete" => DOMAIN snap[h] = {}
    /\ req[h].op \in {"credit", "debit"} => DOMAIN snap[h] = {req[h].user}

TypeInv == TypeOK /\ SnapDomain

LEMMA KeyTypes ==
  /\ \A k \in Keys : ReqKey(k) \in TxnKeys /\ CreditKey(k) \in TxnKeys
  /\ \A s \in Sagas : CompKey(s) \in TxnKeys
BY DEF ReqKey, CreditKey, CompKey, TxnKeys

LEMMA NoSagaType == NoSaga \in SagaRow
BY DomainAssumption DEF NoSaga, SagaRow, SagaStatus

LEMMA RequestTypes ==
  ASSUME NEW r \in Requests
  PROVE  /\ r.op \in Keyed \cup OnSaga /\ r.user \in Users /\ r.to \in Users
         /\ r.amount \in Int /\ r.key \in Keys /\ r.saga \in Sagas
BY DomainAssumption DEF Request

LEMMA InitType == Init => TypeInv
<1> SUFFICES ASSUME Init PROVE TypeInv
  OBVIOUS
<1>1. wallet \in [Users -> WalletRow]
  BY DEF Init, WalletRow
<1>2. ledger \in [Users -> Seq(Entry)]
  BY DEF Init
<1>3. txnStatus \in [TxnKeys -> TxnStatus]
  BY DEF Init, TxnStatus
<1>4. saga \in [Sagas -> SagaRow] /\ snapSaga \in [Handlers -> SagaRow]
  BY NoSagaType DEF Init
<1>5. \A h \in Handlers : DOMAIN snap[h] = {}
  BY DEF Init, NoSnap
<1> QED
  BY <1>1, <1>2, <1>3, <1>4, <1>5 DEF Init, TypeInv, TypeOK, SnapDomain

(* Done(h) leaves the handler idle and the others as they are.             *)
LEMMA DoneType ==
  ASSUME TypeInv, NEW h \in Handlers, Done(h)
  PROVE  /\ pc' \in [Handlers -> {"idle", "received", "open"}]
         /\ DOMAIN req' = Handlers
         /\ \A g \in Handlers : pc'[g] # "idle" => req'[g] \in Requests
         /\ DOMAIN snap' = Handlers
         /\ \A g \in Handlers :
              /\ DOMAIN snap'[g] \subseteq Users
              /\ \A u \in DOMAIN snap'[g] : snap'[g][u] \in WalletRow
         /\ snapSaga' \in [Handlers -> SagaRow]
         /\ SnapDomain'
<1>1. DOMAIN NoSnap = {}
  BY DEF NoSnap
<1>2. \A g \in Handlers \ {h} : /\ pc'[g] = pc[g] /\ req'[g] = req[g]
                                /\ snap'[g] = snap[g] /\ snapSaga'[g] = snapSaga[g]
  BY DEF Done, TypeInv, TypeOK
<1>3. pc'[h] = "idle" /\ req'[h] = NoRequest /\ snap'[h] = NoSnap
  BY DEF Done, TypeInv, TypeOK
<1> QED
  BY <1>1, <1>2, <1>3, NoSagaType DEF Done, TypeInv, TypeOK, SnapDomain

(* Post rewrites the balance and the version of the wallets read, with the *)
(* amounts applied to the balances read, and no other wallet.              *)
LEMMA PostRows ==
  ASSUME TypeInv, NEW h \in Handlers,
         NEW delta \in [DOMAIN snap[h] -> Int], NEW key,
         Post(h, delta, key), NEW u \in Users
  PROVE  /\ u \notin DOMAIN snap[h] => wallet'[u] = wallet[u]
         /\ u \in DOMAIN snap[h] =>
              /\ wallet'[u].balance = snap[h][u].balance + delta[u]
              /\ wallet'[u].version = wallet[u].version + 1
              /\ wallet'[u].open = wallet[u].open
              /\ wallet'[u].locked = wallet[u].locked
              /\ wallet'[u] \in WalletRow
<1>1. CASE u \notin DOMAIN snap[h]
  BY <1>1 DEF Post
<1>2. CASE u \in DOMAIN snap[h]
  <2> DEFINE n == snap[h][u].balance + delta[u]
  <2>1. n \in Int
    BY <1>2 DEF TypeInv, TypeOK, WalletRow
  <2>2. wallet'[u] = [wallet[u] EXCEPT !.balance = n, !.version = @ + 1]
    BY <1>2 DEF Post
  <2>3. wallet[u] \in WalletRow
    BY DEF TypeInv, TypeOK
  <2> HIDE DEF n
  <2>4. wallet'[u] = [open |-> wallet[u].open, locked |-> wallet[u].locked,
                      balance |-> n, version |-> wallet[u].version + 1]
    BY <2>2, <2>3 DEF WalletRow
  <2> QED
    BY <1>2, <2>1, <2>3, <2>4 DEF WalletRow, n
<1> QED
  BY <1>1, <1>2

(* Post keeps the types of both tables it writes.                          *)
LEMMA PostType ==
  ASSUME TypeInv, NEW h \in Handlers, pc[h] = "open",
         NEW delta \in [DOMAIN snap[h] -> Int],
         NEW key \in [DOMAIN snap[h] -> TxnKeys],
         Post(h, delta, key)
  PROVE  wallet' \in [Users -> WalletRow] /\ ledger' \in [Users -> Seq(Entry)]
<1>1. \A u \in DOMAIN snap[h] :
        /\ u \in Users
        /\ snap[h][u].balance \in Int
        /\ snap[h][u].balance + delta[u] \in Int
        /\ key[u] \in TxnKeys /\ delta[u] \in Int
  BY DEF TypeInv, TypeOK, WalletRow
<1>2. \A u \in Users : wallet'[u] \in WalletRow
  BY PostRows DEF TypeInv, TypeOK
<1>3. \A u \in Users : ledger'[u] \in Seq(Entry)
  <2> SUFFICES ASSUME NEW u \in Users PROVE ledger'[u] \in Seq(Entry)
    OBVIOUS
  <2>1. CASE u \notin DOMAIN snap[h]
    BY <2>1 DEF Post, TypeInv, TypeOK
  <2>2. CASE u \in DOMAIN snap[h]
    <3> DEFINE e == [key |-> key[u], amount |-> delta[u],
                     before |-> snap[h][u].balance,
                     after |-> snap[h][u].balance + delta[u]]
    <3>1. e \in Entry
      BY <1>1, <2>2 DEF Entry
    <3>2. ledger'[u] = Append(ledger[u], e)
      BY <2>2 DEF Post
    <3>3. ledger[u] \in Seq(Entry)
      BY DEF TypeInv, TypeOK
    <3> QED
      BY <3>1, <3>2, <3>3
  <2> QED
    BY <2>1, <2>2
<1> QED
  BY <1>2, <1>3 DEF Post

(* What a commit may assume of the request it serves.                      *)
LEMMA CommitFacts ==
  ASSUME TypeInv, NEW h \in Handlers, NEW op, Commits(h, op)
  PROVE  /\ req[h] \in Requests /\ req[h].op = op /\ pc[h] = "open"
         /\ snapSaga[h] \in SagaRow
         /\ op = "transfer" => DOMAIN snap[h] = {req[h].user, req[h].to}
         /\ op = "compensate" => DOMAIN snap[h] = {snapSaga[h].user}
         /\ op \in {"credit", "debit"} => DOMAIN snap[h] = {req[h].user}
         /\ \A u \in DOMAIN snap[h] : RowCurrent(h, u)
         /\ \A k \in KeysOf(req[h]) : KeyFree(k)
         /\ SagaCurrent(h)
BY DEF Commits, CanCommit, TypeInv, TypeOK, SnapDomain

LEMMA ReplyType ==
  ASSUME TypeInv, NEW h \in Handlers, pc[h] # "idle", Reply(h)
  PROVE  Done(h) /\ acked' \subseteq Requests
BY DEF Reply, TypeInv, TypeOK

(* Writing a status into a saga row keeps the table's type.                *)
LEMMA SagaMarkType ==
  ASSUME TypeInv, NEW s \in Sagas, NEW st \in SagaStatus
  PROVE  [saga EXCEPT ![s].status = st] \in [Sagas -> SagaRow]
<1>1. saga[s] \in SagaRow
  BY DEF TypeInv, TypeOK
<1>2. [saga[s] EXCEPT !.status = st] \in SagaRow
  BY <1>1 DEF SagaRow
<1> QED
  BY <1>2 DEF TypeInv, TypeOK

LEMMA CommitType ==
  ASSUME TypeInv, NEW h \in Handlers, Commit(h)
  PROVE  TypeInv'
<1> USE DEF TypeInv
<1>1. CASE CreditWallet(h)
  <2> DEFINE r == req[h]
             d == [u \in {r.user} |-> r.amount]
             k == [u \in {r.user} |-> ReqKey(r.key)]
  <2>1. Commits(h, "credit") /\ Post(h, d, k) /\ Reply(h) /\ UNCHANGED saga
    BY <1>1 DEF CreditWallet
  <2>2. pc[h] = "open" /\ r \in Requests /\ DOMAIN snap[h] = {r.user}
    BY <2>1, CommitFacts
  <2>3. d \in [DOMAIN snap[h] -> Int] /\ k \in [DOMAIN snap[h] -> TxnKeys]
    BY <2>2, RequestTypes, KeyTypes
  <2>4. wallet' \in [Users -> WalletRow] /\ ledger' \in [Users -> Seq(Entry)]
    BY <2>1, <2>2, <2>3, PostType
  <2>5. txnStatus' \in [TxnKeys -> TxnStatus]
    BY <1>1 DEF CreditWallet, TypeOK, TxnStatus
  <2> QED
    BY <2>1, <2>2, <2>4, <2>5, ReplyType, DoneType DEF TypeOK
<1>2. CASE TransferWallet(h)
  <2> DEFINE r == req[h]
             U == {r.user, r.to}
             d == [u \in U |-> IF u = r.user THEN -r.amount ELSE r.amount]
             k == [u \in U |-> IF u = r.user THEN ReqKey(r.key)
                                             ELSE CreditKey(r.key)]
  <2>1. Commits(h, "transfer") /\ Post(h, d, k) /\ Reply(h) /\ UNCHANGED saga
    BY <1>2 DEF TransferWallet
  <2>2. pc[h] = "open" /\ r \in Requests /\ DOMAIN snap[h] = U
    BY <2>1, CommitFacts
  <2>3. d \in [DOMAIN snap[h] -> Int] /\ k \in [DOMAIN snap[h] -> TxnKeys]
    BY <2>2, RequestTypes, KeyTypes
  <2>4. wallet' \in [Users -> WalletRow] /\ ledger' \in [Users -> Seq(Entry)]
    BY <2>1, <2>2, <2>3, PostType
  <2>5. txnStatus' \in [TxnKeys -> TxnStatus]
    BY <1>2 DEF TransferWallet, TypeOK, TxnStatus
  <2> QED
    BY <2>1, <2>2, <2>4, <2>5, ReplyType, DoneType DEF TypeOK
<1>3. CASE DebitForSaga(h)
  <2> DEFINE r == req[h]
             d == [u \in {r.user} |-> -r.amount]
             k == [u \in {r.user} |-> ReqKey(r.key)]
  <2>1. Commits(h, "debit") /\ Post(h, d, k) /\ Reply(h)
    BY <1>3 DEF DebitForSaga
  <2>2. pc[h] = "open" /\ r \in Requests /\ DOMAIN snap[h] = {r.user}
    BY <2>1, CommitFacts
  <2>3. d \in [DOMAIN snap[h] -> Int] /\ k \in [DOMAIN snap[h] -> TxnKeys]
    BY <2>2, RequestTypes, KeyTypes
  <2>4. wallet' \in [Users -> WalletRow] /\ ledger' \in [Users -> Seq(Entry)]
    BY <2>1, <2>2, <2>3, PostType
  <2>5. txnStatus' \in [TxnKeys -> TxnStatus]
    BY <1>3 DEF DebitForSaga, TypeOK, TxnStatus
  <2>6. saga' \in [Sagas -> SagaRow]
    BY <1>3, <2>2, RequestTypes DEF DebitForSaga, TypeOK, SagaRow, SagaStatus
  <2> QED
    BY <2>1, <2>2, <2>4, <2>5, <2>6, ReplyType, DoneType DEF TypeOK
<1>4. CASE CompensateSaga(h)
  <2> DEFINE g == snapSaga[h]
             k == CompKey(req[h].saga)
             d == [u \in {g.user} |-> g.amount]
             kk == [u \in {g.user} |-> k]
  <2>1. Commits(h, "compensate") /\ Post(h, d, kk) /\ Reply(h)
    BY <1>4 DEF CompensateSaga
  <2>2. /\ pc[h] = "open" /\ req[h] \in Requests /\ g \in SagaRow
        /\ DOMAIN snap[h] = {g.user}
    BY <2>1, CommitFacts
  <2>3. d \in [DOMAIN snap[h] -> Int] /\ kk \in [DOMAIN snap[h] -> TxnKeys]
    BY <2>2, RequestTypes, KeyTypes DEF SagaRow
  <2>4. wallet' \in [Users -> WalletRow] /\ ledger' \in [Users -> Seq(Entry)]
    BY <2>1, <2>2, <2>3, PostType
  <2>5. txnStatus' \in [TxnKeys -> TxnStatus]
    BY <1>4 DEF CompensateSaga, TypeOK, TxnStatus
  <2>6. saga' \in [Sagas -> SagaRow]
    <3>1. saga' = [saga EXCEPT ![req[h].saga].status = "COMPENSATED"]
      BY <1>4 DEF CompensateSaga
    <3>2. "COMPENSATED" \in SagaStatus
      BY DEF SagaStatus
    <3> QED
      BY <2>2, <3>1, <3>2, RequestTypes, SagaMarkType
  <2> QED
    BY <2>1, <2>2, <2>4, <2>5, <2>6, ReplyType, DoneType DEF TypeOK
<1>5. CASE CompleteSaga(h)
  <2>1. Commits(h, "complete") /\ Reply(h) /\ UNCHANGED <<wallet, ledger>>
    BY <1>5 DEF CompleteSaga
  <2>2. pc[h] = "open" /\ req[h] \in Requests
    BY <2>1, CommitFacts
  <2>5. txnStatus' \in [TxnKeys -> TxnStatus]
    BY <1>5 DEF CompleteSaga, TypeOK, TxnStatus
  <2>6. saga' \in [Sagas -> SagaRow]
    <3>1. saga' = [saga EXCEPT ![req[h].saga].status = "COMPLETED"]
      BY <1>5 DEF CompleteSaga
    <3>2. "COMPLETED" \in SagaStatus
      BY DEF SagaStatus
    <3> QED
      BY <2>2, <3>1, <3>2, RequestTypes, SagaMarkType
  <2> QED
    BY <2>1, <2>2, <2>5, <2>6, ReplyType, DoneType DEF TypeOK
<1> QED
  BY <1>1, <1>2, <1>3, <1>4, <1>5 DEF Commit

LEMMA BeginType ==
  ASSUME TypeInv, NEW h \in Handlers, Begin(h)
  PROVE  TypeInv'
<1> DEFINE r == req[h]
<1>1. r \in Requests
  BY DEF Begin, TypeInv, TypeOK
<1>2. Touched(r) \subseteq Users
  BY <1>1, RequestTypes DEF Touched, TypeInv, TypeOK, SagaRow
<1>3. /\ pc' = [pc EXCEPT ![h] = "open"]
      /\ snap' = [snap EXCEPT ![h] = [u \in Touched(r) |-> wallet[u]]]
      /\ UNCHANGED <<db, req, acked>>
  BY DEF Begin
<1>4. /\ DOMAIN snap' = Handlers /\ snap'[h] = [u \in Touched(r) |-> wallet[u]]
      /\ \A g \in Handlers \ {h} : snap'[g] = snap[g]
  BY <1>3 DEF TypeInv, TypeOK
<1>5. \A u \in Touched(r) : snap'[h][u] \in WalletRow
  BY <1>2, <1>4 DEF TypeInv, TypeOK
<1>6. /\ snapSaga' \in [Handlers -> SagaRow]
      /\ r.op = "compensate" => snapSaga'[h] = saga[r.saga]
      /\ \A g \in Handlers \ {h} : snapSaga'[g] = snapSaga[g]
  BY <1>1, RequestTypes, NoSagaType DEF Begin, TypeInv, TypeOK, OnSaga
<1>7. TypeOK'
  <2>1. \A g \in Handlers : /\ DOMAIN snap'[g] \subseteq Users
                            /\ \A u \in DOMAIN snap'[g] : snap'[g][u] \in WalletRow
    BY <1>2, <1>4, <1>5 DEF TypeInv, TypeOK
  <2> QED
    BY <1>1, <1>3, <1>4, <1>6, <2>1 DEF TypeInv, TypeOK, db
<1>8. SnapDomain'
  <2>1. DOMAIN snap'[h] = Touched(r)
    BY <1>4
  <2>2. req' = req /\ pc'[h] = "open" /\ \A g \in Handlers \ {h} : pc'[g] = pc[g]
    BY <1>3 DEF TypeInv, TypeOK
  <2> QED
    BY <1>4, <1>6, <2>1, <2>2 DEF TypeInv, SnapDomain, Touched
<1> QED
  BY <1>7, <1>8 DEF TypeInv

LEMMA NextType == TypeInv /\ [Next]_vars => TypeInv'
<1> SUFFICES ASSUME TypeInv, [Next]_vars PROVE TypeInv'
  OBVIOUS
<1>1. ASSUME NEW u \in Users, CreateWallet(u) PROVE TypeInv'
  <2>1. wallet' = [wallet EXCEPT ![u].open = TRUE]
    BY <1>1 DEF CreateWallet
  <2>2. [wallet[u] EXCEPT !.open = TRUE] \in WalletRow
    <3>1. wallet[u] \in WalletRow
      BY DEF TypeInv, TypeOK
    <3> QED
      BY <3>1 DEF WalletRow
  <2>3. wallet' \in [Users -> WalletRow]
    BY <2>1, <2>2 DEF TypeInv, TypeOK
  <2> QED
    BY <1>1, <2>3 DEF CreateWallet, TypeInv, TypeOK, SnapDomain
<1>2. ASSUME NEW u \in Users, ToggleLock(u) PROVE TypeInv'
  <2>1. wallet' = [wallet EXCEPT ![u].locked = ~wallet[u].locked]
    BY <1>2 DEF ToggleLock
  <2>2. wallet[u] \in WalletRow /\ (~wallet[u].locked) \in BOOLEAN
    BY DEF TypeInv, TypeOK
  <2>3. [wallet[u] EXCEPT !.locked = ~wallet[u].locked] \in WalletRow
    BY <2>2 DEF WalletRow
  <2>4. wallet' \in [Users -> WalletRow]
    BY <2>1, <2>3 DEF TypeInv, TypeOK
  <2> QED
    BY <1>2, <2>4 DEF ToggleLock, TypeInv, TypeOK, SnapDomain
<1>3. ASSUME NEW h \in Handlers, NEW r \in Requests, Receive(h, r) PROVE TypeInv'
  BY <1>3 DEF Receive, TypeInv, TypeOK, SnapDomain, db
<1>4. ASSUME NEW h \in Handlers, NEW r \in Requests, ReceiveAgain(h, r)
      PROVE  TypeInv'
  BY <1>4 DEF ReceiveAgain, TypeInv, TypeOK, SnapDomain, db
<1>5. ASSUME NEW h \in Handlers, CompleteAgain(h) PROVE TypeInv'
  BY <1>5, DoneType, ReplyType DEF CompleteAgain, TypeInv, TypeOK, db
<1>6. ASSUME NEW h \in Handlers, Reject(h) \/ Conflict(h) \/ Fail(h) PROVE TypeInv'
  BY <1>6, DoneType DEF Reject, Conflict, Fail, TypeInv, TypeOK, db
<1>7. CASE UNCHANGED vars
  BY <1>7 DEF vars, TypeInv, TypeOK, SnapDomain
<1> QED
  BY <1>1, <1>2, <1>3, <1>4, <1>5, <1>6, <1>7, BeginType, CommitType
  DEF Next, Serve

(* Every reachable state is well typed, and every open transaction has     *)
(* read exactly the wallets it is about to write.                          *)
THEOREM TypeCorrect == Spec => []TypeOK
<1>1. Spec => []TypeInv
  BY InitType, NextType, PTL DEF Spec
<1>2. TypeInv => TypeOK
  BY DEF TypeInv
<1> QED
  BY <1>1, <1>2, PTL

-----------------------------------------------------------------------------
(* The balance that a commit writes was computed from a row read earlier.  *)
(* What makes it right is that the version determines the row: a snapshot  *)
(* is never ahead of the table, and where the versions agree so do the     *)
(* balances. The sufficiency test made at the read then still holds.       *)
SnapFresh ==
  \A h \in Handlers : pc[h] = "open" =>
    /\ \A u \in DOMAIN snap[h] :
         /\ snap[h][u].version <= wallet[u].version
         /\ snap[h][u].version = wallet[u].version =>
              snap[h][u].balance = wallet[u].balance
    /\ req[h].op \in {"transfer", "debit"} =>
         snap[h][req[h].user].balance >= req[h].amount
    /\ req[h].op \in OnSaga => snapSaga[h].amount > 0

SagaAmounts == \A s \in Sagas : saga[s].status # "none" => saga[s].amount > 0

ServesValid == \A h \in Handlers : pc[h] # "idle" => Valid(req[h])

MoneyInv ==
  /\ TypeInv
  /\ SnapFresh
  /\ SagaAmounts
  /\ ServesValid
  /\ NonNegativeBalance
  /\ LedgerReconciles

(* A history extended by an entry that starts at its balance reconciles.   *)
LEMMA ReconcilesAppend ==
  ASSUME NEW l \in Seq(Entry), NEW b \in Int, NEW e \in Entry,
         Reconciles(l, b), e.before = b, e.after = b + e.amount
  PROVE  Reconciles(Append(l, e), e.after)
<1> DEFINE m == Append(l, e)
<1>1. /\ m \in Seq(Entry) /\ Len(m) = Len(l) + 1 /\ Len(l) \in Nat
      /\ m[Len(l) + 1] = e
      /\ \A i \in 1..Len(l) : m[i] = l[i]
  OBVIOUS
<1>2. \A i \in 1..Len(l) + 1 : BalanceAt(m, i) = BalanceAt(l, i)
  BY <1>1 DEF BalanceAt
<1>3. BalanceAt(m, Len(m) + 1) = e.after
  BY <1>1 DEF BalanceAt
<1>4. ASSUME NEW i \in 1..Len(m)
      PROVE  m[i].before = BalanceAt(m, i) /\ m[i].after = m[i].before + m[i].amount
  <2>1. CASE i \in 1..Len(l)
    BY <1>1, <1>2, <2>1 DEF Reconciles
  <2>2. CASE i = Len(l) + 1
    BY <1>1, <1>2, <2>2 DEF Reconciles
  <2> QED
    BY <1>1, <2>1, <2>2
<1> QED
  BY <1>3, <1>4 DEF Reconciles

LEMMA InitMoney == Init => MoneyInv
<1> SUFFICES ASSUME Init PROVE MoneyInv
  OBVIOUS
<1>1. LedgerReconciles
  <2> SUFFICES ASSUME NEW u \in Users
               PROVE  Reconciles(ledger[u], wallet[u].balance)
    BY DEF LedgerReconciles
  <2>1. ledger[u] = << >> /\ wallet[u].balance = 0
    BY DEF Init
  <2>2. Len(<< >>) = 0 /\ 1..0 = {}
    OBVIOUS
  <2> QED
    BY <2>1, <2>2 DEF Reconciles, BalanceAt
<1>2. \A s \in Sagas : saga[s].status = "none"
  BY DEF Init, NoSaga
<1>3. \A h \in Handlers : pc[h] = "idle"
  BY DEF Init
<1>4. NonNegativeBalance
  <2> SUFFICES ASSUME NEW u \in Users PROVE wallet[u].balance >= 0
    BY DEF NonNegativeBalance
  <2>1. wallet[u].balance = 0
    BY DEF Init
  <2> QED
    BY <2>1
<1> QED
  BY <1>1, <1>2, <1>3, <1>4, InitType
  DEF MoneyInv, SnapFresh, SagaAmounts, ServesValid

(* A commit adds its amounts to the current balances, as if it had read    *)
(* them at that moment, moves the versions, and keeps histories reconciled. *)
LEMMA PostMoney ==
  ASSUME MoneyInv, NEW h \in Handlers, pc[h] = "open",
         NEW delta \in [DOMAIN snap[h] -> Int],
         NEW key \in [DOMAIN snap[h] -> TxnKeys],
         Post(h, delta, key), \A u \in DOMAIN snap[h] : RowCurrent(h, u)
  PROVE  /\ LedgerReconciles'
         /\ \A u \in Users \ DOMAIN snap[h] : wallet'[u] = wallet[u]
         /\ \A u \in DOMAIN snap[h] :
              /\ u \in Users /\ snap[h][u].balance = wallet[u].balance
              /\ wallet'[u].balance = wallet[u].balance + delta[u]
              /\ wallet'[u].version > wallet[u].version
<1> USE DEF MoneyInv
<1>1. \A u \in DOMAIN snap[h] : u \in Users /\ snap[h][u].balance = wallet[u].balance
  BY DEF SnapFresh, RowCurrent, TypeInv, TypeOK
<1>2. \A u \in Users \ DOMAIN snap[h] : wallet'[u] = wallet[u]
  BY PostRows
<1>3. \A u \in DOMAIN snap[h] :
        /\ wallet'[u].balance = wallet[u].balance + delta[u]
        /\ wallet'[u].version > wallet[u].version
  <2> SUFFICES ASSUME NEW u \in DOMAIN snap[h]
               PROVE  /\ wallet'[u].balance = wallet[u].balance + delta[u]
                      /\ wallet'[u].version > wallet[u].version
    OBVIOUS
  <2>1. /\ wallet'[u].balance = snap[h][u].balance + delta[u]
        /\ wallet'[u].version = wallet[u].version + 1
    BY <1>1, PostRows
  <2>2. wallet[u].version \in Nat
    BY <1>1 DEF TypeInv, TypeOK, WalletRow
  <2> QED
    BY <1>1, <2>1, <2>2
<1>4. ASSUME NEW u \in Users PROVE Reconciles(ledger'[u], wallet'[u].balance)
  <2>1. Reconciles(ledger[u], wallet[u].balance)
    BY DEF LedgerReconciles
  <2>2. CASE u \notin DOMAIN snap[h]
    BY <1>2, <2>1, <2>2 DEF Post
  <2>3. CASE u \in DOMAIN snap[h]
    <3> DEFINE e == [key |-> key[u], amount |-> delta[u],
                     before |-> snap[h][u].balance,
                     after |-> snap[h][u].balance + delta[u]]
    <3>1. ledger'[u] = Append(ledger[u], e)
      BY <2>3 DEF Post
    <3>2. /\ wallet[u].balance \in Int /\ delta[u] \in Int /\ key[u] \in TxnKeys
          /\ ledger[u] \in Seq(Entry)
      BY <2>3 DEF TypeInv, TypeOK, WalletRow
    <3>3. e \in Entry /\ e.before = wallet[u].balance
          /\ e.after = wallet[u].balance + e.amount /\ e.after = wallet'[u].balance
      BY <1>1, <1>3, <2>3, <3>2 DEF Entry
    <3> QED
      BY <2>1, <3>1, <3>2, <3>3, ReconcilesAppend
  <2> QED
    BY <2>2, <2>3
<1> QED
  BY <1>1, <1>2, <1>3, <1>4 DEF LedgerReconciles

(* When a handler is done, what its commit did to the versions keeps every *)
(* other handler's snapshot fresh.                                         *)
LEMMA DoneFresh ==
  ASSUME MoneyInv, NEW h \in Handlers, Done(h),
         \A u \in Users : \/ wallet'[u] = wallet[u]
                          \/ wallet'[u].version > wallet[u].version,
         wallet' \in [Users -> WalletRow]
  PROVE  SnapFresh' /\ ServesValid'
<1> USE DEF MoneyInv
<1>1. \A g \in Handlers \ {h} : /\ pc'[g] = pc[g] /\ req'[g] = req[g]
                                /\ snap'[g] = snap[g] /\ snapSaga'[g] = snapSaga[g]
  BY DEF Done, TypeInv, TypeOK
<1>2. pc'[h] = "idle"
  BY DEF Done, TypeInv, TypeOK
<1>3. ASSUME NEW g \in Handlers, pc'[g] = "open", NEW u \in DOMAIN snap'[g]
      PROVE  /\ snap'[g][u].version <= wallet'[u].version
             /\ snap'[g][u].version = wallet'[u].version =>
                  snap'[g][u].balance = wallet'[u].balance
  <2>1. g # h /\ u \in Users /\ pc[g] = "open" /\ snap'[g] = snap[g]
    BY <1>1, <1>2, <1>3 DEF TypeInv, TypeOK
  <2>2. /\ snap[g][u].version \in Nat /\ wallet[u].version \in Nat
        /\ wallet'[u].version \in Nat
    BY <1>3, <2>1 DEF TypeInv, TypeOK, WalletRow
  <2>3. /\ snap[g][u].version <= wallet[u].version
        /\ snap[g][u].version = wallet[u].version =>
             snap[g][u].balance = wallet[u].balance
    BY <1>3, <2>1 DEF SnapFresh
  <2> QED
    BY <2>1, <2>2, <2>3
<1>4. ServesValid'
  BY <1>1, <1>2 DEF ServesValid, Valid
<1> QED
  BY <1>1, <1>2, <1>3, <1>4 DEF SnapFresh

(* A row's balance is a number, and not a negative one.                    *)
LEMMA BalanceFacts ==
  ASSUME MoneyInv, NEW u \in Users
  PROVE  wallet[u].balance \in Int /\ wallet[u].balance >= 0
BY DEF MoneyInv, NonNegativeBalance, TypeInv, TypeOK, WalletRow

(* A commit keeps MoneyInv: one step per operation.                        *)
LEMMA CommitMoney ==
  ASSUME MoneyInv, NEW h \in Handlers, Commit(h)
  PROVE  MoneyInv'
<1>0. TypeInv /\ TypeInv' /\ wallet' \in [Users -> WalletRow]
  BY CommitType DEF MoneyInv, TypeInv, TypeOK
<1>1. CASE CreditWallet(h)
  <2> DEFINE r == req[h]
             d == [u \in {r.user} |-> r.amount]
             k == [u \in {r.user} |-> ReqKey(r.key)]
  <2>1. Commits(h, "credit") /\ Post(h, d, k) /\ Reply(h) /\ UNCHANGED saga
    BY <1>1 DEF CreditWallet
  <2>2. /\ pc[h] = "open" /\ r \in Requests /\ r.op = "credit"
        /\ DOMAIN snap[h] = {r.user}
        /\ \A u \in DOMAIN snap[h] : RowCurrent(h, u)
    BY <1>0, <2>1, CommitFacts
  <2>3. d \in [DOMAIN snap[h] -> Int] /\ k \in [DOMAIN snap[h] -> TxnKeys]
    BY <2>2, RequestTypes, KeyTypes
  <2>4. /\ LedgerReconciles'
        /\ \A u \in Users \ {r.user} : wallet'[u] = wallet[u]
        /\ wallet'[r.user].balance = wallet[r.user].balance + r.amount
        /\ wallet'[r.user].version > wallet[r.user].version
    <3>1. d[r.user] = r.amount
      OBVIOUS
    <3> HIDE DEF d, k
    <3>2. /\ LedgerReconciles'
          /\ \A u \in Users \ DOMAIN snap[h] : wallet'[u] = wallet[u]
          /\ \A u \in DOMAIN snap[h] :
               /\ u \in Users /\ snap[h][u].balance = wallet[u].balance
               /\ wallet'[u].balance = wallet[u].balance + d[u]
               /\ wallet'[u].version > wallet[u].version
      BY <2>1, <2>2, <2>3, PostMoney
    <3> QED
      BY <2>2, <3>1, <3>2
  <2>5. r.amount > 0
    BY <2>2 DEF MoneyInv, ServesValid, Valid, Keyed
  <2>6. NonNegativeBalance'
    BY <2>2, <2>4, <2>5, RequestTypes, BalanceFacts DEF NonNegativeBalance
  <2>7. SnapFresh' /\ ServesValid'
    BY <1>0, <2>1, <2>2, <2>4, DoneFresh, ReplyType
  <2> QED
    BY <1>0, <2>1, <2>4, <2>6, <2>7 DEF MoneyInv, SagaAmounts
<1>2. CASE TransferWallet(h)
  <2> DEFINE r == req[h]
             U == {r.user, r.to}
             d == [u \in U |-> IF u = r.user THEN -r.amount ELSE r.amount]
             k == [u \in U |-> IF u = r.user THEN ReqKey(r.key)
                                             ELSE CreditKey(r.key)]
  <2>1. Commits(h, "transfer") /\ Post(h, d, k) /\ Reply(h) /\ UNCHANGED saga
    BY <1>2 DEF TransferWallet
  <2>2. /\ pc[h] = "open" /\ r \in Requests /\ r.op = "transfer"
        /\ DOMAIN snap[h] = U
        /\ \A u \in DOMAIN snap[h] : RowCurrent(h, u)
    BY <1>0, <2>1, CommitFacts
  <2>3. d \in [DOMAIN snap[h] -> Int] /\ k \in [DOMAIN snap[h] -> TxnKeys]
    BY <2>2, RequestTypes, KeyTypes
  <2>4. r.amount > 0 /\ r.user # r.to
    BY <2>2 DEF MoneyInv, ServesValid, Valid, Keyed
  <2>5. /\ LedgerReconciles'
        /\ \A u \in Users \ U : wallet'[u] = wallet[u]
        /\ snap[h][r.user].balance = wallet[r.user].balance
        /\ wallet'[r.user].balance = wallet[r.user].balance + (-r.amount)
        /\ wallet'[r.to].balance = wallet[r.to].balance + r.amount
        /\ \A u \in U : wallet'[u].version > wallet[u].version
    <3>1. /\ r.user \in U /\ r.to \in U
          /\ d[r.user] = -r.amount /\ d[r.to] = r.amount
      BY <2>4
    <3> HIDE DEF d, k, U
    <3>2. /\ LedgerReconciles'
          /\ \A u \in Users \ DOMAIN snap[h] : wallet'[u] = wallet[u]
          /\ \A u \in DOMAIN snap[h] :
               /\ u \in Users /\ snap[h][u].balance = wallet[u].balance
               /\ wallet'[u].balance = wallet[u].balance + d[u]
               /\ wallet'[u].version > wallet[u].version
      BY <2>1, <2>2, <2>3, PostMoney
    <3> QED
      BY <2>2, <3>1, <3>2
  <2>6. wallet[r.user].balance >= r.amount
    BY <2>2, <2>5 DEF MoneyInv, SnapFresh
  <2>7. NonNegativeBalance'
    BY <2>2, <2>4, <2>5, <2>6, RequestTypes, BalanceFacts DEF NonNegativeBalance
  <2>8. SnapFresh' /\ ServesValid'
    BY <1>0, <2>1, <2>2, <2>5, DoneFresh, ReplyType
  <2> QED
    BY <1>0, <2>1, <2>5, <2>7, <2>8 DEF MoneyInv, SagaAmounts
<1>3. CASE DebitForSaga(h)
  <2> DEFINE r == req[h]
             d == [u \in {r.user} |-> -r.amount]
             k == [u \in {r.user} |-> ReqKey(r.key)]
  <2>1. Commits(h, "debit") /\ Post(h, d, k) /\ Reply(h)
    BY <1>3 DEF DebitForSaga
  <2>2. /\ pc[h] = "open" /\ r \in Requests /\ r.op = "debit"
        /\ DOMAIN snap[h] = {r.user}
        /\ \A u \in DOMAIN snap[h] : RowCurrent(h, u)
    BY <1>0, <2>1, CommitFacts
  <2>3. d \in [DOMAIN snap[h] -> Int] /\ k \in [DOMAIN snap[h] -> TxnKeys]
    BY <2>2, RequestTypes, KeyTypes
  <2>4. /\ LedgerReconciles'
        /\ \A u \in Users \ {r.user} : wallet'[u] = wallet[u]
        /\ snap[h][r.user].balance = wallet[r.user].balance
        /\ wallet'[r.user].balance = wallet[r.user].balance + (-r.amount)
        /\ wallet'[r.user].version > wallet[r.user].version
    <3>1. d[r.user] = -r.amount
      OBVIOUS
    <3> HIDE DEF d, k
    <3>2. /\ LedgerReconciles'
          /\ \A u \in Users \ DOMAIN snap[h] : wallet'[u] = wallet[u]
          /\ \A u \in DOMAIN snap[h] :
               /\ u \in Users /\ snap[h][u].balance = wallet[u].balance
               /\ wallet'[u].balance = wallet[u].balance + d[u]
               /\ wallet'[u].version > wallet[u].version
      BY <2>1, <2>2, <2>3, PostMoney
    <3> QED
      BY <2>2, <3>1, <3>2
  <2>5. r.amount > 0
    BY <2>2 DEF MoneyInv, ServesValid, Valid, Keyed
  <2>6. wallet[r.user].balance >= r.amount
    BY <2>2, <2>4 DEF MoneyInv, SnapFresh
  <2>7. NonNegativeBalance'
    BY <2>2, <2>4, <2>6, RequestTypes, BalanceFacts DEF NonNegativeBalance
  <2>8. SnapFresh' /\ ServesValid'
    BY <1>0, <2>1, <2>2, <2>4, DoneFresh, ReplyType
  <2>9. SagaAmounts'
    BY <1>3, <2>2, <2>5, RequestTypes DEF DebitForSaga, MoneyInv, SagaAmounts, TypeInv, TypeOK
  <2> QED
    BY <1>0, <2>4, <2>7, <2>8, <2>9 DEF MoneyInv
<1>4. CASE CompensateSaga(h)
  <2> DEFINE g == snapSaga[h]
             k == CompKey(req[h].saga)
             d == [u \in {g.user} |-> g.amount]
             kk == [u \in {g.user} |-> k]
  <2>1. Commits(h, "compensate") /\ Post(h, d, kk) /\ Reply(h)
    BY <1>4 DEF CompensateSaga
  <2>2. /\ pc[h] = "open" /\ req[h] \in Requests /\ req[h].op = "compensate"
        /\ g \in SagaRow /\ DOMAIN snap[h] = {g.user}
        /\ \A u \in DOMAIN snap[h] : RowCurrent(h, u)
        /\ saga[req[h].saga] = g
    BY <1>0, <2>1, CommitFacts DEF SagaCurrent, OnSaga
  <2>3. d \in [DOMAIN snap[h] -> Int] /\ kk \in [DOMAIN snap[h] -> TxnKeys]
    BY <2>2, RequestTypes, KeyTypes DEF SagaRow
  <2>4. /\ LedgerReconciles' /\ g.user \in Users
        /\ \A u \in Users \ {g.user} : wallet'[u] = wallet[u]
        /\ wallet'[g.user].balance = wallet[g.user].balance + g.amount
        /\ wallet'[g.user].version > wallet[g.user].version
    <3>1. d[g.user] = g.amount
      OBVIOUS
    <3> HIDE DEF d, kk
    <3>2. /\ LedgerReconciles'
          /\ \A u \in Users \ DOMAIN snap[h] : wallet'[u] = wallet[u]
          /\ \A u \in DOMAIN snap[h] :
               /\ u \in Users /\ snap[h][u].balance = wallet[u].balance
               /\ wallet'[u].balance = wallet[u].balance + d[u]
               /\ wallet'[u].version > wallet[u].version
      BY <2>1, <2>2, <2>3, PostMoney
    <3> QED
      BY <2>2, <3>1, <3>2
  <2>5. g.amount > 0 /\ g.amount \in Int
    BY <2>2 DEF MoneyInv, SnapFresh, OnSaga, SagaRow
  <2>6. NonNegativeBalance'
    BY <2>4, <2>5, BalanceFacts DEF NonNegativeBalance
  <2>7. SnapFresh' /\ ServesValid'
    BY <1>0, <2>1, <2>2, <2>4, DoneFresh, ReplyType
  <2>8. SagaAmounts'
    <3>1. saga' = [saga EXCEPT ![req[h].saga].status = "COMPENSATED"]
      BY <1>4 DEF CompensateSaga
    <3>2. \A s \in Sagas : saga[s] \in SagaRow /\ saga'[s].amount = saga[s].amount
      BY <1>0, <3>1 DEF TypeInv, TypeOK, SagaRow
    <3>3. \A s \in Sagas \ {req[h].saga} : saga'[s] = saga[s]
      BY <1>0, <3>1 DEF TypeInv, TypeOK
    <3> QED
      BY <2>2, <2>5, <3>2, <3>3 DEF MoneyInv, SagaAmounts
  <2> QED
    BY <1>0, <2>4, <2>6, <2>7, <2>8 DEF MoneyInv
<1>5. CASE CompleteSaga(h)
  <2>1. /\ Commits(h, "complete") /\ Reply(h) /\ UNCHANGED <<wallet, ledger>>
        /\ saga' = [saga EXCEPT ![req[h].saga].status = "COMPLETED"]
    BY <1>5 DEF CompleteSaga
  <2>2. /\ pc[h] = "open" /\ req[h] \in Requests /\ req[h].op = "complete"
        /\ saga[req[h].saga] = snapSaga[h]
    BY <1>0, <2>1, CommitFacts DEF SagaCurrent, OnSaga
  <2>3. snapSaga[h].amount > 0
    BY <2>2 DEF MoneyInv, SnapFresh, OnSaga
  <2>4. SagaAmounts'
    <3>1. \A s \in Sagas : saga[s] \in SagaRow /\ saga'[s].amount = saga[s].amount
      BY <1>0, <2>1 DEF TypeInv, TypeOK, SagaRow
    <3>2. \A s \in Sagas \ {req[h].saga} : saga'[s] = saga[s]
      BY <1>0, <2>1 DEF TypeInv, TypeOK
    <3> QED
      BY <2>2, <2>3, <3>1, <3>2 DEF MoneyInv, SagaAmounts
  <2>5. SnapFresh' /\ ServesValid'
    BY <1>0, <2>1, <2>2, DoneFresh, ReplyType
  <2> QED
    BY <1>0, <2>1, <2>4, <2>5 DEF MoneyInv, NonNegativeBalance, LedgerReconciles
<1> QED
  BY <1>1, <1>2, <1>3, <1>4, <1>5 DEF Commit

(* The read that opens a transaction takes fresh rows, and its tests hold. *)
LEMMA BeginMoney ==
  ASSUME MoneyInv, NEW h \in Handlers, Begin(h)
  PROVE  MoneyInv'
<1> DEFINE r == req[h]
<1>1. TypeInv /\ TypeInv' /\ SnapFresh /\ SagaAmounts /\ ServesValid
  BY BeginType DEF MoneyInv
<1>2. /\ r \in Requests /\ pc[h] = "received" /\ Admits(r)
      /\ pc' = [pc EXCEPT ![h] = "open"] /\ req' = req
      /\ wallet' = wallet /\ ledger' = ledger /\ saga' = saga
  BY <1>1 DEF Begin, db, TypeInv, TypeOK
<1>3. /\ snap'[h] = [u \in Touched(r) |-> wallet[u]]
      /\ r.op \in OnSaga => snapSaga'[h] = saga[r.saga]
      /\ \A g \in Handlers \ {h} : /\ snap'[g] = snap[g] /\ pc'[g] = pc[g]
                                   /\ snapSaga'[g] = snapSaga[g]
  BY <1>1 DEF Begin, TypeInv, TypeOK
<1>4. \A u \in DOMAIN snap'[h] : snap'[h][u] = wallet[u] /\ wallet[u].version \in Nat
  <2>1. Touched(r) \subseteq Users
    BY <1>1, <1>2, RequestTypes DEF Touched, TypeInv, TypeOK, SagaRow
  <2> QED
    BY <1>1, <1>3, <2>1 DEF TypeInv, TypeOK, WalletRow
<1>5. r.op \in {"transfer", "debit"} => snap'[h][r.user].balance >= r.amount
  <2> SUFFICES ASSUME r.op \in {"transfer", "debit"}
               PROVE  snap'[h][r.user].balance >= r.amount
    OBVIOUS
  <2>1. r.user \in Touched(r)
    BY DEF Touched
  <2>2. wallet[r.user].balance >= r.amount
    BY <1>2 DEF Admits, HasSufficientBalance
  <2> QED
    BY <1>3, <2>1, <2>2
<1>6. r.op \in OnSaga => snapSaga'[h].amount > 0
  BY <1>1, <1>2, <1>3, RequestTypes DEF Admits, SagaAmounts
<1>7. SnapFresh'
  <2> SUFFICES ASSUME NEW g \in Handlers, pc'[g] = "open"
               PROVE  /\ \A u \in DOMAIN snap'[g] :
                           /\ snap'[g][u].version <= wallet[u].version
                           /\ snap'[g][u].version = wallet[u].version =>
                                snap'[g][u].balance = wallet[u].balance
                      /\ req[g].op \in {"transfer", "debit"} =>
                           snap'[g][req[g].user].balance >= req[g].amount
                      /\ req[g].op \in OnSaga => snapSaga'[g].amount > 0
    BY <1>2 DEF SnapFresh
  <2>1. CASE g = h
    BY <1>4, <1>5, <1>6, <2>1
  <2>2. CASE g # h
    BY <1>1, <1>3, <2>2 DEF SnapFresh
  <2> QED
    BY <2>1, <2>2
<1>8. ServesValid'
  BY <1>1, <1>2 DEF ServesValid, Valid, TypeInv, TypeOK
<1> QED
  BY <1>1, <1>2, <1>7, <1>8
  DEF MoneyInv, NonNegativeBalance, LedgerReconciles, SagaAmounts

(* Opening a wallet and changing its lock leave balance and version alone. *)
LEMMA FlagMoney ==
  ASSUME MoneyInv, TypeInv',
         \A u \in Users : /\ wallet'[u].balance = wallet[u].balance
                          /\ wallet'[u].version = wallet[u].version,
         UNCHANGED <<ledger, saga, pc, req, snap, snapSaga>>
  PROVE  MoneyInv'
<1>1. SnapFresh'
  BY DEF MoneyInv, SnapFresh, TypeInv, TypeOK
<1> QED
  BY <1>1
  DEF MoneyInv, NonNegativeBalance, LedgerReconciles, SagaAmounts, ServesValid, Valid

LEMMA NextMoney == MoneyInv /\ [Next]_vars => MoneyInv'
<1> SUFFICES ASSUME MoneyInv, [Next]_vars PROVE MoneyInv'
  OBVIOUS
<1>0. TypeInv /\ TypeInv' /\ wallet' \in [Users -> WalletRow]
  BY NextType DEF MoneyInv, TypeInv, TypeOK
<1>1. ASSUME NEW u \in Users, CreateWallet(u) PROVE MoneyInv'
  <2>1. wallet' = [wallet EXCEPT ![u].open = TRUE]
    BY <1>1 DEF CreateWallet
  <2>2. \A v \in Users : /\ wallet'[v].balance = wallet[v].balance
                         /\ wallet'[v].version = wallet[v].version
    BY <1>0, <2>1 DEF TypeInv, TypeOK, WalletRow
  <2> QED
    BY <1>0, <1>1, <2>2, FlagMoney DEF CreateWallet
<1>2. ASSUME NEW u \in Users, ToggleLock(u) PROVE MoneyInv'
  <2>1. wallet' = [wallet EXCEPT ![u].locked = ~wallet[u].locked]
    BY <1>2 DEF ToggleLock
  <2>2. \A v \in Users : /\ wallet'[v].balance = wallet[v].balance
                         /\ wallet'[v].version = wallet[v].version
    BY <1>0, <2>1 DEF TypeInv, TypeOK, WalletRow
  <2> QED
    BY <1>0, <1>2, <2>2, FlagMoney DEF ToggleLock
<1>3. ASSUME NEW h \in Handlers, NEW r \in Requests, Receive(h, r) PROVE MoneyInv'
  <2>1. /\ UNCHANGED <<wallet, ledger, saga, snap, snapSaga>> /\ Valid(r)
        /\ pc' = [pc EXCEPT ![h] = "received"] /\ req' = [req EXCEPT ![h] = r]
    BY <1>3 DEF Receive, db
  <2>2. SnapFresh'
    BY <1>0, <2>1 DEF MoneyInv, SnapFresh, TypeInv, TypeOK
  <2>3. ServesValid'
    BY <1>0, <2>1 DEF MoneyInv, ServesValid, Valid, TypeInv, TypeOK
  <2> QED
    BY <1>0, <2>1, <2>2, <2>3
    DEF MoneyInv, NonNegativeBalance, LedgerReconciles, SagaAmounts
<1>4. ASSUME NEW h \in Handlers, NEW r \in Requests, ReceiveAgain(h, r)
      PROVE  MoneyInv'
  BY <1>0, <1>4, FlagMoney DEF ReceiveAgain, db
<1>5. ASSUME NEW h \in Handlers, Done(h), UNCHANGED db PROVE MoneyInv'
  <2>1. SnapFresh' /\ ServesValid'
    BY <1>0, <1>5, DoneFresh DEF db
  <2> QED
    BY <1>0, <1>5, <2>1
    DEF MoneyInv, NonNegativeBalance, LedgerReconciles, SagaAmounts, db
<1>6. ASSUME NEW h \in Handlers,
             CompleteAgain(h) \/ Reject(h) \/ Conflict(h) \/ Fail(h)
      PROVE  MoneyInv'
  BY <1>5, <1>6 DEF CompleteAgain, Reject, Conflict, Fail, Reply
<1>7. CASE UNCHANGED vars
  BY <1>0, <1>7, FlagMoney DEF vars
<1> QED
  BY <1>1, <1>2, <1>3, <1>4, <1>6, <1>7, BeginMoney, CommitMoney DEF Next, Serve

LEMMA MoneyInvariant == Spec => []MoneyInv
BY InitMoney, NextMoney, PTL DEF Spec

(* No wallet is ever overdrawn, for any number of concurrent handlers.     *)
THEOREM NeverOverdrawn == Spec => []NonNegativeBalance
<1>1. MoneyInv => NonNegativeBalance
  BY DEF MoneyInv
<1> QED
  BY <1>1, MoneyInvariant, PTL

(* No update is ever lost: every wallet's history adds up to its balance.  *)
THEOREM HistoryAddsUp == Spec => []LedgerReconciles
<1>1. MoneyInv => LedgerReconciles
  BY DEF MoneyInv
<1> QED
  BY <1>1, MoneyInvariant, PTL
-----------------------------------------------------------------------------
(***************************************************************************)
(* The keys, the sagas, what answers mean, what never changes again, and   *)
(* that Wallet implements Bank.                                            *)
(***************************************************************************)
(* An entry of a history, with the history given.                          *)
In(l, k, a) == \E i \in 1..Len(l) : l[i].key = k /\ l[i].amount = a

(* A key is in wallet_transactions (txnStatus) if a history has it. So a   *)
(* commit, which finds its keys free, repeats none.                        *)
KeysMarked ==
  \A u \in Users : \A i \in 1..Len(ledger[u]) :
    txnStatus[ledger[u][i].key] # "none"

OnceInv == TypeInv /\ KeysMarked /\ KeyRecordedOnce

(* What an open transaction has read: wallets that may be used, which stay *)
(* open, and a saga that was pending.                                      *)
SnapSound ==
  \A h \in Handlers : pc[h] = "open" =>
    /\ req[h].op \in Keyed => \A u \in DOMAIN snap[h] : ~snap[h][u].locked
    /\ \A u \in DOMAIN snap[h] : wallet[u].open
    /\ req[h].op \in OnSaga => snapSaga[h].status = "PENDING"

(* A saga stems from a debit request, and no two share a debit.            *)
SagaSource ==
  \A s \in Sagas : saga[s].status # "none" =>
    \E q \in Requests :
      /\ q.op = "debit" /\ q.saga = s /\ q.user = saga[s].user
      /\ q.amount = saga[s].amount /\ q.key = saga[s].key

SagaKeysDiffer ==
  \A s, t \in Sagas :
    saga[s].status # "none" /\ saga[t].status # "none" /\ saga[s].key = saga[t].key
      => s = t

(* A key that is taken was taken by the one request that carries it.       *)
MarkedHasEffect ==
  \A r \in Requests :
    r.op \in Keyed /\ txnStatus[ReqKey(r.key)] # "none" => Effect(r)

(* The wallet of a saga was there for its debit.                           *)
SagaWalletOpen ==
  \A s \in Sagas : saga[s].status # "none" => wallet[saga[s].user].open

LedgerInv ==
  /\ OnceInv
  /\ SnapSound
  /\ SagaSource
  /\ SagaKeysDiffer
  /\ SagaWalletOpen
  /\ SagaAgrees
  /\ MarkedHasEffect
  /\ AckedHasEffect

(* What every step does to the tables of transactions: no entry changes,   *)
(* and no key is freed.                                                    *)
Grows ==
  \A u \in Users : \A i \in 1..Len(ledger[u]) :
    i \in 1..Len(ledger'[u]) /\ ledger'[u][i] = ledger[u][i]

KeysKept == \A k \in TxnKeys : txnStatus[k] # "none" => txnStatus'[k] # "none"

LEMMA InGrows ==
  ASSUME Grows, NEW u \in Users, NEW k, NEW a, In(ledger[u], k, a)
  PROVE  In(ledger'[u], k, a)
BY DEF Grows, In

LEMMA EntryKeys ==
  ASSUME TypeInv, NEW u \in Users, NEW i \in 1..Len(ledger[u])
  PROVE  ledger[u][i].key \in TxnKeys
<1>1. ledger[u] \in Seq(Entry)
  BY DEF TypeInv, TypeOK
<1>2. ledger[u][i] \in Entry
  BY <1>1
<1> QED
  BY <1>2 DEF Entry

(* Post appends one entry to the history of every wallet it has read, and  *)
(* none to another's.                                                      *)
LEMMA PostEntries ==
  ASSUME TypeInv, NEW h \in Handlers,
         NEW delta \in [DOMAIN snap[h] -> Int],
         NEW key \in [DOMAIN snap[h] -> TxnKeys],
         Post(h, delta, key), NEW u \in Users
  PROVE  /\ Len(ledger[u]) \in Nat
         /\ u \notin DOMAIN snap[h] => ledger'[u] = ledger[u]
         /\ u \in DOMAIN snap[h] =>
              /\ Len(ledger'[u]) = Len(ledger[u]) + 1
              /\ \A i \in 1..Len(ledger[u]) : ledger'[u][i] = ledger[u][i]
              /\ ledger'[u][Len(ledger[u]) + 1].key = key[u]
              /\ ledger'[u][Len(ledger[u]) + 1].amount = delta[u]
<1> DEFINE e == [key |-> key[u], amount |-> delta[u],
                 before |-> snap[h][u].balance,
                 after |-> snap[h][u].balance + delta[u]]
<1>1. ledger[u] \in Seq(Entry)
  BY DEF TypeInv, TypeOK
<1>2. u \notin DOMAIN snap[h] => ledger'[u] = ledger[u]
  BY DEF Post
<1>3. u \in DOMAIN snap[h] => ledger'[u] = Append(ledger[u], e)
  BY DEF Post
<1>4. /\ Len(ledger[u]) \in Nat /\ Len(Append(ledger[u], e)) = Len(ledger[u]) + 1
      /\ \A i \in 1..Len(ledger[u]) : Append(ledger[u], e)[i] = ledger[u][i]
      /\ Append(ledger[u], e)[Len(ledger[u]) + 1] = e
  BY <1>1
<1> QED
  BY <1>2, <1>3, <1>4

(* A commit whose keys are free, and differ from wallet to wallet, labels  *)
(* no two entries alike, and leaves its entries in the histories.          *)
LEMMA PostOnce ==
  ASSUME OnceInv, NEW h \in Handlers,
         NEW delta \in [DOMAIN snap[h] -> Int],
         NEW key \in [DOMAIN snap[h] -> TxnKeys],
         Post(h, delta, key), KeysKept,
         \A u \in DOMAIN snap[h] : /\ txnStatus[key[u]] = "none"
                                   /\ txnStatus'[key[u]] # "none",
         \A u, v \in DOMAIN snap[h] : key[u] = key[v] => u = v
  PROVE  /\ Grows /\ KeysMarked' /\ KeyRecordedOnce'
         /\ \A u \in DOMAIN snap[h] : In(ledger'[u], key[u], delta[u])
         /\ \A u \in Users : \A i \in 1..Len(ledger'[u]) :
              \/ i \in 1..Len(ledger[u]) /\ ledger'[u][i] = ledger[u][i]
              \/ u \in DOMAIN snap[h] /\ ledger'[u][i].key = key[u]
<1>a. TypeInv
  BY DEF OnceInv
<1>0. ASSUME NEW u \in Users
      PROVE  /\ Len(ledger[u]) \in Nat
             /\ u \notin DOMAIN snap[h] => ledger'[u] = ledger[u]
             /\ u \in DOMAIN snap[h] =>
                  /\ Len(ledger'[u]) = Len(ledger[u]) + 1
                  /\ \A i \in 1..Len(ledger[u]) : ledger'[u][i] = ledger[u][i]
                  /\ ledger'[u][Len(ledger[u]) + 1].key = key[u]
                  /\ ledger'[u][Len(ledger[u]) + 1].amount = delta[u]
  BY <1>a, PostEntries
<1> DEFINE D == DOMAIN snap[h]
           new(u, i) == u \in D /\ i = Len(ledger[u]) + 1
<1> USE DEF OnceInv
<1>1. D \subseteq Users
  BY DEF TypeInv, TypeOK
<1>2. \A u \in Users :
        /\ Len(ledger[u]) \in Nat
        /\ Len(ledger'[u]) = IF u \in D THEN Len(ledger[u]) + 1 ELSE Len(ledger[u])
        /\ \A i \in 1..Len(ledger[u]) : ledger'[u][i] = ledger[u][i]
        /\ u \in D => /\ ledger'[u][Len(ledger[u]) + 1].key = key[u]
                      /\ ledger'[u][Len(ledger[u]) + 1].amount = delta[u]
  <2> TAKE u \in Users
  <2>1. /\ Len(ledger[u]) \in Nat
        /\ u \notin D => ledger'[u] = ledger[u]
        /\ u \in D =>
             /\ Len(ledger'[u]) = Len(ledger[u]) + 1
             /\ \A i \in 1..Len(ledger[u]) : ledger'[u][i] = ledger[u][i]
             /\ ledger'[u][Len(ledger[u]) + 1].key = key[u]
             /\ ledger'[u][Len(ledger[u]) + 1].amount = delta[u]
    BY <1>0
  <2> HIDE DEF D
  <2> QED
    BY <2>1
<1>3. Grows
  BY <1>2 DEF Grows
<1>4. ASSUME NEW u \in Users, NEW i \in 1..Len(ledger'[u])
      PROVE  \/ i \in 1..Len(ledger[u]) /\ ledger'[u][i] = ledger[u][i]
             \/ new(u, i) /\ ledger'[u][i].key = key[u]
  <2>1. i \in 1..Len(ledger[u]) \/ new(u, i)
    BY <1>2
  <2> QED
    BY <1>2, <2>1
<1>5. \A u \in Users : \A i \in 1..Len(ledger[u]) :
        ledger[u][i].key \in TxnKeys /\ txnStatus[ledger[u][i].key] # "none"
  BY EntryKeys DEF KeysMarked
<1>6. KeysMarked'
  BY <1>4, <1>5 DEF KeysMarked, KeysKept
<1>7. KeyRecordedOnce'
  <2> SUFFICES ASSUME NEW u \in Users, NEW v \in Users,
                      NEW i \in 1..Len(ledger'[u]), NEW j \in 1..Len(ledger'[v]),
                      ledger'[u][i].key = ledger'[v][j].key
               PROVE  u = v /\ i = j
    BY DEF KeyRecordedOnce
  <2>1. CASE i \in 1..Len(ledger[u]) /\ j \in 1..Len(ledger[v])
    <3>1. ledger'[u][i] = ledger[u][i] /\ ledger'[v][j] = ledger[v][j]
      BY <1>2, <2>1
    <3>2. ledger[u][i].key = ledger[v][j].key
      BY <3>1
    <3>3. KeyRecordedOnce
      OBVIOUS
    <3> QED
      BY <2>1, <3>2, <3>3 DEF KeyRecordedOnce
  <2>2. CASE new(u, i) /\ new(v, j)
    BY <1>2, <2>2
  <2>3. CASE i \in 1..Len(ledger[u]) /\ new(v, j)
    <3>1. /\ ledger'[u][i].key = ledger[u][i].key /\ ledger'[v][j].key = key[v]
          /\ txnStatus[key[v]] = "none"
      BY <1>2, <2>3
    <3> QED
      BY <1>5, <2>3, <3>1
  <2>4. CASE new(u, i) /\ j \in 1..Len(ledger[v])
    <3>1. /\ ledger'[v][j].key = ledger[v][j].key /\ ledger'[u][i].key = key[u]
          /\ txnStatus[key[u]] = "none"
      BY <1>2, <2>4
    <3> QED
      BY <1>5, <2>4, <3>1
  <2> QED
    BY <1>4, <2>1, <2>2, <2>3, <2>4
<1>8. ASSUME NEW u \in D PROVE In(ledger'[u], key[u], delta[u])
  <2>1. Len(ledger[u]) + 1 \in 1..Len(ledger'[u])
    BY <1>1, <1>2
  <2> QED
    BY <1>1, <1>2, <2>1 DEF In
<1> QED
  BY <1>3, <1>4, <1>6, <1>7, <1>8

-----------------------------------------------------------------------------
LEMMA KeysDiffer ==
  /\ \A x, y : /\ ReqKey(x) # CreditKey(y)
               /\ ReqKey(x) = ReqKey(y) => x = y
  /\ \A x, s : CompKey(s) # ReqKey(x) /\ CompKey(s) # CreditKey(x)
  /\ \A s, t : CompKey(s) = CompKey(t) => s = t
BY DEF ReqKey, CreditKey, CompKey

(* SagaAgrees and Effect, with the rows they are about given: g is the row *)
(* of saga s, G the table of the sagas, T and L those of transactions.     *)
Story(g, s, T, L) ==
  /\ g.status # "none" => In(L[g.user], ReqKey(g.key), -g.amount)
  /\ g.status = "PENDING" => T[ReqKey(g.key)] = "PENDING"
  /\ g.status = "COMPLETED" => T[ReqKey(g.key)] = "COMPLETED"
  /\ g.status = "COMPENSATED" => /\ T[ReqKey(g.key)] = "REVERSED"
                                 /\ In(L[g.user], CompKey(s), g.amount)
  /\ g.status # "COMPENSATED" =>
       \A u \in Users : \A i \in 1..Len(L[u]) : L[u][i].key # CompKey(s)

Did(r, G, L) ==
  /\ r.op = "credit" => In(L[r.user], ReqKey(r.key), r.amount)
  /\ r.op = "transfer" => /\ In(L[r.user], ReqKey(r.key), -r.amount)
                          /\ In(L[r.to], CreditKey(r.key), r.amount)
  /\ r.op = "debit" => /\ In(L[r.user], ReqKey(r.key), -r.amount)
                       /\ G[r.saga].status # "none"
  /\ r.op = "compensate" => G[r.saga].status = "COMPENSATED"
  /\ r.op = "complete" => G[r.saga].status = "COMPLETED"

LEMMA Stories ==
  /\ SagaAgrees <=> \A s \in Sagas : Story(saga[s], s, txnStatus, ledger)
  /\ SagaAgrees' <=> \A s \in Sagas : Story(saga'[s], s, txnStatus', ledger')
BY DEF SagaAgrees, Story, In, Recorded

LEMMA Effects ==
  ASSUME NEW r
  PROVE  /\ Effect(r) <=> Did(r, saga, ledger)
         /\ Effect(r)' <=> Did(r, saga', ledger')
BY DEF Effect, Did, In, Recorded

(* What the three commits that carry an idempotency key have in common.    *)
KeyedStep(h) ==
  LET r == req[h]
      K == {ReqKey(r.key), CreditKey(r.key)}
  IN  /\ r \in Requests /\ r.op \in Keyed
      /\ Grows /\ KeysKept /\ KeysMarked' /\ KeyRecordedOnce'
      /\ txnStatus[ReqKey(r.key)] = "none"
      /\ \A k \in TxnKeys \ K : txnStatus'[k] = txnStatus[k]
      /\ \A u \in Users : \A i \in 1..Len(ledger'[u]) :
           \/ i \in 1..Len(ledger[u]) /\ ledger'[u][i] = ledger[u][i]
           \/ ledger'[u][i].key \in K
      /\ Did(r, saga', ledger')
      /\ r.op # "debit" => saga' = saga
      /\ r.op = "debit" =>
           /\ txnStatus'[ReqKey(r.key)] = "PENDING"
           /\ saga[r.saga].status = "none"
           /\ saga' = [saga EXCEPT ![r.saga] =
                         [status |-> "PENDING", user |-> r.user,
                          amount |-> r.amount, key |-> r.key]]
           /\ wallet[r.user].open

LEMMA CreditStep ==
  ASSUME LedgerInv, NEW h \in Handlers, CreditWallet(h)
  PROVE  KeyedStep(h)
<1> DEFINE r == req[h]
           d == [u \in {r.user} |-> r.amount]
           k == [u \in {r.user} |-> ReqKey(r.key)]
<1>1. Commits(h, "credit") /\ Post(h, d, k) /\ UNCHANGED saga
  BY DEF CreditWallet
<1>2. OnceInv /\ TypeInv
  BY DEF LedgerInv, OnceInv
<1>3. /\ r \in Requests /\ r.op = "credit" /\ DOMAIN snap[h] = {r.user}
      /\ \A j \in KeysOf(r) : KeyFree(j)
  BY <1>1, <1>2, CommitFacts
<1>4. d \in [DOMAIN snap[h] -> Int] /\ k \in [DOMAIN snap[h] -> TxnKeys]
  BY <1>3, RequestTypes, KeyTypes
<1>5. /\ txnStatus' = [txnStatus EXCEPT ![ReqKey(r.key)] = "COMPLETED"]
      /\ DOMAIN txnStatus = TxnKeys /\ ReqKey(r.key) \in TxnKeys
      /\ txnStatus[ReqKey(r.key)] = "none"
  BY <1>2, <1>3, RequestTypes, KeyTypes
  DEF CreditWallet, KeysOf, KeyFree, TypeInv, TypeOK
<1>6. KeysKept
  BY <1>5 DEF KeysKept
<1>7. /\ Grows /\ KeysMarked' /\ KeyRecordedOnce'
      /\ In(ledger'[r.user], ReqKey(r.key), r.amount)
      /\ \A u \in Users : \A i \in 1..Len(ledger'[u]) :
           \/ i \in 1..Len(ledger[u]) /\ ledger'[u][i] = ledger[u][i]
           \/ ledger'[u][i].key = ReqKey(r.key)
  <2>1. /\ \A u \in DOMAIN snap[h] : /\ k[u] = ReqKey(r.key)
                                     /\ txnStatus[k[u]] = "none"
                                     /\ txnStatus'[k[u]] # "none"
        /\ \A u, v \in DOMAIN snap[h] : k[u] = k[v] => u = v
        /\ d[r.user] = r.amount /\ r.user \in DOMAIN snap[h]
    BY <1>3, <1>5
  <2> HIDE DEF d, k
  <2> QED
    BY <1>1, <1>2, <1>4, <1>6, <2>1, PostOnce
<1> QED
  BY <1>1, <1>3, <1>5, <1>6, <1>7 DEF KeyedStep, Keyed, Did

LEMMA TransferStep ==
  ASSUME LedgerInv, ServesValid, NEW h \in Handlers, TransferWallet(h)
  PROVE  KeyedStep(h)
<1> DEFINE r == req[h]
           U == {r.user, r.to}
           d == [u \in U |-> IF u = r.user THEN -r.amount ELSE r.amount]
           k == [u \in U |-> IF u = r.user THEN ReqKey(r.key)
                                           ELSE CreditKey(r.key)]
<1>1. Commits(h, "transfer") /\ Post(h, d, k) /\ UNCHANGED saga
  BY DEF TransferWallet
<1>2. OnceInv /\ TypeInv
  BY DEF LedgerInv, OnceInv
<1>3. /\ r \in Requests /\ r.op = "transfer" /\ DOMAIN snap[h] = U
      /\ \A j \in KeysOf(r) : KeyFree(j) /\ pc[h] = "open"
  BY <1>1, <1>2, CommitFacts
<1>4. d \in [DOMAIN snap[h] -> Int] /\ k \in [DOMAIN snap[h] -> TxnKeys]
  BY <1>3, RequestTypes, KeyTypes
<1>5. r.user # r.to
  BY <1>1, <1>3 DEF ServesValid, Valid, Commits
<1>6. /\ txnStatus' = [txnStatus EXCEPT ![ReqKey(r.key)] = "COMPLETED",
                                        ![CreditKey(r.key)] = "COMPLETED"]
      /\ DOMAIN txnStatus = TxnKeys
      /\ ReqKey(r.key) \in TxnKeys /\ CreditKey(r.key) \in TxnKeys
      /\ txnStatus[ReqKey(r.key)] = "none" /\ txnStatus[CreditKey(r.key)] = "none"
  BY <1>2, <1>3, RequestTypes, KeyTypes
  DEF TransferWallet, KeysOf, KeyFree, TypeInv, TypeOK
<1>7. KeysKept
  BY <1>6 DEF KeysKept
<1>8. /\ Grows /\ KeysMarked' /\ KeyRecordedOnce'
      /\ In(ledger'[r.user], ReqKey(r.key), -r.amount)
      /\ In(ledger'[r.to], CreditKey(r.key), r.amount)
      /\ \A u \in Users : \A i \in 1..Len(ledger'[u]) :
           \/ i \in 1..Len(ledger[u]) /\ ledger'[u][i] = ledger[u][i]
           \/ ledger'[u][i].key \in {ReqKey(r.key), CreditKey(r.key)}
  <2>1. /\ d[r.user] = -r.amount /\ k[r.user] = ReqKey(r.key)
        /\ d[r.to] = r.amount /\ k[r.to] = CreditKey(r.key)
    BY <1>5
  <2>2. /\ txnStatus'[ReqKey(r.key)] # "none"
        /\ txnStatus'[CreditKey(r.key)] # "none"
    BY <1>6
  <2>0. ReqKey(r.key) # CreditKey(r.key)
    BY KeysDiffer
  <2> HIDE DEF d, k
  <2>3. \A u \in DOMAIN snap[h] : u = r.user \/ u = r.to
    BY <1>3
  <2>4. \A u \in DOMAIN snap[h] :
          /\ k[u] = ReqKey(r.key) \/ k[u] = CreditKey(r.key)
          /\ txnStatus[k[u]] = "none" /\ txnStatus'[k[u]] # "none"
    BY <1>6, <2>1, <2>2, <2>3
  <2>5. \A u, v \in DOMAIN snap[h] : k[u] = k[v] => u = v
    BY <2>0, <2>1, <2>3
  <2>6. r.user \in DOMAIN snap[h] /\ r.to \in DOMAIN snap[h]
    BY <1>3
  <2>7. /\ Grows /\ KeysMarked' /\ KeyRecordedOnce'
        /\ \A u \in DOMAIN snap[h] : In(ledger'[u], k[u], d[u])
        /\ \A u \in Users : \A i \in 1..Len(ledger'[u]) :
             \/ i \in 1..Len(ledger[u]) /\ ledger'[u][i] = ledger[u][i]
             \/ u \in DOMAIN snap[h] /\ ledger'[u][i].key = k[u]
    <3>1. Post(h, d, k) /\ OnceInv /\ KeysKept
      BY <1>1, <1>2, <1>7
    <3>2. \A u \in DOMAIN snap[h] : /\ txnStatus[k[u]] = "none"
                                     /\ txnStatus'[k[u]] # "none"
      BY <2>4
    <3> HIDE DEF r, U
    <3> QED
      BY <1>4, <2>5, <3>1, <3>2, PostOnce
  <2> QED
    BY <2>1, <2>4, <2>6, <2>7
<1> QED
  BY <1>1, <1>3, <1>6, <1>7, <1>8 DEF KeyedStep, Keyed, Did

LEMMA DebitStep ==
  ASSUME LedgerInv, NEW h \in Handlers, DebitForSaga(h)
  PROVE  KeyedStep(h)
<1> DEFINE r == req[h]
           d == [u \in {r.user} |-> -r.amount]
           k == [u \in {r.user} |-> ReqKey(r.key)]
<1>1. Commits(h, "debit") /\ Post(h, d, k)
  BY DEF DebitForSaga
<1>2. OnceInv /\ TypeInv
  BY DEF LedgerInv, OnceInv
<1>3. /\ r \in Requests /\ r.op = "debit" /\ DOMAIN snap[h] = {r.user}
      /\ \A j \in KeysOf(r) : KeyFree(j)
      /\ pc[h] = "open" /\ SagaCurrent(h)
  BY <1>1, <1>2, CommitFacts
<1>4. d \in [DOMAIN snap[h] -> Int] /\ k \in [DOMAIN snap[h] -> TxnKeys]
  BY <1>3, RequestTypes, KeyTypes
<1>5. /\ txnStatus' = [txnStatus EXCEPT ![ReqKey(r.key)] = "PENDING"]
      /\ DOMAIN txnStatus = TxnKeys /\ ReqKey(r.key) \in TxnKeys
      /\ txnStatus[ReqKey(r.key)] = "none"
  BY <1>2, <1>3, RequestTypes, KeyTypes
  DEF DebitForSaga, KeysOf, KeyFree, TypeInv, TypeOK
<1>6. KeysKept
  BY <1>5 DEF KeysKept
<1>7. /\ Grows /\ KeysMarked' /\ KeyRecordedOnce'
      /\ In(ledger'[r.user], ReqKey(r.key), -r.amount)
      /\ \A u \in Users : \A i \in 1..Len(ledger'[u]) :
           \/ i \in 1..Len(ledger[u]) /\ ledger'[u][i] = ledger[u][i]
           \/ ledger'[u][i].key = ReqKey(r.key)
  <2>1. /\ \A u \in DOMAIN snap[h] : /\ k[u] = ReqKey(r.key)
                                     /\ txnStatus[k[u]] = "none"
                                     /\ txnStatus'[k[u]] # "none"
        /\ \A u, v \in DOMAIN snap[h] : k[u] = k[v] => u = v
        /\ d[r.user] = -r.amount /\ r.user \in DOMAIN snap[h]
    BY <1>3, <1>5
  <2> HIDE DEF d, k
  <2> QED
    BY <1>1, <1>2, <1>4, <1>6, <2>1, PostOnce
<1>8. /\ saga[r.saga].status = "none"
      /\ saga' = [saga EXCEPT ![r.saga] =
                   [status |-> "PENDING", user |-> r.user,
                    amount |-> r.amount, key |-> r.key]]
  BY <1>3 DEF DebitForSaga, SagaCurrent, OnSaga
<1>9. wallet[r.user].open
  BY <1>3 DEF LedgerInv, SnapSound
<1>10. saga'[r.saga].status # "none"
  BY <1>2, <1>3, <1>8, RequestTypes DEF TypeInv, TypeOK
<1> QED
  BY <1>1, <1>3, <1>5, <1>6, <1>7, <1>8, <1>9, <1>10
  DEF KeyedStep, Keyed, Did

(* What the two commits that end a saga have in common; st is the status   *)
(* they give it.                                                           *)
SagaStep(h, st) ==
  LET r == req[h]
      g == saga[r.saga]
  IN  /\ r \in Requests /\ r.op \in OnSaga /\ g.status = "PENDING"
      /\ \/ r.op = "compensate" /\ st = "COMPENSATED"
         \/ r.op = "complete" /\ st = "COMPLETED"
      /\ saga' = [saga EXCEPT ![r.saga].status = st]
      /\ Grows /\ KeysKept /\ KeysMarked' /\ KeyRecordedOnce'
      /\ txnStatus'[ReqKey(g.key)] = IF st = "COMPENSATED" THEN "REVERSED"
                                                           ELSE "COMPLETED"
      /\ \A k \in TxnKeys \ {ReqKey(g.key), CompKey(r.saga)} :
           txnStatus'[k] = txnStatus[k]
      /\ st = "COMPENSATED" => In(ledger'[g.user], CompKey(r.saga), g.amount)
      /\ \A u \in Users : \A i \in 1..Len(ledger'[u]) :
           \/ i \in 1..Len(ledger[u]) /\ ledger'[u][i] = ledger[u][i]
           \/ st = "COMPENSATED" /\ ledger'[u][i].key = CompKey(r.saga)

LEMMA CompensateStep ==
  ASSUME LedgerInv, NEW h \in Handlers, CompensateSaga(h)
  PROVE  SagaStep(h, "COMPENSATED")
<1> DEFINE r == req[h]
           g == snapSaga[h]
           c == CompKey(r.saga)
           d == [u \in {g.user} |-> g.amount]
           k == [u \in {g.user} |-> c]
<1>1. Commits(h, "compensate") /\ Post(h, d, k)
  BY DEF CompensateSaga
<1>2. OnceInv /\ TypeInv
  BY DEF LedgerInv, OnceInv
<1>3. /\ r \in Requests /\ r.op = "compensate" /\ DOMAIN snap[h] = {g.user}
      /\ \A j \in KeysOf(r) : KeyFree(j)
      /\ pc[h] = "open" /\ SagaCurrent(h) /\ g \in SagaRow
  BY <1>1, <1>2, CommitFacts
<1>4. d \in [DOMAIN snap[h] -> Int] /\ k \in [DOMAIN snap[h] -> TxnKeys]
  BY <1>3, RequestTypes, KeyTypes DEF SagaRow
<1>5. saga[r.saga] = g /\ g.status = "PENDING"
  BY <1>3 DEF SagaCurrent, OnSaga, LedgerInv, SnapSound
<1>6. /\ txnStatus' = [txnStatus EXCEPT ![ReqKey(g.key)] = "REVERSED",
                                        ![c] = "COMPLETED"]
      /\ DOMAIN txnStatus = TxnKeys /\ ReqKey(g.key) \in TxnKeys
      /\ c \in TxnKeys /\ txnStatus[c] = "none" /\ c # ReqKey(g.key)
  BY <1>2, <1>3, RequestTypes, KeyTypes, KeysDiffer
  DEF CompensateSaga, KeysOf, KeyFree, TypeInv, TypeOK, SagaRow
<1>7. KeysKept
  BY <1>6 DEF KeysKept
<1>8. /\ Grows /\ KeysMarked' /\ KeyRecordedOnce'
      /\ In(ledger'[g.user], c, g.amount)
      /\ \A u \in Users : \A i \in 1..Len(ledger'[u]) :
           \/ i \in 1..Len(ledger[u]) /\ ledger'[u][i] = ledger[u][i]
           \/ ledger'[u][i].key = c
  <2>1. /\ \A u \in DOMAIN snap[h] : /\ k[u] = c
                                     /\ txnStatus[k[u]] = "none"
                                     /\ txnStatus'[k[u]] # "none"
        /\ \A u, v \in DOMAIN snap[h] : k[u] = k[v] => u = v
        /\ d[g.user] = g.amount /\ g.user \in DOMAIN snap[h]
    BY <1>3, <1>6
  <2> HIDE DEF d, k, c
  <2> QED
    BY <1>1, <1>2, <1>4, <1>7, <2>1, PostOnce
<1>9. saga' = [saga EXCEPT ![r.saga].status = "COMPENSATED"]
  BY DEF CompensateSaga
<1> QED
  BY <1>3, <1>5, <1>6, <1>7, <1>8, <1>9 DEF SagaStep, OnSaga

LEMMA CompleteStep ==
  ASSUME LedgerInv, NEW h \in Handlers, CompleteSaga(h)
  PROVE  SagaStep(h, "COMPLETED")
<1> DEFINE r == req[h]
           g == snapSaga[h]
<1>1. Commits(h, "complete") /\ UNCHANGED <<wallet, ledger>>
  BY DEF CompleteSaga
<1>2. OnceInv /\ TypeInv
  BY DEF LedgerInv, OnceInv
<1>3. /\ r \in Requests /\ r.op = "complete"
      /\ pc[h] = "open" /\ SagaCurrent(h) /\ g \in SagaRow
  BY <1>1, <1>2, CommitFacts
<1>4. saga[r.saga] = g /\ g.status = "PENDING"
  BY <1>3 DEF SagaCurrent, OnSaga, LedgerInv, SnapSound
<1>5. /\ txnStatus' = [txnStatus EXCEPT ![ReqKey(g.key)] = "COMPLETED"]
      /\ DOMAIN txnStatus = TxnKeys /\ ReqKey(g.key) \in TxnKeys
  BY <1>2, <1>3, KeyTypes DEF CompleteSaga, TypeInv, TypeOK, SagaRow
<1>6. KeysKept /\ Grows
  BY <1>1, <1>5 DEF KeysKept, Grows
<1>7. KeyRecordedOnce'
  BY <1>1, <1>2 DEF OnceInv, KeyRecordedOnce
<1>8. KeysMarked'
  <2> SUFFICES ASSUME NEW u \in Users, NEW i \in 1..Len(ledger[u])
               PROVE  txnStatus'[ledger[u][i].key] # "none"
    BY <1>1 DEF KeysMarked
  <2>1. ledger[u][i].key \in TxnKeys
    BY <1>2, EntryKeys
  <2>2. txnStatus[ledger[u][i].key] # "none"
    BY <1>2 DEF OnceInv, KeysMarked
  <2> QED
    BY <1>6, <2>1, <2>2 DEF KeysKept
<1>9. saga' = [saga EXCEPT ![r.saga].status = "COMPLETED"]
  BY DEF CompleteSaga
<1> QED
  BY <1>1, <1>3, <1>4, <1>5, <1>6, <1>7, <1>8, <1>9 DEF SagaStep, OnSaga

-----------------------------------------------------------------------------
(* What every step does to the sagas: none is forgotten, and one that is   *)
(* over stays as it is.                                                    *)
SagasKept ==
  \A s \in Sagas :
    /\ saga[s].status # "none" => saga'[s].status # "none"
    /\ saga[s].status \in {"COMPLETED", "COMPENSATED"} => saga'[s] = saga[s]

(* So an effect is there to stay.                                          *)
LEMMA DidStays ==
  ASSUME Grows, SagasKept, NEW r \in Requests, Did(r, saga, ledger)
  PROVE  Did(r, saga', ledger')
<1>1. r.user \in Users /\ r.to \in Users /\ r.saga \in Sagas
  BY RequestTypes
<1>2. \A k, a : /\ In(ledger[r.user], k, a) => In(ledger'[r.user], k, a)
                /\ In(ledger[r.to], k, a) => In(ledger'[r.to], k, a)
  BY <1>1, InGrows
<1>3. /\ saga[r.saga].status # "none" => saga'[r.saga].status # "none"
      /\ saga[r.saga].status \in {"COMPLETED", "COMPENSATED"} =>
           saga'[r.saga] = saga[r.saga]
  BY <1>1 DEF SagasKept
<1> QED
  BY <1>2, <1>3 DEF Did

LEMMA SagaTypes ==
  ASSUME TypeInv, NEW s \in Sagas
  PROVE  /\ saga[s] \in SagaRow /\ saga[s].user \in Users /\ saga[s].key \in Keys
         /\ ReqKey(saga[s].key) \in TxnKeys
         /\ saga[s].status \in {"none", "PENDING", "COMPLETED", "COMPENSATED"}
<1>1. saga[s] \in SagaRow
  BY DEF TypeInv, TypeOK
<1> QED
  BY <1>1, KeyTypes DEF SagaRow, SagaStatus

(* A saga's debit has a key, which no other commit can take.               *)
LEMMA SagaKeyTaken ==
  ASSUME LedgerInv, NEW s \in Sagas, saga[s].status # "none"
  PROVE  txnStatus[ReqKey(saga[s].key)] # "none"
<1>1. Story(saga[s], s, txnStatus, ledger)
  BY Stories DEF LedgerInv
<1>2. saga[s].status \in {"none", "PENDING", "COMPLETED", "COMPENSATED"}
  BY SagaTypes DEF LedgerInv, OnceInv
<1> QED
  BY <1>1, <1>2 DEF Story

(* The story of a saga whose row does not change goes on, if its debit's   *)
(* status does not change and no refund of it is recorded.                 *)
LEMMA StoryStays ==
  ASSUME LedgerInv, Grows, NEW s \in Sagas,
         saga[s].status # "none" =>
           txnStatus'[ReqKey(saga[s].key)] = txnStatus[ReqKey(saga[s].key)],
         \A u \in Users : \A i \in 1..Len(ledger'[u]) :
           \/ i \in 1..Len(ledger[u]) /\ ledger'[u][i] = ledger[u][i]
           \/ ledger'[u][i].key # CompKey(s)
  PROVE  Story(saga[s], s, txnStatus', ledger')
<1>1. Story(saga[s], s, txnStatus, ledger)
  BY Stories DEF LedgerInv
<1>2. saga[s].user \in Users
  BY SagaTypes DEF LedgerInv, OnceInv
<1>3. \A k, a : In(ledger[saga[s].user], k, a) => In(ledger'[saga[s].user], k, a)
  BY <1>2, InGrows
<1> QED
  BY <1>1, <1>3 DEF Story

LEMMA KeyedSagas ==
  ASSUME LedgerInv, NEW h \in Handlers, KeyedStep(h)
  PROVE  SagaAgrees' /\ SagaKeysDiffer' /\ SagaSource' /\ SagasKept
<1> DEFINE r == req[h]
           K == {ReqKey(r.key), CreditKey(r.key)}
           row == [status |-> "PENDING", user |-> r.user,
                   amount |-> r.amount, key |-> r.key]
<1>1. TypeInv /\ DOMAIN saga = Sagas
  BY DEF LedgerInv, OnceInv, TypeInv, TypeOK
<1>2. /\ r \in Requests /\ r.op \in Keyed /\ Grows
      /\ txnStatus[ReqKey(r.key)] = "none"
      /\ \A k \in TxnKeys \ K : txnStatus'[k] = txnStatus[k]
      /\ \A u \in Users : \A i \in 1..Len(ledger'[u]) :
           \/ i \in 1..Len(ledger[u]) /\ ledger'[u][i] = ledger[u][i]
           \/ ledger'[u][i].key \in K
      /\ Did(r, saga', ledger')
  BY DEF KeyedStep
<1>3. /\ r.user \in Users /\ r.key \in Keys /\ r.saga \in Sagas
  BY <1>2, RequestTypes
<1>4. \/ saga' = saga
      \/ /\ r.op = "debit" /\ saga[r.saga].status = "none"
         /\ txnStatus'[ReqKey(r.key)] = "PENDING"
         /\ saga' = [saga EXCEPT ![r.saga] = row]
  BY DEF KeyedStep
<1>5. \A s \in Sagas : \/ saga'[s] = saga[s]
                       \/ /\ s = r.saga /\ r.op = "debit" /\ saga'[s] = row
                          /\ saga[s].status = "none"
                          /\ txnStatus'[ReqKey(r.key)] = "PENDING"
  BY <1>1, <1>3, <1>4
<1>6. \A s \in Sagas : saga[s].status # "none" =>
        /\ saga[s].key # r.key
        /\ txnStatus'[ReqKey(saga[s].key)] = txnStatus[ReqKey(saga[s].key)]
  BY <1>1, <1>2, SagaKeyTaken, SagaTypes, KeysDiffer
<1>7. \A s \in Sagas : CompKey(s) \notin K
  BY KeysDiffer
<1>8. ASSUME NEW s \in Sagas PROVE Story(saga'[s], s, txnStatus', ledger')
  <2>1. Story(saga[s], s, txnStatus', ledger')
    <3> HIDE DEF K
    <3> QED
      BY <1>2, <1>6, <1>7, StoryStays
  <2>2. CASE saga'[s] # saga[s]
    <3>1. /\ s = r.saga /\ r.op = "debit" /\ saga'[s] = row
          /\ saga[s].status = "none" /\ txnStatus'[ReqKey(r.key)] = "PENDING"
      BY <1>5, <2>2
    <3>2. In(ledger'[r.user], ReqKey(r.key), -r.amount)
      BY <1>2, <3>1 DEF Did
    <3> QED
      BY <2>1, <3>1, <3>2 DEF Story
  <2> QED
    BY <2>1, <2>2
<1>9. SagaKeysDiffer'
  <2> SUFFICES ASSUME NEW s \in Sagas, NEW t \in Sagas, saga'[s].status # "none",
                      saga'[t].status # "none", saga'[s].key = saga'[t].key
               PROVE  s = t
    BY DEF SagaKeysDiffer
  <2>1. SagaKeysDiffer
    BY DEF LedgerInv
  <2> QED
    BY <1>5, <1>6, <2>1 DEF SagaKeysDiffer
<1>10. SagaSource'
  BY <1>2, <1>5 DEF LedgerInv, SagaSource
<1>11. SagasKept
  BY <1>5 DEF SagasKept
<1> QED
  BY <1>8, <1>9, <1>10, <1>11, Stories

LEMMA SettledSagas ==
  ASSUME LedgerInv, NEW h \in Handlers, NEW st, SagaStep(h, st)
  PROVE  SagaAgrees' /\ SagaKeysDiffer' /\ SagaSource' /\ SagasKept
<1> DEFINE r == req[h]
           z == r.saga
           g == saga[z]
<1>1. TypeInv /\ DOMAIN saga = Sagas
  BY DEF LedgerInv, OnceInv, TypeInv, TypeOK
<1>2. /\ r \in Requests /\ g.status = "PENDING" /\ Grows
      /\ \/ r.op = "compensate" /\ st = "COMPENSATED"
         \/ r.op = "complete" /\ st = "COMPLETED"
      /\ saga' = [saga EXCEPT ![z].status = st]
      /\ txnStatus'[ReqKey(g.key)] = IF st = "COMPENSATED" THEN "REVERSED"
                                                           ELSE "COMPLETED"
      /\ \A k \in TxnKeys \ {ReqKey(g.key), CompKey(z)} :
           txnStatus'[k] = txnStatus[k]
      /\ st = "COMPENSATED" => In(ledger'[g.user], CompKey(z), g.amount)
      /\ \A u \in Users : \A i \in 1..Len(ledger'[u]) :
           \/ i \in 1..Len(ledger[u]) /\ ledger'[u][i] = ledger[u][i]
           \/ st = "COMPENSATED" /\ ledger'[u][i].key = CompKey(z)
  BY DEF SagaStep
<1>3. z \in Sagas
  BY <1>2, RequestTypes
<1>4. /\ saga'[z].status = st /\ saga'[z].user = g.user
      /\ saga'[z].amount = g.amount /\ saga'[z].key = g.key
      /\ \A s \in Sagas \ {z} : saga'[s] = saga[s]
  BY <1>1, <1>2, <1>3, SagaTypes DEF SagaRow
<1>5. \A s \in Sagas : /\ saga'[s].user = saga[s].user
                       /\ saga'[s].amount = saga[s].amount
                       /\ saga'[s].key = saga[s].key
                       /\ saga'[s].status # "none" <=> saga[s].status # "none"
  BY <1>2, <1>4
<1>6. ASSUME NEW s \in Sagas \ {z} PROVE Story(saga'[s], s, txnStatus', ledger')
  <2>1. saga[s].status # "none" => saga[s].key # g.key
    BY <1>2, <1>3, <1>6 DEF LedgerInv, SagaKeysDiffer
  <2>2. saga[s].status # "none" =>
          txnStatus'[ReqKey(saga[s].key)] = txnStatus[ReqKey(saga[s].key)]
    BY <1>1, <1>2, <2>1, SagaTypes, KeysDiffer
  <2>3. CompKey(s) # CompKey(z)
    BY <1>6, KeysDiffer
  <2>4. Story(saga[s], s, txnStatus', ledger')
    BY <1>2, <2>2, <2>3, StoryStays
  <2> QED
    BY <1>4, <2>4
<1>7. Story(saga'[z], z, txnStatus', ledger')
  <2>1. Story(g, z, txnStatus, ledger)
    BY <1>3, Stories DEF LedgerInv
  <2>2. In(ledger'[g.user], ReqKey(g.key), -g.amount)
    BY <1>1, <1>2, <1>3, <2>1, SagaTypes, InGrows DEF Story
  <2>3. CASE st = "COMPENSATED"
    BY <1>2, <1>4, <2>2, <2>3 DEF Story
  <2>4. CASE st = "COMPLETED"
    BY <1>2, <1>4, <2>1, <2>2, <2>4 DEF Story
  <2> QED
    BY <1>2, <2>3, <2>4
<1>8. SagaKeysDiffer' /\ SagaSource'
  BY <1>5 DEF LedgerInv, SagaKeysDiffer, SagaSource
<1>9. SagasKept
  BY <1>2, <1>3, <1>4 DEF SagasKept
<1> QED
  BY <1>6, <1>7, <1>8, <1>9, Stories

(* A key that a commit takes was its request's, and a caller uses a key    *)
(* for one request.                                                        *)
LEMMA KeyedMarks ==
  ASSUME LedgerInv, NEW h \in Handlers, KeyedStep(h), SagasKept
  PROVE  MarkedHasEffect'
<1> DEFINE q == req[h]
<1>1. /\ q \in Requests /\ q.op \in Keyed /\ Grows /\ Did(q, saga', ledger')
      /\ \A k \in TxnKeys \ {ReqKey(q.key), CreditKey(q.key)} :
           txnStatus'[k] = txnStatus[k]
  BY DEF KeyedStep
<1> SUFFICES ASSUME NEW r \in Requests, r.op \in Keyed,
                    txnStatus'[ReqKey(r.key)] # "none"
             PROVE  Did(r, saga', ledger')
  BY Effects DEF MarkedHasEffect
<1>2. ReqKey(r.key) \in TxnKeys
  BY RequestTypes, KeyTypes
<1>3. CASE r.key = q.key
  BY <1>1, <1>3, KeysIdentifyRequests
<1>4. CASE r.key # q.key
  <2>1. txnStatus[ReqKey(r.key)] # "none"
    BY <1>1, <1>2, <1>4, KeysDiffer
  <2>2. Did(r, saga, ledger)
    BY <2>1, Effects DEF LedgerInv, MarkedHasEffect
  <2> QED
    BY <1>1, <2>2, DidStays
<1> QED
  BY <1>3, <1>4

(* The end of a saga takes no caller's key.                                *)
LEMMA SettledMarks ==
  ASSUME LedgerInv, NEW h \in Handlers, NEW st, SagaStep(h, st), SagasKept
  PROVE  MarkedHasEffect'
<1> DEFINE z == req[h].saga
           g == saga[z]
<1>1. /\ req[h] \in Requests /\ g.status = "PENDING" /\ Grows
      /\ \A k \in TxnKeys \ {ReqKey(g.key), CompKey(z)} :
           txnStatus'[k] = txnStatus[k]
  BY DEF SagaStep
<1> SUFFICES ASSUME NEW r \in Requests, r.op \in Keyed,
                    txnStatus'[ReqKey(r.key)] # "none"
             PROVE  Did(r, saga', ledger')
  BY Effects DEF MarkedHasEffect
<1>2. ReqKey(r.key) \in TxnKeys /\ z \in Sagas /\ ReqKey(r.key) # CompKey(z)
  BY <1>1, RequestTypes, KeyTypes, KeysDiffer
<1>3. txnStatus[ReqKey(g.key)] # "none"
  BY <1>1, <1>2, SagaKeyTaken
<1>4. txnStatus[ReqKey(r.key)] # "none"
  BY <1>1, <1>2, <1>3
<1>5. Did(r, saga, ledger)
  BY <1>4, Effects DEF LedgerInv, MarkedHasEffect
<1> QED
  BY <1>1, <1>5, DidStays

(* A reply tells of an effect that the commit has had.                     *)
LEMMA AckedStays ==
  ASSUME LedgerInv, Grows, SagasKept,
         \A r \in acked' : r \in acked \/ Did(r, saga', ledger')
  PROVE  AckedHasEffect'
<1> SUFFICES ASSUME NEW r \in acked' PROVE Did(r, saga', ledger')
  BY Effects DEF AckedHasEffect
<1>1. CASE r \in acked
  <2>1. Did(r, saga, ledger) /\ r \in Requests
    BY <1>1, Effects DEF LedgerInv, OnceInv, TypeInv, TypeOK, AckedHasEffect
  <2> QED
    BY <2>1, DidStays
<1> QED
  BY <1>1

-----------------------------------------------------------------------------
OpenStays == \A u \in Users : wallet[u].open => wallet'[u].open

(* The tables of transactions and sagas do not change.                     *)
LEMMA TablesStay ==
  ASSUME LedgerInv, TypeInv', UNCHANGED <<ledger, txnStatus, saga>>, OpenStays
  PROVE  /\ OnceInv' /\ SagaSource' /\ SagaKeysDiffer' /\ SagaWalletOpen'
         /\ SagaAgrees' /\ MarkedHasEffect' /\ Grows /\ SagasKept
<1>1. Grows /\ SagasKept
  BY DEF Grows, SagasKept
<1>2. OnceInv'
  BY DEF LedgerInv, OnceInv, KeysMarked, KeyRecordedOnce
<1>3. SagaSource' /\ SagaKeysDiffer'
  BY DEF LedgerInv, SagaSource, SagaKeysDiffer
<1>4. SagaWalletOpen'
  BY SagaTypes DEF LedgerInv, OnceInv, SagaWalletOpen, OpenStays
<1>5. SagaAgrees'
  BY Stories DEF LedgerInv
<1>6. MarkedHasEffect'
  BY Effects DEF LedgerInv, MarkedHasEffect
<1> QED
  BY <1>1, <1>2, <1>3, <1>4, <1>5, <1>6

(* When a handler is done, the snapshots of the others are as they were.   *)
LEMMA DoneSound ==
  ASSUME LedgerInv, NEW h \in Handlers, Done(h), OpenStays
  PROVE  SnapSound'
<1>1. TypeInv /\ TypeOK /\ SnapSound
  BY DEF LedgerInv, OnceInv, TypeInv
<1>2. pc'[h] = "idle"
  BY <1>1 DEF Done, TypeOK
<1>3. \A g \in Handlers \ {h} : /\ pc'[g] = pc[g] /\ req'[g] = req[g]
                                /\ snap'[g] = snap[g] /\ snapSaga'[g] = snapSaga[g]
  BY <1>1 DEF Done, TypeOK
<1> SUFFICES ASSUME NEW g \in Handlers, pc'[g] = "open"
             PROVE  /\ req'[g].op \in Keyed =>
                         \A u \in DOMAIN snap'[g] : ~snap'[g][u].locked
                    /\ \A u \in DOMAIN snap'[g] : wallet'[u].open
                    /\ req'[g].op \in OnSaga => snapSaga'[g].status = "PENDING"
  BY DEF SnapSound
<1>4. g # h /\ pc[g] = "open"
  BY <1>2, <1>3
<1>5. DOMAIN snap[g] \subseteq Users
  BY <1>1 DEF TypeOK
<1> QED
  BY <1>1, <1>3, <1>4, <1>5 DEF SnapSound, OpenStays

(* A commit changes no wallet's being open.                                *)
LEMMA PostOpen ==
  ASSUME TypeInv, NEW h \in Handlers,
         NEW delta \in [DOMAIN snap[h] -> Int], NEW key, Post(h, delta, key)
  PROVE  \A u \in Users : /\ wallet'[u].open = wallet[u].open
                          /\ wallet'[u].locked = wallet[u].locked
BY PostRows

LEMMA CommitOpen ==
  ASSUME TypeInv, NEW h \in Handlers, Commit(h)
  PROVE  \A u \in Users : /\ wallet'[u].open = wallet[u].open
                          /\ wallet'[u].locked = wallet[u].locked
<1> DEFINE r == req[h]
           g == snapSaga[h]
           U == {r.user, r.to}
           d == [u \in U |-> IF u = r.user THEN -r.amount ELSE r.amount]
<1>1. CASE CreditWallet(h)
  <2>1. Commits(h, "credit")
    BY <1>1 DEF CreditWallet
  <2>2. r \in Requests /\ DOMAIN snap[h] = {r.user}
    BY <2>1, CommitFacts
  <2>3. [u \in {r.user} |-> r.amount] \in [DOMAIN snap[h] -> Int]
    BY <2>2, RequestTypes
  <2> QED
    BY <1>1, <2>3, PostOpen DEF CreditWallet
<1>2. CASE TransferWallet(h)
  <2>1. Commits(h, "transfer")
    BY <1>2 DEF TransferWallet
  <2>2. r \in Requests /\ DOMAIN snap[h] = U
    BY <2>1, CommitFacts
  <2>3. d \in [DOMAIN snap[h] -> Int]
    BY <2>2, RequestTypes
  <2> QED
    BY <1>2, <2>3, PostOpen DEF TransferWallet
<1>3. CASE DebitForSaga(h)
  <2>1. Commits(h, "debit")
    BY <1>3 DEF DebitForSaga
  <2>2. r \in Requests /\ DOMAIN snap[h] = {r.user}
    BY <2>1, CommitFacts
  <2>3. [u \in {r.user} |-> -r.amount] \in [DOMAIN snap[h] -> Int]
    BY <2>2, RequestTypes
  <2> QED
    BY <1>3, <2>3, PostOpen DEF DebitForSaga
<1>4. CASE CompensateSaga(h)
  <2>1. Commits(h, "compensate")
    BY <1>4 DEF CompensateSaga
  <2>2. g \in SagaRow /\ DOMAIN snap[h] = {g.user}
    BY <2>1, CommitFacts
  <2>3. [u \in {g.user} |-> g.amount] \in [DOMAIN snap[h] -> Int]
    BY <2>2 DEF SagaRow
  <2> QED
    BY <1>4, <2>3, PostOpen DEF CompensateSaga
<1>5. CASE CompleteSaga(h)
  BY <1>5 DEF CompleteSaga
<1> QED
  BY <1>1, <1>2, <1>3, <1>4, <1>5 DEF Commit

(* A commit keeps LedgerInv.                                               *)
LEMMA CommitLedger ==
  ASSUME LedgerInv, ServesValid, NEW h \in Handlers, Commit(h)
  PROVE  LedgerInv'
<1>1. TypeInv /\ TypeInv' /\ DOMAIN saga = Sagas
  BY CommitType DEF LedgerInv, OnceInv, TypeInv, TypeOK
<1>2. Reply(h) /\ pc[h] # "idle"
  BY DEF Commit, Commits, CreditWallet, TransferWallet, DebitForSaga,
         CompensateSaga, CompleteSaga
<1>3. /\ Done(h) /\ acked' \subseteq Requests
      /\ acked' \subseteq acked \cup {req[h]}
  BY <1>1, <1>2, ReplyType DEF Reply
<1>4. OpenStays
  BY <1>1, CommitOpen DEF OpenStays
<1>5. SnapSound'
  BY <1>3, <1>4, DoneSound
<1>6. CASE CreditWallet(h) \/ TransferWallet(h) \/ DebitForSaga(h)
  <2>1. KeyedStep(h)
    BY <1>6, CreditStep, TransferStep, DebitStep
  <2>2. SagaAgrees' /\ SagaKeysDiffer' /\ SagaSource' /\ SagasKept
    BY <2>1, KeyedSagas
  <2>3. MarkedHasEffect'
    BY <2>1, <2>2, KeyedMarks
  <2>4. AckedHasEffect'
    <3>1. Grows /\ Did(req[h], saga', ledger')
      BY <2>1 DEF KeyedStep
    <3>2. \A r \in acked' : r \in acked \/ Did(r, saga', ledger')
      BY <1>3, <3>1
    <3> QED
      BY <2>2, <3>1, <3>2, AckedStays
  <2>5. SagaWalletOpen'
    <3>1. \A s \in Sagas : \/ saga'[s] = saga[s]
                           \/ /\ saga'[s].user = req[h].user
                              /\ wallet[req[h].user].open /\ req[h].user \in Users
      BY <1>1, <2>1, RequestTypes DEF KeyedStep
    <3>2. \A s \in Sagas : saga[s].user \in Users
      BY <1>1, SagaTypes
    <3> QED
      BY <1>4, <3>1, <3>2 DEF LedgerInv, SagaWalletOpen, OpenStays
  <2> QED
    BY <1>1, <1>5, <2>1, <2>2, <2>3, <2>4, <2>5 DEF LedgerInv, OnceInv, KeyedStep
<1>7. ASSUME NEW st, SagaStep(h, st) PROVE LedgerInv'
  <2>1. SagaAgrees' /\ SagaKeysDiffer' /\ SagaSource' /\ SagasKept
    BY <1>7, SettledSagas
  <2>2. MarkedHasEffect'
    BY <1>7, <2>1, SettledMarks
  <2>3. /\ req[h] \in Requests /\ saga[req[h].saga].status = "PENDING"
        /\ saga' = [saga EXCEPT ![req[h].saga].status = st]
        /\ \/ req[h].op = "compensate" /\ st = "COMPENSATED"
           \/ req[h].op = "complete" /\ st = "COMPLETED"
    BY <1>7 DEF SagaStep
  <2>4. req[h].saga \in Sagas /\ saga[req[h].saga] \in SagaRow
    BY <1>1, <2>3, RequestTypes, SagaTypes
  <2>5. /\ saga'[req[h].saga].status = st
        /\ \A s \in Sagas : /\ saga'[s].user = saga[s].user
                            /\ saga[s].user \in Users
                            /\ s # req[h].saga => saga'[s] = saga[s]
    BY <1>1, <2>3, <2>4, SagaTypes DEF SagaRow
  <2>6. Grows /\ Did(req[h], saga', ledger')
    BY <1>7, <2>3, <2>5 DEF Did, SagaStep
  <2>7. AckedHasEffect'
    <3>1. \A r \in acked' : r \in acked \/ Did(r, saga', ledger')
      BY <1>3, <2>6
    <3> QED
      BY <2>1, <2>6, <3>1, AckedStays
  <2>8. SagaWalletOpen'
    BY <1>4, <2>3, <2>5 DEF LedgerInv, SagaWalletOpen, OpenStays
  <2> QED
    BY <1>1, <1>5, <1>7, <2>1, <2>2, <2>7, <2>8 DEF LedgerInv, OnceInv, SagaStep
<1> QED
  BY <1>6, <1>7, CompensateStep, CompleteStep DEF Commit

LEMMA InitLedger == Init => LedgerInv
<1> SUFFICES ASSUME Init PROVE LedgerInv
  OBVIOUS
<1>1. TypeInv
  BY InitType
<1>2. /\ \A s \in Sagas : saga[s].status = "none"
      /\ \A k \in TxnKeys : txnStatus[k] = "none"
      /\ \A u \in Users : ledger[u] = << >> /\ Len(ledger[u]) = 0
      /\ \A h \in Handlers : pc[h] = "idle"
      /\ acked = {}
  BY DEF Init, NoSaga
<1>3. OnceInv
  BY <1>1, <1>2 DEF OnceInv, KeysMarked, KeyRecordedOnce
<1>4. SnapSound /\ SagaSource /\ SagaKeysDiffer /\ SagaWalletOpen /\ AckedHasEffect
  BY <1>2 DEF SnapSound, SagaSource, SagaKeysDiffer, SagaWalletOpen, AckedHasEffect
<1>5. SagaAgrees
  BY <1>2, Stories DEF Story
<1>6. MarkedHasEffect
  BY <1>2, KeyTypes, RequestTypes DEF MarkedHasEffect
<1> QED
  BY <1>3, <1>4, <1>5, <1>6 DEF LedgerInv

(* A step that changes neither table, opens no snapshot and closes no      *)
(* wallet keeps LedgerInv if its new answers are true.                     *)
LEMMA QuietLedger ==
  ASSUME LedgerInv, TypeInv', UNCHANGED <<ledger, txnStatus, saga>>, OpenStays,
         SnapSound', \A r \in acked' : r \in acked \/ Did(r, saga', ledger')
  PROVE  LedgerInv'
<1>1. /\ OnceInv' /\ SagaSource' /\ SagaKeysDiffer' /\ SagaWalletOpen'
      /\ SagaAgrees' /\ MarkedHasEffect' /\ Grows /\ SagasKept
  BY TablesStay
<1>2. AckedHasEffect'
  BY <1>1, AckedStays
<1> QED
  BY <1>1, <1>2 DEF LedgerInv

LEMMA BeginLedger ==
  ASSUME LedgerInv, NEW h \in Handlers, Begin(h)
  PROVE  LedgerInv'
<1> DEFINE r == req[h]
<1>1. TypeInv /\ TypeInv' /\ SnapSound /\ SagaWalletOpen
  BY BeginType DEF LedgerInv, OnceInv
<1>2. /\ r \in Requests /\ Admits(r)
      /\ pc' = [pc EXCEPT ![h] = "open"] /\ req' = req
      /\ UNCHANGED <<wallet, ledger, txnStatus, saga, acked>>
  BY <1>1 DEF Begin, db, TypeInv, TypeOK
<1>3. /\ snap'[h] = [u \in Touched(r) |-> wallet[u]]
      /\ r.op \in OnSaga => snapSaga'[h] = saga[r.saga]
      /\ \A g \in Handlers \ {h} : /\ snap'[g] = snap[g] /\ pc'[g] = pc[g]
                                   /\ snapSaga'[g] = snapSaga[g]
  BY <1>1 DEF Begin, TypeInv, TypeOK
<1>4. /\ r.op \in Keyed \cup OnSaga /\ r.user \in Users /\ r.to \in Users
      /\ r.saga \in Sagas
  BY <1>2, RequestTypes
<1>5. /\ r.op \in Keyed => \A u \in Touched(r) : ~wallet[u].locked
      /\ \A u \in Touched(r) : wallet[u].open
      /\ r.op \in OnSaga => saga[r.saga].status = "PENDING"
  BY <1>1, <1>2, <1>4
  DEF Admits, Usable, Touched, Keyed, OnSaga, SagaWalletOpen
<1>6. SnapSound'
  <2> SUFFICES ASSUME NEW g \in Handlers, pc'[g] = "open"
               PROVE  /\ req'[g].op \in Keyed =>
                           \A u \in DOMAIN snap'[g] : ~snap'[g][u].locked
                      /\ \A u \in DOMAIN snap'[g] : wallet'[u].open
                      /\ req'[g].op \in OnSaga => snapSaga'[g].status = "PENDING"
    BY DEF SnapSound
  <2>1. CASE g = h
    BY <1>2, <1>3, <1>5, <2>1
  <2>2. CASE g # h
    BY <1>1, <1>2, <1>3, <2>2 DEF SnapSound
  <2> QED
    BY <2>1, <2>2
<1> QED
  BY <1>1, <1>2, <1>6, QuietLedger DEF OpenStays

(* A success answered from the rows is true: the key or the saga that is   *)
(* there is the request's own (KeysIdentifyRequests).                      *)
LEMMA AgainLedger ==
  ASSUME LedgerInv, ServesValid, NEW h \in Handlers, NEW r \in Requests,
         ReceiveAgain(h, r)
  PROVE  LedgerInv'
<1>1. AlreadyDone(r) /\ acked' = acked \cup {r} /\ UNCHANGED <<db, pc, req, snap, snapSaga>>
  BY DEF ReceiveAgain
<1>2. TypeInv'
  BY NextType DEF LedgerInv, OnceInv, Next
<1>3. Did(r, saga, ledger)
  <2>1. CASE r.op \in {"credit", "transfer"}
    BY <1>1, <2>1, Effects DEF AlreadyDone, LedgerInv, MarkedHasEffect, Keyed
  <2>2. CASE r.op = "debit"
    <3>1. saga[r.saga].status # "none" /\ r.saga \in Sagas
      BY <1>1, <2>2, RequestTypes DEF AlreadyDone
    <3>2. PICK q \in Requests :
            /\ q.op = "debit" /\ q.saga = r.saga /\ q.user = saga[r.saga].user
            /\ q.amount = saga[r.saga].amount /\ q.key = saga[r.saga].key
      BY <3>1 DEF LedgerInv, SagaSource
    <3>3. q = r
      BY <2>2, <3>2, KeysIdentifyRequests
    <3>4. Story(saga[r.saga], r.saga, txnStatus, ledger)
      BY <3>1, Stories DEF LedgerInv
    <3> QED
      BY <2>2, <3>1, <3>2, <3>3, <3>4 DEF Story, Did
  <2> QED
    BY <1>1, <2>1, <2>2 DEF AlreadyDone
<1>4. \A q \in acked' : q \in acked \/ Did(q, saga', ledger')
  BY <1>1, <1>3 DEF db
<1>5. SnapSound'
  BY <1>1 DEF LedgerInv, SnapSound, db
<1> QED
  BY <1>1, <1>2, <1>4, <1>5, QuietLedger DEF db, OpenStays

LEMMA NextLedger ==
  LedgerInv /\ ServesValid /\ [Next]_vars => LedgerInv'
<1> SUFFICES ASSUME LedgerInv, ServesValid, [Next]_vars PROVE LedgerInv'
  OBVIOUS
<1>0. TypeInv /\ TypeInv' /\ SnapSound
  BY NextType DEF LedgerInv, OnceInv
<1>1. ASSUME NEW u \in Users, CreateWallet(u) \/ ToggleLock(u) PROVE LedgerInv'
  <2>1. OpenStays
    <3>1. \A v \in Users : wallet[v] \in WalletRow /\ wallet[v].open \in BOOLEAN
      BY <1>0 DEF TypeInv, TypeOK, WalletRow
    <3>2. CASE CreateWallet(u)
      <4>1. wallet' = [wallet EXCEPT ![u] = [wallet[u] EXCEPT !.open = TRUE]]
        BY <3>2 DEF CreateWallet
      <4> QED
        BY <1>0, <3>1, <4>1 DEF OpenStays, TypeInv, TypeOK, WalletRow
    <3>3. CASE ToggleLock(u)
      <4> DEFINE row == [wallet[u] EXCEPT !.locked = ~wallet[u].locked]
      <4>1. wallet' = [wallet EXCEPT ![u] = row]
        BY <3>3 DEF ToggleLock
      <4>2. row.open = wallet[u].open
        BY <3>1 DEF WalletRow
      <4> HIDE DEF row
      <4> QED
        BY <1>0, <4>1, <4>2 DEF OpenStays, TypeInv, TypeOK
    <3> QED
      BY <1>1, <3>2, <3>3
  <2>2. UNCHANGED <<ledger, txnStatus, saga, pc, req, snap, snapSaga, acked>>
    BY <1>1 DEF CreateWallet, ToggleLock
  <2>3. SnapSound'
    BY <1>0, <2>1, <2>2 DEF SnapSound, OpenStays, TypeInv, TypeOK
  <2> QED
    BY <1>0, <2>1, <2>2, <2>3, QuietLedger
<1>2. ASSUME NEW h \in Handlers, NEW r \in Requests, Receive(h, r) PROVE LedgerInv'
  <2>1. /\ UNCHANGED <<wallet, ledger, txnStatus, saga, snap, snapSaga, acked>>
        /\ pc' = [pc EXCEPT ![h] = "received"] /\ req' = [req EXCEPT ![h] = r]
    BY <1>2 DEF Receive, db
  <2>2. SnapSound'
    BY <1>0, <2>1 DEF SnapSound, TypeInv, TypeOK
  <2> QED
    BY <1>0, <2>1, <2>2, QuietLedger DEF OpenStays
<1>3. ASSUME NEW h \in Handlers, Done(h), UNCHANGED db,
             \A r \in acked' : r \in acked \/ Did(r, saga, ledger)
      PROVE  LedgerInv'
  <2>1. OpenStays /\ UNCHANGED <<wallet, ledger, txnStatus, saga>>
    BY <1>3 DEF OpenStays, db
  <2>2. SnapSound'
    BY <1>3, <2>1, DoneSound
  <2> QED
    BY <1>0, <1>3, <2>1, <2>2, QuietLedger
<1>4. ASSUME NEW h \in Handlers, CompleteAgain(h) PROVE LedgerInv'
  <2>1. Did(req[h], saga, ledger)
    BY <1>4 DEF CompleteAgain, Did
  <2>2. \A r \in acked' : r \in acked \/ Did(r, saga, ledger)
    BY <1>4, <2>1 DEF CompleteAgain, Reply
  <2> QED
    BY <1>3, <1>4, <2>2 DEF CompleteAgain, Reply
<1>5. ASSUME NEW h \in Handlers, Reject(h) \/ Conflict(h) \/ Fail(h)
      PROVE  LedgerInv'
  BY <1>3, <1>5 DEF Reject, Conflict, Fail
<1>6. CASE UNCHANGED vars
  <2>1. SnapSound' /\ OpenStays
    BY <1>0, <1>6 DEF vars, SnapSound, OpenStays
  <2> QED
    BY <1>0, <1>6, <2>1, QuietLedger DEF vars
<1> QED
  BY <1>1, <1>2, <1>4, <1>5, <1>6, AgainLedger, BeginLedger, CommitLedger
  DEF Next, Serve

(* LedgerInv and MoneyInv hold together in every reachable state.          *)
LEMMA LedgerInvariant == Spec => [](LedgerInv /\ MoneyInv)
<1>1. Init => LedgerInv /\ MoneyInv
  BY InitLedger, InitMoney
<1>2. LedgerInv /\ MoneyInv /\ [Next]_vars => (LedgerInv /\ MoneyInv)'
  BY NextLedger, NextMoney DEF MoneyInv
<1> QED
  BY <1>1, <1>2, PTL DEF Spec

(* However often a request is sent and however its copies interleave, its  *)
(* idempotency key labels one transaction at most (the lookup before the   *)
(* transaction, the unique index inside it).                               *)
THEOREM KeysRecordedOnce == Spec => []KeyRecordedOnce
<1>1. LedgerInv => KeyRecordedOnce
  BY DEF LedgerInv, OnceInv
<1> QED
  BY <1>1, LedgerInvariant, PTL

(* A saga, its debit and its refund tell one story: no saga is both        *)
(* completed and given back.                                               *)
THEOREM SagasAgree == Spec => []SagaAgrees
<1>1. LedgerInv => SagaAgrees
  BY DEF LedgerInv
<1> QED
  BY <1>1, LedgerInvariant, PTL

(* A success answer is true, and stays true: from the handler that did the *)
(* work and from one that found it done.                                   *)
THEOREM SuccessIsTrue == Spec => []AckedHasEffect
<1>1. LedgerInv => AckedHasEffect
  BY DEF LedgerInv
<1> QED
  BY <1>1, LedgerInvariant, PTL

-----------------------------------------------------------------------------
LEMMA CommitSagas ==
  ASSUME LedgerInv, ServesValid, NEW h \in Handlers, Commit(h)
  PROVE  SagasKept
<1>1. CASE CreditWallet(h) \/ TransferWallet(h) \/ DebitForSaga(h)
  BY <1>1, CreditStep, TransferStep, DebitStep, KeyedSagas
<1>2. CASE CompensateSaga(h)
  BY <1>2, CompensateStep, SettledSagas
<1>3. CASE CompleteSaga(h)
  BY <1>3, CompleteStep, SettledSagas
<1> QED
  BY <1>1, <1>2, <1>3 DEF Commit

LEMMA NextSagas ==
  ASSUME LedgerInv, ServesValid, [Next]_vars
  PROVE  SagasKept
<1>1. saga' = saga => SagasKept
  BY DEF SagasKept
<1> QED
  BY <1>1, CommitSagas
  DEF Next, Serve, vars, db, CreateWallet, ToggleLock, Receive, ReceiveAgain,
      Begin, CompleteAgain, Reject, Conflict, Fail

(* No step reopens or rewrites a saga that was completed or compensated.   *)
THEOREM OutcomesAreFinal == Spec => SagaOutcomeIsFinal
<1>1. LedgerInv /\ MoneyInv /\ [Next]_vars =>
        \A s \in Sagas : saga[s].status \in {"COMPLETED", "COMPENSATED"}
                           => saga'[s] = saga[s]
  BY NextSagas DEF SagasKept, MoneyInv
<1> QED
  BY <1>1, LedgerInvariant, PTL DEF Spec, SagaOutcomeIsFinal

(* What a commit that posts amounts does to the wallets, told without the  *)
(* snapshots: it applies them to the balances of the moment, on wallets    *)
(* that are usable and rich enough at that moment.                         *)
LEMMA PostNow ==
  ASSUME LedgerInv, MoneyInv, NEW h \in Handlers, pc[h] = "open",
         NEW delta \in [DOMAIN snap[h] -> Int],
         NEW key \in [DOMAIN snap[h] -> TxnKeys],
         Post(h, delta, key), \A u \in DOMAIN snap[h] : RowCurrent(h, u)
  PROVE  /\ \A u \in Users \ DOMAIN snap[h] : wallet'[u] = wallet[u]
         /\ \A u \in DOMAIN snap[h] :
              /\ u \in Users /\ wallet[u].open
              /\ wallet'[u].balance = wallet[u].balance + delta[u]
              /\ req[h].op \in Keyed => ~wallet[u].locked
         /\ req[h].op \in {"transfer", "debit"} /\ req[h].user \in DOMAIN snap[h] =>
              wallet[req[h].user].balance >= req[h].amount
<1>1. /\ \A u \in Users \ DOMAIN snap[h] : wallet'[u] = wallet[u]
      /\ \A u \in DOMAIN snap[h] :
           /\ u \in Users /\ snap[h][u].balance = wallet[u].balance
           /\ wallet'[u].balance = wallet[u].balance + delta[u]
  BY PostMoney
<1>2. \A u \in DOMAIN snap[h] : /\ wallet[u].open
                                /\ req[h].op \in Keyed => ~wallet[u].locked
  BY DEF LedgerInv, SnapSound, RowCurrent
<1>3. req[h].op \in {"transfer", "debit"} =>
        snap[h][req[h].user].balance >= req[h].amount
  BY DEF MoneyInv, SnapFresh
<1> QED
  BY <1>1, <1>2, <1>3

LEMMA CreditNow ==
  ASSUME LedgerInv, MoneyInv, NEW h \in Handlers, CreditWallet(h)
  PROVE  LET r == req[h]
         IN  /\ r \in Requests /\ r.op = "credit" /\ r.amount > 0
             /\ Usable(r.user) /\ KeyFree(ReqKey(r.key))
             /\ txnStatus' = [txnStatus EXCEPT ![ReqKey(r.key)] = "COMPLETED"]
             /\ saga' = saga
             /\ wallet'[r.user].balance = wallet[r.user].balance + r.amount
             /\ \A u \in Users \ {r.user} : wallet'[u] = wallet[u]
<1> DEFINE r == req[h]
           d == [u \in {r.user} |-> r.amount]
           k == [u \in {r.user} |-> ReqKey(r.key)]
<1>1. /\ Commits(h, "credit") /\ Post(h, d, k) /\ saga' = saga
      /\ txnStatus' = [txnStatus EXCEPT ![ReqKey(r.key)] = "COMPLETED"]
  BY DEF CreditWallet
<1>2. /\ r \in Requests /\ r.op = "credit" /\ pc[h] = "open"
      /\ DOMAIN snap[h] = {r.user}
      /\ \A u \in DOMAIN snap[h] : RowCurrent(h, u)
      /\ \A q \in KeysOf(r) : KeyFree(q)
  BY <1>1, CommitFacts DEF MoneyInv
<1>3. d \in [DOMAIN snap[h] -> Int] /\ k \in [DOMAIN snap[h] -> TxnKeys]
  BY <1>2, RequestTypes, KeyTypes
<1>4. r.amount > 0 /\ KeyFree(ReqKey(r.key)) /\ r.op \in Keyed
  BY <1>2 DEF MoneyInv, ServesValid, Valid, Keyed, KeysOf
<1>5. d[r.user] = r.amount
  OBVIOUS
<1> HIDE DEF d, k
<1>6. /\ \A u \in Users \ DOMAIN snap[h] : wallet'[u] = wallet[u]
      /\ \A u \in DOMAIN snap[h] :
           /\ wallet[u].open /\ ~wallet[u].locked
           /\ wallet'[u].balance = wallet[u].balance + d[u]
  <2>1. Post(h, d, k) /\ r.user \in DOMAIN snap[h]
    BY <1>1, <1>2
  <2>2. pc[h] = "open" /\ \A u \in DOMAIN snap[h] : RowCurrent(h, u)
    BY <1>2
  <2>3. req[h].op \in Keyed
    BY <1>4
  <2> HIDE DEF r
  <2>4. /\ \A u \in Users \ DOMAIN snap[h] : wallet'[u] = wallet[u]
        /\ \A u \in DOMAIN snap[h] :
             /\ wallet[u].open
             /\ wallet'[u].balance = wallet[u].balance + d[u]
             /\ req[h].op \in Keyed => ~wallet[u].locked
    BY <1>3, <2>1, <2>2, PostNow
  <2> QED
    BY <2>3, <2>4
<1>7. /\ Usable(r.user)
      /\ wallet'[r.user].balance = wallet[r.user].balance + r.amount
      /\ \A u \in Users \ {r.user} : wallet'[u] = wallet[u]
  BY <1>2, <1>5, <1>6 DEF Usable
<1> QED
  BY <1>1, <1>2, <1>4, <1>7

LEMMA TransferNow ==
  ASSUME LedgerInv, MoneyInv, NEW h \in Handlers, TransferWallet(h)
  PROVE  LET r == req[h]
         IN  /\ r \in Requests /\ r.op = "transfer" /\ r.amount > 0 /\ r.user # r.to
             /\ Usable(r.user) /\ Usable(r.to)
             /\ HasSufficientBalance(r.user, r.amount)
             /\ KeyFree(ReqKey(r.key)) /\ KeyFree(CreditKey(r.key))
             /\ txnStatus' = [txnStatus EXCEPT ![ReqKey(r.key)] = "COMPLETED",
                                               ![CreditKey(r.key)] = "COMPLETED"]
             /\ saga' = saga
             /\ wallet'[r.user].balance = wallet[r.user].balance + (-r.amount)
             /\ wallet'[r.to].balance = wallet[r.to].balance + r.amount
             /\ \A u \in Users \ {r.user, r.to} : wallet'[u] = wallet[u]
<1> DEFINE r == req[h]
           U == {r.user, r.to}
           d == [u \in U |-> IF u = r.user THEN -r.amount ELSE r.amount]
           k == [u \in U |-> IF u = r.user THEN ReqKey(r.key)
                                           ELSE CreditKey(r.key)]
<1>1. /\ Commits(h, "transfer") /\ Post(h, d, k) /\ saga' = saga
      /\ txnStatus' = [txnStatus EXCEPT ![ReqKey(r.key)] = "COMPLETED",
                                        ![CreditKey(r.key)] = "COMPLETED"]
  BY DEF TransferWallet
<1>2. /\ r \in Requests /\ r.op = "transfer" /\ pc[h] = "open"
      /\ DOMAIN snap[h] = U
      /\ \A u \in DOMAIN snap[h] : RowCurrent(h, u)
      /\ \A q \in KeysOf(r) : KeyFree(q)
  BY <1>1, CommitFacts DEF MoneyInv
<1>3. d \in [DOMAIN snap[h] -> Int] /\ k \in [DOMAIN snap[h] -> TxnKeys]
  BY <1>2, RequestTypes, KeyTypes
<1>4. /\ r.amount > 0 /\ r.user # r.to /\ r.op \in Keyed
      /\ KeyFree(ReqKey(r.key)) /\ KeyFree(CreditKey(r.key))
  BY <1>2 DEF MoneyInv, ServesValid, Valid, Keyed, KeysOf
<1>5. d[r.user] = -r.amount /\ d[r.to] = r.amount /\ r.user \in U /\ r.to \in U
  BY <1>4
<1> HIDE DEF d, k
<1>6. /\ \A u \in Users \ DOMAIN snap[h] : wallet'[u] = wallet[u]
      /\ \A u \in DOMAIN snap[h] :
           /\ wallet[u].open /\ ~wallet[u].locked
           /\ wallet'[u].balance = wallet[u].balance + d[u]
      /\ wallet[r.user].balance >= r.amount
  <2>1. Post(h, d, k) /\ r.user \in DOMAIN snap[h]
    BY <1>1, <1>2
  <2> HIDE DEF r, U
  <2> QED
    BY <1>2, <1>3, <1>4, <2>1, PostNow DEF r
<1>7. /\ Usable(r.user) /\ Usable(r.to) /\ HasSufficientBalance(r.user, r.amount)
      /\ wallet'[r.user].balance = wallet[r.user].balance + (-r.amount)
      /\ wallet'[r.to].balance = wallet[r.to].balance + r.amount
      /\ \A u \in Users \ {r.user, r.to} : wallet'[u] = wallet[u]
  BY <1>2, <1>5, <1>6 DEF Usable, HasSufficientBalance
<1> HIDE DEF r, U
<1>8. /\ saga' = saga
      /\ txnStatus' = [txnStatus EXCEPT ![ReqKey(r.key)] = "COMPLETED",
                                        ![CreditKey(r.key)] = "COMPLETED"]
  BY <1>1
<1> QED
  BY <1>2, <1>4, <1>7, <1>8 DEF r

LEMMA DebitNow ==
  ASSUME LedgerInv, MoneyInv, NEW h \in Handlers, DebitForSaga(h)
  PROVE  LET r == req[h]
         IN  /\ r \in Requests /\ r.op = "debit" /\ r.amount > 0
             /\ Usable(r.user) /\ HasSufficientBalance(r.user, r.amount)
             /\ KeyFree(ReqKey(r.key)) /\ saga[r.saga].status = "none"
             /\ txnStatus' = [txnStatus EXCEPT ![ReqKey(r.key)] = "PENDING"]
             /\ saga' = [saga EXCEPT ![r.saga] =
                           [status |-> "PENDING", user |-> r.user,
                            amount |-> r.amount, key |-> r.key]]
             /\ wallet'[r.user].balance = wallet[r.user].balance + (-r.amount)
             /\ \A u \in Users \ {r.user} : wallet'[u] = wallet[u]
<1> DEFINE r == req[h]
           d == [u \in {r.user} |-> -r.amount]
           k == [u \in {r.user} |-> ReqKey(r.key)]
<1>1. /\ Commits(h, "debit") /\ Post(h, d, k)
      /\ txnStatus' = [txnStatus EXCEPT ![ReqKey(r.key)] = "PENDING"]
      /\ saga' = [saga EXCEPT ![r.saga] =
                    [status |-> "PENDING", user |-> r.user,
                     amount |-> r.amount, key |-> r.key]]
  BY DEF DebitForSaga
<1>2. /\ r \in Requests /\ r.op = "debit" /\ pc[h] = "open"
      /\ DOMAIN snap[h] = {r.user} /\ SagaCurrent(h)
      /\ \A u \in DOMAIN snap[h] : RowCurrent(h, u)
      /\ \A q \in KeysOf(r) : KeyFree(q)
  BY <1>1, CommitFacts DEF MoneyInv
<1>3. d \in [DOMAIN snap[h] -> Int] /\ k \in [DOMAIN snap[h] -> TxnKeys]
  BY <1>2, RequestTypes, KeyTypes
<1>4. /\ r.amount > 0 /\ r.op \in Keyed /\ KeyFree(ReqKey(r.key))
      /\ saga[r.saga].status = "none"
  <2>1. r.amount > 0 /\ r.op \in Keyed
    BY <1>2 DEF MoneyInv, ServesValid, Valid, Keyed
  <2>2. KeysOf(r) = {ReqKey(r.key)}
    BY <1>2 DEF KeysOf
  <2>3. saga[r.saga].status = "none"
    BY <1>2 DEF SagaCurrent, OnSaga
  <2> QED
    BY <1>2, <2>1, <2>2, <2>3
<1>5. d[r.user] = -r.amount
  OBVIOUS
<1> HIDE DEF d, k
<1>6. /\ \A u \in Users \ DOMAIN snap[h] : wallet'[u] = wallet[u]
      /\ \A u \in DOMAIN snap[h] :
           /\ wallet[u].open /\ ~wallet[u].locked
           /\ wallet'[u].balance = wallet[u].balance + d[u]
      /\ wallet[r.user].balance >= r.amount
  <2>1. Post(h, d, k) /\ r.user \in DOMAIN snap[h]
    BY <1>1, <1>2
  <2>2. /\ pc[h] = "open" /\ req[h].op \in Keyed
        /\ \A u \in DOMAIN snap[h] : RowCurrent(h, u)
        /\ req[h].op \in {"transfer", "debit"} /\ req[h].user \in DOMAIN snap[h]
    BY <1>2, <1>4, <2>1
  <2>3. /\ \A u \in Users \ DOMAIN snap[h] : wallet'[u] = wallet[u]
        /\ \A u \in DOMAIN snap[h] :
             /\ wallet[u].open
             /\ wallet'[u].balance = wallet[u].balance + d[u]
             /\ req[h].op \in Keyed => ~wallet[u].locked
        /\ wallet[req[h].user].balance >= req[h].amount
    <3> HIDE DEF r
    <3> QED
      BY <1>3, <2>1, <2>2, PostNow
  <2> QED
    BY <2>2, <2>3
<1>7. /\ Usable(r.user) /\ HasSufficientBalance(r.user, r.amount)
      /\ wallet'[r.user].balance = wallet[r.user].balance + (-r.amount)
      /\ \A u \in Users \ {r.user} : wallet'[u] = wallet[u]
  BY <1>2, <1>5, <1>6 DEF Usable, HasSufficientBalance
<1> QED
  BY <1>1, <1>2, <1>4, <1>7

LEMMA CompensateNow ==
  ASSUME LedgerInv, MoneyInv, NEW h \in Handlers, CompensateSaga(h)
  PROVE  LET s == req[h].saga
             g == saga[s]
         IN  /\ s \in Sagas /\ g.status = "PENDING" /\ g \in SagaRow
             /\ txnStatus' = [txnStatus EXCEPT ![ReqKey(g.key)] = "REVERSED",
                                               ![CompKey(s)] = "COMPLETED"]
             /\ saga' = [saga EXCEPT ![s].status = "COMPENSATED"]
             /\ wallet'[g.user].balance = wallet[g.user].balance + g.amount
             /\ \A u \in Users \ {g.user} : wallet'[u] = wallet[u]
<1> DEFINE s == req[h].saga
           g == snapSaga[h]
           d == [u \in {g.user} |-> g.amount]
           k == [u \in {g.user} |-> CompKey(s)]
<1>1. /\ Commits(h, "compensate") /\ Post(h, d, k)
      /\ txnStatus' = [txnStatus EXCEPT ![ReqKey(g.key)] = "REVERSED",
                                        ![CompKey(s)] = "COMPLETED"]
      /\ saga' = [saga EXCEPT ![s].status = "COMPENSATED"]
  BY DEF CompensateSaga
<1>2. /\ req[h] \in Requests /\ req[h].op = "compensate" /\ pc[h] = "open"
      /\ DOMAIN snap[h] = {g.user} /\ g \in SagaRow /\ saga[s] = g
      /\ \A u \in DOMAIN snap[h] : RowCurrent(h, u)
  BY <1>1, CommitFacts DEF MoneyInv, SagaCurrent, OnSaga
<1>3. d \in [DOMAIN snap[h] -> Int] /\ k \in [DOMAIN snap[h] -> TxnKeys] /\ s \in Sagas
  BY <1>2, RequestTypes, KeyTypes DEF SagaRow
<1>4. g.status = "PENDING" /\ d[g.user] = g.amount
  BY <1>2 DEF LedgerInv, SnapSound, OnSaga
<1> HIDE DEF d, k
<1>5. /\ \A u \in Users \ DOMAIN snap[h] : wallet'[u] = wallet[u]
      /\ \A u \in DOMAIN snap[h] : wallet'[u].balance = wallet[u].balance + d[u]
  <2>1. /\ Post(h, d, k) /\ pc[h] = "open"
        /\ \A u \in DOMAIN snap[h] : RowCurrent(h, u)
    BY <1>1, <1>2
  <2> HIDE DEF s, g
  <2> QED
    BY <1>3, <2>1, PostNow
<1>6. /\ wallet'[g.user].balance = wallet[g.user].balance + d[g.user]
      /\ \A u \in Users \ {g.user} : wallet'[u] = wallet[u]
  BY <1>2, <1>5
<1> QED
  BY <1>1, <1>2, <1>3, <1>4, <1>6

LEMMA CompleteNow ==
  ASSUME LedgerInv, MoneyInv, NEW h \in Handlers, CompleteSaga(h)
  PROVE  LET s == req[h].saga
             g == saga[s]
         IN  /\ s \in Sagas /\ g.status = "PENDING" /\ g \in SagaRow
             /\ txnStatus' = [txnStatus EXCEPT ![ReqKey(g.key)] = "COMPLETED"]
             /\ saga' = [saga EXCEPT ![s].status = "COMPLETED"]
             /\ wallet' = wallet
<1>1. Commits(h, "complete")
  BY DEF CompleteSaga
<1>2. /\ req[h] \in Requests /\ req[h].op = "complete" /\ pc[h] = "open"
      /\ snapSaga[h] \in SagaRow /\ saga[req[h].saga] = snapSaga[h]
  BY <1>1, CommitFacts DEF MoneyInv, SagaCurrent, OnSaga
<1>3. snapSaga[h].status = "PENDING" /\ req[h].saga \in Sagas
  BY <1>2, RequestTypes DEF LedgerInv, SnapSound, OnSaga
<1> QED
  BY <1>2, <1>3 DEF CompleteSaga

-----------------------------------------------------------------------------
(* What does not commit changes no balance.                                *)
LEMMA FlagBalances ==
  ASSUME TypeInv, NEW u \in Users, NEW v \in Users,
         CreateWallet(u) \/ ToggleLock(u)
  PROVE  /\ wallet'[v].balance = wallet[v].balance
         /\ wallet'[v].open = IF CreateWallet(u) /\ v = u THEN TRUE ELSE wallet[v].open
         /\ wallet'[v].locked = IF ToggleLock(u) /\ v = u THEN ~wallet[v].locked
                                                        ELSE wallet[v].locked
<1>1. \A w \in Users : wallet[w] \in WalletRow
  BY DEF TypeInv, TypeOK
<1>2. ~(CreateWallet(u) /\ ToggleLock(u))
  BY DEF CreateWallet, ToggleLock
<1>3. CASE CreateWallet(u)
  <2>1. wallet' = [wallet EXCEPT ![u] = [wallet[u] EXCEPT !.open = TRUE]]
    BY <1>3 DEF CreateWallet
  <2> QED
    BY <1>1, <1>2, <1>3, <2>1 DEF TypeInv, TypeOK, WalletRow
<1>4. CASE ToggleLock(u)
  <2> DEFINE b == ~wallet[u].locked
             row == [wallet[u] EXCEPT !.locked = b]
  <2>1. wallet' = [wallet EXCEPT ![u] = row]
    BY <1>4 DEF ToggleLock
  <2> HIDE DEF b
  <2>2. row.open = wallet[u].open /\ row.balance = wallet[u].balance /\ row.locked = b
    BY <1>1 DEF WalletRow
  <2> HIDE DEF row
  <2>3. wallet'[v] = IF v = u THEN row ELSE wallet[v]
    BY <2>1 DEF TypeInv, TypeOK
  <2> QED
    BY <1>2, <1>4, <2>2, <2>3 DEF b
<1> QED
  BY <1>3, <1>4

(* A commit moves the balance of a locked wallet only to give back what    *)
(* one of its own sagas held.                                              *)
LEMMA CommitFrozen ==
  ASSUME LedgerInv, MoneyInv, NEW h \in Handlers, Commit(h),
         NEW u \in Users, wallet[u].locked,
         wallet'[u].balance # wallet[u].balance
  PROVE  \E s \in Sagas : /\ saga[s].user = u /\ saga[s].status = "PENDING"
                          /\ saga'[s].status = "COMPENSATED"
                          /\ wallet'[u].balance = wallet[u].balance + saga[s].amount
<1>1. ~CreditWallet(h)
  BY CreditNow DEF Usable
<1>2. ~TransferWallet(h)
  BY TransferNow DEF Usable
<1>3. ~DebitForSaga(h)
  BY DebitNow DEF Usable
<1>4. ~CompleteSaga(h)
  BY CompleteNow
<1>5. CASE CompensateSaga(h)
  <2> DEFINE s == req[h].saga
             g == saga[s]
  <2>1. /\ s \in Sagas /\ g.status = "PENDING" /\ g \in SagaRow
        /\ saga' = [saga EXCEPT ![s].status = "COMPENSATED"]
        /\ wallet'[g.user].balance = wallet[g.user].balance + g.amount
        /\ \A v \in Users \ {g.user} : wallet'[v] = wallet[v]
    BY <1>5, CompensateNow
  <2>2. g.user = u
    BY <2>1
  <2>3. saga'[s].status = "COMPENSATED"
    BY <2>1 DEF MoneyInv, TypeInv, TypeOK, SagaRow
  <2> QED
    BY <2>1, <2>2, <2>3
<1> QED
  BY <1>1, <1>2, <1>3, <1>4, <1>5 DEF Commit

(* An administratively locked wallet loses no money and receives none,     *)
(* except what a compensation gives back, although the lock may have been  *)
(* set after the transaction read the row.                                 *)
THEOREM LockedStayFrozen == Spec => LockedWalletFrozen
<1> DEFINE Frozen(u) ==
      wallet[u].locked /\ wallet'[u].balance # wallet[u].balance =>
        \E s \in Sagas : /\ saga[s].user = u /\ saga[s].status = "PENDING"
                         /\ saga'[s].status = "COMPENSATED"
                         /\ wallet'[u].balance = wallet[u].balance + saga[s].amount
<1>1. ASSUME LedgerInv, MoneyInv, [Next]_vars, NEW u \in Users PROVE Frozen(u)
  <2>1. CASE \E h \in Handlers : Commit(h)
    BY <1>1, <2>1, CommitFrozen
  <2>2. CASE \E v \in Users : CreateWallet(v) \/ ToggleLock(v)
    BY <1>1, <2>2, FlagBalances DEF MoneyInv
  <2>3. wallet' = wallet => Frozen(u)
    OBVIOUS
  <2> HIDE DEF Frozen
  <2> QED
    BY <1>1, <2>1, <2>2, <2>3
    DEF Next, Serve, vars, db, Receive, ReceiveAgain, Begin, CompleteAgain,
        Reject, Conflict, Fail
<1>2. LedgerInv /\ MoneyInv /\ [Next]_vars => \A u \in Users : Frozen(u)
  BY <1>1
<1> QED
  BY <1>2, LedgerInvariant, PTL DEF Spec, LockedWalletFrozen

-----------------------------------------------------------------------------
(* The variables of Bank in terms of those of Wallet.                      *)
Opened == {u \in Users : wallet[u].open}
Locked == {u \in Users : wallet[u].locked}
Balance == [u \in Users |-> wallet[u].balance]
Used == {k \in TxnKeys : txnStatus[k] # "none"}

BankVars == <<Opened, Locked, Balance, Used, saga>>

(* The two modules share their vocabulary.                                 *)
LEMMA SameWords ==
  /\ B!NoSaga = NoSaga
  /\ \A k : B!ReqKey(k) = ReqKey(k) /\ B!CreditKey(k) = CreditKey(k)
  /\ \A s : B!CompKey(s) = CompKey(s)
BY DEF B!NoSaga, NoSaga, B!ReqKey, ReqKey, B!CreditKey, CreditKey, B!CompKey, CompKey

LEMMA InitBank == Init => B!Init
<1> SUFFICES ASSUME Init PROVE B!Init
  OBVIOUS
<1>1. /\ \A u \in Users : /\ wallet[u].open = FALSE /\ wallet[u].locked = FALSE
                          /\ wallet[u].balance = 0
      /\ \A k \in TxnKeys : txnStatus[k] = "none"
      /\ saga = [s \in Sagas |-> NoSaga]
  BY DEF Init
<1> QED
  BY <1>1, SameWords DEF B!Init

(* A commit leaves the flags alone; a rise of the keys and the balances of *)
(* some wallets is seen by Bank as such.                                   *)
LEMMA CommitFlags ==
  ASSUME TypeInv, NEW h \in Handlers, Commit(h)
  PROVE  Opened' = Opened /\ Locked' = Locked
BY CommitOpen DEF Opened, Locked

LEMMA UsedGrows ==
  ASSUME TypeInv, NEW K \in SUBSET TxnKeys,
         \A k \in K : txnStatus'[k] # "none",
         \A k \in TxnKeys \ K : txnStatus'[k] = txnStatus[k]
  PROVE  Used' = Used \cup K
BY DEF Used

LEMMA CreditBank ==
  ASSUME LedgerInv, MoneyInv, NEW h \in Handlers, CreditWallet(h),
         NEW r \in Requests, r = req[h]
  PROVE  B!Credit(r)
<1>1. TypeInv /\ DOMAIN txnStatus = TxnKeys
  BY DEF MoneyInv, TypeInv, TypeOK
<1>2. /\ r \in Requests /\ r.op = "credit" /\ r.amount > 0
      /\ Usable(r.user) /\ KeyFree(ReqKey(r.key)) /\ saga' = saga
      /\ txnStatus' = [txnStatus EXCEPT ![ReqKey(r.key)] = "COMPLETED"]
      /\ wallet'[r.user].balance = wallet[r.user].balance + r.amount
      /\ \A u \in Users \ {r.user} : wallet'[u] = wallet[u]
  BY CreditNow
<1>3. r.user \in Users /\ ReqKey(r.key) \in TxnKeys
  BY <1>2, RequestTypes, KeyTypes
<1>4. Used' = Used \cup {ReqKey(r.key)}
  BY <1>1, <1>2, <1>3, UsedGrows
<1>5. Opened' = Opened /\ Locked' = Locked
  BY <1>1, CommitFlags DEF Commit
<1>6. Balance' = [Balance EXCEPT ![r.user] = @ + r.amount]
  BY <1>2, <1>3 DEF Balance
<1>7. /\ r.user \in Opened /\ r.user \notin Locked /\ ReqKey(r.key) \notin Used
  BY <1>2, <1>3 DEF Usable, KeyFree, Opened, Locked, Used
<1> QED
  BY <1>2, <1>4, <1>5, <1>6, <1>7, SameWords
  DEF B!Credit, B!Usable, Opened, Locked, Balance, Used

LEMMA TransferBank ==
  ASSUME LedgerInv, MoneyInv, NEW h \in Handlers, TransferWallet(h),
         NEW r \in Requests, r = req[h]
  PROVE  B!Transfer(r)
<1> DEFINE K == {ReqKey(r.key), CreditKey(r.key)}
<1>1. TypeInv /\ DOMAIN txnStatus = TxnKeys
  BY DEF MoneyInv, TypeInv, TypeOK
<1>2. /\ r \in Requests /\ r.op = "transfer" /\ r.amount > 0 /\ r.user # r.to
      /\ Usable(r.user) /\ Usable(r.to) /\ HasSufficientBalance(r.user, r.amount)
      /\ KeyFree(ReqKey(r.key)) /\ KeyFree(CreditKey(r.key)) /\ saga' = saga
      /\ txnStatus' = [txnStatus EXCEPT ![ReqKey(r.key)] = "COMPLETED",
                                        ![CreditKey(r.key)] = "COMPLETED"]
      /\ wallet'[r.user].balance = wallet[r.user].balance + (-r.amount)
      /\ wallet'[r.to].balance = wallet[r.to].balance + r.amount
      /\ \A u \in Users \ {r.user, r.to} : wallet'[u] = wallet[u]
  BY TransferNow
<1>3. /\ r.user \in Users /\ r.to \in Users /\ r.amount \in Int
      /\ K \in SUBSET TxnKeys
      /\ wallet[r.user].balance \in Int
  BY <1>2, RequestTypes, KeyTypes, BalanceFacts
<1>4. Used' = Used \cup K
  <2>1. /\ \A k \in K : txnStatus'[k] # "none"
        /\ \A k \in TxnKeys \ K : txnStatus'[k] = txnStatus[k]
    BY <1>1, <1>2, <1>3
  <2> QED
    BY <1>1, <1>3, <2>1, UsedGrows
<1>5. Opened' = Opened /\ Locked' = Locked
  BY <1>1, CommitFlags DEF Commit
<1>6. wallet'[r.user].balance = wallet[r.user].balance - r.amount
  BY <1>2, <1>3
<1>7. Balance' = [Balance EXCEPT ![r.user] = @ - r.amount, ![r.to] = @ + r.amount]
  BY <1>2, <1>3, <1>6 DEF Balance
<1>8. /\ r.user \in Opened /\ r.user \notin Locked
      /\ r.to \in Opened /\ r.to \notin Locked
      /\ Balance[r.user] >= r.amount /\ K \cap Used = {}
  BY <1>2, <1>3
  DEF Usable, KeyFree, HasSufficientBalance, Opened, Locked, Balance, Used
<1> QED
  BY <1>2, <1>4, <1>5, <1>7, <1>8, SameWords
  DEF B!Transfer, B!Usable, Opened, Locked, Balance, Used

LEMMA DebitBank ==
  ASSUME LedgerInv, MoneyInv, NEW h \in Handlers, DebitForSaga(h),
         NEW r \in Requests, r = req[h]
  PROVE  B!Hold(r)
<1>1. TypeInv /\ DOMAIN txnStatus = TxnKeys
  BY DEF MoneyInv, TypeInv, TypeOK
<1>2. /\ r \in Requests /\ r.op = "debit" /\ r.amount > 0
      /\ Usable(r.user) /\ HasSufficientBalance(r.user, r.amount)
      /\ KeyFree(ReqKey(r.key)) /\ saga[r.saga].status = "none"
      /\ txnStatus' = [txnStatus EXCEPT ![ReqKey(r.key)] = "PENDING"]
      /\ saga' = [saga EXCEPT ![r.saga] =
                    [status |-> "PENDING", user |-> r.user,
                     amount |-> r.amount, key |-> r.key]]
      /\ wallet'[r.user].balance = wallet[r.user].balance + (-r.amount)
      /\ \A u \in Users \ {r.user} : wallet'[u] = wallet[u]
  BY DebitNow
<1>3. /\ r.user \in Users /\ r.amount \in Int /\ ReqKey(r.key) \in TxnKeys
      /\ wallet[r.user].balance \in Int
  BY <1>2, RequestTypes, KeyTypes, BalanceFacts
<1>4. Used' = Used \cup {ReqKey(r.key)}
  BY <1>1, <1>2, <1>3, UsedGrows
<1>5. Opened' = Opened /\ Locked' = Locked
  BY <1>1, CommitFlags DEF Commit
<1>6. wallet'[r.user].balance = wallet[r.user].balance - r.amount
  BY <1>2, <1>3
<1>7. Balance' = [Balance EXCEPT ![r.user] = @ - r.amount]
  BY <1>2, <1>3, <1>6 DEF Balance
<1>8. /\ r.user \in Opened /\ r.user \notin Locked
      /\ Balance[r.user] >= r.amount /\ ReqKey(r.key) \notin Used
  BY <1>2, <1>3
  DEF Usable, KeyFree, HasSufficientBalance, Opened, Locked, Balance, Used
<1> QED
  BY <1>2, <1>4, <1>5, <1>7, <1>8, SameWords
  DEF B!Hold, B!Usable, Opened, Locked, Balance, Used

LEMMA CompensateBank ==
  ASSUME LedgerInv, MoneyInv, NEW h \in Handlers, CompensateSaga(h),
         NEW s \in Sagas, s = req[h].saga
  PROVE  B!Refund(s)
<1> DEFINE g == saga[s]
<1>1. TypeInv /\ DOMAIN txnStatus = TxnKeys
  BY DEF MoneyInv, TypeInv, TypeOK
<1>2. /\ s \in Sagas /\ g.status = "PENDING" /\ g \in SagaRow
      /\ txnStatus' = [txnStatus EXCEPT ![ReqKey(g.key)] = "REVERSED",
                                        ![CompKey(s)] = "COMPLETED"]
      /\ saga' = [saga EXCEPT ![s].status = "COMPENSATED"]
      /\ wallet'[g.user].balance = wallet[g.user].balance + g.amount
      /\ \A u \in Users \ {g.user} : wallet'[u] = wallet[u]
  BY CompensateNow
<1>3. /\ g.user \in Users /\ ReqKey(g.key) \in TxnKeys /\ CompKey(s) \in TxnKeys
      /\ ReqKey(g.key) \in Used
  BY <1>1, <1>2, KeyTypes, SagaTypes, SagaKeyTaken DEF Used
<1>4. Used' = Used \cup {CompKey(s)}
  <2> DEFINE K == {ReqKey(g.key), CompKey(s)}
  <2>1. /\ \A k \in K : txnStatus'[k] # "none"
        /\ \A k \in TxnKeys \ K : txnStatus'[k] = txnStatus[k]
    BY <1>1, <1>2, <1>3
  <2>2. Used' = Used \cup K
    BY <1>1, <1>3, <2>1, UsedGrows
  <2> QED
    BY <1>3, <2>2
<1>5. Opened' = Opened /\ Locked' = Locked
  BY <1>1, CommitFlags DEF Commit
<1>6. Balance' = [Balance EXCEPT ![g.user] = @ + g.amount]
  BY <1>2, <1>3 DEF Balance
<1> QED
  BY <1>2, <1>4, <1>5, <1>6, SameWords
  DEF B!Refund, Opened, Locked, Balance, Used

LEMMA CompleteBank ==
  ASSUME LedgerInv, MoneyInv, NEW h \in Handlers, CompleteSaga(h),
         NEW s \in Sagas, s = req[h].saga
  PROVE  B!Settle(s)
<1> DEFINE g == saga[s]
<1>1. TypeInv /\ DOMAIN txnStatus = TxnKeys
  BY DEF MoneyInv, TypeInv, TypeOK
<1>2. /\ s \in Sagas /\ g.status = "PENDING" /\ g \in SagaRow
      /\ txnStatus' = [txnStatus EXCEPT ![ReqKey(g.key)] = "COMPLETED"]
      /\ saga' = [saga EXCEPT ![s].status = "COMPLETED"]
      /\ wallet' = wallet
  BY CompleteNow
<1>3. ReqKey(g.key) \in TxnKeys /\ ReqKey(g.key) \in Used
  BY <1>1, <1>2, SagaTypes, SagaKeyTaken DEF Used
<1>4. Used' = Used
  BY <1>1, <1>2, <1>3 DEF Used
<1>5. Opened' = Opened /\ Locked' = Locked /\ Balance' = Balance
  BY <1>2 DEF Opened, Locked, Balance
<1> QED
  BY <1>2, <1>4, <1>5 DEF B!Settle, Opened, Locked, Balance, Used

LEMMA FlagBank ==
  ASSUME TypeInv, NEW u \in Users, CreateWallet(u) \/ ToggleLock(u)
  PROVE  B!Open(u) \/ B!ToggleLock(u)
<1>1. /\ UNCHANGED <<txnStatus, saga>>
      /\ CreateWallet(u) => ~ToggleLock(u)
      /\ CreateWallet(u) => ~wallet[u].open
      /\ ToggleLock(u) => wallet[u].open
  BY DEF CreateWallet, ToggleLock
<1>2. Balance' = Balance /\ Used' = Used
  BY <1>1, FlagBalances DEF Balance, Used
<1>3. CASE CreateWallet(u)
  <2>1. Opened' = Opened \cup {u} /\ Locked' = Locked /\ u \notin Opened
    BY <1>1, <1>3, FlagBalances DEF Opened, Locked
  <2> QED
    BY <1>1, <1>2, <2>1 DEF B!Open, Opened, Locked, Balance, Used
<1>4. CASE ToggleLock(u)
  <2>1. \A v \in Users : /\ wallet'[v].open = wallet[v].open
                         /\ v # u => wallet'[v].locked = wallet[v].locked
                         /\ v = u => wallet'[v].locked = ~wallet[v].locked
    BY <1>1, <1>4, FlagBalances
  <2>2. Opened' = Opened /\ u \in Opened
    BY <1>1, <1>4, <2>1 DEF Opened
  <2>3. Locked' = IF u \in Locked THEN Locked \ {u} ELSE Locked \cup {u}
    BY <2>1 DEF Locked
  <2> QED
    BY <1>1, <1>2, <2>2, <2>3 DEF B!ToggleLock, Opened, Locked, Balance, Used
<1> QED
  BY <1>3, <1>4

LEMMA NextBank ==
  ASSUME LedgerInv, MoneyInv, [Next]_vars
  PROVE  [B!Next]_B!vars
<1>0. TypeInv
  BY DEF MoneyInv
<1>1. ASSUME NEW h \in Handlers, Commit(h) PROVE B!Next
  <2>1. CASE CreditWallet(h)
    <3>1. PICK r \in Requests : r = req[h]
      BY <2>1, CreditNow
    <3>2. B!Credit(r)
      BY <2>1, <3>1, CreditBank
    <3> QED
      BY <3>2 DEF B!Next
  <2>2. CASE TransferWallet(h)
    <3>1. PICK r \in Requests : r = req[h]
      BY <2>2, TransferNow
    <3>2. B!Transfer(r)
      BY <2>2, <3>1, TransferBank
    <3> QED
      BY <3>2 DEF B!Next
  <2>3. CASE DebitForSaga(h)
    <3>1. PICK r \in Requests : r = req[h]
      BY <2>3, DebitNow
    <3>2. B!Hold(r)
      BY <2>3, <3>1, DebitBank
    <3> QED
      BY <3>2 DEF B!Next
  <2>4. CASE CompensateSaga(h)
    <3>1. PICK s \in Sagas : s = req[h].saga
      BY <2>4, CompensateNow
    <3>2. B!Refund(s)
      BY <2>4, <3>1, CompensateBank
    <3> QED
      BY <3>2 DEF B!Next
  <2>5. CASE CompleteSaga(h)
    <3>1. PICK s \in Sagas : s = req[h].saga
      BY <2>5, CompleteNow
    <3>2. B!Settle(s)
      BY <2>5, <3>1, CompleteBank
    <3> QED
      BY <3>2 DEF B!Next
  <2> QED
    BY <1>1, <2>1, <2>2, <2>3, <2>4, <2>5 DEF Commit
<1>2. ASSUME NEW u \in Users, CreateWallet(u) \/ ToggleLock(u) PROVE B!Next
  BY <1>0, <1>2, FlagBank DEF B!Next
<1>3. ASSUME UNCHANGED db PROVE UNCHANGED B!vars
  BY <1>3 DEF db, B!vars
<1> QED
  BY <1>1, <1>2, <1>3
  DEF Next, Serve, vars, db, Receive, ReceiveAgain, Begin, CompleteAgain,
      Reject, Conflict, Fail

(* wallet-service implements Bank: seen from the money, the keys and the   *)
(* sagas, every step of the handlers, with their snapshots, version tests  *)
(* and lost races, is one atomic operation on the current balances, or     *)
(* nothing at all.                                                         *)
THEOREM WalletImplementsBank == Spec => ImplementsBank
<1>1. LedgerInv /\ MoneyInv /\ [Next]_vars => [B!Next]_B!vars
  BY NextBank
<1> QED
  BY <1>1, InitBank, LedgerInvariant, PTL DEF Spec, ImplementsBank, B!Spec

-----------------------------------------------------------------------------
(* Sums over finite sets.                                                  *)
(* The sum over S unfolds to the recursive function of Folds, which adds    *)
(* the element that CHOOSE picks from a set to the sum of the others.      *)
Pick(s) == CHOOSE x \in s : TRUE
Rest(F, f, s) == IF s = {} THEN 0 ELSE f[Pick(s)] + F[s \ {Pick(s)}]
Adds(F, f, S) == F = [s \in SUBSET S |-> Rest(F, f, s)]

LEMMA SumIs ==
  ASSUME NEW f, NEW S
  PROVE  Sum(f, S) = (CHOOSE F : Adds(F, f, S))[S]
BY DEF Sum, MapThenSumSet, MapThenFoldSet, Adds, Rest, Pick

LEMMA PickIn == ASSUME NEW s, s # {} PROVE Pick(s) \in s
BY DEF Pick

(* Of subsets of a finite set, one is smallest: how sums are reasoned      *)
(* about, by a smallest counterexample.                                    *)
LEMMA Smallest ==
  ASSUME NEW S, IsFiniteSet(S), NEW Sets \in SUBSET SUBSET S, Sets # {}
  PROVE  \E s \in Sets : \A t \in Sets : t \subseteq s => t = s
<1>1. IsWellFoundedOn(StrictSubsetOrdering(S), SUBSET S)
  BY FS_StrictSubsetOrderingWellFounded, FS_FiniteSubsetsOfFinite
<1>2. PICK s \in Sets : \A t \in Sets : <<t, s>> \notin StrictSubsetOrdering(S)
  BY <1>1, WFMin
<1> QED
  BY <1>2 DEF StrictSubsetOrdering

LEMMA AddsOnce ==
  ASSUME NEW f, NEW S, IsFiniteSet(S), NEW T, S \subseteq T,
         NEW F, Adds(F, f, S), NEW G, Adds(G, f, T)
  PROVE  \A s \in SUBSET S : F[s] = G[s]
<1> DEFINE Bad == {s \in SUBSET S : F[s] # G[s]}
<1> SUFFICES ASSUME Bad # {} PROVE FALSE
  OBVIOUS
<1>1. PICK s \in Bad : \A t \in Bad : t \subseteq s => t = s
  <2>1. Bad \in SUBSET SUBSET S
    OBVIOUS
  <2> HIDE DEF Bad
  <2> QED
    BY <2>1, Smallest
<1>2. F[s] = Rest(F, f, s) /\ G[s] = Rest(G, f, s)
  BY DEF Adds
<1>3. s # {}
  BY <1>1, <1>2 DEF Rest
<1>4. F[s \ {Pick(s)}] = G[s \ {Pick(s)}]
  BY <1>1, <1>3, PickIn
<1> QED
  BY <1>1, <1>2, <1>4 DEF Rest

LEMMA SumStep ==
  ASSUME NEW f, NEW S, NEW F, Adds(F, f, S), IsFiniteSet(S)
  PROVE  \A s \in SUBSET S : F[s] = Sum(f, s)
<1> TAKE s \in SUBSET S
<1>1. IsFiniteSet(s)
  BY FS_Subset
<1> DEFINE G == [t \in SUBSET s |-> F[t]]
<1>2. Adds(G, f, s)
  <2>1. ASSUME NEW t \in SUBSET s PROVE F[t] = Rest(G, f, t)
    <3>1. F[t] = Rest(F, f, t)
      BY DEF Adds
    <3> QED
      BY <3>1 DEF Rest
  <2> QED
    BY <2>1 DEF Adds
<1> HIDE DEF G
<1>3. PICK H : H = CHOOSE K : Adds(K, f, s)
  OBVIOUS
<1>4. Adds(H, f, s)
  BY <1>2, <1>3
<1>5. H[s] = F[s]
  BY <1>1, <1>4, AddsOnce
<1> QED
  BY <1>3, <1>5, SumIs

LEMMA AddsExists ==
  ASSUME NEW f, NEW S, IsFiniteSet(S)
  PROVE  \E F : Adds(F, f, S)
<1> DEFINE Bad == {s \in SUBSET S : ~ \E F : Adds(F, f, s)}
<1> SUFFICES ASSUME Bad # {} PROVE FALSE
  BY DEF Bad
<1>1. PICK s \in Bad : \A t \in Bad : t \subseteq s => t = s
  <2>1. Bad \in SUBSET SUBSET S
    OBVIOUS
  <2> HIDE DEF Bad
  <2> QED
    BY <2>1, Smallest
<1> DEFINE V == [t \in SUBSET s |-> Sum(f, t)]
           G == [t \in SUBSET s |-> Rest(V, f, t)]
<1>2. ASSUME NEW t \in SUBSET s, t # s PROVE G[t] = V[t]
  <2>1. PICK F : Adds(F, f, t)
    BY <1>1, <1>2
  <2>2. IsFiniteSet(t)
    BY FS_Subset
  <2>3. \A r \in SUBSET t : F[r] = V[r]
    BY <2>1, <2>2, SumStep
  <2>4. F[t] = Rest(F, f, t)
    BY <2>1 DEF Adds
  <2>5. Rest(F, f, t) = Rest(V, f, t)
    BY <2>3 DEF Rest
  <2> QED
    BY <2>3, <2>4, <2>5
<1>3. ASSUME NEW t \in SUBSET s PROVE G[t] = Rest(G, f, t)
  <2>1. CASE t = {}
    BY <2>1 DEF Rest
  <2>2. CASE t # {}
    <3>1. Pick(t) \in t
      BY <2>2, PickIn
    <3>2. G[t \ {Pick(t)}] = V[t \ {Pick(t)}]
      BY <1>2, <3>1
    <3> QED
      BY <3>2 DEF Rest
  <2> QED
    BY <2>1, <2>2
<1>4. Adds(G, f, s)
  BY <1>3 DEF Adds
<1> QED
  BY <1>1, <1>4

(* What is used of Sum from here on.                                       *)
LEMMA SumUnfolds ==
  ASSUME NEW f, NEW S, IsFiniteSet(S)
  PROVE  Sum(f, S) = IF S = {} THEN 0 ELSE f[Pick(S)] + Sum(f, S \ {Pick(S)})
<1>1. PICK F : Adds(F, f, S)
  BY AddsExists
<1>2. F[S] = Sum(f, S) /\ F[S \ {Pick(S)}] = Sum(f, S \ {Pick(S)})
  BY <1>1, SumStep
<1>3. F[S] = Rest(F, f, S)
  BY <1>1 DEF Adds
<1> QED
  BY <1>2, <1>3 DEF Rest

LEMMA SumType ==
  ASSUME NEW S, IsFiniteSet(S), NEW f, \A x \in S : f[x] \in Int
  PROVE  Sum(f, S) \in Int
<1> DEFINE Bad == {s \in SUBSET S : Sum(f, s) \notin Int}
<1> SUFFICES ASSUME Bad # {} PROVE FALSE
  OBVIOUS
<1>1. PICK s \in Bad : \A t \in Bad : t \subseteq s => t = s
  <2>1. Bad \in SUBSET SUBSET S
    OBVIOUS
  <2> HIDE DEF Bad
  <2> QED
    BY <2>1, Smallest
<1>2. Sum(f, s) = IF s = {} THEN 0 ELSE f[Pick(s)] + Sum(f, s \ {Pick(s)})
  BY FS_Subset, SumUnfolds
<1>3. s # {} => Pick(s) \in s
  BY PickIn
<1>4. s # {} => Sum(f, s \ {Pick(s)}) \in Int
  BY <1>1, <1>3
<1> QED
  BY <1>1, <1>2, <1>3, <1>4

(* Sums agree where their terms do.                                        *)
LEMMA SumSame ==
  ASSUME NEW S, IsFiniteSet(S), NEW f, NEW g, \A x \in S : f[x] = g[x]
  PROVE  Sum(f, S) = Sum(g, S)
<1> DEFINE Bad == {s \in SUBSET S : Sum(f, s) # Sum(g, s)}
<1> SUFFICES ASSUME Bad # {} PROVE FALSE
  OBVIOUS
<1>1. PICK s \in Bad : \A t \in Bad : t \subseteq s => t = s
  <2>1. Bad \in SUBSET SUBSET S
    OBVIOUS
  <2> HIDE DEF Bad
  <2> QED
    BY <2>1, Smallest
<1>2. /\ Sum(f, s) = IF s = {} THEN 0 ELSE f[Pick(s)] + Sum(f, s \ {Pick(s)})
      /\ Sum(g, s) = IF s = {} THEN 0 ELSE g[Pick(s)] + Sum(g, s \ {Pick(s)})
  BY FS_Subset, SumUnfolds
<1>3. s # {} => Pick(s) \in s
  BY PickIn
<1>4. s # {} => Sum(f, s \ {Pick(s)}) = Sum(g, s \ {Pick(s)})
  BY <1>1, <1>3
<1> QED
  BY <1>1, <1>2, <1>3, <1>4

(* Any element may be taken out first.                                     *)
LEMMA SumRemove ==
  ASSUME NEW S, IsFiniteSet(S), NEW f, \A x \in S : f[x] \in Int, NEW y \in S
  PROVE  Sum(f, S) = f[y] + Sum(f, S \ {y})
<1> DEFINE Bad == {s \in SUBSET S : \E x \in s : Sum(f, s) # f[x] + Sum(f, s \ {x})}
<1> SUFFICES ASSUME Bad # {} PROVE FALSE
  OBVIOUS
<1>1. PICK s \in Bad : \A t \in Bad : t \subseteq s => t = s
  <2>1. Bad \in SUBSET SUBSET S
    OBVIOUS
  <2> HIDE DEF Bad
  <2> QED
    BY <2>1, Smallest
<1>2. PICK x \in s : Sum(f, s) # f[x] + Sum(f, s \ {x})
  BY <1>1
<1> DEFINE c == Pick(s)
<1>3. Sum(f, s) = f[c] + Sum(f, s \ {c})
  BY <1>2, FS_Subset, SumUnfolds
<1>4. c \in s /\ c # x
  BY <1>2, <1>3, PickIn
<1> HIDE DEF c
<1>5. s \in SUBSET S /\ \A t \in SUBSET s : t # s =>
        \A z \in t : Sum(f, t) = f[z] + Sum(f, t \ {z})
  BY <1>1
<1> HIDE DEF Bad
<1>6. /\ Sum(f, s \ {c}) = f[x] + Sum(f, (s \ {c}) \ {x})
      /\ Sum(f, s \ {x}) = f[c] + Sum(f, (s \ {x}) \ {c})
  BY <1>2, <1>4, <1>5
<1>7. (s \ {c}) \ {x} = (s \ {x}) \ {c}
  OBVIOUS
<1>8. Sum(f, (s \ {x}) \ {c}) \in Int
  <2>1. IsFiniteSet((s \ {x}) \ {c})
    BY <1>5, FS_Subset
  <2> QED
    BY <1>5, <2>1, SumType
<1>9. f[c] \in Int /\ f[x] \in Int
  BY <1>2, <1>4, <1>5
<1> DEFINE p == Sum(f, s \ {c})  q == Sum(f, s \ {x})
           rest == Sum(f, (s \ {x}) \ {c})
<1>10. /\ p = f[x] + rest /\ q = f[c] + rest /\ rest \in Int
       /\ Sum(f, s) = f[c] + p /\ Sum(f, s) # f[x] + q
  BY <1>2, <1>3, <1>6, <1>7, <1>8
<1> HIDE DEF p, q, rest
<1> QED
  BY <1>9, <1>10

(* A new element adds its term.                                            *)
LEMMA SumAdd ==
  ASSUME NEW S, IsFiniteSet(S), NEW y, y \notin S,
         NEW f, \A x \in S \cup {y} : f[x] \in Int
  PROVE  Sum(f, S \cup {y}) = f[y] + Sum(f, S)
<1> DEFINE T == S \cup {y}
<1>1. IsFiniteSet(T) /\ y \in T /\ T \ {y} = S
  BY FS_AddElement
<1> HIDE DEF T
<1>2. Sum(f, T) = f[y] + Sum(f, T \ {y})
  BY <1>1, SumRemove DEF T
<1> QED
  BY <1>1, <1>2 DEF T

(* One term changes, and the sum with it.                                  *)
LEMMA SumChange ==
  ASSUME NEW S, IsFiniteSet(S), NEW y \in S, NEW d \in Int,
         NEW f, \A x \in S : f[x] \in Int,
         NEW g, g[y] = f[y] + d, \A x \in S \ {y} : g[x] = f[x]
  PROVE  Sum(g, S) = Sum(f, S) + d
<1>1. \A x \in S : g[x] \in Int
  OBVIOUS
<1>2. IsFiniteSet(S \ {y})
  BY FS_Subset
<1>3. Sum(f, S \ {y}) = Sum(g, S \ {y})
  BY <1>2, SumSame
<1>4. Sum(f, S \ {y}) \in Int
  BY <1>2, SumType
<1>5. Sum(f, S) = f[y] + Sum(f, S \ {y})
  BY SumRemove
<1>6. Sum(g, S) = g[y] + Sum(g, S \ {y})
  BY <1>1, SumRemove
<1>7. f[y] \in Int
  OBVIOUS
<1> QED
  BY <1>3, <1>4, <1>5, <1>6, <1>7

-----------------------------------------------------------------------------
LEMMA CreditsFinite ==
  ASSUME NEW l, Len(l) \in Nat, NEW u
  PROVE  IsFiniteSet(Credits(l, u))
<1>1. IsFiniteSet(1..Len(l))
  BY FS_Interval
<1> QED
  BY <1>1, FS_Subset DEF Credits

(* What a new entry adds to the money paid in.                             *)
LEMMA PaidAppend ==
  ASSUME NEW u, NEW l, NEW m, Len(l) \in Nat, Len(m) = Len(l) + 1,
         \A i \in 1..Len(l) : m[i] = l[i] /\ l[i].amount \in Int,
         m[Len(m)].amount \in Int
  PROVE  PaidIn(m, u) = PaidIn(l, u)
                        + IF IsCredit(u, m[Len(m)].key) THEN m[Len(m)].amount ELSE 0
<1> DEFINE n == Len(m)
           C == Credits(l, u)
           D == Credits(m, u)
           f == [i \in C |-> l[i].amount]
           g == [i \in D |-> m[i].amount]
<1>1. /\ n \in Nat /\ 1..n = 1..Len(l) \cup {n} /\ n \notin 1..Len(l)
      /\ C \subseteq 1..Len(l)
  BY DEF Credits
<1>2. D = IF IsCredit(u, m[n].key) THEN C \cup {n} ELSE C
  BY <1>1 DEF Credits
<1>3. IsFiniteSet(C)
  BY CreditsFinite
<1>4. C \subseteq D /\ n \notin C
  BY <1>1, <1>2
<1>5. \A i \in C : f[i] = g[i]
  BY <1>1, <1>4
<1>6. \A i \in D : g[i] \in Int
  BY <1>1, <1>2
<1>7. n \in D => g[n] = m[n].amount
  OBVIOUS
<1>8. PaidIn(l, u) = Sum(f, C) /\ PaidIn(m, u) = Sum(g, D)
  BY DEF PaidIn
<1> HIDE DEF C, D, f, g
<1>9. Sum(f, C) = Sum(g, C) /\ Sum(g, C) \in Int
  BY <1>3, <1>4, <1>5, <1>6, SumSame, SumType
<1>10. CASE IsCredit(u, m[n].key)
  <2>1. D = C \cup {n}
    BY <1>2, <1>10
  <2>2. Sum(g, C \cup {n}) = g[n] + Sum(g, C)
    BY <1>3, <1>4, <1>6, <2>1, SumAdd
  <2> QED
    BY <1>6, <1>7, <1>8, <1>9, <1>10, <2>1, <2>2
<1>11. CASE ~IsCredit(u, m[n].key)
  BY <1>2, <1>8, <1>9, <1>11
<1> QED
  BY <1>10, <1>11

LEMMA AmountTypes ==
  ASSUME TypeInv, NEW u \in Users
  PROVE  /\ Len(ledger[u]) \in Nat
         /\ \A i \in 1..Len(ledger[u]) : ledger[u][i].amount \in Int
<1>1. ledger[u] \in Seq(Entry)
  BY DEF TypeInv, TypeOK
<1>2. \A i \in 1..Len(ledger[u]) : ledger[u][i] \in Entry
  BY <1>1
<1> QED
  BY <1>1, <1>2 DEF Entry

LEMMA PaidType ==
  ASSUME TypeInv, NEW u \in Users
  PROVE  PaidIn(ledger[u], u) \in Int
<1> DEFINE C == Credits(ledger[u], u)
           f == [i \in C |-> ledger[u][i].amount]
<1>1. /\ Len(ledger[u]) \in Nat
      /\ \A i \in 1..Len(ledger[u]) : ledger[u][i].amount \in Int
  BY AmountTypes
<1>2. IsFiniteSet(C) /\ \A i \in C : f[i] \in Int
  BY <1>1, CreditsFinite DEF Credits
<1> HIDE DEF C, f
<1> QED
  BY <1>2, SumType DEF PaidIn, C, f

(* The tables' sums are of integers over finite sets.                      *)
LEMMA MoneyTypes ==
  ASSUME TypeInv
  PROVE  /\ \A u \in Users : Credited[u] \in Int /\ Balances[u] \in Int
         /\ \A s \in Sagas : Amounts[s] \in Int
         /\ IsFiniteSet(Kept) /\ Kept \subseteq Sagas
         /\ Sum(Credited, Users) \in Int /\ Sum(Balances, Users) \in Int
         /\ Sum(Amounts, Kept) \in Int
<1>1. \A u \in Users : Credited[u] \in Int /\ Balances[u] \in Int
  BY PaidType DEF Credited, Balances, TypeInv, TypeOK, WalletRow
<1>2. \A s \in Sagas : Amounts[s] \in Int
  BY DEF Amounts, TypeInv, TypeOK, SagaRow
<1>3. IsFiniteSet(Kept) /\ Kept \subseteq Sagas
  BY FiniteTables, FS_Subset DEF Kept
<1>4. \A s \in Kept : Amounts[s] \in Int
  BY <1>2, <1>3
<1>5. Sum(Amounts, Kept) \in Int
  BY <1>3, <1>4, SumType
<1>6. Sum(Credited, Users) \in Int /\ Sum(Balances, Users) \in Int
  BY <1>1, FiniteTables, SumType
<1> QED
  BY <1>1, <1>2, <1>3, <1>5, <1>6

(* The amounts a commit posts to credits, and nothing else, are paid in.   *)
LEMMA PostCredited ==
  ASSUME TypeInv, NEW h \in Handlers,
         NEW delta \in [DOMAIN snap[h] -> Int],
         NEW key \in [DOMAIN snap[h] -> TxnKeys],
         Post(h, delta, key), NEW u \in Users
  PROVE  Credited'[u] = IF u \in DOMAIN snap[h] /\ IsCredit(u, key[u])
                        THEN Credited[u] + delta[u] ELSE Credited[u]
<1> DEFINE l == ledger[u]
           m == ledger'[u]
<1>1. /\ Len(l) \in Nat
      /\ u \notin DOMAIN snap[h] => m = l
      /\ u \in DOMAIN snap[h] =>
           /\ Len(m) = Len(l) + 1
           /\ \A i \in 1..Len(l) : m[i] = l[i]
           /\ m[Len(l) + 1].key = key[u]
           /\ m[Len(l) + 1].amount = delta[u]
  BY PostEntries
<1>2. \A i \in 1..Len(l) : l[i].amount \in Int
  BY AmountTypes
<1>3. Credited[u] = PaidIn(l, u) /\ Credited'[u] = PaidIn(m, u) /\ PaidIn(l, u) \in Int
  BY PaidType DEF Credited
<1> HIDE DEF l, m
<1>4. CASE u \notin DOMAIN snap[h]
  BY <1>1, <1>3, <1>4
<1>5. CASE u \in DOMAIN snap[h]
  <2>1. /\ Len(m) = Len(l) + 1 /\ \A i \in 1..Len(l) : m[i] = l[i]
        /\ m[Len(m)].key = key[u] /\ m[Len(m)].amount = delta[u] /\ delta[u] \in Int
    BY <1>1, <1>5
  <2>2. PaidIn(m, u) = PaidIn(l, u)
                       + IF IsCredit(u, m[Len(m)].key) THEN m[Len(m)].amount ELSE 0
    BY <1>1, <1>2, <2>1, PaidAppend
  <2> QED
    BY <1>3, <1>5, <2>1, <2>2
<1> QED
  BY <1>4, <1>5

-----------------------------------------------------------------------------
(* Of the keys a commit records, only a credit's is a credit key: its      *)
(* caller chose it for no other request, and derived keys are of no caller.*)
LEMMA CreditKeys ==
  ASSUME NEW r \in Requests, r.op \in Keyed
  PROVE  /\ r.op = "credit" => IsCredit(r.user, ReqKey(r.key))
         /\ r.op # "credit" => \A u : ~IsCredit(u, ReqKey(r.key))
BY KeysIdentifyRequests, KeysDiffer DEF IsCredit, Keyed

LEMMA DerivedKeys ==
  ASSUME NEW u
  PROVE  /\ \A k : ~IsCredit(u, CreditKey(k))
         /\ \A s : ~IsCredit(u, CompKey(s))
BY KeysDiffer DEF IsCredit

(* The balances' sum moves with one wallet's balance.                      *)
LEMMA BalanceMoves ==
  ASSUME TypeInv, NEW u \in Users, NEW d \in Int,
         wallet'[u].balance = wallet[u].balance + d,
         \A v \in Users \ {u} : wallet'[v] = wallet[v]
  PROVE  Sum(Balances', Users) = Sum(Balances, Users) + d
<1>1. Balances'[u] = Balances[u] + d /\ \A v \in Users \ {u} : Balances'[v] = Balances[v]
  BY DEF Balances
<1>2. \A v \in Users : Balances[v] \in Int
  BY MoneyTypes
<1> QED
  BY <1>1, <1>2, FiniteTables, SumChange

(* A commit that posts no credit leaves the money paid in as it was.       *)
LEMMA NothingPaidIn ==
  ASSUME TypeInv, NEW h \in Handlers,
         NEW delta \in [DOMAIN snap[h] -> Int],
         NEW key \in [DOMAIN snap[h] -> TxnKeys],
         Post(h, delta, key),
         \A u \in DOMAIN snap[h] : ~IsCredit(u, key[u])
  PROVE  Sum(Credited', Users) = Sum(Credited, Users)
<1>1. \A u \in Users : Credited'[u] = Credited[u]
  BY PostCredited
<1> QED
  BY <1>1, FiniteTables, SumSame

LEMMA CreditConserves ==
  ASSUME LedgerInv, MoneyInv, MoneyConserved, NEW h \in Handlers, CreditWallet(h)
  PROVE  MoneyConserved'
<1> DEFINE r == req[h]
           d == [u \in {r.user} |-> r.amount]
           k == [u \in {r.user} |-> ReqKey(r.key)]
<1>1. Commits(h, "credit") /\ Post(h, d, k) /\ TypeInv
  BY DEF CreditWallet, MoneyInv
<1>2. r \in Requests /\ DOMAIN snap[h] = {r.user}
  BY <1>1, CommitFacts
<1>3. /\ r.op = "credit" /\ saga' = saga
      /\ wallet'[r.user].balance = wallet[r.user].balance + r.amount
      /\ \A u \in Users \ {r.user} : wallet'[u] = wallet[u]
  BY CreditNow
<1>4. /\ r.user \in Users /\ r.amount \in Int /\ IsCredit(r.user, ReqKey(r.key))
      /\ d \in [DOMAIN snap[h] -> Int] /\ k \in [DOMAIN snap[h] -> TxnKeys]
  BY <1>2, <1>3, RequestTypes, KeyTypes, CreditKeys DEF Keyed
<1>5. d[r.user] = r.amount /\ k[r.user] = ReqKey(r.key)
  OBVIOUS
<1> HIDE DEF d, k, r
<1>6. /\ Credited'[r.user] = Credited[r.user] + r.amount
      /\ \A u \in Users \ {r.user} : Credited'[u] = Credited[u]
  <2>1. \A u \in Users :
          Credited'[u] = IF u \in DOMAIN snap[h] /\ IsCredit(u, k[u])
                         THEN Credited[u] + d[u] ELSE Credited[u]
    BY <1>1, <1>4, PostCredited
  <2> QED
    BY <1>2, <1>4, <1>5, <2>1
<1>7. Sum(Credited', Users) = Sum(Credited, Users) + r.amount
  BY <1>1, <1>4, <1>6, FiniteTables, MoneyTypes, SumChange
<1>8. Sum(Balances', Users) = Sum(Balances, Users) + r.amount
  BY <1>1, <1>3, <1>4, BalanceMoves
<1>9. Amounts' = Amounts /\ Kept' = Kept
  BY <1>3 DEF Amounts, Kept
<1>10. Sum(Amounts', Kept') = Sum(Amounts, Kept)
  BY <1>9
<1> QED
  BY <1>1, <1>4, <1>7, <1>8, <1>10, MoneyTypes DEF MoneyConserved

LEMMA TransferConserves ==
  ASSUME LedgerInv, MoneyInv, MoneyConserved, NEW h \in Handlers, TransferWallet(h)
  PROVE  MoneyConserved'
<1> DEFINE r == req[h]
           U == {r.user, r.to}
           d == [u \in U |-> IF u = r.user THEN -r.amount ELSE r.amount]
           k == [u \in U |-> IF u = r.user THEN ReqKey(r.key)
                                           ELSE CreditKey(r.key)]
<1>1. Commits(h, "transfer") /\ Post(h, d, k) /\ TypeInv
  BY DEF TransferWallet, MoneyInv
<1>2. r \in Requests /\ DOMAIN snap[h] = U
  BY <1>1, CommitFacts
<1>3. /\ r.op = "transfer" /\ r.user # r.to /\ saga' = saga
      /\ wallet'[r.user].balance = wallet[r.user].balance + (-r.amount)
      /\ wallet'[r.to].balance = wallet[r.to].balance + r.amount
      /\ \A u \in Users \ {r.user, r.to} : wallet'[u] = wallet[u]
  BY TransferNow
<1>4. /\ r.user \in Users /\ r.to \in Users /\ r.amount \in Int
      /\ d \in [DOMAIN snap[h] -> Int] /\ k \in [DOMAIN snap[h] -> TxnKeys]
  BY <1>2, RequestTypes, KeyTypes
<1>5. \A u \in U : ~IsCredit(u, k[u])
  BY <1>2, <1>3, CreditKeys, DerivedKeys DEF Keyed
<1> HIDE DEF d, k, U
<1>6. Sum(Credited', Users) = Sum(Credited, Users)
  BY <1>1, <1>2, <1>4, <1>5, NothingPaidIn
<1> HIDE DEF r
<1>7. Sum(Balances', Users) = Sum(Balances, Users)
  <2> DEFINE m == [u \in Users |-> IF u = r.user THEN Balances[u] + (-r.amount)
                                                  ELSE Balances[u]]
  <2>1. \A u \in Users : Balances[u] \in Int
    BY <1>1, MoneyTypes
  <2>2. (-r.amount) \in Int /\ \A u \in Users : m[u] \in Int
    BY <1>4, <2>1
  <2>3. m[r.user] = Balances[r.user] + (-r.amount)
        /\ \A u \in Users \ {r.user} : m[u] = Balances[u]
    BY <1>4
  <2>4. Balances'[r.to] = m[r.to] + r.amount
        /\ \A u \in Users \ {r.to} : Balances'[u] = m[u]
    BY <1>3, <1>4 DEF Balances
  <2> HIDE DEF m
  <2>5. Sum(m, Users) = Sum(Balances, Users) + (-r.amount)
    BY <1>4, <2>1, <2>2, <2>3, FiniteTables, SumChange
  <2>6. Sum(Balances', Users) = Sum(m, Users) + r.amount
    BY <1>4, <2>2, <2>4, FiniteTables, SumChange
  <2> QED
    BY <1>1, <1>4, <2>5, <2>6, MoneyTypes
<1>8. Amounts' = Amounts /\ Kept' = Kept
  BY <1>3 DEF Amounts, Kept
<1>9. Sum(Amounts', Kept') = Sum(Amounts, Kept)
  BY <1>8
<1> QED
  BY <1>6, <1>7, <1>9 DEF MoneyConserved

LEMMA DebitConserves ==
  ASSUME LedgerInv, MoneyInv, MoneyConserved, NEW h \in Handlers, DebitForSaga(h)
  PROVE  MoneyConserved'
<1> DEFINE r == req[h]
           s == r.saga
           d == [u \in {r.user} |-> -r.amount]
           k == [u \in {r.user} |-> ReqKey(r.key)]
<1>1. Commits(h, "debit") /\ Post(h, d, k) /\ TypeInv
  BY DEF DebitForSaga, MoneyInv
<1>2. r \in Requests /\ DOMAIN snap[h] = {r.user}
  BY <1>1, CommitFacts
<1>3. /\ r.op = "debit" /\ saga[s].status = "none"
      /\ saga' = [saga EXCEPT ![s] = [status |-> "PENDING", user |-> r.user,
                                      amount |-> r.amount, key |-> r.key]]
      /\ wallet'[r.user].balance = wallet[r.user].balance + (-r.amount)
      /\ \A u \in Users \ {r.user} : wallet'[u] = wallet[u]
  BY DebitNow
<1>4. /\ r.user \in Users /\ r.amount \in Int /\ s \in Sagas
      /\ d \in [DOMAIN snap[h] -> Int] /\ k \in [DOMAIN snap[h] -> TxnKeys]
  BY <1>2, RequestTypes, KeyTypes
<1>5. \A u \in {r.user} : ~IsCredit(u, k[u])
  BY <1>2, <1>3, CreditKeys DEF Keyed
<1> HIDE DEF d, k, r, s
<1>6. Sum(Credited', Users) = Sum(Credited, Users)
  BY <1>1, <1>2, <1>4, <1>5, NothingPaidIn
<1>7. Sum(Balances', Users) = Sum(Balances, Users) + (-r.amount)
  BY <1>1, <1>3, <1>4, BalanceMoves
<1>8. Sum(Amounts', Kept') = Sum(Amounts, Kept) + r.amount
  <2>1. /\ saga'[s].status = "PENDING" /\ saga'[s].amount = r.amount
        /\ \A t \in Sagas \ {s} : saga'[t] = saga[t]
    BY <1>1, <1>3, <1>4 DEF TypeInv, TypeOK
  <2>2. Kept' = Kept \cup {s} /\ s \notin Kept
    BY <1>3, <1>4, <2>1 DEF Kept
  <2>3. Amounts'[s] = r.amount /\ \A t \in Kept : Amounts'[t] = Amounts[t]
    BY <1>4, <2>1, <2>2, MoneyTypes DEF Amounts, Kept
  <2>4. /\ IsFiniteSet(Kept) /\ \A t \in Kept : Amounts[t] \in Int
        /\ Sum(Amounts, Kept) \in Int
    BY <1>1, MoneyTypes
  <2>5. \A t \in Kept \cup {s} : Amounts'[t] \in Int
    BY <1>4, <2>3, <2>4
  <2>6. Sum(Amounts', Kept \cup {s}) = Amounts'[s] + Sum(Amounts', Kept)
    BY <2>2, <2>4, <2>5, SumAdd
  <2>7. Sum(Amounts', Kept) = Sum(Amounts, Kept)
    BY <2>3, <2>4, SumSame
  <2> QED
    BY <1>4, <2>2, <2>3, <2>4, <2>6, <2>7
<1> QED
  BY <1>1, <1>4, <1>6, <1>7, <1>8, MoneyTypes DEF MoneyConserved

LEMMA CompensateConserves ==
  ASSUME LedgerInv, MoneyInv, MoneyConserved, NEW h \in Handlers, CompensateSaga(h)
  PROVE  MoneyConserved'
<1> DEFINE s == req[h].saga
           g == snapSaga[h]
           d == [u \in {g.user} |-> g.amount]
           k == [u \in {g.user} |-> CompKey(s)]
<1>1. Commits(h, "compensate") /\ Post(h, d, k) /\ TypeInv
  BY DEF CompensateSaga, MoneyInv
<1>2. DOMAIN snap[h] = {g.user} /\ g \in SagaRow /\ saga[s] = g
  BY <1>1, CommitFacts DEF SagaCurrent, OnSaga
<1>3. /\ s \in Sagas /\ saga[s].status = "PENDING"
      /\ saga' = [saga EXCEPT ![s].status = "COMPENSATED"]
      /\ wallet'[g.user].balance = wallet[g.user].balance + g.amount
      /\ \A u \in Users \ {g.user} : wallet'[u] = wallet[u]
  BY <1>2, CompensateNow
<1>4. /\ g.user \in Users /\ g.amount \in Int
      /\ d \in [DOMAIN snap[h] -> Int] /\ k \in [DOMAIN snap[h] -> TxnKeys]
  BY <1>2, <1>3, KeyTypes DEF SagaRow
<1>5. \A u \in {g.user} : ~IsCredit(u, k[u])
  BY DerivedKeys
<1> HIDE DEF d, k, s, g
<1>6. Sum(Credited', Users) = Sum(Credited, Users)
  BY <1>1, <1>2, <1>4, <1>5, NothingPaidIn
<1>7. Sum(Balances', Users) = Sum(Balances, Users) + g.amount
  BY <1>1, <1>3, <1>4, BalanceMoves
<1>8. /\ Sum(Amounts, Kept) = g.amount + Sum(Amounts', Kept')
      /\ Sum(Amounts', Kept') \in Int
  <2>1. /\ saga'[s].status = "COMPENSATED"
        /\ \A t \in Sagas \ {s} : saga'[t] = saga[t]
    BY <1>1, <1>3 DEF TypeInv, TypeOK, SagaRow
  <2>2. Kept' = Kept \ {s} /\ s \in Kept
    BY <1>3, <2>1 DEF Kept
  <2>3. Amounts[s] = g.amount /\ \A t \in Kept \ {s} : Amounts'[t] = Amounts[t]
    BY <1>2, <1>3, <2>1 DEF Amounts, Kept
  <2>4. IsFiniteSet(Kept) /\ \A t \in Kept : Amounts[t] \in Int
    BY <1>1, MoneyTypes
  <2>5. Sum(Amounts, Kept) = Amounts[s] + Sum(Amounts, Kept \ {s})
    BY <2>2, <2>4, SumRemove
  <2>6. IsFiniteSet(Kept \ {s})
    BY <2>4, FS_Subset
  <2>7. Sum(Amounts', Kept \ {s}) = Sum(Amounts, Kept \ {s})
    BY <2>3, <2>6, SumSame
  <2>8. Sum(Amounts, Kept \ {s}) \in Int
    BY <2>4, <2>6, SumType
  <2> QED
    BY <2>2, <2>3, <2>5, <2>7, <2>8
<1> QED
  BY <1>1, <1>4, <1>6, <1>7, <1>8, MoneyTypes DEF MoneyConserved

LEMMA CompleteConserves ==
  ASSUME LedgerInv, MoneyInv, MoneyConserved, NEW h \in Handlers, CompleteSaga(h)
  PROVE  MoneyConserved'
<1> DEFINE s == req[h].saga
<1>1. /\ s \in Sagas /\ saga[s].status = "PENDING"
      /\ saga' = [saga EXCEPT ![s].status = "COMPLETED"]
      /\ wallet' = wallet /\ TypeInv
  BY CompleteNow DEF MoneyInv
<1>2. ledger' = ledger
  BY DEF CompleteSaga
<1>3. /\ saga'[s].status = "COMPLETED" /\ saga'[s].amount = saga[s].amount
      /\ \A t \in Sagas \ {s} : saga'[t] = saga[t]
  BY <1>1 DEF TypeInv, TypeOK, SagaRow
<1> HIDE DEF s
<1>4. Amounts' = Amounts /\ Kept' = Kept
  BY <1>1, <1>3 DEF Amounts, Kept
<1>5. Credited' = Credited /\ Balances' = Balances
  BY <1>1, <1>2 DEF Credited, Balances
<1> QED
  BY <1>4, <1>5 DEF MoneyConserved

LEMMA InitConserves == Init => MoneyConserved
<1> SUFFICES ASSUME Init PROVE MoneyConserved
  OBVIOUS
<1>1. \A s \in Sagas : saga[s].status = "none"
  BY DEF Init, NoSaga
<1>2. Kept = {}
  BY <1>1 DEF Kept
<1>3. Sum(Amounts, {}) = 0
  BY FS_EmptySet, SumUnfolds
<1>4. \A u \in Users : Credited[u] = 0
  <2> TAKE u \in Users
  <2>1. Credits(ledger[u], u) = {}
    <3>1. ledger[u] = << >>
      BY DEF Init
    <3>2. 1..Len(<< >>) = {}
      OBVIOUS
    <3> QED
      BY <3>1, <3>2 DEF Credits
  <2> QED
    BY <2>1, FS_EmptySet, SumUnfolds DEF Credited, PaidIn
<1>5. \A u \in Users : Balances[u] = 0
  BY DEF Init, Balances
<1>6. Sum(Credited, Users) = Sum(Balances, Users) /\ Sum(Balances, Users) \in Int
  BY <1>4, <1>5, FiniteTables, SumSame, SumType
<1> QED
  BY <1>2, <1>3, <1>6 DEF MoneyConserved

LEMMA NextConserves ==
  ASSUME LedgerInv, MoneyInv, MoneyConserved, [Next]_vars
  PROVE  MoneyConserved'
<1>1. ASSUME NEW h \in Handlers, Commit(h) PROVE MoneyConserved'
  BY <1>1, CreditConserves, TransferConserves, DebitConserves,
     CompensateConserves, CompleteConserves DEF Commit
<1>2. ASSUME NEW u \in Users, CreateWallet(u) \/ ToggleLock(u)
      PROVE  MoneyConserved'
  <2>1. Balances' = Balances
    BY <1>2, FlagBalances DEF MoneyInv, Balances
  <2>2. ledger' = ledger /\ saga' = saga
    BY <1>2 DEF CreateWallet, ToggleLock
  <2>3. Credited' = Credited /\ Amounts' = Amounts /\ Kept' = Kept
    BY <2>2 DEF Credited, Amounts, Kept
  <2> QED
    BY <2>1, <2>3 DEF MoneyConserved
<1>3. ASSUME UNCHANGED db PROVE MoneyConserved'
  <2>1. wallet' = wallet /\ ledger' = ledger /\ saga' = saga
    BY <1>3 DEF db
  <2>2. /\ Credited' = Credited /\ Balances' = Balances
        /\ Amounts' = Amounts /\ Kept' = Kept
    BY <2>1 DEF Credited, Balances, Amounts, Kept
  <2> QED
    BY <2>2 DEF MoneyConserved
<1> QED
  BY <1>1, <1>2, <1>3
  DEF Next, Serve, vars, db, Receive, ReceiveAgain, Begin, CompleteAgain,
      Reject, Conflict, Fail

(* Whatever the handlers interleave, retry, lose or abandon, the money     *)
(* credited is in a balance, in a pending saga, or spent by a completed    *)
(* one.                                                                    *)
THEOREM MoneyIsConserved == Spec => []MoneyConserved
<1>1. LedgerInv /\ MoneyInv /\ MoneyConserved /\ [Next]_vars => MoneyConserved'
  BY NextConserves
<1> QED
  BY <1>1, InitConserves, LedgerInvariant, PTL DEF Spec
=============================================================================
