-------------------------- MODULE UnitOfWorkProofs --------------------------
(***************************************************************************)
(* Proofs about UnitOfWork, for any users, keys, sagas, handlers and       *)
(* requests: that UpdateBalance's version test never decides, and that     *)
(* the statements implement Wallet.                                        *)
(***************************************************************************)
EXTENDS UnitOfWork, TLAPS

Types ==
  /\ wallet \in [Users -> W!WalletRow]
  /\ saga \in [Sagas -> SagaRow]
  /\ ledger = [u \in Users |-> ledger[u]]
  /\ txnStatus = [k \in TxnKeys |-> txnStatus[k]]
  /\ pc \in [Handlers -> {"idle", "received", "open", "aborted"}]
  /\ DOMAIN req = Handlers /\ DOMAIN snap = Handlers /\ DOMAIN snapSaga = Handlers
  /\ DOMAIN body = Handlers /\ DOMAIN done = Handlers
  /\ stale = [h \in Handlers |-> stale[h]]
  /\ \A h \in Handlers :
       /\ pc[h] # "idle" => req[h] \in Requests /\ W!Valid(req[h])
       /\ pc[h] \in {"idle", "received"} => done[h] = 0 /\ stale[h] = {}

(* The wallets that the transaction of a request writes, given the saga row*)
(* that it has read.                                                       *)
Writes(r, g) ==
  CASE r.op = "transfer"   -> {r.user, r.to}
    [] r.op = "compensate" -> {g.user}
    [] r.op = "complete"   -> {}
    [] OTHER               -> {r.user}

(* What a transaction will write was computed from what it has read.       *)
BodySound(h) ==
  LET g == snapSaga[h]
      D == DOMAIN snap[h]
  IN  /\ done[h] \in 0..Len(body[h])
      /\ g \in SagaRow
      /\ D = Writes(req[h], g)
      /\ \A u \in D : snap[h][u] \in W!WalletRow
      /\ body[h] = Body(req[h], g, [u \in D |-> snap[h][u].balance])

(* A row that it is to update is as it was read, or stale.                 *)
FreshSound(h) ==
  /\ \A u \in DOMAIN snap[h] : WalletRow(u) \in stale[h] \/ W!RowCurrent(h, u)
  /\ req[h].op \in OnSaga =>
       \/ SagaOf(req[h].saga) \in stale[h]
       \/ saga[req[h].saga] = snapSaga[h]

(* What it has written can be committed.                                   *)
HeldSound(h) ==
  \A i \in 1..done[h] :
    /\ body[h][i].kind = "update" => body[h][i].row \notin stale[h]
    /\ body[h][i].kind = "insert" => ~Exists(body[h][i].row)

OpenSound ==
  \A h \in Handlers : pc[h] = "open" =>
    BodySound(h) /\ FreshSound(h) /\ HeldSound(h)

(* That stays so because the row is locked: nobody else makes it stale or  *)
(* inserts its key.                                                        *)
LocksDisjoint == \A g, h \in Handlers : g # h => Locked(g) \cap Locked(h) = {}

UnitInv == Types /\ OpenSound /\ LocksDisjoint
-----------------------------------------------------------------------------
LEMMA KeyTypes ==
  /\ \A k \in Keys : ReqKey(k) \in TxnKeys /\ CreditKey(k) \in TxnKeys
  /\ \A s \in Sagas : CompKey(s) \in TxnKeys
BY DEF ReqKey, CreditKey, CompKey, TxnKeys

LEMMA NoSagaType == NoSaga \in SagaRow
BY DomainAssumption DEF NoSaga, SagaRow, SagaStatus

LEMMA RequestTypes ==
  ASSUME NEW r \in Requests
  PROVE  /\ r.op \in {"credit", "transfer", "debit", "compensate", "complete"}
         /\ r.user \in Users /\ r.to \in Users
         /\ r.amount \in Int /\ r.key \in Keys /\ r.saga \in Sagas
BY DomainAssumption DEF Request, Keyed, OnSaga

(* No two rows have one name.                                              *)
LEMMA RowNames ==
  /\ \A u, v : WalletRow(u) = WalletRow(v) => u = v
  /\ \A k, l : TxnRow(k) = TxnRow(l) => k = l
  /\ \A s, t : SagaOf(s) = SagaOf(t) => s = t
  /\ \A u, k : WalletRow(u) # TxnRow(k) /\ WalletRow(u) # SagaOf(k)
                                        /\ TxnRow(u) # SagaOf(k)
  /\ \A u : WalletRow(u)[1] = "wallet"
  /\ \A k : TxnRow(k)[1] = "txn" /\ TxnRow(k)[2] = k
  /\ \A s : SagaOf(s)[1] = "saga" /\ SagaOf(s)[2] = s
BY DEF WalletRow, TxnRow, SagaOf

(* The statements of a body: which rows they name, and that the body       *)
(* updates every wallet and saga it has decided on, and inserts every key. *)
Names(st) ==
  \/ /\ st.kind = "insert"
     /\ \/ \E k \in TxnKeys : st.row = TxnRow(k)
        \/ \E s \in Sagas : st.row = SagaOf(s)
  \/ /\ st.kind = "update"
     /\ \/ \E u \in Users : st.row = WalletRow(u)
        \/ \E k \in TxnKeys : st.row = TxnRow(k)
        \/ \E s \in Sagas : st.row = SagaOf(s)

Has(b, kind, row) == \E i \in 1..Len(b) : b[i].kind = kind /\ b[i].row = row

Covers(b, r, D) ==
  /\ Len(b) \in Nat /\ DOMAIN b = 1..Len(b)
  /\ \A i \in 1..Len(b) : Names(b[i])
  /\ \A u \in D : u \in Users /\ Has(b, "update", WalletRow(u))
  /\ r.op \in OnSaga => Has(b, "update", SagaOf(r.saga))
  /\ r.op = "debit" => Has(b, "insert", SagaOf(r.saga))
  /\ \A k \in W!KeysOf(r) : Has(b, "insert", TxnRow(k))

LEMMA CreditCovers ==
  ASSUME NEW r \in Requests, r.op = "credit", NEW bal, NEW b,
         b = CreditBody(r, bal)
  PROVE  Covers(b, r, {r.user})
<1>1. /\ Len(b) = 2 /\ DOMAIN b = 1..2
      /\ b[1] = InsertTxn(ReqKey(r.key), "COMPLETED", r.user, bal[r.user], r.amount)
      /\ b[2] = UpdateBalance(r.user, bal[r.user] + r.amount)
  BY DEF CreditBody
<1>2. /\ b[1].kind = "insert" /\ b[1].row = TxnRow(ReqKey(r.key))
      /\ b[2].kind = "update" /\ b[2].row = WalletRow(r.user)
  BY <1>1 DEF InsertTxn, UpdateBalance
<1>3. W!KeysOf(r) = {ReqKey(r.key)}
  BY DEF W!KeysOf, W!ReqKey, ReqKey
<1>4. r.user \in Users /\ ReqKey(r.key) \in TxnKeys
  BY RequestTypes, KeyTypes
<1> QED
  BY <1>1, <1>2, <1>3, <1>4 DEF Covers, Names, Has, OnSaga

LEMMA TransferCovers ==
  ASSUME NEW r \in Requests, r.op = "transfer", NEW bal, NEW b,
         b = TransferBody(r, bal)
  PROVE  Covers(b, r, {r.user, r.to})
<1>1. /\ Len(b) = 4 /\ DOMAIN b = 1..4
      /\ b[1] = InsertTxn(ReqKey(r.key), "COMPLETED", r.user, bal[r.user], -r.amount)
      /\ b[2] = InsertTxn(CreditKey(r.key), "COMPLETED", r.to, bal[r.to], r.amount)
      /\ b[3] = UpdateBalance(r.user, bal[r.user] - r.amount)
      /\ b[4] = UpdateBalance(r.to, bal[r.to] + r.amount)
  BY DEF TransferBody
<1>2. /\ b[1].kind = "insert" /\ b[1].row = TxnRow(ReqKey(r.key))
      /\ b[2].kind = "insert" /\ b[2].row = TxnRow(CreditKey(r.key))
      /\ b[3].kind = "update" /\ b[3].row = WalletRow(r.user)
      /\ b[4].kind = "update" /\ b[4].row = WalletRow(r.to)
  BY <1>1 DEF InsertTxn, UpdateBalance
<1>3. W!KeysOf(r) = {ReqKey(r.key), CreditKey(r.key)}
  BY DEF W!KeysOf, W!ReqKey, ReqKey, W!CreditKey, CreditKey
<1>4. /\ r.user \in Users /\ r.to \in Users
      /\ ReqKey(r.key) \in TxnKeys /\ CreditKey(r.key) \in TxnKeys
  BY RequestTypes, KeyTypes
<1> QED
  BY <1>1, <1>2, <1>3, <1>4 DEF Covers, Names, Has, OnSaga

LEMMA DebitCovers ==
  ASSUME NEW r \in Requests, r.op = "debit", NEW bal, NEW b,
         b = DebitBody(r, bal)
  PROVE  Covers(b, r, {r.user})
<1> DEFINE g == [status |-> "PENDING", user |-> r.user, amount |-> r.amount,
                 key |-> r.key]
<1>1. /\ Len(b) = 3 /\ DOMAIN b = 1..3
      /\ b[1] = InsertTxn(ReqKey(r.key), "PENDING", r.user, bal[r.user], -r.amount)
      /\ b[2] = InsertSaga(r.saga, g)
      /\ b[3] = UpdateBalance(r.user, bal[r.user] - r.amount)
  BY DEF DebitBody
<1>2. /\ b[1].kind = "insert" /\ b[1].row = TxnRow(ReqKey(r.key))
      /\ b[2].kind = "insert" /\ b[2].row = SagaOf(r.saga)
      /\ b[3].kind = "update" /\ b[3].row = WalletRow(r.user)
  BY <1>1 DEF InsertTxn, InsertSaga, UpdateBalance
<1>3. W!KeysOf(r) = {ReqKey(r.key)}
  BY DEF W!KeysOf, W!ReqKey, ReqKey
<1>4. r.user \in Users /\ ReqKey(r.key) \in TxnKeys /\ r.saga \in Sagas
  BY RequestTypes, KeyTypes
<1> QED
  BY <1>1, <1>2, <1>3, <1>4 DEF Covers, Names, Has, OnSaga

LEMMA CompensateCovers ==
  ASSUME NEW r \in Requests, r.op = "compensate", NEW g \in SagaRow, NEW bal, NEW b,
         b = CompensateBody(r, g, bal)
  PROVE  Covers(b, r, {g.user})
<1>1. /\ Len(b) = 4 /\ DOMAIN b = 1..4
      /\ b[1] = UpdateTxn(ReqKey(g.key), "REVERSED")
      /\ b[2] = InsertTxn(CompKey(r.saga), "COMPLETED", g.user, bal[g.user], g.amount)
      /\ b[3] = UpdateBalance(g.user, bal[g.user] + g.amount)
      /\ b[4] = UpdateSaga(r.saga, [g EXCEPT !.status = "COMPENSATED"])
  BY DEF CompensateBody
<1>2. /\ b[1].kind = "update" /\ b[1].row = TxnRow(ReqKey(g.key))
      /\ b[2].kind = "insert" /\ b[2].row = TxnRow(CompKey(r.saga))
      /\ b[3].kind = "update" /\ b[3].row = WalletRow(g.user)
      /\ b[4].kind = "update" /\ b[4].row = SagaOf(r.saga)
  BY <1>1 DEF InsertTxn, UpdateTxn, UpdateBalance, UpdateSaga
<1>3. W!KeysOf(r) = {CompKey(r.saga)}
  BY DEF W!KeysOf, W!CompKey, CompKey
<1>4. /\ g.user \in Users /\ ReqKey(g.key) \in TxnKeys /\ CompKey(r.saga) \in TxnKeys
      /\ r.saga \in Sagas
  BY RequestTypes, KeyTypes DEF SagaRow
<1> QED
  BY <1>1, <1>2, <1>3, <1>4 DEF Covers, Names, Has, OnSaga

LEMMA CompleteCovers ==
  ASSUME NEW r \in Requests, r.op = "complete", NEW g \in SagaRow, NEW b,
         b = CompleteBody(r, g)
  PROVE  Covers(b, r, {})
<1>1. /\ Len(b) = 2 /\ DOMAIN b = 1..2
      /\ b[1] = UpdateTxn(ReqKey(g.key), "COMPLETED")
      /\ b[2] = UpdateSaga(r.saga, [g EXCEPT !.status = "COMPLETED"])
  BY DEF CompleteBody
<1>2. /\ b[1].kind = "update" /\ b[1].row = TxnRow(ReqKey(g.key))
      /\ b[2].kind = "update" /\ b[2].row = SagaOf(r.saga)
  BY <1>1 DEF UpdateTxn, UpdateSaga
<1>3. W!KeysOf(r) = {}
  BY DEF W!KeysOf
<1>4. ReqKey(g.key) \in TxnKeys /\ r.saga \in Sagas
  BY RequestTypes, KeyTypes DEF SagaRow
<1> QED
  BY <1>1, <1>2, <1>3, <1>4 DEF Covers, Names, Has, OnSaga

LEMMA BodyCovers ==
  ASSUME NEW r \in Requests, NEW g \in SagaRow, NEW bal
  PROVE  Covers(Body(r, g, bal), r, Writes(r, g))
<1>1. CASE r.op = "credit"
  BY <1>1, CreditCovers DEF Body, Writes
<1>2. CASE r.op = "transfer"
  BY <1>2, TransferCovers DEF Body, Writes
<1>3. CASE r.op = "debit"
  BY <1>3, DebitCovers DEF Body, Writes
<1>4. CASE r.op = "compensate"
  BY <1>4, CompensateCovers DEF Body, Writes
<1>5. CASE r.op = "complete"
  BY <1>5, CompleteCovers DEF Body, Writes
<1> QED
  BY <1>1, <1>2, <1>3, <1>4, <1>5, RequestTypes

LEMMA OpenCovers ==
  ASSUME UnitInv, NEW h \in Handlers, pc[h] = "open"
  PROVE  /\ Covers(body[h], req[h], DOMAIN snap[h])
         /\ req[h] \in Requests /\ snapSaga[h] \in SagaRow
         /\ done[h] \in 0..Len(body[h])
         /\ DOMAIN snap[h] = Writes(req[h], snapSaga[h])
         /\ BodySound(h) /\ FreshSound(h) /\ HeldSound(h)
<1>1. BodySound(h) /\ FreshSound(h) /\ HeldSound(h) /\ req[h] \in Requests
  BY DEF UnitInv, Types, OpenSound
<1>2. /\ snapSaga[h] \in SagaRow /\ done[h] \in 0..Len(body[h])
      /\ DOMAIN snap[h] = Writes(req[h], snapSaga[h])
      /\ \E bal : body[h] = Body(req[h], snapSaga[h], bal)
  BY <1>1 DEF BodySound
<1> QED
  BY <1>1, <1>2, BodyCovers

-----------------------------------------------------------------------------
(* An open transaction of another handler sees that the rows in R change:  *)
(* it has locked none of them, and those it is to update become stale.     *)
LEMMA OthersChange ==
  ASSUME UnitInv, NEW g \in Handlers, pc[g] = "open", NEW R,
         pc'[g] = pc[g], req'[g] = req[g], snap'[g] = snap[g],
         snapSaga'[g] = snapSaga[g], body'[g] = body[g], done'[g] = done[g],
         stale'[g] = stale[g] \cup (R \cap Updates(g)),
         R \cap Locked(g) = {},
         \A u \in Users : WalletRow(u) \notin R =>
           wallet'[u].version = wallet[u].version /\ wallet'[u].locked = wallet[u].locked,
         \A k \in TxnKeys : TxnRow(k) \notin R => txnStatus'[k] = txnStatus[k],
         \A s \in Sagas : SagaOf(s) \notin R => saga'[s] = saga[s]
  PROVE  BodySound(g)' /\ FreshSound(g)' /\ HeldSound(g)'
<1> DEFINE r == req[g]
           b == body[g]
<1>1. /\ Covers(b, r, DOMAIN snap[g]) /\ r \in Requests
      /\ done[g] \in 0..Len(b)
      /\ BodySound(g) /\ FreshSound(g) /\ HeldSound(g)
  BY OpenCovers
<1>2. BodySound(g)'
  BY <1>1 DEF BodySound
<1>3. \A row : Has(b, "update", row) => row \in Updates(g)
  BY <1>1 DEF Has, Covers, Updates, Range
<1>4. FreshSound(g)'
  <2>1. ASSUME NEW u \in DOMAIN snap[g]
        PROVE  WalletRow(u) \in stale'[g] \/ W!RowCurrent(g, u)'
    <3>1. u \in Users /\ WalletRow(u) \in Updates(g)
      BY <1>1, <1>3 DEF Covers
    <3>2. WalletRow(u) \in stale[g] \/ W!RowCurrent(g, u)
      BY <1>1 DEF FreshSound
    <3> QED
      BY <3>1, <3>2 DEF W!RowCurrent
  <2>2. ASSUME r.op \in OnSaga
        PROVE  SagaOf(r.saga) \in stale'[g] \/ saga'[r.saga] = snapSaga[g]
    <3>1. r.saga \in Sagas /\ SagaOf(r.saga) \in Updates(g)
      BY <1>1, <1>3, <2>2, RequestTypes DEF Covers
    <3> QED
      BY <1>1, <2>2, <3>1 DEF FreshSound
  <2> QED
    BY <2>1, <2>2 DEF FreshSound
<1>5. HeldSound(g)'
  <2> SUFFICES ASSUME NEW i \in 1..done[g]
               PROVE  /\ b[i].kind = "update" => b[i].row \notin stale'[g]
                      /\ b[i].kind = "insert" => ~Exists(b[i].row)'
    BY DEF HeldSound
  <2>1. i \in 1..Len(b) /\ Names(b[i]) /\ b[i].row \notin R
    BY <1>1 DEF Covers, Locked
  <2>2. /\ b[i].kind = "update" => b[i].row \notin stale[g]
        /\ b[i].kind = "insert" => ~Exists(b[i].row)
    BY <1>1 DEF HeldSound
  <2>3. ASSUME b[i].kind = "insert" PROVE ~Exists(b[i].row)'
    <3>1. CASE \E k \in TxnKeys : b[i].row = TxnRow(k)
      BY <2>1, <2>2, <2>3, <3>1, RowNames DEF Exists
    <3>2. CASE \E s \in Sagas : b[i].row = SagaOf(s)
      BY <2>1, <2>2, <2>3, <3>2, RowNames DEF Exists
    <3> QED
      BY <2>1, <2>3, <3>1, <3>2 DEF Names
  <2> QED
    BY <2>1, <2>2, <2>3
<1> QED
  BY <1>2, <1>4, <1>5

LEMMA LockedSame ==
  ASSUME NEW g, pc'[g] = pc[g], body'[g] = body[g], done'[g] = done[g]
  PROVE  Locked(g)' = Locked(g)
<1>1. \A i : body'[g][i].row = body[g][i].row
  OBVIOUS
<1>2. {body'[g][i].row : i \in 1..done'[g]} = {body[g][i].row : i \in 1..done[g]}
  BY <1>1, Zenon
<1> QED
  BY <1>2 DEF Locked

(* A handler leaves; the rows in R have changed.                           *)
LEMMA LeaveStep ==
  ASSUME UnitInv, NEW h \in Handlers, NEW R, Leave(h, Outdate(R)),
         wallet' \in [Users -> W!WalletRow], saga' \in [Sagas -> SagaRow],
         ledger' = [u \in Users |-> ledger'[u]],
         txnStatus' = [k \in TxnKeys |-> txnStatus'[k]],
         \A g \in Handlers \ {h} : R \cap Locked(g) = {},
         \A u \in Users : WalletRow(u) \notin R =>
           wallet'[u].version = wallet[u].version /\ wallet'[u].locked = wallet[u].locked,
         \A k \in TxnKeys : TxnRow(k) \notin R => txnStatus'[k] = txnStatus[k],
         \A s \in Sagas : SagaOf(s) \notin R => saga'[s] = saga[s]
  PROVE  UnitInv'
<1>1. Types
  BY DEF UnitInv
<1>2. /\ pc'[h] = "idle" /\ done'[h] = 0 /\ stale'[h] = {}
      /\ stale' = [g \in Handlers |-> stale'[g]]
      /\ \A g \in Handlers \ {h} :
           /\ pc'[g] = pc[g] /\ req'[g] = req[g] /\ snap'[g] = snap[g]
           /\ snapSaga'[g] = snapSaga[g] /\ body'[g] = body[g] /\ done'[g] = done[g]
           /\ stale'[g] = IF pc[g] = "open" THEN stale[g] \cup (R \cap Updates(g))
                                            ELSE stale[g]
  <2>1. /\ pc'[h] = "idle" /\ done'[h] = 0
        /\ \A g \in Handlers \ {h} :
             /\ pc'[g] = pc[g] /\ req'[g] = req[g] /\ snap'[g] = snap[g]
             /\ snapSaga'[g] = snapSaga[g] /\ body'[g] = body[g] /\ done'[g] = done[g]
    BY <1>1 DEF Leave, Types
  <2>2. stale' = [Outdate(R) EXCEPT ![h] = {}]
    BY DEF Leave
  <2>3. stale'[h] = {} /\ stale' = [g \in Handlers |-> stale'[g]]
    BY <2>2 DEF Outdate
  <2>4. \A g \in Handlers \ {h} :
          stale'[g] = IF pc[g] = "open" THEN stale[g] \cup (R \cap Updates(g))
                                        ELSE stale[g]
    BY <2>2 DEF Outdate
  <2> QED
    BY <2>1, <2>3, <2>4
<1>3. Types'
  <2>1. /\ pc' \in [Handlers -> {"idle", "received", "open", "aborted"}]
        /\ DOMAIN req' = Handlers /\ DOMAIN snap' = Handlers
        /\ DOMAIN snapSaga' = Handlers
        /\ DOMAIN body' = Handlers /\ DOMAIN done' = Handlers
    BY <1>1 DEF Leave, Types
  <2>2. ASSUME NEW g \in Handlers
        PROVE  /\ pc'[g] # "idle" => req'[g] \in Requests /\ W!Valid(req'[g])
               /\ pc'[g] \in {"idle", "received"} => done'[g] = 0 /\ stale'[g] = {}
    <3>1. CASE g = h
      BY <1>2, <3>1
    <3>2. CASE g # h
      BY <1>1, <1>2, <3>2 DEF Types
    <3> QED
      BY <3>1, <3>2
  <2>3. \A g \in Handlers : W!Valid(req[g])' <=> W!Valid(req'[g])
    BY DEF W!Valid
  <2> QED
    BY <1>2, <2>1, <2>2, <2>3 DEF Types
<1>4. OpenSound'
  <2>1. ASSUME NEW g \in Handlers, pc'[g] = "open"
        PROVE  BodySound(g)' /\ FreshSound(g)' /\ HeldSound(g)'
    <3>1. g # h /\ pc[g] = "open"
      BY <1>2, <2>1
    <3>2. /\ pc'[g] = pc[g] /\ req'[g] = req[g] /\ snap'[g] = snap[g]
          /\ snapSaga'[g] = snapSaga[g] /\ body'[g] = body[g] /\ done'[g] = done[g]
          /\ stale'[g] = stale[g] \cup (R \cap Updates(g))
          /\ R \cap Locked(g) = {}
      BY <1>2, <3>1
    <3> QED
      BY <3>1, <3>2, OthersChange
  <2> QED
    BY <2>1 DEF OpenSound
<1>5. LocksDisjoint'
  <2>1. Locked(h)' = {}
    BY <1>2 DEF Locked
  <2>2. ASSUME NEW g \in Handlers \ {h} PROVE Locked(g)' = Locked(g)
    BY <1>2, LockedSame
  <2> QED
    BY <2>1, <2>2 DEF UnitInv, LocksDisjoint
<1> QED
  BY <1>3, <1>4, <1>5 DEF UnitInv

LEMMA OutdateNone == Types => Outdate({}) = stale
BY DEF Outdate, Types

LEMMA ReleaseStep ==
  ASSUME UnitInv, NEW h \in Handlers, Release(h), UNCHANGED db
  PROVE  UnitInv'
<1>1. Leave(h, Outdate({}))
  BY OutdateNone DEF Release, UnitInv
<1>2. /\ UNCHANGED <<wallet, ledger, txnStatus, saga>>
      /\ ledger = [u \in Users |-> ledger[u]]
      /\ txnStatus = [k \in TxnKeys |-> txnStatus[k]]
      /\ wallet \in [Users -> W!WalletRow] /\ saga \in [Sagas -> SagaRow]
  BY DEF db, UnitInv, Types
<1> DEFINE R == {}
<1>3. /\ \A g \in Handlers \ {h} : R \cap Locked(g) = {}
      /\ \A u \in Users : WalletRow(u) \notin R
      /\ \A k \in TxnKeys : TxnRow(k) \notin R
      /\ \A s \in Sagas : SagaOf(s) \notin R
  OBVIOUS
<1>4. Leave(h, Outdate(R))
  BY <1>1
<1> HIDE DEF R
<1> QED
  BY <1>2, <1>3, <1>4, LeaveStep

(* A step of one handler that changes no table, no lock and no other       *)
(* handler.                                                                *)
LEMMA OwnStep ==
  ASSUME UnitInv, NEW h \in Handlers, UNCHANGED <<wallet, txnStatus, saga>>,
         Types', \A g \in Handlers \ {h} :
           /\ pc'[g] = pc[g] /\ req'[g] = req[g] /\ snap'[g] = snap[g]
           /\ snapSaga'[g] = snapSaga[g] /\ body'[g] = body[g] /\ done'[g] = done[g]
           /\ stale'[g] = stale[g],
         pc'[h] = "open" => BodySound(h)' /\ FreshSound(h)' /\ HeldSound(h)',
         \A g \in Handlers \ {h} : Locked(g) \cap Locked(h)' = {}
  PROVE  UnitInv'
<1>1. ASSUME NEW g \in Handlers \ {h}, pc'[g] = "open"
      PROVE  BodySound(g)' /\ FreshSound(g)' /\ HeldSound(g)'
  <2>1. BodySound(g) /\ FreshSound(g) /\ HeldSound(g)
    BY <1>1 DEF UnitInv, OpenSound
  <2>2. BodySound(g)'
    BY <1>1, <2>1 DEF BodySound
  <2>3. FreshSound(g)'
    BY <1>1, <2>1 DEF FreshSound, W!RowCurrent
  <2>4. HeldSound(g)'
    BY <1>1, <2>1 DEF HeldSound, Exists
  <2> QED
    BY <2>2, <2>3, <2>4
<1>2. OpenSound'
  BY <1>1 DEF OpenSound
<1>3. LocksDisjoint'
  <2>1. ASSUME NEW g \in Handlers \ {h} PROVE Locked(g)' = Locked(g)
    BY LockedSame
  <2> QED
    BY <2>1 DEF UnitInv, LocksDisjoint
<1> QED
  BY <1>2, <1>3 DEF UnitInv

-----------------------------------------------------------------------------
LEMMA InitUnit == Init => UnitInv
<1> SUFFICES ASSUME Init PROVE UnitInv
  OBVIOUS
<1>1. /\ wallet = [u \in Users |-> [open |-> FALSE, locked |-> FALSE,
                                    balance |-> 0, version |-> 0]]
      /\ ledger = [u \in Users |-> << >>]
      /\ txnStatus = [k \in TxnKeys |-> "none"]
      /\ saga = [s \in Sagas |-> W!NoSaga]
      /\ req = [h \in Handlers |-> NoRequest]
      /\ snap = [h \in Handlers |-> W!NoSnap]
      /\ snapSaga = [h \in Handlers |-> W!NoSaga]
      /\ pc = [h \in Handlers |-> "idle"]
      /\ body = [h \in Handlers |-> << >>]
      /\ done = [h \in Handlers |-> 0] /\ stale = [h \in Handlers |-> {}]
  <2>1. W!Init
    BY DEF Init
  <2>2. /\ wallet = [u \in Users |-> [open |-> FALSE, locked |-> FALSE,
                                      balance |-> 0, version |-> 0]]
        /\ ledger = [u \in Users |-> << >>]
        /\ txnStatus = [k \in TxnKeys |-> "none"]
        /\ saga = [s \in Sagas |-> W!NoSaga]
        /\ req = [h \in Handlers |-> NoRequest]
        /\ snap = [h \in Handlers |-> W!NoSnap]
        /\ snapSaga = [h \in Handlers |-> W!NoSaga]
    BY <2>1 DEF W!Init, W!TxnKeys, TxnKeys
  <2> QED
    BY <2>2 DEF Init
<1>2. wallet \in [Users -> W!WalletRow]
  BY <1>1 DEF W!WalletRow
<1>3. saga \in [Sagas -> SagaRow]
  BY <1>1, NoSagaType DEF W!NoSaga, NoSaga
<1>4. Types
  BY <1>1, <1>2, <1>3 DEF Types
<1>5. OpenSound
  BY <1>1 DEF OpenSound
<1>6. \A h \in Handlers : Locked(h) = {}
  BY <1>1 DEF Locked
<1> QED
  BY <1>4, <1>5, <1>6 DEF UnitInv, LocksDisjoint

LEMMA SameStep ==
  ASSUME UnitInv, UNCHANGED <<wallet, ledger, txnStatus, saga, pc, req, snap,
                              snapSaga, body, done, stale>>
  PROVE  UnitInv'
<1>1. Types'
  BY DEF UnitInv, Types, W!Valid
<1>2. ASSUME NEW h \in Handlers, pc[h] = "open"
      PROVE  BodySound(h)' /\ FreshSound(h)' /\ HeldSound(h)'
  <2>1. BodySound(h) /\ FreshSound(h) /\ HeldSound(h)
    BY <1>2 DEF UnitInv, OpenSound
  <2>2. BodySound(h)'
    BY <2>1 DEF BodySound
  <2>3. FreshSound(h)'
    BY <2>1 DEF FreshSound, W!RowCurrent
  <2>4. HeldSound(h)'
    BY <2>1 DEF HeldSound, Exists
  <2> QED
    BY <2>2, <2>3, <2>4
<1>3. LocksDisjoint'
  BY LockedSame DEF UnitInv, LocksDisjoint
<1> QED
  BY <1>1, <1>2, <1>3 DEF UnitInv, OpenSound

LEMMA ReceiveStep ==
  ASSUME UnitInv, NEW h \in Handlers, NEW r \in Requests, Receive(h, r)
  PROVE  UnitInv'
<1>1. /\ pc[h] = "idle" /\ W!Valid(r)
      /\ pc' = [pc EXCEPT ![h] = "received"] /\ req' = [req EXCEPT ![h] = r]
      /\ UNCHANGED <<wallet, ledger, txnStatus, saga, snap, snapSaga, body, done,
                     stale, acked>>
  BY DEF Receive, db
<1>2. Types'
  BY <1>1 DEF UnitInv, Types, W!Valid
<1>3. pc'[h] = "received" /\ Locked(h)' = {}
  BY <1>1 DEF UnitInv, Types, Locked
<1>4. \A g \in Handlers \ {h} : pc'[g] = pc[g] /\ req'[g] = req[g]
  BY <1>1 DEF UnitInv, Types
<1> QED
  BY <1>1, <1>2, <1>3, <1>4, OwnStep

LEMMA ReceiveAgainStep ==
  ASSUME UnitInv, NEW h \in Handlers, NEW r \in Requests, ReceiveAgain(h, r)
  PROVE  UnitInv'
<1>1. UNCHANGED <<wallet, ledger, txnStatus, saga, pc, req, snap, snapSaga,
                  body, done, stale>>
  BY DEF ReceiveAgain, db
<1> QED
  BY <1>1, SameStep

LEMMA AbortStep ==
  ASSUME UnitInv, NEW h \in Handlers, pc[h] = "open", Abort(h)
  PROVE  UnitInv'
<1>1. /\ pc' = [pc EXCEPT ![h] = "aborted"]
      /\ UNCHANGED <<wallet, ledger, txnStatus, saga, req, snap, snapSaga, body,
                     done, stale, acked>>
  BY DEF Abort, db
<1>2. Types'
  BY <1>1 DEF UnitInv, Types, W!Valid
<1>3. pc'[h] = "aborted" /\ Locked(h)' = {}
  BY <1>1 DEF UnitInv, Types, Locked
<1>4. \A g \in Handlers \ {h} : pc'[g] = pc[g]
  BY <1>1 DEF UnitInv, Types
<1> QED
  BY <1>1, <1>2, <1>3, <1>4, OwnStep

LEMMA WriteStep ==
  ASSUME UnitInv, NEW h \in Handlers, Write(h)
  PROVE  UnitInv'
<1>1. /\ pc[h] = "open" /\ done[h] < Len(body[h])
      /\ done' = [done EXCEPT ![h] = done[h] + 1]
      /\ UNCHANGED <<wallet, ledger, txnStatus, saga, pc, req, snap, snapSaga,
                     body, stale, acked>>
      /\ \A g \in Handlers \ {h} : Stmt(h).row \notin Locked(g)
      /\ Stmt(h).kind = "insert" => ~Exists(Stmt(h).row)
      /\ Stmt(h).kind = "update" => Stmt(h).row \notin stale[h]
  BY DEF Write, MayWrite, Writing, WaitsFor, UniqueViolation,
         SerializationFailure, db
<1>2. /\ BodySound(h) /\ FreshSound(h) /\ HeldSound(h)
      /\ done[h] \in 0..Len(body[h]) /\ Len(body[h]) \in Nat
  BY <1>1, OpenCovers DEF Covers
<1>3. Types'
  BY <1>1 DEF UnitInv, Types, W!Valid
<1>4. /\ done'[h] = done[h] + 1 /\ \A g \in Handlers \ {h} : done'[g] = done[g]
      /\ 1..done'[h] = (1..done[h]) \cup {done[h] + 1}
      /\ Stmt(h) = body[h][done[h] + 1]
  BY <1>1, <1>2 DEF UnitInv, Types, Stmt
<1>5. BodySound(h)' /\ FreshSound(h)' /\ HeldSound(h)'
  <2>1. BodySound(h)'
    BY <1>1, <1>2, <1>4 DEF BodySound
  <2>2. FreshSound(h)'
    BY <1>1, <1>2 DEF FreshSound, W!RowCurrent
  <2>3. HeldSound(h)'
    BY <1>1, <1>2, <1>4 DEF HeldSound, Exists
  <2> QED
    BY <2>1, <2>2, <2>3
<1>6. Locked(h)' = Locked(h) \cup {Stmt(h).row}
  <2>1. Locked(h)' = {body[h][i].row : i \in (1..done[h]) \cup {done[h] + 1}}
    BY <1>1, <1>4 DEF Locked
  <2>2. Locked(h) = {body[h][i].row : i \in 1..done[h]}
    BY <1>1 DEF Locked
  <2> QED
    BY <1>4, <2>1, <2>2
<1>7. \A g \in Handlers \ {h} : Locked(g) \cap Locked(h)' = {}
  BY <1>1, <1>6 DEF UnitInv, LocksDisjoint
<1> QED
  BY <1>1, <1>3, <1>4, <1>5, <1>7, OwnStep

LEMMA BeginStep ==
  ASSUME UnitInv, NEW h \in Handlers, Begin(h)
  PROVE  UnitInv'
<1> DEFINE r == req[h]
           g == IF r.op \in OnSaga THEN saga[r.saga] ELSE NoSaga
           D == W!Touched(r)
           bal == [u \in D |-> wallet[u].balance]
<1>1. /\ pc[h] = "received"
      /\ pc' = [pc EXCEPT ![h] = "open"]
      /\ snap' = [snap EXCEPT ![h] = [u \in D |-> wallet[u]]]
      /\ snapSaga' = [snapSaga EXCEPT ![h] = g]
      /\ body' = [body EXCEPT ![h] = Body(r, g, bal)]
      /\ UNCHANGED <<wallet, ledger, txnStatus, saga, req, done, stale, acked>>
  BY DEF Begin, db
<1>2. Types /\ r \in Requests /\ done[h] = 0 /\ stale[h] = {}
  BY <1>1 DEF UnitInv, Types
<1>3. /\ pc'[h] = "open" /\ snap'[h] = [u \in D |-> wallet[u]] /\ snapSaga'[h] = g
      /\ body'[h] = Body(r, g, bal)
      /\ \A f \in Handlers \ {h} : /\ pc'[f] = pc[f] /\ snap'[f] = snap[f]
                                   /\ snapSaga'[f] = snapSaga[f] /\ body'[f] = body[f]
  BY <1>1, <1>2 DEF Types
<1>4. Types'
  BY <1>1, <1>2, <1>3 DEF Types, W!Valid
<1>5. g \in SagaRow /\ g.user \in Users
  BY <1>2, RequestTypes, NoSagaType DEF Types, SagaRow
<1>6. D = Writes(r, g) /\ D \subseteq Users
  BY <1>2, <1>5, RequestTypes DEF W!Touched, Writes, OnSaga
<1>7. BodySound(h)'
  <2>1. DOMAIN snap'[h] = D /\ \A u \in D : snap'[h][u] = wallet[u]
    BY <1>3
  <2>2. [u \in D |-> snap'[h][u].balance] = bal
    BY <2>1
  <2>3. Len(Body(r, g, bal)) \in Nat
    BY <1>2, <1>5, BodyCovers DEF Covers
  <2>4. \A u \in D : snap'[h][u] \in W!WalletRow
    BY <1>2, <1>6, <2>1 DEF Types
  <2>5. req'[h] = r /\ done'[h] = 0
    BY <1>1, <1>2
  <2> HIDE DEF g, D, bal, r
  <2>6. done'[h] \in 0..Len(body'[h])
    BY <1>3, <2>3, <2>5
  <2>7. DOMAIN snap'[h] = Writes(req'[h], snapSaga'[h])
    BY <1>3, <1>6, <2>1, <2>5
  <2>8. /\ snapSaga'[h] \in SagaRow
        /\ \A u \in DOMAIN snap'[h] : snap'[h][u] \in W!WalletRow
    BY <1>3, <1>5, <2>1, <2>4
  <2>9. body'[h] = Body(req'[h], snapSaga'[h],
                        [u \in DOMAIN snap'[h] |-> snap'[h][u].balance])
    BY <1>3, <2>1, <2>2, <2>5
  <2> QED
    BY <2>6, <2>7, <2>8, <2>9 DEF BodySound, W!WalletRow
<1>8. FreshSound(h)'
  BY <1>1, <1>3 DEF FreshSound, W!RowCurrent
<1>9. HeldSound(h)' /\ Locked(h)' = {}
  BY <1>1, <1>2, <1>3 DEF HeldSound, Locked
<1> HIDE DEF g, D, bal
<1> QED
  BY <1>1, <1>3, <1>4, <1>7, <1>8, <1>9, OwnStep

(* Opening a wallet changes no row that a transaction could write; a lock  *)
(* waits for the row and makes it stale.                                   *)
LEMMA FlagStep ==
  ASSUME UnitInv, NEW u \in Users, CreateWallet(u) \/ ToggleLock(u)
  PROVE  UnitInv'
<1>1. Types /\ \A v \in Users : wallet[v] \in W!WalletRow
  BY DEF UnitInv, Types
<1>2. PICK R \in {{}, {WalletRow(u)}} :
        /\ \A g \in Handlers : R \cap Locked(g) = {}
        /\ stale' = Outdate(R)
        /\ R = {} => wallet' = [wallet EXCEPT ![u] = [wallet[u] EXCEPT !.open = TRUE]]
        /\ R # {} => wallet' = [wallet EXCEPT ![u] =
                                  [wallet[u] EXCEPT !.locked = ~wallet[u].locked]]
  <2>1. CASE CreateWallet(u)
    BY <1>1, <2>1, OutdateNone DEF CreateWallet
  <2>2. CASE ToggleLock(u)
    BY <2>2 DEF ToggleLock, Free
  <2> QED
    BY <2>1, <2>2
<1>3. UNCHANGED <<ledger, txnStatus, saga, pc, req, snap, snapSaga, body, done>>
  BY DEF CreateWallet, ToggleLock
<1>4. wallet' \in [Users -> W!WalletRow]
  <2> DEFINE b == ~wallet[u].locked
  <2>1. b \in BOOLEAN
    OBVIOUS
  <2> HIDE DEF b
  <2>2. /\ [wallet[u] EXCEPT !.open = TRUE] \in W!WalletRow
        /\ [wallet[u] EXCEPT !.locked = b] \in W!WalletRow
    BY <1>1, <2>1 DEF W!WalletRow
  <2> QED
    BY <1>1, <1>2, <2>2 DEF b, Types
<1>5. \A v \in Users : WalletRow(v) \notin R =>
        wallet'[v].version = wallet[v].version /\ wallet'[v].locked = wallet[v].locked
  <2>1. CASE R = {}
    BY <1>1, <1>2, <2>1 DEF Types, W!WalletRow
  <2>2. CASE R # {}
    BY <1>1, <1>2, <2>2, RowNames DEF Types
  <2> QED
    BY <2>1, <2>2
<1>6. stale' = [g \in Handlers |-> stale'[g]]
  BY <1>2 DEF Outdate
<1>7. \A g \in Handlers :
        stale'[g] = IF pc[g] = "open" THEN stale[g] \cup (R \cap Updates(g))
                                      ELSE stale[g]
  BY <1>2 DEF Outdate
<1>8. Types'
  BY <1>1, <1>3, <1>4, <1>6, <1>7 DEF Types, W!Valid
<1>9. OpenSound'
  BY <1>2, <1>3, <1>5, <1>7, OthersChange DEF OpenSound
<1>10. LocksDisjoint'
  BY <1>3, LockedSame DEF UnitInv, LocksDisjoint
<1> QED
  BY <1>8, <1>9, <1>10 DEF UnitInv

-----------------------------------------------------------------------------
(* A transaction that has written all its statements meets the conditions  *)
(* of Wallet's commit: its updates show that the rows are as it read them, *)
(* its inserts that the keys are free.                                     *)
LEMMA CommitReady ==
  ASSUME UnitInv, NEW h \in Handlers, pc[h] = "open", done[h] = Len(body[h])
  PROVE  /\ \A u \in DOMAIN snap[h] : W!RowCurrent(h, u)
         /\ \A k \in W!KeysOf(req[h]) : W!KeyFree(k)
         /\ W!SagaCurrent(h)
         /\ W!CanCommit(h)
<1> DEFINE r == req[h]
           b == body[h]
<1>1. /\ Covers(b, r, DOMAIN snap[h]) /\ r \in Requests
      /\ FreshSound(h) /\ HeldSound(h)
  BY OpenCovers
<1>2. \A row : Has(b, "update", row) => row \notin stale[h]
  BY <1>1 DEF Has, HeldSound
<1>3. \A row : Has(b, "insert", row) => ~Exists(row)
  BY <1>1 DEF Has, HeldSound
<1>4. ASSUME NEW u \in DOMAIN snap[h] PROVE W!RowCurrent(h, u)
  BY <1>1, <1>2 DEF Covers, FreshSound
<1>5. ASSUME NEW k \in W!KeysOf(r) PROVE W!KeyFree(k)
  <2>1. ~Exists(TxnRow(k))
    BY <1>1, <1>3 DEF Covers
  <2> QED
    BY <2>1, RowNames DEF Exists, W!KeyFree
<1>6. W!SagaCurrent(h)
  <2>1. ASSUME r.op = "debit" PROVE saga[r.saga].status = "none"
    BY <1>1, <1>3, <2>1, RowNames DEF Covers, Exists
  <2>2. ASSUME r.op \in OnSaga PROVE saga[r.saga] = snapSaga[h]
    BY <1>1, <1>2, <2>2 DEF Covers, FreshSound
  <2> QED
    BY <2>1, <2>2 DEF W!SagaCurrent, W!OnSaga, OnSaga
<1> QED
  BY <1>4, <1>5, <1>6 DEF W!CanCommit

LEMMA RowsAreLocked ==
  ASSUME UnitInv, NEW h \in Handlers, pc[h] = "open", done[h] = Len(body[h])
  PROVE  RowsOf(h) = Locked(h)
<1>1. DOMAIN body[h] = 1..Len(body[h])
  BY OpenCovers DEF Covers
<1>2. Range(body[h]) = {body[h][i] : i \in 1..done[h]}
  BY <1>1 DEF Range
<1> QED
  BY <1>2 DEF RowsOf, Locked

-----------------------------------------------------------------------------
(* What a commit writes, in the terms of Wallet's Post.                    *)
LEMMA TheOne == ASSUME NEW S, NEW e, S = {e} PROVE (CHOOSE x \in S : TRUE) = e
OBVIOUS

(* The body updates the balance of each wallet read, and inserts one       *)
(* transaction for it.                                                     *)
Posts(h, delta, key) ==
  /\ \A u \in DOMAIN snap[h] : delta[u] \in Int
  /\ \A u \in Users : WalletRow(u) \in RowsOf(h) <=> u \in DOMAIN snap[h]
  /\ \A u \in Users : u \notin DOMAIN snap[h] => Entries(h, u) = {}
  /\ \A u \in DOMAIN snap[h] :
       /\ \E st : /\ Written(h, WalletRow(u)) = {st}
                  /\ st.balance = snap[h][u].balance + delta[u]
       /\ \E st : /\ Entries(h, u) = {st}
                  /\ st.entry = [key |-> key[u], amount |-> delta[u],
                                 before |-> snap[h][u].balance,
                                 after |-> snap[h][u].balance + delta[u]]

Posted(h, delta, key) ==
  /\ wallet' = [u \in Users |->
       IF u \in DOMAIN snap[h]
       THEN [wallet[u] EXCEPT !.balance = snap[h][u].balance + delta[u],
                              !.version = @ + 1]
       ELSE wallet[u]]
  /\ ledger' = [u \in Users |->
       IF u \in DOMAIN snap[h]
       THEN Append(ledger[u], [key |-> key[u], amount |-> delta[u],
                               before |-> snap[h][u].balance,
                               after |-> snap[h][u].balance + delta[u]])
       ELSE ledger[u]]
  /\ wallet' \in [Users -> W!WalletRow]

LEMMA PostFrom ==
  ASSUME UnitInv, NEW h \in Handlers, pc[h] = "open", Commit(h),
         NEW delta, NEW key, Posts(h, delta, key)
  PROVE  Posted(h, delta, key)
<1> DEFINE new(row) == CHOOSE st \in Written(h, row) : TRUE
           D == DOMAIN snap[h]
<1>1. /\ wallet' = [u \in Users |->
           IF WalletRow(u) \in RowsOf(h)
           THEN [wallet[u] EXCEPT !.balance = new(WalletRow(u)).balance,
                                  !.version = @ + 1]
           ELSE wallet[u]]
      /\ ledger' = [u \in Users |->
           IF Entries(h, u) = {} THEN ledger[u]
           ELSE Append(ledger[u], (CHOOSE st \in Entries(h, u) : TRUE).entry)]
  BY DEF Commit
<1>2. ASSUME NEW u \in D
      PROVE  /\ new(WalletRow(u)).balance = snap[h][u].balance + delta[u]
             /\ Entries(h, u) # {}
             /\ (CHOOSE st \in Entries(h, u) : TRUE).entry =
                  [key |-> key[u], amount |-> delta[u],
                   before |-> snap[h][u].balance,
                   after |-> snap[h][u].balance + delta[u]]
  <2>1. PICK st : /\ Written(h, WalletRow(u)) = {st}
                  /\ st.balance = snap[h][u].balance + delta[u]
    BY DEF Posts
  <2>2. new(WalletRow(u)) = st
    BY <2>1, TheOne
  <2>3. PICK e : /\ Entries(h, u) = {e}
                 /\ e.entry = [key |-> key[u], amount |-> delta[u],
                               before |-> snap[h][u].balance,
                               after |-> snap[h][u].balance + delta[u]]
    BY DEF Posts
  <2>4. (CHOOSE x \in Entries(h, u) : TRUE) = e
    BY <2>3, TheOne
  <2> QED
    BY <2>1, <2>2, <2>3, <2>4
<1> HIDE DEF new
<1>3. wallet' = [u \in Users |->
        IF u \in D
        THEN [wallet[u] EXCEPT !.balance = snap[h][u].balance + delta[u],
                               !.version = @ + 1]
        ELSE wallet[u]]
  BY <1>1, <1>2 DEF Posts
<1>4. ledger' = [u \in Users |->
        IF u \in D
        THEN Append(ledger[u], [key |-> key[u], amount |-> delta[u],
                                before |-> snap[h][u].balance,
                                after |-> snap[h][u].balance + delta[u]])
        ELSE ledger[u]]
  <2> DEFINE e(u) == [key |-> key[u], amount |-> delta[u],
                      before |-> snap[h][u].balance,
                      after |-> snap[h][u].balance + delta[u]]
             f(u) == (CHOOSE st \in Entries(h, u) : TRUE).entry
             old(u) == IF Entries(h, u) = {} THEN ledger[u] ELSE Append(ledger[u], f(u))
             now(u) == IF u \in D THEN Append(ledger[u], e(u)) ELSE ledger[u]
  <2>1. ASSUME NEW u \in Users PROVE old(u) = now(u)
    <3>1. CASE u \in D
      <4>1. f(u) = e(u) /\ Entries(h, u) # {}
        BY <1>2, <3>1
      <4> HIDE DEF e, f
      <4> QED
        BY <3>1, <4>1
    <3>2. CASE u \notin D
      BY <3>2 DEF Posts
    <3> QED
      BY <3>1, <3>2
  <2>2. ledger' = [u \in Users |-> old(u)]
    BY <1>1
  <2>3. ledger' = [u \in Users |-> now(u)]
    <3> HIDE DEF old, now
    <3> QED
      BY <2>1, <2>2
  <2> QED
    BY <2>3
<1>5. ASSUME NEW u \in Users PROVE wallet'[u] \in W!WalletRow
  <2>1. wallet[u] \in W!WalletRow
    BY DEF UnitInv, Types
  <2>2. CASE u \in D
    <3> DEFINE b == snap[h][u].balance + delta[u]
    <3>1. b \in Int
      <4>1. snap[h][u] \in W!WalletRow
        BY <2>2, OpenCovers DEF BodySound
      <4>2. snap[h][u].balance \in Int /\ delta[u] \in Int
        BY <2>2, <4>1 DEF Posts, W!WalletRow
      <4> QED
        BY <4>2
    <3> DEFINE n == wallet[u].version + 1
    <3>2. wallet'[u] = [wallet[u] EXCEPT !.balance = b, !.version = n]
      BY <1>3, <2>2
    <3>3. n \in Nat
      BY <2>1 DEF W!WalletRow
    <3> HIDE DEF b, n
    <3> QED
      BY <2>1, <3>1, <3>2, <3>3 DEF W!WalletRow
  <2> QED
    BY <1>3, <2>1, <2>2
<1> QED
  BY <1>3, <1>4, <1>5 DEF Posted

LEMMA DoneByLeaving ==
  ASSUME UnitInv, NEW h \in Handlers, NEW st, Leave(h, st)
  PROVE  W!Done(h)
<1>1. /\ pc' = [pc EXCEPT ![h] = "idle"] /\ DOMAIN pc = Handlers
      /\ req' = [req EXCEPT ![h] = NoRequest]
      /\ snap' = [snap EXCEPT ![h] = W!NoSnap]
      /\ snapSaga' = [snapSaga EXCEPT ![h] = NoSaga]
  BY DEF Leave, UnitInv, Types
<1> QED
  BY <1>1 DEF W!Done, W!NoSaga, NoSaga

LEMMA ReplyByCommitting ==
  ASSUME UnitInv, NEW h \in Handlers, Commit(h)
  PROVE  W!Reply(h)
BY DoneByLeaving DEF Commit, W!Reply

(* Each body, committed, is Wallet's operation.                            *)
LEMMA CommitFacts ==
  ASSUME UnitInv, NEW h \in Handlers, Commit(h)
  PROVE  /\ pc[h] = "open" /\ done[h] = Len(body[h])
         /\ req[h] \in Requests /\ W!Valid(req[h])
         /\ snapSaga[h] \in SagaRow
         /\ DOMAIN snap[h] = Writes(req[h], snapSaga[h])
         /\ \A u \in DOMAIN snap[h] : snap[h][u] \in W!WalletRow
         /\ body[h] = Body(req[h], snapSaga[h],
                           [u \in DOMAIN snap[h] |-> snap[h][u].balance])
         /\ \A op : req[h].op = op => W!Commits(h, op)
         /\ W!SagaCurrent(h)
         /\ W!Reply(h)
<1>1. pc[h] = "open" /\ done[h] = Len(body[h])
  BY DEF Commit
<1>2. BodySound(h) /\ req[h] \in Requests /\ W!Valid(req[h])
  BY <1>1, OpenCovers DEF UnitInv, Types
<1>3. /\ snapSaga[h] \in SagaRow
      /\ DOMAIN snap[h] = Writes(req[h], snapSaga[h])
      /\ \A u \in DOMAIN snap[h] : snap[h][u] \in W!WalletRow
      /\ body[h] = Body(req[h], snapSaga[h],
                        [u \in DOMAIN snap[h] |-> snap[h][u].balance])
  BY <1>2 DEF BodySound
<1>4. W!CanCommit(h) /\ W!SagaCurrent(h)
  BY <1>1, CommitReady
<1>5. \A op : req[h].op = op => W!Commits(h, op)
  BY <1>1, <1>4 DEF W!Commits
<1> QED
  BY <1>1, <1>2, <1>3, <1>4, <1>5, ReplyByCommitting

LEMMA CommittedTxns ==
  ASSUME UnitInv, NEW h \in Handlers, Commit(h)
  PROVE  /\ txnStatus = [k \in TxnKeys |-> txnStatus[k]]
         /\ txnStatus' = [k \in TxnKeys |-> txnStatus'[k]]
         /\ \A k \in TxnKeys : TxnRow(k) \notin RowsOf(h) => txnStatus'[k] = txnStatus[k]
         /\ \A k \in TxnKeys : \A st :
              Written(h, TxnRow(k)) = {st} => txnStatus'[k] = st.status
<1>1. txnStatus' = [k \in TxnKeys |->
        IF TxnRow(k) \in RowsOf(h)
        THEN (CHOOSE st \in Written(h, TxnRow(k)) : TRUE).status ELSE txnStatus[k]]
  BY DEF Commit
<1>2. ASSUME NEW k \in TxnKeys, NEW st, Written(h, TxnRow(k)) = {st}
      PROVE  txnStatus'[k] = st.status
  <2>1. TxnRow(k) \in RowsOf(h)
    BY <1>2 DEF Written, RowsOf
  <2>2. (CHOOSE x \in Written(h, TxnRow(k)) : TRUE) = st
    BY <1>2, TheOne
  <2> QED
    BY <1>1, <2>1, <2>2
<1> QED
  BY <1>1, <1>2 DEF UnitInv, Types

LEMMA CommittedSagas ==
  ASSUME UnitInv, NEW h \in Handlers, Commit(h)
  PROVE  /\ saga = [s \in Sagas |-> saga[s]]
         /\ \A s \in Sagas : saga[s] \in SagaRow
         /\ saga' = [s \in Sagas |-> saga'[s]]
         /\ \A s \in Sagas : SagaOf(s) \notin RowsOf(h) => saga'[s] = saga[s]
         /\ \A s \in Sagas : \A st :
              Written(h, SagaOf(s)) = {st} => saga'[s] = st.saga
<1>1. saga' = [s \in Sagas |->
        IF SagaOf(s) \in RowsOf(h)
        THEN (CHOOSE st \in Written(h, SagaOf(s)) : TRUE).saga ELSE saga[s]]
  BY DEF Commit
<1>2. ASSUME NEW s \in Sagas, NEW st, Written(h, SagaOf(s)) = {st}
      PROVE  saga'[s] = st.saga
  <2>1. SagaOf(s) \in RowsOf(h)
    BY <1>2 DEF Written, RowsOf
  <2>2. (CHOOSE x \in Written(h, SagaOf(s)) : TRUE) = st
    BY <1>2, TheOne
  <2> QED
    BY <1>1, <2>1, <2>2
<1> QED
  BY <1>1, <1>2 DEF UnitInv, Types

LEMMA CreditCommit ==
  ASSUME UnitInv, NEW h \in Handlers, Commit(h), NEW r \in Requests, req[h] = r,
         r.op = "credit"
  PROVE  W!CreditWallet(h) /\ wallet' \in [Users -> W!WalletRow] /\ saga' = saga
<1> DEFINE U == {r.user}
           k1 == ReqKey(r.key)
           delta == [u \in U |-> r.amount]
           key == [u \in U |-> k1]
           bal == [u \in DOMAIN snap[h] |-> snap[h][u].balance]
           s1 == InsertTxn(k1, "COMPLETED", r.user, bal[r.user], r.amount)
           s2 == UpdateBalance(r.user, bal[r.user] + r.amount)
<1>1. DOMAIN snap[h] = U /\ bal[r.user] = snap[h][r.user].balance
  BY CommitFacts DEF Writes
<1>2. body[h] = << s1, s2 >>
  BY CommitFacts DEF Body, CreditBody
<1>3. Range(body[h]) = {s1, s2}
  <2> HIDE DEF s1, s2
  <2> QED
    BY <1>2 DEF Range
<1>4. /\ s1.kind = "insert" /\ s1.row = TxnRow(k1) /\ s1.status = "COMPLETED"
      /\ s1.user = r.user
      /\ s1.entry = [key |-> k1, amount |-> r.amount, before |-> bal[r.user],
                     after |-> bal[r.user] + r.amount]
      /\ s2.kind = "update" /\ s2.row = WalletRow(r.user)
      /\ s2.balance = bal[r.user] + r.amount
  BY DEF InsertTxn, UpdateBalance
<1>5. r.user \in Users /\ r.amount \in Int /\ k1 \in TxnKeys
  BY RequestTypes, KeyTypes
<1> HIDE DEF s1, s2, bal, k1
<1>6. RowsOf(h) = {TxnRow(k1), WalletRow(r.user)}
  BY <1>3, <1>4 DEF RowsOf
<1>7. /\ Written(h, WalletRow(r.user)) = {s2} /\ Written(h, TxnRow(k1)) = {s1}
      /\ Entries(h, r.user) = {s1} /\ \A u : u # r.user => Entries(h, u) = {}
  BY <1>3, <1>4, RowNames DEF Written, Entries
<1>8. Posts(h, delta, key)
  BY <1>1, <1>4, <1>5, <1>6, <1>7, RowNames DEF Posts
<1>9. txnStatus' = [txnStatus EXCEPT ![k1] = "COMPLETED"]
  <2>1. txnStatus'[k1] = "COMPLETED"
    BY <1>4, <1>5, <1>7, CommittedTxns
  <2>2. \A k \in TxnKeys : k # k1 => txnStatus'[k] = txnStatus[k]
    BY <1>6, CommittedTxns, RowNames
  <2>3. /\ txnStatus = [k \in TxnKeys |-> txnStatus[k]]
        /\ txnStatus' = [k \in TxnKeys |-> txnStatus'[k]]
    BY CommittedTxns
  <2> QED
    BY <2>1, <2>2, <2>3
<1>10. saga' = saga
  <2>1. \A s \in Sagas : saga'[s] = saga[s]
    BY <1>6, CommittedSagas, RowNames
  <2>2. saga = [s \in Sagas |-> saga[s]] /\ saga' = [s \in Sagas |-> saga'[s]]
    BY CommittedSagas
  <2> QED
    BY <2>1, <2>2
<1>11. wallet' \in [Users -> W!WalletRow] /\ W!Post(h, delta, key)
  <2>1. pc[h] = "open"
    BY CommitFacts
  <2> HIDE DEF delta, key
  <2> QED
    <3>1. Posted(h, delta, key)
      BY <1>8, <2>1, PostFrom
    <3> QED
      BY <3>1 DEF Posted, W!Post
<1> QED
  BY <1>9, <1>10, <1>11, CommitFacts DEF W!CreditWallet, W!ReqKey, k1, ReqKey

LEMMA TransferCommit ==
  ASSUME UnitInv, NEW h \in Handlers, Commit(h), NEW r \in Requests, req[h] = r,
         r.op = "transfer"
  PROVE  W!TransferWallet(h) /\ wallet' \in [Users -> W!WalletRow] /\ saga' = saga
<1> DEFINE U == {r.user, r.to}
           k1 == ReqKey(r.key)
           k2 == CreditKey(r.key)
           delta == [u \in U |-> IF u = r.user THEN -r.amount ELSE r.amount]
           key == [u \in U |-> IF u = r.user THEN k1 ELSE k2]
           bal == [u \in DOMAIN snap[h] |-> snap[h][u].balance]
           s1 == InsertTxn(k1, "COMPLETED", r.user, bal[r.user], -r.amount)
           s2 == InsertTxn(k2, "COMPLETED", r.to, bal[r.to], r.amount)
           s3 == UpdateBalance(r.user, bal[r.user] - r.amount)
           s4 == UpdateBalance(r.to, bal[r.to] + r.amount)
<1>1. /\ DOMAIN snap[h] = U
      /\ bal[r.user] = snap[h][r.user].balance /\ bal[r.to] = snap[h][r.to].balance
      /\ bal[r.user] \in Int /\ bal[r.to] \in Int
  <2>1. DOMAIN snap[h] = U /\ \A u \in U : snap[h][u] \in W!WalletRow
    BY CommitFacts DEF Writes
  <2> QED
    BY <2>1 DEF W!WalletRow
<1>2. body[h] = << s1, s2, s3, s4 >>
  BY CommitFacts DEF Body, TransferBody
<1>3. Range(body[h]) = {s1, s2, s3, s4}
  <2> HIDE DEF s1, s2, s3, s4
  <2> QED
    BY <1>2 DEF Range
<1>4. /\ s1.kind = "insert" /\ s1.row = TxnRow(k1) /\ s1.status = "COMPLETED"
      /\ s1.user = r.user
      /\ s1.entry = [key |-> k1, amount |-> -r.amount, before |-> bal[r.user],
                     after |-> bal[r.user] + (-r.amount)]
      /\ s2.kind = "insert" /\ s2.row = TxnRow(k2) /\ s2.status = "COMPLETED"
      /\ s2.user = r.to
      /\ s2.entry = [key |-> k2, amount |-> r.amount, before |-> bal[r.to],
                     after |-> bal[r.to] + r.amount]
      /\ s3.kind = "update" /\ s3.row = WalletRow(r.user)
      /\ s3.balance = bal[r.user] - r.amount
      /\ s4.kind = "update" /\ s4.row = WalletRow(r.to)
      /\ s4.balance = bal[r.to] + r.amount
  BY DEF InsertTxn, UpdateBalance
<1>5. /\ r.user \in Users /\ r.to \in Users /\ r.user # r.to /\ r.amount \in Int
      /\ k1 \in TxnKeys /\ k2 \in TxnKeys /\ k1 # k2
  <2> HIDE DEF s1, s2, s3, s4, bal, delta, key
  <2>1. r.user # r.to
    BY CommitFacts DEF W!Valid
  <2>2. k1 # k2
    BY DEF ReqKey, CreditKey
  <2>3. /\ r.user \in Users /\ r.to \in Users /\ r.amount \in Int
        /\ r.key \in Keys
    BY RequestTypes
  <2>4. k1 \in TxnKeys /\ k2 \in TxnKeys
    BY <2>3, KeyTypes
  <2> QED
    BY <2>1, <2>2, <2>3, <2>4
<1>6. /\ delta[r.user] = -r.amount /\ delta[r.to] = r.amount
      /\ key[r.user] = k1 /\ key[r.to] = k2
      /\ s3.balance = bal[r.user] + (-r.amount)
  BY <1>1, <1>4, <1>5
<1> HIDE DEF s1, s2, s3, s4, bal, k1, k2, delta, key
<1>7. RowsOf(h) = {TxnRow(k1), TxnRow(k2), WalletRow(r.user), WalletRow(r.to)}
  BY <1>3, <1>4 DEF RowsOf
<1>8. /\ Written(h, WalletRow(r.user)) = {s3} /\ Written(h, WalletRow(r.to)) = {s4}
      /\ Written(h, TxnRow(k1)) = {s1} /\ Written(h, TxnRow(k2)) = {s2}
  BY <1>3, <1>4, <1>5, RowNames DEF Written
<1>9. /\ Entries(h, r.user) = {s1} /\ Entries(h, r.to) = {s2}
      /\ \A u : u \notin U => Entries(h, u) = {}
  BY <1>3, <1>4, <1>5, RowNames DEF Entries
<1>10. Posts(h, delta, key)
  <2>1. \A u \in Users : WalletRow(u) \in RowsOf(h) <=> u \in U
    BY <1>7, RowNames
  <2>2. \A u \in U :
          /\ delta[u] \in Int
          /\ \E st : /\ Written(h, WalletRow(u)) = {st}
                     /\ st.balance = snap[h][u].balance + delta[u]
    BY <1>1, <1>4, <1>5, <1>6, <1>8
  <2>3. \A u \in U : \E st :
          /\ Entries(h, u) = {st}
          /\ st.entry = [key |-> key[u], amount |-> delta[u],
                         before |-> snap[h][u].balance,
                         after |-> snap[h][u].balance + delta[u]]
    BY <1>1, <1>4, <1>6, <1>9
  <2> HIDE DEF U
  <2> QED
    BY <1>1, <1>9, <2>1, <2>2, <2>3 DEF Posts
<1>11. txnStatus' = [txnStatus EXCEPT ![k1] = "COMPLETED", ![k2] = "COMPLETED"]
  <2>1. txnStatus'[k1] = "COMPLETED" /\ txnStatus'[k2] = "COMPLETED"
    BY <1>4, <1>5, <1>8, CommittedTxns
  <2>2. \A k \in TxnKeys : k # k1 /\ k # k2 => txnStatus'[k] = txnStatus[k]
    BY <1>7, CommittedTxns, RowNames
  <2>3. /\ txnStatus = [k \in TxnKeys |-> txnStatus[k]]
        /\ txnStatus' = [k \in TxnKeys |-> txnStatus'[k]]
    BY CommittedTxns
  <2> QED
    BY <2>1, <2>2, <2>3
<1>12. saga' = saga
  <2>1. \A s \in Sagas : saga'[s] = saga[s]
    BY <1>7, CommittedSagas, RowNames
  <2>2. saga = [s \in Sagas |-> saga[s]] /\ saga' = [s \in Sagas |-> saga'[s]]
    BY CommittedSagas
  <2> QED
    BY <2>1, <2>2
<1>13. wallet' \in [Users -> W!WalletRow] /\ W!Post(h, delta, key)
  <2>1. pc[h] = "open"
    BY CommitFacts
  <2>2. Posted(h, delta, key)
    BY <1>10, <2>1, PostFrom
  <2> QED
    BY <2>2 DEF Posted, W!Post
<1> QED
  BY <1>11, <1>12, <1>13, CommitFacts
  DEF W!TransferWallet, W!ReqKey, k1, ReqKey, W!CreditKey, k2, CreditKey, delta, key

LEMMA DebitCommit ==
  ASSUME UnitInv, NEW h \in Handlers, Commit(h), NEW r \in Requests, req[h] = r,
         r.op = "debit"
  PROVE  /\ W!DebitForSaga(h) /\ wallet' \in [Users -> W!WalletRow]
         /\ saga' \in [Sagas -> SagaRow]
<1> DEFINE U == {r.user}
           k1 == ReqKey(r.key)
           g == [status |-> "PENDING", user |-> r.user, amount |-> r.amount,
                 key |-> r.key]
           delta == [u \in U |-> -r.amount]
           key == [u \in U |-> k1]
           bal == [u \in DOMAIN snap[h] |-> snap[h][u].balance]
           s1 == InsertTxn(k1, "PENDING", r.user, bal[r.user], -r.amount)
           s2 == InsertSaga(r.saga, g)
           s3 == UpdateBalance(r.user, bal[r.user] - r.amount)
<1>1. /\ DOMAIN snap[h] = U
      /\ bal[r.user] = snap[h][r.user].balance /\ bal[r.user] \in Int
  <2>1. DOMAIN snap[h] = U /\ \A u \in U : snap[h][u] \in W!WalletRow
    BY CommitFacts DEF Writes
  <2> QED
    BY <2>1 DEF W!WalletRow
<1>2. body[h] = << s1, s2, s3 >>
  BY CommitFacts DEF Body, DebitBody
<1>3. Range(body[h]) = {s1, s2, s3}
  <2> HIDE DEF s1, s2, s3
  <2> QED
    BY <1>2 DEF Range
<1>4. /\ s1.kind = "insert" /\ s1.row = TxnRow(k1) /\ s1.status = "PENDING"
      /\ s1.user = r.user
      /\ s1.entry = [key |-> k1, amount |-> -r.amount, before |-> bal[r.user],
                     after |-> bal[r.user] + (-r.amount)]
      /\ s2.kind = "insert" /\ s2.row = SagaOf(r.saga) /\ s2.saga = g
      /\ s3.kind = "update" /\ s3.row = WalletRow(r.user)
      /\ s3.balance = bal[r.user] - r.amount
  BY DEF InsertTxn, InsertSaga, UpdateBalance
<1>5. /\ r.user \in Users /\ r.amount \in Int /\ r.saga \in Sagas
      /\ k1 \in TxnKeys /\ r.key \in Keys
  BY RequestTypes, KeyTypes
<1>6. /\ delta[r.user] = -r.amount /\ key[r.user] = k1
      /\ s3.balance = bal[r.user] + (-r.amount)
  BY <1>1, <1>4, <1>5
<1>7. g \in SagaRow
  BY <1>5 DEF SagaRow, SagaStatus
<1> HIDE DEF s1, s2, s3, bal, k1, g, delta, key
<1>8. RowsOf(h) = {TxnRow(k1), SagaOf(r.saga), WalletRow(r.user)}
  BY <1>3, <1>4 DEF RowsOf
<1>9. /\ Written(h, WalletRow(r.user)) = {s3} /\ Written(h, TxnRow(k1)) = {s1}
      /\ Written(h, SagaOf(r.saga)) = {s2}
  BY <1>3, <1>4, RowNames DEF Written
<1>10. Entries(h, r.user) = {s1} /\ \A u : u # r.user => Entries(h, u) = {}
  BY <1>3, <1>4, RowNames DEF Entries
<1>11. Posts(h, delta, key)
  BY <1>1, <1>4, <1>5, <1>6, <1>8, <1>9, <1>10, RowNames DEF Posts
<1>12. txnStatus' = [txnStatus EXCEPT ![k1] = "PENDING"]
  <2>1. txnStatus'[k1] = "PENDING"
    BY <1>4, <1>5, <1>9, CommittedTxns
  <2>2. \A k \in TxnKeys : k # k1 => txnStatus'[k] = txnStatus[k]
    BY <1>8, CommittedTxns, RowNames
  <2>3. /\ txnStatus = [k \in TxnKeys |-> txnStatus[k]]
        /\ txnStatus' = [k \in TxnKeys |-> txnStatus'[k]]
    BY CommittedTxns
  <2> QED
    BY <2>1, <2>2, <2>3
<1>13. saga' = [saga EXCEPT ![r.saga] = g] /\ saga' \in [Sagas -> SagaRow]
  <2>1. saga'[r.saga] = g
    BY <1>4, <1>5, <1>9, CommittedSagas
  <2>2. \A s \in Sagas : s # r.saga => saga'[s] = saga[s]
    BY <1>8, CommittedSagas, RowNames
  <2>3. /\ saga = [s \in Sagas |-> saga[s]] /\ saga' = [s \in Sagas |-> saga'[s]]
        /\ \A s \in Sagas : saga[s] \in SagaRow
    BY CommittedSagas
  <2> QED
    BY <1>7, <2>1, <2>2, <2>3
<1>14. wallet' \in [Users -> W!WalletRow] /\ W!Post(h, delta, key)
  <2>1. pc[h] = "open"
    BY CommitFacts
  <2>2. Posted(h, delta, key)
    BY <1>11, <2>1, PostFrom
  <2> QED
    BY <2>2 DEF Posted, W!Post
<1> QED
  BY <1>12, <1>13, <1>14, CommitFacts
  DEF W!DebitForSaga, W!ReqKey, k1, ReqKey, delta, key, g

LEMMA CompensateCommit ==
  ASSUME UnitInv, NEW h \in Handlers, Commit(h), NEW r \in Requests, req[h] = r,
         r.op = "compensate", NEW g \in SagaRow, snapSaga[h] = g
  PROVE  /\ W!CompensateSaga(h) /\ wallet' \in [Users -> W!WalletRow]
         /\ saga' \in [Sagas -> SagaRow]
<1> DEFINE U == {g.user}
           k1 == ReqKey(g.key)
           k2 == CompKey(r.saga)
           new == [g EXCEPT !.status = "COMPENSATED"]
           delta == [u \in U |-> g.amount]
           key == [u \in U |-> k2]
           bal == [u \in DOMAIN snap[h] |-> snap[h][u].balance]
           s1 == UpdateTxn(k1, "REVERSED")
           s2 == InsertTxn(k2, "COMPLETED", g.user, bal[g.user], g.amount)
           s3 == UpdateBalance(g.user, bal[g.user] + g.amount)
           s4 == UpdateSaga(r.saga, new)
<1>1. DOMAIN snap[h] = U /\ bal[g.user] = snap[h][g.user].balance
  BY CommitFacts DEF Writes
<1>2. body[h] = << s1, s2, s3, s4 >>
  BY CommitFacts DEF Body, CompensateBody
<1>3. Range(body[h]) = {s1, s2, s3, s4}
  <2> HIDE DEF s1, s2, s3, s4
  <2> QED
    BY <1>2 DEF Range
<1>4. /\ s1.kind = "update" /\ s1.row = TxnRow(k1) /\ s1.status = "REVERSED"
      /\ s2.kind = "insert" /\ s2.row = TxnRow(k2) /\ s2.status = "COMPLETED"
      /\ s2.user = g.user
      /\ s2.entry = [key |-> k2, amount |-> g.amount, before |-> bal[g.user],
                     after |-> bal[g.user] + g.amount]
      /\ s3.kind = "update" /\ s3.row = WalletRow(g.user)
      /\ s3.balance = bal[g.user] + g.amount
      /\ s4.kind = "update" /\ s4.row = SagaOf(r.saga) /\ s4.saga = new
  BY DEF InsertTxn, UpdateTxn, UpdateSaga, UpdateBalance
<1>5. /\ g.user \in Users /\ g.amount \in Int /\ g.key \in Keys /\ r.saga \in Sagas
      /\ k1 \in TxnKeys /\ k2 \in TxnKeys /\ k1 # k2
  <2>1. g.user \in Users /\ g.amount \in Int /\ g.key \in Keys
    BY DEF SagaRow
  <2>2. k1 # k2
    BY DEF ReqKey, CompKey
  <2> QED
    BY <2>1, <2>2, RequestTypes, KeyTypes
<1>6. new \in SagaRow
  BY DEF SagaRow, SagaStatus
<1>7. saga[r.saga] = g
  BY CommitFacts DEF W!SagaCurrent, W!OnSaga
<1> HIDE DEF s1, s2, s3, s4, bal, k1, k2, new
<1>8. RowsOf(h) = {TxnRow(k1), TxnRow(k2), WalletRow(g.user), SagaOf(r.saga)}
  BY <1>3, <1>4 DEF RowsOf
<1>9. /\ Written(h, WalletRow(g.user)) = {s3} /\ Written(h, SagaOf(r.saga)) = {s4}
      /\ Written(h, TxnRow(k1)) = {s1} /\ Written(h, TxnRow(k2)) = {s2}
  BY <1>3, <1>4, <1>5, RowNames DEF Written
<1>10. Entries(h, g.user) = {s2} /\ \A u : u # g.user => Entries(h, u) = {}
  BY <1>3, <1>4, RowNames DEF Entries
<1>11. Posts(h, delta, key)
  BY <1>1, <1>4, <1>5, <1>8, <1>9, <1>10, RowNames DEF Posts
<1>12. txnStatus' = [txnStatus EXCEPT ![k1] = "REVERSED", ![k2] = "COMPLETED"]
  <2>1. txnStatus'[k1] = "REVERSED" /\ txnStatus'[k2] = "COMPLETED"
    BY <1>4, <1>5, <1>9, CommittedTxns
  <2>2. \A k \in TxnKeys : k # k1 /\ k # k2 => txnStatus'[k] = txnStatus[k]
    BY <1>8, CommittedTxns, RowNames
  <2>3. /\ txnStatus = [k \in TxnKeys |-> txnStatus[k]]
        /\ txnStatus' = [k \in TxnKeys |-> txnStatus'[k]]
    BY CommittedTxns
  <2> QED
    BY <1>5, <2>1, <2>2, <2>3
<1>13. saga' = [saga EXCEPT ![r.saga] = new] /\ saga' \in [Sagas -> SagaRow]
  <2>1. saga'[r.saga] = new
    BY <1>4, <1>5, <1>9, CommittedSagas
  <2>2. \A s \in Sagas : s # r.saga => saga'[s] = saga[s]
    BY <1>8, CommittedSagas, RowNames
  <2>3. /\ saga = [s \in Sagas |-> saga[s]] /\ saga' = [s \in Sagas |-> saga'[s]]
        /\ \A s \in Sagas : saga[s] \in SagaRow
    BY CommittedSagas
  <2> QED
    BY <1>6, <2>1, <2>2, <2>3
<1>14. saga' = [saga EXCEPT ![r.saga].status = "COMPENSATED"]
  BY <1>7, <1>13 DEF new
<1>15. wallet' \in [Users -> W!WalletRow] /\ W!Post(h, delta, key)
  <2>1. pc[h] = "open"
    BY CommitFacts
  <2> HIDE DEF delta, key
  <2>2. Posted(h, delta, key)
    BY <1>11, <2>1, PostFrom
  <2> QED
    BY <2>2 DEF Posted, W!Post
<1> QED
  BY <1>12, <1>13, <1>14, <1>15, CommitFacts
  DEF W!CompensateSaga, W!ReqKey, k1, ReqKey, W!CompKey, k2, CompKey

LEMMA CompleteCommit ==
  ASSUME UnitInv, NEW h \in Handlers, Commit(h), NEW r \in Requests, req[h] = r,
         r.op = "complete", NEW g \in SagaRow, snapSaga[h] = g
  PROVE  /\ W!CompleteSaga(h) /\ wallet' \in [Users -> W!WalletRow]
         /\ saga' \in [Sagas -> SagaRow]
<1> DEFINE k1 == ReqKey(g.key)
           new == [g EXCEPT !.status = "COMPLETED"]
           s1 == UpdateTxn(k1, "COMPLETED")
           s2 == UpdateSaga(r.saga, new)
<1>1. body[h] = << s1, s2 >>
  BY CommitFacts DEF Body, CompleteBody
<1>2. Range(body[h]) = {s1, s2}
  <2> HIDE DEF s1, s2
  <2> QED
    BY <1>1 DEF Range
<1>3. /\ s1.kind = "update" /\ s1.row = TxnRow(k1) /\ s1.status = "COMPLETED"
      /\ s2.kind = "update" /\ s2.row = SagaOf(r.saga) /\ s2.saga = new
  BY DEF UpdateTxn, UpdateSaga
<1>4. r.saga \in Sagas /\ k1 \in TxnKeys
  BY RequestTypes, KeyTypes DEF SagaRow
<1>5. new \in SagaRow
  BY DEF SagaRow, SagaStatus
<1>6. saga[r.saga] = g
  BY CommitFacts DEF W!SagaCurrent, W!OnSaga
<1> HIDE DEF s1, s2, k1, new
<1>7. RowsOf(h) = {TxnRow(k1), SagaOf(r.saga)}
  BY <1>2, <1>3 DEF RowsOf
<1>8. Written(h, SagaOf(r.saga)) = {s2} /\ Written(h, TxnRow(k1)) = {s1}
  BY <1>2, <1>3, RowNames DEF Written
<1>9. wallet' = wallet /\ ledger' = ledger /\ wallet \in [Users -> W!WalletRow]
  <2>1. /\ \A u : WalletRow(u) \notin RowsOf(h)
        /\ \A u : Entries(h, u) = {}
    BY <1>2, <1>3, <1>7, RowNames DEF Entries
  <2>2. wallet \in [Users -> W!WalletRow] /\ ledger = [u \in Users |-> ledger[u]]
    BY DEF UnitInv, Types
  <2>3. wallet' = [u \in Users |-> wallet[u]] /\ ledger' = [u \in Users |-> ledger[u]]
    BY <2>1 DEF Commit
  <2> QED
    BY <2>2, <2>3
<1>10. txnStatus' = [txnStatus EXCEPT ![k1] = "COMPLETED"]
  <2>1. txnStatus'[k1] = "COMPLETED"
    BY <1>3, <1>4, <1>8, CommittedTxns
  <2>2. \A k \in TxnKeys : k # k1 => txnStatus'[k] = txnStatus[k]
    BY <1>7, CommittedTxns, RowNames
  <2>3. /\ txnStatus = [k \in TxnKeys |-> txnStatus[k]]
        /\ txnStatus' = [k \in TxnKeys |-> txnStatus'[k]]
    BY CommittedTxns
  <2> QED
    BY <2>1, <2>2, <2>3
<1>11. saga' = [saga EXCEPT ![r.saga] = new] /\ saga' \in [Sagas -> SagaRow]
  <2>1. saga'[r.saga] = new
    BY <1>3, <1>4, <1>8, CommittedSagas
  <2>2. \A s \in Sagas : s # r.saga => saga'[s] = saga[s]
    BY <1>7, CommittedSagas, RowNames
  <2>3. /\ saga = [s \in Sagas |-> saga[s]] /\ saga' = [s \in Sagas |-> saga'[s]]
        /\ \A s \in Sagas : saga[s] \in SagaRow
    BY CommittedSagas
  <2> QED
    BY <1>5, <2>1, <2>2, <2>3
<1>12. saga' = [saga EXCEPT ![r.saga].status = "COMPLETED"]
  BY <1>6, <1>11 DEF new
<1> QED
  BY <1>9, <1>10, <1>11, <1>12, CommitFacts
  DEF W!CompleteSaga, W!ReqKey, k1, ReqKey

LEMMA CommitIsWallets ==
  ASSUME UnitInv, NEW h \in Handlers, Commit(h)
  PROVE  /\ W!Commit(h)
         /\ wallet' \in [Users -> W!WalletRow] /\ saga' \in [Sagas -> SagaRow]
<1>1. PICK r \in Requests : req[h] = r
  BY CommitFacts
<1>2. PICK g \in SagaRow : snapSaga[h] = g
  BY CommitFacts
<1>3. saga \in [Sagas -> SagaRow]
  BY DEF UnitInv, Types
<1>4. CASE r.op = "credit"
  BY <1>1, <1>3, <1>4, CreditCommit DEF W!Commit
<1>5. CASE r.op = "transfer"
  BY <1>1, <1>3, <1>5, TransferCommit DEF W!Commit
<1>6. CASE r.op = "debit"
  BY <1>1, <1>6, DebitCommit DEF W!Commit
<1>7. CASE r.op = "compensate"
  BY <1>1, <1>2, <1>7, CompensateCommit DEF W!Commit
<1>8. CASE r.op = "complete"
  BY <1>1, <1>2, <1>8, CompleteCommit DEF W!Commit
<1> QED
  BY <1>4, <1>5, <1>6, <1>7, <1>8, RequestTypes

LEMMA CommitStep ==
  ASSUME UnitInv, NEW h \in Handlers, Commit(h)
  PROVE  UnitInv'
<1> DEFINE R == RowsOf(h)
<1>1. pc[h] = "open" /\ done[h] = Len(body[h]) /\ Leave(h, Outdate(R))
  BY DEF Commit
<1>2. \A g \in Handlers \ {h} : R \cap Locked(g) = {}
  BY <1>1, RowsAreLocked DEF UnitInv, LocksDisjoint
<1>3. wallet' \in [Users -> W!WalletRow] /\ saga' \in [Sagas -> SagaRow]
  BY CommitIsWallets
<1>4. /\ txnStatus' = [k \in TxnKeys |-> txnStatus'[k]]
      /\ \A k \in TxnKeys : TxnRow(k) \notin R => txnStatus'[k] = txnStatus[k]
  BY CommittedTxns
<1>5. \A s \in Sagas : SagaOf(s) \notin R => saga'[s] = saga[s]
  BY CommittedSagas
<1>6. /\ ledger' = [u \in Users |-> ledger'[u]]
      /\ \A u \in Users : WalletRow(u) \notin R => wallet'[u] = wallet[u]
  <2> DEFINE entry(u) == (CHOOSE st \in Entries(h, u) : TRUE).entry
             then(u) == IF Entries(h, u) = {} THEN ledger[u]
                        ELSE Append(ledger[u], entry(u))
             new(u) == [wallet[u] EXCEPT
                          !.balance = (CHOOSE st \in Written(h, WalletRow(u)) : TRUE).balance,
                          !.version = @ + 1]
  <2>1. /\ ledger' = [u \in Users |-> then(u)]
        /\ wallet' = [u \in Users |-> IF WalletRow(u) \in R THEN new(u) ELSE wallet[u]]
    BY DEF Commit
  <2> HIDE DEF then, new
  <2> QED
    BY <2>1
<1> HIDE DEF R
<1> QED
  BY <1>1, <1>2, <1>3, <1>4, <1>5, <1>6, LeaveStep

LEMMA NextUnit == UnitInv /\ [Next]_vars => UnitInv'
<1> SUFFICES ASSUME UnitInv, [Next]_vars PROVE UnitInv'
  OBVIOUS
<1>1. CASE UNCHANGED vars
  BY <1>1, SameStep DEF vars
<1>2. ASSUME NEW u \in Users, CreateWallet(u) \/ ToggleLock(u) PROVE UnitInv'
  BY <1>2, FlagStep
<1>3. ASSUME NEW h \in Handlers, NEW r \in Requests, Receive(h, r) \/ ReceiveAgain(h, r)
      PROVE  UnitInv'
  BY <1>3, ReceiveStep, ReceiveAgainStep
<1>4. ASSUME NEW h \in Handlers, Step(h) \/ BreakDeadlock(h) \/ Fail(h)
      PROVE  UnitInv'
  <2>1. CASE Begin(h)
    BY <2>1, BeginStep
  <2>2. CASE ReadOnly(h) \/ Rollback(h) \/ Fail(h)
    BY <2>2, ReleaseStep DEF ReadOnly, Rollback, Fail
  <2>3. CASE Write(h)
    BY <2>3, WriteStep
  <2>4. CASE WriteFails(h)
    BY <2>4, AbortStep DEF WriteFails, MayWrite, Writing
  <2>5. CASE BreakDeadlock(h)
    BY <2>5, AbortStep DEF BreakDeadlock, Deadlocked, WaitsFor, Writing
  <2>6. CASE Commit(h)
    BY <2>6, CommitStep
  <2> QED
    BY <1>4, <2>1, <2>2, <2>3, <2>4, <2>5, <2>6 DEF Step
<1> QED
  BY <1>1, <1>2, <1>3, <1>4 DEF Next

(* The inductive invariant holds of every reachable state.                 *)
THEOREM UnitInvariant == Spec => []UnitInv
BY InitUnit, NextUnit, PTL DEF Spec

(* Whatever interleaves, the version test of UpdateBalance                 *)
(* (repositories.go:105) never fails where PostgreSQL's own test of the    *)
(* row has passed: a row that no commit or lock made stale since the       *)
(* snapshot has the version that was read.                                 *)
THEOREM VersionNeverDecides == Spec => []VersionTestRedundant
<1>1. UnitInv => VersionTestRedundant
  <2> SUFFICES ASSUME UnitInv, NEW h \in Handlers, MayWrite(h),
                      ~SerializationFailure(h), NEW u \in DOMAIN snap[h],
                      Stmt(h).row = WalletRow(u)
               PROVE  wallet[u].version = snap[h][u].version
    BY DEF VersionTestRedundant, VersionMoved
  <2>1. /\ pc[h] = "open" /\ done[h] < Len(body[h])
        /\ Stmt(h) = body[h][done[h] + 1]
    BY DEF MayWrite, Writing, Stmt
  <2>2. /\ Covers(body[h], req[h], DOMAIN snap[h]) /\ FreshSound(h)
        /\ done[h] \in 0..Len(body[h])
    BY <2>1, OpenCovers
  <2>3. Names(Stmt(h))
    BY <2>1, <2>2 DEF Covers
  <2>4. Stmt(h).kind = "update"
    BY <2>3, RowNames DEF Names
  <2>5. WalletRow(u) \notin stale[h]
    BY <2>4 DEF SerializationFailure
  <2> QED
    BY <2>2, <2>5 DEF FreshSound, W!RowCurrent
<1> QED
  BY <1>1, UnitInvariant, PTL

-----------------------------------------------------------------------------
(* The refinement, step by step.                                           *)
LEMMA BeginIsWallets ==
  ASSUME UnitInv, NEW h \in Handlers, Begin(h)
  PROVE  W!Begin(h)
<1>1. /\ pc[h] = "received" /\ W!Admits(req[h])
      /\ pc' = [pc EXCEPT ![h] = "open"] /\ DOMAIN pc = Handlers
      /\ snap' = [snap EXCEPT ![h] = [u \in W!Touched(req[h]) |-> wallet[u]]]
      /\ snapSaga' = [snapSaga EXCEPT ![h] =
           IF req[h].op \in OnSaga THEN saga[req[h].saga] ELSE NoSaga]
      /\ UNCHANGED <<wallet, ledger, txnStatus, saga, req, acked>>
  BY DEF Begin, db, UnitInv, Types
<1> QED
  BY <1>1 DEF W!Begin, W!db, W!OnSaga, OnSaga, W!NoSaga, NoSaga

LEMMA ReadOnlyIsWallets ==
  ASSUME UnitInv, NEW h \in Handlers, ReadOnly(h)
  PROVE  W!CompleteAgain(h) \/ W!Reject(h)
<1>1. /\ pc[h] = "received" /\ ~W!Admits(req[h]) /\ UNCHANGED db
      /\ acked' = IF req[h].op = "complete" /\ saga[req[h].saga].status = "COMPLETED"
                  THEN acked \cup {req[h]} ELSE acked
  BY DEF ReadOnly
<1>2. W!Done(h)
  BY DoneByLeaving DEF ReadOnly, Release
<1>3. UNCHANGED W!db
  BY <1>1 DEF db, W!db
<1>4. CASE req[h].op = "complete" /\ saga[req[h].saga].status = "COMPLETED"
  BY <1>1, <1>2, <1>3, <1>4 DEF W!CompleteAgain, W!Reply
<1>5. CASE ~(req[h].op = "complete" /\ saga[req[h].saga].status = "COMPLETED")
  BY <1>1, <1>2, <1>3, <1>5 DEF W!Reject
<1> QED
  BY <1>4, <1>5

LEMMA EndingIsWallets ==
  ASSUME UnitInv, NEW h \in Handlers, Rollback(h) \/ Fail(h)
  PROVE  W!Fail(h)
<1>1. pc[h] # "idle" /\ UNCHANGED <<wallet, ledger, txnStatus, saga, acked>>
  BY DEF Rollback, Fail, db
<1>2. W!Done(h)
  BY DoneByLeaving DEF Rollback, Fail, Release
<1> QED
  BY <1>1, <1>2 DEF W!Fail, W!db

LEMMA AbortIsHidden ==
  ASSUME UnitInv, NEW h \in Handlers, pc[h] = "open", Abort(h)
  PROVE  UNCHANGED W!vars
<1>1. /\ pc' = [pc EXCEPT ![h] = "aborted"] /\ DOMAIN pc = Handlers
      /\ UNCHANGED <<wallet, ledger, txnStatus, saga, req, snap, snapSaga, acked>>
  BY DEF Abort, db, UnitInv, Types
<1> QED
  BY <1>1 DEF W!vars

LEMMA FlagIsWallets ==
  ASSUME NEW u \in Users, CreateWallet(u) \/ ToggleLock(u)
  PROVE  W!CreateWallet(u) \/ W!ToggleLock(u)
BY DEF CreateWallet, ToggleLock, W!CreateWallet, W!ToggleLock

LEMMA ReceiveIsWallets ==
  ASSUME UnitInv, NEW h \in Handlers, NEW r \in Requests,
         Receive(h, r) \/ ReceiveAgain(h, r)
  PROVE  W!Receive(h, r) \/ W!ReceiveAgain(h, r)
<1>1. DOMAIN pc = Handlers
  BY DEF UnitInv, Types
<1>2. CASE Receive(h, r)
  BY <1>1, <1>2 DEF Receive, db, W!Receive, W!db
<1>3. CASE ReceiveAgain(h, r)
  BY <1>1, <1>3 DEF ReceiveAgain, db, W!ReceiveAgain, W!db
<1> QED
  BY <1>2, <1>3

LEMMA NextIsWallets == UnitInv /\ [Next]_vars => [W!Next]_(W!vars)
<1> SUFFICES ASSUME UnitInv, [Next]_vars PROVE W!Next \/ UNCHANGED W!vars
  OBVIOUS
<1>1. CASE UNCHANGED vars
  BY <1>1 DEF vars, W!vars
<1>2. ASSUME NEW u \in Users, CreateWallet(u) \/ ToggleLock(u) PROVE W!Next
  BY <1>2, FlagIsWallets DEF W!Next
<1>3. ASSUME NEW h \in Handlers, NEW r \in Requests, Receive(h, r) \/ ReceiveAgain(h, r)
      PROVE  W!Next
  BY <1>3, ReceiveIsWallets DEF W!Next
<1>4. ASSUME NEW h \in Handlers, Step(h) \/ BreakDeadlock(h) \/ Fail(h)
      PROVE  W!Next \/ UNCHANGED W!vars
  <2>1. CASE Begin(h)
    BY <2>1, BeginIsWallets DEF W!Next, W!Serve
  <2>2. CASE ReadOnly(h)
    BY <2>2, ReadOnlyIsWallets DEF W!Next, W!Serve
  <2>3. CASE Write(h)
    BY <2>3 DEF Write, db, W!vars
  <2>4. CASE WriteFails(h)
    BY <2>4, AbortIsHidden DEF WriteFails, MayWrite, Writing
  <2>5. CASE BreakDeadlock(h)
    BY <2>5, AbortIsHidden DEF BreakDeadlock, Deadlocked, WaitsFor, Writing
  <2>6. CASE Rollback(h) \/ Fail(h)
    BY <2>6, EndingIsWallets DEF W!Next
  <2>7. CASE Commit(h)
    BY <2>7, CommitIsWallets DEF W!Next, W!Serve
  <2> QED
    BY <1>4, <2>1, <2>2, <2>3, <2>4, <2>5, <2>6, <2>7 DEF Step
<1> QED
  BY <1>1, <1>2, <1>3, <1>4 DEF Next

(* Snapshots, row locks, deadlocks, statement errors and rollbacks of any  *)
(* number of concurrent transactions are, seen from the tables and the     *)
(* clients, the two steps per request of Wallet: what the bodies of        *)
(* wallet_usecase.go read, and a commit on rows that still are so.         *)
THEOREM StatementsImplementWallet == Spec => ImplementsWallet
<1>1. Init => W!Init
  BY DEF Init
<1> QED
  BY <1>1, UnitInvariant, NextIsWallets, PTL DEF Spec, ImplementsWallet, W!Spec
=============================================================================
