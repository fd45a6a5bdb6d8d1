--------------------------- MODULE PurchaseProofs ---------------------------
(***************************************************************************)
(* Proofs about Purchase, for any sets of users, sagas and products, any   *)
(* prices and any number of providers.                                     *)
(***************************************************************************)
EXTENDS Purchase, TLAPS

(* Every answer of a provider arrived and was understood; none was taken   *)
(* for a delivery that was none.                                           *)
Understood(s) == "provider" \notin faults[s] /\ "misread" \notin faults[s]
NotMisread(s) == "misread" \notin faults[s]

(* A call in flight fits the state of its purchase, whether or not the     *)
(* handler still waits: it will be applied at most once, and in time.      *)
CallInv(s) ==
  /\ call[s] = "debit" =>
       /\ hold[s].status = "none" /\ order[s] = "none" /\ delivered[s] = 0
       /\ pc[s] \in {"debiting", "done", "dead"} /\ reply[s] \in {"none", "error"}
  /\ call[s] = "compensate" =>
       /\ hold[s].status = "PENDING" /\ order[s] # "COMPLETED"
       /\ pc[s] \in {"aborting", "refunding", "done", "dead"}
       /\ reply[s] # "success"
       /\ Understood(s) => delivered[s] = 0
  /\ call[s] = "complete" =>
       /\ hold[s].status = "PENDING" /\ order[s] # "FAILED"
       /\ pc[s] \in {"completing", "done", "dead"} /\ reply[s] # "failed"
       /\ NotMisread(s) => delivered[s] > 0

(* What the handler knows at each point.                                   *)
AtInv(s) ==
  /\ pc[s] \notin {"done"} => reply[s] = "none"
  /\ pc[s] = "idle" =>
       /\ hold[s].status = "none" /\ order[s] = "none" /\ delivered[s] = 0
       /\ call[s] = "none"
  /\ pc[s] = "debiting" =>
       /\ order[s] = "none" /\ delivered[s] = 0
       /\ answer[s] = "none" => call[s] = "debit"
       /\ answer[s] = "ok" => hold[s].status = "PENDING" /\ call[s] = "none"
       /\ answer[s] = "error" => hold[s].status = "none" /\ call[s] = "none"
  /\ pc[s] = "ordering" =>
       /\ hold[s].status = "PENDING" /\ call[s] = "none"
       /\ order[s] = "none" /\ delivered[s] = 0
  /\ pc[s] \in {"calling", "failing", "fulfilled"} =>
       /\ hold[s].status = "PENDING" /\ call[s] = "none"
       /\ order[s] = "PROCESSING"
       /\ Understood(s) =>
            delivered[s] = IF pc[s] = "fulfilled" THEN 1 ELSE 0
       /\ pc[s] = "fulfilled" /\ NotMisread(s) => delivered[s] > 0
  /\ pc[s] \in {"aborting", "refunding"} =>
       /\ order[s] \in IF pc[s] = "aborting" THEN {"none", "PROCESSING"}
                       ELSE {"PROCESSING", "FAILED"}
       /\ hold[s].status \in {"PENDING", "COMPENSATED"}
       /\ Understood(s) => delivered[s] = 0
  /\ pc[s] = "completing" =>
       /\ order[s] \in {"PROCESSING", "COMPLETED"}
       /\ hold[s].status \in {"PENDING", "COMPLETED"}
       /\ NotMisread(s) => delivered[s] > 0

(* Money that stays held behind a handler that ends the saga, or has       *)
(* ended: the call that would free it is on its way, or something failed.  *)
EndInv(s) ==
  /\ pc[s] \in {"aborting", "refunding", "completing"} /\ hold[s].status = "PENDING"
       => \/ call[s] # "none" /\ answer[s] = "none"
          \/ "wallet" \in faults[s]
  /\ pc[s] = "dead" => "crash" \in faults[s]
  /\ pc[s] = "done" /\ (hold[s].status = "PENDING" \/ call[s] # "none")
       => "wallet" \in faults[s]

(* How the tables and the answer agree, call by call.                      *)
AgreeInv(s) ==
  /\ order[s] # "none" => hold[s].status # "none"
  /\ order[s] = "COMPLETED" \/ reply[s] = "success"
       => hold[s].status \in {"PENDING", "COMPLETED"}
  /\ order[s] = "FAILED" \/ reply[s] = "failed"
       => hold[s].status \in {"PENDING", "COMPENSATED"}
  /\ Understood(s) =>
       /\ delivered[s] <= 1
       /\ hold[s].status = "COMPENSATED" => delivered[s] = 0
  /\ NotMisread(s) =>
       (reply[s] = "success" \/ hold[s].status = "COMPLETED" => delivered[s] > 0)

Local(s) == CallInv(s) /\ AtInv(s) /\ EndInv(s) /\ AgreeInv(s)

PurchaseInv == \A s \in Sagas : Local(s)

(* A step that does not touch purchase s.                                  *)
Same(s) ==
  /\ pc'[s] = pc[s] /\ call'[s] = call[s] /\ answer'[s] = answer[s]
  /\ hold'[s] = hold[s] /\ order'[s] = order[s] /\ reply'[s] = reply[s]
  /\ delivered'[s] = delivered[s] /\ faults'[s] = faults[s]

(* It keeps what is known of s.                                            *)
LEMMA Frame ==
  ASSUME NEW s \in Sagas, Local(s), Same(s)
  PROVE  Local(s)'
BY DEF Local, CallInv, AtInv, EndInv, AgreeInv, Understood, NotMisread, Same

-----------------------------------------------------------------------------
(* Types.                                                                  *)

(* The arbitrary values chosen for empty rows have their types.            *)
LEMMA DefaultTypes ==
  /\ NoCart \in Cart
  /\ W!NoSaga \in SagaRow /\ W!NoSaga.status = "none"
BY DomainAssumption, PurchaseAssumption
   DEF NoCart, NoProduct, Cart, Categories, W!NoSaga, SagaRow, SagaStatus

(* The keys a purchase and a funding request use are keys of the ledger.   *)
LEMMA KeyTypes ==
  /\ \A k \in Keys : W!ReqKey(k) \in TxnKeys /\ W!CreditKey(k) \in TxnKeys
  /\ \A s \in Sagas : W!CompKey(s) \in TxnKeys
BY DEF W!ReqKey, W!CreditKey, W!CompKey, TxnKeys

(* The initial state is well typed.                                        *)
LEMMA InitType == Init => TypeOK
BY DefaultTypes, PurchaseAssumption
   DEF Init, W!Init, TypeOK, MaxCalls, OrderStatus, Working, Waiting, SagaRow

(* An operation of the bank keeps the wallets well typed.                  *)
WalletType ==
  /\ opened \subseteq Users /\ locked \subseteq opened
  /\ balance \in [Users -> Int]
  /\ used \subseteq TxnKeys
  /\ hold \in [Sagas -> SagaRow]

(* The debit a purchase sends.                                             *)
LEMMA HoldType ==
  ASSUME TypeOK, NEW s \in Sagas, W!Hold(DebitRequest(s))
  PROVE  /\ WalletType'
         /\ hold[s].status = "none" /\ hold'[s].status = "PENDING"
         /\ \A t \in Sagas \ {s} : hold'[t] = hold[t]
<1> DEFINE r == DebitRequest(s)
<1>1. /\ r.user \in Users /\ r.amount \in Int /\ r.key \in Keys
      /\ r.saga = s /\ s \in Keys
  BY PurchaseAssumption DEF DebitRequest, TypeOK, Cart
<1> HIDE DEF r
<1>2. [status |-> "PENDING", user |-> r.user, amount |-> r.amount,
       key |-> r.key] \in SagaRow
  BY <1>1 DEF SagaRow, SagaStatus
<1>3. W!Hold(r)
  BY DEF r
<1> QED
  BY <1>1, <1>2, <1>3, KeyTypes DEF W!Hold, TypeOK, WalletType

(* A compensation gives back what its saga holds.                          *)
LEMMA RefundType ==
  ASSUME TypeOK, NEW s \in Sagas, W!Refund(s)
  PROVE  /\ WalletType'
         /\ hold[s].status = "PENDING" /\ hold'[s].status = "COMPENSATED"
         /\ \A t \in Sagas \ {s} : hold'[t] = hold[t]
<1>1. hold[s] \in SagaRow
  BY DEF TypeOK
<1>2. [hold[s] EXCEPT !.status = "COMPENSATED"] \in SagaRow
  BY <1>1 DEF SagaRow, SagaStatus
<1>3. hold'[s] = [hold[s] EXCEPT !.status = "COMPENSATED"]
  BY DEF W!Refund, TypeOK
<1>4. hold' \in [Sagas -> SagaRow]
  BY <1>2 DEF W!Refund, TypeOK
<1> QED
  BY <1>1, <1>3, <1>4, KeyTypes DEF W!Refund, TypeOK, WalletType, SagaRow

(* A completion keeps the money.                                           *)
LEMMA SettleType ==
  ASSUME TypeOK, NEW s \in Sagas, W!Settle(s)
  PROVE  /\ WalletType'
         /\ hold[s].status = "PENDING" /\ hold'[s].status = "COMPLETED"
         /\ \A t \in Sagas \ {s} : hold'[t] = hold[t]
<1>1. hold[s] \in SagaRow
  BY DEF TypeOK
<1>2. [hold[s] EXCEPT !.status = "COMPLETED"] \in SagaRow
  BY <1>1 DEF SagaRow, SagaStatus
<1>3. hold'[s] = [hold[s] EXCEPT !.status = "COMPLETED"]
  BY DEF W!Settle, TypeOK
<1>4. hold' \in [Sagas -> SagaRow]
  BY <1>2 DEF W!Settle, TypeOK
<1> QED
  BY <1>1, <1>3, <1>4 DEF W!Settle, TypeOK, WalletType, SagaRow

(* The wallets' owners touch no saga.                                      *)
LEMMA ElsewhereType ==
  ASSUME TypeOK, WalletElsewhere
  PROVE  WalletType' /\ hold' = hold
<1>1. ASSUME NEW u \in Users, W!Open(u) PROVE WalletType' /\ hold' = hold
  BY <1>1 DEF W!Open, TypeOK, WalletType
<1>2. ASSUME NEW r \in Requests, W!Credit(r) PROVE WalletType' /\ hold' = hold
  <2>1. r.user \in Users /\ r.amount \in Int /\ r.key \in Keys
    BY DomainAssumption DEF Request
  <2> QED
    BY <1>2, <2>1, KeyTypes DEF W!Credit, TypeOK, WalletType
<1>3. ASSUME NEW r \in Requests, W!Transfer(r) PROVE WalletType' /\ hold' = hold
  <2>1. r.user \in Users /\ r.to \in Users /\ r.amount \in Int /\ r.key \in Keys
    BY DomainAssumption DEF Request
  <2>2. balance' \in [Users -> Int]
    BY <1>3, <2>1 DEF W!Transfer, TypeOK
  <2>3. used' \subseteq TxnKeys
    BY <1>3, <2>1, KeyTypes DEF W!Transfer, TypeOK
  <2> QED
    BY <1>3, <2>2, <2>3 DEF W!Transfer, TypeOK, WalletType
<1> QED
  BY <1>1, <1>2, <1>3 DEF WalletElsewhere

-----------------------------------------------------------------------------
(* Steps.                                                                  *)

(* A step of purchase s keeps types and what is known of s, and leaves     *)
(* every other purchase alone.                                             *)
Step(s) ==
  /\ TypeOK'
  /\ Local(s)'
  /\ \A t \in Sagas \ {s} : Same(t)

(* The purchase begins.                                                     *)
LEMMA StartStep ==
  ASSUME NEW s \in Sagas, NEW u \in Users, NEW p \in Products, TypeOK, Local(s), Start(s, u, p)
  PROVE  Step(s)
<1>1. TypeOK'
  BY PurchaseAssumption DEF Start, Cart, ProductRow, NoProduct,
     TypeOK, wallets, Goto, Send, Blame, Finish, Working, Waiting, OrderStatus
<1>2. \A t \in Sagas \ {s} : Same(t)
  BY DEF Start, Cart, ProductRow, NoProduct,
     Same, TypeOK, wallets, Goto, Send, Blame, Finish, Working, Waiting, OrderStatus
<1>3. Local(s)'
  BY DEF Start, Cart, ProductRow, NoProduct,
     Local, CallInv, AtInv, EndInv, AgreeInv, Understood, NotMisread,
     TypeOK, wallets, Goto, Send, Blame, Finish, Working, Waiting, OrderStatus
<1> QED
  BY <1>1, <1>2, <1>3 DEF Step

(* The debit was made.                                                      *)
LEMMA DebitDoneStep ==
  ASSUME NEW s \in Sagas, TypeOK, Local(s), DebitDone(s)
  PROVE  Step(s)
<1>1. TypeOK'
  BY PurchaseAssumption DEF DebitDone,
     TypeOK, wallets, Goto, Send, Blame, Finish, Working, Waiting, OrderStatus
<1>2. \A t \in Sagas \ {s} : Same(t)
  BY DEF DebitDone,
     Same, TypeOK, wallets, Goto, Send, Blame, Finish, Working, Waiting, OrderStatus
<1>3. Local(s)'
  BY DEF DebitDone,
     Local, CallInv, AtInv, EndInv, AgreeInv, Understood, NotMisread,
     TypeOK, wallets, Goto, Send, Blame, Finish, Working, Waiting, OrderStatus
<1> QED
  BY <1>1, <1>2, <1>3 DEF Step

(* The debit failed, or so it seems.                                        *)
LEMMA DebitFailedStep ==
  ASSUME NEW s \in Sagas, TypeOK, Local(s), DebitFailed(s)
  PROVE  Step(s)
<1>1. TypeOK'
  BY PurchaseAssumption DEF DebitFailed, Fault,
     TypeOK, wallets, Goto, Send, Blame, Finish, Working, Waiting, OrderStatus
<1>2. \A t \in Sagas \ {s} : Same(t)
  BY DEF DebitFailed, Fault,
     Same, TypeOK, wallets, Goto, Send, Blame, Finish, Working, Waiting, OrderStatus
<1>3. Local(s)'
  BY DEF DebitFailed, Fault,
     Local, CallInv, AtInv, EndInv, AgreeInv, Understood, NotMisread,
     TypeOK, wallets, Goto, Send, Blame, Finish, Working, Waiting, OrderStatus
<1> QED
  BY <1>1, <1>2, <1>3 DEF Step

(* The order is recorded.                                                   *)
LEMMA CreateOrderStep ==
  ASSUME NEW s \in Sagas, TypeOK, Local(s), CreateOrder(s)
  PROVE  Step(s)
<1>1. TypeOK'
  BY PurchaseAssumption DEF CreateOrder,
     TypeOK, wallets, Goto, Send, Blame, Finish, Working, Waiting, OrderStatus
<1>2. \A t \in Sagas \ {s} : Same(t)
  BY DEF CreateOrder,
     Same, TypeOK, wallets, Goto, Send, Blame, Finish, Working, Waiting, OrderStatus
<1>3. Local(s)'
  BY DEF CreateOrder,
     Local, CallInv, AtInv, EndInv, AgreeInv, Understood, NotMisread,
     TypeOK, wallets, Goto, Send, Blame, Finish, Working, Waiting, OrderStatus
<1> QED
  BY <1>1, <1>2, <1>3 DEF Step

(* The order could not be recorded.                                         *)
LEMMA CreateOrderFailsStep ==
  ASSUME NEW s \in Sagas, TypeOK, Local(s), CreateOrderFails(s)
  PROVE  Step(s)
<1>1. TypeOK'
  BY PurchaseAssumption DEF CreateOrderFails, Fault,
     TypeOK, wallets, Goto, Send, Blame, Finish, Working, Waiting, OrderStatus
<1>2. \A t \in Sagas \ {s} : Same(t)
  BY DEF CreateOrderFails, Fault,
     Same, TypeOK, wallets, Goto, Send, Blame, Finish, Working, Waiting, OrderStatus
<1>3. Local(s)'
  BY DEF CreateOrderFails, Fault,
     Local, CallInv, AtInv, EndInv, AgreeInv, Understood, NotMisread,
     TypeOK, wallets, Goto, Send, Blame, Finish, Working, Waiting, OrderStatus
<1> QED
  BY <1>1, <1>2, <1>3 DEF Step

(* Whatever the category, a call either delivers or does not, and either   *)
(* reports success or does not.                                            *)
LEMMA ExecuteType == \A c : Execute(c) \subseteq Outcomes
<1>1. \A a \in Answers : a.goods \in {0, 1}
  BY DEF Answers
<1>2. /\ GenerateAirtimePin \subseteq Outcomes /\ GenerateEduPin \subseteq Outcomes
      /\ BuyData \subseteq Outcomes
  <2>1. ASSUME NEW a \in Answers, NEW ok \in BOOLEAN
        PROVE  Outcome(a, ok) \in Outcomes
    BY <1>1 DEF Outcome, Outcomes
  <2>2. \A a \in Answers : (a.body # "none") \in BOOLEAN
    OBVIOUS
  <2>3. \A a \in Answers : (a.body \in {"report", "refusal"}) \in BOOLEAN
    OBVIOUS
  <2> QED
    BY <2>1, <2>2, <2>3 DEF GenerateAirtimePin, GenerateEduPin, BuyData
<1>3. Unsupported \subseteq Outcomes
  BY DEF Unsupported, Outcomes
<1>4. ASSUME NEW c
      PROVE  Execute(c) \in {GenerateAirtimePin, GenerateEduPin, BuyData, Unsupported}
  <2>1. CASE c = "AIRTIME"
    BY <2>1 DEF Execute
  <2>2. CASE c = "DATA"
    BY <2>2 DEF Execute
  <2>3. CASE c = "EDUCATION"
    BY <2>3 DEF Execute
  <2>4. CASE c \notin {"AIRTIME", "DATA", "EDUCATION"}
    BY <2>4 DEF Execute
  <2> QED
    BY <2>1, <2>2, <2>3, <2>4
<1> QED
  BY <1>2, <1>3, <1>4

(* A provider is called.                                                    *)
LEMMA CallProviderStep ==
  ASSUME NEW s \in Sagas, TypeOK, Local(s), CallProvider(s)
  PROVE  Step(s)
<1>1. PICK goods \in {0, 1}, ok \in BOOLEAN :
        /\ pc[s] = "calling" /\ tries[s] < MaxCalls
        /\ tries' = [tries EXCEPT ![s] = @ + 1]
        /\ delivered' = [delivered EXCEPT ![s] = @ + goods]
        /\ IF ok = (goods = 1) THEN UNCHANGED faults
           ELSE Blame(s, IF ok THEN "misread" ELSE "provider")
        /\ Goto(s, IF ok THEN "fulfilled" ELSE "calling")
        /\ UNCHANGED <<wallets, catalog, order, cart, call, answer, reply>>
  <2>1. PICK o \in Execute(cart[s].category) : CallProvider(s)!(o)
    BY DEF CallProvider
  <2>2. o.goods \in {0, 1} /\ o.ok \in BOOLEAN
    BY <2>1, ExecuteType DEF Outcomes
  <2> QED
    BY <2>1, <2>2
<1>2. TypeOK'
  BY <1>1, PurchaseAssumption DEF Fault, MaxCalls,
     TypeOK, wallets, Goto, Blame, Working, Waiting
<1>3. \A t \in Sagas \ {s} : Same(t)
  BY <1>1 DEF Same, TypeOK, wallets, Goto, Blame
<1>4. Local(s)'
  BY <1>1 DEF Local, CallInv, AtInv, EndInv, AgreeInv, Understood, NotMisread,
     TypeOK, wallets, Goto, Blame, Working, Waiting
<1> QED
  BY <1>2, <1>3, <1>4 DEF Step

(* No provider delivered.                                                   *)
LEMMA ProvidersExhaustedStep ==
  ASSUME NEW s \in Sagas, TypeOK, Local(s), ProvidersExhausted(s)
  PROVE  Step(s)
<1>1. TypeOK'
  BY PurchaseAssumption DEF ProvidersExhausted,
     TypeOK, wallets, Goto, Send, Blame, Finish, Working, Waiting, OrderStatus
<1>2. \A t \in Sagas \ {s} : Same(t)
  BY DEF ProvidersExhausted,
     Same, TypeOK, wallets, Goto, Send, Blame, Finish, Working, Waiting, OrderStatus
<1>3. Local(s)'
  BY DEF ProvidersExhausted,
     Local, CallInv, AtInv, EndInv, AgreeInv, Understood, NotMisread,
     TypeOK, wallets, Goto, Send, Blame, Finish, Working, Waiting, OrderStatus
<1> QED
  BY <1>1, <1>2, <1>3 DEF Step

(* The order is marked failed.                                              *)
LEMMA FailOrderStep ==
  ASSUME NEW s \in Sagas, TypeOK, Local(s), FailOrder(s)
  PROVE  Step(s)
<1>1. TypeOK'
  BY PurchaseAssumption DEF FailOrder, UpdateStatus, Fault,
     TypeOK, wallets, Goto, Send, Blame, Finish, Working, Waiting, OrderStatus
<1>2. \A t \in Sagas \ {s} : Same(t)
  BY DEF FailOrder, UpdateStatus, Fault,
     Same, TypeOK, wallets, Goto, Send, Blame, Finish, Working, Waiting, OrderStatus
<1>3. Local(s)'
  BY DEF FailOrder, UpdateStatus, Fault,
     Local, CallInv, AtInv, EndInv, AgreeInv, Understood, NotMisread,
     TypeOK, wallets, Goto, Send, Blame, Finish, Working, Waiting, OrderStatus
<1> QED
  BY <1>1, <1>2, <1>3 DEF Step

(* The order is marked complete.                                            *)
LEMMA FulfilOrderStep ==
  ASSUME NEW s \in Sagas, TypeOK, Local(s), FulfilOrder(s)
  PROVE  Step(s)
<1>1. TypeOK'
  BY PurchaseAssumption DEF FulfilOrder, UpdateStatus, Fault,
     TypeOK, wallets, Goto, Send, Blame, Finish, Working, Waiting, OrderStatus
<1>2. \A t \in Sagas \ {s} : Same(t)
  BY DEF FulfilOrder, UpdateStatus, Fault,
     Same, TypeOK, wallets, Goto, Send, Blame, Finish, Working, Waiting, OrderStatus
<1>3. Local(s)'
  BY DEF FulfilOrder, UpdateStatus, Fault,
     Local, CallInv, AtInv, EndInv, AgreeInv, Understood, NotMisread,
     TypeOK, wallets, Goto, Send, Blame, Finish, Working, Waiting, OrderStatus
<1> QED
  BY <1>1, <1>2, <1>3 DEF Step

(* The handler ends.                                                        *)
LEMMA SagaEndedStep ==
  ASSUME NEW s \in Sagas, TypeOK, Local(s), SagaEnded(s)
  PROVE  Step(s)
<1>1. TypeOK'
  BY PurchaseAssumption DEF SagaEnded, Heard, Fault,
     TypeOK, wallets, Goto, Send, Blame, Finish, Working, Waiting, OrderStatus
<1>2. \A t \in Sagas \ {s} : Same(t)
  BY DEF SagaEnded, Heard, Fault,
     Same, TypeOK, wallets, Goto, Send, Blame, Finish, Working, Waiting, OrderStatus
<1>3. Local(s)'
  BY DEF SagaEnded, Heard, Fault,
     Local, CallInv, AtInv, EndInv, AgreeInv, Understood, NotMisread,
     TypeOK, wallets, Goto, Send, Blame, Finish, Working, Waiting, OrderStatus
<1> QED
  BY <1>1, <1>2, <1>3 DEF Step

(* wallet-service serves the call in flight.                               *)
LEMMA WalletServesStep ==
  ASSUME NEW s \in Sagas, TypeOK, Local(s), WalletServes(s)
  PROVE  Step(s)
<1>1. /\ WalletType'
      /\ \/ /\ call[s] = "debit"
            /\ hold[s].status = "none" /\ hold'[s].status = "PENDING"
         \/ /\ call[s] = "compensate"
            /\ hold[s].status = "PENDING" /\ hold'[s].status = "COMPENSATED"
         \/ /\ call[s] = "complete"
            /\ hold[s].status = "PENDING" /\ hold'[s].status = "COMPLETED"
      /\ \A t \in Sagas \ {s} : hold'[t] = hold[t]
  BY HoldType, RefundType, SettleType DEF WalletServes
<1>2. /\ call' = [call EXCEPT ![s] = "none"]
      /\ answer' = [answer EXCEPT ![s] = "ok"]
      /\ UNCHANGED <<catalog, order, pc, cart, tries, delivered, reply, faults>>
  BY DEF WalletServes
<1>3. TypeOK'
  BY <1>1, <1>2 DEF TypeOK, WalletType
<1>4. \A t \in Sagas \ {s} : Same(t)
  BY <1>1, <1>2 DEF Same, TypeOK
<1>5. Local(s)'
  BY <1>1, <1>2 DEF TypeOK, Local, CallInv, AtInv, EndInv, AgreeInv, Understood, NotMisread
<1> QED
  BY <1>3, <1>4, <1>5 DEF Step

(* wallet-service refuses the call in flight, or loses it.                 *)
LEMMA WalletRefusesStep ==
  ASSUME NEW s \in Sagas, TypeOK, Local(s), WalletRefuses(s)
  PROVE  Step(s)
<1>1. TypeOK'
  BY DEF WalletRefuses, TypeOK, wallets, Blame, Fault
<1>2. \A t \in Sagas \ {s} : Same(t)
  BY DEF WalletRefuses, TypeOK, wallets, Blame, Same
<1>3. Local(s)'
  BY DEF WalletRefuses, TypeOK, wallets, Blame,
     Local, CallInv, AtInv, EndInv, AgreeInv, Understood, NotMisread
<1> QED
  BY <1>1, <1>2, <1>3 DEF Step

(* The service dies with all its handlers.                                 *)
LEMMA CrashStep ==
  ASSUME TypeOK, PurchaseInv, Crash
  PROVE  TypeOK' /\ PurchaseInv'
<1>1. TypeOK'
  BY DEF Crash, TypeOK, wallets, Fault, Working, Waiting
<1>2. ASSUME NEW s \in Sagas PROVE Local(s)'
  <2>1. Local(s)
    BY DEF PurchaseInv
  <2>2. CASE pc[s] \in Working
    BY <2>1, <2>2 DEF Crash, TypeOK, wallets, Working, Waiting,
       Local, CallInv, AtInv, EndInv, AgreeInv, Understood, NotMisread
  <2>3. CASE pc[s] \notin Working
    BY <2>1, <2>3, Frame DEF Crash, wallets, TypeOK, Same
  <2> QED
    BY <2>2, <2>3
<1> QED
  BY <1>1, <1>2 DEF PurchaseInv

(* The administrator changes the catalog, and nothing else.                *)
SetsProduct(p) ==
  \/ \E row \in ProductRow : CreateProduct(p, row)
  \/ \E active \in BOOLEAN, amount \in Prices : UpdateProduct(p, active, amount)
  \/ DeleteProduct(p)

LEMMA CatalogStep ==
  ASSUME NEW p \in Products, TypeOK, SetsProduct(p)
  PROVE  TypeOK' /\ \A s \in Sagas : Same(s)
<1>1. ASSUME NEW row \in ProductRow, SetProduct(p, row)
      PROVE  TypeOK' /\ \A s \in Sagas : Same(s)
  BY <1>1 DEF SetProduct, TypeOK, Same, wallets
<1>2. catalog[p].category # "none" => catalog[p] \in ProductRow
  BY DEF TypeOK, NoProduct
<1>3. ASSUME NEW active \in BOOLEAN, NEW amount \in Prices,
             UpdateProduct(p, active, amount)
      PROVE  \E row \in ProductRow : SetProduct(p, row)
  BY <1>2, <1>3 DEF UpdateProduct, ProductRow
<1>4. ASSUME DeleteProduct(p)
      PROVE  \E row \in ProductRow : SetProduct(p, row)
  BY <1>2, <1>4 DEF DeleteProduct, ProductRow
<1> QED
  BY <1>1, <1>3, <1>4 DEF SetsProduct, CreateProduct

(* The inductive step: types and what is known of every purchase.          *)
LEMMA Inductive ==
  ASSUME TypeOK, PurchaseInv, [Next]_vars
  PROVE  TypeOK' /\ PurchaseInv'
<1>1. ASSUME NEW s \in Sagas, Step(s) PROVE TypeOK' /\ PurchaseInv'
  <2>1. ASSUME NEW t \in Sagas \ {s} PROVE Local(t)'
    BY <1>1, <2>1, Frame DEF Step, PurchaseInv
  <2> QED
    BY <1>1, <2>1 DEF Step, PurchaseInv
<1>2. ASSUME TypeOK', \A s \in Sagas : Same(s) PROVE TypeOK' /\ PurchaseInv'
  BY <1>2, Frame DEF PurchaseInv
<1>3. \A s \in Sagas : Local(s)
  BY DEF PurchaseInv
<1>4. ASSUME NEW s \in Sagas, NEW u \in Users, NEW p \in Products,
             Start(s, u, p)
      PROVE  Step(s)
  BY <1>3, <1>4, StartStep
<1>5. ASSUME NEW s \in Sagas, Handle(s) PROVE Step(s)
  BY <1>3, <1>5, DebitDoneStep, DebitFailedStep, CreateOrderStep,
     CreateOrderFailsStep, CallProviderStep, ProvidersExhaustedStep,
     FailOrderStep, FulfilOrderStep, SagaEndedStep DEF Handle
<1>6. ASSUME NEW s \in Sagas, WalletServes(s) PROVE Step(s)
  BY <1>3, <1>6, WalletServesStep
<1>7. ASSUME NEW s \in Sagas, WalletRefuses(s) PROVE Step(s)
  BY <1>3, <1>7, WalletRefusesStep
<1>8. ASSUME NEW p \in Products, SetsProduct(p)
      PROVE  TypeOK' /\ \A s \in Sagas : Same(s)
  BY <1>8, CatalogStep
<1>9. ASSUME WalletElsewhere PROVE TypeOK' /\ \A s \in Sagas : Same(s)
  <2>1. WalletType' /\ hold' = hold
    BY <1>9, ElsewhereType
  <2>2. UNCHANGED <<catalog, order, pc, cart, call, answer, tries, delivered,
                    reply, faults>>
    BY <1>9 DEF WalletElsewhere
  <2> QED
    BY <2>1, <2>2 DEF TypeOK, WalletType, Same
<1>10. CASE Crash
  BY <1>10, CrashStep
<1>11. ASSUME UNCHANGED vars PROVE TypeOK' /\ \A s \in Sagas : Same(s)
  BY <1>11 DEF vars, TypeOK, Same
<1> QED
  BY <1>1, <1>2, <1>4, <1>5, <1>6, <1>7, <1>8, <1>9, <1>10, <1>11 DEF Next, SetsProduct

-----------------------------------------------------------------------------
(* Theorems.                                                               *)

(* Every purchase begins with nothing taken, ordered or delivered.         *)
LEMMA InitInv == Init => PurchaseInv
BY DefaultTypes
   DEF Init, W!Init, PurchaseInv, Local, CallInv, AtInv, EndInv, AgreeInv, Understood, NotMisread

(* The inductive invariant holds of every reachable state.                 *)
THEOREM Invariance == Spec => [](TypeOK /\ PurchaseInv)
<1>1. Init => TypeOK /\ PurchaseInv
  BY InitType, InitInv
<1>2. TypeOK /\ PurchaseInv /\ [Next]_vars => (TypeOK /\ PurchaseInv)'
  BY Inductive
<1> QED
  BY <1>1, <1>2, PTL DEF Spec

(* Every variable has its type.                                            *)
THEOREM TypeCorrect == Spec => []TypeOK
BY Invariance, PTL

(* The order book and the wallets never contradict each other.             *)
THEOREM OrdersAgree == Spec => []OrderAgreesWithSaga
<1>1. TypeOK /\ PurchaseInv => OrderAgreesWithSaga
  BY DEF PurchaseInv, Local, AgreeInv, OrderAgreesWithSaga
<1> QED
  BY <1>1, Invariance, PTL

(* A purchase that is over leaves money held only behind a lost or late    *)
(* wallet call or a crash.                                                 *)
THEOREM NothingForgotten == Spec => []StrandedOnlyByFault
<1>1. TypeOK /\ PurchaseInv => StrandedOnlyByFault
  BY DEF PurchaseInv, Local, EndInv, StrandedOnlyByFault
<1> QED
  BY <1>1, Invariance, PTL

(* Under honest providers a purchase delivers at most once, and never both *)
(* delivers and refunds.                                                   *)
THEOREM GoodsPaid == Spec => []GoodsMatchMoney
<1>1. TypeOK /\ PurchaseInv => GoodsMatchMoney
  BY DEF PurchaseInv, Local, AgreeInv, GoodsMatchMoney, Understood, NotMisread
<1> QED
  BY <1>1, Invariance, PTL

(* Nothing is delivered unless the wallet holds its price at that moment.  *)
THEOREM GoodsOnlyAfterMoney == Spec => GoodsAfterMoney
<1> DEFINE A == \A s \in Sagas : delivered'[s] # delivered[s] =>
                  hold[s].status = "PENDING" /\ hold'[s] = hold[s]
<1>1. ASSUME TypeOK, PurchaseInv, [Next]_vars PROVE A
  <2>1. CASE UNCHANGED delivered
    BY <2>1
  <2>2. ASSUME NEW s \in Sagas, CallProvider(s) PROVE A
    <3>1. pc[s] = "calling" /\ UNCHANGED wallets
      BY <2>2 DEF CallProvider
    <3>2. hold[s].status = "PENDING" /\ hold' = hold
      BY <1>1, <3>1 DEF PurchaseInv, Local, AtInv, wallets
    <3>3. \A t \in Sagas \ {s} : delivered'[t] = delivered[t]
      BY <1>1, <2>2 DEF CallProvider, TypeOK
    <3> QED
      BY <3>2, <3>3
  <2> QED
    BY <1>1, <2>1, <2>2
    DEF Next, vars, Handle, Start, DebitDone, DebitFailed, CreateOrder,
        CreateOrderFails, ProvidersExhausted, FailOrder, FulfilOrder,
        SagaEnded, WalletServes, WalletRefuses, SetProduct, CreateProduct,
        UpdateProduct, DeleteProduct, WalletElsewhere,
        Crash
<1>2. TypeOK /\ PurchaseInv /\ [Next]_vars => [A]_vars
  BY <1>1
<1> QED
  BY <1>2, Invariance, PTL DEF Spec, GoodsAfterMoney
=============================================================================
