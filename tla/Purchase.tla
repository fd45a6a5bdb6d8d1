------------------------------ MODULE Purchase ------------------------------
(***************************************************************************)
(* vtu-gaming-service: the purchase saga of internal/usecase, the HTTP     *)
(* client through which it reaches wallet-service, and the vtu_orders and  *)
(* vtu_products tables. wallet-service is Bank, which Wallet implements.   *)
(*                                                                         *)
(* A purchase is named by the saga id it draws: a fresh UUID, also the     *)
(* idempotency key of its debit. A client that repeats a purchase starts   *)
(* another one. A wallet call outlives the caller's patience: it is in     *)
(* flight until wallet-service serves or drops it, whether or not the      *)
(* handler still waits.                                                    *)
(***************************************************************************)
EXTENDS WalletDomain, DataStation

CONSTANTS
  Products,      \* ids of the catalog
  Prices,        \* amounts an administrator may give a product
  OnSale,        \* categories the catalog has products of
  NumProviders   \* third-party APIs configured (main.go: one or none)

ASSUME PurchaseAssumption ==
  /\ Sagas \subseteq Keys
  /\ Prices \subseteq Int /\ Prices # {}
  /\ OnSale \subseteq Categories
  /\ NumProviders \in Nat

VARIABLES
  opened, locked, balance, used, hold,   \* the wallets, see Bank
  catalog,    \* table vtu_products
  order,      \* table vtu_orders: the status of each purchase's order
  pc,         \* where the purchase's handler is
  cart,       \* who buys, and what was read from the catalog
  call,       \* the wallet call in flight
  answer,     \* what the wallet has answered to it
  tries,      \* provider calls made
  delivered,  \* times the provider has delivered the goods
  reply,      \* what the client was told
  faults      \* history: what went wrong during the purchase

wallets == <<opened, locked, balance, used, hold>>
vars == <<opened, locked, balance, used, hold, catalog, order, pc, cart, call,
          answer, tries, delivered, reply, faults>>

W == INSTANCE Bank

-----------------------------------------------------------------------------
ProductRow == [category : OnSale, active : BOOLEAN, amount : Prices]
NoProduct == [category |-> "none", active |-> FALSE,
              amount |-> CHOOSE a \in Prices : TRUE]
OrderStatus == {"none", "PROCESSING", "COMPLETED", "FAILED"}
Cart == [user : Users, amount : Prices, category : Categories]
NoCart == [user |-> CHOOSE u \in Users : TRUE, amount |-> CHOOSE a \in Prices : TRUE,
           category |-> "TV"]

(* "provider": goods delivered for an answer that was lost or not          *)
(* understood; "misread": an answer taken for a delivery that was none.    *)
Fault == {"wallet", "order", "crash", "provider", "misread"}

(* callProvider: at most three rounds over the providers.                  *)
MaxCalls == 3 * NumProviders

Waiting == {"debiting", "aborting", "refunding", "completing"}
Working == Waiting \cup {"ordering", "calling", "failing", "fulfilled"}

Init ==
  /\ W!Init
  /\ catalog \in [Products -> ProductRow \cup {NoProduct}]
  /\ order = [s \in Sagas |-> "none"]
  /\ pc = [s \in Sagas |-> "idle"]
  /\ cart = [s \in Sagas |-> NoCart]
  /\ call = [s \in Sagas |-> "none"]
  /\ answer = [s \in Sagas |-> "none"]
  /\ tries = [s \in Sagas |-> 0]
  /\ delivered = [s \in Sagas |-> 0]
  /\ reply = [s \in Sagas |-> "none"]
  /\ faults = [s \in Sagas |-> {}]

-----------------------------------------------------------------------------
(* Steps of a handler.                                                     *)

Goto(s, l) == pc' = [pc EXCEPT ![s] = l]

Send(s, op) ==
  /\ call' = [call EXCEPT ![s] = op]
  /\ answer' = [answer EXCEPT ![s] = "none"]

Blame(s, what) == faults' = [faults EXCEPT ![s] = @ \cup {what}]

Finish(s, r) ==
  /\ Goto(s, "done")
  /\ reply' = [reply EXCEPT ![s] = r]

(* An inactive or missing product is refused before a saga id is drawn,    *)
(* and changes nothing.                                                    *)
Start(s, u, p) ==
  /\ pc[s] = "idle"
  /\ catalog[p].active
  /\ cart' = [cart EXCEPT ![s] = [user |-> u, amount |-> catalog[p].amount,
                                  category |-> catalog[p].category]]
  /\ Send(s, "debit")
  /\ Goto(s, "debiting")
  /\ UNCHANGED <<wallets, catalog, order, tries, delivered, reply, faults>>

(* Mutant: an HTTP client without a timeout.                               *)
HeardAtLast(s) == answer[s] # "none" /\ UNCHANGED faults

(* The client has its answer, or has waited its ten seconds in vain        *)
(* (the answer may be lost, or come too late).                             *)
Heard(s) ==
  \/ answer[s] # "none" /\ UNCHANGED faults
  \/ Blame(s, "wallet")

DebitDone(s) ==
  /\ pc[s] = "debiting"
  /\ answer[s] = "ok"
  /\ Goto(s, "ordering")
  /\ UNCHANGED <<wallets, catalog, order, cart, call, answer, tries, delivered,
                 reply, faults>>

(* Mutant: the error of the debit is ignored.                              *)
DebitIgnored(s) ==
  /\ pc[s] = "debiting"
  /\ \/ answer[s] = "error" /\ UNCHANGED faults
     \/ Blame(s, "wallet")
  /\ Goto(s, "ordering")
  /\ UNCHANGED <<wallets, catalog, order, cart, call, answer, tries, delivered,
                 reply>>

(* Any error of the debit ends the purchase, a timeout included: nothing   *)
(* asks whether the money was taken.                                       *)
DebitFailed(s) ==
  /\ pc[s] = "debiting"
  /\ \/ answer[s] = "error" /\ UNCHANGED faults
     \/ Blame(s, "wallet")
  /\ Finish(s, "error")
  /\ UNCHANGED <<wallets, catalog, order, cart, call, answer, tries, delivered>>

(* Mutant: the order is created as entities.go's OrderPending.             *)
CreatePending(s) ==
  /\ pc[s] = "ordering"
  /\ order' = [order EXCEPT ![s] = "PENDING"]
  /\ Goto(s, "calling")
  /\ UNCHANGED <<wallets, catalog, cart, call, answer, tries, delivered, reply,
                 faults>>

CreateOrder(s) ==
  /\ pc[s] = "ordering"
  /\ order' = [order EXCEPT ![s] = "PROCESSING"]
  /\ Goto(s, "calling")
  /\ UNCHANGED <<wallets, catalog, cart, call, answer, tries, delivered, reply,
                 faults>>

(* The INSERT fails, or succeeds unknown to the service (the client's      *)
(* context is cancelled under it): the debit is compensated.               *)
CreateOrderFails(s) ==
  /\ pc[s] = "ordering"
  /\ order' \in {order, [order EXCEPT ![s] = "PROCESSING"]}
  /\ Blame(s, "order")
  /\ Send(s, "compensate")
  /\ Goto(s, "aborting")
  /\ UNCHANGED <<wallets, catalog, cart, tries, delivered, reply>>

(* Mutant: a success does not end the loop over attempts and providers.    *)
CallAllProviders(s) ==
  \E o \in Execute(cart[s].category) :
    /\ pc[s] = "calling" /\ tries[s] < MaxCalls
    /\ tries' = [tries EXCEPT ![s] = @ + 1]
    /\ delivered' = [delivered EXCEPT ![s] = @ + o.goods]
    /\ IF o.ok = (o.goods = 1) THEN UNCHANGED faults
       ELSE Blame(s, IF o.ok THEN "misread" ELSE "provider")
    /\ Goto(s, IF o.ok /\ tries'[s] = MaxCalls THEN "fulfilled" ELSE "calling")
    /\ UNCHANGED <<wallets, catalog, order, cart, call, answer, reply>>

(* One provider call, of the at most three rounds: a first success ends    *)
(* them, and what the provider answered is thrown away.                    *)
CallProvider(s) ==
  \E o \in Execute(cart[s].category) :
    /\ pc[s] = "calling" /\ tries[s] < MaxCalls
    /\ tries' = [tries EXCEPT ![s] = @ + 1]
    /\ delivered' = [delivered EXCEPT ![s] = @ + o.goods]
    /\ IF o.ok = (o.goods = 1) THEN UNCHANGED faults
       ELSE Blame(s, IF o.ok THEN "misread" ELSE "provider")
    /\ Goto(s, IF o.ok THEN "fulfilled" ELSE "calling")
    /\ UNCHANGED <<wallets, catalog, order, cart, call, answer, reply>>

ProvidersExhausted(s) ==
  /\ pc[s] = "calling" /\ tries[s] = MaxCalls
  /\ Goto(s, "failing")
  /\ UNCHANGED <<wallets, catalog, order, cart, call, answer, tries, delivered,
                 reply, faults>>

(* UpdateStatus overwrites whatever is there; its error is ignored.        *)
UpdateStatus(s, status) ==
  \/ order' = [order EXCEPT ![s] = status] /\ UNCHANGED faults
  \/ UNCHANGED order /\ Blame(s, "order")

FailOrder(s) ==
  /\ pc[s] = "failing"
  /\ UpdateStatus(s, "FAILED")
  /\ Send(s, "compensate")
  /\ Goto(s, "refunding")
  /\ UNCHANGED <<wallets, catalog, cart, tries, delivered, reply>>

(* Mutant: the purchase is reported complete but its saga is never ended.  *)
FulfilUnsettled(s) ==
  /\ pc[s] = "fulfilled"
  /\ UpdateStatus(s, "COMPLETED")
  /\ Finish(s, "success")
  /\ UNCHANGED <<wallets, catalog, cart, call, answer, tries, delivered>>

FulfilOrder(s) ==
  /\ pc[s] = "fulfilled"
  /\ UpdateStatus(s, "COMPLETED")
  /\ Send(s, "complete")
  /\ Goto(s, "completing")
  /\ UNCHANGED <<wallets, catalog, cart, tries, delivered, reply>>

(* The outcome of CompensateSaga or CompleteSaga is logged, not used.      *)
SagaEnded(s) ==
  /\ pc[s] \in Waiting \ {"debiting"}
  /\ Heard(s)
  /\ Finish(s, CASE pc[s] = "aborting"   -> "error"
                 [] pc[s] = "refunding"  -> "failed"
                 [] pc[s] = "completing" -> "success")
  /\ UNCHANGED <<wallets, catalog, order, cart, call, answer, tries, delivered>>

Handle(s) ==
  \/ DebitDone(s) \/ DebitFailed(s)
  \/ CreateOrder(s) \/ CreateOrderFails(s)
  \/ CallProvider(s) \/ ProvidersExhausted(s)
  \/ FailOrder(s) \/ FulfilOrder(s) \/ SagaEnded(s)

(* The service dies with all its handlers. Nothing resumes a purchase.     *)
Crash ==
  /\ pc' = [s \in Sagas |-> IF pc[s] \in Working THEN "dead" ELSE pc[s]]
  /\ faults' = [s \in Sagas |-> IF pc[s] \in Working THEN faults[s] \cup {"crash"}
                                ELSE faults[s]]
  /\ UNCHANGED <<wallets, catalog, order, cart, call, answer, tries, delivered,
                 reply>>

-----------------------------------------------------------------------------
(* wallet-service.                                                         *)

DebitRequest(s) ==
  [op |-> "debit", user |-> cart[s].user, to |-> cart[s].user,
   amount |-> cart[s].amount, key |-> s, saga |-> s]

WalletServes(s) ==
  /\ \/ call[s] = "debit" /\ W!Hold(DebitRequest(s))
     \/ call[s] = "compensate" /\ W!Refund(s)
     \/ call[s] = "complete" /\ W!Settle(s)
  /\ call' = [call EXCEPT ![s] = "none"]
  /\ answer' = [answer EXCEPT ![s] = "ok"]
  /\ UNCHANGED <<catalog, order, pc, cart, tries, delivered, reply, faults>>

(* The wallet refuses the request, loses an optimistic-locking race, fails *)
(* or never gets the call. Only a refused debit is part of normal life.    *)
WalletRefuses(s) ==
  /\ call[s] # "none"
  /\ call' = [call EXCEPT ![s] = "none"]
  /\ answer' = [answer EXCEPT ![s] = "error"]
  /\ IF call[s] = "debit" THEN UNCHANGED faults ELSE Blame(s, "wallet")
  /\ UNCHANGED <<wallets, catalog, order, pc, cart, tries, delivered, reply>>

(* The wallets' owners, on their own. (A locked wallet shows here only as  *)
(* a debit refused: a compensation ignores the lock.)                      *)
WalletElsewhere ==
  /\ \/ \E u \in Users : W!Open(u)
     \/ \E r \in Requests : W!Credit(r) \/ W!Transfer(r)
  /\ UNCHANGED <<catalog, order, pc, cart, call, answer, tries, delivered, reply,
                 faults>>

(* The administrator. An update writes neither the category nor the        *)
(* provider's code, although it answers with those it was given; of a      *)
(* product that does not exist it changes nothing.                         *)
SetProduct(p, row) ==
  /\ catalog' = [catalog EXCEPT ![p] = row]
  /\ UNCHANGED <<wallets, order, pc, cart, call, answer, tries, delivered, reply,
                 faults>>

CreateProduct(p, row) == catalog[p].category = "none" /\ SetProduct(p, row)

UpdateProduct(p, active, amount) ==
  /\ catalog[p].category # "none"
  /\ SetProduct(p, [catalog[p] EXCEPT !.active = active, !.amount = amount])

DeleteProduct(p) ==
  catalog[p].category # "none" /\ SetProduct(p, [catalog[p] EXCEPT !.active = FALSE])

Next ==
  \/ \E s \in Sagas, u \in Users, p \in Products : Start(s, u, p)
  \/ \E s \in Sagas : Handle(s) \/ WalletServes(s) \/ WalletRefuses(s)
  \/ \E p \in Products :
       \/ \E row \in ProductRow : CreateProduct(p, row)
       \/ \E active \in BOOLEAN, amount \in Prices : UpdateProduct(p, active, amount)
       \/ DeleteProduct(p)
  \/ WalletElsewhere
  \/ Crash

(* The scheduler runs every handler; each wait of a handler is bounded by  *)
(* an HTTP client's timeout. Nothing is assumed of the wallet's answers.   *)
Fairness == \A s \in Sagas : WF_vars(Handle(s))

Spec == Init /\ [][Next]_vars /\ Fairness
-----------------------------------------------------------------------------
(* Every variable has its type.                                            *)
TypeOK ==
  /\ opened \subseteq Users /\ locked \subseteq opened
  /\ balance \in [Users -> Int]
  /\ used \subseteq TxnKeys
  /\ hold \in [Sagas -> SagaRow]
  /\ catalog \in [Products -> ProductRow \cup {NoProduct}]
  /\ order \in [Sagas -> OrderStatus]
  /\ pc \in [Sagas -> {"idle", "done", "dead"} \cup Working]
  /\ cart \in [Sagas -> Cart]
  /\ call \in [Sagas -> {"none", "debit", "compensate", "complete"}]
  /\ answer \in [Sagas -> {"none", "ok", "error"}]
  /\ tries \in [Sagas -> 0..MaxCalls]
  /\ delivered \in [Sagas -> Nat]
  /\ reply \in [Sagas -> {"none", "error", "failed", "success"}]
  /\ faults \in [Sagas -> SUBSET Fault]

(* The order book and the wallets never contradict each other, whatever    *)
(* is lost or late: an order exists only for money taken, a completed      *)
(* order (or a client told of success) is never refunded, and a failed     *)
(* one is never charged for good.                                          *)
OrderAgreesWithSaga ==
  \A s \in Sagas :
    /\ order[s] # "none" => hold[s].status # "none"
    /\ order[s] = "COMPLETED" \/ reply[s] = "success"
         => hold[s].status \in {"PENDING", "COMPLETED"}
    /\ order[s] = "FAILED" \/ reply[s] = "failed"
         => hold[s].status \in {"PENDING", "COMPENSATED"}

(* A purchase that is over leaves money held only if a wallet call was     *)
(* lost or late, or the service died: no path of Purchase forgets its saga *)
(* (vtu_usecase.go: each exit after the debit compensates or completes).   *)
StrandedOnlyByFault ==
  \A s \in Sagas :
    pc[s] \in {"done", "dead"} /\ hold[s].status = "PENDING"
      => faults[s] \cap {"wallet", "crash"} # {}

(* As long as each provider call's answer arrives and is understood, a     *)
(* purchase delivers at most once in spite of callProvider's retries,      *)
(* tells of success only what was delivered, and never both delivers and   *)
(* refunds; and as long as no answer is misread, it tells of success, and  *)
(* keeps the money for, nothing undelivered.                               *)
GoodsMatchMoney ==
  \A s \in Sagas :
    /\ faults[s] \cap {"provider", "misread"} = {} =>
         /\ delivered[s] <= 1
         /\ hold[s].status = "COMPENSATED" => delivered[s] = 0
    /\ "misread" \notin faults[s] =>
         (reply[s] = "success" \/ hold[s].status = "COMPLETED" => delivered[s] > 0)

(* Nothing is delivered unless the wallet holds its price at that moment.  *)
GoodsAfterMoney ==
  [][\A s \in Sagas : delivered'[s] # delivered[s] =>
       hold[s].status = "PENDING" /\ hold'[s] = hold[s]]_vars

(* Held money is not left behind: unless something goes wrong with the     *)
(* purchase, its saga is settled or refunded.                              *)
HeldMoneyMovesOn ==
  \A s \in Sagas : hold[s].status = "PENDING" ~>
    (hold[s].status # "PENDING" \/ faults[s] # {})

(* vtu_usecase.go:172 tells the client "Purchase successful!", and         *)
(* datastation.go:118 says of answers that are no JSON "We handle it       *)
(* safely": with no wallet, order or process failing and no answer lost,   *)
(* what is reported as bought was delivered.                               *)
SuccessMeansDelivered ==
  \A s \in Sagas :
    reply[s] = "success" /\ faults[s] \subseteq {"misread"} => delivered[s] > 0
=============================================================================
