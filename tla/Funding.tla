------------------------------ MODULE Funding -------------------------------
(***************************************************************************)
(* wallet-service: funding a wallet through Paystack. FundInitialize draws *)
(* a reference and opens a payment; Paystack's webhook, delivered until it *)
(* is answered 200 and possibly again, is to credit the wallet. The wallet *)
(* itself is Bank, which Wallet implements.                                *)
(*                                                                         *)
(* A reference is "fund-", the user's id, "-" and the nanosecond time. It  *)
(* is never drawn twice, and names the payment. A user id is a UUID        *)
(* (CreateWalletRequest), so it has hyphens of its own.                    *)
(***************************************************************************)
EXTENDS WalletDomain, Sequences

CONSTANTS
  Payments,     \* references drawn: idempotency keys of their credits (in Keys)
  Groups,       \* groups of hexadecimal digits: none of them is a user
  GroupsOf      \* the five groups between the hyphens of each user id

VARIABLES
  opened, locked, balance, used, hold,   \* the wallets, see Bank
  payment,    \* Paystack: each payment's status
  payer,      \* and the reference's user id
  answered    \* payments whose webhook has been answered 200

wallets == <<opened, locked, balance, used, hold>>
vars == <<opened, locked, balance, used, hold, payment, payer, answered>>

W == INSTANCE Bank

Amount == 1

Init ==
  /\ W!Init
  /\ payment = [p \in Payments |-> "none"]
  /\ payer = [p \in Payments |-> CHOOSE u \in Users : TRUE]
  /\ answered = {}

(* strings.Split of the reference at its hyphens: "fund", the groups of    *)
(* the user id, and the time, which is never a user's name.                *)
Parts(p) == <<"fund">> \o [i \in 1..5 |-> GroupsOf[payer[p]][i]] \o <<"time">>

(* InitializePayment may fail after Paystack has opened the payment; the   *)
(* client then has no address to pay at.                                   *)
FundInitialize(p, u) ==
  /\ payment[p] = "none"
  /\ payment' \in {[payment EXCEPT ![p] = s] : s \in {"open", "unknown"}}
  /\ payer' = [payer EXCEPT ![p] = u]
  /\ UNCHANGED <<wallets, answered>>

(* The user pays, or the payment is declined.                              *)
Pay(p) ==
  /\ payment[p] = "open"
  /\ payment' \in {[payment EXCEPT ![p] = s] : s \in {"success", "declined"}}
  /\ UNCHANGED <<wallets, payer, answered>>

CreditRequest(p) ==
  [op |-> "credit", user |-> Parts(p)[2], to |-> Parts(p)[2], amount |-> Amount,
   key |-> p, saga |-> CHOOSE s \in Sagas : TRUE]

(* The webhook of a paid payment is delivered, for the first time or again.*)
(* Whether or not the wallet credits, the answer is 200.                   *)
PaystackWebhook(p) ==
  /\ payment[p] = "success"
  /\ W!Credit(CreditRequest(p)) \/ UNCHANGED wallets
  /\ answered' = answered \cup {p}
  /\ UNCHANGED <<payment, payer>>

CreateWallet(u) ==
  /\ W!Open(u)
  /\ UNCHANGED <<payment, payer, answered>>

Next ==
  \/ \E p \in Payments :
       \/ \E u \in Users : FundInitialize(p, u)
       \/ Pay(p) \/ PaystackWebhook(p)
  \/ \E u \in Users : CreateWallet(u)

(* Paystack delivers until it is answered. The wallet is available, and    *)
(* refuses nobody for ever.                                                *)
Fairness ==
  \A p \in Payments :
    /\ WF_vars(PaystackWebhook(p))
    /\ SF_vars(PaystackWebhook(p) /\ W!Credit(CreditRequest(p)))

Spec == Init /\ [][Next]_vars /\ Fairness
-----------------------------------------------------------------------------
(* handler.go:346-348: "we can just let the webhook handle the creation of *)
(* the actual credit transaction when the payment succeeds". A payment     *)
(* that succeeded is eventually credited, if its payer has a wallet.        *)
PaidIsCredited ==
  \A p \in Payments :
    payment[p] = "success" /\ payer[p] \in opened ~> W!ReqKey(p) \in used
=============================================================================
