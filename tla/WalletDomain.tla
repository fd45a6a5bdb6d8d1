---------------------------- MODULE WalletDomain ----------------------------
(***************************************************************************)
(* The vocabulary of wallet-service (internal/domain): the users who own   *)
(* wallets, the idempotency keys their clients choose, the saga ids other  *)
(* services choose, and the requests the usecase layer serves.             *)
(*                                                                         *)
(* Amounts are integers: the code computes with shopspring/decimal, which  *)
(* is exact for the additions and subtractions done here.                  *)
(***************************************************************************)
EXTENDS Integers

CONSTANTS
  Users,      \* owners of wallets; a wallet row is named by its owner
  Keys,       \* idempotency keys chosen by the callers
  Sagas,      \* saga ids chosen by the orchestrating services
  Requests    \* the requests that may arrive, each any number of times

Keyed == {"credit", "transfer", "debit"}       \* carry an idempotency key
OnSaga == {"compensate", "complete"}           \* carry a saga id only

(* A request of usecase.{Credit,Transfer,DebitSaga}Request, or the saga id *)
(* of CompensateSaga and CompleteSaga. A field its operation does not read *)
(* has any value.                                                          *)
Request ==
  [op : Keyed \cup OnSaga, user : Users, to : Users, amount : Int,
   key : Keys, saga : Sagas]

(* Idempotency keys of wallet_transactions: the caller's key, the key a    *)
(* transfer derives for the receiver's row ("%s-credit"), and the key a    *)
(* compensation derives ("saga-comp-%s"). A caller's key is taken to be    *)
(* distinct from the derived ones.                                         *)
ReqKey(k) == <<"key", k>>
CreditKey(k) == <<"credit", k>>
CompKey(s) == <<"saga-comp", s>>

TxnKeys == ({"key", "credit"} \X Keys) \cup ({"saga-comp"} \X Sagas)

TxnStatus == {"none", "PENDING", "COMPLETED", "REVERSED"}
SagaStatus == {"none", "PENDING", "COMPLETED", "COMPENSATED"}

(* A row of saga_compensations; key is the idempotency key of the debit    *)
(* that transaction_id points to.                                          *)
SagaRow == [status : SagaStatus, user : Users, amount : Int, key : Keys]

NoSaga ==
  [status |-> "none", user |-> CHOOSE u \in Users : TRUE, amount |-> 0,
   key |-> CHOOSE k \in Keys : TRUE]

ASSUME DomainAssumption ==
  /\ Users # {} /\ Keys # {} /\ Sagas # {}
  /\ Requests \subseteq Request

(* The callers' side of idempotency: a key, or the saga id of a debit, is  *)
(* never reused for a different request. The services of this repository   *)
(* derive both from a fresh UUID or a nanosecond timestamp.                *)
ASSUME KeysIdentifyRequests ==
  \A r, q \in Requests :
     /\ r.op \in Keyed /\ q.op \in Keyed /\ r.key = q.key => r = q
     /\ r.op = "debit" /\ q.op = "debit" /\ r.saga = q.saga => r = q
=============================================================================
