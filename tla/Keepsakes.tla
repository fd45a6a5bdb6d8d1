----------------------------- MODULE Keepsakes -----------------------------
(***************************************************************************)
(* engagement-service's use case: what a user has once. A referral code    *)
(* (GetOrCreateReferralCode) and a badge (AwardBadge) are looked up and    *)
(* then inserted, in two calls of a repository that is an interface: each  *)
(* is taken as one atomic statement, which may fail.                       *)
(***************************************************************************)
EXTENDS Integers, FiniteSets

CONSTANTS
  Owners,       \* users
  Handlers,     \* requests served at a time
  MaxFailures   \* bound: lookups that fail, per user and kind

VARIABLES
  kept,     \* rows of each kind and user
  next,     \* what each handler is about to insert
  blind     \* history: lookups that failed and were taken for "none"

keepsakes == <<kept, next, blind>>

Kinds == {"code", "badge"}
Nothing == <<>>

Init ==
  /\ kept = [x \in Kinds \X Owners |-> 0]
  /\ next = [h \in Handlers |-> Nothing]
  /\ blind = [x \in Kinds \X Owners |-> 0]

(* Mutant: the answer of the lookup is not used.                           *)
LookUpInVain(h, x) ==
  /\ next[h] = Nothing
  /\ next' = [next EXCEPT ![h] = x]
  /\ UNCHANGED <<kept, blind>>

(* GetCodeByUser or HasBadge: whatever it fails of, no row was found.      *)
LookUp(h, x) ==
  /\ next[h] = Nothing
  /\ \/ kept[x] = 0 /\ UNCHANGED blind
     \/ blind[x] < MaxFailures /\ blind' = [blind EXCEPT ![x] = @ + 1]
  /\ next' = [next EXCEPT ![h] = x]
  /\ UNCHANGED kept

(* CreateCode or AwardBadge, which may fail, or succeed unknown to the     *)
(* handler.                                                                *)
Insert(h) ==
  /\ next[h] # Nothing
  /\ \/ kept' = [kept EXCEPT ![next[h]] = @ + 1]
     \/ UNCHANGED kept
  /\ next' = [next EXCEPT ![h] = Nothing]
  /\ UNCHANGED blind

Stop ==
  /\ next' = [h \in Handlers |-> Nothing]
  /\ UNCHANGED <<kept, blind>>
=============================================================================
