-------------------------- MODULE EngagementService --------------------------
(***************************************************************************)
(* engagement-service apart from its cashback (see Engagement): requests   *)
(* for codes and badges, and the retention worker, in one process. A crash *)
(* ends what all of them are at.                                           *)
(***************************************************************************)
EXTENDS Integers, FiniteSets

CONSTANTS
  Absent, IdleAfter, QuietFor,     \* see Reminders
  Owners, Handlers, MaxFailures    \* see Keepsakes

ASSUME ServiceAssumption ==
  /\ {IdleAfter, QuietFor, MaxFailures} \subseteq Nat
  /\ IsFiniteSet(Handlers) /\ IsFiniteSet(Owners) /\ IsFiniteSet(Absent)

VARIABLES
  idle, marked, scan, serving, reminded, unmarked, back,
  kept, next, blind

reminders == <<idle, marked, scan, serving, reminded, unmarked, back>>
keepsakes == <<kept, next, blind>>
vars == <<idle, marked, scan, serving, reminded, unmarked, back, kept, next, blind>>

R == INSTANCE Reminders
K == INSTANCE Keepsakes

Init == R!Init /\ K!Init

Worker ==
  /\ R!Query \/ (\E u \in Absent : R!Push(u)) \/ R!Mark \/ R!Stop
  /\ UNCHANGED keepsakes

Users ==
  /\ R!DayPasses \/ \E u \in Absent : R!LogIn(u)
  /\ UNCHANGED keepsakes

Requests ==
  /\ \E h \in Handlers :
       (\E x \in K!Kinds \X Owners : K!LookUp(h, x)) \/ K!Insert(h)
  /\ UNCHANGED reminders

Crash == R!Stop /\ K!Stop

Next == Worker \/ Users \/ Requests \/ Crash

Spec == Init /\ [][Next]_vars
-----------------------------------------------------------------------------
(* retention_worker.go:91 "so we don't spam them": a reminder reaches a    *)
(* user only if none has in the last day, or the last one left no mark (its*)
(* UPDATE or its report failed, or the process died in between); and only  *)
(* a user who has stayed away, or has come back since the scan began.      *)
RemindersAreDue ==
  [][\A u \in Absent : R!Push(u) /\ R!Reached(u) =>
       /\ reminded[u] > QuietFor \/ u \in unmarked
       /\ idle[u] > IdleAfter \/ u \in back]_vars

(* A user has no more codes, and no more badges of a kind, than there are  *)
(* requests that can race for the first and lookups that failed.           *)
KeptOnce ==
  \A x \in K!Kinds \X Owners : kept[x] <= Cardinality(Handlers) + blind[x]
=============================================================================
