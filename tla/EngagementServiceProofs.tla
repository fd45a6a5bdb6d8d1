----------------------- MODULE EngagementServiceProofs -----------------------
(***************************************************************************)
(* Proofs about EngagementService, for any users, numbers of requests at   *)
(* once and numbers of lookups that fail.                                  *)
(***************************************************************************)
EXTENDS EngagementService, FiniteSetTheorems, TLAPS

(* The worker. A user without an unmarked reminder was marked no earlier   *)
(* than reminded; who is in a scan was due when it began, and still is but *)
(* for a login since.                                                      *)
WorkerInv ==
  /\ idle \in [Absent -> Nat] /\ marked \in [Absent -> Nat]
  /\ reminded \in [Absent -> Nat]
  /\ scan \subseteq Absent
  /\ serving # "nobody" => serving \in Absent /\ serving \notin scan
  /\ \A u \in Absent : u \in unmarked \/ marked[u] <= reminded[u]
  /\ \A u \in scan : marked[u] > QuietFor /\ (idle[u] > IdleAfter \/ u \in back)

(* Codes and badges. A request that is about to insert one has found none, *)
(* or has failed to look.                                                  *)
Items == K!Kinds \X Owners
About(x) == {h \in Handlers : next[h] = x}

KeptInv ==
  /\ kept \in [Items -> Nat] /\ blind \in [Items -> Nat]
  /\ next \in [Handlers -> Items \cup {K!Nothing}]
  /\ \A x \in Items : kept[x] + Cardinality(About(x)) <= Cardinality(Handlers) + blind[x]

ServiceInv == WorkerInv /\ KeptInv
-----------------------------------------------------------------------------
LEMMA AboutFinite ==
  ASSUME NEW x
  PROVE  /\ IsFiniteSet(About(x)) /\ Cardinality(About(x)) \in Nat
         /\ Cardinality(Handlers) \in Nat
         /\ Cardinality(About(x)) <= Cardinality(Handlers)
<1>1. About(x) \in SUBSET Handlers
  BY DEF About
<1> QED
  BY <1>1, ServiceAssumption, FS_Subset, FS_CardinalityType

LEMMA NothingIsNoItem == K!Nothing \notin Items
BY DEF K!Nothing, Items

LEMMA InitService == Init => ServiceInv
<1> SUFFICES ASSUME Init PROVE ServiceInv
  OBVIOUS
<1>1. WorkerInv
  BY ServiceAssumption DEF Init, R!Init, R!Long, WorkerInv
<1>2. KeptInv
  <2>1. /\ kept = [x \in Items |-> 0] /\ blind = [x \in Items |-> 0]
        /\ next = [h \in Handlers |-> K!Nothing]
    BY DEF Init, K!Init, Items
  <2> QED
    BY <2>1, AboutFinite DEF KeptInv
<1> QED
  BY <1>1, <1>2 DEF ServiceInv

LEMMA OlderKeeps ==
  ASSUME NEW a \in Nat, NEW b \in Nat, NEW n \in Nat
  PROVE  /\ R!Older(a, n + 1) \in Nat
         /\ a <= b => R!Older(a, n + 1) <= R!Older(b, n + 1)
         /\ a > n => R!Older(a, n + 1) > n
BY DEF R!Older

LEMMA DayStep == ASSUME WorkerInv, R!DayPasses PROVE WorkerInv'
<1>1. /\ idle' = [u \in Absent |-> R!Older(idle[u], IdleAfter + 1)]
      /\ marked' = [u \in Absent |-> R!Older(marked[u], QuietFor + 1)]
      /\ reminded' = [u \in Absent |-> R!Older(reminded[u], QuietFor + 1)]
      /\ UNCHANGED <<scan, serving, unmarked, back>>
  BY DEF R!DayPasses, R!Long
<1>2. IdleAfter \in Nat /\ QuietFor \in Nat
  BY ServiceAssumption
<1>3. ASSUME NEW u \in Absent
      PROVE  /\ idle'[u] \in Nat /\ marked'[u] \in Nat /\ reminded'[u] \in Nat
             /\ marked[u] <= reminded[u] => marked'[u] <= reminded'[u]
             /\ marked[u] > QuietFor => marked'[u] > QuietFor
             /\ idle[u] > IdleAfter => idle'[u] > IdleAfter
  BY <1>1, <1>2, OlderKeeps DEF WorkerInv
<1> QED
  BY <1>1, <1>3 DEF WorkerInv

LEMMA LogInStep == ASSUME WorkerInv, NEW u \in Absent, R!LogIn(u) PROVE WorkerInv'
<1>1. /\ idle' = [idle EXCEPT ![u] = 0]
      /\ back' = IF scan # {} \/ serving # "nobody" THEN back \cup {u} ELSE back
      /\ UNCHANGED <<marked, scan, serving, reminded, unmarked>>
  BY DEF R!LogIn
<1>2. \A v \in scan : idle'[v] > IdleAfter \/ v \in back'
  BY <1>1 DEF WorkerInv
<1> QED
  BY <1>1, <1>2 DEF WorkerInv

LEMMA ScanStep ==
  ASSUME WorkerInv, R!Query \/ (\E u \in Absent : R!Push(u)) \/ R!Mark \/ R!Stop
  PROVE  WorkerInv'
<1>1. CASE R!Query
  BY <1>1 DEF R!Query, WorkerInv
<1>2. ASSUME NEW u \in Absent, R!Push(u) PROVE WorkerInv'
  <2>1. /\ u \in scan /\ scan' = scan \ {u} /\ serving' \in {u, "nobody"}
        /\ \/ /\ reminded' = [reminded EXCEPT ![u] = 0]
              /\ unmarked' = unmarked \cup {u}
           \/ UNCHANGED <<reminded, unmarked>>
        /\ UNCHANGED <<idle, marked, back>>
    BY <1>2 DEF R!Push, R!Reached
  <2> QED
    BY <2>1 DEF WorkerInv
<1>3. CASE R!Mark
  <2>1. /\ serving # "nobody" /\ serving' = "nobody"
        /\ \/ /\ marked' = [marked EXCEPT ![serving] = 0]
              /\ unmarked' = unmarked \ {serving}
           \/ UNCHANGED <<marked, unmarked>>
        /\ UNCHANGED <<idle, scan, reminded, back>>
    BY <1>3 DEF R!Mark
  <2> QED
    BY <2>1 DEF WorkerInv
<1>4. CASE R!Stop
  BY <1>4 DEF R!Stop, WorkerInv
<1> QED
  BY <1>1, <1>2, <1>3, <1>4

LEMMA LookUpStep ==
  ASSUME KeptInv, NEW h \in Handlers, NEW x \in Items, K!LookUp(h, x)
  PROVE  KeptInv'
<1>1. /\ next[h] = K!Nothing /\ next' = [next EXCEPT ![h] = x] /\ kept' = kept
      /\ \/ kept[x] = 0 /\ blind' = blind
         \/ blind' = [blind EXCEPT ![x] = blind[x] + 1]
  BY DEF K!LookUp
<1>2. About(x)' = About(x) \cup {h} /\ h \notin About(x)
  BY <1>1, NothingIsNoItem DEF KeptInv, About
<1>3. \A y \in Items : y # x => About(y)' = About(y)
  BY <1>1, NothingIsNoItem DEF KeptInv, About
<1>4. /\ IsFiniteSet(About(x)) /\ Cardinality(About(x)) \in Nat
      /\ Cardinality(Handlers) \in Nat /\ kept[x] \in Nat /\ blind[x] \in Nat
      /\ kept[x] + Cardinality(About(x)) <= Cardinality(Handlers) + blind[x]
  BY AboutFinite DEF KeptInv
<1>5. Cardinality(About(x)') = Cardinality(About(x)) + 1
  BY <1>2, <1>4, FS_AddElement
<1>6. Cardinality(About(x)') <= Cardinality(Handlers)
  <2>1. About(x)' \in SUBSET Handlers
    BY DEF About
  <2> QED
    BY <2>1, ServiceAssumption, FS_Subset
<1>7. kept'[x] + Cardinality(About(x)') <= Cardinality(Handlers) + blind'[x]
  <2>1. CASE kept[x] = 0 /\ blind' = blind
    BY <1>1, <1>4, <1>5, <1>6, <2>1
  <2>2. CASE blind' = [blind EXCEPT ![x] = blind[x] + 1]
    BY <1>1, <1>4, <1>5, <2>2 DEF KeptInv
  <2> QED
    BY <1>1, <2>1, <2>2
<1>8. ASSUME NEW y \in Items, y # x
      PROVE  kept'[y] + Cardinality(About(y)') <= Cardinality(Handlers) + blind'[y]
  BY <1>1, <1>3, <1>8 DEF KeptInv
<1>9. blind' \in [Items -> Nat]
  BY <1>1, <1>4 DEF KeptInv
<1> QED
  BY <1>1, <1>7, <1>8, <1>9 DEF KeptInv

LEMMA InsertStep ==
  ASSUME KeptInv, NEW h \in Handlers, K!Insert(h)
  PROVE  KeptInv'
<1> DEFINE x == next[h]
<1>1. /\ x \in Items /\ next' = [next EXCEPT ![h] = K!Nothing] /\ blind' = blind
      /\ \/ kept' = [kept EXCEPT ![x] = kept[x] + 1]
         \/ kept' = kept
  BY DEF K!Insert, KeptInv
<1>2. About(x) \ {h} = {g \in Handlers : next'[g] = x} /\ h \in About(x)
  BY <1>1, NothingIsNoItem DEF KeptInv, About
<1>3. \A y \in Items : y # x => About(y)' = About(y)
  BY <1>1, NothingIsNoItem DEF KeptInv, About
<1>4. /\ IsFiniteSet(About(x)) /\ Cardinality(About(x)) \in Nat
      /\ Cardinality(Handlers) \in Nat /\ kept[x] \in Nat /\ blind[x] \in Nat
      /\ kept[x] + Cardinality(About(x)) <= Cardinality(Handlers) + blind[x]
  BY <1>1, AboutFinite DEF KeptInv
<1>5. Cardinality({g \in Handlers : next'[g] = x}) = Cardinality(About(x)) - 1
  BY <1>2, <1>4, FS_RemoveElement
<1>6. ASSUME NEW y \in Items
      PROVE  kept'[y] + Cardinality(About(y)') <= Cardinality(Handlers) + blind'[y]
  <2>1. CASE y = x
    <3>1. About(y)' = {g \in Handlers : next'[g] = x}
      BY <2>1 DEF About
    <3>2. kept'[y] <= kept[x] + 1 /\ kept'[y] \in Nat
      BY <1>1, <1>4, <2>1 DEF KeptInv
    <3>3. blind'[y] = blind[x]
      BY <1>1, <2>1
    <3> HIDE DEF x
    <3> QED
      BY <1>4, <1>5, <3>1, <3>2, <3>3
  <2>2. CASE y # x
    BY <1>1, <1>3, <2>2 DEF KeptInv
  <2> QED
    BY <2>1, <2>2
<1>7. kept' \in [Items -> Nat]
  BY <1>1, <1>4 DEF KeptInv
<1> QED
  BY <1>1, <1>6, <1>7 DEF KeptInv

LEMMA StopStep == ASSUME KeptInv, K!Stop PROVE KeptInv'
<1>1. next' = [h \in Handlers |-> K!Nothing] /\ UNCHANGED <<kept, blind>>
  BY DEF K!Stop
<1>2. ASSUME NEW x \in Items
      PROVE  kept'[x] + Cardinality(About(x)') <= Cardinality(Handlers) + blind'[x]
  <2>1. About(x)' = {}
    BY <1>1, NothingIsNoItem DEF About
  <2>2. Cardinality(About(x)') = 0
    BY <2>1, FS_EmptySet
  <2>3. Cardinality(About(x)) \in Nat /\ Cardinality(Handlers) \in Nat
    BY AboutFinite
  <2>4. /\ kept[x] \in Nat /\ blind[x] \in Nat
        /\ kept[x] + Cardinality(About(x)) <= Cardinality(Handlers) + blind[x]
    BY DEF KeptInv
  <2> QED
    BY <1>1, <2>2, <2>3, <2>4
<1> QED
  BY <1>1, <1>2 DEF KeptInv

LEMMA NextService == ServiceInv /\ [Next]_vars => ServiceInv'
<1> SUFFICES ASSUME ServiceInv, [Next]_vars PROVE ServiceInv'
  OBVIOUS
<1>1. WorkerInv /\ KeptInv
  BY DEF ServiceInv
<1>2. ASSUME UNCHANGED reminders PROVE WorkerInv'
  BY <1>1, <1>2 DEF reminders, WorkerInv
<1>3. ASSUME UNCHANGED keepsakes PROVE KeptInv'
  BY <1>1, <1>3 DEF keepsakes, KeptInv, About
<1>4. CASE UNCHANGED vars
  BY <1>2, <1>3, <1>4 DEF vars, reminders, keepsakes, ServiceInv
<1>5. CASE Worker
  BY <1>1, <1>3, <1>5, ScanStep DEF Worker, ServiceInv
<1>6. CASE Users
  BY <1>1, <1>3, <1>6, DayStep, LogInStep DEF Users, ServiceInv
<1>7. CASE Requests
  BY <1>1, <1>2, <1>7, LookUpStep, InsertStep DEF Requests, Items, ServiceInv
<1>8. CASE Crash
  BY <1>1, <1>8, ScanStep, StopStep DEF Crash, ServiceInv
<1> QED
  BY <1>4, <1>5, <1>6, <1>7, <1>8 DEF Next

(* The inductive invariant of the process holds of every reachable state.  *)
THEOREM ServiceInvariant == Spec => []ServiceInv
BY InitService, NextService, PTL DEF Spec

(* A user has no more codes, or badges of a kind, than there are requests  *)
(* that can race for the first, and lookups that failed.                   *)
THEOREM KeptByRacesOnly == Spec => []KeptOnce
<1>1. ServiceInv => KeptOnce
  <2> SUFFICES ASSUME ServiceInv, NEW x \in Items
               PROVE  kept[x] <= Cardinality(Handlers) + blind[x]
    BY DEF KeptOnce, Items
  <2>1. /\ kept[x] + Cardinality(About(x)) <= Cardinality(Handlers) + blind[x]
        /\ kept[x] \in Nat /\ blind[x] \in Nat
    BY DEF ServiceInv, KeptInv
  <2>2. Cardinality(About(x)) \in Nat /\ Cardinality(Handlers) \in Nat
    BY AboutFinite
  <2> QED
    BY <2>1, <2>2
<1> QED
  BY <1>1, ServiceInvariant, PTL

(* A reminder reaches only who was not reminded in the last day, unless    *)
(* that left no mark, and only who has stayed away until the scan began.   *)
THEOREM RemindedWhenDue == Spec => RemindersAreDue
<1>1. ASSUME ServiceInv, NEW u \in Absent, R!Push(u)
      PROVE  /\ reminded[u] > QuietFor \/ u \in unmarked
             /\ idle[u] > IdleAfter \/ u \in back
  <2>1. u \in scan
    BY <1>1 DEF R!Push
  <2> QED
    BY <1>1, <2>1, ServiceAssumption DEF ServiceInv, WorkerInv
<1>2. ServiceInv =>
        [\A u \in Absent : R!Push(u) /\ R!Reached(u) =>
           /\ reminded[u] > QuietFor \/ u \in unmarked
           /\ idle[u] > IdleAfter \/ u \in back]_vars
  BY <1>1
<1> QED
  BY <1>2, ServiceInvariant, PTL DEF RemindersAreDue
=============================================================================
