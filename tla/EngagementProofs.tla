-------------------------- MODULE EngagementProofs --------------------------
(***************************************************************************)
(* Proofs about Engagement, for any members, referees, handlers and        *)
(* milestones, any limit of the code and any number of days.               *)
(***************************************************************************)
EXTENDS Engagement, Sequences, FiniteSetTheorems, TLAPS

Streaks == [current : Nat, longest : Nat, last : Int]
Awards == [id : Sources \X Nat, user : Users, source : Sources, for : Int,
           key : {NoKey} \cup (Users \X Sources \X Moments), marked : BOOLEAN]
At(states) == {h \in Handlers : job[h].at \in states}

(* Streaks: each, and each that a login in progress has read or computed,  *)
(* is one the member's logins account for.                                 *)
Earned(s, today, days) ==
  /\ s \in Streaks /\ s.last <= today
  /\ s.last - s.current + 1 .. s.last \subseteq days
  /\ \E d \in 0..today : d - s.longest + 1 .. d \subseteq days

StreakInv ==
  /\ day \in Nat \ {0}
  /\ streak = [u \in Members |-> streak[u]]
  /\ logins \in [Members -> SUBSET Nat]
  /\ job = [h \in Handlers |-> job[h]]
  /\ \A u \in Members : Earned(streak[u], day, logins[u])
  /\ \A h \in At({"read"}) :
       job[h].user \in Members /\ Earned(job[h].old, day, logins[job[h].user])
  /\ \A h \in At({"write"}) :
       job[h].user \in Members /\ Earned(job[h].new, day, logins[job[h].user])

(* The code: a referral is counted, lost to the count, or about to be; and *)
(* a handler goes on only when it has read that the code is not used up.   *)
ReferInv ==
  /\ uses \in Nat /\ missed \in Nat /\ referred \subseteq Referees
  /\ job = [h \in Handlers |-> job[h]]
  /\ \A h \in At({"apply"}) : job[h].referee \in Referees
  /\ Cardinality(referred) = uses + missed + Cardinality(At({"count"}))
  /\ uses + Cardinality(At({"apply", "count"})) < MaxUses + Cardinality(Handlers)

(* Cashback: entries are told apart by their ids. One handler is at an     *)
(* entry; before its credit the entry has no key, after it one the wallet  *)
(* has credited.                                                           *)
Kept ==
  /\ entries \subseteq Awards /\ IsFiniteSet(entries)
  /\ \A e \in entries : \E n \in 1..Cardinality(Of(e.source)) : e.id = <<e.source, n>>
  /\ \A e, f \in entries : e.id = f.id => e = f

PayInv ==
  /\ Kept /\ MarkedWasPaid
  /\ paid \subseteq Users \X Sources \X Moments
  /\ job = [h \in Handlers |-> job[h]]
  /\ \A h \in At({"cashback"}) :
       job[h].user \in Users /\ job[h].source \in Sources /\ job[h].for \in Int
  /\ \A h \in At({"credit"}) : \E e \in entries : e.id = job[h].id /\ e.key = NoKey
  /\ \A h \in At({"mark"}) : \E e \in entries : e.id = job[h].id /\ e.key \in paid
  /\ \A g, h \in At({"credit", "mark"}) : job[g].id = job[h].id => g = h

(* The rewards of a user for a day: those entered; those owed, as the      *)
(* streak is written; and those a handler may come to owe. A stale login,  *)
(* of another day, can put the streak back, and let others earn again.     *)
Rewards(u, d) == {e \in entries : e.source = "streak" /\ e.user = u /\ e.for = d}

IsOwed(j, u, d) == j.at = "cashback" /\ j.source = "streak" /\ j.user = u /\ j.for = d
IsComing(j, u, d, today) ==
  /\ j.user = u
  /\ \/ j.at = "read" /\ today = d /\ j.old.last # d
     \/ j.at = "write" /\ j.new.last = d
IsStale(j, u, d) == j.at = "write" /\ j.user = u /\ j.new.last # d

Owed(u, d) == {h \in Handlers : IsOwed(job[h], u, d)}
Coming(u, d) == {h \in Handlers : IsComing(job[h], u, d, day)}
Stale(u, d) == {h \in Handlers : IsStale(job[h], u, d)}

(* Twice n + (n - 1) + ..., in k terms, where n handlers are served: what  *)
(* the handlers can earn between the writings of k stale logins.           *)
Served == Cardinality(Handlers)
Turns(k) == k * (2 * Served + 1 - k)

(* On the day itself: before the streak is written, all but the handlers   *)
(* with stale logins can earn; after it, those that have read it before;   *)
(* and each stale login that is written puts it back.                      *)
Before(a, o, s) == 2 * (a + o) + Turns(s + 1) <= Turns(Served)
After(a, o, c, s) == 2 * (a + o + c) + Turns(s) <= Turns(Served)

Budget(u, d) ==
  LET a == Cardinality(Rewards(u, d))
      o == Cardinality(Owed(u, d))
      c == Cardinality(Coming(u, d))
      s == Cardinality(Stale(u, d))
  IN
  /\ day < d => a = 0 /\ o = 0 /\ c = 0
  /\ day = d /\ streak[u].last # d => Before(a, o, s)
  /\ day = d /\ streak[u].last = d => After(a, o, c, s)
  /\ day > d => 2 * (a + o + c) <= Turns(Served)

RewardsInv == \A u \in Members, d \in 1..MaxDay : Budget(u, d)

-----------------------------------------------------------------------------
(* Most steps are one handler's, from one state to another.                *)
Moves(h, from, to) ==
  /\ job[h].at \in from
  /\ \E j : j.at \in to /\ job' = [job EXCEPT ![h] = j]

(* Where each step of a handler takes it, and what it has with it.         *)
LEMMA LoginMoves ==
  ASSUME NEW h \in Handlers
  PROVE  /\ \A u \in Members : ReadStreak(h, u) =>
              /\ job[h].at = "idle"
              /\ job' = [job EXCEPT ![h] = [at |-> "read", user |-> u, old |-> streak[u]]]
              /\ UNCHANGED <<day, streak, logins, uses, referred, missed, entries, paid>>
         /\ DecideStreak(h) =>
              /\ job[h].at = "read"
              /\ logins' = [logins EXCEPT ![job[h].user] = @ \cup {day}]
              /\ \/ job[h].old.last = day /\ job' = [job EXCEPT ![h] = NoJob]
                 \/ /\ job[h].old.last # day
                    /\ job' = [job EXCEPT ![h] = [at |-> "write", user |-> job[h].user,
                                                  new |-> Extended(job[h].old, day)]]
              /\ UNCHANGED <<day, streak, uses, referred, missed, entries, paid>>
         /\ WriteStreak(h) =>
              /\ job[h].at = "write"
              /\ \/ streak' = streak /\ job' = [job EXCEPT ![h] = NoJob]
                 \/ /\ streak' = [streak EXCEPT ![job[h].user] = job[h].new]
                    /\ \/ job' = [job EXCEPT ![h] = NoJob]
                       \/ job' = [job EXCEPT ![h] =
                            [at |-> "cashback", user |-> job[h].user,
                             source |-> "streak", for |-> job[h].new.last]]
              /\ UNCHANGED <<day, logins, uses, referred, missed, entries, paid>>
<1>1. ASSUME NEW u \in Members, ReadStreak(h, u)
      PROVE  /\ job[h].at = "idle"
             /\ job' = [job EXCEPT ![h] = [at |-> "read", user |-> u, old |-> streak[u]]]
             /\ UNCHANGED <<day, streak, logins, uses, referred, missed, entries, paid>>
  BY <1>1 DEF ReadStreak, Goto, streaks, referrals, money
<1> QED
  BY <1>1 DEF DecideStreak, WriteStreak, Goto, referrals, money

LEMMA CodeMoves ==
  ASSUME NEW h \in Handlers
  PROVE  /\ \A r \in Referees : ReadCode(h, r) =>
              /\ job[h].at = "idle" /\ uses < MaxUses
              /\ job' = [job EXCEPT ![h] = [at |-> "apply", referee |-> r]]
              /\ UNCHANGED <<uses, referred, missed>>
         /\ CreateReferral(h) =>
              /\ job[h].at = "apply"
              /\ \/ /\ job[h].referee \notin referred
                    /\ referred' = referred \cup {job[h].referee}
                    /\ \/ /\ job' = [job EXCEPT ![h] = [at |-> "count"]]
                          /\ missed' = missed
                       \/ job' = [job EXCEPT ![h] = NoJob] /\ missed' = missed + 1
                 \/ /\ job' = [job EXCEPT ![h] = NoJob]
                    /\ UNCHANGED <<referred, missed>>
              /\ uses' = uses
         /\ IncrementUses(h) =>
              /\ job[h].at = "count"
              /\ \/ uses' = uses + 1 /\ missed' = missed
                 \/ missed' = missed + 1 /\ uses' = uses
              /\ job' = [job EXCEPT ![h] =
                   [at |-> "cashback", user |-> Owner, source |-> "referral", for |-> 0]]
              /\ UNCHANGED referred
         /\ (\E r \in Referees : ReadCode(h, r)) \/ CreateReferral(h) \/ IncrementUses(h) =>
              UNCHANGED <<day, streak, logins, entries, paid>>
<1>1. ASSUME NEW r \in Referees, ReadCode(h, r)
      PROVE  /\ job[h].at = "idle" /\ uses < MaxUses
             /\ job' = [job EXCEPT ![h] = [at |-> "apply", referee |-> r]]
             /\ UNCHANGED <<day, streak, logins, uses, referred, missed, entries, paid>>
  BY <1>1 DEF ReadCode, Goto, streaks, referrals, money
<1>2. ASSUME CreateReferral(h) \/ IncrementUses(h)
      PROVE  UNCHANGED <<day, streak, logins, entries, paid>>
  BY <1>2 DEF CreateReferral, IncrementUses, streaks, money
<1> QED
  BY <1>1, <1>2 DEF CreateReferral, IncrementUses, Goto

LEMMA CashbackMoves ==
  ASSUME NEW h \in Handlers
  PROVE  /\ CreateEntry(h) =>
              /\ job[h].at = "cashback"
              /\ \/ job' = [job EXCEPT ![h] = [at |-> "credit", id |-> NextId(job[h].source)]]
                 \/ job' = [job EXCEPT ![h] = NoJob] /\ entries' = entries
              /\ UNCHANGED paid
         /\ CreditWallet(h) =>
              /\ job[h].at = "credit"
              /\ \/ job' = [job EXCEPT ![h] = [at |-> "mark", id |-> Entry(job[h].id).id]]
                 \/ job' = [job EXCEPT ![h] = NoJob] /\ UNCHANGED <<entries, paid>>
         /\ MarkCredited(h) =>
              /\ job[h].at = "mark" /\ job' = [job EXCEPT ![h] = NoJob]
              /\ UNCHANGED paid
         /\ CreateEntry(h) \/ CreditWallet(h) \/ MarkCredited(h) =>
              UNCHANGED <<day, streak, logins, uses, referred, missed>>
<1>1. ASSUME CreditWallet(h)
      PROVE  /\ job[h].at = "credit"
             /\ \/ job' = [job EXCEPT ![h] = [at |-> "mark", id |-> Entry(job[h].id).id]]
                \/ job' = [job EXCEPT ![h] = NoJob] /\ UNCHANGED <<entries, paid>>
             /\ UNCHANGED <<day, streak, logins, uses, referred, missed>>
  BY <1>1 DEF CreditWallet, Goto, streaks, referrals, money
<1>2. ASSUME CreateEntry(h)
      PROVE  /\ job[h].at = "cashback"
             /\ \/ job' = [job EXCEPT ![h] = [at |-> "credit", id |-> NextId(job[h].source)]]
                \/ job' = [job EXCEPT ![h] = NoJob] /\ entries' = entries
             /\ UNCHANGED <<paid, day, streak, logins, uses, referred, missed>>
  BY <1>2 DEF CreateEntry, Goto, streaks, referrals
<1>3. ASSUME MarkCredited(h)
      PROVE  /\ job[h].at = "mark" /\ job' = [job EXCEPT ![h] = NoJob]
             /\ UNCHANGED <<paid, day, streak, logins, uses, referred, missed>>
  BY <1>3 DEF MarkCredited, Goto, streaks, referrals
<1> QED
  BY <1>1, <1>2, <1>3

(* A login, and a cashback, stay clear of the code; the code and a cashback*)
(* stay clear of the streaks.                                              *)
Login(h) == (\E u \in Members : ReadStreak(h, u)) \/ DecideStreak(h) \/ WriteStreak(h)
Code(h) == (\E r \in Referees : ReadCode(h, r)) \/ CreateReferral(h) \/ IncrementUses(h)
Cashback(h) == CreateEntry(h) \/ CreditWallet(h) \/ MarkCredited(h)

LEMMA MovesApart ==
  ASSUME NEW h \in Handlers
  PROVE  /\ Login(h) => Moves(h, {"idle", "read", "write"}, {"idle", "read", "write", "cashback"})
         /\ Code(h) => Moves(h, {"idle", "apply", "count"}, {"idle", "apply", "count", "cashback"})
         /\ Cashback(h) =>
              Moves(h, {"cashback", "credit", "mark"}, {"idle", "credit", "mark"})
<1>1. Login(h) => Moves(h, {"idle", "read", "write"}, {"idle", "read", "write", "cashback"})
  BY LoginMoves DEF Login, Moves, NoJob
<1>2. Code(h) => Moves(h, {"idle", "apply", "count"}, {"idle", "apply", "count", "cashback"})
  BY CodeMoves DEF Code, Moves, NoJob
<1>3. Cashback(h) => Moves(h, {"cashback", "credit", "mark"}, {"idle", "credit", "mark"})
  <2>1. CreateEntry(h) => Moves(h, {"cashback", "credit", "mark"}, {"idle", "credit", "mark"})
    <3> DEFINE j == [at |-> "credit", id |-> NextId(job[h].source)]
    <3>1. j.at = "credit" /\ NoJob.at = "idle"
      BY DEF NoJob
    <3>2. CreateEntry(h) =>
            /\ job[h].at = "cashback"
            /\ job' = [job EXCEPT ![h] = j] \/ job' = [job EXCEPT ![h] = NoJob]
      BY CashbackMoves
    <3> HIDE DEF j
    <3> QED
      BY <3>1, <3>2 DEF Moves
  <2>2. CreditWallet(h) => Moves(h, {"cashback", "credit", "mark"}, {"idle", "credit", "mark"})
    BY CashbackMoves DEF Moves, NoJob
  <2>3. MarkCredited(h) => Moves(h, {"cashback", "credit", "mark"}, {"idle", "credit", "mark"})
    BY CashbackMoves DEF Moves, NoJob
  <2> QED
    BY <2>1, <2>2, <2>3 DEF Cashback
<1> QED
  BY <1>1, <1>2, <1>3

LEMMA NextSteps ==
  ASSUME [Next]_vars
  PROVE  \/ UNCHANGED vars \/ NextDay \/ Crash
         \/ \E h \in Handlers : Login(h) \/ Code(h) \/ Cashback(h)
BY DEF Next, Login, Code, Cashback

(* A streak stays earned: days pass, and logins are only added.            *)
LEMMA StaysEarned ==
  ASSUME NEW s, NEW t \in Nat, NEW l, Earned(s, t, l), NEW today \in Nat, t <= today,
         NEW days, l \subseteq days
  PROVE  Earned(s, today, days)
<1>1. \E d \in 0..today : d - s.longest + 1 .. d \subseteq days
  BY DEF Earned
<1> QED
  BY <1>1 DEF Earned, Streaks

LEMMA ExtendedEarned ==
  ASSUME NEW t \in Nat \ {0}, NEW l, NEW s, Earned(s, t, l)
  PROVE  Earned(Extended(s, t), t, l \cup {t})
<1> DEFINE new == Extended(s, t)
<1>1. s.current \in Nat /\ s.longest \in Nat /\ s.last \in Int
  BY DEF Earned, Streaks
<1>2. /\ new \in Streaks /\ new.last = t /\ new.current \in Nat
      /\ new.current = IF s.last = t - 1 THEN s.current + 1 ELSE 1
      /\ new.longest = IF new.current > s.longest THEN new.current ELSE s.longest
  BY <1>1 DEF Extended, Streaks
<1> HIDE DEF new
<1>3. new.last - new.current + 1 .. new.last \subseteq l \cup {t}
  <2> SUFFICES ASSUME NEW i \in new.last - new.current + 1 .. new.last PROVE i \in l \cup {t}
    OBVIOUS
  <2>1. i \in Int /\ t - new.current + 1 <= i /\ i <= t
    BY <1>2
  <2>2. CASE s.last = t - 1
    <3>1. new.current = s.current + 1
      BY <1>2, <2>2
    <3>2. i = t \/ i \in s.last - s.current + 1 .. s.last
      BY <1>1, <2>1, <2>2, <3>1
    <3> QED
      BY <3>2 DEF Earned
  <2>3. CASE s.last # t - 1
    BY <1>2, <2>1, <2>3
  <2> QED
    BY <2>2, <2>3
<1>4. \E d \in 0..t : d - new.longest + 1 .. d \subseteq l \cup {t}
  <2>1. CASE new.longest = new.current
    BY <1>2, <1>3, <2>1
  <2>2. CASE new.longest = s.longest
    BY <2>2 DEF Earned
  <2> QED
    BY <1>2, <2>1, <2>2
<1> QED
  BY <1>2, <1>3, <1>4 DEF Earned, new

LEMMA NextStreak == StreakInv /\ [Next]_vars => StreakInv'
<1> SUFFICES ASSUME StreakInv, [Next]_vars PROVE StreakInv'
  OBVIOUS
<1> USE DEF At
<1>1. CASE UNCHANGED vars
  BY <1>1 DEF vars, streaks, StreakInv
<1>2. CASE NextDay
  <2>1. day' = day + 1 /\ UNCHANGED <<streak, logins, job>> /\ day' \in Nat \ {0} /\ day <= day'
    BY <1>2 DEF NextDay, streaks, StreakInv
  <2>2. \A s, l : Earned(s, day, l) => Earned(s, day', l)
    BY <2>1, StaysEarned DEF StreakInv
  <2> QED
    BY <2>1, <2>2 DEF StreakInv
<1>3. CASE Crash
  BY <1>3 DEF Crash, NoJob, streaks, StreakInv
<1>4. ASSUME NEW h \in Handlers, NEW u \in Members, ReadStreak(h, u) PROVE StreakInv'
  <2>1. job' = [job EXCEPT ![h] = [at |-> "read", user |-> u, old |-> streak[u]]]
        /\ UNCHANGED <<day, streak, logins>>
    BY <1>4, LoginMoves
  <2> QED
    BY <2>1 DEF StreakInv
<1>5. ASSUME NEW h \in Handlers, DecideStreak(h) PROVE StreakInv'
  <2> DEFINE u == job[h].user
             new == Extended(job[h].old, day)
  <2>1. /\ job[h].at = "read" /\ UNCHANGED <<day, streak>>
        /\ logins' = [logins EXCEPT ![u] = @ \cup {day}]
        /\ \/ job' = [job EXCEPT ![h] = NoJob]
           \/ job' = [job EXCEPT ![h] = [at |-> "write", user |-> u, new |-> new]]
    BY <1>5, LoginMoves
  <2>2. u \in Members /\ Earned(job[h].old, day, logins[u])
    BY <2>1 DEF StreakInv
  <2>3. Earned(new, day, logins'[u])
    BY <2>1, <2>2, ExtendedEarned DEF StreakInv
  <2>4. /\ logins' \in [Members -> SUBSET Nat] /\ day \in Nat
        /\ \A v \in Members : logins[v] \subseteq logins'[v]
    BY <2>1, <2>2 DEF StreakInv
  <2>5. \A v \in Members : \A s : Earned(s, day, logins[v]) => Earned(s, day, logins'[v])
    BY <2>4, StaysEarned
  <2>6. \A v \in Members : Earned(streak[v], day, logins'[v])
    BY <2>5 DEF StreakInv
  <2> HIDE DEF u, new
  <2>7. \A g \in Handlers : job'[g].at = "read" => job[g].at = "read" /\ job'[g] = job[g]
    BY <2>1 DEF StreakInv, NoJob
  <2>8. \A g \in Handlers : job'[g].at = "write" =>
          \/ job[g].at = "write" /\ job'[g] = job[g]
          \/ job'[g].user = u /\ job'[g].new = new
    BY <2>1 DEF StreakInv, NoJob
  <2>9. job' = [g \in Handlers |-> job'[g]]
    BY <2>1 DEF StreakInv
  <2>10. \A g \in Handlers : job'[g].at = "read" =>
           job'[g].user \in Members /\ Earned(job'[g].old, day, logins'[job'[g].user])
    BY <2>5, <2>7 DEF StreakInv
  <2>11. \A g \in Handlers : job'[g].at = "write" =>
           job'[g].user \in Members /\ Earned(job'[g].new, day, logins'[job'[g].user])
    BY <2>2, <2>3, <2>5, <2>8 DEF StreakInv
  <2> QED
    BY <2>1, <2>4, <2>6, <2>9, <2>10, <2>11 DEF StreakInv
<1>6. ASSUME NEW h \in Handlers, WriteStreak(h) PROVE StreakInv'
  <2> DEFINE u == job[h].user
             new == job[h].new
  <2>1. /\ job[h].at = "write" /\ UNCHANGED <<day, logins>>
        /\ streak' = streak \/ streak' = [streak EXCEPT ![u] = new]
        /\ \/ job' = [job EXCEPT ![h] = NoJob]
           \/ job' = [job EXCEPT ![h] =
                [at |-> "cashback", user |-> u, source |-> "streak", for |-> new.last]]
    BY <1>6, LoginMoves
  <2>2. u \in Members /\ Earned(new, day, logins[u])
    BY <2>1 DEF StreakInv
  <2>3. /\ streak' = [v \in Members |-> streak'[v]]
        /\ \A v \in Members : Earned(streak'[v], day, logins[v])
    BY <2>1, <2>2 DEF StreakInv
  <2> HIDE DEF u, new
  <2> QED
    BY <2>1, <2>3 DEF StreakInv, NoJob
<1>7. ASSUME NEW h \in Handlers, Code(h) \/ Cashback(h) PROVE StreakInv'
  <2>1. UNCHANGED <<day, streak, logins>>
    BY <1>7, CodeMoves, CashbackMoves DEF Code, Cashback
  <2>2. PICK j : /\ j.at \in {"idle", "apply", "count", "cashback", "credit", "mark"}
                 /\ job' = [job EXCEPT ![h] = j]
    BY <1>7, MovesApart DEF Moves
  <2> QED
    BY <2>1, <2>2 DEF StreakInv
<1> QED
  BY <1>1, <1>2, <1>3, <1>4, <1>5, <1>6, <1>7, NextSteps DEF Login

LEMMA InitStreak == Init => StreakInv
<1> SUFFICES ASSUME Init PROVE StreakInv
  OBVIOUS
<1>1. Earned([current |-> 0, longest |-> 0, last |-> -1], 1, {})
  BY DEF Earned, Streaks
<1> QED
  BY <1>1 DEF Init, StreakInv, NoJob, At

(* A streak is never longer than the days in a row its member has logged   *)
(* in, however the logins of any number of handlers overlap and fail.      *)
THEOREM StreaksAreEarned == Spec => []StreakEarned
<1>1. StreakInv => StreakEarned
  BY DEF StreakInv, StreakEarned, Earned
<1> QED
  BY <1>1, InitStreak, NextStreak, PTL DEF Spec
-----------------------------------------------------------------------------
(* How many handlers are in a set of them, when one handler has moved.     *)
LEMMA OneMoves ==
  ASSUME NEW S \in SUBSET Handlers, NEW T \in SUBSET Handlers, NEW h \in Handlers,
         T \ {h} = S \ {h}
  PROVE  /\ Cardinality(S) \in Nat /\ Cardinality(T) \in Nat
         /\ Cardinality(S) <= Served /\ Cardinality(T) <= Served /\ Served \in Nat
         /\ h \notin S /\ h \in T => Cardinality(T) = Cardinality(S) + 1
         /\ h \in S /\ h \notin T => Cardinality(T) = Cardinality(S) - 1
         /\ (h \in S <=> h \in T) => Cardinality(T) = Cardinality(S)
<1>1. IsFiniteSet(S) /\ IsFiniteSet(T) /\ IsFiniteSet(Handlers)
  BY EngagementAssumption, FS_Subset
<1>2. /\ Cardinality(S) \in Nat /\ Cardinality(T) \in Nat /\ Served \in Nat
      /\ Cardinality(S) <= Served /\ Cardinality(T) <= Served
  BY <1>1, FS_CardinalityType, FS_Subset DEF Served
<1>3. ASSUME h \notin S, h \in T PROVE Cardinality(T) = Cardinality(S) + 1
  <2>1. T = S \cup {h}
    BY <1>3
  <2> QED
    BY <1>1, <1>3, <2>1, FS_AddElement
<1>4. ASSUME h \in S, h \notin T PROVE Cardinality(T) = Cardinality(S) - 1
  <2>1. T = S \ {h}
    BY <1>4
  <2> QED
    BY <1>1, <1>4, <2>1, FS_RemoveElement
<1>5. ASSUME h \in S <=> h \in T PROVE S = T
  BY <1>5
<1> QED
  BY <1>2, <1>3, <1>4, <1>5

LEMMA InitRefer == Init => ReferInv
<1> SUFFICES ASSUME Init PROVE ReferInv
  OBVIOUS
<1>1. At({"count"}) = {} /\ At({"apply"}) = {} /\ At({"apply", "count"}) = {}
  BY DEF Init, NoJob, At
<1>2. Cardinality(Handlers) \in Nat /\ Cardinality(Handlers) # 0
  BY EngagementAssumption, FS_CardinalityType, FS_EmptySet
<1>3. Cardinality({}) = 0 /\ MaxUses \in Nat
  BY FS_EmptySet, EngagementAssumption
<1>4. /\ uses = 0 /\ referred = {} /\ missed = 0
      /\ job = [h \in Handlers |-> job[h]]
  BY DEF Init
<1> QED
  BY <1>1, <1>2, <1>3, <1>4 DEF ReferInv

LEMMA MoveCounts ==
  ASSUME NEW h \in Handlers, \A g \in Handlers : g # h => job'[g] = job[g],
         NEW states
  PROVE  LET n == Cardinality(At(states))  m == Cardinality(At(states)') IN
         /\ n \in Nat /\ m \in Nat /\ n <= Served /\ m <= Served
         /\ job[h].at \notin states /\ job'[h].at \in states => m = n + 1
         /\ job[h].at \in states /\ job'[h].at \notin states => m = n - 1
         /\ (job[h].at \in states <=> job'[h].at \in states) => m = n
<1>1. /\ At(states) \in SUBSET Handlers /\ At(states)' \in SUBSET Handlers
      /\ At(states)' \ {h} = At(states) \ {h}
      /\ h \in At(states) <=> job[h].at \in states
      /\ h \in At(states)' <=> job'[h].at \in states
  BY DEF At
<1> QED
  BY <1>1, OneMoves

LEMMA NextRefer == ReferInv /\ [Next]_vars => ReferInv'
<1> SUFFICES ASSUME ReferInv, [Next]_vars PROVE ReferInv'
  OBVIOUS
<1> DEFINE Busy == At({"apply", "count"})
           Counting == At({"count"})
<1>0. /\ MaxUses \in Nat /\ Served \in Nat /\ IsFiniteSet(referred)
      /\ Cardinality(Busy) \in Nat /\ Cardinality(Counting) \in Nat
  <2>1. Busy \in SUBSET Handlers /\ Counting \in SUBSET Handlers
    BY DEF At
  <2> QED
    BY <2>1, EngagementAssumption, FS_Subset, FS_CardinalityType DEF ReferInv, Served
(* A handler that is not at the code leaves the counts alone.              *)
<1>1. ASSUME NEW h \in Handlers, UNCHANGED referrals,
             Moves(h, {"idle", "read", "write", "cashback", "credit", "mark"},
                   {"idle", "read", "write", "cashback", "credit", "mark"})
      PROVE  ReferInv'
  <2>1. PICK j : /\ j.at \in {"idle", "read", "write", "cashback", "credit", "mark"}
                 /\ job' = [job EXCEPT ![h] = j]
    BY <1>1 DEF Moves
  <2>2. /\ \A g \in Handlers : g # h => job'[g] = job[g]
        /\ job'[h] = j /\ job' = [g \in Handlers |-> job'[g]]
    BY <2>1 DEF ReferInv
  <2>3. Cardinality(Busy') = Cardinality(Busy) /\ Cardinality(Counting') = Cardinality(Counting)
    BY <1>1, <2>1, <2>2, MoveCounts DEF Moves
  <2>4. \A g \in At({"apply"})' : job'[g].referee \in Referees
    BY <2>1, <2>2 DEF ReferInv, At
  <2> QED
    BY <1>1, <2>2, <2>3, <2>4 DEF ReferInv, referrals
<1>2. CASE UNCHANGED vars
  BY <1>2 DEF vars, referrals, ReferInv, At
<1>3. CASE NextDay
  BY <1>3 DEF NextDay, referrals, ReferInv, At
<1>4. CASE Crash
  <2>1. /\ job' = [h \in Handlers |-> NoJob] /\ UNCHANGED <<uses, referred>>
        /\ missed' = missed + Cardinality(Counting)
    BY <1>4 DEF Crash, At
  <2>2. Busy' = {} /\ Counting' = {} /\ At({"apply"})' = {}
    BY <2>1 DEF At, NoJob
  <2>3. Cardinality(Busy') = 0 /\ Cardinality(Counting') = 0
    BY <2>2, FS_EmptySet
  <2> QED
    BY <1>0, <2>1, <2>2, <2>3 DEF ReferInv, Served
<1>5. ASSUME NEW h \in Handlers, NEW r \in Referees, ReadCode(h, r) PROVE ReferInv'
  <2>1. /\ job[h].at = "idle" /\ uses < MaxUses /\ UNCHANGED <<uses, missed, referred>>
        /\ job' = [job EXCEPT ![h] = [at |-> "apply", referee |-> r]]
    BY <1>5, CodeMoves
  <2>2. /\ \A g \in Handlers : g # h => job'[g] = job[g]
        /\ job'[h] = [at |-> "apply", referee |-> r] /\ job' = [g \in Handlers |-> job'[g]]
    BY <2>1 DEF ReferInv
  <2>3. /\ Cardinality(Busy') <= Served /\ Cardinality(Busy') \in Nat
        /\ Cardinality(Counting') = Cardinality(Counting)
    BY <2>1, <2>2, MoveCounts
  <2>4. \A g \in At({"apply"})' : job'[g].referee \in Referees
    BY <2>1, <2>2 DEF ReferInv, At
  <2> QED
    BY <1>0, <2>1, <2>2, <2>3, <2>4 DEF ReferInv, Served
<1>6. ASSUME NEW h \in Handlers, CreateReferral(h) PROVE ReferInv'
  <2>1. /\ job[h].at = "apply" /\ uses' = uses
        /\ \/ /\ job[h].referee \notin referred
              /\ referred' = referred \cup {job[h].referee}
              /\ \/ job' = [job EXCEPT ![h] = [at |-> "count"]] /\ missed' = missed
                 \/ job' = [job EXCEPT ![h] = NoJob] /\ missed' = missed + 1
           \/ /\ job' = [job EXCEPT ![h] = NoJob]
              /\ UNCHANGED <<referred, missed>>
    BY <1>6, CodeMoves
  <2>2. /\ \A g \in Handlers : g # h => job'[g] = job[g]
        /\ job' = [g \in Handlers |-> job'[g]]
    BY <2>1 DEF ReferInv
  <2>3. \A g \in At({"apply"})' : job'[g].referee \in Referees
    BY <2>1, <2>2 DEF ReferInv, At, NoJob
  <2>4. CASE /\ referred' = referred \cup {job[h].referee}
             /\ job[h].referee \notin referred
             /\ \/ job'[h].at = "count" /\ missed' = missed
                \/ job'[h].at = "idle" /\ missed' = missed + 1
    <3>1. \/ /\ Cardinality(Busy') = Cardinality(Busy)
             /\ Cardinality(Counting') = Cardinality(Counting) + 1
             /\ missed' = missed
          \/ /\ Cardinality(Busy') = Cardinality(Busy) - 1
             /\ Cardinality(Counting') = Cardinality(Counting)
             /\ missed' = missed + 1
      BY <2>1, <2>2, <2>4, MoveCounts
    <3>2. Cardinality(referred') = Cardinality(referred) + 1
      BY <1>0, <2>4, FS_AddElement
    <3>3. job[h].referee \in Referees
      BY <2>1 DEF ReferInv, At
    <3>4. /\ Cardinality(referred') = uses' + missed' + Cardinality(Counting')
          /\ uses' + Cardinality(Busy') < MaxUses + Served
      BY <1>0, <2>1, <3>1, <3>2 DEF ReferInv, Served
    <3>5. missed' \in Nat /\ referred' \subseteq Referees
      BY <2>4, <3>3 DEF ReferInv
    <3> QED
      BY <2>1, <2>2, <2>3, <3>4, <3>5 DEF ReferInv, Served
  <2>5. CASE UNCHANGED <<referred, missed>> /\ job'[h].at = "idle"
    <3>1. /\ Cardinality(Busy') = Cardinality(Busy) - 1
          /\ Cardinality(Counting') = Cardinality(Counting)
      BY <2>1, <2>2, <2>5, MoveCounts
    <3> QED
      BY <1>0, <2>1, <2>2, <2>3, <2>5, <3>1 DEF ReferInv, Served
  <2> QED
    BY <2>1, <2>4, <2>5 DEF ReferInv, NoJob
<1>7. ASSUME NEW h \in Handlers, IncrementUses(h) PROVE ReferInv'
  <2>1. /\ job[h].at = "count" /\ UNCHANGED referred
        /\ \/ uses' = uses + 1 /\ missed' = missed
           \/ missed' = missed + 1 /\ uses' = uses
        /\ job' = [job EXCEPT ![h] =
             [at |-> "cashback", user |-> Owner, source |-> "referral", for |-> 0]]
    BY <1>7, CodeMoves
  <2>2. /\ \A g \in Handlers : g # h => job'[g] = job[g]
        /\ job'[h].at = "cashback" /\ job' = [g \in Handlers |-> job'[g]]
    BY <2>1 DEF ReferInv
  <2>3. /\ Cardinality(Busy') = Cardinality(Busy) - 1
        /\ Cardinality(Counting') = Cardinality(Counting) - 1
    BY <2>1, <2>2, MoveCounts
  <2>4. \A g \in At({"apply"})' : job'[g].referee \in Referees
    BY <2>1, <2>2 DEF ReferInv, At
  <2> QED
    BY <1>0, <2>1, <2>2, <2>3, <2>4 DEF ReferInv, Served
<1>8. ASSUME NEW h \in Handlers, Login(h) \/ Cashback(h) PROVE ReferInv'
  <2>1. UNCHANGED referrals
    BY <1>8, LoginMoves, CashbackMoves DEF Login, Cashback, referrals
  <2>2. Moves(h, {"idle", "read", "write", "cashback", "credit", "mark"},
              {"idle", "read", "write", "cashback", "credit", "mark"})
    BY <1>8, MovesApart DEF Moves
  <2> QED
    BY <1>1, <2>1, <2>2
<1> QED
  BY <1>2, <1>3, <1>4, <1>5, <1>6, <1>7, <1>8, NextSteps DEF Code

(* A code refers no more than it may, but for those who read it at once    *)
(* and the referrals whose count failed.                                   *)
THEOREM CodeIsLimited == Spec => []ReferralsBounded
<1>1. ReferInv => ReferralsBounded
  <2> SUFFICES ASSUME ReferInv PROVE ReferralsBounded
    OBVIOUS
  <2>1. /\ At({"count"}) \in SUBSET At({"apply", "count"})
        /\ At({"apply", "count"}) \in SUBSET Handlers
    BY DEF At
  <2>2. IsFiniteSet(At({"apply", "count"}))
    BY <2>1, EngagementAssumption, FS_Subset
  <2>3. /\ Cardinality(At({"count"})) <= Cardinality(At({"apply", "count"}))
        /\ Cardinality(At({"count"})) \in Nat /\ Cardinality(At({"apply", "count"})) \in Nat
        /\ Cardinality(Handlers) \in Nat /\ MaxUses \in Nat
    BY <2>1, <2>2, EngagementAssumption, FS_Subset, FS_CardinalityType
  <2> QED
    BY <2>3 DEF ReferInv, ReferralsBounded
<1> QED
  BY <1>1, InitRefer, NextRefer, PTL DEF Spec
-----------------------------------------------------------------------------
LEMMA NoKeyIsFree == NoKey \notin Users \X Sources \X Moments
<1> SUFFICES ASSUME NEW k \in Users \X Sources \X Moments, k = NoKey PROVE FALSE
  OBVIOUS
<1>1. Len(k) = 3 /\ Len(NoKey) = 0
  BY DEF NoKey
<1> QED
  BY <1>1

LEMMA OfFinite ==
  ASSUME Kept, NEW s
  PROVE  IsFiniteSet(Of(s)) /\ Cardinality(Of(s)) \in Nat
<1>1. Of(s) \in SUBSET entries
  BY DEF Of
<1> QED
  BY <1>1, FS_Subset, FS_CardinalityType DEF Kept

(* A new entry has an id that none had.                                    *)
LEMMA AddKeeps ==
  ASSUME Kept, NEW e \in Awards, e.id = NextId(e.source), entries' = entries \cup {e}
  PROVE  Kept' /\ (\A f \in entries : f.id # e.id)
<1> DEFINE n == Cardinality(Of(e.source))
<1>1. IsFiniteSet(Of(e.source)) /\ n \in Nat
  BY OfFinite
<1>2. \A f \in entries : f.id # e.id
  <2> SUFFICES ASSUME NEW f \in entries, f.id = e.id PROVE FALSE
    OBVIOUS
  <2>1. PICK i \in 1..Cardinality(Of(f.source)) : f.id = <<f.source, i>>
    BY DEF Kept
  <2>2. f.source = e.source /\ i = n + 1
    BY <2>1 DEF NextId
  <2> QED
    BY <1>1, <2>1, <2>2
<1>3. Of(e.source)' = Of(e.source) \cup {e} /\ e \notin Of(e.source)
  BY <1>2 DEF Of
<1>4. Cardinality(Of(e.source)') = n + 1
  BY <1>1, <1>3, FS_AddElement
<1>5. \A s : s # e.source => Of(s)' = Of(s)
  BY DEF Of
<1>6. ASSUME NEW f \in entries'
      PROVE  \E i \in 1..Cardinality(Of(f.source)') : f.id = <<f.source, i>>
  <2>1. CASE f = e
    BY <1>1, <1>4, <2>1 DEF NextId
  <2>2. CASE f # e
    <3>1. PICK i \in 1..Cardinality(Of(f.source)) : f.id = <<f.source, i>>
      BY <2>2 DEF Kept
    <3>2. i \in 1..Cardinality(Of(f.source)')
      BY <1>1, <1>4, <1>5, <3>1
    <3> QED
      BY <3>1, <3>2
  <2> QED
    BY <2>1, <2>2
<1>7. IsFiniteSet(entries')
  BY FS_AddElement DEF Kept
<1>8. entries' \subseteq Awards /\ \A f, g \in entries' : f.id = g.id => f = g
  BY <1>2 DEF Kept
<1> QED
  BY <1>2, <1>6, <1>7, <1>8 DEF Kept

(* An entry that is updated stays where it is.                             *)
LEMMA ChangeKeeps ==
  ASSUME Kept, NEW e \in entries, NEW f \in Awards, f.id = e.id, f.source = e.source,
         Change(e, f)
  PROVE  Kept' /\ entries' = (entries \ {e}) \cup {f}
<1>1. entries' = (entries \ {e}) \cup {f} /\ (f \in entries => f = e)
  BY DEF Change, Kept
<1>2. ASSUME NEW s PROVE Cardinality(Of(s)') = Cardinality(Of(s))
  <2>1. CASE e.source = s
    <3>1. Of(s)' = (Of(s) \ {e}) \cup {f} /\ e \in Of(s) /\ f \notin Of(s) \ {e}
      BY <1>1, <2>1 DEF Of
    <3>2. IsFiniteSet(Of(s)) /\ Cardinality(Of(s)) \in Nat
      BY OfFinite
    <3>3. IsFiniteSet(Of(s) \ {e}) /\ Cardinality(Of(s) \ {e}) = Cardinality(Of(s)) - 1
      BY <3>1, <3>2, FS_RemoveElement
    <3>4. Cardinality((Of(s) \ {e}) \cup {f}) = Cardinality(Of(s) \ {e}) + 1
      BY <3>1, <3>3, FS_AddElement
    <3> QED
      BY <3>1, <3>2, <3>3, <3>4
  <2>2. CASE e.source # s
    <3>1. Of(s)' = Of(s)
      BY <1>1, <2>2 DEF Of
    <3> QED
      BY <3>1
  <2> QED
    BY <2>1, <2>2
<1>3. ASSUME NEW g \in entries'
      PROVE  \E n \in 1..Cardinality(Of(g.source)') : g.id = <<g.source, n>>
  <2>1. \E n \in 1..Cardinality(Of(g.source)) : g.id = <<g.source, n>>
    BY <1>1 DEF Kept
  <2> QED
    BY <1>2, <2>1
<1>4. IsFiniteSet(entries')
  BY <1>1, FS_AddElement, FS_RemoveElement DEF Kept
<1>5. entries' \subseteq Awards /\ \A g, i \in entries' : g.id = i.id => g = i
  BY <1>1 DEF Kept
<1> QED
  BY <1>1, <1>3, <1>4, <1>5 DEF Kept

LEMMA PayStill ==
  ASSUME PayInv, UNCHANGED <<entries, paid>>, job' = [g \in Handlers |-> job'[g]],
         \A g \in Handlers : job'[g] = job[g] \/ job'[g].at = "idle"
  PROVE  PayInv'
<1>1. Kept' /\ MarkedWasPaid'
  BY DEF PayInv, Kept, Of, MarkedWasPaid
<1> QED
  BY <1>1 DEF PayInv, At

(* The steps that keep the entries and the wallet as they are.             *)
LEMMA PayAside ==
  ASSUME PayInv, StreakInv, [Next]_vars,
         \/ UNCHANGED vars \/ NextDay \/ Crash
         \/ \E h \in Handlers : Login(h) \/ Code(h)
  PROVE  PayInv'
<1> USE DEF At
<1>1. CASE UNCHANGED vars \/ NextDay \/ Crash
  <2>1. /\ UNCHANGED <<entries, paid>>
        /\ job' = job \/ job' = [h \in Handlers |-> NoJob]
    BY <1>1 DEF vars, NextDay, Crash, money
  <2>2. /\ job' = [g \in Handlers |-> job'[g]]
        /\ \A g \in Handlers : job'[g] = job[g] \/ job'[g].at = "idle"
    BY <2>1 DEF PayInv, NoJob
  <2> QED
    BY <2>1, <2>2, PayStill
<1>2. ASSUME NEW h \in Handlers, Login(h) \/ Code(h) PROVE PayInv'
  <2>1. UNCHANGED <<entries, paid>>
    BY <1>2, LoginMoves, CodeMoves DEF Login, Code
  <2>2. PICK j : /\ j.at \in {"idle", "read", "write", "apply", "count", "cashback"}
                 /\ job' = [job EXCEPT ![h] = j]
    BY <1>2, MovesApart DEF Moves
  <2>3. /\ \A g \in Handlers : g # h => job'[g] = job[g]
        /\ job'[h] = j /\ job' = [g \in Handlers |-> job'[g]]
    BY <2>2 DEF PayInv
  <2>4. j.at = "cashback" => j.user \in Users /\ j.source \in Sources /\ j.for \in Int
    <3>1. ASSUME Login(h), j.at = "cashback"
          PROVE  j.user \in Users /\ j.source \in Sources /\ j.for \in Int
      <4>1. /\ job[h].at = "write"
            /\ j = [at |-> "cashback", user |-> job[h].user, source |-> "streak",
                    for |-> job[h].new.last]
        BY <2>3, <3>1, LoginMoves DEF Login, PayInv, NoJob
      <4>2. job[h].user \in Members /\ job[h].new.last \in Int
        BY <4>1 DEF StreakInv, Earned, Streaks
      <4> QED
        BY <4>1, <4>2 DEF Users, Sources
    <3>2. ASSUME Code(h), j.at = "cashback"
          PROVE  j.user \in Users /\ j.source \in Sources /\ j.for \in Int
      <4>1. j = [at |-> "cashback", user |-> Owner, source |-> "referral", for |-> 0]
        BY <2>3, <3>2, CodeMoves DEF Code, PayInv, NoJob
      <4> QED
        BY <4>1 DEF Users, Sources
    <3> QED
      BY <1>2, <3>1, <3>2
  <2>5. Kept' /\ MarkedWasPaid'
    BY <2>1 DEF PayInv, Kept, Of, MarkedWasPaid
  <2> QED
    BY <2>1, <2>2, <2>3, <2>4, <2>5 DEF PayInv
<1> QED
  BY <1>1, <1>2

LEMMA PayEntry == ASSUME PayInv, NEW h \in Handlers, CreateEntry(h) PROVE PayInv'
<1> USE DEF At
<1> DEFINE e == [id |-> NextId(job[h].source), user |-> job[h].user,
                 source |-> job[h].source, for |-> job[h].for,
                 key |-> NoKey, marked |-> FALSE]
<1>1. /\ job[h].at = "cashback" /\ paid' = paid
      /\ \/ entries' = entries \cup {e} /\ job' = [job EXCEPT ![h] = [at |-> "credit", id |-> e.id]]
         \/ entries' = entries /\ job' = [job EXCEPT ![h] = NoJob]
  BY DEF CreateEntry, Goto
<1>2. /\ \A g \in Handlers : g # h => job'[g] = job[g]
      /\ job' = [g \in Handlers |-> job'[g]]
  BY <1>1 DEF PayInv
<1>3. CASE entries' = entries /\ job'[h] = NoJob
  BY <1>1, <1>2, <1>3, PayStill DEF NoJob
<1>4. CASE entries' = entries \cup {e} /\ job'[h] = [at |-> "credit", id |-> e.id]
  <2>1. e \in Awards
    <3>1. NextId(job[h].source) \in Sources \X Nat
      BY <1>1, OfFinite DEF PayInv, NextId
    <3> QED
      BY <1>1, <3>1 DEF PayInv, Awards
  <2>2. e.id = NextId(e.source) /\ e.key = NoKey /\ e.marked = FALSE
    OBVIOUS
  <2> HIDE DEF e
  <2>3. Kept' /\ \A f \in entries : f.id # e.id
    BY <1>4, <2>1, <2>2, AddKeeps DEF PayInv
  <2>4. MarkedWasPaid'
    BY <1>1, <1>4, <2>2 DEF PayInv, MarkedWasPaid
  <2>5. /\ job'[h].at = "credit" /\ job'[h].id = e.id /\ e \in entries'
        /\ \A f \in entries : f \in entries'
    BY <1>4
  <2>6. ASSUME NEW g \in Handlers, job[g].at \in {"credit", "mark"} PROVE job[g].id # e.id
    BY <2>3, <2>6 DEF PayInv
  <2> QED
    BY <1>1, <1>2, <2>2, <2>3, <2>4, <2>5, <2>6 DEF PayInv
<1> QED
  BY <1>1, <1>3, <1>4 DEF PayInv

(* The entry a handler is at.                                              *)
LEMMA EntryIs ==
  ASSUME Kept, NEW e \in entries
  PROVE  Entry(e.id) = e
BY DEF Entry, Kept

LEMMA PayCredit == ASSUME PayInv, NEW h \in Handlers, CreditWallet(h) PROVE PayInv'
<1> USE DEF At
<1>1. job[h].at = "credit"
  BY DEF CreditWallet
<1>2. PICK e \in entries : e.id = job[h].id /\ e.key = NoKey
  BY <1>1 DEF PayInv
<1>3. Entry(job[h].id) = e /\ e \in Awards
  BY <1>2, EntryIs DEF PayInv, Kept
<1>4. CASE job' = [job EXCEPT ![h] = NoJob] /\ UNCHANGED <<entries, paid>>
  BY <1>4 DEF PayInv, Kept, Of, MarkedWasPaid, NoJob
<1>5. ASSUME NEW m \in Moments,
             paid' = paid \cup {<<e.user, e.source, m>>},
             Change(e, [e EXCEPT !.key = <<e.user, e.source, m>>]),
             job' = [job EXCEPT ![h] = [at |-> "mark", id |-> e.id]]
      PROVE  PayInv'
  <2> DEFINE k == <<e.user, e.source, m>>
             f == [e EXCEPT !.key = k]
  <2>1. /\ k \in Users \X Sources \X Moments
        /\ f \in Awards /\ f.id = e.id /\ f.source = e.source /\ f.key = k
        /\ f.marked = e.marked
    BY <1>3 DEF Awards
  <2> HIDE DEF k, f
  <2>2. Kept' /\ entries' = (entries \ {e}) \cup {f}
    BY <1>5, <2>1, ChangeKeeps DEF PayInv, k, f
  <2>3. paid' = paid \cup {k} /\ paid' \subseteq Users \X Sources \X Moments
    BY <1>5, <2>1 DEF PayInv, k
  <2>4. e.key \notin paid
    BY <1>2, NoKeyIsFree DEF PayInv
  <2>5. MarkedWasPaid'
    BY <2>1, <2>2, <2>3, <2>4 DEF PayInv, MarkedWasPaid
  <2>6. /\ \A g \in Handlers : g # h => job'[g] = job[g]
        /\ job' = [g \in Handlers |-> job'[g]]
        /\ job'[h].at = "mark" /\ job'[h].id = e.id
    BY <1>5 DEF PayInv
  <2>7. \A g \in Handlers : g # h /\ job[g].at \in {"credit", "mark"} => job[g].id # e.id
    BY <1>1, <1>2 DEF PayInv
  <2>8. \A i \in entries : i.id # e.id => i \in entries'
    BY <2>2
  <2>9. f \in entries' /\ f.key \in paid' /\ f.id = e.id
    BY <2>1, <2>2, <2>3
  <2>10. \A g \in At({"credit"})' : \E i \in entries' : i.id = job'[g].id /\ i.key = NoKey
    BY <2>6, <2>7, <2>8 DEF PayInv
  <2>11. \A g \in At({"mark"})' : \E i \in entries' : i.id = job'[g].id /\ i.key \in paid'
    BY <2>3, <2>6, <2>7, <2>8, <2>9 DEF PayInv
  <2>12. \A g, i \in At({"credit", "mark"})' : job'[g].id = job'[i].id => g = i
    BY <1>1, <1>2, <2>6, <2>7 DEF PayInv
  <2> QED
    BY <2>2, <2>3, <2>5, <2>6, <2>10, <2>11, <2>12 DEF PayInv
<1> QED
  BY <1>3, <1>4, <1>5 DEF CreditWallet, Goto, money

LEMMA PayMark == ASSUME PayInv, NEW h \in Handlers, MarkCredited(h) PROVE PayInv'
<1> USE DEF At
<1>1. job[h].at = "mark"
  BY DEF MarkCredited
<1>2. PICK e \in entries : e.id = job[h].id /\ e.key \in paid
  BY <1>1 DEF PayInv
<1>3. Entry(job[h].id) = e /\ e \in Awards
  BY <1>2, EntryIs DEF PayInv, Kept
<1> DEFINE f == [e EXCEPT !.marked = TRUE]
<1>4. /\ Change(e, f) \/ entries' = entries
      /\ job' = [job EXCEPT ![h] = NoJob] /\ paid' = paid
  BY <1>3 DEF MarkCredited, Goto
<1>5. f \in Awards /\ f.id = e.id /\ f.source = e.source /\ f.key = e.key
  BY <1>3 DEF Awards
<1> HIDE DEF f
<1>6. CASE entries' = entries
  BY <1>4, <1>6 DEF PayInv, Kept, Of, MarkedWasPaid, NoJob
<1>7. CASE Change(e, f)
  <2>1. Kept' /\ entries' = (entries \ {e}) \cup {f}
    BY <1>5, <1>7, ChangeKeeps DEF PayInv
  <2>2. MarkedWasPaid'
    BY <1>2, <1>4, <1>5, <2>1 DEF PayInv, MarkedWasPaid
  <2>3. /\ \A g \in Handlers : g # h => job'[g] = job[g]
        /\ job' = [g \in Handlers |-> job'[g]] /\ job'[h].at = "idle"
    BY <1>4 DEF PayInv, NoJob
  <2>4. \A i \in entries : \E j \in entries' : j.id = i.id /\ j.key = i.key
    BY <1>5, <2>1
  <2>5. \A g \in Handlers : job'[g].at = "idle" \/ job'[g] = job[g]
    BY <2>3
  <2>6. \A g \in At({"credit"})' : \E j \in entries' : j.id = job'[g].id /\ j.key = NoKey
    BY <2>4, <2>5 DEF PayInv
  <2>7. \A g \in At({"mark"})' : \E j \in entries' : j.id = job'[g].id /\ j.key \in paid'
    <3> SUFFICES ASSUME NEW g \in Handlers, job'[g].at = "mark"
                 PROVE  \E j \in entries' : j.id = job'[g].id /\ j.key \in paid'
      OBVIOUS
    <3>1. job'[g] = job[g]
      BY <2>5
    <3>2. PICK i \in entries : i.id = job[g].id /\ i.key \in paid
      BY <3>1 DEF PayInv
    <3> QED
      BY <1>4, <2>4, <3>1, <3>2
  <2> QED
    BY <1>4, <2>1, <2>2, <2>3, <2>5, <2>6, <2>7 DEF PayInv
<1> QED
  BY <1>4, <1>6, <1>7

LEMMA InitPay == Init => PayInv
BY FS_EmptySet DEF Init, PayInv, Kept, MarkedWasPaid, NoJob, At

LEMMA NextPay == StreakInv /\ PayInv /\ [Next]_vars => PayInv'
BY NextSteps, PayAside, PayEntry, PayCredit, PayMark DEF Cashback

(* Cashback marked as credited was credited under its own key, and the     *)
(* wallet credits none that was not entered, whatever fails or crashes.    *)
THEOREM MarkedIsPaid == Spec => []MarkedWasPaid
<1>1. Init => StreakInv /\ PayInv
  BY InitStreak, InitPay
<1>2. (StreakInv /\ PayInv) /\ [Next]_vars => (StreakInv /\ PayInv)'
  BY NextStreak, NextPay
<1>3. PayInv => MarkedWasPaid
  BY DEF PayInv
<1> QED
  BY <1>1, <1>2, <1>3, PTL DEF Spec

-----------------------------------------------------------------------------
LEMMA ServedType == Served \in Nat \ {0} /\ Turns(Served) \in Nat
<1>1. Served \in Nat \ {0}
  BY EngagementAssumption, FS_CardinalityType, FS_EmptySet DEF Served
<1>2. Turns(Served) = Served * (Served + 1)
  BY <1>1 DEF Turns
<1> QED
  BY <1>1, <1>2

LEMMA TurnsGrow ==
  ASSUME NEW k \in 0..Served
  PROVE  /\ Served \in Nat \ {0} /\ Turns(Served) = Served * (Served + 1)
         /\ Turns(k) \in Nat /\ Turns(k + 1) = Turns(k) + 2 * (Served - k)
         /\ Turns(k) <= Turns(Served) /\ Turns(k + 1) <= Turns(Served)
<1>1. Served \in Nat /\ Served # 0
  BY EngagementAssumption, FS_CardinalityType, FS_EmptySet DEF Served
<1>2. PICK n \in Nat : Served = k + n
  BY <1>1
<1>3. /\ Turns(k) = k * (k + 2 * n + 1) /\ Turns(k + 1) = (k + 1) * (k + 2 * n)
      /\ Turns(Served) = (k + n) * (k + n + 1)
  BY <1>2 DEF Turns
<1>4. /\ Turns(k) = k * k + 2 * (k * n) + k
      /\ Turns(k + 1) = k * k + 2 * (k * n) + k + 2 * n
      /\ Turns(Served) = k * k + 2 * (k * n) + k + n * n + n
  BY <1>2, <1>3
<1>5. k * k \in Nat /\ k * n \in Nat /\ n * n \in Nat /\ n <= n * n
  BY <1>2
<1>6. Turns(Served) = Served * (Served + 1)
  BY <1>1 DEF Turns
<1> QED
  BY <1>1, <1>2, <1>4, <1>5, <1>6

LEMMA TurnsFewer ==
  ASSUME NEW k \in 0..Served, NEW n \in 0..k
  PROVE  Turns(n) <= Turns(k) /\ Turns(n + 1) <= Turns(k + 1)
                              /\ (n < k => Turns(n + 1) <= Turns(k))
<1>1. Served \in Nat
  BY TurnsGrow
<1>2. PICK i \in Nat : k = n + i
  OBVIOUS
<1>3. PICK m \in Nat : Served = n + i + m
  BY <1>1, <1>2
<1>4. /\ Turns(n) = n * (n + 2 * i + 2 * m + 1)
      /\ Turns(n + 1) = (n + 1) * (n + 2 * i + 2 * m)
      /\ Turns(k) = (n + i) * (n + i + 2 * m + 1)
      /\ Turns(k + 1) = (n + i + 1) * (n + i + 2 * m)
  BY <1>2, <1>3 DEF Turns
<1>5. /\ Turns(n) = n * n + 2 * (n * i) + 2 * (n * m) + n
      /\ Turns(n + 1) = n * n + 2 * (n * i) + 2 * (n * m) + n + 2 * i + 2 * m
      /\ Turns(k) = n * n + 2 * (n * i) + i * i + 2 * (n * m) + 2 * (i * m) + n + i
      /\ Turns(k + 1) = n * n + 2 * (n * i) + i * i + 2 * (n * m) + 2 * (i * m) + n + i + 2 * m
  BY <1>2, <1>3, <1>4
<1>6. i * i \in Nat /\ i * m \in Nat /\ i <= i * i /\ (i > 0 => m <= i * m)
  BY <1>2, <1>3
<1> QED
  BY <1>2, <1>3, <1>5, <1>6

(* What is left after stale logins are gone.                               *)
LEMMA TurnsSpent ==
  ASSUME NEW k \in 0..Served, NEW n \in 0..k
  PROVE  /\ Served \in Nat /\ Turns(Served) \in Nat
         /\ Turns(k) \in Nat /\ Turns(k + 1) = Turns(k) + 2 * (Served - k)
         /\ Turns(n) \in Nat /\ Turns(n + 1) = Turns(n) + 2 * (Served - n)
         /\ Turns(n) <= Turns(k) /\ Turns(n + 1) <= Turns(k + 1)
         /\ (n < k => Turns(n + 1) <= Turns(k))
<1>1. Served \in Nat /\ Turns(Served) \in Nat /\ n \in 0..Served
  BY ServedType
<1>2. /\ Turns(k) \in Nat /\ Turns(k + 1) = Turns(k) + 2 * (Served - k)
      /\ Turns(n) \in Nat /\ Turns(n + 1) = Turns(n) + 2 * (Served - n)
  BY <1>1, TurnsGrow
<1> QED
  BY <1>1, <1>2, TurnsFewer

LEMMA ThreeApart ==
  ASSUME NEW X \in SUBSET Handlers, NEW Y \in SUBSET Handlers, NEW Z \in SUBSET Handlers,
         X \cap Y = {}, X \cap Z = {}, Y \cap Z = {}
  PROVE  /\ Cardinality(X) \in Nat /\ Cardinality(Y) \in Nat /\ Cardinality(Z) \in Nat
         /\ Cardinality(X) + Cardinality(Y) + Cardinality(Z) <= Served
<1>1. IsFiniteSet(X) /\ IsFiniteSet(Y) /\ IsFiniteSet(Z) /\ IsFiniteSet(Handlers)
  BY EngagementAssumption, FS_Subset
<1>2. /\ IsFiniteSet(X \cup Y)
      /\ Cardinality(X \cup Y) = Cardinality(X) + Cardinality(Y)
  <2>1. Cardinality(X \cap Y) = 0
    BY FS_EmptySet
  <2>2. /\ IsFiniteSet(X \cup Y)
        /\ Cardinality(X \cup Y) = Cardinality(X) + Cardinality(Y) - Cardinality(X \cap Y)
    BY <1>1, FS_Union
  <2> QED
    BY <1>1, <2>1, <2>2, FS_CardinalityType
<1>3. Cardinality((X \cup Y) \cup Z) = Cardinality(X \cup Y) + Cardinality(Z)
  <2>1. (X \cup Y) \cap Z = {} /\ Cardinality((X \cup Y) \cap Z) = 0
    BY FS_EmptySet
  <2>2. Cardinality((X \cup Y) \cup Z)
          = Cardinality(X \cup Y) + Cardinality(Z) - Cardinality((X \cup Y) \cap Z)
    BY <1>1, <1>2, FS_Union
  <2> QED
    BY <1>1, <1>2, <2>1, <2>2, FS_CardinalityType
<1>4. (X \cup Y) \cup Z \in SUBSET Handlers
  OBVIOUS
<1>5. Cardinality((X \cup Y) \cup Z) <= Served
  BY <1>1, <1>4, FS_Subset DEF Served
<1> QED
  BY <1>1, <1>2, <1>3, <1>5, FS_CardinalityType

(* What a number n of handlers becomes when one moves in or out.           *)
Counts(n, m, in, in2) ==
  /\ in /\ ~in2 => m = n - 1
  /\ ~in /\ in2 => m = n + 1
  /\ (in <=> in2) => m = n

LEMMA BudgetMoves ==
  ASSUME NEW u, NEW d, NEW h \in Handlers,
         \A g \in Handlers : g # h => job'[g] = job[g], day' = day
  PROVE  LET o == Cardinality(Owed(u, d))   o2 == Cardinality(Owed(u, d)')
             c == Cardinality(Coming(u, d)) c2 == Cardinality(Coming(u, d)')
             s == Cardinality(Stale(u, d))  s2 == Cardinality(Stale(u, d)')
         IN
         /\ o \in Nat /\ c \in Nat /\ s \in Nat /\ o + c + s <= Served
         /\ o2 \in Nat /\ c2 \in Nat /\ s2 \in Nat /\ o2 + c2 + s2 <= Served
         /\ Counts(o, o2, IsOwed(job[h], u, d), IsOwed(job'[h], u, d))
         /\ Counts(c, c2, IsComing(job[h], u, d, day), IsComing(job'[h], u, d, day))
         /\ Counts(s, s2, IsStale(job[h], u, d), IsStale(job'[h], u, d))
<1>1. /\ Owed(u, d) \in SUBSET Handlers /\ Owed(u, d)' \in SUBSET Handlers
      /\ Coming(u, d) \in SUBSET Handlers /\ Coming(u, d)' \in SUBSET Handlers
      /\ Stale(u, d) \in SUBSET Handlers /\ Stale(u, d)' \in SUBSET Handlers
  BY DEF Owed, Coming, Stale
<1>2. /\ Owed(u, d) \cap Coming(u, d) = {} /\ Owed(u, d) \cap Stale(u, d) = {}
      /\ Coming(u, d) \cap Stale(u, d) = {}
  BY DEF Owed, Coming, Stale, IsOwed, IsComing, IsStale
<1>3. /\ Owed(u, d)' \cap Coming(u, d)' = {} /\ Owed(u, d)' \cap Stale(u, d)' = {}
      /\ Coming(u, d)' \cap Stale(u, d)' = {}
  BY DEF Owed, Coming, Stale, IsOwed, IsComing, IsStale
<1>4. Counts(Cardinality(Owed(u, d)), Cardinality(Owed(u, d)'),
             IsOwed(job[h], u, d), IsOwed(job'[h], u, d))
  <2>1. Owed(u, d)' \ {h} = Owed(u, d) \ {h}
    BY DEF Owed
  <2>2. /\ h \in Owed(u, d) <=> IsOwed(job[h], u, d)
        /\ h \in Owed(u, d)' <=> IsOwed(job'[h], u, d)
    BY DEF Owed
  <2> QED
    BY <1>1, <2>1, <2>2, OneMoves DEF Counts
<1>5. Counts(Cardinality(Coming(u, d)), Cardinality(Coming(u, d)'),
             IsComing(job[h], u, d, day), IsComing(job'[h], u, d, day))
  <2>1. Coming(u, d)' \ {h} = Coming(u, d) \ {h}
    BY DEF Coming
  <2>2. /\ h \in Coming(u, d) <=> IsComing(job[h], u, d, day)
        /\ h \in Coming(u, d)' <=> IsComing(job'[h], u, d, day)
    BY DEF Coming
  <2> QED
    BY <1>1, <2>1, <2>2, OneMoves DEF Counts
<1>6. Counts(Cardinality(Stale(u, d)), Cardinality(Stale(u, d)'),
             IsStale(job[h], u, d), IsStale(job'[h], u, d))
  <2>1. Stale(u, d)' \ {h} = Stale(u, d) \ {h}
    BY DEF Stale
  <2>2. /\ h \in Stale(u, d) <=> IsStale(job[h], u, d)
        /\ h \in Stale(u, d)' <=> IsStale(job'[h], u, d)
    BY DEF Stale
  <2> QED
    BY <1>1, <2>1, <2>2, OneMoves DEF Counts
<1> QED
  BY <1>1, <1>2, <1>3, <1>4, <1>5, <1>6, ThreeApart

LEMMA RewardsFinite ==
  ASSUME PayInv, NEW u, NEW d
  PROVE  IsFiniteSet(Rewards(u, d)) /\ Cardinality(Rewards(u, d)) \in Nat
<1>1. Rewards(u, d) \in SUBSET entries
  BY DEF Rewards
<1> QED
  BY <1>1, FS_Subset, FS_CardinalityType DEF PayInv, Kept

(* A handler's step leaves a budget as it was, or spends of it.            *)
LEMMA BudgetSpent ==
  ASSUME NEW u \in Members, NEW d \in 1..MaxDay, Budget(u, d), StreakInv, PayInv, PayInv',
         NEW h \in Handlers, \A g \in Handlers : g # h => job'[g] = job[g], day' = day
  PROVE  LET a == Cardinality(Rewards(u, d))  a2 == Cardinality(Rewards(u, d)')
             o == Cardinality(Owed(u, d))     o2 == Cardinality(Owed(u, d)')
             c == Cardinality(Coming(u, d))   c2 == Cardinality(Coming(u, d)')
             s == Cardinality(Stale(u, d))    s2 == Cardinality(Stale(u, d)')
         IN
         /\ a \in Nat /\ a2 \in Nat
         /\ day < d => a = 0 /\ o = 0 /\ c = 0
         /\ /\ day < d => a2 = 0 /\ o2 = 0 /\ c2 = 0
            /\ day > d => a2 + o2 + c2 <= a + o + c
            /\ day = d =>
                 /\ s2 <= s
                 /\ streak'[u].last # d => a2 + o2 <= a + o /\ (streak[u].last = d => s2 < s)
                 /\ streak'[u].last = d => a2 + o2 + c2 <= a + o + c
            => Budget(u, d)'
<1> DEFINE a == Cardinality(Rewards(u, d))  a2 == Cardinality(Rewards(u, d)')
           o == Cardinality(Owed(u, d))     o2 == Cardinality(Owed(u, d)')
           c == Cardinality(Coming(u, d))   c2 == Cardinality(Coming(u, d)')
           s == Cardinality(Stale(u, d))    s2 == Cardinality(Stale(u, d)')
<1>1. a \in Nat
  BY RewardsFinite
<1>2. a2 \in Nat
  <2>1. Rewards(u, d)' \in SUBSET entries'
    BY DEF Rewards
  <2> QED
    BY <2>1, FS_Subset, FS_CardinalityType DEF PayInv, Kept
<1>3. /\ o \in Nat /\ c \in Nat /\ s \in Nat /\ o + c + s <= Served
      /\ o2 \in Nat /\ c2 \in Nat /\ s2 \in Nat /\ o2 + c2 + s2 <= Served
  BY BudgetMoves
<1>4. day \in Nat /\ d \in Nat /\ Turns(Served) \in Nat
  BY ServedType, EngagementAssumption DEF StreakInv
<1>5. /\ day < d => a = 0 /\ o = 0 /\ c = 0
      /\ day = d /\ streak[u].last # d => Before(a, o, s)
      /\ day = d /\ streak[u].last = d => After(a, o, c, s)
      /\ day > d => 2 * (a + o + c) <= Turns(Served)
  BY DEF Budget
<1>6. ASSUME /\ day < d => a2 = 0 /\ o2 = 0 /\ c2 = 0
             /\ day = d /\ streak'[u].last # d => Before(a2, o2, s2)
             /\ day = d /\ streak'[u].last = d => After(a2, o2, c2, s2)
             /\ day > d => 2 * (a2 + o2 + c2) <= Turns(Served)
      PROVE  Budget(u, d)'
  BY <1>6 DEF Budget
<1> HIDE DEF a, a2, o, o2, c, c2, s, s2
<1>7. ASSUME day = d, s2 <= s, streak'[u].last # d, a2 + o2 <= a + o,
             streak[u].last = d => s2 < s
      PROVE  Before(a2, o2, s2)
  <2>1. s \in 0..Served /\ s2 \in 0..s
    BY <1>3, <1>7, ServedType
  <2> QED
    BY <1>1, <1>2, <1>3, <1>5, <1>7, <2>1, TurnsSpent DEF Before, After
<1>8. ASSUME day = d, s2 <= s, streak'[u].last = d, a2 + o2 + c2 <= a + o + c
      PROVE  After(a2, o2, c2, s2)
  <2>1. s \in 0..Served /\ s2 \in 0..s
    BY <1>3, <1>8, ServedType
  <2> QED
    BY <1>1, <1>2, <1>3, <1>5, <1>8, <2>1, TurnsSpent DEF Before, After
<1>9. ASSUME day > d, a2 + o2 + c2 <= a + o + c
      PROVE  2 * (a2 + o2 + c2) <= Turns(Served)
  BY <1>1, <1>2, <1>3, <1>4, <1>5, <1>9
<1>10. /\ /\ day < d => a2 = 0 /\ o2 = 0 /\ c2 = 0
          /\ day > d => a2 + o2 + c2 <= a + o + c
          /\ day = d =>
               /\ s2 <= s
               /\ streak'[u].last # d => a2 + o2 <= a + o /\ (streak[u].last = d => s2 < s)
               /\ streak'[u].last = d => a2 + o2 + c2 <= a + o + c
       => Budget(u, d)'
  BY <1>6, <1>7, <1>8, <1>9
<1> QED
  BY <1>1, <1>2, <1>5, <1>10 DEF a, a2, o, o2, c, c2, s, s2

LEMMA BudgetLogin ==
  ASSUME NEW u \in Members, NEW d \in 1..MaxDay, Budget(u, d), StreakInv, PayInv, PayInv',
         NEW h \in Handlers, Login(h)
  PROVE  Budget(u, d)'
<1> DEFINE a == Cardinality(Rewards(u, d))  a2 == Cardinality(Rewards(u, d)')
           o == Cardinality(Owed(u, d))     o2 == Cardinality(Owed(u, d)')
           c == Cardinality(Coming(u, d))   c2 == Cardinality(Coming(u, d)')
           s == Cardinality(Stale(u, d))    s2 == Cardinality(Stale(u, d)')
<1>1. /\ day' = day /\ entries' = entries
      /\ \A g \in Handlers : g # h => job'[g] = job[g]
      /\ \A j : job' = [job EXCEPT ![h] = j] => job'[h] = j
  BY LoginMoves DEF Login, PayInv
<1>2. a2 = a /\ a \in Nat /\ day \in Nat /\ d \in Nat
  <2>1. Rewards(u, d)' = Rewards(u, d)
    BY <1>1 DEF Rewards
  <2> QED
    BY <2>1, RewardsFinite, EngagementAssumption DEF StreakInv
<1>3. /\ o \in Nat /\ c \in Nat /\ s \in Nat /\ o2 \in Nat /\ c2 \in Nat /\ s2 \in Nat
      /\ Counts(o, o2, IsOwed(job[h], u, d), IsOwed(job'[h], u, d))
      /\ Counts(c, c2, IsComing(job[h], u, d, day), IsComing(job'[h], u, d, day))
      /\ Counts(s, s2, IsStale(job[h], u, d), IsStale(job'[h], u, d))
  BY <1>1, BudgetMoves
<1>4. /\ day < d => a = 0 /\ o = 0 /\ c = 0
      /\ /\ day < d => a2 = 0 /\ o2 = 0 /\ c2 = 0
         /\ day > d => a2 + o2 + c2 <= a + o + c
         /\ day = d =>
              /\ s2 <= s
              /\ streak'[u].last # d => a2 + o2 <= a + o /\ (streak[u].last = d => s2 < s)
              /\ streak'[u].last = d => a2 + o2 + c2 <= a + o + c
         => Budget(u, d)'
  BY <1>1, BudgetSpent
<1> HIDE DEF a, a2, o, o2, c, c2, s, s2
<1>6. ASSUME NEW v \in Members, ReadStreak(h, v) PROVE Budget(u, d)'
  <2>1. /\ job[h].at = "idle" /\ job'[h] = [at |-> "read", user |-> v, old |-> streak[v]]
        /\ streak' = streak
    BY <1>1, <1>6, LoginMoves
  <2>2. /\ ~IsOwed(job[h], u, d) /\ ~IsOwed(job'[h], u, d)
        /\ ~IsStale(job[h], u, d) /\ ~IsStale(job'[h], u, d)
        /\ ~IsComing(job[h], u, d, day)
        /\ IsComing(job'[h], u, d, day) => day = d /\ streak[u].last # d
    BY <2>1 DEF IsOwed, IsStale, IsComing
  <2> QED
    BY <1>2, <1>3, <1>4, <2>1, <2>2 DEF Counts
<1>7. ASSUME DecideStreak(h) PROVE Budget(u, d)'
  <2>1. /\ job[h].at = "read" /\ streak' = streak
        /\ \/ job[h].old.last = day /\ job'[h] = NoJob
           \/ /\ job[h].old.last # day
              /\ job'[h] = [at |-> "write", user |-> job[h].user,
                            new |-> Extended(job[h].old, day)]
    BY <1>1, <1>7, LoginMoves
  <2>2. Extended(job[h].old, day).last = day
    BY DEF Extended
  <2>3. /\ ~IsOwed(job[h], u, d) /\ ~IsOwed(job'[h], u, d)
        /\ ~IsStale(job[h], u, d) /\ (day = d => ~IsStale(job'[h], u, d))
        /\ IsComing(job[h], u, d, day) <=> IsComing(job'[h], u, d, day)
    BY <2>1, <2>2 DEF IsOwed, IsStale, IsComing, NoJob
  <2> QED
    BY <1>2, <1>3, <1>4, <2>1, <2>3 DEF Counts
<1>8. ASSUME WriteStreak(h) PROVE Budget(u, d)'
  <2>1. /\ job[h].at = "write"
        /\ \/ streak' = streak /\ job'[h] = NoJob
           \/ /\ streak' = [streak EXCEPT ![job[h].user] = job[h].new]
              /\ \/ job'[h] = NoJob
                 \/ job'[h] = [at |-> "cashback", user |-> job[h].user,
                               source |-> "streak", for |-> job[h].new.last]
    BY <1>1, <1>8, LoginMoves
  <2>2. /\ ~IsOwed(job[h], u, d) /\ ~IsStale(job'[h], u, d) /\ ~IsComing(job'[h], u, d, day)
        /\ IsOwed(job'[h], u, d) => IsComing(job[h], u, d, day)
        /\ job[h].user = u <=> IsStale(job[h], u, d) \/ IsComing(job[h], u, d, day)
        /\ IsStale(job[h], u, d) => job[h].new.last # d /\ ~IsComing(job[h], u, d, day)
        /\ IsComing(job[h], u, d, day) => job[h].new.last = d
    BY <2>1 DEF IsOwed, IsStale, IsComing, NoJob
  <2>3. CASE streak'[u] = streak[u] /\ ~IsOwed(job'[h], u, d)
    BY <1>2, <1>3, <1>4, <2>2, <2>3 DEF Counts
  <2>4. CASE job[h].user = u /\ streak'[u] = job[h].new
    <3>1. CASE IsStale(job[h], u, d)
      BY <1>2, <1>3, <1>4, <2>2, <2>4, <3>1 DEF Counts
    <3>2. CASE IsComing(job[h], u, d, day)
      BY <1>2, <1>3, <1>4, <2>2, <2>4, <3>2 DEF Counts
    <3> QED
      BY <2>2, <2>4, <3>1, <3>2
  <2>5. CASE job[h].user # u
    BY <2>1, <2>2, <2>3, <2>5 DEF StreakInv
  <2> QED
    BY <2>1, <2>2, <2>3, <2>4, <2>5 DEF StreakInv, IsOwed, NoJob
<1> QED
  BY <1>6, <1>7, <1>8 DEF Login

LEMMA BudgetCode ==
  ASSUME NEW u \in Members, NEW d \in 1..MaxDay, Budget(u, d), StreakInv, PayInv, PayInv',
         NEW h \in Handlers, Code(h)
  PROVE  Budget(u, d)'
<1>1. /\ UNCHANGED <<day, streak, entries>>
      /\ \A g \in Handlers : g # h => job'[g] = job[g]
      /\ job[h].at \in {"idle", "apply", "count"}
      /\ \/ job'[h].at \in {"idle", "apply", "count"}
         \/ job'[h] = [at |-> "cashback", user |-> Owner, source |-> "referral", for |-> 0]
  <2>1. UNCHANGED <<day, streak, entries>>
    BY CodeMoves DEF Code
  <2>2. \A j : job' = [job EXCEPT ![h] = j] =>
          job'[h] = j /\ \A g \in Handlers : g # h => job'[g] = job[g]
    BY DEF PayInv
  <2> QED
    BY <2>1, <2>2, CodeMoves DEF Code, NoJob
<1>2. /\ ~IsOwed(job[h], u, d) /\ ~IsOwed(job'[h], u, d)
      /\ ~IsStale(job[h], u, d) /\ ~IsStale(job'[h], u, d)
      /\ ~IsComing(job[h], u, d, day) /\ ~IsComing(job'[h], u, d, day)
  BY <1>1 DEF IsOwed, IsStale, IsComing
<1>3. /\ Owed(u, d)' = Owed(u, d) /\ Coming(u, d)' = Coming(u, d) /\ Stale(u, d)' = Stale(u, d)
      /\ Rewards(u, d)' = Rewards(u, d)
  BY <1>1, <1>2 DEF Owed, Coming, Stale, Rewards
<1> QED
  BY <1>1, <1>3 DEF Budget

LEMMA BudgetCashback ==
  ASSUME NEW u \in Members, NEW d \in 1..MaxDay, Budget(u, d), StreakInv, PayInv, PayInv',
         NEW h \in Handlers, Cashback(h)
  PROVE  Budget(u, d)'
<1> DEFINE a == Cardinality(Rewards(u, d))  a2 == Cardinality(Rewards(u, d)')
           o == Cardinality(Owed(u, d))     o2 == Cardinality(Owed(u, d)')
           c == Cardinality(Coming(u, d))   c2 == Cardinality(Coming(u, d)')
           s == Cardinality(Stale(u, d))    s2 == Cardinality(Stale(u, d)')
<1>1. /\ day' = day /\ streak' = streak
      /\ \A j : job' = [job EXCEPT ![h] = j] =>
           job'[h] = j /\ \A g \in Handlers : g # h => job'[g] = job[g]
  BY CashbackMoves DEF Cashback, PayInv
<1>2. /\ \A g \in Handlers : g # h => job'[g] = job[g]
      /\ job[h].at \in {"cashback", "credit", "mark"} /\ job'[h].at \in {"idle", "credit", "mark"}
  BY <1>1, MovesApart DEF Moves
<1>3. /\ ~IsOwed(job'[h], u, d)
      /\ ~IsStale(job[h], u, d) /\ ~IsStale(job'[h], u, d)
      /\ ~IsComing(job[h], u, d, day) /\ ~IsComing(job'[h], u, d, day)
  BY <1>2 DEF IsOwed, IsStale, IsComing
<1>4. /\ o \in Nat /\ c \in Nat /\ s \in Nat /\ o2 \in Nat /\ c2 \in Nat /\ s2 \in Nat
      /\ Counts(o, o2, IsOwed(job[h], u, d), IsOwed(job'[h], u, d))
      /\ c2 = c /\ s2 = s
  BY <1>1, <1>2, <1>3, BudgetMoves DEF Counts
<1>5. a2 + o2 <= a + o
  <2>1. IsFiniteSet(Rewards(u, d)) /\ a \in Nat
    BY RewardsFinite
  <2>2. CASE entries' = entries
    <3>1. Rewards(u, d)' = Rewards(u, d)
      BY <2>2 DEF Rewards
    <3> QED
      BY <1>3, <1>4, <2>1, <3>1 DEF Counts
  <2>3. CASE CreateEntry(h) /\ entries' # entries
    <3> DEFINE e == [id |-> NextId(job[h].source), user |-> job[h].user,
                     source |-> job[h].source, for |-> job[h].for,
                     key |-> NoKey, marked |-> FALSE]
    <3>1. entries' = entries \cup {e} /\ job[h].at = "cashback"
      BY <2>3 DEF CreateEntry
    <3>2. IsOwed(job[h], u, d) <=> e.source = "streak" /\ e.user = u /\ e.for = d
      BY <3>1 DEF IsOwed
    <3> HIDE DEF e
    <3>3. CASE IsOwed(job[h], u, d)
      <4>1. Rewards(u, d)' = Rewards(u, d) \cup {e}
        BY <3>1, <3>2, <3>3 DEF Rewards
      <4>2. Cardinality(Rewards(u, d) \cup {e})
              = IF e \in Rewards(u, d) THEN a ELSE a + 1
        BY <2>1, FS_AddElement
      <4>3. a2 <= a + 1 /\ a2 \in Nat
        BY <2>1, <4>1, <4>2
      <4> QED
        BY <1>3, <1>4, <2>1, <3>3, <4>3 DEF Counts
    <3>4. CASE ~IsOwed(job[h], u, d)
      <4>1. Rewards(u, d)' = Rewards(u, d)
        BY <3>1, <3>2, <3>4 DEF Rewards
      <4> QED
        BY <1>3, <1>4, <2>1, <3>4, <4>1 DEF Counts
    <3> QED
      BY <3>3, <3>4
  <2>4. CASE \E e \in entries : \E f \in Awards :
               /\ entries' = (entries \ {e}) \cup {f}
               /\ f.user = e.user /\ f.source = e.source /\ f.for = e.for
    <3>1. PICK e \in entries, f \in Awards :
            /\ entries' = (entries \ {e}) \cup {f}
            /\ f.user = e.user /\ f.source = e.source /\ f.for = e.for
      BY <2>4
    <3>2. CASE e \in Rewards(u, d)
      <4>1. Rewards(u, d)' = (Rewards(u, d) \ {e}) \cup {f}
        BY <3>1, <3>2 DEF Rewards
      <4>2. IsFiniteSet(Rewards(u, d) \ {e}) /\ Cardinality(Rewards(u, d) \ {e}) = a - 1
        BY <2>1, <3>2, FS_RemoveElement
      <4>3. Cardinality((Rewards(u, d) \ {e}) \cup {f})
              = IF f \in Rewards(u, d) \ {e} THEN Cardinality(Rewards(u, d) \ {e})
                ELSE Cardinality(Rewards(u, d) \ {e}) + 1
        BY <4>2, FS_AddElement
      <4> QED
        BY <1>3, <1>4, <2>1, <4>1, <4>2, <4>3 DEF Counts
    <3>3. CASE e \notin Rewards(u, d)
      <4>1. Rewards(u, d)' = Rewards(u, d)
        BY <3>1, <3>3 DEF Rewards
      <4> QED
        BY <1>3, <1>4, <2>1, <4>1 DEF Counts
    <3> QED
      BY <3>2, <3>3
  <2>5. CASE (CreditWallet(h) \/ MarkCredited(h)) /\ entries' # entries
    <3>1. PICK e \in entries : Entry(job[h].id) = e /\ e \in Awards
      <4>1. job[h].at \in {"credit", "mark"}
        BY <2>5, CashbackMoves
      <4>2. PICK e \in entries : e.id = job[h].id
        BY <4>1 DEF PayInv, At
      <4>3. Entry(job[h].id) = e /\ e \in Awards
        BY <4>2, EntryIs DEF PayInv, Kept
      <4> QED
        BY <4>3
    <3>2. \/ \E m \in Moments :
               entries' = (entries \ {e}) \cup {[e EXCEPT !.key = <<e.user, e.source, m>>]}
          \/ entries' = (entries \ {e}) \cup {[e EXCEPT !.marked = TRUE]}
      BY <2>5, <3>1 DEF CreditWallet, MarkCredited, Change, money
    <3>3. CASE entries' = (entries \ {e}) \cup {[e EXCEPT !.marked = TRUE]}
      <4> DEFINE f == [e EXCEPT !.marked = TRUE]
      <4>1. f \in Awards /\ f.user = e.user /\ f.source = e.source /\ f.for = e.for
        BY <3>1 DEF Awards
      <4> HIDE DEF f
      <4> QED
        BY <2>4, <3>3, <4>1 DEF f
    <3>4. ASSUME NEW m \in Moments,
                 entries' = (entries \ {e}) \cup {[e EXCEPT !.key = <<e.user, e.source, m>>]}
          PROVE  a2 + o2 <= a + o
      <4> DEFINE f == [e EXCEPT !.key = <<e.user, e.source, m>>]
      <4>1. f \in Awards /\ f.user = e.user /\ f.source = e.source /\ f.for = e.for
        BY <3>1 DEF Awards
      <4> HIDE DEF f
      <4> QED
        BY <2>4, <3>4, <4>1 DEF f
    <3> QED
      BY <3>2, <3>3, <3>4
  <2> QED
    BY <2>2, <2>3, <2>5 DEF Cashback
<1>6. /\ a \in Nat /\ a2 \in Nat
      /\ day < d => a = 0 /\ o = 0 /\ c = 0
      /\ /\ day < d => a2 = 0 /\ o2 = 0 /\ c2 = 0
         /\ day > d => a2 + o2 + c2 <= a + o + c
         /\ day = d =>
              /\ s2 <= s
              /\ streak'[u].last # d => a2 + o2 <= a + o /\ (streak[u].last = d => s2 < s)
              /\ streak'[u].last = d => a2 + o2 + c2 <= a + o + c
         => Budget(u, d)'
  BY <1>1, <1>2, BudgetSpent
<1>7. o2 <= o /\ day \in Nat /\ d \in Nat
  BY <1>3, <1>4, EngagementAssumption DEF Counts, StreakInv
<1> HIDE DEF a, a2, o, o2, c, c2, s, s2
<1>8. o \in Nat /\ o2 \in Nat /\ c \in Nat /\ c2 \in Nat /\ a2 + o2 <= a + o
  BY <1>1, <1>4, <1>5
<1>9. CASE day < d
  BY <1>1, <1>4, <1>5, <1>6, <1>7, <1>8, <1>9
<1>10. CASE day = d
  BY <1>1, <1>4, <1>5, <1>6, <1>7, <1>8, <1>10
<1>11. CASE day > d
  BY <1>1, <1>4, <1>5, <1>6, <1>7, <1>8, <1>11
<1> QED
  BY <1>7, <1>9, <1>10, <1>11

LEMMA BudgetDay ==
  ASSUME NEW u \in Members, NEW d \in 1..MaxDay, Budget(u, d), StreakInv, PayInv, NextDay
  PROVE  Budget(u, d)'
<1> DEFINE a == Cardinality(Rewards(u, d))
           o == Cardinality(Owed(u, d))
           c == Cardinality(Coming(u, d))   c2 == Cardinality(Coming(u, d)')
           s == Cardinality(Stale(u, d))
<1>1. /\ day' = day + 1 /\ UNCHANGED <<streak, entries, job>> /\ day \in Nat /\ d \in Nat
      /\ streak[u].last \in Int /\ streak[u].last <= day
  BY EngagementAssumption DEF NextDay, streaks, money, StreakInv, Earned, Streaks
<1>2. /\ Rewards(u, d)' = Rewards(u, d) /\ Owed(u, d)' = Owed(u, d) /\ Stale(u, d)' = Stale(u, d)
  BY <1>1 DEF Rewards, Owed, Stale
<1>3. /\ Owed(u, d) \in SUBSET Handlers /\ Stale(u, d) \in SUBSET Handlers
      /\ Coming(u, d) \in SUBSET Handlers /\ Coming(u, d)' \in SUBSET Handlers
      /\ Owed(u, d) \cap Coming(u, d) = {} /\ Owed(u, d) \cap Stale(u, d) = {}
      /\ Coming(u, d) \cap Stale(u, d) = {}
  BY DEF Owed, Coming, Stale, IsOwed, IsComing, IsStale
<1>4. /\ o \in Nat /\ c \in Nat /\ s \in Nat /\ a \in Nat /\ o + c + s <= Served
  BY <1>3, ThreeApart, RewardsFinite
<1>5. day' # d => c2 \in Nat /\ c2 <= c
  <2>1. ASSUME day' # d PROVE Coming(u, d)' \in SUBSET Coming(u, d)
    BY <1>1, <2>1 DEF Coming, IsComing
  <2> QED
    BY <1>3, <2>1, EngagementAssumption, FS_Subset, FS_CardinalityType
<1>6. /\ Served \in Nat /\ Turns(Served) \in Nat
      /\ Turns(s) \in Nat /\ Turns(s + 1) = Turns(s) + 2 * (Served - s)
      /\ Turns(s + 1) <= Turns(Served)
  BY <1>4, ServedType, TurnsGrow
<1>7. /\ day < d => a = 0 /\ o = 0 /\ c = 0
      /\ day = d /\ streak[u].last # d => Before(a, o, s)
      /\ day = d /\ streak[u].last = d => After(a, o, c, s)
      /\ day > d => 2 * (a + o + c) <= Turns(Served)
  BY DEF Budget
<1>8. ASSUME /\ day' < d => a = 0 /\ o = 0 /\ c2 = 0
             /\ day' = d => streak[u].last # d /\ Before(a, o, s)
             /\ day' > d => 2 * (a + o + c2) <= Turns(Served)
      PROVE  Budget(u, d)'
  BY <1>1, <1>2, <1>8 DEF Budget
<1> HIDE DEF a, o, c, c2, s
<1>9. day' < d => a = 0 /\ o = 0 /\ c2 = 0
  BY <1>1, <1>4, <1>5, <1>7
<1>10. day' = d => streak[u].last # d /\ Before(a, o, s)
  BY <1>1, <1>4, <1>6, <1>7 DEF Before
<1>11. day' > d => 2 * (a + o + c2) <= Turns(Served)
  BY <1>1, <1>4, <1>5, <1>6, <1>7 DEF Before, After
<1> QED
  BY <1>8, <1>9, <1>10, <1>11

LEMMA BudgetCrash ==
  ASSUME NEW u \in Members, NEW d \in 1..MaxDay, Budget(u, d), StreakInv, PayInv, Crash
  PROVE  Budget(u, d)'
<1> DEFINE a == Cardinality(Rewards(u, d))
           o == Cardinality(Owed(u, d))
           c == Cardinality(Coming(u, d))
           s == Cardinality(Stale(u, d))
<1>1. /\ UNCHANGED <<day, streak, entries>> /\ job' = [g \in Handlers |-> NoJob]
      /\ day \in Nat /\ d \in Nat
  BY EngagementAssumption DEF Crash, streaks, money, StreakInv
<1>2. Owed(u, d)' = {} /\ Coming(u, d)' = {} /\ Stale(u, d)' = {} /\ Rewards(u, d)' = Rewards(u, d)
  BY <1>1 DEF Owed, Coming, Stale, Rewards, IsOwed, IsComing, IsStale, NoJob
<1>3. /\ Owed(u, d) \in SUBSET Handlers /\ Stale(u, d) \in SUBSET Handlers
      /\ Coming(u, d) \in SUBSET Handlers
      /\ Owed(u, d) \cap Coming(u, d) = {} /\ Owed(u, d) \cap Stale(u, d) = {}
      /\ Coming(u, d) \cap Stale(u, d) = {}
  BY DEF Owed, Coming, Stale, IsOwed, IsComing, IsStale
<1>4. o \in Nat /\ c \in Nat /\ s \in Nat /\ a \in Nat /\ o + c + s <= Served
  BY <1>3, ThreeApart, RewardsFinite
<1>5. Cardinality({}) = 0 /\ s \in 0..Served /\ 0 \in 0..s
  BY <1>4, ServedType, FS_EmptySet
<1>6. /\ day < d => a = 0 /\ o = 0 /\ c = 0
      /\ day = d /\ streak[u].last # d => Before(a, o, s)
      /\ day = d /\ streak[u].last = d => After(a, o, c, s)
      /\ day > d => 2 * (a + o + c) <= Turns(Served)
  BY DEF Budget
<1>7. ASSUME /\ day < d => a = 0
             /\ day = d /\ streak[u].last # d => Before(a, 0, 0)
             /\ day = d /\ streak[u].last = d => After(a, 0, 0, 0)
             /\ day > d => 2 * (a + 0 + 0) <= Turns(Served)
      PROVE  Budget(u, d)'
  BY <1>1, <1>2, <1>5, <1>7 DEF Budget
<1> HIDE DEF a, o, c, s
<1>8. /\ Turns(s) \in Nat /\ Turns(s + 1) \in Nat /\ Turns(Served) \in Nat
      /\ Turns(0) \in Nat /\ Turns(0 + 1) \in Nat
      /\ Turns(0) <= Turns(s) /\ Turns(0 + 1) <= Turns(s + 1)
  BY <1>4, <1>5, TurnsSpent
<1>9. /\ Before(a, o, s) => Before(a, 0, 0)
      /\ After(a, o, c, s) => After(a, 0, 0, 0)
      /\ 2 * (a + o + c) <= Turns(Served) => 2 * (a + 0 + 0) <= Turns(Served)
  BY <1>4, <1>8 DEF Before, After
<1> QED
  BY <1>6, <1>7, <1>9

LEMMA InitRewards == Init => RewardsInv
<1> SUFFICES ASSUME Init, NEW u \in Members, NEW d \in 1..MaxDay PROVE Budget(u, d)
  BY DEF RewardsInv
<1>1. /\ Rewards(u, d) = {} /\ Owed(u, d) = {} /\ Coming(u, d) = {} /\ Stale(u, d) = {}
      /\ day = 1 /\ streak[u].last = -1 /\ d \in Nat /\ d >= 1
  BY EngagementAssumption
     DEF Init, Rewards, Owed, Coming, Stale, IsOwed, IsComing, IsStale, NoJob
<1>2. Cardinality({}) = 0 /\ 0 \in 0..Served /\ Turns(Served) \in Nat
  BY FS_EmptySet, ServedType
<1>3. Turns(0 + 1) <= Turns(Served) /\ Turns(0 + 1) \in Nat
  <2>1. Served \in Nat /\ Turns(0 + 1) = Turns(0) + 2 * (Served - 0) /\ Turns(0) \in Nat
    BY <1>2, TurnsGrow
  <2> QED
    BY <1>2, <2>1, TurnsGrow
<1>4. Before(0, 0, 0)
  BY <1>2, <1>3 DEF Before
<1> QED
  BY <1>1, <1>2, <1>4 DEF Budget

LEMMA NextRewards ==
  StreakInv /\ PayInv /\ RewardsInv /\ [Next]_vars => RewardsInv'
<1> SUFFICES ASSUME StreakInv, PayInv, RewardsInv, [Next]_vars,
                    NEW u \in Members, NEW d \in 1..MaxDay
             PROVE  Budget(u, d)'
  BY DEF RewardsInv
<1>1. Budget(u, d) /\ PayInv'
  BY NextPay DEF RewardsInv
<1>2. CASE UNCHANGED vars
  <2>1. UNCHANGED <<day, streak, entries, job>>
    BY <1>2 DEF vars
  <2> QED
    BY <1>1, <2>1 DEF Budget, Rewards, Owed, Coming, Stale
<1> QED
  BY <1>1, <1>2, NextSteps, BudgetDay, BudgetCrash, BudgetLogin, BudgetCode, BudgetCashback

LEMMA BudgetBounds ==
  ASSUME StreakInv, PayInv, NEW u, NEW d \in 1..MaxDay, Budget(u, d)
  PROVE  2 * Cardinality(Rewards(u, d)) <= Turns(Served)
<1> DEFINE a == Cardinality(Rewards(u, d))
           o == Cardinality(Owed(u, d))
           c == Cardinality(Coming(u, d))
           s == Cardinality(Stale(u, d))
<1>1. /\ Owed(u, d) \in SUBSET Handlers /\ Stale(u, d) \in SUBSET Handlers
      /\ Coming(u, d) \in SUBSET Handlers
      /\ Owed(u, d) \cap Coming(u, d) = {} /\ Owed(u, d) \cap Stale(u, d) = {}
      /\ Coming(u, d) \cap Stale(u, d) = {}
  BY DEF Owed, Coming, Stale, IsOwed, IsComing, IsStale
<1>2. o \in Nat /\ c \in Nat /\ s \in Nat /\ a \in Nat /\ o + c + s <= Served
  BY <1>1, ThreeApart, RewardsFinite
<1>3. day \in Nat /\ d \in Nat
  BY EngagementAssumption DEF StreakInv
<1>4. /\ day < d => a = 0
      /\ day = d /\ streak[u].last # d => Before(a, o, s)
      /\ day = d /\ streak[u].last = d => After(a, o, c, s)
      /\ day > d => 2 * (a + o + c) <= Turns(Served)
  BY DEF Budget
<1>5. s \in 0..Served /\ Turns(Served) \in Nat
  BY <1>2, ServedType
<1>6. Turns(s) \in Nat /\ Turns(s + 1) \in Nat
  BY <1>5, TurnsGrow
<1> HIDE DEF a, o, c, s
<1>7. 2 * a <= Turns(Served)
  BY <1>2, <1>3, <1>4, <1>5, <1>6 DEF Before, After
<1> QED
  BY <1>7 DEF a

(* One day's login can earn a milestone's reward no more than 1 + 2 + ...  *)
(* times, up to the number of handlers: as many at once as read the streak *)
(* before one has written it, and again for each login of an earlier day   *)
(* that is written late, by a handler that could not earn in the meantime. *)
THEOREM RewardsAreBounded == Spec => []RewardsBounded
<1>1. Init => StreakInv /\ PayInv /\ RewardsInv
  BY InitStreak, InitPay, InitRewards
<1>2. (StreakInv /\ PayInv /\ RewardsInv) /\ [Next]_vars => (StreakInv /\ PayInv /\ RewardsInv)'
  BY NextStreak, NextPay, NextRewards
<1>3. StreakInv /\ PayInv /\ RewardsInv => RewardsBounded
  <2> SUFFICES ASSUME StreakInv, PayInv, RewardsInv, NEW u \in Members, NEW d \in 1..MaxDay
               PROVE  Cardinality({e \in Of("streak") : e.user = u /\ e.for = d})
                        <= (Served * (Served + 1)) \div 2
    BY DEF RewardsBounded, Served
  <2>1. {e \in Of("streak") : e.user = u /\ e.for = d} = Rewards(u, d)
    BY DEF Of, Rewards
  <2>2. 2 * Cardinality(Rewards(u, d)) <= Turns(Served)
    BY BudgetBounds DEF RewardsInv
  <2>3. Turns(Served) = Served * (Served + 1) /\ Turns(Served) \in Nat
    BY ServedType DEF Turns
  <2>4. Cardinality(Rewards(u, d)) \in Nat
    BY RewardsFinite
  <2>5. ASSUME NEW n \in Nat, NEW m \in Nat, 2 * n <= m PROVE n <= m \div 2
    BY <2>5
  <2> QED
    BY <2>1, <2>2, <2>3, <2>4, <2>5
<1> QED
  BY <1>1, <1>2, <1>3, PTL DEF Spec
=============================================================================
