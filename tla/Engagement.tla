----------------------------- MODULE Engagement -----------------------------
(***************************************************************************)
(* engagement-service's use case: login streaks and referral codes, and    *)
(* the cashback both earn, which is entered, credited to the wallet and    *)
(* marked, in three calls. Its repositories are interfaces: each method is *)
(* taken as one atomic statement, which may fail. No transaction spans two *)
(* of them, most errors are ignored, and nothing is retried.               *)
(*                                                                         *)
(* XP is left out: every step adds some, and no decision reads it.         *)
(***************************************************************************)
EXTENDS Integers, FiniteSets

CONSTANTS
  Members,      \* users who log in
  Owner,        \* the owner of the referral code
  Referees,     \* users who apply it
  Handlers,     \* requests served at a time
  MaxUses,      \* of the code
  Milestones,   \* streak lengths with a reward
  Moments,      \* bound: milliseconds told apart
  MaxDay        \* bound: days run 1..MaxDay

ASSUME EngagementAssumption ==
  /\ Milestones \subseteq Nat /\ MaxUses \in Nat /\ MaxDay \in Nat
  /\ IsFiniteSet(Handlers) /\ Handlers # {} /\ IsFiniteSet(Referees)

VARIABLES
  day,
  streak,     \* each member's UserStreak
  logins,     \* history: the days each member has logged in
  uses,       \* of the code, as counted
  referred,   \* referrals: their referees
  missed,     \* history: referrals that were never counted
  entries,    \* cashback entries
  paid,       \* wallet-service: idempotency keys it has credited
  job         \* what each handler is at

vars == <<day, streak, logins, uses, referred, missed, entries, paid, job>>
streaks == <<streak, logins>>
referrals == <<uses, referred, missed>>
money == <<entries, paid>>

Sources == {"streak", "referral"}
Users == Members \cup {Owner}
NoJob == [at |-> "idle"]
NoKey == <<>>

Init ==
  /\ day = 1
  /\ streak = [u \in Members |-> [current |-> 0, longest |-> 0, last |-> -1]]
  /\ logins = [u \in Members |-> {}]
  /\ uses = 0 /\ referred = {} /\ missed = 0
  /\ entries = {} /\ paid = {}
  /\ job = [h \in Handlers |-> NoJob]

NextDay ==
  /\ day < MaxDay
  /\ day' = day + 1
  /\ UNCHANGED <<streaks, referrals, money, job>>

Goto(h, j) == job' = [job EXCEPT ![h] = j]
-----------------------------------------------------------------------------
(* RecordLogin: GetOrCreate; the date is read afterwards, and Update       *)
(* writes what was computed from the two.                                  *)
ReadStreak(h, u) ==
  /\ job[h].at = "idle"
  /\ Goto(h, [at |-> "read", user |-> u, old |-> streak[u]])
  /\ UNCHANGED <<day, streaks, referrals, money>>

(* Mutant: a missed day does not break the streak.                         *)
Unbroken(old, today) ==
  LET current == old.current + 1 IN
  [current |-> current, last |-> today,
   longest |-> IF current > old.longest THEN current ELSE old.longest]

Extended(old, today) ==
  LET current == IF old.last = today - 1 THEN old.current + 1 ELSE 1 IN
  [current |-> current, last |-> today,
   longest |-> IF current > old.longest THEN current ELSE old.longest]

(* Mutant: a second login of the day goes on with the streak as it is.     *)
DecideAgain(h) ==
  /\ job[h].at = "read"
  /\ LET u == job[h].user IN
       /\ logins' = [logins EXCEPT ![u] = @ \cup {day}]
       /\ Goto(h, [at |-> "write", user |-> u, new |->
            IF job[h].old.last = day THEN job[h].old ELSE Extended(job[h].old, day)])
  /\ UNCHANGED <<day, streak, referrals, money>>

DecideStreak(h) ==
  /\ job[h].at = "read"
  /\ LET u == job[h].user IN
       /\ logins' = [logins EXCEPT ![u] = @ \cup {day}]
       /\ IF job[h].old.last = day THEN Goto(h, NoJob)
          ELSE Goto(h, [at |-> "write", user |-> u, new |-> Extended(job[h].old, day)])
  /\ UNCHANGED <<day, streak, referrals, money>>

(* Update fails, and the login is refused; or a milestone's reward follows,*)
(* unless its lookup fails.                                                *)
WriteStreak(h) ==
  /\ job[h].at = "write"
  /\ LET u == job[h].user  new == job[h].new IN
       \/ Goto(h, NoJob) /\ UNCHANGED streak
       \/ /\ streak' = [streak EXCEPT ![u] = new]
          /\ \/ Goto(h, NoJob)
             \/ /\ new.current \in Milestones
                /\ Goto(h, [at |-> "cashback", user |-> u, source |-> "streak", for |-> new.last])
  /\ UNCHANGED <<day, logins, referrals, money>>
-----------------------------------------------------------------------------
(* Mutant: the limit of the code is not read.                              *)
ReadAnyCode(h, r) ==
  /\ job[h].at = "idle" /\ r # Owner
  /\ Goto(h, [at |-> "apply", referee |-> r])
  /\ UNCHANGED <<day, streaks, referrals, money>>

(* ApplyReferralCode: GetCode, with its two refusals.                      *)
ReadCode(h, r) ==
  /\ job[h].at = "idle"
  /\ r # Owner /\ uses < MaxUses
  /\ Goto(h, [at |-> "apply", referee |-> r])
  /\ UNCHANGED <<day, streaks, referrals, money>>

(* A referee is referred once (ErrAlreadyReferred). The insert may fail, or*)
(* report an error although it took effect, and is not counted then.       *)
CreateReferral(h) ==
  /\ job[h].at = "apply"
  /\ \/ /\ job[h].referee \notin referred
        /\ referred' = referred \cup {job[h].referee}
        /\ \/ Goto(h, [at |-> "count"]) /\ UNCHANGED missed
           \/ Goto(h, NoJob) /\ missed' = missed + 1
     \/ Goto(h, NoJob) /\ UNCHANGED <<referred, missed>>
  /\ UNCHANGED <<day, streaks, uses, money>>

(* The error of IncrementUses is ignored.                                  *)
IncrementUses(h) ==
  /\ job[h].at = "count"
  /\ \/ uses' = uses + 1 /\ UNCHANGED missed
     \/ missed' = missed + 1 /\ UNCHANGED uses
  /\ Goto(h, [at |-> "cashback", user |-> Owner, source |-> "referral", for |-> 0])
  /\ UNCHANGED <<day, streaks, referred, money>>
-----------------------------------------------------------------------------
Of(source) == {e \in entries : e.source = source}
NextId(source) == <<source, Cardinality(Of(source)) + 1>>

(* awardCashback: Create.                                                  *)
CreateEntry(h) ==
  /\ job[h].at = "cashback"
  /\ \/ LET e == [id |-> NextId(job[h].source), user |-> job[h].user,
                  source |-> job[h].source, for |-> job[h].for,
                  key |-> NoKey, marked |-> FALSE] IN
          /\ entries' = entries \cup {e}
          /\ Goto(h, [at |-> "credit", id |-> e.id])
     \/ Goto(h, NoJob) /\ UNCHANGED entries
  /\ UNCHANGED <<day, streaks, referrals, paid>>

Entry(id) == CHOOSE e \in entries : e.id = id

Change(e, f) == entries' = (entries \ {e}) \cup {f}

(* Mutant: the wallet's error does not end awardCashback.                  *)
CreditUnheeded(h) ==
  /\ job[h].at = "credit"
  /\ Goto(h, [at |-> "mark", id |-> job[h].id])
  /\ UNCHANGED <<day, streaks, referrals, money>>

(* CreditWallet, with a key made of the user, the source and the time in   *)
(* milliseconds. The wallet credits a key once and answers its repetition  *)
(* with the first credit; or it credits nothing.                           *)
CreditWallet(h) ==
  /\ job[h].at = "credit"
  /\ LET e == Entry(job[h].id) IN
       \/ \E m \in Moments :
            LET key == <<e.user, e.source, m>> IN
            /\ paid' = paid \cup {key}
            /\ Change(e, [e EXCEPT !.key = key])
            /\ Goto(h, [at |-> "mark", id |-> e.id])
       \/ Goto(h, NoJob) /\ UNCHANGED money
  /\ UNCHANGED <<day, streaks, referrals>>

(* MarkCredited, unless the wallet's reply was lost; its error is ignored. *)
MarkCredited(h) ==
  /\ job[h].at = "mark"
  /\ LET e == Entry(job[h].id) IN
       Change(e, [e EXCEPT !.marked = TRUE]) \/ UNCHANGED entries
  /\ Goto(h, NoJob)
  /\ UNCHANGED <<day, streaks, referrals, paid>>

(* The service dies: what its handlers were at is not taken up again.      *)
Crash ==
  /\ \E h \in Handlers : job[h] # NoJob
  /\ job' = [h \in Handlers |-> NoJob]
  /\ missed' = missed + Cardinality({h \in Handlers : job[h].at = "count"})
  /\ UNCHANGED <<day, streaks, uses, referred, money>>

Next ==
  \/ NextDay \/ Crash
  \/ \E h \in Handlers :
       \/ \E u \in Members : ReadStreak(h, u)
       \/ DecideStreak(h) \/ WriteStreak(h)
       \/ \E r \in Referees : ReadCode(h, r)
       \/ CreateReferral(h) \/ IncrementUses(h)
       \/ CreateEntry(h) \/ CreditWallet(h) \/ MarkCredited(h)

Spec == Init /\ [][Next]_vars
-----------------------------------------------------------------------------
(* A streak is never longer than the days in a row its member has logged   *)
(* in, up to its last day, however logins overlap, fail and cross midnight.*)
StreakEarned ==
  \A u \in Members :
    LET s == streak[u] IN
    /\ s.last - s.current + 1 .. s.last \subseteq logins[u] \cup {-1, 0}
    /\ \E d \in 0..day : d - s.longest + 1 .. d \subseteq logins[u]

(* A day's login can earn a milestone's reward several times, as logins    *)
(* served at once read the same streak: once per handler; and again when a *)
(* login of the day before is written late, over the newer one, once per   *)
(* handler that is not busy with such a login itself: 1 + 2 + ... in all.  *)
RewardsBounded ==
  LET H == Cardinality(Handlers) IN
  \A u \in Members, d \in 1..MaxDay :
    Cardinality({e \in Of("streak") : e.user = u /\ e.for = d})
      <= (H * (H + 1)) \div 2

(* A code refers at most MaxUses users, but for those who read it at the   *)
(* same time and for the referrals that were never counted.                *)
ReferralsBounded ==
  Cardinality(referred) <= MaxUses + (Cardinality(Handlers) - 1) + missed

(* An entry marked as credited was credited under its own key, and the     *)
(* wallet credits nothing that was not entered. (Two entries of one user   *)
(* and source can share a key, and then one credit.)                       *)
MarkedWasPaid ==
  /\ \A e \in entries : e.marked => e.key \in paid
  /\ \A k \in paid : \E e \in entries : e.key = k
=============================================================================
