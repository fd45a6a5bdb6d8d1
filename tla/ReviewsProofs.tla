--------------------------- MODULE ReviewsProofs ---------------------------
(***************************************************************************)
(* Proofs about Reviews, for any users and any applications, and about     *)
(* Insight, for any durations of queries and calls.                        *)
(***************************************************************************)
EXTENDS Reviews, Insight, TLAPS

TypeOK ==
  /\ form \in [Applications -> [user : Users, described : BOOLEAN]]
  /\ stage \in [Applications -> Stages]
  /\ row \in [Applications -> {"none", "pending"} \cup Verdicts]
  /\ reply \in [Applications -> {"none"} \cup Replies]
  /\ blind \subseteq Merchants

(* What the row and the answer of an application are at each stage. Only   *)
(* the goroutine that asked writes the row after its INSERT, and only once.*)
Written(a) ==
  \/ reply[a] = "error" /\ row[a] = "pending"
  \/ reply[a] = "approved" /\ row[a] = "approved"
  \/ reply[a] \in {"rejected", "garbled"} /\ row[a] = "rejected"

RowOfStage ==
  \A a \in Applications :
    /\ stage[a] \in {"new", "looked", "refused"} => row[a] = "none"
    /\ stage[a] \in {"asking", "answered"} => row[a] = "pending"
    /\ stage[a] = "answered" => reply[a] \in Replies
    /\ stage[a] = "done" => Written(a)
    /\ stage[a] = "lost" => row[a] \in {"none", "pending"}

ReviewsInv == TypeOK /\ RowOfStage

LEMMA InitReviews == Init => ReviewsInv
BY DEF Init, ReviewsInv, TypeOK, RowOfStage, Stages

(* One lemma for each action.                                              *)
LEMMA LookUpStep ==
  ASSUME ReviewsInv, NEW a \in Applications, LookUp(a)
  PROVE  ReviewsInv'
<1>1. PICK s \in {"looked", "refused"} : stage' = [stage EXCEPT ![a] = s]
  BY DEF LookUp
<1>2. /\ stage[a] = "new" /\ blind' \subseteq Merchants
      /\ UNCHANGED <<form, row, reply>>
  BY DEF LookUp, ReviewsInv, TypeOK
<1> QED
  BY <1>1, <1>2 DEF ReviewsInv, TypeOK, RowOfStage, Written, Stages

LEMMA StoreStep ==
  ASSUME ReviewsInv, NEW a \in Applications, InsertMerchant(a) \/ InsertTutor(a)
  PROVE  ReviewsInv'
<1>1. stage[a] \in {"new", "looked"} /\ UNCHANGED <<form, reply, blind>>
  BY DEF InsertMerchant, InsertTutor, Store
<1>2. \/ /\ row' = [row EXCEPT ![a] = "pending"]
         /\ \E s \in {"asking", "lost"} : stage' = [stage EXCEPT ![a] = s]
      \/ row' = row /\ stage' = [stage EXCEPT ![a] = "refused"]
  BY DEF InsertMerchant, InsertTutor, Store
<1> QED
  BY <1>1, <1>2 DEF ReviewsInv, TypeOK, RowOfStage, Written, Stages

LEMMA AnswerStep ==
  ASSUME ReviewsInv, NEW a \in Applications, Answer(a)
  PROVE  ReviewsInv'
<1>1. PICK r \in Replies : reply' = [reply EXCEPT ![a] = r]
  BY DEF Answer, Replies
<1>2. /\ stage[a] = "asking" /\ stage' = [stage EXCEPT ![a] = "answered"]
      /\ UNCHANGED <<form, row, blind>>
  BY DEF Answer
<1> QED
  BY <1>1, <1>2 DEF ReviewsInv, TypeOK, RowOfStage, Written, Stages

LEMMA RecordStep ==
  ASSUME ReviewsInv, NEW a \in Applications, RecordVerdict(a)
  PROVE  ReviewsInv'
<1> DEFINE w == CASE reply[a] = "error" -> row
                  [] reply[a] = "approved" -> [row EXCEPT ![a] = "approved"]
                  [] OTHER -> [row EXCEPT ![a] = "rejected"]
<1>1. /\ stage[a] = "answered" /\ UNCHANGED <<form, reply, blind>>
      /\ \/ row' = w /\ stage' = [stage EXCEPT ![a] = "done"]
         \/ row' = row /\ stage' = [stage EXCEPT ![a] = "lost"]
  BY DEF RecordVerdict, Record
<1>2. reply[a] \in Replies /\ row[a] = "pending"
  BY <1>1 DEF ReviewsInv, RowOfStage
<1>3. PICK v \in {"pending"} \cup Verdicts :
        /\ w = [row EXCEPT ![a] = v]
        /\ \/ reply[a] = "error" /\ v = "pending"
           \/ reply[a] = "approved" /\ v = "approved"
           \/ reply[a] \in {"rejected", "garbled"} /\ v = "rejected"
  BY <1>2 DEF ReviewsInv, TypeOK, Replies, Verdicts
<1> HIDE DEF w
<1>4. CASE row' = w /\ stage' = [stage EXCEPT ![a] = "done"]
  BY <1>1, <1>2, <1>3, <1>4 DEF ReviewsInv, TypeOK, RowOfStage, Written, Stages
<1>5. CASE row' = row /\ stage' = [stage EXCEPT ![a] = "lost"]
  BY <1>1, <1>2, <1>5 DEF ReviewsInv, TypeOK, RowOfStage, Written, Stages
<1> QED
  BY <1>1, <1>4, <1>5

LEMMA CrashStep ==
  ASSUME ReviewsInv, NEW A, Crash(A)
  PROVE  ReviewsInv'
BY DEF Crash, ReviewsInv, TypeOK, RowOfStage, Written, Stages

LEMMA NextReviews == ReviewsInv /\ [Next]_vars => ReviewsInv'
<1>1. ReviewsInv /\ UNCHANGED vars => ReviewsInv'
  BY DEF vars, ReviewsInv, TypeOK, RowOfStage, Written
<1> QED
  BY <1>1, LookUpStep, StoreStep, AnswerStep, RecordStep, CrashStep DEF Next

LEMMA ReviewsInvariant == Spec => []ReviewsInv
BY InitReviews, NextReviews, PTL DEF Spec

(* However many applications a user has and however their reviews are      *)
(* interleaved, a row carries the verdict on its own application.          *)
THEOREM VerdictsNotMixed == Spec => []VerdictIsItsOwn
<1>1. ReviewsInv => VerdictIsItsOwn
  BY DEF ReviewsInv, TypeOK, RowOfStage, Written, VerdictIsItsOwn, Stages, Verdicts
<1> QED
  BY <1>1, ReviewsInvariant, PTL

(* A row that no review is at work on stays pending only if a crash or a   *)
(* failed write lost its review, or ai-service answered with an error.     *)
THEOREM StuckByFault == Spec => []StuckOnlyByFault
<1>1. ReviewsInv => StuckOnlyByFault
  BY DEF ReviewsInv, TypeOK, RowOfStage, Written, StuckOnlyByFault, Stages
<1> QED
  BY <1>1, ReviewsInvariant, PTL

-----------------------------------------------------------------------------
(* An application enters the race for a row only through its lookup.       *)
LEMMA NoLateEntrant ==
  ASSUME ReviewsInv, [Next]_vars, NEW u \in Users, RowsOf(u, Merchants) # {},
         NEW a \in Entrants(u)'
  PROVE  a \in Entrants(u) \/ a \in blind'
<1>0. ReviewsInv' /\ a \in Merchants /\ a \in Applications
  BY NextReviews DEF Entrants, Applications
<1>1. form' = form /\ form[a].user = u
  BY DEF Next, vars, LookUp, InsertMerchant, InsertTutor, Store, Answer,
         RecordVerdict, Record, Crash, Entrants
<1>2. CASE stage[a] = "looked" \/ row[a] # "none"
  BY <1>0, <1>1, <1>2 DEF Entrants
<1>3. CASE stage[a] # "looked" /\ row[a] = "none"
  <2>1. stage'[a] = "looked" \/ row'[a] # "none"
    BY DEF Entrants
  <2>2. \A b \in Applications : InsertMerchant(b) \/ InsertTutor(b) =>
          row'[a] = row[a] /\ stage'[a] # "looked"
    BY <1>0, <1>3, ReviewsAssumption
    DEF InsertMerchant, InsertTutor, Store, ReviewsInv, TypeOK
  <2>3. \A b \in Applications : RecordVerdict(b) =>
          row'[a] = row[a] /\ stage'[a] # "looked"
    BY <1>0, <1>3
    DEF RecordVerdict, Record, ReviewsInv, TypeOK, RowOfStage
  <2>4. \A b \in Applications : Answer(b) => row'[a] = row[a] /\ stage'[a] # "looked"
    BY <1>0, <1>3 DEF Answer, ReviewsInv, TypeOK
  <2>5. \A A : Crash(A) => row'[a] = row[a] /\ stage'[a] # "looked"
    BY <1>0, <1>3 DEF Crash
  <2>6. \A b \in Applications : LookUp(b) =>
          row'[a] = row[a] /\ (stage'[a] # "looked" \/ a \in blind')
    BY <1>0, <1>1, <1>3 DEF LookUp, ReviewsInv, TypeOK
  <2> QED
    BY <1>3, <2>1, <2>2, <2>3, <2>4, <2>5, <2>6 DEF Next, vars
<1> QED
  BY <1>2, <1>3

(* Once a user has a merchant's row, only applications that were past the  *)
(* lookup already, or whose lookup failed, can give them another.          *)
THEOREM RacersOnly == Spec => OnlyRacersDuplicate
<1>1. ReviewsInv /\ [Next]_vars =>
        \A u \in Users : RowsOf(u, Merchants) # {} =>
          Entrants(u)' \subseteq Entrants(u) \cup blind'
  BY NoLateEntrant
<1> QED
  BY <1>1, ReviewsInvariant, PTL DEF Spec, OnlyRacersDuplicate

-----------------------------------------------------------------------------
(* Insight: the client has not waited past the deadline while a call is    *)
(* still to be made, and every call so far has failed; without a provider  *)
(* nothing is asked.                                                       *)
Outcomes == {"message", "empty", "panic", "error"}

LuciInv ==
  /\ waited \in Int /\ calls \in Seq(Outcomes)
  /\ told \in {"none", "asked", "message", "failed", "fallback"}
  /\ told = "none" => waited = 0 /\ calls = << >>
  /\ told = "asked" => /\ provider /\ waited <= Deadline /\ Len(calls) < MaxAttempts
                       /\ \A i \in DOMAIN calls : calls[i] = "error"
  /\ InsightBounded

LEMMA PauseType == \A i \in 1..MaxAttempts : Pause(i) \in Int
<1>1. \A i \in 1..MaxAttempts : i = 1 \/ i = 2 \/ i = 3
  BY DEF MaxAttempts
<1>2. Pause(1) \in Int /\ Pause(2) \in Int /\ Pause(3) \in Int
  BY DEF Pause
<1> QED
  BY <1>1, <1>2

LEMMA NoProviderStep ==
  ASSUME LuciInv, NoProvider
  PROVE  LuciInv'
<1>1. /\ told = "none" /\ ~provider /\ provider' = provider
      /\ told' = "fallback" /\ waited' = 0 /\ calls' = << >>
  BY DEF NoProvider, GetInsight, LuciInv
<1> QED
  BY <1>1 DEF LuciInv, InsightBounded, Deadline, CallTimeout

LEMMA AskStep ==
  ASSUME LuciInv, Ask
  PROVE  LuciInv'
<1>1. /\ told = "none" /\ told' = "asked" /\ calls' = calls /\ calls = << >>
      /\ provider /\ provider' = provider
      /\ waited' \in Int /\ waited' <= Deadline
  BY InsightAssumption DEF Ask, LuciInv, CallTimeout
<1> QED
  BY <1>1 DEF LuciInv, InsightBounded, MaxAttempts

(* What a call adds to the calls made.                                     *)
LEMMA CallStep ==
  ASSUME LuciInv, told = "asked", NEW o \in Outcomes, calls' = Append(calls, o)
  PROVE  /\ calls' \in Seq(Outcomes) /\ Len(calls') = Len(calls) + 1
         /\ Len(calls') \in 1..MaxAttempts
         /\ DOMAIN calls' = 1..Len(calls')
         /\ calls'[Len(calls')] = o
         /\ \A i \in DOMAIN calls' : i = Len(calls') \/ calls'[i] = "error"
<1>1. /\ calls \in Seq(Outcomes) /\ Len(calls) \in Nat /\ Len(calls) < MaxAttempts
      /\ \A i \in 1..Len(calls) : calls[i] = "error"
  BY DEF LuciInv
<1> QED
  BY <1>1 DEF MaxAttempts

LEMMA AttemptStep ==
  ASSUME LuciInv, NEW t \in Durations, Attempt(t)
  PROVE  LuciInv'
<1> DEFINE end == waited + t
           n == Len(calls')
<1>1. PICK o \in Outcomes :
        /\ told = "asked" /\ calls' = Append(calls, o)
        /\ provider /\ provider' = provider
        /\ \/ o = "message" /\ GetInsight("message", end)
           \/ o = "empty" /\ GetInsight("fallback", end)
           \/ o = "panic" /\ Recovery(end)
           \/ o = "error" /\ Retry(end, n)
  BY DEF Attempt, ChatCompletion, Outcomes, LuciInv
<1>2. /\ calls' \in Seq(Outcomes) /\ n \in 1..MaxAttempts
      /\ DOMAIN calls' = 1..n /\ calls'[n] = o
      /\ \A i \in DOMAIN calls' : i = n \/ calls'[i] = "error"
  BY <1>1, CallStep
<1>3. end \in Int /\ end <= Deadline + CallTimeout
  BY <1>1, InsightAssumption DEF LuciInv, CallTimeout, Deadline
<1>4. CASE o # "error"
  BY <1>1, <1>2, <1>3, <1>4 DEF GetInsight, Recovery, LuciInv, InsightBounded
<1>5. CASE o = "error"
  <2> DEFINE p == end + Pause(n)
  <2>1. p \in Int
    BY <1>2, <1>3, PauseType
  <2> HIDE DEF p
  <2>2. \/ /\ p <= Deadline /\ n < MaxAttempts /\ told' = told /\ waited' = p
        \/ /\ p <= Deadline /\ n = MaxAttempts
           /\ told' = "fallback" /\ waited' = p
        \/ told' = "fallback" /\ waited' = Later(end, Deadline)
    BY <1>1, <1>2, <1>5 DEF Retry, GetInsight, p, MaxAttempts
  <2>3. /\ Later(end, Deadline) \in Int /\ Later(end, Deadline) >= Deadline
        /\ Later(end, Deadline) <= Deadline + CallTimeout
    BY <1>3 DEF Later, Deadline, CallTimeout
  <2>4. \A i \in DOMAIN calls' : calls'[i] = "error"
    BY <1>2, <1>5
  <2> QED
    BY <1>1, <1>2, <2>1, <2>2, <2>3, <2>4
    DEF LuciInv, InsightBounded, Deadline, CallTimeout
<1> QED
  BY <1>4, <1>5

(* However the calls of Gemini fail or hang, the client waits no longer    *)
(* than the deadline and one call, and is put off early only by three      *)
(* failures, an empty message, or a service that was started without a     *)
(* provider.                                                               *)
THEOREM InsightInTime == LuciSpec => []InsightBounded
<1>1. LuciInit => LuciInv
  BY DEF LuciInit, LuciInv, InsightBounded
<1>2. LuciInv /\ UNCHANGED luci => LuciInv'
  BY DEF luci, LuciInv, InsightBounded
<1>3. LuciInv /\ [GenerateLuciInsight]_luci => LuciInv'
  BY <1>2, NoProviderStep, AskStep, AttemptStep DEF GenerateLuciInsight
<1>4. LuciInv => InsightBounded
  BY DEF LuciInv
<1> QED
  BY <1>1, <1>3, <1>4, PTL DEF LuciSpec
=============================================================================
