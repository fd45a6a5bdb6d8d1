------------------------------ MODULE Insight ------------------------------
(***************************************************************************)
(* ai-service/internal/usecase, GenerateLuciInsight: up to three calls to  *)
(* Gemini with a growing pause after each failure, under a deadline of four*)
(* seconds. The deadline ends the query before the calls and the pauses    *)
(* between them; a call itself runs under a context of its own             *)
(* (gemini/provider.go), which ends after thirty seconds. A service that   *)
(* was started without an API key has no provider and calls nothing.       *)
(*                                                                         *)
(* Time is counted in half seconds from the request's arrival.             *)
(***************************************************************************)
EXTENDS Integers, Sequences

CONSTANT Durations   \* of queries and calls, the ones worth trying

Deadline == 8
CallTimeout == 60
MaxAttempts == 3
Pause(i) == 2^(i - 1)

ASSUME InsightAssumption ==
  CallTimeout \in Durations /\ Durations \subseteq 0..CallTimeout

VARIABLES
  provider, \* whether the service was started with an API key
  waited,   \* how long the client has waited
  calls,    \* what the calls of Gemini have given so far
  told      \* "asked", then what the client is told; "none" before

luci == <<provider, waited, calls, told>>

LuciInit ==
  provider \in BOOLEAN /\ waited = 0 /\ calls = << >> /\ told = "none"

Later(s, t) == IF s > t THEN s ELSE t
-----------------------------------------------------------------------------
(* The handler answers 200 with it, the error being always nil.            *)
GetInsight(message, t) == told' = message /\ waited' = t

(* Without a provider the fallback is the answer, before anything is done. *)
NoProvider ==
  /\ told = "none" /\ ~provider
  /\ GetInsight("fallback", waited)
  /\ UNCHANGED <<provider, calls>>

(* With one, the query for earlier insights; the deadline ends it.         *)
Ask ==
  /\ told = "none" /\ provider
  /\ told' = "asked"
  /\ waited' \in {t \in Durations : t <= Deadline}
  /\ UNCHANGED <<provider, calls>>

(* A call takes the time t: it gives a message, or an empty one, or panics *)
(* on a candidate without content, or fails, the last in any case when its *)
(* time is up.                                                             *)
ChatCompletion(t, outcome) ==
  /\ told = "asked"
  /\ t = CallTimeout => outcome = "error"
  /\ calls' = Append(calls, outcome)
  /\ UNCHANGED provider

(* gin's recovery answers a panic with 500.                                *)
Recovery(t) == told' = "failed" /\ waited' = t

(* Mutant: the pauses are slept through.                                   *)
SleepThrough(end, attempt) ==
  IF attempt < MaxAttempts
    THEN UNCHANGED told /\ waited' = end + Pause(attempt)
    ELSE GetInsight("fallback", end + Pause(attempt))

(* After a failed call, the pause and the deadline race; the last pause is *)
(* followed by no call.                                                    *)
Retry(end, attempt) ==
  \/ /\ end + Pause(attempt) <= Deadline
     /\ IF attempt < MaxAttempts
          THEN UNCHANGED told /\ waited' = end + Pause(attempt)
          ELSE GetInsight("fallback", end + Pause(attempt))
  \/ /\ end + Pause(attempt) >= Deadline
     /\ GetInsight("fallback", Later(end, Deadline))

(* One round of the loop.                                                  *)
Attempt(t) ==
  \/ ChatCompletion(t, "message") /\ GetInsight("message", waited + t)
  \/ ChatCompletion(t, "empty") /\ GetInsight("fallback", waited + t)
  \/ ChatCompletion(t, "panic") /\ Recovery(waited + t)
  \/ ChatCompletion(t, "error") /\ Retry(waited + t, Len(calls'))

GenerateLuciInsight == NoProvider \/ Ask \/ \E t \in Durations : Attempt(t)

LuciSpec == LuciInit /\ [][GenerateLuciInsight]_luci
-----------------------------------------------------------------------------
(* ai_usecase.go:60 "Bound the entire operation": the client waits for no  *)
(* more than the deadline and one call, however calls fail or hang. It is  *)
(* told what Gemini said if Gemini said anything, and that the service     *)
(* failed only if a call panicked. It is put off before the deadline only  *)
(* by three failures, by an empty message, or by a service that has no     *)
(* provider, and such a service puts it off at once and calls nothing.     *)
InsightBounded ==
  told \notin {"none", "asked"} =>
    /\ waited <= Deadline + CallTimeout
    /\ told = "message" <=> \E i \in DOMAIN calls : calls[i] = "message"
    /\ told = "failed" <=> \E i \in DOMAIN calls : calls[i] = "panic"
    /\ told = "fallback" =>
         \/ waited >= Deadline \/ Len(calls) = MaxAttempts
         \/ \E i \in DOMAIN calls : calls[i] = "empty"
         \/ ~provider
    /\ ~provider => told = "fallback" /\ waited = 0 /\ calls = << >>
=============================================================================
