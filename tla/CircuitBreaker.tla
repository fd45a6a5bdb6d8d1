--------------------------- MODULE CircuitBreaker ---------------------------
(***************************************************************************)
(* api-gateway/middleware/circuit_breaker.go: one breaker, the critical    *)
(* sections of its methods as actions. A request passes Allow, then its    *)
(* downstream call runs unlocked, then its outcome is recorded: Gateway    *)
(* interleaves those.                                                      *)
(*                                                                         *)
(* Time is counted in ticks, and only up to where Allow stops telling      *)
(* durations apart; failures are counted up to MaxFailures likewise.       *)
(***************************************************************************)
EXTENDS Integers

CONSTANTS
  MaxFailures,    \* failures that trip the breaker
  ResetTimeout,   \* ticks a tripped breaker rejects for
  HalfOpenMax     \* successes that would close a half-open breaker

VARIABLES
  state,       \* "closed", "open" or "half-open"
  failures,    \* recorded since the last success, up to MaxFailures
  successes,   \* recorded while half-open
  quiet        \* ticks since the last recorded failure

breaker == <<state, failures, successes, quiet>>

Init ==
  /\ state = "closed"
  /\ failures = 0
  /\ successes = 0
  /\ quiet = ResetTimeout + 1

Least(m, n) == IF m < n THEN m ELSE n

Tick ==
  /\ quiet' = Least(quiet + 1, ResetTimeout + 1)
  /\ UNCHANGED <<state, failures, successes>>

(* Mutant: an open breaker waits for the transition to half-open.          *)
AllowHalfOpen ==
  \/ state = "closed"
  \/ state = "half-open" /\ successes < HalfOpenMax

(* An open breaker lets everything through once it has been quiet for long *)
(* enough; that changes no state.                                          *)
Allow ==
  \/ state = "closed"
  \/ state = "open" /\ quiet > ResetTimeout
  \/ state = "half-open" /\ successes < HalfOpenMax

RecordSuccess ==
  /\ IF state = "half-open"
     THEN LET closes == successes + 1 >= HalfOpenMax
          IN  /\ state' = IF closes THEN "closed" ELSE state
              /\ successes' = IF closes THEN 0 ELSE successes + 1
              /\ failures' = IF closes THEN 0 ELSE failures
     ELSE failures' = 0 /\ UNCHANGED <<state, successes>>
  /\ UNCHANGED quiet

RecordFailure ==
  /\ failures' = Least(failures + 1, MaxFailures)
  /\ quiet' = 0
  /\ state' = IF failures' >= MaxFailures THEN "open" ELSE state
  /\ UNCHANGED successes
=============================================================================
