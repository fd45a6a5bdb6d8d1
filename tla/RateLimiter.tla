---------------------------- MODULE RateLimiter ----------------------------
(***************************************************************************)
(* api-gateway/middleware/rate_limiter.go: one Redis counter per client    *)
(* (a user id, or an address), incremented and given a fresh time to live  *)
(* by every request, admitted or not.                                      *)
(*                                                                         *)
(* Time is counted in ticks. A counter is counted up to MaxRequests + 1,   *)
(* beyond which Limit does not tell values apart.                          *)
(***************************************************************************)
EXTENDS Integers

CONSTANTS
  Clients,       \* the keys "rl:user:..." and "rl:ip:..."
  MaxRequests,   \* per window and client
  Window         \* ticks in a window

VARIABLES
  count,      \* Redis: the counter of each client
  ttl,        \* Redis: ticks until it expires; 0: no expiry set
  admitted,   \* history: requests let through since i ticks ago, on Redis's word
  sent        \* history: requests that reached Limit in this tick

limiter == <<count, ttl, admitted, sent>>

Ages == 0..Window - 1

Init ==
  /\ count = [c \in Clients |-> 0]
  /\ ttl = [c \in Clients |-> 0]
  /\ admitted = [c \in Clients |-> [i \in Ages |-> 0]]
  /\ sent = [c \in Clients |-> 0]

(* The requests of a client that were let through in the last window.      *)
Recent(c) == admitted[c][Window - 1]

(* A key whose time to live runs out is gone.                              *)
Tick ==
  /\ count' = [c \in Clients |-> IF ttl[c] = 1 THEN 0 ELSE count[c]]
  /\ ttl' = [c \in Clients |-> IF ttl[c] = 0 THEN 0 ELSE ttl[c] - 1]
  /\ admitted' = [c \in Clients |->
       [i \in Ages |-> IF i = 0 THEN 0 ELSE admitted[c][i - 1]]]
  /\ sent' = [c \in Clients |-> 0]

Counted(c) == IF count[c] > MaxRequests THEN count[c] ELSE count[c] + 1

Sent(c) == sent' = [sent EXCEPT ![c] = @ + 1]

Incr(c) == count' = [count EXCEPT ![c] = Counted(c)]

(* Mutant: the window starts at the first request and is not extended.     *)
ExpireOnce(c) == ttl' = [ttl EXCEPT ![c] = IF count[c] = 0 THEN Window ELSE @]

(* EXPIRE on every request: the window starts again.                       *)
Expire(c) == ttl' = [ttl EXCEPT ![c] = Window]

(* The pipeline INCR; EXPIRE succeeds and the counter decides.             *)
Admit(c) ==
  /\ Counted(c) <= MaxRequests
  /\ Incr(c) /\ Expire(c)
  /\ admitted' = [admitted EXCEPT ![c] = [i \in Ages |-> @[i] + 1]]
  /\ Sent(c)

Refuse(c) ==
  /\ Counted(c) > MaxRequests
  /\ Incr(c) /\ Expire(c)
  /\ Sent(c)
  /\ UNCHANGED admitted

(* Redis fails before, between or after the two commands: the request is   *)
(* let through. A key may be left without a time to live until the next    *)
(* request gives it one.                                                   *)
FailOpen(c) ==
  /\ \/ UNCHANGED <<count, ttl>>
     \/ Incr(c) /\ UNCHANGED ttl
     \/ Incr(c) /\ Expire(c)
  /\ Sent(c)
  /\ UNCHANGED admitted
=============================================================================
