----------------------------- MODULE Reminders -----------------------------
(***************************************************************************)
(* engagement-service/internal/worker/retention_worker.go: on every tick   *)
(* of a timer, one query for the users who stayed away, then a push and an *)
(* UPDATE for each row of its answer. (In this commit nothing starts the   *)
(* worker.) Ticks that fire during a scan are dropped, so scans never      *)
(* overlap; the rows of a scan are as the query saw them.                  *)
(*                                                                         *)
(* Time is kept as ages, in days, up to where the query stops telling them *)
(* apart; a NULL last_retention_push is an age beyond that. (A user who    *)
(* never logged in has a NULL last_login, and is never reminded.)          *)
(***************************************************************************)
EXTENDS Integers

CONSTANTS
  Absent,      \* users of the table who have a device
  IdleAfter,   \* days without a login: INTERVAL '48 hours'
  QuietFor     \* days without a reminder: INTERVAL '24 hours'

VARIABLES
  idle,       \* age of users.last_login
  marked,     \* age of users.last_retention_push
  scan,       \* rows of the scan still to be served
  serving,    \* the user just pushed and not yet marked, or "nobody"
  reminded,   \* history: age of the last push that reached the user
  unmarked,   \* history: users whose last reminder left no mark
  back        \* history: users who logged in during this scan

reminders == <<idle, marked, scan, serving, reminded, unmarked, back>>

Long == [idle |-> IdleAfter + 1, quiet |-> QuietFor + 1]
Older(age, most) == IF age < most THEN age + 1 ELSE most

Init ==
  /\ idle = [u \in Absent |-> 0]
  /\ marked = [u \in Absent |-> Long.quiet]
  /\ scan = {} /\ serving = "nobody"
  /\ reminded = [u \in Absent |-> Long.quiet]
  /\ unmarked = {} /\ back = {}

DayPasses ==
  /\ idle' = [u \in Absent |-> Older(idle[u], Long.idle)]
  /\ marked' = [u \in Absent |-> Older(marked[u], Long.quiet)]
  /\ reminded' = [u \in Absent |-> Older(reminded[u], Long.quiet)]
  /\ UNCHANGED <<scan, serving, unmarked, back>>

LogIn(u) ==
  /\ idle' = [idle EXCEPT ![u] = 0]
  /\ back' = IF scan # {} \/ serving # "nobody" THEN back \cup {u} ELSE back
  /\ UNCHANGED <<marked, scan, serving, reminded, unmarked>>

(* Mutant: the query forgets when the user was last reminded.              *)
QueryAbsent ==
  /\ scan = {} /\ serving = "nobody"
  /\ scan' = {u \in Absent : idle[u] > IdleAfter}
  /\ back' = {}
  /\ UNCHANGED <<idle, marked, serving, reminded, unmarked>>

(* A tick of the timer. (A query that fails ends the scan before it begins.)*)
Query ==
  /\ scan = {} /\ serving = "nobody"
  /\ scan' = {u \in Absent : idle[u] > IdleAfter /\ marked[u] > QuietFor}
  /\ back' = {}
  /\ UNCHANGED <<idle, marked, serving, reminded, unmarked>>

Reached(u) ==
  /\ reminded' = [reminded EXCEPT ![u] = 0]
  /\ unmarked' = unmarked \cup {u}

(* SendPushNotification: it reaches the user or not, and reports success or*)
(* an error; only on a reported success is the user marked.                *)
Push(u) ==
  /\ serving = "nobody" /\ u \in scan
  /\ scan' = scan \ {u}
  /\ Reached(u) \/ UNCHANGED <<reminded, unmarked>>
  /\ serving' \in {u, "nobody"}
  /\ UNCHANGED <<idle, marked, back>>

(* The UPDATE, whose error is dropped.                                     *)
Mark ==
  /\ serving # "nobody"
  /\ \/ /\ marked' = [marked EXCEPT ![serving] = 0]
        /\ unmarked' = unmarked \ {serving}
     \/ UNCHANGED <<marked, unmarked>>
  /\ serving' = "nobody"
  /\ UNCHANGED <<idle, scan, reminded, back>>

(* The answer of the query breaks off (rows.Err is not looked at), or the  *)
(* process ends.                                                           *)
Stop ==
  /\ scan' = {} /\ serving' = "nobody" /\ back' = {}
  /\ UNCHANGED <<idle, marked, reminded, unmarked>>
=============================================================================
