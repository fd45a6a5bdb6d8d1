------------------------------ MODULE Reviews -------------------------------
(***************************************************************************)
(* Applications to sell (marketplace-service) and to teach (edtech-        *)
(* service). Each is stored as pending, and a background goroutine asks    *)
(* ai-service for a verdict and writes it to the row. The goroutine's call *)
(* of ai-service has no timeout, and no failure is retried.                *)
(*                                                                         *)
(* A merchant's handler looks the user up before it inserts; nothing in    *)
(* the table keeps a user from a second row. A tutor's handler inserts,    *)
(* and the table refuses a second row of the user.                         *)
(***************************************************************************)
CONSTANTS
  Users,
  Merchants,    \* applications posted to marketplace-service
  Tutors        \* applications posted to edtech-service

ASSUME ReviewsAssumption == Merchants \cap Tutors = {}

Applications == Merchants \cup Tutors

VARIABLES
  form,     \* each application's user, and whether it describes itself
  stage,    \* where its handler, then its review, is
  row,      \* the status of its row, or "none"
  reply,    \* what ai-service has answered of it, or "none"
  blind     \* merchants whose lookup failed, which is taken as "not found"

vars == <<form, stage, row, reply, blind>>

Stages == {"new", "looked", "refused", "asking", "answered", "done", "lost"}
Verdicts == {"approved", "rejected"}
(* "error": any status but 200; "garbled": 200 with a verdict that is       *)
(* neither word, or with a body that breaks off.                           *)
Replies == Verdicts \cup {"error", "garbled"}

RowsOf(u, A) == {a \in A : row[a] # "none" /\ form[a].user = u}

Init ==
  /\ form \in [Applications -> [user : Users, described : BOOLEAN]]
  /\ stage = [a \in Applications |-> "new"]
  /\ row = [a \in Applications |-> "none"]
  /\ reply = [a \in Applications |-> "none"]
  /\ blind = {}
-----------------------------------------------------------------------------
(* Mutant: the handler does not look.                                      *)
NoLookUp(a) ==
  /\ a \in Merchants /\ stage[a] = "new"
  /\ stage' = [stage EXCEPT ![a] = "looked"]
  /\ UNCHANGED <<form, row, reply, blind>>

(* CreateMerchant up to its lookup. A failed lookup does not stop it.      *)
LookUp(a) ==
  /\ a \in Merchants /\ stage[a] = "new"
  /\ \/ /\ stage' = [stage EXCEPT ![a] =
             IF RowsOf(form[a].user, Merchants) = {} THEN "looked" ELSE "refused"]
        /\ UNCHANGED blind
     \/ /\ stage' = [stage EXCEPT ![a] = "looked"]
        /\ blind' = blind \cup {a}
  /\ UNCHANGED <<form, row, reply>>

(* The INSERT succeeds; or it fails, and the handler answers with an error;*)
(* or its row is stored and the handler does not learn of it.              *)
Store(a) ==
  /\ \/ /\ row' = [row EXCEPT ![a] = "pending"]
        /\ stage' \in {[stage EXCEPT ![a] = s] : s \in {"asking", "lost"}}
     \/ /\ stage' = [stage EXCEPT ![a] = "refused"]
        /\ UNCHANGED row
  /\ UNCHANGED <<form, reply, blind>>

InsertMerchant(a) == a \in Merchants /\ stage[a] = "looked" /\ Store(a)

(* CreateTutor: the table has one row to a user.                           *)
InsertTutor(a) ==
  /\ a \in Tutors /\ stage[a] = "new"
  /\ \/ RowsOf(form[a].user, Tutors) = {} /\ Store(a)
     \/ /\ RowsOf(form[a].user, Tutors) # {}
        /\ stage' = [stage EXCEPT ![a] = "refused"]
        /\ UNCHANGED <<form, row, reply, blind>>

(* ai-service: ReviewMerchant and ReviewTutor require a description or bio,*)
(* which the forms do not.                                                 *)
Answer(a) ==
  /\ stage[a] = "asking"
  /\ \E r \in IF form[a].described THEN Replies ELSE {"error"} :
       reply' = [reply EXCEPT ![a] = r]
  /\ stage' = [stage EXCEPT ![a] = "answered"]
  /\ UNCHANGED <<form, row, blind>>

(* The rest of the goroutine: the error of the UPDATE is ignored.          *)
Record(a, newRow) ==
  /\ stage[a] = "answered"
  /\ \/ /\ row' = newRow
        /\ stage' = [stage EXCEPT ![a] = "done"]
     \/ /\ newRow # row
        /\ stage' = [stage EXCEPT ![a] = "lost"]
        /\ UNCHANGED row
  /\ UNCHANGED <<form, reply, blind>>

(* Mutant: only the two verdicts are written.                              *)
RecordIfKnown(a) ==
  Record(a, IF reply[a] \in Verdicts THEN [row EXCEPT ![a] = reply[a]] ELSE row)

(* Mutant: the rejection is not written.                                   *)
RecordApproval(a) ==
  Record(a, IF reply[a] = "approved" THEN [row EXCEPT ![a] = reply[a]] ELSE row)

(* Mutant: the UPDATE selects by user instead of by id.                    *)
RecordByUser(a) ==
  Record(a, [b \in Applications |->
    IF form[b].user = form[a].user /\ row[b] # "none" /\ reply[a] \in Verdicts
      THEN reply[a] ELSE row[b]])

RecordVerdict(a) ==
  Record(a, CASE reply[a] = "error" -> row
              [] reply[a] = "approved" -> [row EXCEPT ![a] = "approved"]
              [] OTHER -> [row EXCEPT ![a] = "rejected"])

(* A crash of marketplace-service (A = Merchants) or of edtech-service ends*)
(* every handler and review it runs; none is resumed.                      *)
Crash(A) ==
  /\ \E a \in A : stage[a] \in {"looked", "asking", "answered"}
  /\ stage' = [a \in Applications |->
       IF a \in A /\ stage[a] \in {"looked", "asking", "answered"}
         THEN "lost" ELSE stage[a]]
  /\ UNCHANGED <<form, row, reply, blind>>

Next ==
  \/ \E a \in Applications :
       \/ LookUp(a) \/ InsertMerchant(a) \/ InsertTutor(a)
       \/ Answer(a) \/ RecordVerdict(a)
  \/ \E A \in {Merchants, Tutors} : Crash(A)

(* A running goroutine that has its answer is scheduled. That ai-service   *)
(* answers at all is not assumed: nothing bounds the wait.                 *)
Spec == Init /\ [][Next]_vars /\ \A a \in Applications : WF_vars(RecordVerdict(a))
-----------------------------------------------------------------------------
(* Merchant applications of u that have, or may yet get, a row.            *)
Entrants(u) ==
  {a \in Merchants : form[a].user = u /\ (stage[a] = "looked" \/ row[a] # "none")}

(* merchant.go:58 "Check if already a merchant": once a user has a row, no *)
(* further application of theirs gets past the lookup, unless the lookup   *)
(* failed. Only those that raced with the first one can still add rows.    *)
OnlyRacersDuplicate ==
  [][\A u \in Users : RowsOf(u, Merchants) # {} =>
       Entrants(u)' \subseteq Entrants(u) \cup blind']_vars

(* However the reviews of one user's rows are interleaved, a row carries   *)
(* the verdict on its own application, and is approved by nothing less.    *)
VerdictIsItsOwn ==
  \A a \in Applications :
    /\ row[a] = "approved" => reply[a] = "approved"
    /\ row[a] = "rejected" => reply[a] \in {"rejected", "garbled"}

(* A row on which no review is at work stays pending only if its review was*)
(* lost to a crash or a failed write, or ai-service answered with an error.*)
StuckOnlyByFault ==
  \A a \in Applications :
    row[a] = "pending" /\ stage[a] \notin {"asking", "answered"}
      => stage[a] = "lost" \/ reply[a] = "error"

(* A verdict that was given reaches the row, or its service crashed or the *)
(* write failed.                                                           *)
VerdictArrives ==
  \A a \in Applications :
    reply[a] \in Verdicts ~> row[a] = reply[a] \/ stage[a] = "lost"
=============================================================================
