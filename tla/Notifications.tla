---------------------------- MODULE Notifications ----------------------------
(***************************************************************************)
(* notification-service: one goroutine takes the events of a durable queue *)
(* in order, looks up the devices of the event's user, pushes a notice to  *)
(* them, logs it from a goroutine of its own and acknowledges the event,   *)
(* whatever came of it. Devices are registered over HTTP meanwhile.        *)
(*                                                                         *)
(* The broker keeps an event until it is acknowledged. It hands events to  *)
(* the client ahead of their handling; when the connection breaks, some of *)
(* those are still handled, though they can no longer be acknowledged. The *)
(* consumer does not reconnect: only a new start of the service does, and  *)
(* a start without the broker leaves the service running without consumer. *)
(***************************************************************************)
EXTENDS Integers, SequencesExt

CONSTANTS
  Users, Tokens,   \* tokens stand for devices
  Events,          \* events published to the queue's topics
  UserOf,          \* the user each is about
  Unhandled,       \* those that do not parse, or of topic "engagement.reward"
  MaxBreaks        \* bound: crashes, restarts and lost connections

ASSUME NotificationsAssumption ==
  /\ UserOf \in [Events -> Users]
  /\ Unhandled \subseteq Events
  /\ MaxBreaks \in Nat

VARIABLES
  queue,      \* broker: published and not acknowledged
  consumer,   \* "on", or "off" after the connection broke
  buffer,     \* events handed to the client and not yet taken
  handling,   \* the event being handled, or "none"
  step,       \* how far handleEvent is with it
  tokens,     \* the devices it has looked up
  table,      \* user_devices: the user of each registered token
  logging,    \* log entries about to be written, <<event, delivered>>
  log,        \* notification_logs
  published, pushes, outcome, holder, strays, breaks   \* history

broker == <<queue, consumer, buffer>>
handler == <<handling, step, tokens>>
history == <<published, pushes, outcome, holder, strays, breaks>>
vars == <<broker, handler, table, logging, log, history>>

Init ==
  /\ queue = <<>> /\ buffer = <<>>
  /\ consumer = "on"
  /\ handling = "none" /\ step = "idle" /\ tokens = {}
  /\ table = [t \in Tokens |-> "none"]
  /\ logging = {} /\ log = {}
  /\ published = {}
  /\ pushes = [e \in Events |-> 0]           \* pushes that got through
  /\ outcome = [e \in Events |-> "none"]     \* what handleEvent came to
  /\ holder = [t \in Tokens |-> "none"]      \* who registered it last
  /\ strays = [t \in Tokens |-> {}]  \* notices of others since then
  /\ breaks = 0

Publish(e) ==
  /\ e \notin published
  /\ published' = published \cup {e}
  /\ queue' = Append(queue, e)
  /\ buffer' = IF consumer = "on" THEN Append(buffer, e) ELSE buffer
  /\ UNCHANGED <<consumer, handler, table, logging, log,
                 pushes, outcome, holder, strays, breaks>>
-----------------------------------------------------------------------------
(* Mutant: the table keeps the first registration of a token.              *)
RegisterFirst(t, u) ==
  /\ holder' = [holder EXCEPT ![t] = u]
  /\ strays' = [strays EXCEPT ![t] = {}]
  /\ table' = IF table[t] = "none" THEN [table EXCEPT ![t] = u] ELSE table
  /\ UNCHANGED <<broker, handler, logging, log, published, pushes, outcome, breaks>>

(* The upsert of a token moves it to its new user.                         *)
RegisterDevice(t, u) ==
  /\ table' = [table EXCEPT ![t] = u]
  /\ holder' = [holder EXCEPT ![t] = u]
  /\ strays' = [strays EXCEPT ![t] = {}]
  /\ UNCHANGED <<broker, handler, logging, log, published, pushes, outcome, breaks>>
-----------------------------------------------------------------------------
(* Mutant: the queue is consumed with automatic acknowledgement.           *)
TakeAutoAck ==
  /\ step = "idle" /\ buffer # <<>>
  /\ handling' = Head(buffer) /\ step' = "taken"
  /\ buffer' = Tail(buffer)
  /\ queue' = IF consumer = "on" THEN Tail(queue) ELSE queue
  /\ UNCHANGED <<consumer, tokens, table, logging, log, history>>

Take ==
  /\ step = "idle" /\ buffer # <<>>
  /\ handling' = Head(buffer) /\ step' = "taken"
  /\ buffer' = Tail(buffer)
  /\ UNCHANGED <<queue, consumer, tokens, table, logging, log, history>>

(* handleEvent comes to an end, but for its deferred Ack.                  *)
End(result) ==
  /\ step' = "ended"
  /\ outcome' = [outcome EXCEPT ![handling] = result]

Discard ==
  /\ step = "taken" /\ handling \in Unhandled
  /\ End("discarded")
  /\ UNCHANGED <<broker, handling, tokens, table, logging, log,
                 published, pushes, holder, strays, breaks>>

TokensOf(u) == {t \in Tokens : table[t] = u}

(* SendPushToUser: GetTokensByUser fails, or finds none, or finds some. It *)
(* does not ask why the rows ended, and an error that cut them short leaves*)
(* it with those before.                                                   *)
LookUp ==
  /\ step = "taken" /\ handling \notin Unhandled
  /\ \E found \in SUBSET TokensOf(UserOf[handling]) :
       \/ End("failed") /\ UNCHANGED tokens
       \/ found = {} /\ End("no device") /\ UNCHANGED tokens
       \/ /\ found # {}
          /\ tokens' = found /\ step' = "looked"
          /\ UNCHANGED outcome
  /\ UNCHANGED <<broker, handling, table, logging, log,
                 published, pushes, holder, strays, breaks>>

(* SendPush. The provider built in is a mock, which does not fail; that of *)
(* the interface it stands for may.                                        *)
Push ==
  /\ step = "looked"
  /\ \/ /\ End("pushed")
        /\ pushes' = [pushes EXCEPT ![handling] = @ + 1]
        /\ strays' = [t \in Tokens |->
             IF t \in tokens /\ holder[t] # UserOf[handling]
               THEN strays[t] \cup {handling} ELSE strays[t]]
        /\ logging' = logging \cup {<<handling, TRUE>>}
     \/ /\ End("failed")
        /\ logging' = logging \cup {<<handling, FALSE>>}
        /\ UNCHANGED <<pushes, strays>>
  /\ tokens' = {}
  /\ UNCHANGED <<broker, handling, table, log, published, holder, breaks>>

AckWhen(done, newQueue, newBuffer) ==
  /\ step = "ended"
  /\ handling' = "none" /\ step' = "idle"
  /\ queue' = IF consumer = "on" /\ done THEN newQueue ELSE queue
  /\ buffer' = IF consumer = "on" /\ done THEN newBuffer ELSE buffer
  /\ UNCHANGED <<consumer, tokens, table, logging, log, history>>

(* Mutant: an event without a delivered notice is not acknowledged.        *)
AckDelivered == AckWhen(outcome[handling] = "pushed", RemoveFirst(queue, handling), buffer)

(* Mutant: Nack with requeue in place of Ack.                              *)
NackRequeue ==
  AckWhen(TRUE, Append(RemoveFirst(queue, handling), handling), Append(buffer, handling))

(* The deferred Ack; its error is ignored.                                 *)
Ack == AckWhen(TRUE, RemoveFirst(queue, handling), buffer)

(* The log's goroutine; the error of the INSERT is ignored.                *)
LogNotification(entry) ==
  /\ entry \in logging
  /\ logging' = logging \ {entry}
  /\ log' \in {log, log \cup {entry}}
  /\ UNCHANGED <<broker, handler, table, history>>
-----------------------------------------------------------------------------
Break ==
  /\ breaks < MaxBreaks
  /\ breaks' = breaks + 1
  /\ UNCHANGED <<queue, table, log, published, pushes, outcome, holder, strays>>

(* The connection breaks. Of the events handed over, the first n are still *)
(* taken, by a consumer that can no longer acknowledge.                    *)
LoseConnection ==
  /\ consumer = "on" /\ Break
  /\ consumer' = "off"
  /\ \E n \in 0..Len(buffer) : buffer' = SubSeq(buffer, 1, n)
  /\ UNCHANGED <<handler, logging>>

(* The service dies or is restarted; it finds the broker, or does not.     *)
Restart ==
  /\ Break
  /\ \/ consumer' = "on" /\ buffer' = queue
     \/ consumer' = "off" /\ buffer' = <<>>
  /\ handling' = "none" /\ step' = "idle" /\ tokens' = {}
  /\ logging' = {}

handleEvent == Take \/ Discard \/ LookUp \/ Push \/ Ack

Next ==
  \/ \E e \in Events : Publish(e)
  \/ \E t \in Tokens, u \in Users : RegisterDevice(t, u)
  \/ handleEvent
  \/ \E entry \in Events \X BOOLEAN : LogNotification(entry)
  \/ LoseConnection \/ Restart

(* The consumer's goroutine is scheduled, and the calls it makes return.   *)
Spec == Init /\ [][Next]_vars /\ WF_vars(handleEvent)
-----------------------------------------------------------------------------
(* No crash or broken connection loses an event: it stays in the queue     *)
(* until handleEvent has come to an end with it (consumer.go:76 "manual    *)
(* ack"). What it came to may be nothing: a failed lookup or push is       *)
(* acknowledged like a notice that was sent.                               *)
NoneLost ==
  \A e \in published :
    (\E i \in 1..Len(queue) : queue[i] = e) \/ outcome[e] # "none"

(* While the consumer is connected, what it has not finished is what the   *)
(* broker holds, in the same order: events are handled in the order they   *)
(* were published, none twice and none skipped.                            *)
InOrder ==
  consumer = "on" =>
    queue = (IF step = "idle" THEN <<>> ELSE <<handling>>) \o buffer

(* A user gets the notice of one event again only after a crash or a broken*)
(* connection, and once for each at most.                                  *)
RepeatedOnlyAfterBreak == \A e \in Events : pushes[e] <= 1 + breaks

(* The lookup and the push are two steps: after a device has changed hands,*)
(* a notice meant for another user can still reach it, but only the one    *)
(* that was being handled.                                                 *)
AtMostOneStray == \A t \in Tokens : Cardinality(strays[t]) <= 1

(* A connected consumer gets every event out of the queue, unless it loses *)
(* its connection.                                                         *)
QueueDrains ==
  \A e \in Events :
    e \in published /\ consumer = "on"
      ~> ~(\E i \in 1..Len(queue) : queue[i] = e) \/ consumer = "off"
=============================================================================
