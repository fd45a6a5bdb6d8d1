------------------------- MODULE NotificationsProofs -------------------------
(***************************************************************************)
(* Proofs about Notifications, for any users, devices and events and any   *)
(* number of crashes and lost connections.                                 *)
(***************************************************************************)
EXTENDS Notifications, FiniteSetTheorems, SequenceTheorems, TLAPS

In(e, s) == \E i \in 1..Len(s) : s[i] = e
Once(s) == \A i, j \in 1..Len(s) : s[i] = s[j] => i = j

LEMMA AppendSeq ==
  ASSUME NEW S, NEW s \in Seq(S), NEW e \in S
  PROVE  /\ Append(s, e) \in Seq(S)
         /\ \A f : In(f, Append(s, e)) <=> In(f, s) \/ f = e
         /\ Once(s) /\ ~In(e, s) => Once(Append(s, e))
<1>1. /\ Append(s, e) \in Seq(S) /\ Len(Append(s, e)) = Len(s) + 1 /\ Len(s) \in Nat
      /\ \A i \in 1..Len(s) : Append(s, e)[i] = s[i]
      /\ Append(s, e)[Len(s) + 1] = e
  OBVIOUS
<1> QED
  BY <1>1 DEF In, Once

LEMMA ConsSeq ==
  ASSUME NEW S, NEW s \in Seq(S), NEW e \in S
  PROVE  /\ <<e>> \o s \in Seq(S)
         /\ \A f : In(f, <<e>> \o s) <=> f = e \/ In(f, s)
         /\ Once(<<e>> \o s) => Once(s) /\ ~In(e, s)
         /\ \A f \in S : Append(<<e>> \o s, f) = <<e>> \o Append(s, f)
<1> DEFINE c == <<e>> \o s
<1>1. /\ c \in Seq(S) /\ Len(c) = Len(s) + 1 /\ Len(s) \in Nat /\ c[1] = e
      /\ \A i \in 1..Len(s) : c[i + 1] = s[i]
      /\ \A i \in 2..Len(c) : c[i] = s[i - 1]
  OBVIOUS
<1>2. \A f \in S : Append(c, f) = <<e>> \o Append(s, f)
  OBVIOUS
<1> HIDE DEF c
<1>3. ASSUME NEW f PROVE In(f, c) <=> f = e \/ In(f, s)
  <2>1. ASSUME NEW i \in 1..Len(c), c[i] = f PROVE f = e \/ In(f, s)
    BY <1>1, <2>1 DEF In
  <2>2. ASSUME NEW i \in 1..Len(s), s[i] = f PROVE In(f, c)
    BY <1>1, <2>2 DEF In
  <2>3. In(e, c)
    BY <1>1 DEF In
  <2> QED
    BY <2>1, <2>2, <2>3 DEF In
<1>4. ASSUME Once(c) PROVE Once(s) /\ ~In(e, s)
  <2>1. \A i \in 1..Len(s) : i + 1 \in 1..Len(c) /\ i + 1 # 1 /\ 1 \in 1..Len(c)
    BY <1>1
  <2>2. ASSUME NEW i \in 1..Len(s), NEW j \in 1..Len(s), s[i] = s[j] PROVE i = j
    <3>1. i + 1 = j + 1
      BY <1>1, <1>4, <2>1, <2>2 DEF Once
    <3> QED
      BY <3>1
  <2>3. ASSUME NEW i \in 1..Len(s) PROVE s[i] # e
    BY <1>1, <1>4, <2>1 DEF Once
  <2> QED
    BY <2>2, <2>3 DEF Once, In
<1> QED
  BY <1>1, <1>2, <1>3, <1>4 DEF c

LEMMA TailSeq ==
  ASSUME NEW S, NEW s \in Seq(S), s # << >>
  PROVE  /\ Head(s) \in S /\ Tail(s) \in Seq(S)
         /\ s = <<Head(s)>> \o Tail(s)
OBVIOUS

LEMMA PrefixSeq ==
  ASSUME NEW S, NEW s \in Seq(S), NEW n \in 0..Len(s)
  PROVE  /\ SubSeq(s, 1, n) \in Seq(S)
         /\ \A e : In(e, SubSeq(s, 1, n)) => In(e, s)
         /\ Once(s) => Once(SubSeq(s, 1, n))
<1>1. /\ SubSeq(s, 1, n) \in Seq(S) /\ Len(SubSeq(s, 1, n)) = n
      /\ \A i \in 1..n : SubSeq(s, 1, n)[i] = s[i]
  OBVIOUS
<1> QED
  BY <1>1 DEF In, Once

LEMMA RemoveHead ==
  ASSUME NEW S, NEW s \in Seq(S), NEW e \in S
  PROVE  RemoveFirst(<<e>> \o s, e) = s
<1> DEFINE c == <<e>> \o s
           I == {i \in 1..Len(c) : c[i] = e}
<1>1. c \in Seq(S) /\ Len(c) = Len(s) + 1 /\ c[1] = e /\ Len(s) \in Nat
  OBVIOUS
<1>2. 1 \in I /\ \A i \in I : 1 <= i
  BY <1>1
<1>3. Min(I) = 1
  BY <1>2 DEF Min
<1>4. RemoveAt(c, 1) = s
  BY DEF RemoveAt
<1> QED
  BY <1>1, <1>2, <1>3, <1>4 DEF RemoveFirst, SelectInSeq

-----------------------------------------------------------------------------
Types ==
  /\ queue \in Seq(Events) /\ buffer \in Seq(Events)
  /\ consumer \in {"on", "off"}
  /\ step \in {"idle", "taken", "looked", "ended"}
  /\ step # "idle" => handling \in Events
  /\ tokens \subseteq Tokens
  /\ holder \in [Tokens -> Users \cup {"none"}] /\ table = holder
  /\ published \subseteq Events
  /\ pushes \in [Events -> Nat] /\ breaks \in Nat
  /\ outcome = [e \in Events |-> outcome[e]]
  /\ strays \in [Tokens -> SUBSET Events]

(* Every event waits once at most, in the broker and in the client.        *)
WaitsOnce ==
  /\ Once(queue) /\ Once(buffer)
  /\ \A e : In(e, queue) \/ In(e, buffer) => e \in published
  /\ step # "idle" => handling \in published /\ ~In(handling, buffer)

(* An event is lost by the broker only after its end.                      *)
EndedFirst ==
  /\ \A e \in published : In(e, queue) \/ outcome[e] # "none"
  /\ step = "ended" => outcome[handling] # "none"

(* An event that may still be pushed has not been pushed since the last    *)
(* break.                                                                  *)
Due(e) ==
  \/ e \notin published
  \/ In(e, buffer)
  \/ step \in {"taken", "looked"} /\ handling = e

PushedOnce ==
  \A e \in Events : pushes[e] <= 1 + breaks /\ (Due(e) => pushes[e] <= breaks)

(* A device that was looked up has not changed hands, or has had no stray  *)
(* notice since.                                                           *)
StraySince ==
  /\ \A t \in Tokens : strays[t] = {} \/ \E e : strays[t] = {e}
  /\ step # "looked" => tokens = {}
  /\ \A t \in tokens : holder[t] = UserOf[handling] \/ strays[t] = {}

NoticeInv ==
  /\ Types /\ WaitsOnce /\ InOrder /\ EndedFirst /\ PushedOnce /\ StraySince

-----------------------------------------------------------------------------
LEMMA InitNotice == Init => NoticeInv
<1> SUFFICES ASSUME Init PROVE NoticeInv
  OBVIOUS
<1>1. \A e : ~In(e, << >>)
  BY DEF In
<1>2. Types
  BY NotificationsAssumption DEF Init, Types
<1>3. WaitsOnce /\ EndedFirst /\ InOrder
  BY <1>1 DEF Init, WaitsOnce, EndedFirst, InOrder, Once
<1>4. PushedOnce /\ StraySince
  BY NotificationsAssumption DEF Init, PushedOnce, Due, StraySince
<1> QED
  BY <1>2, <1>3, <1>4 DEF NoticeInv

LEMMA PublishStep ==
  ASSUME NoticeInv, NEW e \in Events, Publish(e)
  PROVE  NoticeInv'
<1>1. /\ Types /\ WaitsOnce /\ InOrder /\ EndedFirst /\ PushedOnce /\ StraySince
  BY DEF NoticeInv
<1>2. /\ e \notin published /\ published' = published \cup {e}
      /\ queue' = Append(queue, e)
      /\ buffer' = IF consumer = "on" THEN Append(buffer, e) ELSE buffer
      /\ UNCHANGED <<consumer, handling, step, tokens, table, logging, log,
                     pushes, outcome, holder, strays, breaks>>
  BY DEF Publish, handler
<1>3. /\ queue \in Seq(Events) /\ buffer \in Seq(Events)
      /\ queue' \in Seq(Events) /\ buffer' \in Seq(Events)
      /\ ~In(e, queue) /\ ~In(e, buffer)
      /\ \A f : In(f, queue') <=> In(f, queue) \/ f = e
      /\ \A f : In(f, buffer') => In(f, buffer) \/ f = e
      /\ Once(queue') /\ Once(buffer')
  BY <1>1, <1>2, AppendSeq DEF Types, WaitsOnce
<1>4. Types'
  BY <1>1, <1>2, <1>3 DEF Types
<1>5. WaitsOnce'
  BY <1>1, <1>2, <1>3 DEF WaitsOnce
<1>6. InOrder'
  <2> SUFFICES ASSUME consumer = "on"
               PROVE  queue' = (IF step = "idle" THEN << >> ELSE <<handling>>) \o buffer'
    BY <1>2 DEF InOrder
  <2>1. CASE step = "idle"
    BY <1>1, <1>2, <1>3, <2>1, ConcatEmptySeq DEF InOrder
  <2>2. CASE step # "idle"
    <3>1. /\ queue = <<handling>> \o buffer
          /\ queue' = Append(queue, e) /\ buffer' = Append(buffer, e)
      BY <1>1, <1>2, <2>2 DEF InOrder
    <3>2. handling \in Events
      BY <1>1, <2>2 DEF Types
    <3>3. buffer \in Seq(Events)
      BY <1>1 DEF Types
    <3>4. \A f \in Events :
            Append(<<handling>> \o buffer, f) = <<handling>> \o Append(buffer, f)
      BY <3>2, <3>3, ConsSeq
    <3> QED
      BY <2>2, <3>1, <3>4
  <2> QED
    BY <2>1, <2>2
<1>7. EndedFirst'
  BY <1>1, <1>2, <1>3 DEF EndedFirst
<1>8. PushedOnce'
  <2> SUFFICES ASSUME NEW f \in Events
               PROVE  pushes[f] <= 1 + breaks /\ (Due(f)' => pushes[f] <= breaks)
    BY <1>2 DEF PushedOnce
  <2>1. CASE f = e
    BY <1>1, <1>2, <2>1 DEF PushedOnce, Due
  <2>2. CASE f # e
    <3>1. Due(f)' => Due(f)
      BY <1>2, <1>3, <2>2 DEF Due
    <3> QED
      BY <1>1, <3>1 DEF PushedOnce
  <2> QED
    BY <2>1, <2>2
<1>9. StraySince'
  BY <1>1, <1>2 DEF StraySince
<1> QED
  BY <1>4, <1>5, <1>6, <1>7, <1>8, <1>9 DEF NoticeInv

LEMMA RegisterStep ==
  ASSUME NoticeInv, NEW t \in Tokens, NEW u \in Users, RegisterDevice(t, u)
  PROVE  NoticeInv'
<1>1. /\ Types /\ WaitsOnce /\ InOrder /\ EndedFirst /\ PushedOnce /\ StraySince
  BY DEF NoticeInv
<1>2. /\ table' = [table EXCEPT ![t] = u] /\ holder' = [holder EXCEPT ![t] = u]
      /\ strays' = [strays EXCEPT ![t] = {}]
      /\ UNCHANGED <<queue, consumer, buffer, handling, step, tokens, logging,
                     log, published, pushes, outcome, breaks>>
  BY DEF RegisterDevice, broker, handler
<1>3. Types'
  BY <1>1, <1>2 DEF Types
<1>4. WaitsOnce' /\ InOrder' /\ EndedFirst' /\ PushedOnce'
  BY <1>1, <1>2 DEF WaitsOnce, InOrder, EndedFirst, PushedOnce, Due
<1>5. StraySince'
  BY <1>1, <1>2 DEF StraySince, Types
<1> QED
  BY <1>3, <1>4, <1>5 DEF NoticeInv

LEMMA TakeStep ==
  ASSUME NoticeInv, Take
  PROVE  NoticeInv'
<1>1. /\ Types /\ WaitsOnce /\ InOrder /\ EndedFirst /\ PushedOnce /\ StraySince
  BY DEF NoticeInv
<1>2. /\ step = "idle" /\ buffer # << >>
      /\ handling' = Head(buffer) /\ step' = "taken" /\ buffer' = Tail(buffer)
      /\ UNCHANGED <<queue, consumer, tokens, table, logging, log, published,
                     pushes, outcome, holder, strays, breaks>>
  BY DEF Take, history
<1>3. /\ buffer \in Seq(Events) /\ buffer' \in Seq(Events) /\ handling' \in Events
      /\ buffer = <<handling'>> \o buffer'
  BY <1>1, <1>2, TailSeq DEF Types
<1>4. /\ \A f : In(f, buffer) <=> f = handling' \/ In(f, buffer')
      /\ Once(buffer') /\ ~In(handling', buffer')
  BY <1>1, <1>3, ConsSeq DEF WaitsOnce
<1>5. Types'
  BY <1>1, <1>2, <1>3 DEF Types
<1>6. WaitsOnce'
  BY <1>1, <1>2, <1>4 DEF WaitsOnce
<1>7. InOrder'
  BY <1>1, <1>2, <1>3, ConcatEmptySeq DEF InOrder
<1>8. EndedFirst'
  BY <1>1, <1>2 DEF EndedFirst
<1>9. PushedOnce'
  BY <1>1, <1>2, <1>4 DEF PushedOnce, Due
<1>10. StraySince'
  BY <1>1, <1>2 DEF StraySince
<1> QED
  BY <1>5, <1>6, <1>7, <1>8, <1>9, <1>10 DEF NoticeInv

(* handleEvent is done with an event, or has looked its devices up.        *)
LEMMA HandledStep ==
  ASSUME NoticeInv, Discard \/ LookUp
  PROVE  NoticeInv'
<1>1. /\ Types /\ WaitsOnce /\ InOrder /\ EndedFirst /\ PushedOnce /\ StraySince
  BY DEF NoticeInv
<1>2. /\ step = "taken"
      /\ UNCHANGED <<queue, consumer, buffer, handling, table, logging, log,
                     published, pushes, holder, strays, breaks>>
      /\ \/ /\ step' = "ended" /\ tokens' = tokens
            /\ \E r \in {"discarded", "failed", "no device"} :
                 outcome' = [outcome EXCEPT ![handling] = r]
         \/ /\ step' = "looked" /\ tokens' \subseteq TokensOf(UserOf[handling])
            /\ outcome' = outcome
  BY DEF Discard, LookUp, End, broker
<1>3. Types'
  BY <1>1, <1>2 DEF Types, TokensOf
<1>4. WaitsOnce' /\ InOrder'
  BY <1>1, <1>2 DEF WaitsOnce, InOrder
<1>5. EndedFirst'
  BY <1>1, <1>2 DEF EndedFirst, Types
<1>6. PushedOnce'
  BY <1>1, <1>2 DEF PushedOnce, Due
<1>7. StraySince'
  BY <1>1, <1>2 DEF StraySince, TokensOf, Types
<1> QED
  BY <1>3, <1>4, <1>5, <1>6, <1>7 DEF NoticeInv

LEMMA PushStep ==
  ASSUME NoticeInv, Push
  PROVE  NoticeInv'
<1>1. /\ Types /\ WaitsOnce /\ InOrder /\ EndedFirst /\ PushedOnce /\ StraySince
  BY DEF NoticeInv
<1>2. /\ step = "looked" /\ step' = "ended" /\ tokens' = {}
      /\ UNCHANGED <<queue, consumer, buffer, handling, table, log, published,
                     holder, breaks>>
      /\ \E r \in {"pushed", "failed"} : outcome' = [outcome EXCEPT ![handling] = r]
      /\ \/ /\ pushes' = [pushes EXCEPT ![handling] = @ + 1]
            /\ strays' = [t \in Tokens |->
                 IF t \in tokens /\ holder[t] # UserOf[handling]
                   THEN strays[t] \cup {handling} ELSE strays[t]]
         \/ UNCHANGED <<pushes, strays>>
  BY DEF Push, End, broker
<1>3. handling \in Events
  BY <1>1, <1>2 DEF Types
<1>4. Types'
  <2>1. pushes' \in [Events -> Nat]
    <3>1. pushes \in [Events -> Nat] /\ pushes[handling] + 1 \in Nat
      BY <1>1, <1>3 DEF Types
    <3>2. pushes' = pushes \/ pushes' = [pushes EXCEPT ![handling] = pushes[handling] + 1]
      BY <1>2
    <3> QED
      BY <3>1, <3>2
  <2>2. strays' \in [Tokens -> SUBSET Events]
    <3>1. strays \in [Tokens -> SUBSET Events]
      BY <1>1 DEF Types
    <3>2. \/ strays' = strays
          \/ strays' = [t \in Tokens |->
                 IF t \in tokens /\ holder[t] # UserOf[handling]
                   THEN strays[t] \cup {handling} ELSE strays[t]]
      BY <1>2
    <3> QED
      BY <1>3, <3>1, <3>2
  <2>3. outcome' = [e \in Events |-> outcome'[e]]
    BY <1>1, <1>2, <1>3 DEF Types
  <2> QED
    BY <1>1, <1>2, <1>3, <2>1, <2>2, <2>3 DEF Types
<1>5. WaitsOnce' /\ InOrder'
  BY <1>1, <1>2 DEF WaitsOnce, InOrder
<1>6. EndedFirst'
  BY <1>1, <1>2, <1>3 DEF EndedFirst, Types
<1>7. PushedOnce'
  <2> SUFFICES ASSUME NEW f \in Events
               PROVE  pushes'[f] <= 1 + breaks /\ (Due(f)' => pushes'[f] <= breaks)
    BY <1>2 DEF PushedOnce
  <2>1. pushes[f] \in Nat /\ breaks \in Nat
    BY <1>1 DEF Types
  <2>2. CASE f = handling
    <3>1. Due(f) /\ ~Due(f)'
      BY <1>1, <1>2, <2>2 DEF Due, WaitsOnce
    <3>2. pushes'[f] = pushes[f] \/ pushes'[f] = pushes[f] + 1
      BY <1>1, <1>2, <2>2 DEF Types
    <3> QED
      BY <1>1, <2>1, <3>1, <3>2 DEF PushedOnce
  <2>3. CASE f # handling
    BY <1>1, <1>2, <2>3 DEF PushedOnce, Due, Types
  <2> QED
    BY <2>2, <2>3
<1>8. StraySince'
  <2>1. ASSUME NEW t \in Tokens PROVE strays'[t] = {} \/ \E e : strays'[t] = {e}
    <3>1. strays'[t] = strays[t] \/ (strays[t] = {} /\ strays'[t] = {handling})
      BY <1>1, <1>2 DEF StraySince
    <3>2. strays[t] = {} \/ \E e : strays[t] = {e}
      BY <1>1 DEF StraySince
    <3> QED
      BY <3>1, <3>2
  <2> QED
    BY <1>2, <2>1 DEF StraySince
<1> QED
  BY <1>4, <1>5, <1>6, <1>7, <1>8 DEF NoticeInv

LEMMA AckStep ==
  ASSUME NoticeInv, Ack
  PROVE  NoticeInv'
<1>1. /\ Types /\ WaitsOnce /\ InOrder /\ EndedFirst /\ PushedOnce /\ StraySince
  BY DEF NoticeInv
<1>2. /\ step = "ended" /\ step' = "idle"
      /\ queue' = IF consumer = "on" THEN RemoveFirst(queue, handling) ELSE queue
      /\ UNCHANGED <<buffer, consumer, tokens, table, logging, log, published,
                     pushes, outcome, holder, strays, breaks>>
  BY DEF Ack, AckWhen, history
<1>3. handling \in Events /\ buffer \in Seq(Events) /\ queue \in Seq(Events)
  BY <1>1, <1>2 DEF Types
<1>4. consumer = "on" => queue = <<handling>> \o buffer /\ queue' = buffer
  BY <1>1, <1>2, <1>3, RemoveHead DEF InOrder
<1>5. \A f : In(f, queue) => f = handling \/ In(f, queue')
  <2>1. CASE consumer = "on"
    <3>1. \A f : In(f, <<handling>> \o buffer) <=> f = handling \/ In(f, buffer)
      BY <1>3, ConsSeq
    <3> QED
      BY <1>4, <2>1, <3>1
  <2>2. CASE consumer # "on"
    BY <1>2, <2>2
  <2> QED
    BY <2>1, <2>2
<1>6. \A f : In(f, queue') => In(f, queue)
  <2>1. CASE consumer = "on"
    <3>1. \A f : In(f, <<handling>> \o buffer) <=> f = handling \/ In(f, buffer)
      BY <1>3, ConsSeq
    <3> QED
      BY <1>4, <2>1, <3>1
  <2>2. CASE consumer # "on"
    BY <1>2, <2>2
  <2> QED
    BY <2>1, <2>2
<1>7. Types'
  BY <1>1, <1>2, <1>4 DEF Types
<1>8. WaitsOnce'
  BY <1>1, <1>2, <1>4, <1>6 DEF WaitsOnce
<1>9. InOrder'
  BY <1>2, <1>3, <1>4, ConcatEmptySeq DEF InOrder
<1>10. EndedFirst'
  BY <1>1, <1>2, <1>5 DEF EndedFirst
<1>11. PushedOnce' /\ StraySince'
  BY <1>1, <1>2 DEF PushedOnce, Due, StraySince
<1> QED
  BY <1>7, <1>8, <1>9, <1>10, <1>11 DEF NoticeInv

LEMMA LoseStep ==
  ASSUME NoticeInv, LoseConnection
  PROVE  NoticeInv'
<1>1. /\ Types /\ WaitsOnce /\ InOrder /\ EndedFirst /\ PushedOnce /\ StraySince
  BY DEF NoticeInv
<1>2. /\ consumer' = "off" /\ breaks' = breaks + 1
      /\ UNCHANGED <<queue, handling, step, tokens, table, logging, log,
                     published, pushes, outcome, holder, strays>>
      /\ \E n \in 0..Len(buffer) : buffer' = SubSeq(buffer, 1, n)
  BY DEF LoseConnection, Break, handler
<1>3. /\ buffer' \in Seq(Events) /\ \A e : In(e, buffer') => In(e, buffer)
      /\ Once(buffer')
  BY <1>1, <1>2, PrefixSeq DEF Types, WaitsOnce
<1>4. Types'
  BY <1>1, <1>2, <1>3 DEF Types
<1>5. WaitsOnce' /\ InOrder'
  BY <1>1, <1>2, <1>3 DEF WaitsOnce, InOrder
<1>6. EndedFirst' /\ StraySince'
  BY <1>1, <1>2 DEF EndedFirst, StraySince
<1>7. PushedOnce'
  BY <1>1, <1>2 DEF PushedOnce, Types
<1> QED
  BY <1>4, <1>5, <1>6, <1>7 DEF NoticeInv

LEMMA RestartStep ==
  ASSUME NoticeInv, Restart
  PROVE  NoticeInv'
<1>1. /\ Types /\ WaitsOnce /\ InOrder /\ EndedFirst /\ PushedOnce /\ StraySince
  BY DEF NoticeInv
<1>2. /\ breaks' = breaks + 1 /\ step' = "idle" /\ tokens' = {}
      /\ UNCHANGED <<queue, table, log, published, pushes, outcome, holder, strays>>
      /\ \/ consumer' = "on" /\ buffer' = queue
         \/ consumer' = "off" /\ buffer' = << >>
  BY DEF Restart, Break
<1>3. /\ buffer' \in Seq(Events) /\ \A e : In(e, buffer') => In(e, queue)
      /\ Once(buffer')
  <2>1. \A e : ~In(e, << >>)
    BY DEF In
  <2>2. Once(<< >>) /\ << >> \in Seq(Events)
    BY DEF Once
  <2>3. Once(queue) /\ queue \in Seq(Events)
    BY <1>1 DEF Types, WaitsOnce
  <2> QED
    BY <1>2, <2>1, <2>2, <2>3
<1>4. Types'
  BY <1>1, <1>2, <1>3 DEF Types
<1>5. WaitsOnce'
  BY <1>1, <1>2, <1>3 DEF WaitsOnce
<1>6. InOrder'
  BY <1>1, <1>2, <1>3, ConcatEmptySeq DEF InOrder, Types
<1>7. EndedFirst' /\ StraySince'
  BY <1>1, <1>2 DEF EndedFirst, StraySince
<1>8. PushedOnce'
  BY <1>1, <1>2 DEF PushedOnce, Types
<1> QED
  BY <1>4, <1>5, <1>6, <1>7, <1>8 DEF NoticeInv

LEMMA NextNotice == NoticeInv /\ [Next]_vars => NoticeInv'
<1> SUFFICES ASSUME NoticeInv, [Next]_vars PROVE NoticeInv'
  OBVIOUS
<1>1. CASE \/ UNCHANGED vars
           \/ \E entry \in Events \X BOOLEAN : LogNotification(entry)
  <2>1. UNCHANGED <<queue, consumer, buffer, handling, step, tokens, table,
                    published, pushes, outcome, holder, strays, breaks>>
    BY <1>1 DEF vars, LogNotification, broker, handler, history
  <2> QED
    BY <2>1 DEF NoticeInv, Types, WaitsOnce, InOrder, EndedFirst, PushedOnce, Due,
                StraySince
<1>2. CASE \E e \in Events : Publish(e)
  BY <1>2, PublishStep
<1>3. CASE \E t \in Tokens, u \in Users : RegisterDevice(t, u)
  BY <1>3, RegisterStep
<1>4. CASE handleEvent
  BY <1>4, TakeStep, HandledStep, PushStep, AckStep DEF handleEvent
<1>5. CASE LoseConnection \/ Restart
  BY <1>5, LoseStep, RestartStep
<1> QED
  BY <1>1, <1>2, <1>3, <1>4, <1>5 DEF Next

(* The inductive invariant holds of every reachable state.                 *)
THEOREM NoticeInvariant == Spec => []NoticeInv
BY InitNotice, NextNotice, PTL DEF Spec

(* An event that was published is in the broker's queue until handleEvent  *)
(* has come to an end with it, whatever breaks (consumer.go:76).           *)
THEOREM NothingLost == Spec => []NoneLost
<1>1. NoticeInv => NoneLost
  BY DEF NoticeInv, EndedFirst, NoneLost, In
<1> QED
  BY <1>1, NoticeInvariant, PTL

(* What a connected consumer has not finished is the broker's queue, in    *)
(* order.                                                                  *)
THEOREM KeptInOrder == Spec => []InOrder
BY NoticeInvariant, PTL DEF NoticeInv

(* One notice per event, and one more per crash or broken connection.      *)
THEOREM RepeatsNeedBreaks == Spec => []RepeatedOnlyAfterBreak
<1>1. NoticeInv => RepeatedOnlyAfterBreak
  BY DEF NoticeInv, PushedOnce, RepeatedOnlyAfterBreak
<1> QED
  BY <1>1, NoticeInvariant, PTL

(* Since a device was last registered, at most one notice of another user  *)
(* has reached it.                                                         *)
THEOREM OneStrayAtMost == Spec => []AtMostOneStray
<1>1. NoticeInv => AtMostOneStray
  <2> SUFFICES ASSUME NoticeInv, NEW t \in Tokens PROVE Cardinality(strays[t]) <= 1
    BY DEF AtMostOneStray
  <2>1. strays[t] = {} \/ \E e : strays[t] = {e}
    BY DEF NoticeInv, StraySince
  <2> QED
    BY <2>1, FS_EmptySet, FS_Singleton
<1> QED
  BY <1>1, NoticeInvariant, PTL
=============================================================================
