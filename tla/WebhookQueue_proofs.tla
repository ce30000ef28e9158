------------------------- MODULE WebhookQueue_proofs -------------------------
(***************************************************************************)
(* Proofs about WebhookQueue for every number of workers, requests,        *)
(* webhooks and events and every setting: the tables keep their shape, the *)
(* safety properties of the queue hold together, each delivery implements  *)
(* DeliveryPromise, and the requests a receiver gets are bounded.          *)
(***************************************************************************)
EXTENDS WebhookQueue, FiniteSetTheorems, TLAPS

USE DEF spent

LEMMA ReadyType == Ready \subseteq Deliveries
  BY DEF Ready

LEMMA AttemptedType ==
  ASSUME NEW row \in Row \cup {Absent}, NEW result \in Results
  PROVE  Attempted(row, result) \in Row
<1>1. row.count + 1 \in Nat /\ row.max \in Nat
  BY DEF Row, Absent
<1> QED BY <1>1 DEF Attempted, Row, Waiting, Final

(* What an attempt makes of a row. *)
LEMMA AttemptedShape ==
  ASSUME NEW row, NEW result
  PROVE  /\ Attempted(row, result).status \in Waiting \cup Final
         /\ Attempted(row, result).status \in Final =>
              (Attempted(row, result).status = "success" <=> result = "success")
         /\ Attempted(row, result).count = row.count + 1
  BY DEF Attempted, Waiting, Final

LEMMA NewRowType == NewRow \in Row
  BY SettingsAssumption DEF NewRow, Row, Waiting

(* What a waiting or finished row is not. *)
LEMMA AbsentIsNoRow == Absent \notin Row /\ Absent.status \notin Waiting \cup Final
  BY DEF Absent, Row, Waiting, Final

-----------------------------------------------------------------------------
(* Type correctness, action by action. *)

LEMMA TypeInit == Init => TypeOK
  BY DEF Init, TypeOK, Batch, NoBatch, Request, NoRequest, Results

LEMMA TypeHooks ==
  ASSUME TypeOK, NEW h \in Webhooks, CreateWebhook(h) \/ DeleteWebhook(h)
  PROVE  TypeOK'
<1>1. CASE CreateWebhook(h)
  BY <1>1 DEF TypeOK, CreateWebhook
<1>2. CASE DeleteWebhook(h)
  BY <1>2 DEF TypeOK, DeleteWebhook
<1> QED BY <1>1, <1>2

LEMMA TypeRequest ==
  ASSUME TypeOK, NEW r \in Requests,
         \/ \E e \in Events : ReadTargets(r, e)
         \/ Dispatch(r) \/ FailRequest(r) \/ Requeue(r)
         \/ \E d \in Deliveries : ReadDelivery(r, d)
  PROVE  TypeOK'
<1>1. ASSUME NEW e \in Events, ReadTargets(r, e) PROVE TypeOK'
  <2>1. PICK targets \in SUBSET {h \in Webhooks : hooks[h] = "active"} :
          request' = [request EXCEPT ![r] = [op |-> "event", event |-> e, targets |-> targets]]
    BY <1>1 DEF ReadTargets
  <2>2. [op |-> "event", event |-> e, targets |-> targets] \in Request
    BY DEF Request
  <2>3. request' \in [Requests -> Request]
    BY <2>1, <2>2 DEF TypeOK
  <2> QED BY <1>1, <2>3 DEF ReadTargets, TypeOK
<1>2. CASE Dispatch(r)
  <2>1. request[r] \in [op: {"event"}, event: Events, targets: SUBSET Webhooks]
    BY <1>2 DEF Dispatch, TypeOK, Request
  <2>2. request[r].targets \X {request[r].event} \subseteq Deliveries
    BY <2>1 DEF Deliveries
  <2>3. NoRequest \in Request
    BY DEF Request, NoRequest
  <2> QED BY <1>2, <2>2, <2>3, NewRowType DEF Dispatch, TypeOK
<1>3. CASE FailRequest(r)
  BY <1>3 DEF FailRequest, TypeOK, Request, NoRequest
<1>4. CASE Requeue(r)
  <2>1. request[r] \in [op: {"redeliver"}, delivery: Deliveries, count: Nat]
    BY <1>4 DEF Requeue, TypeOK, Request
  <2> DEFINE d == request[r].delivery
             row == [rows[d] EXCEPT !.status = "queued", !.due = TRUE,
                                    !.max = request[r].count + MaxAttempts]
  <2>2. d \in Deliveries /\ rows[d] \in Row
    BY <1>4, <2>1 DEF Requeue, TypeOK, Present
  <2>3. request[r].count + MaxAttempts \in Nat
    BY <2>1, SettingsAssumption
  <2>4. row \in Row
    BY <2>2, <2>3 DEF Row, Waiting
  <2>5. rows' = [rows EXCEPT ![d] = row]
    BY <1>4, <2>2 DEF Requeue, TypeOK
  <2>6. rows' \in [Deliveries -> Row \cup {Absent}]
    BY <2>4, <2>5 DEF TypeOK
  <2>7. owed' \subseteq Deliveries
    BY <1>4, <2>2 DEF Requeue, TypeOK
  <2>8. request' \in [Requests -> Request]
    BY <1>4 DEF Requeue, TypeOK, Request, NoRequest
  <2> QED BY <1>4, <2>6, <2>7, <2>8 DEF Requeue, TypeOK
<1>5. ASSUME NEW d \in Deliveries, ReadDelivery(r, d) PROVE TypeOK'
  <2>1. rows[d] \in Row
    BY <1>5 DEF ReadDelivery, TypeOK, Absent, Final
  <2>2. [op |-> "redeliver", delivery |-> d, count |-> rows[d].count] \in Request
    BY <2>1 DEF Request, Row
  <2> QED BY <1>5, <2>2 DEF ReadDelivery, TypeOK
<1> QED BY <1>1, <1>2, <1>3, <1>4, <1>5

LEMMA TypeWorker ==
  ASSUME TypeOK, NEW w \in Workers, Work(w) \/ Crash(w)
  PROVE  TypeOK'
<1>0. NoBatch \in Batch
  BY DEF NoBatch, Batch, Results
<1>1. CASE Claim(w)
  <2>1. PICK jobs \in SUBSET Ready : batch' = [batch EXCEPT ![w] = [NoBatch EXCEPT !.jobs = jobs]]
    BY <1>1 DEF Claim
  <2>2. [NoBatch EXCEPT !.jobs = jobs] \in Batch
    BY <2>1, ReadyType DEF NoBatch, Batch, Results
  <2>3. batch' \in [Workers -> Batch]
    BY <2>1, <2>2 DEF TypeOK
  <2> QED BY <1>1, <2>3 DEF Claim, TypeOK
<1>2. ASSUME NEW d \in Deliveries, Deliver(w, d) PROVE TypeOK'
  <2>1. PICK result \in Results : batch' = [batch EXCEPT ![w].result[d] = result]
    BY <1>2 DEF Deliver
  <2>2. batch[w] \in Batch
    BY DEF TypeOK
  <2>3. [batch[w] EXCEPT !.result[d] = result] \in Batch
    BY <2>2 DEF Batch
  <2>4. batch' \in [Workers -> Batch]
    BY <2>1, <2>3 DEF TypeOK
  <2> QED BY <1>2, <2>4 DEF Deliver, TypeOK
<1>3. CASE CommitBatch(w)
  <2> DEFINE jobs == batch[w].jobs
             result == batch[w].result
  <2>1. batch[w] \in Batch
    BY DEF TypeOK
  <2>2. \A d \in jobs : d \in Deliveries /\ result[d] \in Results
    BY <1>3, <2>1 DEF CommitBatch, Batch
  <2>3. rows' = [d \in Deliveries |->
           IF d \in jobs THEN Attempted(rows[d], result[d]) ELSE rows[d]]
    BY <1>3 DEF CommitBatch
  <2>4. \A d \in jobs : Attempted(rows[d], result[d]) \in Row
    BY <2>2, AttemptedType DEF TypeOK
  <2>5. rows' \in [Deliveries -> Row \cup {Absent}]
    BY <2>3, <2>4 DEF TypeOK
  <2>6. attempts' = [d \in Deliveries |->
           IF d \in jobs
           THEN attempts[d] \cup {[number |-> rows[d].count + 1,
                                   ok |-> result[d] = "success"]}
           ELSE attempts[d]]
    BY <1>3 DEF CommitBatch
  <2>7. \A d \in Deliveries : [number |-> rows[d].count + 1,
                               ok |-> result[d] = "success"] \in Attempt
    BY DEF TypeOK, Row, Absent, Attempt
  <2>8. attempts' \in [Deliveries -> SUBSET Attempt]
    BY <2>6, <2>7 DEF TypeOK
  <2> QED BY <1>0, <1>3, <2>5, <2>8 DEF CommitBatch, TypeOK
<1>4. CASE Crash(w)
  BY <1>0, <1>4 DEF Crash, TypeOK
<1> QED BY <1>1, <1>2, <1>3, <1>4 DEF Work

LEMMA TypeComesDue ==
  ASSUME TypeOK, NEW d \in Deliveries, ComesDue(d)
  PROVE  TypeOK'
<1>1. rows[d] \in Row
  BY DEF TypeOK, ComesDue, Absent
<1>2. [rows[d] EXCEPT !.due = TRUE] \in Row
  BY <1>1 DEF Row
<1>3. rows' \in [Deliveries -> Row \cup {Absent}]
  BY <1>2 DEF ComesDue, TypeOK
<1> QED BY <1>3 DEF ComesDue, TypeOK

LEMMA TypeNext == TypeOK /\ [Next]_vars => TypeOK'
<1> SUFFICES ASSUME TypeOK, [Next]_vars PROVE TypeOK'
  OBVIOUS
<1>1. CASE UNCHANGED vars
  BY <1>1 DEF TypeOK, vars
<1>2. ASSUME NEW w \in Workers, Poll(w) PROVE TypeOK'
  BY <1>2 DEF TypeOK, Poll, vars
<1> QED BY <1>1, <1>2, TypeHooks, TypeRequest, TypeWorker, TypeComesDue DEF Next

(* The tables keep their shape. *)
THEOREM TypeCorrect == Spec => []TypeOK
  BY TypeInit, TypeNext, PTL DEF Spec

-----------------------------------------------------------------------------
(* The five safety properties are not inductive one by one.  Together with  *)
(* what a running batch and an open request may rely on, they are.          *)

(* A worker holds rows that wait, and has answers only for rows it holds;   *)
(* a row with an answer is no longer owed a request.                        *)
JobsWait ==
  \A w \in Workers : \A d \in Deliveries :
    /\ d \in batch[w].jobs => rows[d].status \in Waiting
    /\ batch[w].result[d] # "none" => d \in batch[w].jobs /\ d \notin owed

(* The event of an open request is new: no delivery is for it, and no other *)
(* request has it.                                                          *)
FreshEvents ==
  \A r \in Requests : request[r].op = "event" =>
    /\ \A d \in announced : d[2] # request[r].event
    /\ \A q \in Requests : request[q].op = "event" /\ request[q].event = request[r].event
                           => q = r

(* Deliveries were queued for webhooks that existed. *)
AnnouncedExisted == \A d \in announced : hooks[d[1]] # "none"

QueueInv ==
  /\ HistoryMatches /\ OneSender /\ AcceptedIsServed /\ QueuedWithItsEvent
  /\ JobsWait /\ FreshEvents /\ AnnouncedExisted

LEMMA QueueInit == Init => QueueInv
<1> SUFFICES ASSUME Init PROVE QueueInv
  OBVIOUS
<1>1. HistoryMatches
  BY DEF Init, HistoryMatches, Absent, Final
<1>2. OneSender /\ JobsWait
  BY DEF Init, OneSender, JobsWait, NoBatch
<1>3. AcceptedIsServed /\ QueuedWithItsEvent /\ AnnouncedExisted
  BY DEF Init, AcceptedIsServed, QueuedWithItsEvent, AnnouncedExisted, Present
<1>4. FreshEvents
  BY DEF Init, FreshEvents, NoRequest
<1> QED BY <1>1, <1>2, <1>3, <1>4 DEF QueueInv

LEMMA QueueHooks ==
  ASSUME TypeOK, QueueInv, NEW h \in Webhooks, CreateWebhook(h) \/ DeleteWebhook(h)
  PROVE  QueueInv'
<1>1. CASE CreateWebhook(h)
  <2>1. \A d \in announced : d[1] # h
    BY <1>1 DEF QueueInv, AnnouncedExisted, CreateWebhook
  <2>2. \A d \in Deliveries : d[1] \in Webhooks
    BY DEF Deliveries
  <2>3. \A g \in Webhooks : hooks'[g] = IF g = h THEN "active" ELSE hooks[g]
    BY <1>1 DEF CreateWebhook, TypeOK
  <2>4. QueuedWithItsEvent'
    BY <1>1, <2>1, <2>2, <2>3 DEF QueueInv, QueuedWithItsEvent, CreateWebhook, Present
  <2>5. AnnouncedExisted'
    BY <1>1, <2>2, <2>3 DEF QueueInv, AnnouncedExisted, CreateWebhook, TypeOK
  <2>6. HistoryMatches' /\ OneSender' /\ AcceptedIsServed' /\ JobsWait' /\ FreshEvents'
    BY <1>1 DEF QueueInv, HistoryMatches, OneSender, AcceptedIsServed, JobsWait,
                FreshEvents, CreateWebhook
  <2> QED BY <2>4, <2>5, <2>6 DEF QueueInv
<1>2. CASE DeleteWebhook(h)
  <2>1. \A d \in Deliveries : d[1] \in Webhooks
    BY DEF Deliveries
  <2>2. \A g \in Webhooks : hooks'[g] = IF g = h THEN "deleted" ELSE hooks[g]
    BY <1>2 DEF DeleteWebhook, TypeOK
  <2>3. \A d \in Deliveries :
          /\ d[1] = h => rows'[d] = Absent /\ attempts'[d] = {} /\ d \notin owed'
          /\ d[1] # h => rows'[d] = rows[d] /\ attempts'[d] = attempts[d]
    BY <1>2 DEF DeleteWebhook
  <2>4. \A w \in Workers : \A d \in batch[w].jobs : d[1] # h
    <3> SUFFICES ASSUME NEW w \in Workers, NEW d \in batch[w].jobs, d[1] = h PROVE FALSE
      OBVIOUS
    <3>1. d \in Deliveries
      BY DEF TypeOK, Batch
    <3>2. d[2] \in Events /\ d = <<h, d[2]>>
      BY <3>1 DEF Deliveries
    <3> QED BY <1>2, <3>2 DEF DeleteWebhook, Locked
  <2>5. HistoryMatches'
    <3> SUFFICES ASSUME NEW d \in Deliveries
                 PROVE /\ {a.number : a \in attempts'[d]} = 1..rows'[d].count
                       /\ \A a, b \in attempts'[d] : a.number = b.number => a = b
                       /\ rows'[d].status \in Final =>
                           [number |-> rows'[d].count, ok |-> rows'[d].status = "success"]
                             \in attempts'[d]
      BY DEF HistoryMatches
    <3>1. CASE d[1] = h
      <4>1. rows'[d] = Absent /\ attempts'[d] = {}
        BY <2>3, <3>1
      <4> QED BY <4>1 DEF Absent, Final
    <3>2. CASE d[1] # h
      BY <2>3, <3>2 DEF QueueInv, HistoryMatches
    <3> QED BY <3>1, <3>2
  <2>6. OneSender' /\ FreshEvents'
    BY <1>2 DEF QueueInv, OneSender, FreshEvents, DeleteWebhook
  <2>7. AcceptedIsServed'
    BY <1>2, <2>3 DEF QueueInv, AcceptedIsServed, DeleteWebhook, TypeOK
  <2>8. JobsWait'
    BY <1>2, <2>3, <2>4 DEF QueueInv, JobsWait, DeleteWebhook
  <2>9. QueuedWithItsEvent' /\ AnnouncedExisted'
    BY <1>2, <2>1, <2>2, <2>3 DEF QueueInv, QueuedWithItsEvent, AnnouncedExisted,
       DeleteWebhook, Present, TypeOK
  <2> QED BY <2>5, <2>6, <2>7, <2>8, <2>9 DEF QueueInv
<1> QED BY <1>1, <1>2

LEMMA QueueRequest ==
  ASSUME TypeOK, QueueInv, NEW r \in Requests,
         \/ \E e \in Events : ReadTargets(r, e)
         \/ Dispatch(r) \/ FailRequest(r) \/ Requeue(r)
         \/ \E d \in Deliveries : ReadDelivery(r, d)
  PROVE  QueueInv'
<1> USE DEF QueueInv
<1>1. ASSUME NEW e \in Events, ReadTargets(r, e) PROVE QueueInv'
  <2>1. PICK targets \in SUBSET {h \in Webhooks : hooks[h] = "active"} :
          request' = [request EXCEPT ![r] = [op |-> "event", event |-> e, targets |-> targets]]
    BY <1>1 DEF ReadTargets
  <2>2. /\ request'[r].op = "event" /\ request'[r].event = e
        /\ \A q \in Requests : q # r => request'[q] = request[q]
    BY <2>1 DEF TypeOK
  <2>3. FreshEvents'
    BY <1>1, <2>2 DEF ReadTargets, FreshEvents
  <2>4. UNCHANGED <<hooks, rows, attempts, batch, announced, owed>>
    BY <1>1 DEF ReadTargets
  <2> QED BY <2>3, <2>4 DEF HistoryMatches, OneSender, AcceptedIsServed,
        QueuedWithItsEvent, JobsWait, AnnouncedExisted, Present
<1>2. CASE Dispatch(r)
  <2> DEFINE new == request[r].targets \X {request[r].event}
  <2>1. request[r] \in [op: {"event"}, event: Events, targets: SUBSET Webhooks]
    BY <1>2 DEF Dispatch, TypeOK, Request
  <2>2. \A d \in new : d \in Deliveries /\ d[1] \in request[r].targets /\ d[2] = request[r].event
    BY <2>1 DEF Deliveries
  <2>3. \A d \in new : d \notin announced /\ rows[d] = Absent /\ hooks[d[1]] = "active"
    BY <1>2, <2>2 DEF Dispatch, FreshEvents, QueuedWithItsEvent, Present
  <2>4. /\ \A d \in Deliveries : rows'[d] = IF d \in new THEN NewRow ELSE rows[d]
        /\ announced' = announced \cup new /\ owed' = owed \cup new
        /\ UNCHANGED <<hooks, attempts, batch>>
    BY <1>2 DEF Dispatch
  <2>5. NewRow # Absent /\ NewRow.status \in Waiting /\ NewRow.count = 0
    BY DEF NewRow, Absent, Waiting
  <2> HIDE DEF new
  <2>6. HistoryMatches'
    <3> SUFFICES ASSUME NEW d \in Deliveries
                 PROVE /\ {a.number : a \in attempts[d]} = 1..rows'[d].count
                       /\ \A a, b \in attempts[d] : a.number = b.number => a = b
                       /\ rows'[d].status \in Final =>
                           [number |-> rows'[d].count, ok |-> rows'[d].status = "success"]
                             \in attempts[d]
      BY <2>4 DEF HistoryMatches
    <3>1. CASE d \in new
      <4>1. rows'[d] = NewRow /\ rows[d] = Absent
        BY <2>3, <2>4, <3>1
      <4>2. rows'[d].count = rows[d].count
        BY <4>1, <2>5 DEF Absent
      <4>3. rows'[d].status \notin Final
        BY <4>1 DEF NewRow, Final
      <4> QED BY <4>2, <4>3 DEF HistoryMatches
    <3>2. CASE d \notin new
      BY <2>4, <3>2 DEF HistoryMatches
    <3> QED BY <3>1, <3>2
  <2>7. OneSender'
    BY <2>4 DEF OneSender
  <2>8. AcceptedIsServed'
    BY <2>2, <2>4, <2>5 DEF AcceptedIsServed, TypeOK
  <2>9. JobsWait'
    BY <2>3, <2>4, <2>5, AbsentIsNoRow DEF JobsWait
  <2>10. QueuedWithItsEvent'
    BY <2>2, <2>3, <2>4, <2>5 DEF QueuedWithItsEvent, Present
  <2>11. AnnouncedExisted'
    BY <2>3, <2>4 DEF AnnouncedExisted
  <2>12. FreshEvents'
    <3>1. request'[r].op = "idle" /\ \A q \in Requests : q # r => request'[q] = request[q]
      BY <1>2 DEF Dispatch, NoRequest, TypeOK
    <3> SUFFICES ASSUME NEW q \in Requests, request'[q].op = "event"
                 PROVE /\ \A d \in announced' : d[2] # request'[q].event
                       /\ \A p \in Requests :
                            request'[p].op = "event" /\ request'[p].event = request'[q].event
                              => p = q
      BY DEF FreshEvents
    <3>2. q # r /\ request'[q] = request[q]
      BY <3>1
    <3>3. request[q].event # request[r].event
      BY <2>1, <3>2 DEF FreshEvents
    <3>4. \A d \in announced' : d[2] # request[q].event
      BY <2>2, <2>4, <3>2, <3>3 DEF FreshEvents
    <3>5. ASSUME NEW p \in Requests, request'[p].op = "event",
                 request'[p].event = request'[q].event
          PROVE p = q
      <4>1. p # r /\ request'[p] = request[p]
        BY <3>1, <3>5
      <4> QED BY <3>2, <3>5, <4>1 DEF FreshEvents
    <3> QED BY <3>2, <3>4, <3>5
  <2> QED BY <2>6, <2>7, <2>8, <2>9, <2>10, <2>11, <2>12
<1>3. CASE FailRequest(r)
  <2>1. request'[r].op = "idle" /\ \A q \in Requests : q # r => request'[q] = request[q]
    BY <1>3 DEF FailRequest, NoRequest, TypeOK
  <2>2. UNCHANGED <<hooks, rows, attempts, batch, announced, owed>>
    BY <1>3 DEF FailRequest
  <2>3. FreshEvents'
    BY <2>1, <2>2 DEF FreshEvents
  <2> QED BY <2>2, <2>3 DEF HistoryMatches, OneSender, AcceptedIsServed,
        QueuedWithItsEvent, JobsWait, AnnouncedExisted, Present
<1>4. CASE Requeue(r)
  <2> DEFINE d == request[r].delivery
  <2>1. request[r] \in [op: {"redeliver"}, delivery: Deliveries, count: Nat]
    BY <1>4 DEF Requeue, TypeOK, Request
  <2>2. d \in Deliveries /\ rows[d] \in Row /\ rows[d] # Absent /\ ~Locked(d)
    BY <1>4, <2>1 DEF Requeue, TypeOK, Present
  <2>3. /\ rows'[d].status = "queued" /\ rows'[d].count = rows[d].count
        /\ rows'[d] # Absent
        /\ \A e \in Deliveries : e # d => rows'[e] = rows[e]
    BY <1>4, <2>2 DEF Requeue, TypeOK, Row, Absent
  <2>4. owed' = owed \cup {d} /\ UNCHANGED <<hooks, attempts, batch, announced>>
    BY <1>4 DEF Requeue
  <2>5. request'[r].op = "idle" /\ \A q \in Requests : q # r => request'[q] = request[q]
    BY <1>4 DEF Requeue, NoRequest, TypeOK
  <2> HIDE DEF d
  <2>6. HistoryMatches'
    BY <2>2, <2>3, <2>4 DEF HistoryMatches, Final
  <2>7. AcceptedIsServed'
    BY <2>3, <2>4 DEF AcceptedIsServed, Waiting, TypeOK
  <2>8. JobsWait'
    BY <2>2, <2>3, <2>4 DEF JobsWait, Locked
  <2>9. QueuedWithItsEvent'
    BY <2>2, <2>3, <2>4 DEF QueuedWithItsEvent, Present
  <2>10. FreshEvents'
    BY <2>4, <2>5 DEF FreshEvents
  <2> QED BY <2>4, <2>6, <2>7, <2>8, <2>9, <2>10 DEF OneSender, AnnouncedExisted
<1>5. ASSUME NEW d \in Deliveries, ReadDelivery(r, d) PROVE QueueInv'
  <2>1. request'[r].op = "redeliver" /\ \A q \in Requests : q # r => request'[q] = request[q]
    BY <1>5 DEF ReadDelivery, TypeOK
  <2>2. UNCHANGED <<hooks, rows, attempts, batch, announced, owed>>
    BY <1>5 DEF ReadDelivery
  <2>3. FreshEvents'
    BY <2>1, <2>2 DEF FreshEvents
  <2> QED BY <2>2, <2>3 DEF HistoryMatches, OneSender, AcceptedIsServed,
        QueuedWithItsEvent, JobsWait, AnnouncedExisted, Present
<1> QED BY <1>1, <1>2, <1>3, <1>4, <1>5

LEMMA QueueWorker ==
  ASSUME TypeOK, QueueInv, NEW w \in Workers, Work(w) \/ Crash(w)
  PROVE  QueueInv'
<1> USE DEF QueueInv
<1>1. CASE Claim(w)
  <2>1. PICK jobs \in SUBSET Ready : batch' = [batch EXCEPT ![w] = [NoBatch EXCEPT !.jobs = jobs]]
    BY <1>1 DEF Claim
  <2>2. /\ batch'[w].jobs = jobs /\ \A d \in Deliveries : batch'[w].result[d] = "none"
        /\ \A v \in Workers : v # w => batch'[v] = batch[v]
    BY <2>1 DEF TypeOK, NoBatch
  <2>3. UNCHANGED <<hooks, rows, attempts, request, announced, owed>>
    BY <1>1 DEF Claim
  <2>4. \A d \in jobs : rows[d].status \in Waiting /\ \A v \in Workers : d \notin batch[v].jobs
    BY <2>1 DEF Ready, Locked
  <2>5. OneSender'
    BY <2>2, <2>4 DEF OneSender
  <2>6. JobsWait'
    BY <2>2, <2>3, <2>4 DEF JobsWait
  <2> QED BY <2>3, <2>5, <2>6 DEF HistoryMatches, AcceptedIsServed,
        QueuedWithItsEvent, FreshEvents, AnnouncedExisted, Present
<1>2. ASSUME NEW d \in Deliveries, Deliver(w, d) PROVE QueueInv'
  <2>1. PICK result \in Results : batch' = [batch EXCEPT ![w].result[d] = result]
    BY <1>2 DEF Deliver
  <2>2. /\ batch'[w].jobs = batch[w].jobs
        /\ \A e \in Deliveries : e # d => batch'[w].result[e] = batch[w].result[e]
        /\ \A v \in Workers : v # w => batch'[v] = batch[v]
    BY <2>1 DEF TypeOK, Batch
  <2>3. UNCHANGED <<hooks, rows, attempts, request, announced>> /\ owed' = owed \ {d}
        /\ d \in batch[w].jobs
    BY <1>2 DEF Deliver
  <2>4. OneSender'
    BY <2>2 DEF OneSender
  <2>5. JobsWait'
    BY <2>2, <2>3 DEF JobsWait
  <2> QED BY <2>3, <2>4, <2>5 DEF HistoryMatches, AcceptedIsServed,
        QueuedWithItsEvent, FreshEvents, AnnouncedExisted, Present
<1>3. CASE CommitBatch(w)
  <2> DEFINE jobs == batch[w].jobs
             result == batch[w].result
             new(d) == [number |-> rows[d].count + 1, ok |-> result[d] = "success"]
  <2>1. /\ UNCHANGED <<hooks, request, announced, owed>>
        /\ batch' = [batch EXCEPT ![w] = NoBatch]
        /\ \A d \in Deliveries :
             /\ rows'[d] = IF d \in jobs THEN Attempted(rows[d], result[d]) ELSE rows[d]
             /\ attempts'[d] = IF d \in jobs THEN attempts[d] \cup {new(d)} ELSE attempts[d]
    BY <1>3 DEF CommitBatch
  <2>2. batch'[w] = NoBatch /\ \A v \in Workers : v # w => batch'[v] = batch[v]
    BY <2>1 DEF TypeOK
  <2>3. \A d \in Deliveries : rows[d].count \in Nat
    BY DEF TypeOK, Row, Absent
  <2>4. \A d \in jobs : d \in Deliveries /\ result[d] # "none" /\ rows[d] # Absent
    BY <1>3, AbsentIsNoRow DEF CommitBatch, TypeOK, Batch, JobsWait
  <2>5. \A d \in jobs :
          /\ rows'[d].status \in Waiting \cup Final
          /\ rows'[d].status \in Final => (rows'[d].status = "success" <=> result[d] = "success")
          /\ rows'[d].count = rows[d].count + 1
    <3> SUFFICES ASSUME NEW d \in jobs
                 PROVE  /\ rows'[d].status \in Waiting \cup Final
                        /\ rows'[d].status \in Final =>
                             (rows'[d].status = "success" <=> result[d] = "success")
                        /\ rows'[d].count = rows[d].count + 1
      OBVIOUS
    <3>1. rows'[d] = Attempted(rows[d], result[d])
      BY <2>1, <2>4
    <3> QED BY <3>1, AttemptedShape
  <2>6. ASSUME NEW d \in Deliveries
        PROVE /\ {a.number : a \in attempts'[d]} = 1..rows'[d].count
              /\ \A a, b \in attempts'[d] : a.number = b.number => a = b
              /\ rows'[d].status \in Final =>
                  [number |-> rows'[d].count, ok |-> rows'[d].status = "success"] \in attempts'[d]
    <3>1. CASE d \notin jobs
      BY <2>1, <3>1 DEF HistoryMatches
    <3>2. CASE d \in jobs
      <4>1. attempts'[d] = attempts[d] \cup {new(d)} /\ rows'[d].count = rows[d].count + 1
        BY <2>1, <2>5, <3>2
      <4>2. {a.number : a \in attempts[d]} = 1..rows[d].count
        BY DEF HistoryMatches
      <4>3. {a.number : a \in attempts'[d]} = {a.number : a \in attempts[d]} \cup {rows[d].count + 1}
        <5>1. new(d).number = rows[d].count + 1
          OBVIOUS
        <5> HIDE DEF new
        <5> QED BY <4>1, <5>1
      <4>4. 1..(rows[d].count + 1) = (1..rows[d].count) \cup {rows[d].count + 1}
        BY <2>3
      <4>5. \A a \in attempts[d] : a.number \in 1..rows[d].count
        BY <4>2
      <4>6. \A a \in attempts[d] : a.number # new(d).number
        BY <2>3, <4>5
      <4>7. \A a, b \in attempts'[d] : a.number = b.number => a = b
        <5> HIDE DEF new
        <5> QED BY <4>1, <4>6 DEF HistoryMatches
      <4>8. ASSUME rows'[d].status \in Final
            PROVE  [number |-> rows'[d].count, ok |-> rows'[d].status = "success"] = new(d)
        <5>1. (rows'[d].status = "success") = (result[d] = "success")
          BY <2>5, <3>2, <4>8
        <5> QED BY <4>1, <5>1
      <4> QED BY <4>1, <4>2, <4>3, <4>4, <4>7, <4>8
    <3> QED BY <3>1, <3>2
  <2>7. HistoryMatches'
    BY <2>6 DEF HistoryMatches
  <2>8. OneSender'
    BY <2>2 DEF OneSender, NoBatch
  <2>9. \A d \in jobs : d \notin owed
    BY <2>4 DEF JobsWait
  <2>10. AcceptedIsServed'
    BY <2>1, <2>9 DEF AcceptedIsServed, TypeOK
  <2>11. JobsWait'
    <3> SUFFICES ASSUME NEW v \in Workers, NEW d \in Deliveries
                 PROVE  /\ d \in batch'[v].jobs => rows'[d].status \in Waiting
                        /\ batch'[v].result[d] # "none" => d \in batch'[v].jobs /\ d \notin owed
      BY <2>1 DEF JobsWait
    <3>1. CASE v = w
      BY <2>2, <3>1 DEF NoBatch
    <3>2. CASE v # w
      <4>1. batch'[v] = batch[v] /\ (d \in batch[v].jobs => d \notin jobs)
        BY <2>2, <3>2 DEF OneSender
      <4> QED BY <2>1, <4>1 DEF JobsWait
    <3> QED BY <3>1, <3>2
  <2>12. \A d \in Deliveries : Present(d)' <=> Present(d)
    BY <2>1, <2>4, <2>5, AbsentIsNoRow DEF Present
  <2>13. QueuedWithItsEvent'
    BY <2>1, <2>12 DEF QueuedWithItsEvent
  <2> QED BY <2>1, <2>7, <2>8, <2>10, <2>11, <2>13 DEF FreshEvents, AnnouncedExisted
<1>4. CASE Crash(w)
  <2>1. batch'[w] = NoBatch /\ \A v \in Workers : v # w => batch'[v] = batch[v]
    BY <1>4 DEF Crash, TypeOK
  <2>2. UNCHANGED <<hooks, rows, attempts, request, announced, owed>>
    BY <1>4 DEF Crash
  <2>3. OneSender' /\ JobsWait'
    BY <2>1, <2>2 DEF OneSender, JobsWait, NoBatch
  <2> QED BY <2>2, <2>3 DEF HistoryMatches, AcceptedIsServed,
        QueuedWithItsEvent, FreshEvents, AnnouncedExisted, Present
<1> QED BY <1>1, <1>2, <1>3, <1>4 DEF Work

LEMMA QueueComesDue ==
  ASSUME TypeOK, QueueInv, NEW d \in Deliveries, ComesDue(d)
  PROVE  QueueInv'
<1> USE DEF QueueInv
<1>1. rows[d] \in Row
  BY DEF ComesDue, TypeOK, Absent
<1>2. /\ rows'[d].status = rows[d].status /\ rows'[d].count = rows[d].count
      /\ rows'[d] # Absent /\ rows[d] # Absent
      /\ \A e \in Deliveries : e # d => rows'[e] = rows[e]
  BY <1>1 DEF ComesDue, TypeOK, Row, Absent
<1>3. UNCHANGED <<hooks, attempts, batch, request, announced, owed>>
  BY DEF ComesDue
<1>4. \A e \in Deliveries : rows'[e].status = rows[e].status /\ rows'[e].count = rows[e].count
  BY <1>2
<1>5. HistoryMatches' /\ AcceptedIsServed' /\ JobsWait'
  BY <1>3, <1>4 DEF HistoryMatches, AcceptedIsServed, JobsWait, TypeOK
<1>6. QueuedWithItsEvent'
  BY <1>2, <1>3 DEF QueuedWithItsEvent, Present
<1> QED BY <1>3, <1>5, <1>6 DEF OneSender, FreshEvents, AnnouncedExisted

LEMMA QueueNext == TypeOK /\ QueueInv /\ [Next]_vars => QueueInv'
<1> SUFFICES ASSUME TypeOK, QueueInv, [Next]_vars PROVE QueueInv'
  OBVIOUS
<1>1. ASSUME UNCHANGED vars PROVE QueueInv'
  BY <1>1 DEF vars, QueueInv, HistoryMatches, OneSender, AcceptedIsServed, QueuedWithItsEvent,
              JobsWait, FreshEvents, AnnouncedExisted, Present
<1>2. ASSUME NEW w \in Workers, Poll(w) PROVE QueueInv'
  BY <1>1, <1>2 DEF Poll
<1> QED BY <1>1, <1>2, QueueHooks, QueueRequest, QueueWorker, QueueComesDue DEF Next

LEMMA QueueCorrect == Spec => []QueueInv
  BY TypeCorrect, QueueInit, QueueNext, PTL DEF Spec

(* Attempts are numbered without gap or repetition, and a final status is   *)
(* that of the last attempt.                                                *)
THEOREM HistoryMatchesHolds == Spec => []HistoryMatches
<1>1. QueueInv => HistoryMatches
  BY DEF QueueInv
<1> QED BY <1>1, QueueCorrect, PTL

(* FOR UPDATE SKIP LOCKED keeps two workers off the same delivery.          *)
THEOREM OneSenderHolds == Spec => []OneSender
<1>1. QueueInv => OneSender
  BY DEF QueueInv
<1> QED BY <1>1, QueueCorrect, PTL

(* No worker's commit swallows an accepted delivery or redelivery.          *)
THEOREM AcceptedIsServedHolds == Spec => []AcceptedIsServed
<1>1. QueueInv => AcceptedIsServed
  BY DEF QueueInv
<1> QED BY <1>1, QueueCorrect, PTL

(* Deliveries come with their event and go with their webhook.              *)
THEOREM QueuedWithItsEventHolds == Spec => []QueuedWithItsEvent
<1>1. QueueInv => QueuedWithItsEvent
  BY DEF QueueInv
<1> QED BY <1>1, QueueCorrect, PTL

-----------------------------------------------------------------------------
(* Each delivery implements DeliveryPromise.  For the step that records an  *)
(* attempt, the attempts on record must be fewer than those made, which     *)
(* needs that every answer a worker holds was counted.                      *)

TriesCounted ==
  \A d \in Deliveries :
    /\ IsFiniteSet(attempts[d]) /\ Cardinality(attempts[d]) =< tried[d]
    /\ \A w \in Workers :
         batch[w].result[d] # "none" => Cardinality(attempts[d]) < tried[d]

LEMMA CountedInit == Init => TriesCounted
<1> SUFFICES ASSUME Init PROVE TriesCounted
  OBVIOUS
<1>1. IsFiniteSet({}) /\ Cardinality({}) = 0
  BY FS_EmptySet
<1> QED BY <1>1 DEF Init, TriesCounted, NoBatch

LEMMA CountedNext ==
  ASSUME TypeOK, QueueInv, TriesCounted, [Next]_vars
  PROVE  TriesCounted'
<1>0. \A d \in Deliveries : Cardinality(attempts[d]) \in Nat /\ tried[d] \in Nat
  BY FS_CardinalityType DEF TriesCounted, TypeOK
<1>1. ASSUME UNCHANGED <<attempts, batch, tried>> PROVE TriesCounted'
  BY <1>1 DEF TriesCounted
<1>2. ASSUME NEW h \in Webhooks, DeleteWebhook(h) PROVE TriesCounted'
  <2>1. \A d \in Deliveries : attempts'[d] = IF d[1] = h THEN {} ELSE attempts[d]
    BY <1>2 DEF DeleteWebhook
  <2>2. UNCHANGED <<batch, tried>>
    BY <1>2 DEF DeleteWebhook
  <2>3. IsFiniteSet({}) /\ Cardinality({}) = 0
    BY FS_EmptySet
  <2>4. ASSUME NEW d \in Deliveries, d[1] = h, NEW w \in Workers
        PROVE  batch[w].result[d] = "none"
    <3>1. d = <<h, d[2]>> /\ d[2] \in Events
      BY <2>4 DEF Deliveries
    <3> QED BY <1>2, <3>1 DEF DeleteWebhook, Locked, QueueInv, JobsWait
  <2> QED BY <1>0, <2>1, <2>2, <2>3, <2>4 DEF TriesCounted
<1>3. ASSUME NEW w \in Workers, Claim(w) \/ Crash(w) PROVE TriesCounted'
  <2>1. \A d \in Deliveries : batch'[w].result[d] = "none"
    BY <1>3 DEF Claim, Crash, TypeOK, NoBatch
  <2>2. \A v \in Workers : v # w => batch'[v] = batch[v]
    BY <1>3 DEF Claim, Crash, TypeOK
  <2>3. UNCHANGED <<attempts, tried>>
    BY <1>3 DEF Claim, Crash
  <2> QED BY <2>1, <2>2, <2>3 DEF TriesCounted
<1>4. ASSUME NEW w \in Workers, NEW d \in Deliveries, Deliver(w, d) PROVE TriesCounted'
  <2>1. /\ tried'[d] = tried[d] + 1
        /\ \A e \in Deliveries : e # d => tried'[e] = tried[e]
        /\ attempts' = attempts
    BY <1>4 DEF Deliver, TypeOK
  <2>2. \A v \in Workers : \A e \in Deliveries :
          e # d => batch'[v].result[e] = batch[v].result[e]
    BY <1>4 DEF Deliver, TypeOK, Batch
  <2> QED BY <1>0, <2>1, <2>2 DEF TriesCounted
<1>5. ASSUME NEW w \in Workers, CommitBatch(w) PROVE TriesCounted'
  <2> DEFINE jobs == batch[w].jobs
             new(d) == [number |-> rows[d].count + 1, ok |-> batch[w].result[d] = "success"]
  <2>1. /\ tried' = tried
        /\ \A d \in Deliveries :
             attempts'[d] = IF d \in jobs THEN attempts[d] \cup {new(d)} ELSE attempts[d]
        /\ \A d \in jobs : d \in Deliveries /\ batch[w].result[d] # "none"
    BY <1>5 DEF CommitBatch, TypeOK, Batch
  <2>2. batch'[w] = NoBatch /\ \A v \in Workers : v # w => batch'[v] = batch[v]
    BY <1>5 DEF CommitBatch, TypeOK
  <2> HIDE DEF new
  <2>3. ASSUME NEW d \in Deliveries, d \in jobs PROVE
          /\ IsFiniteSet(attempts'[d]) /\ Cardinality(attempts'[d]) =< tried'[d]
          /\ \A v \in Workers : batch'[v].result[d] = "none"
    <3>1. attempts'[d] = attempts[d] \cup {new(d)} /\ IsFiniteSet(attempts[d])
      BY <2>1, <2>3 DEF TriesCounted
    <3>2. IsFiniteSet(attempts'[d])
          /\ Cardinality(attempts'[d]) \in {Cardinality(attempts[d]), Cardinality(attempts[d]) + 1}
      BY <3>1, FS_AddElement
    <3>3. Cardinality(attempts[d]) < tried[d]
      BY <2>1, <2>3 DEF TriesCounted
    <3>4. \A v \in Workers : batch'[v].result[d] = "none"
      BY <2>2, <2>3 DEF NoBatch, QueueInv, OneSender, JobsWait
    <3> QED BY <1>0, <2>1, <3>2, <3>3, <3>4
  <2>4. ASSUME NEW d \in Deliveries, d \notin jobs, NEW v \in Workers,
               batch'[v].result[d] # "none"
        PROVE  v # w /\ batch[v].result[d] # "none"
    BY <2>2, <2>4 DEF NoBatch
  <2> QED BY <2>1, <2>3, <2>4 DEF TriesCounted
<1>6. ASSUME NEW w \in Workers, Poll(w) PROVE TriesCounted'
  BY <1>1, <1>6 DEF Poll, vars
<1>7. ASSUME NEW h \in Webhooks, CreateWebhook(h) PROVE TriesCounted'
  BY <1>1, <1>7 DEF CreateWebhook
<1>8. ASSUME NEW r \in Requests,
             \/ \E e \in Events : ReadTargets(r, e)
             \/ Dispatch(r) \/ FailRequest(r) \/ Requeue(r)
             \/ \E d \in Deliveries : ReadDelivery(r, d)
      PROVE  TriesCounted'
  BY <1>1, <1>8 DEF ReadTargets, Dispatch, FailRequest, Requeue, ReadDelivery
<1>9. ASSUME NEW d \in Deliveries, ComesDue(d) PROVE TriesCounted'
  BY <1>1, <1>9 DEF ComesDue
<1>10. CASE UNCHANGED vars
  BY <1>1, <1>10 DEF vars
<1> QED BY <1>2, <1>3, <1>4, <1>5, <1>6, <1>7, <1>8, <1>9, <1>10 DEF Next, Work

(* How the owner's view of a delivery follows from the tables. *)
LEMMA StateIs ==
  ASSUME NEW d \in Deliveries
  PROVE  /\ State(d) = "pending" <=> rows[d].status \in Waiting
         /\ State(d) = "finished" <=> rows[d].status \in Final
         /\ rows[d].status \notin Waiting \cup Final =>
              State(d) = IF d \in announced THEN "removed" ELSE "absent"
  BY DEF State, Waiting, Final

(* What leaves a delivery's status and counters alone is no step of it.     *)
LEMMA PromiseStutters ==
  ASSUME NEW d \in Deliveries, rows'[d].status = rows[d].status,
         d \in announced' <=> d \in announced,
         tried'[d] = tried[d], attempts'[d] = attempts[d]
  PROVE  UNCHANGED Promise(d)!vars
  BY DEF Promise!vars, State

LEMMA PromiseInit == Init => \A d \in Deliveries : Promise(d)!Init
<1> SUFFICES ASSUME Init, NEW d \in Deliveries PROVE Promise(d)!Init
  OBVIOUS
<1>1. Cardinality({}) = 0
  BY FS_EmptySet
<1>2. State(d) = "absent"
  BY DEF Init, State, Absent, Waiting, Final
<1> QED BY <1>1, <1>2 DEF Init, Promise!Init

LEMMA PromiseHooks ==
  ASSUME TypeOK, QueueInv, NEW d \in Deliveries,
         NEW h \in Webhooks, CreateWebhook(h) \/ DeleteWebhook(h)
  PROVE  [Promise(d)!Next]_(Promise(d)!vars)
<1>1. CASE CreateWebhook(h) \/ d[1] # h
  BY <1>1, PromiseStutters DEF CreateWebhook, DeleteWebhook
<1>2. CASE DeleteWebhook(h) /\ d[1] = h
  <2>1. rows'[d] = Absent /\ attempts'[d] = {} /\ tried' = tried /\ announced' = announced
    BY <1>2 DEF DeleteWebhook
  <2>2. Cardinality({}) = 0
    BY FS_EmptySet
  <2>3. CASE rows[d] = Absent
    <3>1. rows[d].count = 0
      BY <2>3 DEF Absent
    <3>2. \A a \in attempts[d] : a.number \in 1..0
      <4>1. {a.number : a \in attempts[d]} = 1..rows[d].count
        BY DEF QueueInv, HistoryMatches
      <4> QED BY <3>1, <4>1
    <3>3. attempts[d] = {}
      BY <3>2
    <3> QED BY <2>1, <2>3, <3>3, PromiseStutters
  <2>4. CASE rows[d] # Absent
    <3>1. d \in announced
      BY <2>4 DEF QueueInv, QueuedWithItsEvent, Present
    <3>2. State(d) \in {"pending", "finished"}
      BY <2>4 DEF TypeOK, Row, State
    <3>3. State(d)' = "removed"
      BY <2>1, <3>1 DEF State, Absent, Waiting, Final
    <3> QED BY <2>1, <2>2, <3>2, <3>3 DEF Promise!Next, Promise!Remove
  <2> QED BY <2>3, <2>4
<1> QED BY <1>1, <1>2

LEMMA PromiseRequest ==
  ASSUME TypeOK, QueueInv, NEW d \in Deliveries, NEW r \in Requests,
         \/ \E e \in Events : ReadTargets(r, e)
         \/ Dispatch(r) \/ FailRequest(r) \/ Requeue(r)
         \/ \E e \in Deliveries : ReadDelivery(r, e)
  PROVE  [Promise(d)!Next]_(Promise(d)!vars)
<1>1. CASE (\E e \in Events : ReadTargets(r, e)) \/ FailRequest(r)
             \/ (\E e \in Deliveries : ReadDelivery(r, e))
  BY <1>1, PromiseStutters DEF ReadTargets, FailRequest, ReadDelivery
<1>2. CASE Dispatch(r)
  <2> DEFINE new == request[r].targets \X {request[r].event}
  <2>1. /\ rows'[d] = IF d \in new THEN NewRow ELSE rows[d]
        /\ announced' = announced \cup new /\ UNCHANGED <<attempts, tried>>
    BY <1>2 DEF Dispatch
  <2>2. CASE d \in new
    <3>1. d \notin announced
      BY <1>2, <2>2 DEF Dispatch, QueueInv, FreshEvents
    <3>2. rows[d] = Absent
      BY <3>1 DEF QueueInv, QueuedWithItsEvent, Present
    <3>3. State(d) = "absent"
      BY <3>1, <3>2 DEF State, Absent, Waiting, Final
    <3>4. State(d)' = "pending"
      BY <2>1, <2>2 DEF State, NewRow, Waiting
    <3> QED BY <2>1, <3>3, <3>4 DEF Promise!Next, Promise!Queue
  <2>3. CASE d \notin new
    BY <2>1, <2>3, PromiseStutters
  <2> QED BY <2>2, <2>3
<1>3. CASE Requeue(r)
  <2>1. request[r].delivery \in Deliveries
    BY <1>3 DEF Requeue, TypeOK, Request
  <2>2. UNCHANGED <<attempts, tried, announced>>
    BY <1>3 DEF Requeue
  <2>3. CASE d # request[r].delivery
    <3>1. rows'[d] = rows[d]
      BY <1>3, <2>1, <2>3 DEF Requeue, TypeOK
    <3> QED BY <2>2, <3>1, PromiseStutters
  <2>4. CASE d = request[r].delivery
    <3>1. rows[d] \in Row
      BY <1>3, <2>4 DEF Requeue, TypeOK, Present
    <3>2. rows'[d].status = "queued"
      BY <1>3, <2>1, <2>4, <3>1 DEF Requeue, TypeOK, Row
    <3>3. State(d)' = "pending"
      BY <3>2 DEF State, Waiting
    <3>4. State(d) \in {"pending", "finished"}
      BY <3>1 DEF Row, State
    <3> QED BY <2>2, <3>3, <3>4 DEF Promise!Next, Promise!Requeue, Promise!vars
  <2> QED BY <2>3, <2>4
<1> QED BY <1>1, <1>2, <1>3

LEMMA PromiseWorker ==
  ASSUME TypeOK, QueueInv, TriesCounted, NEW d \in Deliveries,
         NEW w \in Workers, Work(w) \/ Crash(w)
  PROVE  [Promise(d)!Next]_(Promise(d)!vars)
<1>1. CASE Claim(w) \/ Crash(w)
  BY <1>1, PromiseStutters DEF Claim, Crash
<1>2. ASSUME NEW e \in Deliveries, Deliver(w, e)
      PROVE  [Promise(d)!Next]_(Promise(d)!vars)
  <2>1. UNCHANGED <<rows, attempts, announced>> /\ tried' = [tried EXCEPT ![e] = @ + 1]
    BY <1>2 DEF Deliver
  <2>2. CASE d = e
    <3>1. State(d) = "pending" /\ State(d)' = State(d)
      BY <1>2, <2>1, <2>2 DEF Deliver, QueueInv, JobsWait, State
    <3>2. tried'[d] = tried[d] + 1
      BY <2>1, <2>2 DEF TypeOK
    <3> QED BY <2>1, <3>1, <3>2 DEF Promise!Next, Promise!Try
  <2>3. CASE d # e
    <3>1. tried'[d] = tried[d]
      BY <2>1, <2>3 DEF TypeOK
    <3> QED BY <2>1, <3>1, PromiseStutters
  <2> QED BY <2>2, <2>3
<1>3. CASE CommitBatch(w)
  <2> DEFINE jobs == batch[w].jobs
             new == [number |-> rows[d].count + 1, ok |-> batch[w].result[d] = "success"]
  <2>1. /\ UNCHANGED <<tried, announced>>
        /\ rows'[d] = IF d \in jobs THEN Attempted(rows[d], batch[w].result[d]) ELSE rows[d]
        /\ attempts'[d] = IF d \in jobs THEN attempts[d] \cup {new} ELSE attempts[d]
        /\ d \in jobs => batch[w].result[d] # "none"
    BY <1>3 DEF CommitBatch
  <2>2. CASE d \notin jobs
    BY <2>1, <2>2, PromiseStutters
  <2>3. CASE d \in jobs
    <3>1. State(d) = "pending"
      BY <2>3 DEF QueueInv, JobsWait, State
    <3>2. rows'[d].status \in Waiting \cup Final
      BY <2>1, <2>3, AttemptedShape
    <3>3. State(d)' \in {"pending", "finished"}
      BY <3>2 DEF State
    <3>4. new.number = rows[d].count + 1 /\ rows[d].count \in Nat
      BY DEF TypeOK, Row, Absent
    <3> HIDE DEF new
    <3>5. \A a \in attempts[d] : a.number \in 1..rows[d].count
      BY DEF QueueInv, HistoryMatches
    <3>6. new \notin attempts[d]
      BY <3>4, <3>5
    <3>7. attempts'[d] = attempts[d] \cup {new} /\ IsFiniteSet(attempts[d])
      BY <2>1, <2>3 DEF TriesCounted
    <3>8. Cardinality(attempts'[d]) = Cardinality(attempts[d]) + 1
      BY <3>6, <3>7, FS_AddElement
    <3>9. Cardinality(attempts[d]) < tried[d]
      BY <2>1, <2>3 DEF TriesCounted
    <3> QED BY <2>1, <3>1, <3>3, <3>8, <3>9 DEF Promise!Next, Promise!Record
  <2> QED BY <2>2, <2>3
<1> QED BY <1>1, <1>2, <1>3 DEF Work

LEMMA PromiseNext ==
  ASSUME TypeOK, QueueInv, TriesCounted, [Next]_vars, NEW d \in Deliveries
  PROVE  [Promise(d)!Next]_(Promise(d)!vars)
<1>1. CASE UNCHANGED vars
  BY <1>1, PromiseStutters DEF vars
<1>2. ASSUME NEW w \in Workers, Poll(w) PROVE [Promise(d)!Next]_(Promise(d)!vars)
  BY <1>1, <1>2 DEF Poll
<1>3. ASSUME NEW e \in Deliveries, ComesDue(e) PROVE [Promise(d)!Next]_(Promise(d)!vars)
  <2>1. rows[e] \in Row
    BY <1>3 DEF ComesDue, TypeOK, Absent
  <2>2. rows'[d].status = rows[d].status
    BY <1>3, <2>1 DEF ComesDue, TypeOK, Row
  <2>3. UNCHANGED <<attempts, tried, announced>>
    BY <1>3 DEF ComesDue
  <2> QED BY <2>2, <2>3, PromiseStutters
<1> QED BY <1>1, <1>2, <1>3, PromiseHooks, PromiseRequest, PromiseWorker DEF Next

(* Every delivery of the queue, with any number of workers, crashes and     *)
(* redeliveries, behaves as DeliveryPromise allows.                         *)
THEOREM KeepsPromiseHolds == Spec => KeepsPromise
<1> DEFINE Step == \A d \in Deliveries : [Promise(d)!Next]_(Promise(d)!vars)
<1>1. TypeOK /\ QueueInv /\ TriesCounted /\ [Next]_vars => TriesCounted'
  BY CountedNext
<1>2. Spec => []TriesCounted
  BY <1>1, CountedInit, TypeCorrect, QueueCorrect, PTL DEF Spec
<1>3. TypeOK /\ QueueInv /\ TriesCounted /\ [Next]_vars => [Step]_vars
  BY PromiseNext
<1>4. Spec => [][Step]_vars
  BY <1>2, <1>3, TypeCorrect, QueueCorrect, PTL DEF Spec
<1>5. Spec => \A d \in Deliveries : Promise(d)!Init
  BY PromiseInit DEF Spec
<1> QED BY <1>4, <1>5 DEF KeepsPromise

-----------------------------------------------------------------------------
(* How many requests a receiver gets.  A redelivery that is served grants    *)
(* MaxAttempts more, the limit it sets being no more than the attempts on    *)
(* record by then plus MaxAttempts; a waiting delivery has at least one      *)
(* attempt left even when its limit is behind its count.                     *)

Left(row) ==
  IF row.status \notin Waiting THEN 0
  ELSE IF row.max > row.count THEN row.max - row.count ELSE 1

Answered(d) == \E w \in Workers : batch[w].result[d] # "none"

Granted(n) == MaxAttempts * (1 + n)

(* Attempts on record and left of a delivery stay within what was granted;   *)
(* the attempts made are those on record, one a worker has not committed     *)
(* yet, and those a crash forgot.                                            *)
DeliveryOK(row, known, answered, made, served, forgotten) ==
  /\ row # Absent =>
       /\ row.count + Left(row) =< Granted(served)
       /\ made =< row.count + (IF answered THEN 1 ELSE 0) + forgotten
  /\ ~known => made = 0
  /\ made =< Granted(served) + forgotten

RequestOK(q, known, table) ==
  q.op = "redeliver" =>
    /\ q.delivery \in known
    /\ table[q.delivery] # Absent => q.count =< table[q.delivery].count

DeliveriesOK ==
  \A d \in Deliveries :
    DeliveryOK(rows[d], d \in announced, Answered(d), tried[d], redelivered[d], lost[d])

BudgetInv ==
  /\ DeliveriesOK
  /\ \A r \in Requests : RequestOK(request[r], announced, rows)
  /\ \A d \in Deliveries : sent[d] =< MaxAddresses * tried[d]

LEMMA GrantedGrows ==
  ASSUME NEW n \in Nat
  PROVE  /\ Granted(n) \in Nat /\ MaxAttempts \in Nat \ {0} /\ MaxAttempts =< Granted(n)
         /\ Granted(n + 1) = Granted(n) + MaxAttempts
<1>1. MaxAttempts \in Nat \ {0} /\ MaxAttempts * n \in Nat
  BY SettingsAssumption
<1>2. MaxAttempts * (1 + n) = MaxAttempts + MaxAttempts * n
      /\ MaxAttempts * (1 + (n + 1)) = MaxAttempts + MaxAttempts * n + MaxAttempts
  BY <1>1
<1> QED BY <1>1, <1>2 DEF Granted

(* A row that may be sent has an attempt left. *)
LEMMA LeftType ==
  ASSUME NEW row \in Row \cup {Absent}
  PROVE  /\ row.count \in Nat /\ row.max \in Nat /\ Left(row) \in Nat
         /\ row.status \in Waiting => Left(row) >= 1
BY DEF Row, Absent, Left

(* What is on record bounds what was made. *)
LEMMA MadeBounded ==
  ASSUME NEW row \in Row, NEW known, NEW answered, NEW made \in Nat,
         NEW served \in Nat, NEW forgotten \in Nat,
         answered => row.status \in Waiting,
         row.count + Left(row) =< Granted(served),
         made =< row.count + (IF answered THEN 1 ELSE 0) + forgotten, known
  PROVE  DeliveryOK(row, known, answered, made, served, forgotten)
<1> DEFINE s == IF answered THEN 1 ELSE 0
<1>1. /\ row.count \in Nat /\ Left(row) \in Nat
      /\ row.status \in Waiting => Left(row) >= 1
  BY LeftType
<1>2. Granted(served) \in Nat
  BY GrantedGrows
<1>3. s \in Nat /\ made =< row.count + s + forgotten /\ s =< Left(row)
  BY <1>1
<1> HIDE DEF s
<1>4. made =< Granted(served) + forgotten
  BY <1>1, <1>2, <1>3
<1> QED BY <1>4 DEF DeliveryOK

LEMMA BudgetInit == Init => BudgetInv
<1> SUFFICES ASSUME Init PROVE BudgetInv
  OBVIOUS
<1>1. \A r \in Requests : RequestOK(request[r], announced, rows)
  BY DEF Init, NoRequest, RequestOK
<1>2. ASSUME NEW d \in Deliveries
      PROVE  DeliveryOK(rows[d], d \in announced, Answered(d), tried[d], redelivered[d], lost[d])
  <2>1. rows[d] = Absent /\ tried[d] = 0 /\ redelivered[d] = 0 /\ lost[d] = 0
    BY DEF Init
  <2>2. Granted(0) \in Nat
    BY GrantedGrows
  <2> QED BY <2>1, <2>2 DEF DeliveryOK
<1>3. \A d \in Deliveries : sent[d] =< MaxAddresses * tried[d]
  BY AddressesAssumption DEF Init
<1> QED BY <1>1, <1>2, <1>3 DEF BudgetInv, DeliveriesOK

(* A step of a webhook, and the clock, leave what they keep as it is. *)
LEMMA BudgetHooks ==
  ASSUME TypeOK, BudgetInv,
         NEW h \in Webhooks, CreateWebhook(h) \/ DeleteWebhook(h)
  PROVE  BudgetInv'
<1>1. UNCHANGED <<request, batch, announced, tried, sent, redelivered, lost>>
  BY DEF CreateWebhook, DeleteWebhook
<1>2. \A d \in Deliveries : Answered(d)' = Answered(d)
  BY <1>1 DEF Answered
<1>3. \A d \in Deliveries : rows'[d] = rows[d] \/ rows'[d] = Absent
  BY DEF CreateWebhook, DeleteWebhook
<1>4. ASSUME NEW d \in Deliveries
      PROVE  DeliveryOK(rows'[d], d \in announced', Answered(d)', tried'[d],
                        redelivered'[d], lost'[d])
  BY <1>1, <1>2, <1>3 DEF BudgetInv, DeliveriesOK, DeliveryOK
<1>5. ASSUME NEW r \in Requests PROVE RequestOK(request'[r], announced', rows')
  <2>1. RequestOK(request[r], announced, rows) /\ announced \subseteq Deliveries
    BY DEF BudgetInv, TypeOK
  <2> QED BY <1>1, <1>3, <2>1 DEF RequestOK
<1> QED BY <1>1, <1>4, <1>5 DEF BudgetInv, DeliveriesOK

LEMMA BudgetComesDue ==
  ASSUME TypeOK, BudgetInv, NEW d \in Deliveries, ComesDue(d)
  PROVE  BudgetInv'
<1>1. UNCHANGED <<request, batch, announced, tried, sent, redelivered, lost>>
  BY DEF ComesDue
<1>2. \A e \in Deliveries : Answered(e)' = Answered(e)
  BY <1>1 DEF Answered
<1>3. rows[d] \in Row /\ rows[d] # Absent
  BY DEF TypeOK, ComesDue, Absent
<1>4. \A e \in Deliveries :
        /\ rows'[e].status = rows[e].status /\ rows'[e].count = rows[e].count
        /\ rows'[e].max = rows[e].max
        /\ rows'[e] = Absent <=> rows[e] = Absent
  BY <1>3 DEF TypeOK, ComesDue, Row, Absent
<1>5. ASSUME NEW e \in Deliveries PROVE Left(rows'[e]) = Left(rows[e])
  <2> DEFINE new == rows'[e]
             old == rows[e]
  <2>1. new.status = old.status /\ new.count = old.count /\ new.max = old.max
    BY <1>4
  <2> HIDE DEF new, old
  <2>2. Left(new) = Left(old)
    BY <2>1 DEF Left
  <2> QED BY <2>2 DEF new, old
<1>6. ASSUME NEW e \in Deliveries
      PROVE  DeliveryOK(rows'[e], e \in announced', Answered(e)', tried'[e],
                        redelivered'[e], lost'[e])
  BY <1>1, <1>2, <1>4, <1>5 DEF BudgetInv, DeliveriesOK, DeliveryOK
<1>7. ASSUME NEW r \in Requests PROVE RequestOK(request'[r], announced', rows')
  <2>1. RequestOK(request[r], announced, rows) /\ announced \subseteq Deliveries
    BY DEF BudgetInv, TypeOK
  <2> QED BY <1>1, <1>4, <2>1 DEF RequestOK
<1> QED BY <1>1, <1>6, <1>7 DEF BudgetInv, DeliveriesOK

(* A request that begins or ends and writes no delivery. *)
LEMMA BudgetRead ==
  ASSUME TypeOK, QueueInv, BudgetInv, NEW r \in Requests,
         \/ \E e \in Events : ReadTargets(r, e)
         \/ FailRequest(r)
         \/ \E d \in Deliveries : ReadDelivery(r, d)
  PROVE  BudgetInv'
<1>1. UNCHANGED <<rows, batch, announced, tried, sent, redelivered, lost>>
      /\ \A q \in Requests : q # r => request'[q] = request[q]
  BY DEF ReadTargets, FailRequest, ReadDelivery, TypeOK
<1>2. DeliveriesOK' /\ \A d \in Deliveries : sent'[d] =< MaxAddresses * tried'[d]
  BY <1>1 DEF BudgetInv, DeliveriesOK, Answered
<1>3. RequestOK(request'[r], announced', rows')
  <2>1. CASE request'[r].op # "redeliver"
    BY <2>1 DEF RequestOK
  <2>2. CASE \E d \in Deliveries : ReadDelivery(r, d)
    <3>1. PICK d \in Deliveries : ReadDelivery(r, d)
      BY <2>2
    <3>2. request'[r] = [op |-> "redeliver", delivery |-> d, count |-> rows[d].count]
          /\ hooks[d[1]] = "active" /\ rows[d].status \in Final
      BY <3>1 DEF ReadDelivery, TypeOK
    <3>3. d \in announced
      BY <3>2 DEF QueueInv, QueuedWithItsEvent, Present, Absent, Final
    <3>4. rows[d].count \in Nat
      BY LeftType DEF TypeOK
    <3> QED BY <1>1, <3>2, <3>3, <3>4 DEF RequestOK
  <2> QED BY <2>1, <2>2 DEF ReadTargets, FailRequest, NoRequest, TypeOK
<1>4. \A q \in Requests : RequestOK(request'[q], announced', rows')
  BY <1>1, <1>3 DEF BudgetInv
<1> QED BY <1>2, <1>4 DEF BudgetInv

(* New deliveries start with MaxAttempts; their event is new, so nothing was *)
(* tried for them and no open redelivery is for them.                        *)
LEMMA BudgetDispatch ==
  ASSUME TypeOK, QueueInv, BudgetInv, NEW r \in Requests, Dispatch(r)
  PROVE  BudgetInv'
<1> DEFINE new == request[r].targets \X {request[r].event}
<1>1. request[r] \in [op: {"event"}, event: Events, targets: SUBSET Webhooks]
  BY DEF Dispatch, TypeOK, Request
<1>2. \A d \in new : d \in Deliveries /\ d[2] = request[r].event
  BY <1>1 DEF Deliveries
<1>3. \A d \in new : d \notin announced
  BY <1>2 DEF Dispatch, QueueInv, FreshEvents
<1>4. /\ \A d \in Deliveries : rows'[d] = IF d \in new THEN NewRow ELSE rows[d]
      /\ announced' = announced \cup new
      /\ UNCHANGED <<batch, tried, sent, redelivered, lost>>
      /\ request'[r] = NoRequest /\ \A q \in Requests : q # r => request'[q] = request[q]
  BY DEF Dispatch, TypeOK
<1> HIDE DEF new
<1>5. \A d \in Deliveries : Answered(d)' = Answered(d)
  BY <1>4 DEF Answered
<1>6. ASSUME NEW d \in Deliveries
      PROVE  DeliveryOK(rows'[d], d \in announced', Answered(d)', tried'[d],
                        redelivered'[d], lost'[d])
  <2>1. redelivered[d] \in Nat /\ lost[d] \in Nat
    BY DEF TypeOK
  <2>2. CASE d \in new
    <3>1. tried[d] = 0
      BY <1>3, <2>2 DEF BudgetInv, DeliveriesOK, DeliveryOK
    <3>2. rows'[d] = NewRow /\ d \in announced'
      BY <1>4, <2>2
    <3>3. NewRow.count = 0 /\ Left(NewRow) = MaxAttempts /\ NewRow.status \in Waiting
      BY SettingsAssumption DEF NewRow, Left, Waiting
    <3>4. /\ MaxAttempts =< Granted(redelivered[d]) /\ MaxAttempts \in Nat
          /\ Granted(redelivered[d]) \in Nat
      BY <2>1, GrantedGrows
    <3> DEFINE s == IF Answered(d)' THEN 1 ELSE 0
    <3>5. s \in Nat
      OBVIOUS
    <3> HIDE DEF s
    <3>6. /\ 0 + MaxAttempts =< Granted(redelivered[d]) /\ 0 =< 0 + s + lost[d]
          /\ 0 =< Granted(redelivered[d]) + lost[d]
      BY <2>1, <3>4, <3>5
    <3> QED BY <1>4, <3>1, <3>2, <3>3, <3>6 DEF DeliveryOK, s
  <2>3. CASE d \notin new
    BY <1>4, <1>5, <2>3 DEF BudgetInv, DeliveriesOK
  <2> QED BY <2>2, <2>3
<1>7. ASSUME NEW q \in Requests PROVE RequestOK(request'[q], announced', rows')
  <2>1. CASE q = r
    BY <1>4, <2>1 DEF RequestOK, NoRequest
  <2>2. CASE q # r
    <3>1. RequestOK(request[q], announced, rows) /\ request'[q] = request[q]
      BY <1>4, <2>2 DEF BudgetInv
    <3>2. \A d \in announced : rows'[d] = rows[d] /\ d \in announced'
      BY <1>3, <1>4 DEF TypeOK
    <3> QED BY <3>1, <3>2 DEF RequestOK
  <2> QED BY <2>1, <2>2
<1> QED BY <1>4, <1>6, <1>7 DEF BudgetInv, DeliveriesOK

(* A redelivery that is served grants at most MaxAttempts beyond the count.  *)
LEMMA BudgetRequeue ==
  ASSUME TypeOK, BudgetInv, NEW r \in Requests, Requeue(r)
  PROVE  BudgetInv'
<1>1. request[r] \in [op: {"redeliver"}, delivery: Deliveries, count: Nat]
  BY DEF Requeue, TypeOK, Request
<1>0. PICK d \in Deliveries : d = request[r].delivery
  BY <1>1
<1> DEFINE n == request[r].count
           row == [rows[d] EXCEPT !.status = "queued", !.due = TRUE, !.max = n + MaxAttempts]
<1>2. n \in Nat /\ rows[d] \in Row /\ rows[d] # Absent
  BY <1>0, <1>1 DEF Requeue, TypeOK, Present
<1>3. /\ rows' = [rows EXCEPT ![d] = row]
      /\ redelivered' = [redelivered EXCEPT ![d] = @ + 1]
      /\ UNCHANGED <<batch, tried, announced, sent, lost>>
      /\ request'[r] = NoRequest /\ \A q \in Requests : q # r => request'[q] = request[q]
  BY <1>0, <1>2 DEF Requeue, TypeOK
<1>4. /\ row.status = "queued" /\ row.count = rows[d].count /\ row.max = n + MaxAttempts
      /\ row \in Row /\ row # Absent
  <2>1. n + MaxAttempts \in Nat
    BY <1>2, SettingsAssumption
  <2> QED BY <1>2, <2>1 DEF Row, Absent, Waiting
<1>5. /\ rows'[d] = row /\ redelivered'[d] = redelivered[d] + 1 /\ redelivered[d] \in Nat
      /\ \A e \in Deliveries : e # d => rows'[e] = rows[e] /\ redelivered'[e] = redelivered[e]
  BY <1>2, <1>3 DEF TypeOK
<1>6. RequestOK(request[r], announced, rows)
  BY DEF BudgetInv
<1>7. d \in announced /\ n =< rows[d].count
  BY <1>0, <1>1, <1>2, <1>6 DEF RequestOK
<1> HIDE DEF row
<1>8. \A e \in Deliveries : Answered(e)' = Answered(e)
  BY <1>3 DEF Answered
<1>9. DeliveryOK(row, d \in announced, Answered(d), tried[d], redelivered[d] + 1, lost[d])
  <2> DEFINE answered == Answered(d)
             s == IF answered THEN 1 ELSE 0
             count == rows[d].count
  <2>1. DeliveryOK(rows[d], d \in announced, answered, tried[d], redelivered[d], lost[d])
    BY <1>2 DEF BudgetInv, DeliveriesOK
  <2>2. /\ count + Left(rows[d]) =< Granted(redelivered[d])
        /\ tried[d] =< count + s + lost[d]
        /\ tried[d] =< Granted(redelivered[d]) + lost[d]
    BY <1>2, <2>1 DEF DeliveryOK
  <2>3. count \in Nat /\ Left(rows[d]) \in Nat /\ tried[d] \in Nat /\ s \in Nat /\ lost[d] \in Nat
    BY <1>2, LeftType DEF TypeOK
  <2>4. /\ Granted(redelivered[d]) \in Nat /\ MaxAttempts \in Nat \ {0}
        /\ Granted(redelivered[d] + 1) = Granted(redelivered[d]) + MaxAttempts
    BY <1>5, GrantedGrows
  <2>5. row.count = count /\ n =< count /\ row.status \in Waiting
    BY <1>4, <1>7 DEF Waiting
  <2> HIDE DEF answered, s, count
  <2>6. Left(row) =< MaxAttempts
    BY <1>2, <1>4, <2>3, <2>4, <2>5 DEF Left
  <2>7. Left(row) \in Nat
    BY <1>4, LeftType
  <2>8. /\ row.count + Left(row) =< Granted(redelivered[d] + 1)
        /\ tried[d] =< Granted(redelivered[d] + 1) + lost[d]
        /\ tried[d] =< row.count + s + lost[d]
    BY <2>2, <2>3, <2>4, <2>5, <2>6, <2>7
  <2> QED BY <1>7, <2>8 DEF DeliveryOK, s, answered
<1>10. ASSUME NEW e \in Deliveries
       PROVE  DeliveryOK(rows'[e], e \in announced', Answered(e)', tried'[e],
                         redelivered'[e], lost'[e])
  <2>1. CASE e = d
    BY <1>3, <1>5, <1>8, <1>9, <2>1
  <2>2. CASE e # d
    BY <1>3, <1>5, <1>8, <2>2 DEF BudgetInv, DeliveriesOK
  <2> QED BY <2>1, <2>2
<1>11. ASSUME NEW q \in Requests PROVE RequestOK(request'[q], announced', rows')
  <2>1. CASE q = r
    BY <1>3, <2>1 DEF RequestOK, NoRequest
  <2>2. CASE q # r
    <3>1. RequestOK(request[q], announced, rows) /\ request'[q] = request[q]
      BY <1>3, <2>2 DEF BudgetInv
    <3>2. \A e \in Deliveries : /\ rows'[e].count = rows[e].count
                                /\ rows'[e] # Absent => rows[e] # Absent
      BY <1>2, <1>4, <1>5
    <3>3. announced' = announced /\ announced \subseteq Deliveries
      BY <1>3 DEF TypeOK
    <3> HIDE DEF n
    <3> QED BY <3>1, <3>2, <3>3 DEF RequestOK
  <2> QED BY <2>1, <2>2
<1> HIDE DEF n
<1> QED BY <1>3, <1>10, <1>11 DEF BudgetInv, DeliveriesOK

(* What a worker does leaves the requests of the API alone. *)
LEMMA WorkerRequests ==
  ASSUME TypeOK, BudgetInv, UNCHANGED <<request, announced>>,
         \A d \in Deliveries : /\ rows'[d] # Absent => rows[d] # Absent
                               /\ rows'[d].count >= rows[d].count
                               /\ rows[d].count \in Nat /\ rows'[d].count \in Nat
  PROVE  \A q \in Requests : RequestOK(request'[q], announced', rows')
<1> SUFFICES ASSUME NEW q \in Requests PROVE RequestOK(request'[q], announced', rows')
  OBVIOUS
<1>1. RequestOK(request[q], announced, rows) /\ request[q] \in Request
  BY DEF BudgetInv, TypeOK
<1>2. ASSUME request[q].op = "redeliver"
      PROVE  request[q].count \in Nat /\ request[q].delivery \in Deliveries
  BY <1>1, <1>2 DEF Request
<1> QED BY <1>1, <1>2 DEF RequestOK

LEMMA BudgetClaim ==
  ASSUME TypeOK, QueueInv, BudgetInv, NEW w \in Workers, Claim(w)
  PROVE  BudgetInv'
<1>1. UNCHANGED <<rows, request, announced, tried, sent, redelivered, lost>>
  BY DEF Claim
<1>2. PICK jobs : batch' = [batch EXCEPT ![w] = [NoBatch EXCEPT !.jobs = jobs]]
  BY DEF Claim
<1>3. \A d \in Deliveries : batch'[w].result[d] = "none" /\ batch[w].result[d] = "none"
  BY <1>2 DEF Claim, NoBatch, TypeOK, QueueInv, JobsWait
<1>4. \A v \in Workers : v # w => batch'[v] = batch[v]
  BY <1>2 DEF TypeOK
<1>5. \A d \in Deliveries : Answered(d)' = Answered(d)
  BY <1>3, <1>4 DEF Answered
<1> QED BY <1>1, <1>5 DEF BudgetInv, DeliveriesOK

(* What an attempt may add to what was sent. *)
LEMMA OneMoreAttempt ==
  ASSUME NEW a \in Nat, NEW s \in Nat, NEW n \in 1..MaxAddresses, s =< MaxAddresses * a
  PROVE  s + n =< MaxAddresses * (a + 1)
<1>1. MaxAddresses \in Nat /\ MaxAddresses * a \in Nat
  BY AddressesAssumption
<1>2. MaxAddresses * (a + 1) = MaxAddresses * a + MaxAddresses
  BY <1>1
<1> QED BY <1>1, <1>2

(* An attempt is made for a row that waits and has no answer yet. *)
LEMMA BudgetDeliver ==
  ASSUME TypeOK, QueueInv, BudgetInv, NEW w \in Workers, NEW d \in Deliveries,
         Deliver(w, d)
  PROVE  BudgetInv'
<1>1. UNCHANGED <<rows, request, announced, redelivered, lost>>
  BY DEF Deliver
<1>2. /\ tried'[d] = tried[d] + 1 /\ tried[d] \in Nat
      /\ \A e \in Deliveries : e # d => tried'[e] = tried[e]
  BY DEF Deliver, TypeOK
<1>3. \A v \in Workers : \A e \in Deliveries :
        e # d => batch'[v].result[e] = batch[v].result[e]
  BY DEF Deliver, TypeOK, Batch
<1>4. \A e \in Deliveries : e # d => Answered(e)' = Answered(e)
  BY <1>3 DEF Answered
<1>5. batch'[w].result[d] # "none"
  BY DEF Deliver, TypeOK, Batch, Results
<1>6. Answered(d)' /\ ~Answered(d) /\ rows[d].status \in Waiting
  <2>1. d \in batch[w].jobs /\ batch[w].result[d] = "none"
    BY DEF Deliver
  <2>2. \A v \in Workers : v # w => d \notin batch[v].jobs
    BY <2>1 DEF QueueInv, OneSender
  <2> QED BY <1>5, <2>1, <2>2 DEF Answered, QueueInv, JobsWait
<1>7. \A e \in Deliveries : rows[e].count \in Nat
  BY LeftType DEF TypeOK
<1>8. \A q \in Requests : RequestOK(request'[q], announced', rows')
  BY <1>1, <1>7, WorkerRequests
<1>9. DeliveryOK(rows[d], d \in announced, TRUE, tried[d] + 1, redelivered[d], lost[d])
  <2>1. rows[d] \in Row /\ rows[d] # Absent /\ d \in announced
    BY <1>6, AbsentIsNoRow DEF TypeOK, QueueInv, QueuedWithItsEvent, Present
  <2>2. DeliveryOK(rows[d], d \in announced, Answered(d), tried[d], redelivered[d], lost[d])
    BY DEF BudgetInv, DeliveriesOK
  <2>3. /\ rows[d].count + Left(rows[d]) =< Granted(redelivered[d])
        /\ tried[d] =< rows[d].count + lost[d] /\ lost[d] \in Nat /\ redelivered[d] \in Nat
        /\ rows[d].count \in Nat
    BY <1>6, <1>7, <2>1, <2>2 DEF DeliveryOK, TypeOK
  <2>4. tried[d] + 1 \in Nat /\ tried[d] + 1 =< rows[d].count + (IF TRUE THEN 1 ELSE 0) + lost[d]
    BY <1>2, <2>3
  <2> QED BY <1>6, <2>1, <2>3, <2>4, MadeBounded
<1>10. ASSUME NEW e \in Deliveries
       PROVE  DeliveryOK(rows'[e], e \in announced', Answered(e)', tried'[e],
                         redelivered'[e], lost'[e])
  <2>1. CASE e = d
    <3>1. Answered(d)' = TRUE
      BY <1>6 DEF Answered
    <3> QED BY <1>1, <1>2, <1>9, <2>1, <3>1
  <2>2. CASE e # d
    BY <1>1, <1>2, <1>4, <2>2 DEF BudgetInv, DeliveriesOK
  <2> QED BY <2>1, <2>2
<1>11. ASSUME NEW e \in Deliveries PROVE sent'[e] =< MaxAddresses * tried'[e]
  <2>1. PICK n \in 1..MaxAddresses : sent' = [sent EXCEPT ![d] = @ + n]
    BY DEF Deliver
  <2>2. sent[e] =< MaxAddresses * tried[e] /\ sent[e] \in Nat /\ tried[e] \in Nat
    BY DEF BudgetInv, TypeOK
  <2>3. CASE e = d
    BY <1>2, <2>1, <2>2, <2>3, OneMoreAttempt DEF TypeOK
  <2>4. CASE e # d
    BY <1>2, <2>1, <2>2, <2>4 DEF TypeOK
  <2> QED BY <2>3, <2>4
<1> QED BY <1>8, <1>10, <1>11 DEF BudgetInv, DeliveriesOK

(* What an attempt takes from what is left. *)
LEMMA AttemptedLeft ==
  ASSUME NEW row \in Row, row.status \in Waiting, NEW result \in Results
  PROVE  /\ Attempted(row, result) \in Row /\ Attempted(row, result).count = row.count + 1
         /\ Attempted(row, result).count + Left(Attempted(row, result))
              =< row.count + Left(row)
<1> DEFINE new == Attempted(row, result)
<1>1. /\ new \in Row /\ new.count = row.count + 1 /\ new.max = row.max
      /\ new.status \in Waiting => row.count + 1 < row.max
  BY AttemptedType DEF Attempted, Waiting
<1>2. /\ row.count \in Nat /\ row.max \in Nat /\ Left(row) \in Nat /\ Left(row) >= 1
      /\ row.max > row.count => Left(row) = row.max - row.count
  BY LeftType DEF Left
<1> HIDE DEF new
<1>3. CASE new.status \in Waiting
  <2>1. Left(new) = new.max - new.count
    BY <1>1, <1>2, <1>3 DEF Left
  <2> QED BY <1>1, <1>2, <1>3, <2>1 DEF new
<1>4. CASE new.status \notin Waiting
  <2>1. Left(new) = 0
    BY <1>4 DEF Left
  <2> QED BY <1>1, <1>2, <2>1 DEF new
<1> QED BY <1>3, <1>4

LEMMA BudgetCommit ==
  ASSUME TypeOK, QueueInv, BudgetInv, NEW w \in Workers, CommitBatch(w)
  PROVE  BudgetInv'
<1> DEFINE jobs == batch[w].jobs
           result == batch[w].result
<1>1. /\ \A d \in Deliveries : rows'[d] = IF d \in jobs THEN Attempted(rows[d], result[d])
                                          ELSE rows[d]
      /\ UNCHANGED <<request, announced, tried, sent, redelivered, lost>>
      /\ batch'[w] = NoBatch /\ \A v \in Workers : v # w => batch'[v] = batch[v]
  BY DEF CommitBatch, TypeOK
<1>2. batch[w] \in Batch
  BY DEF TypeOK
<1>3. \A d \in jobs : d \in Deliveries /\ result[d] # "none" /\ result[d] \in Results
  BY <1>2 DEF CommitBatch, Batch
<1>4. \A d \in jobs : /\ rows[d] \in Row /\ rows[d] # Absent /\ rows[d].status \in Waiting
                      /\ d \in announced
  BY <1>3, AbsentIsNoRow DEF TypeOK, QueueInv, JobsWait, QueuedWithItsEvent, Present
<1>5. \A d \in Deliveries : batch'[w].result[d] = "none" /\ (d \notin jobs => result[d] = "none")
  BY <1>1 DEF NoBatch, QueueInv, JobsWait
<1>6. \A v \in Workers : \A d \in jobs : v # w => batch[v].result[d] = "none"
  BY <1>3 DEF QueueInv, JobsWait, OneSender
<1>7. \A d \in Deliveries : rows[d].count \in Nat
  BY LeftType DEF TypeOK
<1>8. \A d \in jobs : /\ rows'[d] \in Row /\ rows'[d].count = rows[d].count + 1
                      /\ rows'[d].count + Left(rows'[d]) =< rows[d].count + Left(rows[d])
  <2> SUFFICES ASSUME NEW d \in jobs
               PROVE  /\ rows'[d] \in Row /\ rows'[d].count = rows[d].count + 1
                      /\ rows'[d].count + Left(rows'[d]) =< rows[d].count + Left(rows[d])
    OBVIOUS
  <2>1. rows'[d] = Attempted(rows[d], result[d])
    BY <1>1, <1>3
  <2> HIDE DEF jobs, result
  <2> QED BY <1>3, <1>4, <2>1, AttemptedLeft
<1> HIDE DEF jobs
<1>9. \A q \in Requests : RequestOK(request'[q], announced', rows')
  <2>1. ASSUME NEW d \in Deliveries
        PROVE  /\ rows'[d] # Absent => rows[d] # Absent
               /\ rows'[d].count >= rows[d].count
               /\ rows[d].count \in Nat /\ rows'[d].count \in Nat
    <3>1. CASE d \in jobs
      BY <1>4, <1>7, <1>8, <3>1
    <3>2. CASE d \notin jobs
      BY <1>1, <1>7, <3>2
    <3> QED BY <3>1, <3>2
  <2> QED BY <1>1, <2>1, WorkerRequests
<1>10. ASSUME NEW d \in Deliveries, d \in jobs
       PROVE  DeliveryOK(rows'[d], d \in announced', Answered(d)', tried'[d],
                         redelivered'[d], lost'[d])
  <2>1. Answered(d)' = FALSE
    BY <1>1, <1>5, <1>6, <1>10 DEF Answered
  <2>2. DeliveryOK(rows[d], d \in announced, Answered(d), tried[d], redelivered[d], lost[d])
    BY DEF BudgetInv, DeliveriesOK
  <2>3. /\ rows[d].count + Left(rows[d]) =< Granted(redelivered[d])
        /\ tried[d] =< rows[d].count + (IF Answered(d) THEN 1 ELSE 0) + lost[d]
    BY <1>4, <1>10, <2>2 DEF DeliveryOK
  <2>4. /\ lost[d] \in Nat /\ tried[d] \in Nat /\ redelivered[d] \in Nat
        /\ Granted(redelivered[d]) \in Nat
    BY GrantedGrows DEF TypeOK
  <2>5. /\ rows'[d] \in Row /\ rows'[d].count = rows[d].count + 1 /\ rows[d].count \in Nat
        /\ rows'[d].count + Left(rows'[d]) =< rows[d].count + Left(rows[d])
        /\ Left(rows[d]) \in Nat /\ Left(rows'[d]) \in Nat
    BY <1>4, <1>8, <1>10, LeftType
  <2>6. tried[d] =< rows[d].count + 1 + lost[d]
    BY <2>3, <2>4, <2>5
  <2>7. tried[d] =< rows'[d].count + (IF FALSE THEN 1 ELSE 0) + lost[d]
    BY <2>4, <2>5, <2>6
  <2>8. rows'[d].count + Left(rows'[d]) =< Granted(redelivered[d])
    BY <2>3, <2>4, <2>5
  <2>9. DeliveryOK(rows'[d], d \in announced, FALSE, tried[d], redelivered[d], lost[d])
    BY <1>4, <1>10, <2>4, <2>5, <2>7, <2>8, MadeBounded
  <2> QED BY <1>1, <2>1, <2>9
<1>11. ASSUME NEW d \in Deliveries, d \notin jobs
       PROVE  DeliveryOK(rows'[d], d \in announced', Answered(d)', tried'[d],
                         redelivered'[d], lost'[d])
  <2>1. Answered(d)' = Answered(d)
    BY <1>1, <1>5, <1>11 DEF Answered
  <2> QED BY <1>1, <1>11, <2>1 DEF BudgetInv, DeliveriesOK
<1> QED BY <1>1, <1>9, <1>10, <1>11 DEF BudgetInv, DeliveriesOK

(* A crash forgets the answers of its batch: one attempt for each of them. *)
LEMMA BudgetCrash ==
  ASSUME TypeOK, QueueInv, BudgetInv, NEW w \in Workers, Crash(w)
  PROVE  BudgetInv'
<1>1. /\ UNCHANGED <<rows, request, announced, tried, sent, redelivered>>
      /\ batch'[w] = NoBatch /\ \A v \in Workers : v # w => batch'[v] = batch[v]
  BY DEF Crash, TypeOK
<1>2. \A d \in Deliveries : rows[d].count \in Nat
  BY LeftType DEF TypeOK
<1>3. \A q \in Requests : RequestOK(request'[q], announced', rows')
  BY <1>1, <1>2, WorkerRequests
<1>4. ASSUME NEW d \in Deliveries
      PROVE  DeliveryOK(rows'[d], d \in announced', Answered(d)', tried'[d],
                        redelivered'[d], lost'[d])
  <2>1. DeliveryOK(rows[d], d \in announced, Answered(d), tried[d], redelivered[d], lost[d])
    BY DEF BudgetInv, DeliveriesOK
  <2>2. /\ lost[d] \in Nat /\ tried[d] \in Nat /\ redelivered[d] \in Nat
        /\ Granted(redelivered[d]) \in Nat
    BY GrantedGrows DEF TypeOK
  <2>3. CASE batch[w].result[d] # "none"
    <3> DEFINE before == IF Answered(d) THEN 1 ELSE 0
               after == IF Answered(d)' THEN 1 ELSE 0
    <3>1. lost'[d] = lost[d] + 1
      BY <2>3 DEF Crash
    <3>2. /\ rows[d] # Absent => /\ rows[d].count + Left(rows[d]) =< Granted(redelivered[d])
                                 /\ tried[d] =< rows[d].count + before + lost[d]
          /\ d \notin announced => tried[d] = 0
          /\ tried[d] =< Granted(redelivered[d]) + lost[d]
      BY <2>1 DEF DeliveryOK
    <3>3. before \in {0, 1} /\ after \in {0, 1} /\ rows[d].count \in Nat
      BY <1>2
    <3> HIDE DEF before, after
    <3>4. /\ rows[d] # Absent => /\ rows[d].count + Left(rows[d]) =< Granted(redelivered[d])
                                 /\ tried[d] =< rows[d].count + after + (lost[d] + 1)
          /\ d \notin announced => tried[d] = 0
          /\ tried[d] =< Granted(redelivered[d]) + (lost[d] + 1)
      BY <2>2, <3>2, <3>3
    <3> QED BY <1>1, <3>1, <3>4 DEF DeliveryOK, after
  <2>4. CASE batch[w].result[d] = "none"
    <3>1. lost'[d] = lost[d]
      BY <2>2, <2>4 DEF Crash
    <3>2. Answered(d)' = Answered(d)
      BY <1>1, <2>4 DEF Answered, NoBatch
    <3> QED BY <1>1, <2>1, <3>1, <3>2
  <2> QED BY <2>3, <2>4
<1> QED BY <1>1, <1>3, <1>4 DEF BudgetInv, DeliveriesOK

LEMMA BudgetNext == TypeOK /\ QueueInv /\ BudgetInv /\ [Next]_vars => BudgetInv'
<1> SUFFICES ASSUME TypeOK, QueueInv, BudgetInv, [Next]_vars PROVE BudgetInv'
  OBVIOUS
<1>1. ASSUME UNCHANGED vars PROVE BudgetInv'
  BY <1>1 DEF vars, BudgetInv, DeliveriesOK, Answered
<1>2. ASSUME NEW w \in Workers, Work(w) \/ Poll(w) \/ Crash(w) PROVE BudgetInv'
  BY <1>1, <1>2, BudgetClaim, BudgetDeliver, BudgetCommit, BudgetCrash DEF Work, Poll
<1>3. ASSUME NEW r \in Requests,
             \/ \E e \in Events : ReadTargets(r, e)
             \/ Dispatch(r) \/ FailRequest(r) \/ Requeue(r)
             \/ \E d \in Deliveries : ReadDelivery(r, d)
      PROVE  BudgetInv'
  BY <1>3, BudgetRead, BudgetDispatch, BudgetRequeue
<1> QED BY <1>1, <1>2, <1>3, BudgetHooks, BudgetComesDue DEF Next

(* However requests, crashes and redeliveries fall, MaxAttempts attempts are *)
(* made for a delivery and for each redelivery of it, one more for each      *)
(* crash that forgot one of its attempts, and each attempt asks an address   *)
(* of the host at most once.                                                 *)
THEOREM RequestsBoundedHolds == Spec => []RequestsBounded
<1>1. TypeOK /\ BudgetInv => RequestsBounded
  <2> SUFFICES ASSUME TypeOK, BudgetInv, NEW d \in Deliveries
               PROVE  sent[d] =< MaxAddresses * (Granted(redelivered[d]) + lost[d])
    BY DEF RequestsBounded, Granted
  <2> DEFINE bound == Granted(redelivered[d]) + lost[d]
  <2>1. tried[d] =< bound /\ sent[d] =< MaxAddresses * tried[d]
    BY DEF BudgetInv, DeliveriesOK, DeliveryOK
  <2>2. tried[d] \in Nat /\ sent[d] \in Nat /\ bound \in Nat /\ MaxAddresses \in Nat
    BY AddressesAssumption, GrantedGrows DEF TypeOK
  <2> HIDE DEF bound
  <2>3. bound - tried[d] \in Nat /\ MaxAddresses * (bound - tried[d]) \in Nat
    BY <2>1, <2>2
  <2>4. MaxAddresses * bound = MaxAddresses * tried[d] + MaxAddresses * (bound - tried[d])
    BY <2>2, <2>3
  <2>5. MaxAddresses * tried[d] \in Nat
    BY <2>2
  <2>6. sent[d] =< MaxAddresses * bound
    BY <2>1, <2>2, <2>3, <2>4, <2>5
  <2> QED BY <2>6 DEF bound
<1> QED BY <1>1, TypeCorrect, QueueCorrect, BudgetInit, BudgetNext, PTL DEF Spec

=============================================================================
