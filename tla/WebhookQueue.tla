---------------------------- MODULE WebhookQueue ----------------------------
(***************************************************************************)
(* The durable webhook queue: requests that enqueue deliveries with their   *)
(* event, worker processes that claim due deliveries in batches, manual    *)
(* redelivery, and deletion of a webhook with everything under it.          *)
(*                                                                         *)
(* A worker runs a whole batch in one transaction: it locks the rows, sends *)
(* the requests one by one and commits once.  If it dies before that, the  *)
(* requests were sent and the database knows nothing of it.  A redelivery  *)
(* reads the delivery without a lock and updates it later.                  *)
(***************************************************************************)
EXTENDS Integers, FiniteSets, FiniteSetsExt

CONSTANTS
  Workers,        \* webhook worker processes
  Requests,       \* concurrent API requests
  Webhooks,       \* webhooks a project may ever have
  Events,         \* events that may ever happen
  MaxAttempts,    \* settings.webhook_max_attempts
  MaxAddresses,   \* addresses the host of a webhook resolves to, at most
  BatchSize,      \* settings.webhook_worker_batch_size
  MaxCrashes,     \* bound on worker crashes
  MaxRedeliveries \* bound on manual redeliveries

ASSUME SettingsAssumption == MaxAttempts \in Nat \ {0} /\ BatchSize \in Nat \ {0}
ASSUME AddressesAssumption == MaxAddresses \in Nat \ {0}
ASSUME BoundsAssumption == MaxCrashes \in Nat /\ MaxRedeliveries \in Nat
ASSUME SetsAssumption == IsFiniteSet(Webhooks) /\ IsFiniteSet(Events)

VARIABLES
  hooks,        \* table "webhooks": whether each one is there
  rows,         \* table "webhook_deliveries"
  attempts,     \* table "webhook_delivery_attempts", by delivery
  batch,        \* the open transaction of each worker
  request,      \* what each API request has read
  announced,    \* history: deliveries whose event has committed
  tried,        \* history: attempts made, recorded or not
  owed,         \* history: queued deliveries not attempted since
  crashes, redeliveries,
  sent,         \* history: requests that may have gone out, by delivery
  redelivered,  \* history: redeliveries served, by delivery
  lost          \* history: attempts forgotten in a crash, by delivery

(* History: what was sent, and what allowed it. *)
spent == <<sent, redelivered, lost>>

vars == <<hooks, rows, attempts, batch, request, announced, tried, owed,
          crashes, redeliveries, sent, redelivered, lost>>

-----------------------------------------------------------------------------
(* One delivery for each webhook and event: the unique idempotency key. *)
Deliveries == Webhooks \X Events

Waiting == {"queued", "retrying"}
Final == {"success", "failed"}

Row == [status: Waiting \cup Final, count: Nat, max: Nat, due: BOOLEAN]
Absent == [status |-> "absent", count |-> 0, max |-> 0, due |-> FALSE]

Attempt == [number: Nat, ok: BOOLEAN]

(* deliver_webhook_request: 2xx; an error that will not go away (most 4xx, a *)
(* redirect, a blocked destination); or one worth a retry.                  *)
Results == {"success", "permanent", "retryable"}

Batch == [jobs: SUBSET Deliveries, result: [Deliveries -> Results \cup {"none"}]]
NoBatch == [jobs |-> {}, result |-> [d \in Deliveries |-> "none"]]

Request == [op: {"idle"}]
             \cup [op: {"event"}, event: Events, targets: SUBSET Webhooks]
             \cup [op: {"redeliver"}, delivery: Deliveries, count: Nat]
NoRequest == [op |-> "idle"]

Present(d) == rows[d] # Absent

(* The row lock a worker holds until its batch ends. *)
Locked(d) == \E w \in Workers : d \in batch[w].jobs

(* Mutant: a delivery waiting for its retry is not picked up. *)
ReadyQueuedOnly == {d \in Deliveries : rows[d].status = "queued" /\ rows[d].due /\ ~Locked(d)}

Ready == {d \in Deliveries : rows[d].status \in Waiting /\ rows[d].due /\ ~Locked(d)}

-----------------------------------------------------------------------------
Init ==
  /\ hooks = [h \in Webhooks |-> "none"]
  /\ rows = [d \in Deliveries |-> Absent]
  /\ attempts = [d \in Deliveries |-> {}]
  /\ batch = [w \in Workers |-> NoBatch]
  /\ request = [r \in Requests |-> NoRequest]
  /\ announced = {}
  /\ tried = [d \in Deliveries |-> 0]
  /\ owed = {}
  /\ crashes = 0 /\ redeliveries = 0
  /\ sent = [d \in Deliveries |-> 0]
  /\ redelivered = [d \in Deliveries |-> 0]
  /\ lost = [d \in Deliveries |-> 0]

(* create_webhook: a new identifier every time. *)
CreateWebhook(h) ==
  /\ hooks[h] = "none"
  /\ hooks' = [hooks EXCEPT ![h] = "active"]
  /\ UNCHANGED <<rows, attempts, batch, request, announced, tried, owed,
                 crashes, redeliveries, spent>>

(* Mutant: deletes the webhook without the rows that refer to it. *)
DeleteWebhookOnly(h) ==
  /\ hooks[h] = "active"
  /\ hooks' = [hooks EXCEPT ![h] = "deleted"]
  /\ UNCHANGED <<rows, attempts, batch, request, announced, tried, owed,
                 crashes, redeliveries, spent>>

(* delete_webhook: the deliveries and attempts go with it (ON DELETE        *)
(* CASCADE), so it waits for the workers that hold one of them.             *)
DeleteWebhook(h) ==
  /\ hooks[h] = "active"
  /\ \A e \in Events : ~Locked(<<h, e>>)
  /\ hooks' = [hooks EXCEPT ![h] = "deleted"]
  /\ rows' = [d \in Deliveries |-> IF d[1] = h THEN Absent ELSE rows[d]]
  /\ attempts' = [d \in Deliveries |-> IF d[1] = h THEN {} ELSE attempts[d]]
  /\ owed' = {d \in owed : d[1] # h}
  /\ UNCHANGED <<batch, request, announced, tried, crashes, redeliveries, spent>>

-----------------------------------------------------------------------------
(* An API request. *)

(* get_webhooks_for_event: the subscribed webhooks as they are now.  The test *)
(* endpoint names one webhook and makes up an event of its own.            *)
ReadTargets(r, e) ==
  /\ request[r] = NoRequest
  /\ \A d \in announced : d[2] # e
  /\ \A q \in Requests : request[q].op = "event" => request[q].event # e
  /\ \E targets \in SUBSET {h \in Webhooks : hooks[h] = "active"} :
       /\ targets # {}
       /\ request' = [request EXCEPT ![r] = [op |-> "event", event |-> e, targets |-> targets]]
  /\ UNCHANGED <<hooks, rows, attempts, batch, announced, tried, owed,
                 crashes, redeliveries, spent>>

(* enqueue_webhook_delivery *)
NewRow == [status |-> "queued", count |-> 0, max |-> MaxAttempts, due |-> TRUE]

(* Mutant: the deliveries are committed by a session of their own, and the  *)
(* event may still fail.                                                    *)
DispatchSeparately(r) ==
  /\ request[r].op = "event"
  /\ \A h \in request[r].targets : hooks[h] = "active"
  /\ LET new == request[r].targets \X {request[r].event}
     IN  /\ rows' = [d \in Deliveries |-> IF d \in new THEN NewRow ELSE rows[d]]
         /\ announced' \in {announced, announced \cup new}
         /\ owed' = owed \cup new
  /\ request' = [request EXCEPT ![r] = NoRequest]
  /\ UNCHANGED <<hooks, attempts, batch, tried, crashes, redeliveries, spent>>

(* dispatch_webhooks in the transaction of the event: deliveries and event  *)
(* commit together.                                                         *)
Dispatch(r) ==
  /\ request[r].op = "event"
  /\ \A h \in request[r].targets : hooks[h] = "active"
  /\ LET new == request[r].targets \X {request[r].event}
     IN  /\ rows' = [d \in Deliveries |-> IF d \in new THEN NewRow ELSE rows[d]]
         /\ announced' = announced \cup new
         /\ owed' = owed \cup new
  /\ request' = [request EXCEPT ![r] = NoRequest]
  /\ UNCHANGED <<hooks, attempts, batch, tried, crashes, redeliveries, spent>>

(* A webhook is gone since: the foreign key refuses the row, and the whole  *)
(* request fails with 409.  Or it fails for a reason of its own.            *)
FailRequest(r) ==
  /\ request[r].op # "idle"
  /\ request' = [request EXCEPT ![r] = NoRequest]
  /\ UNCHANGED <<hooks, rows, attempts, batch, announced, tried, owed,
                 crashes, redeliveries, spent>>

(* redeliver_webhook: a finished delivery of an active webhook is read ...  *)
ReadDelivery(r, d) ==
  /\ request[r] = NoRequest
  /\ hooks[d[1]] = "active" /\ rows[d].status \in Final
  /\ redeliveries < MaxRedeliveries
  /\ redeliveries' = redeliveries + 1
  /\ request' = [request EXCEPT ![r] =
       [op |-> "redeliver", delivery |-> d, count |-> rows[d].count]]
  /\ UNCHANGED <<hooks, rows, attempts, batch, announced, tried, owed, crashes, spent>>

(* Mutant: does not wait for the worker that holds the row. *)
RequeueUnlocked(r) ==
  /\ request[r].op = "redeliver"
  /\ LET d == request[r].delivery
     IN  /\ Present(d)
         /\ rows' = [rows EXCEPT ![d].status = "queued", ![d].due = TRUE,
                                 ![d].max = request[r].count + MaxAttempts]
         /\ owed' = owed \cup {d}
         /\ redelivered' = [redelivered EXCEPT ![d] = @ + 1]
  /\ request' = [request EXCEPT ![r] = NoRequest]
  /\ UNCHANGED <<hooks, attempts, batch, announced, tried, crashes, redeliveries,
                 sent, lost>>

(* Mutant: starts counting attempts again. *)
RequeueRecounting(r) ==
  /\ request[r].op = "redeliver"
  /\ LET d == request[r].delivery
     IN  /\ Present(d) /\ ~Locked(d)
         /\ rows' = [rows EXCEPT ![d] = NewRow]
         /\ owed' = owed \cup {d}
         /\ redelivered' = [redelivered EXCEPT ![d] = @ + 1]
  /\ request' = [request EXCEPT ![r] = NoRequest]
  /\ UNCHANGED <<hooks, attempts, batch, announced, tried, crashes, redeliveries,
                 sent, lost>>

(* ... and updated when nobody holds its row, whatever it is by then; the   *)
(* new limit comes from the count that was read.                            *)
Requeue(r) ==
  /\ request[r].op = "redeliver"
  /\ LET d == request[r].delivery
     IN  /\ Present(d) /\ ~Locked(d)
         /\ rows' = [rows EXCEPT ![d].status = "queued", ![d].due = TRUE,
                                 ![d].max = request[r].count + MaxAttempts]
         /\ owed' = owed \cup {d}
         /\ redelivered' = [redelivered EXCEPT ![d] = @ + 1]
  /\ request' = [request EXCEPT ![r] = NoRequest]
  /\ UNCHANGED <<hooks, attempts, batch, announced, tried, crashes, redeliveries,
                 sent, lost>>

-----------------------------------------------------------------------------
(* A worker. *)

(* Mutant: SELECT without FOR UPDATE SKIP LOCKED. *)
ClaimUnlocked(w) ==
  /\ batch[w].jobs = {}
  /\ LET due == {d \in Deliveries : rows[d].status \in Waiting /\ rows[d].due}
     IN  \E jobs \in SUBSET due :
           /\ Cardinality(jobs) = Min({BatchSize, Cardinality(due)}) /\ jobs # {}
           /\ batch' = [batch EXCEPT ![w] = [NoBatch EXCEPT !.jobs = jobs]]
  /\ UNCHANGED <<hooks, rows, attempts, request, announced, tried, owed,
                 crashes, redeliveries, spent>>

(* SELECT ... FOR UPDATE SKIP LOCKED LIMIT BatchSize. *)
Claim(w) ==
  /\ batch[w].jobs = {}
  /\ \E jobs \in SUBSET Ready :
       /\ Cardinality(jobs) = Min({BatchSize, Cardinality(Ready)}) /\ jobs # {}
       /\ batch' = [batch EXCEPT ![w] = [NoBatch EXCEPT !.jobs = jobs]]
  /\ UNCHANGED <<hooks, rows, attempts, request, announced, tried, owed,
                 crashes, redeliveries, spent>>

(* Nothing is due: the worker sleeps and asks again. *)
Poll(w) == batch[w].jobs = {} /\ Ready = {} /\ UNCHANGED vars

(* One attempt of the batch.  deliver_webhook_request resolves the host and  *)
(* goes through its addresses: one that cannot be reached, or whose answer  *)
(* does not come, is followed by a request to the next, and the first       *)
(* answer ends it.  An attempt refused before its first request counts as   *)
(* one that sent it.                                                        *)
Deliver(w, d) ==
  /\ d \in batch[w].jobs /\ batch[w].result[d] = "none"
  /\ \E result \in Results, n \in 1..MaxAddresses :
       /\ batch' = [batch EXCEPT ![w].result[d] = result]
       /\ sent' = [sent EXCEPT ![d] = @ + n]
  /\ tried' = [tried EXCEPT ![d] = @ + 1]
  /\ owed' = owed \ {d}
  /\ UNCHANGED <<hooks, rows, attempts, request, announced, crashes, redeliveries,
                 redelivered, lost>>

(* Mutant: "<=" for "<", one attempt too many. *)
AttemptedOnceMore(row, result) ==
  LET retry == result = "retryable" /\ row.count + 1 =< row.max
  IN  [status |-> IF result = "success" THEN "success"
                  ELSE IF retry THEN "retrying" ELSE "failed",
       count |-> row.count + 1, max |-> row.max, due |-> FALSE]

(* Mutant: stores what went wrong in the place of the status. *)
AttemptedVerbatim(row, result) ==
  LET retry == result = "retryable" /\ row.count + 1 < row.max
  IN  [status |-> IF retry THEN "retrying" ELSE result,
       count |-> row.count + 1, max |-> row.max, due |-> FALSE]

(* The row after an attempt: the next one is due after the back-off. *)
Attempted(row, result) ==
  LET retry == result = "retryable" /\ row.count + 1 < row.max
  IN  [status |-> IF result = "success" THEN "success"
                  ELSE IF retry THEN "retrying" ELSE "failed",
       count |-> row.count + 1, max |-> row.max, due |-> FALSE]

(* The flush writes rows and attempts of the whole batch, and commits. *)
CommitBatch(w) ==
  LET jobs   == batch[w].jobs
      result == batch[w].result
  IN  /\ jobs # {} /\ \A d \in jobs : result[d] # "none"
      /\ rows' = [d \in Deliveries |->
           IF d \in jobs THEN Attempted(rows[d], result[d]) ELSE rows[d]]
      /\ attempts' = [d \in Deliveries |->
           IF d \in jobs
           THEN attempts[d] \cup {[number |-> rows[d].count + 1,
                                   ok |-> result[d] = "success"]}
           ELSE attempts[d]]
      /\ batch' = [batch EXCEPT ![w] = NoBatch]
      /\ UNCHANGED <<hooks, request, announced, tried, owed, crashes, redeliveries, spent>>

(* Mutant: results are written one by one, before the batch commits. *)
CrashAfterWriting(w) ==
  /\ batch[w].jobs # {} /\ crashes < MaxCrashes
  /\ crashes' = crashes + 1
  /\ rows' = [d \in Deliveries |->
       IF batch[w].result[d] # "none" THEN Attempted(rows[d], batch[w].result[d])
       ELSE rows[d]]
  /\ batch' = [batch EXCEPT ![w] = NoBatch]
  /\ lost' = [d \in Deliveries |->
       lost[d] + IF batch[w].result[d] # "none" THEN 1 ELSE 0]
  /\ UNCHANGED <<hooks, attempts, request, announced, tried, owed, redeliveries,
                 sent, redelivered>>

(* A kill, a lost connection, or an exception nobody catches in one of the  *)
(* deliveries: the whole batch is rolled back.                              *)
Crash(w) ==
  /\ batch[w].jobs # {} /\ crashes < MaxCrashes
  /\ crashes' = crashes + 1
  /\ batch' = [batch EXCEPT ![w] = NoBatch]
  /\ lost' = [d \in Deliveries |->
       lost[d] + IF batch[w].result[d] # "none" THEN 1 ELSE 0]
  /\ UNCHANGED <<hooks, rows, attempts, request, announced, tried, owed, redeliveries,
                 sent, redelivered>>

(* next_attempt_at has come. *)
ComesDue(d) ==
  /\ rows[d].status = "retrying" /\ ~rows[d].due
  /\ rows' = [rows EXCEPT ![d].due = TRUE]
  /\ UNCHANGED <<hooks, attempts, batch, request, announced, tried, owed,
                 crashes, redeliveries, spent>>

-----------------------------------------------------------------------------
Work(w) == Claim(w) \/ (\E d \in Deliveries : Deliver(w, d)) \/ CommitBatch(w)

Next ==
  \/ \E h \in Webhooks : CreateWebhook(h) \/ DeleteWebhook(h)
  \/ \E r \in Requests :
       \/ \E e \in Events : ReadTargets(r, e)
       \/ Dispatch(r) \/ FailRequest(r) \/ Requeue(r)
       \/ \E d \in Deliveries : ReadDelivery(r, d)
  \/ \E w \in Workers : Work(w) \/ Poll(w) \/ Crash(w)
  \/ \E d \in Deliveries : ComesDue(d)

Spec == Init /\ [][Next]_vars

(* At least one worker runs (docs/WEBHOOKS.md) and crashes are rare; clients *)
(* owe us nothing.                                                          *)
FairSpec ==
  /\ Spec
  /\ \A w \in Workers : WF_vars(Work(w))
  /\ \A d \in Deliveries : WF_vars(ComesDue(d))

-----------------------------------------------------------------------------
(* The tables hold what their columns hold, a batch and a request what they *)
(* have read.                                                               *)
TypeOK ==
  /\ hooks \in [Webhooks -> {"none", "active", "deleted"}]
  /\ rows \in [Deliveries -> Row \cup {Absent}]
  /\ attempts \in [Deliveries -> SUBSET Attempt]
  /\ batch \in [Workers -> Batch]
  /\ request \in [Requests -> Request]
  /\ announced \subseteq Deliveries /\ owed \subseteq Deliveries
  /\ tried \in [Deliveries -> Nat]
  /\ crashes \in Nat /\ redeliveries \in Nat
  /\ sent \in [Deliveries -> Nat]
  /\ redelivered \in [Deliveries -> Nat] /\ lost \in [Deliveries -> Nat]

(* The attempts on record are numbered 1 to the delivery's attempt_count    *)
(* with no gap and no number used twice, so the unique constraint never     *)
(* fires and never fails a batch; and a final status is that of the last.   *)
HistoryMatches ==
  \A d \in Deliveries :
    /\ {a.number : a \in attempts[d]} = 1..rows[d].count
    /\ \A a, b \in attempts[d] : a.number = b.number => a = b
    /\ rows[d].status \in Final =>
         [number |-> rows[d].count, ok |-> rows[d].status = "success"] \in attempts[d]

(* Two workers never hold, and so never send, the same delivery at once.    *)
OneSender ==
  \A v, w \in Workers : v # w => batch[v].jobs \cap batch[w].jobs = {}

(* What was queued or queued again, and accepted by the API, stays waiting  *)
(* until an attempt is made for it: a worker's commit of an earlier attempt *)
(* never swallows it.                                                       *)
AcceptedIsServed == \A d \in owed : rows[d].status \in Waiting

(* A delivery is there exactly when its event committed and its webhook is  *)
(* still there: no event without its deliveries, no delivery of an event    *)
(* that failed, none left behind by a deleted webhook.                      *)
QueuedWithItsEvent ==
  \A d \in Deliveries : Present(d) <=> d \in announced /\ hooks[d[1]] = "active"

(* However requests, crashes and redeliveries fall, MaxAttempts attempts are *)
(* made for a delivery and for each redelivery of it, one more for each     *)
(* crash that forgot one of its attempts, and an attempt sends a request to *)
(* each address of the host at most: the sum bounds what a receiver gets.   *)
RequestsBounded ==
  \A d \in Deliveries :
    sent[d] =< MaxAddresses * (MaxAttempts * (1 + redelivered[d]) + lost[d])

(* A delivery as its owner sees it. *)
State(d) ==
  IF rows[d].status \in Waiting THEN "pending"
  ELSE IF rows[d].status \in Final THEN "finished"
  ELSE IF d \in announced THEN "removed" ELSE "absent"

Promise(d) == INSTANCE DeliveryPromise
  WITH state <- State(d), tried <- tried[d], recorded <- Cardinality(attempts[d])

(* Each delivery, seen on its own, keeps the promise of DeliveryPromise:    *)
(* \A d \in Deliveries : Promise(d)!Spec, with the box outside for TLC.     *)
KeepsPromise ==
  /\ \A d \in Deliveries : Promise(d)!Init
  /\ [][\A d \in Deliveries : [Promise(d)!Next]_(Promise(d)!vars)]_vars

(* A queued delivery comes to an end: an answer that is final, the last     *)
(* attempt it is allowed, or the deletion of its webhook.                   *)
EveryDeliveryEnds ==
  \A d \in Deliveries : rows[d].status \in Waiting ~> rows[d].status \notin Waiting

(* "The endpoint rejects a delivery that is already queued or retrying ...  *)
(* starts a fresh automatic-retry budget" (docs/WEBHOOKS.md): a redelivery  *)
(* leaves MaxAttempts attempts.  One that read the delivery before another  *)
(* redelivery was served leaves fewer.                                      *)
FreshBudget ==
  [][\A r \in Requests :
       Requeue(r) =>
         LET row == rows'[request[r].delivery] IN row.max = row.count + MaxAttempts]_vars

=============================================================================
