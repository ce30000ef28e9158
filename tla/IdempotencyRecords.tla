-------------------------- MODULE IdempotencyRecords --------------------------
(***************************************************************************)
(* Idempotent creates: the API requests that carry one Idempotency-Key, and *)
(* the record of that key in "api_idempotency_records".                     *)
(*                                                                         *)
(* A request claims the key in one transaction, runs its handler in another *)
(* and stores the response in a third.  A lease (locked_until) stands for   *)
(* the running request; when it is over another request takes the record   *)
(* over.  No row is locked between reading the record and changing it.      *)
(***************************************************************************)
EXTENDS Integers

CONSTANTS
  Requests,   \* requests with this key: the first one, duplicates, retries
  Bodies,     \* request bodies (request_hash)
  None,       \* no request
  Lease,      \* settings.api_idempotency_pending_seconds
  Retention,  \* settings.api_idempotency_retention_seconds
  MaxTime,    \* bound on the clock
  MaxFaults   \* bound on crashes and database failures

ASSUME NoneAssumption == None \notin Requests
ASSUME SettingsAssumption == Lease \in Nat \ {0} /\ Retention \in Nat /\ Lease =< Retention
ASSUME BoundsAssumption == MaxTime \in Nat /\ MaxFaults \in Nat

VARIABLES
  record,    \* the row of this key
  request,   \* each request: how far it is and what it has read
  clock,     \* utcnow()
  effects,   \* history: requests whose handler has committed
  faults,
  disturbed  \* history: a fault, or a request that outlived its lease

vars == <<record, request, clock, effects, faults, disturbed>>

-----------------------------------------------------------------------------
(* A record is known by the request that inserted it; its response is that  *)
(* of the request that stored it.                                          *)
Record == [id: Requests, body: Bodies, state: {"pending", "completed"},
           response: Requests \cup {None}, locked: Nat, expires: Nat]
NoRecord == [id |-> None]

Outcomes == {"none", "created", "rejected", "failed"}
Phases == {"idle", "claim", "insert", "takeover", "execute", "executed", "store",
           "done", "dead"}
Request == [phase: Phases, body: Bodies, now: Nat, id: Requests \cup {None},
            outcome: Outcomes, replayed: Requests \cup {None}]

(* Phases in which the request has claimed the key and not yet let it go.   *)
Executing(r) == request[r].phase \in {"execute", "executed", "store"}
Active(r) == request[r].phase \notin {"idle", "done", "dead"}

(* An expired row that a claim has deleted and not committed is locked.     *)
Deleting(r, i) == request[r].phase = "insert" /\ request[r].id = i
Locked(i) == i # None /\ \E r \in Requests : Deleting(r, i)

Ended(q) == [q EXCEPT !.phase = "done"]

Set(r, q) == request' = [request EXCEPT ![r] = q]

-----------------------------------------------------------------------------
Init ==
  /\ record = NoRecord
  /\ request \in {[r \in Requests |->
       [phase |-> "idle", body |-> body[r], now |-> 0, id |-> None,
        outcome |-> "none", replayed |-> None]] : body \in [Requests -> Bodies]}
  /\ clock = 0
  /\ effects = {}
  /\ faults = 0
  /\ disturbed = FALSE

(* execute_idempotent_request, claim_idempotency_key: the time is read first. *)
Arrive(r) ==
  /\ request[r].phase = "idle"
  /\ Set(r, [request[r] EXCEPT !.phase = "claim", !.now = clock])
  /\ UNCHANGED <<record, clock, effects, faults, disturbed>>

Expired(now) == record.expires =< now

(* Mutant: the lease of a pending record is not looked at. *)
LookupLeaseless(r) ==
  LET q == request[r]
  IN  /\ q.phase = "claim"
      /\ \/ /\ record = NoRecord
            /\ Set(r, [q EXCEPT !.phase = "insert", !.id = None])
         \/ /\ record # NoRecord /\ Expired(q.now) /\ ~Locked(record.id)
            /\ Set(r, [q EXCEPT !.phase = "insert", !.id = record.id])
         \/ /\ record # NoRecord /\ ~Expired(q.now)
            /\ \/ /\ record.body # q.body
                  /\ Set(r, Ended(q))
               \/ /\ record.body = q.body /\ record.state = "completed"
                  /\ Set(r, Ended([q EXCEPT !.replayed = record.response]))
               \/ /\ record.body = q.body /\ record.state = "pending"
                  /\ Set(r, [q EXCEPT !.phase = "takeover", !.id = record.id])
      /\ UNCHANGED <<record, clock, effects, faults, disturbed>>

(* Mutant: the request hash is not compared. *)
LookupHashless(r) ==
  LET q == request[r]
  IN  /\ q.phase = "claim"
      /\ \/ /\ record = NoRecord
            /\ Set(r, [q EXCEPT !.phase = "insert", !.id = None])
         \/ /\ record # NoRecord /\ Expired(q.now) /\ ~Locked(record.id)
            /\ Set(r, [q EXCEPT !.phase = "insert", !.id = record.id])
         \/ /\ record # NoRecord /\ ~Expired(q.now)
            /\ \/ /\ record.state = "completed"
                  /\ Set(r, Ended([q EXCEPT !.replayed = record.response]))
               \/ /\ record.state = "pending" /\ record.locked > q.now
                  /\ Set(r, Ended(q))
               \/ /\ record.state = "pending" /\ record.locked =< q.now
                  /\ Set(r, [q EXCEPT !.phase = "takeover", !.id = record.id])
      /\ UNCHANGED <<record, clock, effects, faults, disturbed>>

(* Expired rows are deleted, then the key is looked up: 409 for another     *)
(* body, the stored response, 409 while the lease runs; or the request is   *)
(* going to take the record over, or to insert one.                        *)
Lookup(r) ==
  LET q == request[r]
  IN  /\ q.phase = "claim"
      /\ \/ /\ record = NoRecord
            /\ Set(r, [q EXCEPT !.phase = "insert", !.id = None])
         \/ /\ record # NoRecord /\ Expired(q.now) /\ ~Locked(record.id)
            /\ Set(r, [q EXCEPT !.phase = "insert", !.id = record.id])
         \/ /\ record # NoRecord /\ ~Expired(q.now)
            /\ \/ /\ record.body # q.body
                  /\ Set(r, Ended(q))
               \/ /\ record.body = q.body /\ record.state = "completed"
                  /\ Set(r, Ended([q EXCEPT !.replayed = record.response]))
               \/ /\ record.body = q.body /\ record.state = "pending" /\ record.locked > q.now
                  /\ Set(r, Ended(q))
               \/ /\ record.body = q.body /\ record.state = "pending" /\ record.locked =< q.now
                  /\ Set(r, [q EXCEPT !.phase = "takeover", !.id = record.id])
      /\ UNCHANGED <<record, clock, effects, faults, disturbed>>

(* Mutant: the sign of the lease. *)
NewRecordPast(r) ==
  [id |-> r, body |-> request[r].body, state |-> "pending", response |-> None,
   locked |-> request[r].now - Lease, expires |-> request[r].now + Retention]

NewRecord(r) ==
  [id |-> r, body |-> request[r].body, state |-> "pending", response |-> None,
   locked |-> request[r].now + Lease, expires |-> request[r].now + Retention]

(* Mutant: an upsert in the place of the unique constraint. *)
InsertOver(r) ==
  /\ request[r].phase = "insert"
  /\ record' = NewRecord(r)
  /\ Set(r, [request[r] EXCEPT !.phase = "execute", !.id = r])
  /\ UNCHANGED <<clock, effects, faults, disturbed>>

(* The INSERT commits, with the deletion of the expired row.                *)
Insert(r) ==
  /\ request[r].phase = "insert"
  /\ record.id \in {None, request[r].id}
  /\ record' = NewRecord(r)
  /\ Set(r, [request[r] EXCEPT !.phase = "execute", !.id = r])
  /\ UNCHANGED <<clock, effects, faults, disturbed>>

(* IntegrityError: somebody else has inserted the key; claim again.         *)
Conflict(r) ==
  /\ request[r].phase = "insert"
  /\ record.id \notin {None, request[r].id} /\ ~Locked(record.id)
  /\ Set(r, [request[r] EXCEPT !.phase = "claim", !.now = clock, !.id = None])
  /\ UNCHANGED <<record, clock, effects, faults, disturbed>>

(* The UPDATE of an abandoned record, whatever it is by then; 503 when it   *)
(* is gone.                                                                *)
Takeover(r) ==
  LET q == request[r]
  IN  /\ q.phase = "takeover" /\ ~Locked(q.id)
      /\ \/ /\ record.id = q.id
            /\ record' = [record EXCEPT !.locked = q.now + Lease, !.expires = q.now + Retention]
            /\ Set(r, [q EXCEPT !.phase = "execute"])
         \/ /\ record.id # q.id
            /\ UNCHANGED record
            /\ Set(r, Ended(q))
      /\ UNCHANGED <<clock, effects, faults, disturbed>>

(* call_next: the handler creates (2xx), refuses (4xx) or fails (5xx, 429   *)
(* or an exception).  One that fails after it has committed is a fault.     *)
Execute(r) ==
  /\ request[r].phase = "execute"
  /\ \E outcome \in Outcomes \ {"none"} :
       /\ Set(r, [request[r] EXCEPT !.phase = "executed", !.outcome = outcome])
       /\ \/ /\ effects' = effects \cup (IF outcome = "created" THEN {r} ELSE {})
             /\ UNCHANGED <<faults, disturbed>>
          \/ /\ outcome = "failed" /\ faults < MaxFaults
             /\ effects' = effects \cup {r}
             /\ faults' = faults + 1 /\ disturbed' = TRUE
  /\ UNCHANGED <<record, clock>>

(* complete_, release_idempotency_record: the record is read ...            *)
Load(r) ==
  /\ request[r].phase = "executed"
  /\ Set(r, [request[r] EXCEPT !.phase = IF record.id = request[r].id THEN "store" ELSE "done"])
  /\ UNCHANGED <<record, clock, effects, faults, disturbed>>

(* Mutant: every response releases the key. *)
StoreNothing(r) ==
  /\ request[r].phase = "store" /\ ~Locked(request[r].id)
  /\ record' = IF record.id # request[r].id THEN record ELSE NoRecord
  /\ Set(r, Ended(request[r]))
  /\ UNCHANGED <<clock, effects, faults, disturbed>>

(* ... and completed with the response or, after a failure, deleted.        *)
Store(r) ==
  /\ request[r].phase = "store" /\ ~Locked(request[r].id)
  /\ record' = IF record.id # request[r].id THEN record
               ELSE IF request[r].outcome = "failed" THEN NoRecord
               ELSE [record EXCEPT !.state = "completed", !.response = r, !.locked = clock]
  /\ Set(r, Ended(request[r]))
  /\ UNCHANGED <<clock, effects, faults, disturbed>>

(* The database fails while the response is stored ("Idempotency-Storage:   *)
(* unavailable"): the client has it, the record stays pending.              *)
StoreFails(r) ==
  /\ request[r].phase \in {"executed", "store"} /\ faults < MaxFaults
  /\ Set(r, Ended(request[r]))
  /\ faults' = faults + 1 /\ disturbed' = TRUE
  /\ UNCHANGED <<record, clock, effects>>

(* The API process dies, or the database fails during a claim.              *)
Crash(r) ==
  /\ Active(r) /\ faults < MaxFaults
  /\ Set(r, [request[r] EXCEPT !.phase = "dead"])
  /\ faults' = faults + 1 /\ disturbed' = TRUE
  /\ UNCHANGED <<record, clock, effects>>

(* A request that is still there when its lease ends disturbs the others.   *)
Tick ==
  /\ clock < MaxTime
  /\ clock' = clock + 1
  /\ disturbed' = (disturbed \/ \E r \in Requests : Active(r) /\ request[r].now + Lease =< clock')
  /\ UNCHANGED <<record, request, effects, faults>>

-----------------------------------------------------------------------------
Step(r) ==
  Lookup(r) \/ Insert(r) \/ Conflict(r) \/ Takeover(r) \/ Execute(r) \/ Load(r) \/ Store(r)

Next ==
  \/ \E r \in Requests : Arrive(r) \/ Step(r) \/ StoreFails(r) \/ Crash(r)
  \/ Tick

Spec == Init /\ [][Next]_vars

-----------------------------------------------------------------------------
(* The record holds what its columns hold, a request what it has read.      *)
TypeOK ==
  /\ record \in Record \cup {NoRecord}
  /\ request \in [Requests -> Request]
  /\ clock \in Nat /\ faults \in Nat
  /\ effects \subseteq Requests
  /\ disturbed \in BOOLEAN

(* "Reusing it with the same request returns the stored response"           *)
(* (docs/API_OPERATIONS.md): whatever is replayed was answered to a request *)
(* with the same body, and was not a failure.                              *)
ReplayMatches ==
  \A r \in Requests : LET q == request[r].replayed IN
    q # None => /\ request[q].body = request[r].body
                /\ request[q].outcome \in {"created", "rejected"}

(* As long as nothing fails and requests end before their lease does, a key *)
(* is never executed by two requests at once ...                            *)
OneExecutor ==
  ~disturbed => \A r, q \in Requests : Executing(r) /\ Executing(q) => r = q

(* ... nor is anything created a second time before the retention window of *)
(* the first is over.                                                       *)
OncePerWindow ==
  [][effects' # effects /\ ~disturbed' =>
       \A r \in effects : request[r].now + Retention =< clock]_vars

(* Likewise "a repeated key with an identical request must replay the       *)
(* original status and body during the retention window"                   *)
(* (docs/API_VERSIONING.md): a stored response stays until it expires.      *)
StableReplay ==
  [][record # NoRecord /\ record.state = "completed" /\ ~disturbed' =>
       record' = record \/ Expired(clock)]_vars

(* "In-progress duplicate requests return 409 with Retry-After: 1"          *)
(* (docs/API_OPERATIONS.md): two requests never execute the key while both  *)
(* have a running lease.  Two that find the same abandoned record do.       *)
OneLeaseHolder ==
  \A r, q \in Requests :
    /\ Executing(r) /\ clock < request[r].now + Lease
    /\ Executing(q) /\ clock < request[q].now + Lease
    => r = q

=============================================================================
