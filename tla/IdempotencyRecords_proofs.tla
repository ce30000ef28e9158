---------------------- MODULE IdempotencyRecords_proofs ----------------------
(***************************************************************************)
(* Proofs about IdempotencyRecords for any number of requests and any lease *)
(* and retention: as long as nothing fails and no request outlives its     *)
(* lease, a key has one executor, creates once per window and replays one   *)
(* response; and whatever fails, what is replayed was answered to a request *)
(* with the same body.                                                     *)
(***************************************************************************)
EXTENDS IdempotencyRecords, TLAPS

LEMMA Times ==
  ASSUME TypeOK, NEW r \in Requests
  PROVE  /\ request[r] \in Request /\ request[r].now \in Nat /\ clock \in Nat
         /\ request[r].now + Lease \in Nat /\ request[r].now + Retention \in Nat
  BY SettingsAssumption DEF TypeOK, Request

LEMMA NewRecordType ==
  ASSUME TypeOK, NEW r \in Requests
  PROVE  NewRecord(r) \in Record
  BY Times DEF NewRecord, Record, TypeOK, Request

LEMMA TypeInit == Init => TypeOK
<1> SUFFICES ASSUME Init PROVE TypeOK
  OBVIOUS
<1>1. PICK body \in [Requests -> Bodies] : request = [r \in Requests |->
       [phase |-> "idle", body |-> body[r], now |-> 0, id |-> None,
        outcome |-> "none", replayed |-> None]]
  BY DEF Init
<1>2. request \in [Requests -> Request]
  BY <1>1 DEF Request, Phases, Outcomes
<1>3. disturbed \in BOOLEAN
  BY DEF Init
<1> QED BY <1>2, <1>3 DEF Init, TypeOK

LEMMA TypeNext == TypeOK /\ [Next]_vars => TypeOK'
<1> SUFFICES ASSUME TypeOK, [Next]_vars PROVE TypeOK'
  OBVIOUS
<1>0. \A r \in Requests : request[r] \in Request
  BY DEF TypeOK
<1>1. ASSUME NEW r \in Requests, Arrive(r) PROVE TypeOK'
  <2>1. [request[r] EXCEPT !.phase = "claim", !.now = clock] \in Request
    BY <1>0 DEF Request, Phases, TypeOK
  <2> QED BY <1>1, <2>1 DEF Arrive, Set, TypeOK
<1>2. ASSUME NEW r \in Requests, Lookup(r) PROVE TypeOK'
  <2>1. record # NoRecord => record \in Record
    BY DEF TypeOK
  <2>2. \E q \in Request : request' = [request EXCEPT ![r] = q]
    BY <1>0, <1>2, <2>1 DEF Lookup, Set, Ended, Request, Record, Phases
  <2> QED BY <1>2, <2>2 DEF Lookup, TypeOK
<1>3. ASSUME NEW r \in Requests, Insert(r) PROVE TypeOK'
  <2>1. [request[r] EXCEPT !.phase = "execute", !.id = r] \in Request
    BY <1>0 DEF Request, Phases
  <2> QED BY <1>3, <2>1, NewRecordType DEF Insert, Set, TypeOK
<1>4. ASSUME NEW r \in Requests, Conflict(r) PROVE TypeOK'
  <2>1. [request[r] EXCEPT !.phase = "claim", !.now = clock, !.id = None] \in Request
    BY <1>0 DEF Request, Phases, TypeOK
  <2> QED BY <1>4, <2>1 DEF Conflict, Set, TypeOK
<1>5. ASSUME NEW r \in Requests, Takeover(r) PROVE TypeOK'
  <2>1. \E q \in Request : request' = [request EXCEPT ![r] = q]
    BY <1>0, <1>5 DEF Takeover, Set, Ended, Request, Phases
  <2>2. CASE record.id = request[r].id
    <3>1. record' = [record EXCEPT !.locked = request[r].now + Lease,
                                   !.expires = request[r].now + Retention]
      BY <1>5, <2>2 DEF Takeover
    <3>2. CASE record \in Record
      <4>1. record' \in Record
        BY <3>1, <3>2, Times DEF Record
      <4> QED BY <1>5, <2>1, <4>1 DEF Takeover, TypeOK
    <3>3. CASE record = NoRecord
      BY <1>5, <2>1, <3>1, <3>3 DEF Takeover, TypeOK, NoRecord
    <3> QED BY <3>2, <3>3 DEF TypeOK
  <2>3. CASE record.id # request[r].id
    BY <1>5, <2>1, <2>3 DEF Takeover, TypeOK
  <2> QED BY <2>2, <2>3
<1>6. ASSUME NEW r \in Requests, Execute(r) PROVE TypeOK'
  <2>1. PICK outcome \in Outcomes :
          request' = [request EXCEPT ![r] = [request[r] EXCEPT !.phase = "executed",
                                                               !.outcome = outcome]]
    BY <1>6 DEF Execute, Set
  <2>2. request' \in [Requests -> Request]
    BY <1>0, <2>1 DEF Request, Phases, TypeOK
  <2>3. effects' \subseteq Requests /\ faults' \in Nat
    BY <1>6 DEF Execute, TypeOK
  <2>4. disturbed' \in BOOLEAN
    BY <1>6 DEF Execute, TypeOK
  <2> QED BY <1>6, <2>2, <2>3, <2>4 DEF Execute, TypeOK
<1>7. ASSUME NEW r \in Requests, Load(r) PROVE TypeOK'
  <2>1. \E q \in Request : request' = [request EXCEPT ![r] = q]
    BY <1>0, <1>7 DEF Load, Set, Request, Phases
  <2> QED BY <1>7, <2>1 DEF Load, TypeOK
<1>8. ASSUME NEW r \in Requests, Store(r) PROVE TypeOK'
  <2>1. Ended(request[r]) \in Request
    BY <1>0 DEF Ended, Request, Phases
  <2>2. record' \in Record \cup {NoRecord}
    <3>1. CASE record = NoRecord
      BY <1>8, <3>1 DEF Store, NoRecord
    <3>2. CASE record \in Record
      BY <1>8, <3>2, Times DEF Store, Record
    <3> QED BY <3>1, <3>2 DEF TypeOK
  <2> QED BY <1>8, <2>1, <2>2 DEF Store, Set, TypeOK
<1>9. ASSUME NEW r \in Requests, StoreFails(r) \/ Crash(r) PROVE TypeOK'
  <2>1. \E q \in Request : request' = [request EXCEPT ![r] = q]
    BY <1>0, <1>9 DEF StoreFails, Crash, Set, Ended, Request, Phases
  <2>2. faults' \in Nat
    BY <1>9 DEF StoreFails, Crash, TypeOK
  <2>3. disturbed' \in BOOLEAN
    BY <1>9 DEF StoreFails, Crash
  <2> QED BY <1>9, <2>1, <2>2, <2>3 DEF StoreFails, Crash, TypeOK
<1>10. CASE Tick
  BY <1>10 DEF Tick, TypeOK
<1>11. CASE UNCHANGED vars
  BY <1>11 DEF vars, TypeOK
<1> QED BY <1>1, <1>2, <1>3, <1>4, <1>5, <1>6, <1>7, <1>8, <1>9, <1>10, <1>11 DEF Next, Step

(* The record and the requests keep their shape. *)
THEOREM TypeCorrect == Spec => []TypeOK
  BY TypeInit, TypeNext, PTL DEF Spec

-----------------------------------------------------------------------------
(* What holds while nothing has been disturbed.                             *)

(* Requests are within their lease, and nobody meets an abandoned record.   *)
InTime ==
  \A r \in Requests :
    /\ Active(r) => request[r].now =< clock /\ clock < request[r].now + Lease
    /\ request[r].phase # "takeover"

(* Who executes owns the record, and a pending record is being executed.    *)
Owned ==
  /\ \A r \in Requests : Executing(r) =>
       /\ record.id = r /\ request[r].id = r /\ record.state = "pending"
       /\ record.locked = request[r].now + Lease
       /\ record.expires = request[r].now + Retention
  /\ record # NoRecord /\ record.state = "pending" => Executing(record.id)

(* Who has deleted an expired record alone holds its row. *)
Inserts(r) == request[r].phase = "insert" /\ request[r].id # None
RowHeld ==
  /\ \A r \in Requests : Inserts(r) =>
       record.id = request[r].id /\ record.expires =< request[r].now
  /\ \A r, q \in Requests : Inserts(r) /\ Inserts(q) => r = q

(* What was created is on record until its window is over. *)
CreatedOnRecord ==
  \A r \in effects :
    /\ request[r].phase \in {"executed", "store", "done"} /\ request[r].outcome = "created"
    /\ \/ record.id = r /\ record.expires = request[r].now + Retention
       \/ request[r].now + Retention =< clock

Calm == InTime /\ Owned /\ RowHeld /\ CreatedOnRecord
CalmInv == ~disturbed => Calm

LEMMA CalmInit == Init => CalmInv
  BY DEF Init, CalmInv, Calm, InTime, Owned, RowHeld, CreatedOnRecord, Active, Executing,
         Inserts, NoRecord

LEMMA CalmArrive ==
  ASSUME TypeOK, Calm, NEW r \in Requests, Arrive(r) \/ Conflict(r)
  PROVE  Calm'
<1>1. /\ request'[r].phase = "claim" /\ request'[r].now = clock
      /\ \A q \in Requests : q # r => request'[q] = request[q]
      /\ request[r].phase \in {"idle", "insert"}
      /\ UNCHANGED <<record, clock, effects>>
  <2>1. request \in [Requests -> Request]
    BY DEF TypeOK
  <2> QED BY <2>1 DEF Arrive, Conflict, Set, Request
<1>2. InTime'
  BY <1>1, SettingsAssumption DEF InTime, Active, Calm, TypeOK
<1>3. \A q \in Requests : Executing(q)' => Executing(q) /\ request'[q] = request[q]
  BY <1>1 DEF Executing
<1>8. \A q \in Requests : Executing(q) => Executing(q)'
  BY <1>1 DEF Executing
<1>7. \A q \in Requests : Inserts(q)' => Inserts(q) /\ request'[q] = request[q]
  BY <1>1 DEF Inserts
<1>4. Owned'
  <2>1. record # NoRecord => record.id \in Requests
    BY DEF Record, TypeOK
  <2>2. ASSUME NEW q \in Requests, Executing(q)'
        PROVE  /\ record.id = q /\ request'[q].id = q /\ record.state = "pending"
               /\ record.locked = request'[q].now + Lease
               /\ record.expires = request'[q].now + Retention
    <3>1. Executing(q) /\ request'[q] = request[q]
      BY <1>3, <2>2 DEF Executing
    <3> QED BY <3>1 DEF Owned, Calm
  <2>3. record # NoRecord /\ record.state = "pending" => Executing(record.id)'
    BY <1>1, <1>8, <2>1 DEF Owned, Calm, Executing
  <2> QED BY <1>1, <2>2, <2>3 DEF Owned, Executing
<1>5. RowHeld'
  <2>1. ASSUME NEW q \in Requests, Inserts(q)'
        PROVE  record.id = request'[q].id /\ record.expires =< request'[q].now
    <3>1. Inserts(q) /\ request'[q] = request[q]
      BY <1>7, <2>1 DEF Inserts
    <3> QED BY <3>1 DEF RowHeld, Calm
  <2>2. ASSUME NEW p \in Requests, NEW q \in Requests, Inserts(p)', Inserts(q)'
        PROVE  p = q
    <3>1. Inserts(p) /\ Inserts(q)
      BY <1>7, <2>2 DEF Inserts
    <3> QED BY <3>1 DEF RowHeld, Calm
  <2> QED BY <1>1, <2>1, <2>2 DEF RowHeld, Inserts
<1>6. CreatedOnRecord'
  BY <1>1 DEF CreatedOnRecord, Calm, TypeOK
<1> QED BY <1>2, <1>4, <1>5, <1>6 DEF Calm

LEMMA CalmLookup ==
  ASSUME TypeOK, Calm, NEW r \in Requests, Lookup(r)
  PROVE  Calm'
<1>0. record \in Record => record.id \in Requests /\ record.id # None
  BY NoneAssumption DEF Record
<1>1. /\ request[r].phase = "claim" /\ request'[r].now = request[r].now
      /\ request'[r].phase \in {"insert", "done", "takeover"}
      /\ \A q \in Requests : q # r => request'[q] = request[q]
      /\ UNCHANGED <<record, clock, effects>>
      /\ request'[r].phase = "takeover" =>
           record # NoRecord /\ record.state = "pending" /\ record.locked =< request[r].now
      /\ request'[r].phase = "insert" /\ request'[r].id # None =>
           /\ record.id = request'[r].id /\ record.expires =< request[r].now
           /\ ~Locked(record.id) /\ record # NoRecord
  <2>1. request \in [Requests -> Request]
    BY DEF TypeOK
  <2> DEFINE q == request[r]
             Moved(p) == request' = [request EXCEPT ![r] = p]
  <2>2. q.phase = "claim" /\ UNCHANGED <<record, clock, effects>>
    BY DEF Lookup
  <2>3. \/ /\ record = NoRecord
           /\ Moved([q EXCEPT !.phase = "insert", !.id = None])
        \/ /\ record # NoRecord /\ record.expires =< q.now /\ ~Locked(record.id)
           /\ Moved([q EXCEPT !.phase = "insert", !.id = record.id])
        \/ Moved([q EXCEPT !.phase = "done"])
        \/ Moved([q EXCEPT !.replayed = record.response, !.phase = "done"])
        \/ /\ record # NoRecord /\ record.state = "pending" /\ record.locked =< q.now
           /\ Moved([q EXCEPT !.phase = "takeover", !.id = record.id])
    BY DEF Lookup, Set, Ended, Expired
  <2>4. \E p : Moved(p)
    BY <2>3
  <2>5. \A e \in Requests : e # r => request'[e] = request[e]
    BY <2>1, <2>4
  <2> HIDE DEF Moved
  <2>6. \A p : Moved(p) => request'[r] = p
    BY <2>1 DEF Moved
  <2>7. request[r] \in Request
    BY <2>1
  <2> QED BY <2>2, <2>3, <2>5, <2>6, <2>7 DEF Request
<1>2. request'[r].phase = "takeover" =>
        /\ record # NoRecord /\ record.state = "pending" /\ record.locked =< request[r].now
  BY <1>1
<1>3. Inserts(r)' => /\ record.id = request'[r].id /\ record.expires =< request[r].now
                     /\ ~Locked(record.id) /\ record # NoRecord
  BY <1>1 DEF Inserts
<1>4. request'[r].phase # "takeover"
  <2> SUFFICES ASSUME request'[r].phase = "takeover" PROVE FALSE
    OBVIOUS
  <2>1. record \in Record /\ Executing(record.id)
    BY <1>2 DEF Calm, Owned, TypeOK
  <2>2. record.locked = request[record.id].now + Lease /\ clock < request[record.id].now + Lease
    BY <1>0, <2>1 DEF Calm, Owned, InTime, Executing, Active
  <2>3. request[r].now =< clock
    BY <1>1 DEF Calm, InTime, Active
  <2>4. request[record.id].now + Lease \in Nat /\ request[r].now \in Nat /\ clock \in Nat
    BY <1>0, <2>1, Times
  <2> QED BY <1>2, <2>2, <2>3, <2>4
<1>5. InTime'
  BY <1>1, <1>4 DEF InTime, Active, Calm
<1>6. \A q \in Requests : Executing(q)' => Executing(q) /\ request'[q] = request[q]
  BY <1>1, <1>4 DEF Executing
<1>11. \A q \in Requests : Executing(q) => Executing(q)'
  BY <1>1, <1>4 DEF Executing
<1>10. \A q \in Requests : Inserts(q)' => (Inserts(q) /\ request'[q] = request[q]) \/ q = r
  BY <1>1 DEF Inserts
<1>7. Owned'
  <2>1. record # NoRecord => record.id \in Requests
    BY <1>0 DEF TypeOK
  <2>2. ASSUME NEW q \in Requests, Executing(q)'
        PROVE  /\ record.id = q /\ request'[q].id = q /\ record.state = "pending"
               /\ record.locked = request'[q].now + Lease
               /\ record.expires = request'[q].now + Retention
    <3>1. Executing(q) /\ request'[q] = request[q]
      BY <1>6, <2>2 DEF Executing
    <3> QED BY <3>1 DEF Owned, Calm
  <2>3. record # NoRecord /\ record.state = "pending" => Executing(record.id)'
    BY <1>1, <1>11, <2>1 DEF Owned, Calm, Executing
  <2> QED BY <1>1, <2>2, <2>3 DEF Owned, Executing
<1>8. RowHeld'
  <2>1. ASSUME NEW q \in Requests, Inserts(q), Inserts(r)' PROVE FALSE
    <3>1. record.id = request[q].id /\ record.id # None
      BY <2>1 DEF Calm, RowHeld, Inserts
    <3>2. Deleting(q, record.id)
      BY <2>1, <3>1 DEF Deleting, Inserts
    <3> QED BY <1>3, <2>1, <3>1, <3>2 DEF Locked
  <2>2. \A q \in Requests : Inserts(q)' =>
          record.id = request'[q].id /\ record.expires =< request'[q].now
    <3> SUFFICES ASSUME NEW q \in Requests, Inserts(q)'
                 PROVE  record.id = request'[q].id /\ record.expires =< request'[q].now
      OBVIOUS
    <3>1. CASE q = r
      BY <1>1, <1>3, <3>1
    <3>2. CASE q # r
      <4>1. Inserts(q) /\ request'[q] = request[q]
        BY <1>10, <3>2 DEF Inserts
      <4> QED BY <4>1 DEF Calm, RowHeld
    <3> QED BY <3>1, <3>2
  <2>3. ASSUME NEW p \in Requests, NEW q \in Requests, Inserts(p)', Inserts(q)'
        PROVE  p = q
    <3>1. (Inserts(p) \/ p = r) /\ (Inserts(q) \/ q = r)
      BY <1>10, <2>3 DEF Inserts
    <3>2. CASE p = r \/ q = r
      BY <2>1, <2>3, <3>1, <3>2
    <3>3. CASE Inserts(p) /\ Inserts(q)
      BY <3>3 DEF Calm, RowHeld
    <3> QED BY <3>1, <3>2, <3>3
  <2> QED BY <1>1, <2>2, <2>3 DEF RowHeld, Inserts
<1>9. CreatedOnRecord'
  BY <1>1 DEF CreatedOnRecord, Calm, TypeOK
<1> QED BY <1>5, <1>7, <1>8, <1>9 DEF Calm

LEMMA CalmInsert ==
  ASSUME TypeOK, Calm, NEW r \in Requests, Insert(r)
  PROVE  Calm'
<1>1. /\ request[r].phase = "insert" /\ record.id \in {None, request[r].id}
      /\ record' = NewRecord(r) /\ UNCHANGED <<clock, effects>>
      /\ request' = [request EXCEPT ![r] = [request[r] EXCEPT !.phase = "execute", !.id = r]]
  BY DEF Insert, Set
<1>2. /\ request'[r].phase = "execute" /\ request'[r].id = r
      /\ request'[r].now = request[r].now /\ request'[r].outcome = request[r].outcome
      /\ \A q \in Requests : q # r => request'[q] = request[q]
  <2>1. request \in [Requests -> Request]
    BY DEF TypeOK
  <2> QED BY <1>1, <2>1 DEF Request
<1>3. /\ record'.id = r /\ record'.state = "pending"
      /\ record'.locked = request[r].now + Lease
      /\ record'.expires = request[r].now + Retention
  BY <1>1 DEF NewRecord
<1>4. record.id # None => Inserts(r)
  BY <1>1 DEF Inserts
<1>5. record.id # None => record.expires =< clock
  <2>1. record.id # None => record.expires =< request[r].now
    BY <1>4 DEF Calm, RowHeld
  <2>2. request[r].now =< clock
    BY <1>1 DEF Calm, InTime, Active
  <2>3. record.id # None => record.expires \in Nat
    BY DEF TypeOK, Record, NoRecord
  <2> QED BY <2>1, <2>2, <2>3, Times
<1>6. ASSUME NEW q \in Requests, Executing(q) PROVE FALSE
  <2>1. record.id = q /\ record.expires = request[q].now + Retention
    BY <1>6 DEF Calm, Owned
  <2>2. clock < request[q].now + Lease
    BY <1>6 DEF Calm, InTime, Executing, Active
  <2>3. record.expires =< clock
    BY <1>5, <2>1, NoneAssumption
  <2> QED BY <2>1, <2>2, <2>3, Times, SettingsAssumption
<1>7. ASSUME NEW q \in Requests, q # r, Inserts(q) PROVE FALSE
  <2>1. record.id = request[q].id /\ record.id # None
    BY <1>7 DEF Calm, RowHeld, Inserts
  <2> QED BY <1>4, <1>7, <2>1 DEF Calm, RowHeld
<1>8. InTime'
  BY <1>1, <1>2 DEF Calm, InTime, Active
<1>9. Owned'
  <2>1. \A q \in Requests : Executing(q)' => q = r
    <3>1. \A q \in Requests : q # r => ~(Executing(q)')
      BY <1>2, <1>6 DEF Executing
    <3> QED BY <3>1
  <2>2. Executing(r)'
    BY <1>2 DEF Executing
  <2>3. Executing(record.id)'
    BY <1>3, <2>2 DEF Executing
  <2>4. ASSUME NEW q \in Requests, Executing(q)'
        PROVE  /\ record'.id = q /\ request'[q].id = q /\ record'.state = "pending"
               /\ record'.locked = request'[q].now + Lease
               /\ record'.expires = request'[q].now + Retention
    <3>1. q = r
      BY <2>1, <2>4
    <3> QED BY <1>2, <1>3, <3>1
  <2> QED BY <2>3, <2>4 DEF Owned
<1>10. RowHeld'
  <2>1. ~(Inserts(r)')
    BY <1>2 DEF Inserts
  <2>2. \A q \in Requests : q # r => ~(Inserts(q)')
    BY <1>2, <1>7 DEF Inserts
  <2> QED BY <2>1, <2>2 DEF RowHeld
<1>11. CreatedOnRecord'
  <2> SUFFICES ASSUME NEW q \in effects
               PROVE /\ request'[q].phase \in {"executed", "store", "done"}
                     /\ request'[q].outcome = "created"
                     /\ request'[q].now + Retention =< clock
    BY <1>1 DEF CreatedOnRecord
  <2>1. q \in Requests /\ q # None /\ q # r
    BY <1>1, NoneAssumption DEF TypeOK, Calm, CreatedOnRecord
  <2>2. \/ record.id = q /\ record.expires = request[q].now + Retention
        \/ request[q].now + Retention =< clock
    BY DEF Calm, CreatedOnRecord
  <2>3. request[q].now + Retention =< clock
    BY <1>5, <2>1, <2>2
  <2> QED BY <1>2, <2>1, <2>3 DEF Calm, CreatedOnRecord
<1> QED BY <1>8, <1>9, <1>10, <1>11 DEF Calm

(* A request that executes moves on and leaves the record alone. *)
LEMMA CalmMove ==
  ASSUME TypeOK, Calm, NEW r \in Requests,
         Executing(r), UNCHANGED <<record, clock>>,
         \A q \in Requests : q # r => request'[q] = request[q],
         request'[r].now = request[r].now, request'[r].id = request[r].id,
         request'[r].phase \in {"executed", "store"}
  PROVE  InTime' /\ Owned' /\ RowHeld'
<1>1. InTime'
  BY DEF Calm, InTime, Active, Executing
<1>2. \A q \in Requests : Executing(q)' => Executing(q)
  BY DEF Executing
<1>3. \A q \in Requests : Executing(q) => Executing(q)'
  BY DEF Executing
<1>4. \A q \in Requests : Inserts(q)' => Inserts(q) /\ request'[q] = request[q]
  BY DEF Inserts
<1>5. \A q \in Requests : request'[q].now = request[q].now /\ request'[q].id = request[q].id
  OBVIOUS
<1>6. Owned'
  <2>1. record # NoRecord => record.id \in Requests
    BY DEF Record, TypeOK
  <2>2. ASSUME NEW q \in Requests, Executing(q)'
        PROVE  /\ record.id = q /\ request'[q].id = q /\ record.state = "pending"
               /\ record.locked = request'[q].now + Lease
               /\ record.expires = request'[q].now + Retention
    <3>1. Executing(q)
      BY <1>2, <2>2 DEF Executing
    <3> QED BY <1>5, <3>1 DEF Owned, Calm
  <2>3. record # NoRecord /\ record.state = "pending" => Executing(record.id)'
    BY <1>3, <2>1 DEF Owned, Calm, Executing
  <2> QED BY <2>2, <2>3 DEF Owned, Executing
<1>7. RowHeld'
  <2>1. ASSUME NEW q \in Requests, Inserts(q)'
        PROVE  record.id = request'[q].id /\ record.expires =< request'[q].now
    <3>1. Inserts(q) /\ request'[q] = request[q]
      BY <1>4, <2>1 DEF Inserts
    <3> QED BY <3>1 DEF RowHeld, Calm
  <2>2. ASSUME NEW p \in Requests, NEW q \in Requests, Inserts(p)', Inserts(q)'
        PROVE  p = q
    <3>1. Inserts(p) /\ Inserts(q)
      BY <1>4, <2>2 DEF Inserts
    <3> QED BY <3>1 DEF RowHeld, Calm
  <2> QED BY <2>1, <2>2 DEF RowHeld, Inserts
<1> QED BY <1>1, <1>6, <1>7

LEMMA CalmExecute ==
  ASSUME TypeOK, Calm, NEW r \in Requests, Execute(r), disturbed' # TRUE
  PROVE  Calm'
<1>1. PICK outcome \in Outcomes \ {"none"} :
        /\ Set(r, [request[r] EXCEPT !.phase = "executed", !.outcome = outcome])
        /\ effects' = effects \cup (IF outcome = "created" THEN {r} ELSE {})
  BY DEF Execute
<1>2. /\ request'[r].phase = "executed" /\ request'[r].outcome = outcome
      /\ request'[r].now = request[r].now /\ request'[r].id = request[r].id
      /\ \A q \in Requests : q # r => request'[q] = request[q]
  <2>1. request \in [Requests -> Request]
    BY DEF TypeOK
  <2> QED BY <1>1, <2>1 DEF Set, Request
<1>3. request[r].phase = "execute" /\ UNCHANGED <<record, clock>>
  BY DEF Execute
<1>4. InTime' /\ Owned' /\ RowHeld'
  BY <1>2, <1>3, CalmMove DEF Executing
<1>5. CreatedOnRecord'
  <2> SUFFICES ASSUME NEW q \in effects'
               PROVE /\ request'[q].phase \in {"executed", "store", "done"}
                     /\ request'[q].outcome = "created"
                     /\ \/ record.id = q /\ record.expires = request'[q].now + Retention
                        \/ request'[q].now + Retention =< clock
    BY <1>3 DEF CreatedOnRecord
  <2>1. CASE q \in effects
    <3>1. q # r /\ q \in Requests
      BY <1>3, <2>1 DEF Calm, CreatedOnRecord, TypeOK
    <3> QED BY <1>2, <2>1, <3>1 DEF Calm, CreatedOnRecord
  <2>2. CASE q \notin effects
    <3>1. q = r /\ outcome = "created"
      BY <1>1, <2>2
    <3>2. record.id = r /\ record.expires = request[r].now + Retention
      BY <1>3 DEF Calm, Owned, Executing
    <3> QED BY <1>2, <3>1, <3>2
  <2> QED BY <2>1, <2>2
<1> QED BY <1>4, <1>5 DEF Calm

LEMMA CalmLoad ==
  ASSUME TypeOK, Calm, NEW r \in Requests, Load(r)
  PROVE  Calm'
<1>1. request[r].phase = "executed" /\ UNCHANGED <<record, clock, effects>>
  BY DEF Load
<1>2. record.id = request[r].id
  BY <1>1 DEF Calm, Owned, Executing
<1>3. /\ request'[r].phase = "store" /\ request'[r].outcome = request[r].outcome
      /\ request'[r].now = request[r].now /\ request'[r].id = request[r].id
      /\ \A q \in Requests : q # r => request'[q] = request[q]
  <2>1. request \in [Requests -> Request]
    BY DEF TypeOK
  <2> QED BY <1>2, <2>1 DEF Load, Set, Request
<1>4. InTime' /\ Owned' /\ RowHeld'
  BY <1>1, <1>3, CalmMove DEF Executing
<1>5. CreatedOnRecord'
  BY <1>1, <1>3 DEF CreatedOnRecord, Calm, TypeOK
<1> QED BY <1>4, <1>5 DEF Calm

LEMMA CalmStore ==
  ASSUME TypeOK, Calm, NEW r \in Requests, Store(r)
  PROVE  Calm'
<1>0. request[r].phase = "store" /\ ~Locked(request[r].id) /\ UNCHANGED <<clock, effects>>
  BY DEF Store
<1>1. record.id = r /\ request[r].id = r /\ record.expires = request[r].now + Retention
  BY <1>0 DEF Calm, Owned, Executing
<1>2. record \in Record
  BY <1>1, NoneAssumption DEF TypeOK, NoRecord
<1>3. \/ record' = NoRecord /\ request[r].outcome = "failed"
      \/ /\ request[r].outcome # "failed"
         /\ record' = [record EXCEPT !.state = "completed", !.response = r, !.locked = clock]
  BY <1>1 DEF Store
<1>4. /\ request'[r].phase = "done" /\ request'[r].outcome = request[r].outcome
      /\ request'[r].now = request[r].now
      /\ \A q \in Requests : q # r => request'[q] = request[q]
  <2>1. request \in [Requests -> Request]
    BY DEF TypeOK
  <2> QED BY <2>1 DEF Store, Set, Ended, Request
<1>5. \/ record' = NoRecord
      \/ record'.id = r /\ record'.state = "completed" /\ record'.expires = record.expires
  BY <1>1, <1>2, <1>3 DEF Record
<1>6. InTime'
  BY <1>0, <1>4 DEF Calm, InTime, Active
<1>7. Owned'
  <2>1. \A q \in Requests : q # r => ~Executing(q)
    BY <1>1 DEF Calm, Owned
  <2>2. \A q \in Requests : ~(Executing(q)')
    BY <1>4, <2>1 DEF Executing
  <2> QED BY <1>5, <2>2 DEF Owned, Executing
<1>8. RowHeld'
  <2>1. ASSUME NEW q \in Requests, Inserts(q) PROVE FALSE
    <3>1. record.id = request[q].id
      BY <2>1 DEF Calm, RowHeld
    <3>2. Deleting(q, r)
      BY <1>1, <2>1, <3>1 DEF Deleting, Inserts
    <3> QED BY <1>0, <1>1, <3>2, NoneAssumption DEF Locked
  <2>2. \A q \in Requests : ~(Inserts(q)')
    BY <1>4, <2>1 DEF Inserts
  <2> QED BY <2>2 DEF RowHeld
<1>9. CreatedOnRecord'
  <2> SUFFICES ASSUME NEW q \in effects
               PROVE /\ request'[q].phase \in {"executed", "store", "done"}
                     /\ request'[q].outcome = "created"
                     /\ \/ record'.id = q /\ record'.expires = request'[q].now + Retention
                        \/ request'[q].now + Retention =< clock
    BY <1>0 DEF CreatedOnRecord
  <2>1. q \in Requests
    BY DEF TypeOK
  <2>2. CASE q = r
    <3>1. request[r].outcome = "created"
      BY <2>2 DEF Calm, CreatedOnRecord
    <3>2. record'.id = r /\ record'.expires = record.expires
      BY <1>1, <1>2, <1>3, <3>1 DEF Record
    <3> QED BY <1>1, <1>4, <2>2, <3>1, <3>2
  <2>3. CASE q # r
    BY <1>1, <1>4, <2>1, <2>3 DEF Calm, CreatedOnRecord
  <2> QED BY <2>2, <2>3
<1> QED BY <1>6, <1>7, <1>8, <1>9 DEF Calm

LEMMA CalmTick ==
  ASSUME TypeOK, Calm, Tick,
         \A r \in Requests : Active(r) => ~(request[r].now + Lease =< clock')
  PROVE  Calm'
<1>1. clock' = clock + 1 /\ UNCHANGED <<record, request, effects>>
  BY DEF Tick
<1>2. \A r \in Requests : request[r].now \in Nat /\ request[r].now + Lease \in Nat
                        /\ request[r].now + Retention \in Nat
  BY Times
<1>3. clock \in Nat
  BY DEF TypeOK
<1>4. InTime'
  BY <1>1, <1>2, <1>3 DEF Calm, InTime, Active
<1>5. Owned' /\ RowHeld'
  BY <1>1 DEF Calm, Owned, RowHeld, Executing, Inserts
<1>6. CreatedOnRecord'
  BY <1>1, <1>2, <1>3 DEF Calm, CreatedOnRecord, TypeOK
<1> QED BY <1>4, <1>5, <1>6 DEF Calm

LEMMA CalmNext == TypeOK /\ CalmInv /\ [Next]_vars => CalmInv'
<1> SUFFICES ASSUME TypeOK, CalmInv, [Next]_vars, ~disturbed' PROVE Calm'
  BY DEF CalmInv
<1>1. ASSUME NEW r \in Requests, Arrive(r) \/ Step(r) PROVE Calm'
  <2>1. ~disturbed
    <3>1. CASE Execute(r)
      BY <3>1 DEF Execute
    <3>2. CASE ~Execute(r)
      BY <1>1, <3>2 DEF Arrive, Step, Lookup, Insert, Conflict, Takeover, Load, Store
    <3> QED BY <3>1, <3>2
  <2>2. Calm
    BY <2>1 DEF CalmInv
  <2>3. ~Takeover(r)
    BY <2>2 DEF Calm, InTime, Takeover
  <2>4. disturbed' # TRUE
    OBVIOUS
  <2>5. CASE Arrive(r) \/ Conflict(r)
    BY <2>2, <2>5, CalmArrive
  <2>6. CASE Lookup(r)
    BY <2>2, <2>6, CalmLookup
  <2>7. CASE Insert(r)
    BY <2>2, <2>7, CalmInsert
  <2>8. CASE Execute(r)
    BY <2>2, <2>4, <2>8, CalmExecute
  <2>9. CASE Load(r)
    BY <2>2, <2>9, CalmLoad
  <2>10. CASE Store(r)
    BY <2>2, <2>10, CalmStore
  <2> QED BY <1>1, <2>3, <2>5, <2>6, <2>7, <2>8, <2>9, <2>10 DEF Step
<1>2. ASSUME NEW r \in Requests, StoreFails(r) \/ Crash(r) PROVE Calm'
  BY <1>2 DEF StoreFails, Crash
<1>3. CASE Tick
  <2>1. ~disturbed
    BY <1>3 DEF Tick
  <2>2. \A r \in Requests : Active(r) => ~(request[r].now + Lease =< clock')
    BY <1>3 DEF Tick
  <2> QED BY <1>3, <2>1, <2>2, CalmTick DEF CalmInv
<1>4. CASE UNCHANGED vars
  <2>1. ~disturbed
    BY <1>4 DEF vars
  <2>2. Calm
    BY <2>1 DEF CalmInv
  <2>3. UNCHANGED <<record, request, clock, effects>>
    BY <1>4 DEF vars
  <2> QED BY <2>2, <2>3 DEF Calm, InTime, Owned, RowHeld, CreatedOnRecord, Active, Executing,
                            Inserts
<1> QED BY <1>1, <1>2, <1>3, <1>4 DEF Next

LEMMA CalmCorrect == Spec => []CalmInv
  BY CalmInit, CalmNext, TypeCorrect, PTL DEF Spec

-----------------------------------------------------------------------------
(* Nothing disturbed, a key is executed by one request at a time.           *)
THEOREM OneExecutorHolds == Spec => []OneExecutor
<1>1. CalmInv => OneExecutor
  <2> SUFFICES ASSUME CalmInv, ~disturbed, NEW r \in Requests, NEW q \in Requests,
                      Executing(r), Executing(q)
               PROVE  r = q
    BY DEF OneExecutor
  <2>1. Owned
    BY DEF CalmInv, Calm
  <2> QED BY <2>1 DEF Owned
<1> QED BY <1>1, CalmCorrect, PTL

(* A handler commits again only when the window of every earlier one of the *)
(* key is over.                                                            *)
OncePerWindowStep ==
  effects' # effects /\ ~disturbed' =>
    \A r \in effects : request[r].now + Retention =< clock

LEMMA OnceStep ==
  ASSUME TypeOK, CalmInv, [Next]_vars
  PROVE  OncePerWindowStep
<1> SUFFICES ASSUME effects' # effects, ~disturbed', NEW e \in effects
             PROVE  request[e].now + Retention =< clock
  BY DEF OncePerWindowStep
<1>1. PICK r \in Requests : Execute(r)
  BY DEF Next, Step, Arrive, Lookup, Insert, Conflict, Takeover, Load, Store, StoreFails, Crash,
         Tick, vars
<1>2. ~disturbed
  BY <1>1 DEF Execute
<1>3. Calm
  BY <1>2 DEF CalmInv
<1>4. record.id = r /\ request[r].phase = "execute"
  BY <1>1, <1>3 DEF Execute, Executing, Calm, Owned
<1>5. e # r
  BY <1>3, <1>4 DEF Calm, CreatedOnRecord
<1> QED BY <1>3, <1>4, <1>5 DEF Calm, CreatedOnRecord

THEOREM OncePerWindowHolds == Spec => OncePerWindow
<1>1. TypeOK /\ CalmInv /\ [Next]_vars => [OncePerWindowStep]_vars
  BY OnceStep
<1> QED BY <1>1, TypeCorrect, CalmCorrect, PTL DEF Spec, OncePerWindow, OncePerWindowStep

(* A stored response is neither replaced nor dropped before it expires.     *)
StableReplayStep ==
  record # NoRecord /\ record.state = "completed" /\ ~disturbed' =>
    record' = record \/ Expired(clock)

LEMMA StableStep ==
  ASSUME TypeOK, CalmInv, [Next]_vars
  PROVE  StableReplayStep
<1> SUFFICES ASSUME record # NoRecord, record.state = "completed", ~disturbed',
                    record' # record
             PROVE  Expired(clock)
  BY DEF StableReplayStep
<1>1. PICK r \in Requests : Insert(r) \/ Takeover(r) \/ Store(r)
  BY DEF Next, Step, Arrive, Lookup, Conflict, Execute, Load, StoreFails, Crash, Tick, vars
<1>2. ~disturbed
  BY <1>1 DEF Insert, Takeover, Store
<1>3. Calm
  BY <1>2 DEF CalmInv
<1>4. ~Takeover(r)
  BY <1>3 DEF Takeover, Calm, InTime
<1>5. ~Store(r)
  BY <1>3 DEF Store, Executing, Calm, Owned
<1>6. Insert(r)
  BY <1>1, <1>4, <1>5
<1>7. record \in Record /\ record.id # None
  BY NoneAssumption DEF TypeOK, Record
<1>8. Inserts(r) /\ request[r].phase = "insert"
  BY <1>6, <1>7 DEF Insert, Inserts
<1>9. record.expires =< request[r].now /\ request[r].now =< clock
  BY <1>3, <1>8 DEF Calm, RowHeld, InTime, Active
<1>10. record.expires \in Nat /\ request[r].now \in Nat /\ clock \in Nat
  BY <1>7, Times DEF Record
<1> QED BY <1>9, <1>10 DEF Expired

THEOREM StableReplayHolds == Spec => StableReplay
<1>1. TypeOK /\ CalmInv /\ [Next]_vars => [StableReplayStep]_vars
  BY StableStep
<1> QED BY <1>1, TypeCorrect, CalmCorrect, PTL DEF Spec, StableReplay, StableReplayStep

-----------------------------------------------------------------------------
(* What is replayed, disturbed or not.  A request keeps its body, and one    *)
(* that is done keeps its outcome; so what the record promises about the     *)
(* request whose response it holds stays true of that request.               *)

(* x has answered a request with this body, and not with a failure. *)
AnsweredFor(x, body, all) ==
  /\ x \in Requests /\ all[x].phase = "done"
  /\ all[x].outcome \in {"created", "rejected"} /\ all[x].body = body

RecordOK(rec, all) ==
  rec # NoRecord =>
    /\ all[rec.id].body = rec.body
    /\ rec.state = "completed" => AnsweredFor(rec.response, rec.body, all)

(* Who works on a record has the body of the request that inserted it. *)
WorksOn(q, all) ==
  /\ q.phase \in {"takeover", "execute", "executed", "store"} =>
       q.id \in Requests /\ all[q.id].body = q.body
  /\ q.phase \in {"executed", "store"} => q.outcome # "none"
  /\ q.replayed # None => AnsweredFor(q.replayed, q.body, all)

ReplayInv ==
  /\ RecordOK(record, request)
  /\ \A r \in Requests : WorksOn(request[r], request)

(* The step of a request that is not done. *)
Moves(r, q) ==
  /\ request' = [request EXCEPT ![r] = q]
  /\ q.body = request[r].body /\ request[r].phase # "done"

LEMMA MoveKeeps ==
  ASSUME TypeOK, NEW r \in Requests, NEW q, Moves(r, q)
  PROVE  /\ request'[r] = q /\ \A x \in Requests : x # r => request'[x] = request[x]
         /\ \A x \in Requests : request'[x].body = request[x].body
         /\ \A x, body : AnsweredFor(x, body, request) => AnsweredFor(x, body, request')
         /\ RecordOK(record, request) => RecordOK(record, request')
         /\ \A p : WorksOn(p, request) => WorksOn(p, request')
<1>1. /\ request'[r] = q /\ \A x \in Requests : x # r => request'[x] = request[x]
      /\ q.body = request[r].body /\ request[r].phase # "done"
  BY DEF Moves, TypeOK
<1>2. \A x \in Requests : request'[x].body = request[x].body
  BY <1>1
<1>3. \A x, body : AnsweredFor(x, body, request) => AnsweredFor(x, body, request')
  BY <1>1 DEF AnsweredFor
<1>4. record # NoRecord => record.id \in Requests
  BY DEF TypeOK, Record
<1> QED BY <1>1, <1>2, <1>3, <1>4 DEF RecordOK, WorksOn

LEMMA MoveReplays ==
  ASSUME TypeOK, ReplayInv, NEW r \in Requests, NEW q, Moves(r, q),
         WorksOn(q, request), RecordOK(record', request')
  PROVE  ReplayInv'
<1>1. \A x \in Requests : WorksOn(request'[x], request')
  BY MoveKeeps DEF ReplayInv
<1> QED BY <1>1 DEF ReplayInv

LEMMA ReplayInit == Init => ReplayInv
<1> SUFFICES ASSUME Init PROVE ReplayInv
  OBVIOUS
<1>1. PICK body \in [Requests -> Bodies] : request = [r \in Requests |->
       [phase |-> "idle", body |-> body[r], now |-> 0, id |-> None,
        outcome |-> "none", replayed |-> None]]
  BY DEF Init
<1>2. record = NoRecord
  BY DEF Init
<1> QED BY <1>1, <1>2 DEF ReplayInv, RecordOK, WorksOn

LEMMA ReplayLookup ==
  ASSUME TypeOK, ReplayInv, NEW r \in Requests, Lookup(r)
  PROVE  ReplayInv'
<1> DEFINE q == request[r]
<1>1. q \in Request /\ q.phase = "claim" /\ record' = record /\ WorksOn(q, request)
      /\ RecordOK(record, request) /\ (record # NoRecord => record \in Record)
  BY DEF Lookup, TypeOK, ReplayInv
<1>2. ASSUME NEW p, request' = [request EXCEPT ![r] = p], p.body = q.body, WorksOn(p, request)
      PROVE  ReplayInv'
  <2>1. Moves(r, p)
    BY <1>1, <1>2 DEF Moves
  <2>2. RecordOK(record', request')
    BY <1>1, <2>1, MoveKeeps
  <2> QED BY <1>2, <2>1, <2>2, MoveReplays
<1>3. ASSUME NEW i, request' = [request EXCEPT ![r] = [q EXCEPT !.phase = "insert", !.id = i]]
      PROVE  ReplayInv'
  <2> DEFINE p == [q EXCEPT !.phase = "insert", !.id = i]
  <2>1. p.body = q.body /\ p.phase = "insert" /\ p.replayed = q.replayed
    BY <1>1 DEF Request
  <2> HIDE DEF q
  <2>2. WorksOn(p, request)
    <3> HIDE DEF p
    <3> QED BY <1>1, <2>1 DEF WorksOn
  <2> QED BY <1>2, <1>3, <2>1, <2>2 DEF q
<1>4. CASE request' = [request EXCEPT ![r] = Ended(q)]
  <2>1. Ended(q).body = q.body /\ Ended(q).phase = "done" /\ Ended(q).replayed = q.replayed
    BY <1>1 DEF Request, Ended
  <2>2. WorksOn(Ended(q), request)
    BY <1>1, <2>1 DEF WorksOn
  <2> QED BY <1>2, <1>4, <2>1, <2>2
<1>5. CASE /\ record # NoRecord /\ record.body = q.body /\ record.state = "completed"
           /\ request' = [request EXCEPT ![r] = Ended([q EXCEPT !.replayed = record.response])]
  <2> DEFINE p == Ended([q EXCEPT !.replayed = record.response])
  <2>1. p.body = q.body /\ p.phase = "done" /\ p.replayed = record.response
    BY <1>1 DEF Request, Ended
  <2>2. AnsweredFor(record.response, q.body, request)
    BY <1>1, <1>5 DEF RecordOK
  <2>3. WorksOn(p, request)
    <3> HIDE DEF p, q
    <3> QED BY <2>1, <2>2 DEF WorksOn
  <2> QED BY <1>2, <1>5, <2>1, <2>3
<1>6. CASE /\ record # NoRecord /\ record.body = q.body
           /\ request' = [request EXCEPT ![r] = [q EXCEPT !.phase = "takeover", !.id = record.id]]
  <2> DEFINE p == [q EXCEPT !.phase = "takeover", !.id = record.id]
  <2>1. p.body = q.body /\ p.phase = "takeover" /\ p.replayed = q.replayed /\ p.id = record.id
    BY <1>1 DEF Request
  <2>2. record.id \in Requests /\ request[record.id].body = q.body
    BY <1>1, <1>6 DEF RecordOK, Record
  <2>3. WorksOn(p, request)
    <3> HIDE DEF p, q
    <3> QED BY <1>1, <2>1, <2>2 DEF WorksOn
  <2> QED BY <1>2, <1>6, <2>1, <2>3
<1> QED BY <1>3, <1>4, <1>5, <1>6 DEF Lookup, Set

(* The steps that leave the record alone and change nothing but how far the  *)
(* request is.                                                               *)
LEMMA ReplayPhase ==
  ASSUME TypeOK, ReplayInv, NEW r \in Requests, NEW p, request' = [request EXCEPT ![r] = p],
         record' = record, request[r].phase # "done",
         p.body = request[r].body, p.replayed = request[r].replayed,
         \/ p.phase \in {"claim", "done", "dead"}
         \/ /\ request[r].phase \in {"execute", "executed"} /\ p.phase \in {"executed", "store"}
            /\ p.id = request[r].id /\ p.outcome # "none"
  PROVE  ReplayInv'
<1>1. WorksOn(request[r], request) /\ RecordOK(record, request)
  BY DEF ReplayInv
<1>2. WorksOn(p, request)
  BY <1>1 DEF WorksOn
<1>3. Moves(r, p)
  BY DEF Moves
<1> QED BY <1>1, <1>2, <1>3, MoveKeeps, MoveReplays

LEMMA ReplayMoves ==
  ASSUME TypeOK, ReplayInv, NEW r \in Requests,
         Arrive(r) \/ Conflict(r) \/ Execute(r) \/ Load(r) \/ StoreFails(r) \/ Crash(r)
  PROVE  ReplayInv'
<1> DEFINE q == request[r]
<1>1. q \in Request /\ WorksOn(q, request)
  BY DEF TypeOK, ReplayInv
<1>2. CASE Arrive(r) \/ Conflict(r)
  <2>1. PICK i : request' = [request EXCEPT ![r] = [q EXCEPT !.phase = "claim", !.now = clock,
                                                             !.id = i]]
    <3>1. [q EXCEPT !.phase = "claim", !.now = clock]
             = [q EXCEPT !.phase = "claim", !.now = clock, !.id = q.id]
      BY <1>1 DEF Request
    <3> QED BY <1>2, <3>1 DEF Arrive, Conflict, Set
  <2> DEFINE p == [q EXCEPT !.phase = "claim", !.now = clock, !.id = i]
  <2>2. p.body = q.body /\ p.phase = "claim" /\ p.replayed = q.replayed
    BY <1>1 DEF Request
  <2>3. q.phase # "done" /\ record' = record
    BY <1>2 DEF Arrive, Conflict
  <2> HIDE DEF p
  <2> QED BY <2>1, <2>2, <2>3, ReplayPhase DEF p
<1>3. CASE Execute(r)
  <2>1. PICK outcome \in Outcomes \ {"none"} :
          request' = [request EXCEPT ![r] = [q EXCEPT !.phase = "executed", !.outcome = outcome]]
    BY <1>3 DEF Execute, Set
  <2> DEFINE p == [q EXCEPT !.phase = "executed", !.outcome = outcome]
  <2>2. p.body = q.body /\ p.phase = "executed" /\ p.replayed = q.replayed /\ p.id = q.id
        /\ p.outcome # "none"
    BY <1>1 DEF Request
  <2>3. q.phase = "execute" /\ record' = record
    BY <1>3 DEF Execute
  <2> HIDE DEF p
  <2> QED BY <2>1, <2>2, <2>3, ReplayPhase DEF p
<1>4. CASE Load(r)
  <2>1. PICK phase \in {"store", "done"} : request' = [request EXCEPT ![r] = [q EXCEPT !.phase = phase]]
    BY <1>4 DEF Load, Set
  <2> DEFINE p == [q EXCEPT !.phase = phase]
  <2>2. p.body = q.body /\ p.phase = phase /\ p.replayed = q.replayed /\ p.id = q.id
        /\ p.outcome = q.outcome
    BY <1>1 DEF Request
  <2>3. q.phase = "executed" /\ record' = record
    BY <1>4 DEF Load
  <2>4. p.outcome # "none"
    BY <1>1, <2>2, <2>3 DEF WorksOn
  <2> HIDE DEF p
  <2> QED BY <2>1, <2>2, <2>3, <2>4, ReplayPhase DEF p
<1>5. CASE StoreFails(r) \/ Crash(r)
  <2>1. PICK phase \in {"done", "dead"} : request' = [request EXCEPT ![r] = [q EXCEPT !.phase = phase]]
    BY <1>5 DEF StoreFails, Crash, Set, Ended
  <2> DEFINE p == [q EXCEPT !.phase = phase]
  <2>2. p.body = q.body /\ p.phase = phase /\ p.replayed = q.replayed
    BY <1>1 DEF Request
  <2>3. q.phase # "done" /\ record' = record
    BY <1>5 DEF StoreFails, Crash, Active
  <2> HIDE DEF p
  <2> QED BY <2>1, <2>2, <2>3, ReplayPhase DEF p
<1> QED BY <1>2, <1>3, <1>4, <1>5

(* The record that is inserted has the body of the request. *)
LEMMA ReplayInsert ==
  ASSUME TypeOK, ReplayInv, NEW r \in Requests, Insert(r)
  PROVE  ReplayInv'
<1> DEFINE q == request[r]
           p == [q EXCEPT !.phase = "execute", !.id = r]
<1>1. /\ q \in Request /\ WorksOn(q, request) /\ q.phase = "insert"
      /\ record' = NewRecord(r) /\ request' = [request EXCEPT ![r] = p]
  BY DEF Insert, Set, TypeOK, ReplayInv
<1>2. p.body = q.body /\ p.phase = "execute" /\ p.replayed = q.replayed /\ p.id = r
  BY <1>1 DEF Request
<1>3. record'.id = r /\ record'.body = q.body /\ record'.state = "pending"
  BY <1>1 DEF NewRecord
<1> HIDE DEF p
<1>4. Moves(r, p)
  BY <1>1, <1>2 DEF Moves
<1>5. WorksOn(p, request)
  BY <1>1, <1>2 DEF WorksOn
<1>6. request'[r].body = q.body
  BY <1>2, <1>4, MoveKeeps
<1>7. RecordOK(record', request')
  BY <1>3, <1>6 DEF RecordOK
<1> QED BY <1>4, <1>5, <1>7, MoveReplays

(* Taking a record over leaves its body, and its response if it has one. *)
LEMMA ReplayTakeover ==
  ASSUME TypeOK, ReplayInv, NEW r \in Requests, Takeover(r)
  PROVE  ReplayInv'
<1> DEFINE q == request[r]
<1>1. /\ q \in Request /\ WorksOn(q, request) /\ q.phase = "takeover"
      /\ RecordOK(record, request) /\ (record # NoRecord => record \in Record)
  BY DEF Takeover, TypeOK, ReplayInv
<1>2. CASE record.id = q.id
  <2> DEFINE p == [q EXCEPT !.phase = "execute"]
  <2>1. /\ request' = [request EXCEPT ![r] = p]
        /\ record' = [record EXCEPT !.locked = q.now + Lease, !.expires = q.now + Retention]
    BY <1>2 DEF Takeover, Set
  <2>2. p.body = q.body /\ p.phase = "execute" /\ p.replayed = q.replayed /\ p.id = q.id
    BY <1>1 DEF Request
  <2> HIDE DEF p
  <2>3. Moves(r, p) /\ WorksOn(p, request)
    BY <1>1, <2>1, <2>2 DEF Moves, WorksOn
  <2>4. q.id \in Requests
    BY <1>1 DEF WorksOn
  <2>5. record \in Record /\ record # NoRecord
    BY <1>1, <1>2, <2>4, NoneAssumption DEF NoRecord
  <2>6. /\ record'.id = record.id /\ record'.body = record.body
        /\ record'.state = record.state /\ record'.response = record.response
    BY <2>1, <2>5 DEF Record
  <2>7. RecordOK(record, request')
    BY <1>1, <2>3, MoveKeeps
  <2>8. RecordOK(record', request')
    BY <2>5, <2>6, <2>7 DEF RecordOK
  <2> QED BY <2>3, <2>8, MoveReplays
<1>3. CASE record.id # q.id
  <2> DEFINE p == Ended(q)
  <2>1. request' = [request EXCEPT ![r] = p] /\ record' = record
    BY <1>3 DEF Takeover, Set
  <2>2. p.body = q.body /\ p.phase = "done" /\ p.replayed = q.replayed
    BY <1>1 DEF Request, Ended
  <2> HIDE DEF p
  <2> QED BY <1>1, <2>1, <2>2, ReplayPhase
<1> QED BY <1>2, <1>3

(* A response is stored by the request that gave it, once it is done.        *)
LEMMA ReplayStore ==
  ASSUME TypeOK, ReplayInv, NEW r \in Requests, Store(r)
  PROVE  ReplayInv'
<1> DEFINE q == request[r]
           p == Ended(q)
<1>1. /\ q \in Request /\ WorksOn(q, request) /\ q.phase = "store"
      /\ RecordOK(record, request) /\ (record # NoRecord => record \in Record)
      /\ request' = [request EXCEPT ![r] = p]
  BY DEF Store, Set, TypeOK, ReplayInv
<1>2. /\ p.body = q.body /\ p.phase = "done" /\ p.replayed = q.replayed
      /\ p.outcome = q.outcome
  BY <1>1 DEF Request, Ended
<1> HIDE DEF p
<1>3. Moves(r, p) /\ WorksOn(p, request)
  BY <1>1, <1>2 DEF Moves, WorksOn
<1>4. RecordOK(record, request') /\ request'[r] = p
      /\ \A x \in Requests : request'[x].body = request[x].body
  BY <1>1, <1>3, MoveKeeps
<1>5. CASE record' = record
  BY <1>3, <1>4, <1>5, MoveReplays
<1>6. CASE record' = NoRecord
  <2>1. RecordOK(record', request')
    BY <1>6 DEF RecordOK
  <2> QED BY <1>3, <2>1, MoveReplays
<1>7. CASE /\ record.id = q.id /\ q.outcome # "failed"
           /\ record' = [record EXCEPT !.state = "completed", !.response = r, !.locked = clock]
  <2>1. q.id \in Requests /\ request[q.id].body = q.body
        /\ q.outcome \in {"created", "rejected"}
    BY <1>1, <1>7 DEF WorksOn, Request, Outcomes
  <2>2. record \in Record /\ record # NoRecord
    BY <1>1, <1>7, <2>1, NoneAssumption DEF NoRecord
  <2>3. /\ record'.id = record.id /\ record'.body = record.body /\ record'.response = r
    BY <1>7, <2>2 DEF Record
  <2>4. record.body = q.body
    BY <1>1, <1>7, <2>1, <2>2 DEF RecordOK
  <2>5. AnsweredFor(r, record.body, request')
    BY <1>2, <1>4, <2>1, <2>4 DEF AnsweredFor
  <2>6. RecordOK(record', request')
    BY <1>4, <1>7, <2>1, <2>3, <2>4, <2>5 DEF RecordOK
  <2> QED BY <1>3, <2>6, MoveReplays
<1> QED BY <1>5, <1>6, <1>7 DEF Store

LEMMA ReplayNext == TypeOK /\ ReplayInv /\ [Next]_vars => ReplayInv'
<1> SUFFICES ASSUME TypeOK, ReplayInv, [Next]_vars PROVE ReplayInv'
  OBVIOUS
<1>1. CASE Tick \/ UNCHANGED vars
  <2>1. UNCHANGED <<record, request>>
    BY <1>1 DEF Tick, vars
  <2> QED BY <2>1 DEF ReplayInv
<1>2. ASSUME NEW r \in Requests, Arrive(r) \/ Step(r) \/ StoreFails(r) \/ Crash(r)
      PROVE  ReplayInv'
  BY <1>2, ReplayLookup, ReplayMoves, ReplayInsert, ReplayTakeover, ReplayStore DEF Step
<1> QED BY <1>1, <1>2 DEF Next

(* Whatever is replayed was the answer to a request with the same body, and  *)
(* no failure: also when a crash, a failing database or a slow request has   *)
(* left the record to another.                                               *)
THEOREM ReplayMatchesHolds == Spec => []ReplayMatches
<1>1. ReplayInv => ReplayMatches
  BY DEF ReplayInv, WorksOn, AnsweredFor, ReplayMatches
<1> QED BY <1>1, TypeCorrect, ReplayInit, ReplayNext, PTL DEF Spec

=============================================================================
