----------------------------- MODULE SecretStore -----------------------------
(***************************************************************************)
(* The versioned secret table of one environment of one project, and the   *)
(* requests that change it: push, create, update, rollback, delete, bulk   *)
(* delete, point-in-time recovery and data-key rotation.                   *)
(*                                                                         *)
(* Every request is one PostgreSQL transaction at READ COMMITTED.  It reads *)
(* the latest versions first, and takes the project row FOR UPDATE only    *)
(* when it encrypts its first value, so what it read may be stale by then. *)
(* A deletion never takes that lock, but the audit row it inserts has a    *)
(* foreign key on the project and so waits for whoever holds it.  Nothing  *)
(* a request wrote is visible to the others before it commits.             *)
(***************************************************************************)
EXTENDS Integers, FiniteSets, Sequences

CONSTANTS
  Workers,     \* concurrent requests (one database session each)
  Keys,        \* the (path, key) locations, in sorted order
  Values,      \* what a version holds: its value and metadata
  Policies,    \* retention policies an owner may set
  NoAge,       \* a policy without retain_days
  None,        \* nobody
  MaxVersion,  \* bound on secret versions
  MaxKeyVersion, \* bound on data-key rotations
  MaxTime      \* bound on the database clock

ASSUME KeysAssumption == Keys \subseteq Nat /\ IsFiniteSet(Keys)
ASSUME PolicyAssumption ==
  \A p \in Policies : p.versions \in Nat /\ p.age \in Nat \cup {NoAge}
ASSUME NoneAssumption == None \notin Workers
ASSUME BoundAssumption ==
  /\ MaxVersion \in Nat \ {0} /\ MaxKeyVersion \in Nat /\ MaxTime \in Nat

VARIABLES
  secrets,     \* committed rows of table "secrets"
  activeKey,   \* version of the active data key; 1..activeKey exist, 0: none
  policy,      \* the project's retention policy
  projectLock, \* the transaction holding the project row FOR UPDATE
  clock,       \* the database clock
  txn,         \* what each request's transaction has read and written so far
  seen,        \* rows an open SELECT ... FOR UPDATE found and waits to lock
  restarted    \* history: secrets whose version numbers others restarted
               \* since the request read them

vars == <<secrets, activeKey, policy, projectLock, clock, txn, restarted, seen>>

-----------------------------------------------------------------------------
(* A row.  "created" is a history field, the updated_at the row was        *)
(* inserted with: the column itself moves on every later UPDATE.           *)
Row == [key: Keys, version: 1..MaxVersion, value: Values, keyVersion: Nat,
        updated: Nat, created: Nat, archived: BOOLEAN]

Item == [kind: {"write"}, key: Keys, version: 1..MaxVersion, value: Values]
          \cup [kind: {"delete"}, key: Keys]

Txn == [phase: {"idle", "begun", "running"},
        op: {"none", "write", "delete", "recover", "rotate"},
        start: Nat,              \* now() of the transaction
        policy: Policies,        \* as loaded with the project at the start
        at: Nat,                 \* the timestamp to recover
        todo: Seq(Item),         \* statements still to run
        selecting: BOOLEAN,      \* inside a SELECT ... FOR UPDATE
        keyVersion: Nat,         \* data key in use, read under the lock
        added: SUBSET Row, archiving: SUBSET Row,
        removed: SUBSET Row,     \* deleted, and locked FOR UPDATE until then
        rekeyed: SUBSET Row]

NewTxn(phase) ==
  [phase |-> phase, op |-> "none", start |-> clock, policy |-> policy,
   at |-> 0, todo |-> <<>>, selecting |-> FALSE, keyVersion |-> 0,
   added |-> {}, archiving |-> {}, removed |-> {}, rekeyed |-> {}]

IdleTxn(p) == [phase |-> "idle", op |-> "none", start |-> 0, policy |-> p,
               at |-> 0, todo |-> <<>>, selecting |-> FALSE, keyVersion |-> 0,
               added |-> {}, archiving |-> {}, removed |-> {}, rekeyed |-> {}]

Idle == IdleTxn(CHOOSE p \in Policies : TRUE)

Running(w) == txn[w].phase = "running"

-----------------------------------------------------------------------------
(* Reading the table. *)

RowsOf(table, k) == {r \in table : r.key = k}

IsLatest(table, r) == \A s \in RowsOf(table, r.key) : s.version =< r.version

Latest(table, k) == CHOOSE r \in RowsOf(table, k) : IsLatest(table, r)

Exists(k) == RowsOf(secrets, k) # {}

(* Mutant: versions numbered from zero. *)
NextVersionFromZero(k) == IF Exists(k) THEN Latest(secrets, k).version + 1 ELSE 0

NextVersion(k) == IF Exists(k) THEN Latest(secrets, k).version + 1 ELSE 1

(* get_environment_snapshot: what was current at time t, judged by updated_at. *)
Snapshot(t) == {r \in secrets : r.updated =< t}

(* The orders in which a request may name several keys. *)
KeySeqs == {s \in UNION {[1..n -> Keys] : n \in 1..Cardinality(Keys)} :
              \A i, j \in DOMAIN s : s[i] = s[j] => i = j}

WriteOf(k, val) ==
  [kind |-> "write", key |-> k, version |-> NextVersion(k), value |-> val]

DeleteOf(k) == [kind |-> "delete", key |-> k]

-----------------------------------------------------------------------------
(* Who waits for whom.  A session needs the project row to write, to rotate *)
(* and to commit (its audit row), and needs rows nobody else is deleting.  *)

Needs(w) == IF txn[w].todo = <<>> THEN "commit" ELSE Head(txn[w].todo).kind

(* Mutant: audit rows without a foreign key on the project. *)
WriteNeedsProject(w) == Needs(w) = "write"

NeedsProject(w) == Needs(w) \in {"commit", "write"}

ProjectFree(w) == NeedsProject(w) => projectLock \in {None, w}

(* Mutant: no unique index on (environment, path, key, version). *)
NothingClashes(i) == {}

Clashing(i) == {r \in RowsOf(secrets, i.key) : r.version = i.version}

RowsNeeded(w) ==
  CASE Needs(w) = "commit" -> txn[w].archiving \cup txn[w].rekeyed
    [] Needs(w) = "write"  -> Clashing(Head(txn[w].todo))
    [] Needs(w) = "delete" -> seen[w]

WaitsFor(w, o) ==
  /\ w # o /\ Running(w) /\ Running(o)
  /\ \/ NeedsProject(w) /\ projectLock = o
     \/ /\ Needs(w) = "write" => projectLock = w
        /\ RowsNeeded(w) \cap txn[o].removed # {}

Blocked(w) == \E o \in Workers : WaitsFor(w, o)

(* A cycle of waiting sessions: everyone in it waits for a member. *)
Stuck(S) == S # {} /\ \A w \in S : \E o \in S : WaitsFor(w, o)
DeadlockCycle(S) == Stuck(S) /\ \A T \in SUBSET S : Stuck(T) => T = S

-----------------------------------------------------------------------------
(* The first table of a project: API projects start with data key 1 and no *)
(* secrets; projects from before envelope encryption have no data key, and *)
(* rows with a NULL (here 0) key version.                                  *)
Init ==
  /\ \/ secrets = {} /\ activeKey = 1
     \/ \E k \in Keys, v \in Values :
          /\ secrets = {[key |-> k, version |-> 1, value |-> v, keyVersion |-> 0,
                         updated |-> 0, created |-> 0, archived |-> FALSE]}
          /\ activeKey = 0
  /\ policy \in Policies
  /\ projectLock = None
  /\ clock = 0
  /\ txn = [w \in Workers |-> Idle]
  /\ restarted = [w \in Workers |-> {}]
  /\ seen = [w \in Workers |-> {}]

-----------------------------------------------------------------------------
(* Authentication is the first statement of the transaction: it fixes now() *)
(* and loads the project, retention policy included.                       *)
Start(w) ==
  /\ txn[w].phase = "idle"
  /\ txn' = [txn EXCEPT ![w] = NewTxn("begun")]
  /\ UNCHANGED <<secrets, activeKey, policy, projectLock, clock, restarted, seen>>

(* Mutant: the lock is not tied to the transaction that took it. *)
FinishUnlocking(w) ==
  /\ txn' = [txn EXCEPT ![w] = Idle]
  /\ projectLock' = None

(* Mutant: a session outlives its request and keeps its lock. *)
FinishLeaking(w) ==
  /\ txn' = [txn EXCEPT ![w] = Idle]
  /\ UNCHANGED projectLock

Finish(w) ==
  /\ txn' = [txn EXCEPT ![w] = Idle]
  /\ projectLock' = IF projectLock = w THEN None ELSE projectLock

(* 403, 404, 409 or "unchanged" before anything was written. *)
Refuse(w) ==
  /\ txn[w].phase = "begun"
  /\ Finish(w)
  /\ UNCHANGED <<secrets, activeKey, policy, clock, restarted, seen>>

(* The request has read the table and knows what it will do. *)
Plan(w, op, items) ==
  /\ txn[w].phase = "begun"
  /\ \A i \in DOMAIN items :
       items[i].kind = "write" => items[i].version =< MaxVersion
  /\ txn' = [txn EXCEPT ![w].phase = "running", ![w].op = op, ![w].todo = items]
  /\ UNCHANGED <<secrets, activeKey, policy, projectLock, clock, restarted, seen>>

(* push_secrets: several keys; those whose value does not change are skipped. *)
Push(w) ==
  \E ks \in KeySeqs : \E val \in [Keys -> Values] :
    /\ \A i \in DOMAIN ks :
         Exists(ks[i]) => Latest(secrets, ks[i]).value # val[ks[i]]
    /\ Plan(w, "write", [i \in 1..Len(ks) |-> WriteOf(ks[i], val[ks[i]])])

(* create_secret: only a key with no rows. *)
Create(w) ==
  \E k \in Keys, val \in Values :
    /\ ~Exists(k)
    /\ Plan(w, "write", <<WriteOf(k, val)>>)

(* update_secret: only an existing key, only a new value. *)
Update(w) ==
  \E k \in Keys, val \in Values :
    /\ Exists(k) /\ Latest(secrets, k).value # val
    /\ Plan(w, "write", <<WriteOf(k, val)>>)

(* rollback_secret_version: the value of any version, as a new version. *)
Rollback(w) ==
  \E r \in secrets : Plan(w, "write", <<WriteOf(r.key, r.value)>>)

(* delete_secret: the key must exist when read. *)
DeleteOne(w) ==
  \E k \in Keys : Exists(k) /\ Plan(w, "delete", <<DeleteOf(k)>>)

(* bulk_delete_secrets: so must every key of a bulk deletion. *)
BulkDelete(w) ==
  \E ks \in KeySeqs :
    /\ \A i \in DOMAIN ks : Exists(ks[i])
    /\ Plan(w, "delete", [i \in 1..Len(ks) |-> DeleteOf(ks[i])])

(* _recover_environment: a key with a version in the snapshot gets that    *)
(* version's value back unless it is still the latest; a key without one   *)
(* is deleted.  Locations are handled in sorted order.                     *)
RecoveryItem(k, t) ==
  IF RowsOf(Snapshot(t), k) = {} THEN DeleteOf(k)
  ELSE WriteOf(k, Latest(Snapshot(t), k).value)

NeedsRecovery(k, t) ==
  /\ Exists(k)
  /\ ~\E r \in RowsOf(Snapshot(t), k) : IsLatest(secrets, r)

Recover(w) ==
  \E t \in 0..clock, ks \in KeySeqs :
    /\ {ks[i] : i \in DOMAIN ks} = {k \in Keys : NeedsRecovery(k, t)}
    /\ \A i, j \in DOMAIN ks : i < j => ks[i] < ks[j]
    /\ txn[w].phase = "begun"
    /\ \A k \in Keys : NextVersion(k) =< MaxVersion
    /\ txn' = [txn EXCEPT ![w].phase = "running", ![w].op = "recover", ![w].at = t,
                          ![w].todo = [i \in 1..Len(ks) |-> RecoveryItem(ks[i], t)]]
    /\ UNCHANGED <<secrets, activeKey, policy, projectLock, clock, restarted, seen>>

(* Mutant: rotation does not lock the project. *)
RotateUnlocked(w) ==
  /\ txn[w].phase = "begun"
  /\ activeKey + 1 =< MaxKeyVersion
  /\ txn' = [txn EXCEPT ![w].phase = "running", ![w].op = "rotate",
                        ![w].keyVersion = activeKey + 1, ![w].rekeyed = secrets]
  /\ UNCHANGED <<secrets, activeKey, policy, projectLock, clock, restarted, seen>>

(* Mutant: rotation skips the archived versions. *)
RotateUnarchived(w) ==
  /\ txn[w].phase = "begun"
  /\ projectLock = None
  /\ activeKey + 1 =< MaxKeyVersion
  /\ projectLock' = w
  /\ txn' = [txn EXCEPT ![w].phase = "running", ![w].op = "rotate",
                        ![w].keyVersion = activeKey + 1,
                        ![w].rekeyed = {r \in secrets : ~r.archived}]
  /\ UNCHANGED <<secrets, activeKey, policy, clock, restarted, seen>>

(* rotate_project_encryption_key up to its first UPDATE: lock the project, *)
(* make the next data key and load every row.                              *)
Rotate(w) ==
  /\ txn[w].phase = "begun"
  /\ projectLock = None
  /\ activeKey + 1 =< MaxKeyVersion
  /\ projectLock' = w
  /\ txn' = [txn EXCEPT ![w].phase = "running", ![w].op = "rotate",
                        ![w].keyVersion = activeKey + 1, ![w].rekeyed = secrets]
  /\ UNCHANGED <<secrets, activeKey, policy, clock, restarted, seen>>

-----------------------------------------------------------------------------
(* get_or_create_active_project_key, called with the project locked. *)
KeyInUse == IF activeKey = 0 THEN 1 ELSE activeKey

NewRow(w, i) ==
  [key |-> i.key, version |-> i.version, value |-> i.value,
   keyVersion |-> KeyInUse, updated |-> txn[w].start,
   created |-> txn[w].start, archived |-> FALSE]

(* Mutant: keeps one version too many. *)
ToArchiveOneLess(live, p) ==
  {r \in live :
     LET index == Cardinality({s \in live : s.version > r.version})
     IN  \/ index > (IF p.versions > 1 THEN p.versions ELSE 1)
         \/ index # 0 /\ p.age # NoAge /\ r.updated < clock - p.age}

(* Mutant: forgets retain_days. *)
ToArchiveByCount(live, p) ==
  {r \in live :
     LET index == Cardinality({s \in live : s.version > r.version})
     IN  index # 0 /\ index >= (IF p.versions > 1 THEN p.versions ELSE 1)}

(* archive_old_secret_versions over the rows that are not archived yet. *)
ToArchive(live, p) ==
  {r \in live :
     LET index == Cardinality({s \in live : s.version > r.version})
     IN  /\ index # 0
         /\ \/ index >= (IF p.versions > 1 THEN p.versions ELSE 1)
            \/ p.age # NoAge /\ r.updated < clock - p.age}

(* encrypt_project_secret first takes the project row; it keeps it until   *)
(* the transaction ends.                                                   *)
LockProject(w) ==
  /\ Running(w) /\ Needs(w) = "write" /\ projectLock = None
  /\ projectLock' = w
  /\ UNCHANGED <<secrets, activeKey, policy, clock, txn, restarted, seen>>

(* _create_secret_version: encrypt with the active key, insert, archive. *)
WriteItem(w) ==
  /\ Running(w) /\ Needs(w) = "write" /\ projectLock = w
  /\ LET i   == Head(txn[w].todo)
         row == NewRow(w, i)
         live == {r \in RowsOf(secrets, i.key) : ~r.archived} \cup {row}
     IN  /\ Clashing(i) = {}
         /\ txn' = [txn EXCEPT ![w].todo = Tail(@), ![w].keyVersion = KeyInUse,
                               ![w].added = @ \cup {row},
                               ![w].archiving = @ \cup ToArchive(live, txn[w].policy)]
  /\ UNCHANGED <<secrets, activeKey, policy, projectLock, clock, restarted, seen>>

(* The unique index refuses a version that exists: 409, everything undone. *)
Conflict(w) ==
  /\ Running(w) /\ Needs(w) = "write" /\ projectLock = w
  /\ Clashing(Head(txn[w].todo)) # {} /\ ~Blocked(w)
  /\ Finish(w)
  /\ restarted' = [restarted EXCEPT ![w] = {}]
  /\ UNCHANGED <<secrets, activeKey, policy, clock, seen>>

(* permanently_delete_secret begins: the SELECT ... FOR UPDATE sees the     *)
(* rows committed by now, whatever is committed while it waits for them.   *)
SelectRows(w) ==
  /\ Running(w) /\ Needs(w) = "delete" /\ ~txn[w].selecting
  /\ txn' = [txn EXCEPT ![w].selecting = TRUE]
  /\ seen' = [seen EXCEPT ![w] = RowsOf(secrets, Head(txn[w].todo).key)]
  /\ UNCHANGED <<secrets, activeKey, policy, projectLock, clock, restarted>>

(* It has locked those that are left of them, and deletes them. *)
DeleteItem(w) ==
  /\ Running(w) /\ Needs(w) = "delete" /\ txn[w].selecting /\ ~Blocked(w)
  /\ seen[w] # {} \/ txn[w].op = "recover"
  /\ txn' = [txn EXCEPT ![w].todo = Tail(@), ![w].selecting = FALSE,
                        ![w].removed = @ \cup seen[w]]
  /\ seen' = [seen EXCEPT ![w] = {}]
  /\ UNCHANGED <<secrets, activeKey, policy, projectLock, clock, restarted>>

(* The rows are gone since the request read them: 404, everything undone. *)
DeleteMissing(w) ==
  /\ Running(w) /\ txn[w].selecting
  /\ seen[w] = {} /\ txn[w].op = "delete"
  /\ Finish(w)
  /\ restarted' = [restarted EXCEPT ![w] = {}]
  /\ UNCHANGED <<secrets, activeKey, policy, clock, seen>>

(* What the commit makes of a row: the archive and the re-encryption UPDATE *)
(* both move updated_at (onupdate=now()).                                  *)
Committed(t, r) ==
  [r EXCEPT !.archived = @ \/ r \in t.archiving,
            !.keyVersion = IF r \in t.rekeyed THEN t.keyVersion ELSE @,
            !.updated = IF r \in t.archiving \cup t.rekeyed THEN t.start ELSE @]

(* Version numbers restart when a secret is deleted, and jump when a request *)
(* that did not notice the deletion writes the number it had planned.      *)
Restarts(w) ==
  {r.key : r \in txn[w].removed} \cup (restarted[w] \cap {r.key : r \in txn[w].added})

(* The flush sends the UPDATEs and the audit row, then everything commits. *)
(* A SELECT ... FOR UPDATE that waits goes on with the rows as they are now,*)
(* without the deleted ones and without the new ones.                      *)
Commit(w) ==
  /\ Running(w) /\ Needs(w) = "commit" /\ ProjectFree(w) /\ ~Blocked(w)
  /\ LET t == txn[w]
     IN  /\ secrets' = {Committed(t, r) : r \in (secrets \ t.removed) \cup t.added}
         /\ activeKey' = IF t.keyVersion = 0 THEN activeKey ELSE t.keyVersion
         /\ restarted' = [o \in Workers |->
                         IF o # w /\ Running(o)
                         THEN restarted[o] \cup Restarts(w)
                         ELSE {}]
         /\ seen' = [o \in Workers |->
                      {Committed(t, r) : r \in seen[o] \ t.removed}]
  /\ Finish(w)
  /\ UNCHANGED <<policy, clock>>

(* A crash, a lost connection, or the 422 of a reference cycle: rollback. *)
Abort(w) ==
  /\ Running(w)
  /\ Finish(w)
  /\ restarted' = [restarted EXCEPT ![w] = {}]
  /\ seen' = [seen EXCEPT ![w] = {}]
  /\ UNCHANGED <<secrets, activeKey, policy, clock>>

(* PostgreSQL breaks a cycle by aborting one of its members. *)
DeadlockAbort(w) ==
  /\ \E S \in SUBSET Workers : w \in S /\ DeadlockCycle(S)
  /\ Abort(w)

(* update_secret_retention writes the project row, so it waits for the lock. *)
SetRetention ==
  /\ projectLock = None
  /\ policy' \in Policies
  /\ UNCHANGED <<secrets, activeKey, projectLock, clock, txn, restarted, seen>>

Tick ==
  /\ clock < MaxTime
  /\ clock' = clock + 1
  /\ UNCHANGED <<secrets, activeKey, policy, projectLock, txn, restarted, seen>>

-----------------------------------------------------------------------------
Read(w) ==
  \/ Push(w) \/ Create(w) \/ Update(w) \/ Rollback(w)
  \/ DeleteOne(w) \/ BulkDelete(w) \/ Recover(w) \/ Rotate(w) \/ Refuse(w)

Progress(w) ==
  \/ Read(w) \/ LockProject(w) \/ WriteItem(w) \/ Conflict(w) \/ SelectRows(w)
  \/ DeleteItem(w) \/ DeleteMissing(w) \/ Commit(w) \/ DeadlockAbort(w)

Next ==
  \/ \E w \in Workers : Start(w) \/ Progress(w) \/ Abort(w)
  \/ SetRetention
  \/ Tick

Spec == Init /\ [][Next]_vars

(* PostgreSQL queues lock waiters in order, so a session that can go on    *)
(* again and again does; clients, crashes and the clock owe us nothing.    *)
FairSpec == Spec /\ \A w \in Workers : SF_vars(Progress(w))

-----------------------------------------------------------------------------
(* The tables and the transactions keep their shape. *)
TypeOK ==
  /\ secrets \in SUBSET Row
  /\ activeKey \in Nat
  /\ policy \in Policies
  /\ projectLock \in Workers \cup {None}
  /\ clock \in Nat
  /\ txn \in [Workers -> Txn]
  /\ restarted \in [Workers -> SUBSET Keys]
  /\ seen \in [Workers -> SUBSET Row]

(* No committed row is encrypted under a retired data key: whatever writes *)
(* and rotations overlap, a row's key version is the active one, or NULL    *)
(* for a legacy row no rotation has reached yet (ENCRYPTION.md:64).        *)
NoRetiredKey == \A r \in secrets : r.keyVersion \in {0, activeKey}

(* The discipline behind the two properties around it: a request that has   *)
(* encrypted anything holds the project row until it ends, and a rotation   *)
(* holds it from before it loads the rows.                                  *)
Disciplined(w) ==
  /\ txn[w].phase # "running" =>
       /\ txn[w].keyVersion = 0 /\ txn[w].added = {} /\ txn[w].archiving = {}
       /\ txn[w].removed = {} /\ txn[w].todo = <<>> /\ txn[w].op # "rotate"
  /\ txn[w].keyVersion # 0 => projectLock = w
  /\ txn[w].added \cup txn[w].archiving # {} => txn[w].keyVersion # 0
  /\ \A r \in txn[w].added : r.keyVersion = txn[w].keyVersion
  /\ txn[w].op # "rotate" =>
       txn[w].rekeyed = {} /\ txn[w].keyVersion \in {0, KeyInUse}
  /\ txn[w].op = "rotate" =>
       /\ txn[w].rekeyed = secrets /\ txn[w].keyVersion = activeKey + 1
       /\ txn[w].todo = <<>> /\ txn[w].added = {} /\ txn[w].removed = {}

LockDiscipline == \A w \in Workers : Disciplined(w)

(* No lost update: a version a request is about to commit still comes right *)
(* after the latest one, the one the request read before it took any lock,  *)
(* unless the secret was permanently deleted in between (its numbers        *)
(* restart then; see DeletedStaysDeleted).                                  *)
NoLostUpdate ==
  \A w \in Workers : \A r \in txn[w].added :
    r.key \notin restarted[w] => r.version = NextVersion(r.key)

(* No UPDATE or DELETE reaches a row that has vanished: what a transaction  *)
(* loaded in order to archive, re-encrypt or delete it is still there, and  *)
(* unchanged, when it commits; so a flush never fails with StaleDataError.  *)
RowsStillThere ==
  \A w \in Workers :
    seen[w] \cup txn[w].removed \cup txn[w].rekeyed
      \cup (txn[w].archiving \ txn[w].added) \subseteq secrets

(* A rotation commits all of its re-encryption or none of it: a step that   *)
(* retires a data key leaves no row, legacy or not, on another key.         *)
RotationIsComplete ==
  [][activeKey' # activeKey /\ activeKey # 0
       => \A r \in secrets' : r.keyVersion = activeKey']_vars

(* A commit of new versions leaves each secret it wrote at most as many     *)
(* unarchived versions as the policy the request loaded allows, and below   *)
(* the newest none that had outlived retain_days when the request began,    *)
(* though the rows were read before the lock and other writers, deletions   *)
(* and rotations committed meanwhile.                                       *)
RetentionRespected ==
  [][\A w \in Workers : \A r \in txn[w].added : Commit(w) =>
       LET p    == txn[w].policy
           live == {s \in RowsOf(secrets', r.key) : ~s.archived}
       IN  /\ Cardinality(live) =< (IF p.versions > 1 THEN p.versions ELSE 1)
           /\ p.age # NoAge => \A s \in live :
                IsLatest(live, s) \/ s.updated >= txn[w].start - p.age]_vars

(* Every request ends: no combination of writers, deletions and rotations   *)
(* waits on each other for ever.                                            *)
RequestsEnd == \A w \in Workers : txn[w].phase # "idle" ~> txn[w].phase = "idle"

(* "This permanently removes the secret and its history": a secret without  *)
(* rows starts again at version 1, its old history does not come back.      *)
DeletedStaysDeleted ==
  [][\A k \in Keys : ~Exists(k) =>
       \A r \in RowsOf(secrets', k) : r.version = 1]_vars

(* Recovery as of t keeps every secret that had a version by t.             *)
RecoveryKeepsSecrets ==
  \A w \in Workers : txn[w].op = "recover" =>
    \A r \in txn[w].removed : r.created > txn[w].at

=============================================================================
