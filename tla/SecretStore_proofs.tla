-------------------------- MODULE SecretStore_proofs --------------------------
(***************************************************************************)
(* Proofs about SecretStore for every set of workers, keys, values and     *)
(* policies: type correctness; the lock discipline, and from it that no    *)
(* row is ever encrypted under a retired data key; and from the rows a     *)
(* request has loaded and the numbers it has planned, that no update is    *)
(* lost, that no row vanishes under a request, and that a commit leaves    *)
(* what the retention policy allows.                                       *)
(***************************************************************************)
EXTENDS SecretStore, FiniteSetTheorems, SequenceTheorems, WellFoundedInduction, TLAPS

(* A nonempty set of naturals with a bound has a greatest element. *)
LEMMA MaximumExists ==
  ASSUME NEW T, T \subseteq Nat, T # {}, NEW b \in Nat, \A x \in T : x =< b
  PROVE  \E x \in T : \A y \in T : y =< x
<1> DEFINE R == OpToRel(<, Nat)
           U == {b - x : x \in T}
<1>1. IsWellFoundedOn(R, Nat)
  BY NatLessThanWellFounded
<1>2. \A x \in T : x \in Nat /\ b - x \in Nat
  OBVIOUS
<1>3. U \subseteq Nat /\ U # {}
  BY <1>2
<1>4. PICK u \in U : \A v \in U : ~ (<<v, u>> \in R)
  <2> HIDE DEF R, U
  <2> QED BY <1>1, <1>3, WFMin
<1>5. \A v \in U : ~(v < u)
  BY <1>3, <1>4 DEF OpToRel
<1>6. PICK x \in T : u = b - x
  OBVIOUS
<1>7. ASSUME NEW y \in T PROVE y =< x
  <2>1. b - y \in U
    OBVIOUS
  <2>2. ~(b - y < b - x)
    BY <2>1, <1>5, <1>6
  <2> QED BY <2>2, <1>2
<1> QED BY <1>7

(* The latest version of a secret that has rows is one of them, and none is *)
(* newer: the query of get_latest_secret_rows finds a row.                  *)
LEMMA LatestIsRow ==
  ASSUME NEW table \in SUBSET Row, NEW k \in Keys, RowsOf(table, k) # {}
  PROVE  /\ Latest(table, k) \in RowsOf(table, k)
         /\ IsLatest(table, Latest(table, k))
<1> DEFINE V == {r.version : r \in RowsOf(table, k)}
<1>1. V \subseteq 1..MaxVersion /\ V # {}
  BY DEF RowsOf, Row
<1>2. \A x \in V : x \in Nat /\ x =< MaxVersion
  BY <1>1, BoundAssumption
<1>3. PICK m \in V : \A x \in V : x =< m
  <2> HIDE DEF V
  <2> QED BY <1>1, <1>2, MaximumExists, BoundAssumption
<1>4. PICK r \in RowsOf(table, k) : r.version = m
  OBVIOUS
<1>5. IsLatest(table, r)
  BY <1>3, <1>4 DEF IsLatest, RowsOf
<1> QED BY <1>4, <1>5 DEF Latest

LEMMA NextVersionType ==
  ASSUME TypeOK, NEW k \in Keys
  PROVE  NextVersion(k) \in Nat \ {0}
<1>1. CASE Exists(k)
  <2>1. Latest(secrets, k) \in Row
    BY <1>1, LatestIsRow DEF TypeOK, Exists, RowsOf
  <2>2. Latest(secrets, k).version \in Nat
    BY <2>1, BoundAssumption DEF Row
  <2> QED BY <1>1, <2>2 DEF NextVersion
<1>2. CASE ~Exists(k)
  BY <1>2 DEF NextVersion
<1> QED BY <1>1, <1>2

(* A request names its keys in a sequence. *)
LEMMA KeySeqType ==
  ASSUME NEW s \in KeySeqs
  PROVE  /\ Len(s) \in Nat /\ DOMAIN s = 1..Len(s)
         /\ \A i \in 1..Len(s) : s[i] \in Keys
<1>1. PICK n \in 1..Cardinality(Keys) : s \in [1..n -> Keys]
  BY DEF KeySeqs
<1>2. n \in Nat
  OBVIOUS
<1>3. s \in Seq(Keys) /\ Len(s) = n
  BY <1>1, <1>2
<1> QED BY <1>1, <1>2, <1>3

-----------------------------------------------------------------------------
(* Type correctness. *)

LEMMA IdleType == TypeOK => Idle \in Txn
<1> SUFFICES ASSUME TypeOK PROVE Idle \in Txn
  OBVIOUS
<1>1. (CHOOSE p \in Policies : TRUE) \in Policies
  BY DEF TypeOK
<1>2. <<>> \in Seq(Item)
  OBVIOUS
<1> QED BY <1>1, <1>2 DEF Idle, IdleTxn, Txn

LEMMA FinishType ==
  ASSUME TypeOK, NEW w \in Workers, Finish(w)
  PROVE  /\ txn' \in [Workers -> Txn]
         /\ projectLock' \in Workers \cup {None}
BY IdleType DEF TypeOK, Finish

LEMMA StepFinishType ==
  ASSUME TypeOK, NEW w \in Workers, Finish(w), UNCHANGED <<secrets, activeKey, policy, clock>>,
         restarted' \in [Workers -> SUBSET Keys],
         seen' = seen \/ seen' = [seen EXCEPT ![w] = {}]
  PROVE  TypeOK'
<1>1. seen' \in [Workers -> SUBSET Row]
  BY DEF TypeOK
<1> QED BY <1>1, FinishType DEF TypeOK

LEMMA PlanType ==
  ASSUME TypeOK, NEW w \in Workers, NEW items \in Seq(Item),
         NEW op \in {"write", "delete"}, Plan(w, op, items)
  PROVE  TypeOK'
<1>1. txn[w] \in Txn
  BY DEF TypeOK
<1>2. txn' = [txn EXCEPT ![w] =
               [txn[w] EXCEPT !.phase = "running", !.op = op, !.todo = items]]
  BY DEF Plan, TypeOK
<1>3. [txn[w] EXCEPT !.phase = "running", !.op = op, !.todo = items] \in Txn
  BY <1>1 DEF Txn
<1>4. txn' \in [Workers -> Txn]
  BY <1>2, <1>3 DEF TypeOK
<1> QED BY <1>4 DEF TypeOK, Plan

LEMMA WriteOfType ==
  ASSUME TypeOK, NEW k \in Keys, NEW val \in Values, NextVersion(k) =< MaxVersion
  PROVE  WriteOf(k, val) \in Item
<1>1. NextVersion(k) \in 1..MaxVersion
  BY NextVersionType, BoundAssumption
<1> QED BY <1>1 DEF WriteOf, Item

LEMMA DeleteOfType ==
  ASSUME NEW k \in Keys
  PROVE  DeleteOf(k) \in Item
BY DEF DeleteOf, Item

LEMMA PushType == ASSUME TypeOK, NEW w \in Workers, Push(w) PROVE TypeOK'
<1>1. PICK ks \in KeySeqs, val \in [Keys -> Values] :
        Plan(w, "write", [i \in 1..Len(ks) |-> WriteOf(ks[i], val[ks[i]])])
  BY DEF Push
<1> DEFINE items == [i \in 1..Len(ks) |-> WriteOf(ks[i], val[ks[i]])]
<1>2. ASSUME NEW i \in 1..Len(ks) PROVE items[i] \in Item
  <2>1. items[i] = WriteOf(ks[i], val[ks[i]]) /\ items[i].kind = "write"
    BY DEF WriteOf
  <2>2. items[i].version =< MaxVersion
    <3> HIDE DEF items
    <3> QED BY <1>1, <2>1 DEF Plan, items
  <2>3. ks[i] \in Keys
    BY KeySeqType
  <2> QED BY <2>1, <2>2, <2>3, WriteOfType DEF WriteOf
<1>3. items \in Seq(Item)
  BY <1>2, KeySeqType
<1> QED
  <2> HIDE DEF items
  <2> QED BY <1>1, <1>3, PlanType DEF items

LEMMA OneWriteType ==
  ASSUME TypeOK, NEW w \in Workers, NEW k \in Keys, NEW val \in Values,
         Plan(w, "write", <<WriteOf(k, val)>>)
  PROVE  TypeOK'
<1>1. NextVersion(k) =< MaxVersion
  BY DEF Plan, WriteOf
<1>2. <<WriteOf(k, val)>> \in Seq(Item)
  BY <1>1, WriteOfType
<1> QED BY <1>2, PlanType

LEMMA DeleteOneType == ASSUME TypeOK, NEW w \in Workers, DeleteOne(w) PROVE TypeOK'
<1>1. PICK k \in Keys : Plan(w, "delete", <<DeleteOf(k)>>)
  BY DEF DeleteOne
<1>2. <<DeleteOf(k)>> \in Seq(Item)
  BY DeleteOfType
<1> QED BY <1>1, <1>2, PlanType

LEMMA BulkDeleteType == ASSUME TypeOK, NEW w \in Workers, BulkDelete(w) PROVE TypeOK'
<1>1. PICK ks \in KeySeqs :
        Plan(w, "delete", [i \in 1..Len(ks) |-> DeleteOf(ks[i])])
  BY DEF BulkDelete
<1>2. [i \in 1..Len(ks) |-> DeleteOf(ks[i])] \in Seq(Item)
  BY KeySeqType, DeleteOfType
<1> QED BY <1>1, <1>2, PlanType

LEMMA RecoverType == ASSUME TypeOK, NEW w \in Workers, Recover(w) PROVE TypeOK'
<1>1. PICK t \in 0..clock, ks \in KeySeqs :
        /\ \A k \in Keys : NextVersion(k) =< MaxVersion
        /\ txn' = [txn EXCEPT ![w].phase = "running", ![w].op = "recover", ![w].at = t,
                     ![w].todo = [i \in 1..Len(ks) |-> RecoveryItem(ks[i], t)]]
        /\ UNCHANGED <<secrets, activeKey, policy, projectLock, clock, restarted, seen>>
  BY DEF Recover
<1> DEFINE items == [i \in 1..Len(ks) |-> RecoveryItem(ks[i], t)]
<1>2. ASSUME NEW k \in Keys PROVE RecoveryItem(k, t) \in Item
  <2>1. CASE RowsOf(Snapshot(t), k) = {}
    BY <2>1, DeleteOfType DEF RecoveryItem
  <2>2. CASE RowsOf(Snapshot(t), k) # {}
    <3>1. Snapshot(t) \in SUBSET Row
      BY DEF Snapshot, TypeOK
    <3>2. Latest(Snapshot(t), k) \in Row
      BY <2>2, <3>1, LatestIsRow DEF RowsOf
    <3>3. Latest(Snapshot(t), k).value \in Values
      BY <3>2 DEF Row
    <3> QED BY <1>1, <2>2, <3>3, WriteOfType DEF RecoveryItem
  <2> QED BY <2>1, <2>2
<1>3. items \in Seq(Item)
  BY <1>2, KeySeqType
<1>4. t \in Nat
  BY DEF TypeOK
<1>5. [txn[w] EXCEPT !.phase = "running", !.op = "recover", !.at = t, !.todo = items] \in Txn
  <2> HIDE DEF items
  <2>1. txn[w] \in Txn
    BY DEF TypeOK
  <2> QED BY <1>3, <1>4, <2>1 DEF Txn
<1>6. txn' \in [Workers -> Txn]
  BY <1>1, <1>5 DEF TypeOK
<1> QED BY <1>1, <1>6 DEF TypeOK

LEMMA RotateType == ASSUME TypeOK, NEW w \in Workers, Rotate(w) PROVE TypeOK'
<1>1. txn[w] \in Txn
  BY DEF TypeOK
<1>2. [txn[w] EXCEPT !.phase = "running", !.op = "rotate",
        !.keyVersion = activeKey + 1, !.rekeyed = secrets] \in Txn
  <2>1. activeKey + 1 \in Nat /\ secrets \in SUBSET Row
    BY DEF TypeOK
  <2> QED BY <1>1, <2>1 DEF Txn
<1>3. txn' \in [Workers -> Txn]
  BY <1>2 DEF TypeOK, Rotate
<1> QED BY <1>3 DEF TypeOK, Rotate

LEMMA HeadType ==
  ASSUME TypeOK, NEW w \in Workers, Running(w), Needs(w) # "commit"
  PROVE  /\ Head(txn[w].todo) \in Item
         /\ Tail(txn[w].todo) \in Seq(Item)
         /\ Head(txn[w].todo).key \in Keys
         /\ Needs(w) = Head(txn[w].todo).kind
         /\ Needs(w) = "write" => /\ Head(txn[w].todo).version \in 1..MaxVersion
                                 /\ Head(txn[w].todo).value \in Values
<1>1. txn[w].todo \in Seq(Item)
  BY DEF TypeOK, Txn
<1>2. txn[w].todo # <<>> /\ Needs(w) = Head(txn[w].todo).kind
  BY DEF Needs
<1>3. Head(txn[w].todo) \in Item /\ Tail(txn[w].todo) \in Seq(Item)
  BY <1>1, <1>2
<1> QED BY <1>2, <1>3 DEF Item

LEMMA NewRowType ==
  ASSUME TypeOK, NEW w \in Workers, Running(w), Needs(w) = "write"
  PROVE  NewRow(w, Head(txn[w].todo)) \in Row
<1>1. txn[w].start \in Nat
  BY DEF TypeOK, Txn
<1>2. KeyInUse \in Nat
  BY DEF KeyInUse, TypeOK
<1> QED BY <1>1, <1>2, HeadType DEF NewRow, Row

LEMMA WriteItemType == ASSUME TypeOK, NEW w \in Workers, WriteItem(w) PROVE TypeOK'
<1> DEFINE i == Head(txn[w].todo)
           row == NewRow(w, i)
           live == {r \in RowsOf(secrets, i.key) : ~r.archived} \cup {row}
           old == ToArchive(live, txn[w].policy)
<1>1. Running(w) /\ Needs(w) = "write"
  BY DEF WriteItem
<1>2. /\ txn' = [txn EXCEPT ![w].todo = Tail(@), ![w].keyVersion = KeyInUse,
                          ![w].added = @ \cup {row}, ![w].archiving = @ \cup old]
      /\ UNCHANGED <<secrets, activeKey, policy, projectLock, clock, restarted, seen>>
  BY DEF WriteItem
<1>3. row \in Row
  BY <1>1, NewRowType
<1>4. old \in SUBSET Row
  BY <1>3 DEF ToArchive, RowsOf, TypeOK
<1>5. KeyInUse \in Nat
  BY DEF KeyInUse, TypeOK
<1>6. Tail(txn[w].todo) \in Seq(Item)
  BY <1>1, HeadType
<1>7. txn[w] \in Txn
  BY DEF TypeOK
<1> HIDE DEF i, row, live, old
<1>8. [txn[w] EXCEPT !.todo = Tail(@), !.keyVersion = KeyInUse,
                     !.added = @ \cup {row}, !.archiving = @ \cup old] \in Txn
  BY <1>3, <1>4, <1>5, <1>6, <1>7 DEF Txn
<1>9. txn' \in [Workers -> Txn]
  BY <1>2, <1>8 DEF TypeOK
<1> QED BY <1>2, <1>9 DEF TypeOK

LEMMA SelectRowsType == ASSUME TypeOK, NEW w \in Workers, SelectRows(w) PROVE TypeOK'
<1> DEFINE visible == RowsOf(secrets, Head(txn[w].todo).key)
<1>1. /\ txn' = [txn EXCEPT ![w].selecting = TRUE]
      /\ seen' = [seen EXCEPT ![w] = visible]
      /\ UNCHANGED <<secrets, activeKey, policy, projectLock, clock, restarted>>
  BY DEF SelectRows
<1>2. visible \in SUBSET Row
  BY DEF RowsOf, TypeOK
<1> HIDE DEF visible
<1>3. seen' \in [Workers -> SUBSET Row]
  BY <1>1, <1>2 DEF TypeOK
<1>4. txn[w] \in Txn
  BY DEF TypeOK
<1>5. [txn[w] EXCEPT !.selecting = TRUE] \in Txn
  BY <1>4 DEF Txn
<1>6. txn' \in [Workers -> Txn]
  BY <1>1, <1>5 DEF TypeOK
<1> QED BY <1>1, <1>3, <1>6 DEF TypeOK

LEMMA DeleteItemType == ASSUME TypeOK, NEW w \in Workers, DeleteItem(w) PROVE TypeOK'
<1>1. Running(w) /\ Needs(w) = "delete"
  BY DEF DeleteItem
<1>2. /\ txn' = [txn EXCEPT ![w].todo = Tail(@), ![w].selecting = FALSE,
                           ![w].removed = @ \cup seen[w]]
      /\ seen' = [seen EXCEPT ![w] = {}]
      /\ UNCHANGED <<secrets, activeKey, policy, projectLock, clock, restarted>>
  BY DEF DeleteItem
<1>3. seen[w] \in SUBSET Row /\ seen' \in [Workers -> SUBSET Row]
  BY <1>2 DEF TypeOK
<1>4. Tail(txn[w].todo) \in Seq(Item) /\ txn[w] \in Txn
  BY <1>1, HeadType DEF TypeOK
<1>5. [txn[w] EXCEPT !.todo = Tail(@), !.selecting = FALSE,
                     !.removed = @ \cup seen[w]] \in Txn
  BY <1>3, <1>4 DEF Txn
<1>6. txn' \in [Workers -> Txn]
  BY <1>2, <1>5 DEF TypeOK
<1> QED BY <1>2, <1>3, <1>6 DEF TypeOK

LEMMA CommittedType ==
  ASSUME NEW t \in Txn, NEW r \in Row
  PROVE  /\ Committed(t, r) \in Row
         /\ Committed(t, r).keyVersion =
              IF r \in t.rekeyed THEN t.keyVersion ELSE r.keyVersion
<1>1. t.start \in Nat /\ t.keyVersion \in Nat
  BY DEF Txn
<1>2. r.archived \in BOOLEAN /\ (r.archived \/ r \in t.archiving) \in BOOLEAN
  BY DEF Row
<1> DEFINE a == r.archived \/ r \in t.archiving
           c == [r EXCEPT !.archived = a,
                  !.keyVersion = IF r \in t.rekeyed THEN t.keyVersion ELSE @,
                  !.updated = IF r \in t.archiving \cup t.rekeyed THEN t.start ELSE @]
<1>3. Committed(t, r) = c
  BY DEF Committed
<1>4. c \in Row /\ c.keyVersion = IF r \in t.rekeyed THEN t.keyVersion ELSE r.keyVersion
  <2>1. a \in BOOLEAN
    BY <1>2
  <2> HIDE DEF a
  <2> QED BY <2>1, <1>1 DEF Row
<1> QED BY <1>3, <1>4

LEMMA CommitType == ASSUME TypeOK, NEW w \in Workers, Commit(w) PROVE TypeOK'
<1> DEFINE t == txn[w]
<1>1. /\ secrets' = {Committed(t, r) : r \in (secrets \ t.removed) \cup t.added}
      /\ activeKey' = IF t.keyVersion = 0 THEN activeKey ELSE t.keyVersion
      /\ Finish(w) /\ UNCHANGED <<policy, clock>>
  BY DEF Commit
<1>2. t \in Txn /\ t.added \in SUBSET Row /\ t.removed \in SUBSET Row /\ t.keyVersion \in Nat
  BY DEF TypeOK, Txn
<1>3. secrets' \in SUBSET Row
  <2> HIDE DEF t
  <2> QED BY <1>1, <1>2, CommittedType DEF TypeOK
<1>4. activeKey' \in Nat
  BY <1>1, <1>2 DEF TypeOK
<1>5. restarted' \in [Workers -> SUBSET Keys]
  <2>1. Restarts(w) \in SUBSET Keys
    BY <1>2 DEF Restarts, Row, TypeOK
  <2>2. \A o \in Workers : restarted[o] \in SUBSET Keys
    BY DEF TypeOK
  <2>3. restarted' = [o \in Workers |-> IF o # w /\ Running(o)
                                       THEN restarted[o] \cup Restarts(w) ELSE {}]
    BY DEF Commit
  <2> QED BY <2>1, <2>2, <2>3
<1>6. seen' \in [Workers -> SUBSET Row]
  <2>1. seen' = [o \in Workers |-> {Committed(t, r) : r \in seen[o] \ t.removed}]
    BY DEF Commit
  <2>2. \A o \in Workers : seen[o] \in SUBSET Row
    BY DEF TypeOK
  <2> HIDE DEF t
  <2> QED BY <1>2, <2>1, <2>2, CommittedType
<1> QED BY <1>1, <1>3, <1>4, <1>5, <1>6, FinishType DEF TypeOK

LEMMA TypeInit == Init => TypeOK
<1> SUFFICES ASSUME Init PROVE TypeOK
  OBVIOUS
<1>1. (CHOOSE p \in Policies : TRUE) \in Policies
  BY DEF Init
<1>2. <<>> \in Seq(Item)
  OBVIOUS
<1>3. Idle \in Txn
  BY <1>1, <1>2 DEF Idle, IdleTxn, Txn
<1>4. secrets \in SUBSET Row /\ activeKey \in Nat
  <2>1. 1 \in 1..MaxVersion
    BY BoundAssumption
  <2>2. ASSUME NEW k \in Keys, NEW v \in Values
        PROVE  [key |-> k, version |-> 1, value |-> v, keyVersion |-> 0,
                updated |-> 0, created |-> 0, archived |-> FALSE] \in Row
    BY <2>1 DEF Row
  <2> QED BY <2>2 DEF Init
<1> QED BY <1>3, <1>4 DEF Init, TypeOK

LEMMA TypeNext == TypeOK /\ [Next]_vars => TypeOK'
<1> SUFFICES ASSUME TypeOK, [Next]_vars PROVE TypeOK'
  OBVIOUS
<1>1. ASSUME NEW w \in Workers, Start(w) PROVE TypeOK'
  <2>1. <<>> \in Seq(Item)
    OBVIOUS
  <2>2. NewTxn("begun") \in Txn
    BY <2>1 DEF NewTxn, Txn, TypeOK
  <2>3. txn' \in [Workers -> Txn]
    BY <1>1, <2>2 DEF Start, TypeOK
  <2> QED BY <1>1, <2>3 DEF Start, TypeOK
<1>2. ASSUME NEW w \in Workers, Read(w) PROVE TypeOK'
  <2>1. CASE Push(w) BY <2>1, PushType
  <2>2. CASE Create(w) BY <2>2, OneWriteType DEF Create
  <2>3. CASE Update(w) BY <2>3, OneWriteType DEF Update
  <2>4. CASE Rollback(w)
    <3>1. PICK r \in secrets : Plan(w, "write", <<WriteOf(r.key, r.value)>>)
      BY <2>4 DEF Rollback
    <3>2. r.key \in Keys /\ r.value \in Values
      BY DEF TypeOK, Row
    <3> QED BY <3>1, <3>2, OneWriteType
  <2>5. CASE DeleteOne(w) \/ BulkDelete(w) BY <2>5, DeleteOneType, BulkDeleteType
  <2>6. CASE Recover(w) BY <2>6, RecoverType
  <2>7. CASE Rotate(w) BY <2>7, RotateType
  <2>8. CASE Refuse(w)
    BY <2>8, StepFinishType DEF Refuse, TypeOK
  <2> QED BY <1>2, <2>1, <2>2, <2>3, <2>4, <2>5, <2>6, <2>7, <2>8 DEF Read
<1>3. ASSUME NEW w \in Workers, LockProject(w) PROVE TypeOK'
  BY <1>3 DEF LockProject, TypeOK
<1>4. ASSUME NEW w \in Workers, Conflict(w) \/ DeleteMissing(w) \/ Abort(w) PROVE TypeOK'
  <2>1. restarted' \in [Workers -> SUBSET Keys]
    BY <1>4 DEF Conflict, DeleteMissing, Abort, TypeOK
  <2> QED BY <1>4, <2>1, StepFinishType DEF Conflict, DeleteMissing, Abort
<1>5. ASSUME NEW w \in Workers, Progress(w) PROVE TypeOK'
  BY <1>2, <1>3, <1>4, <1>5, WriteItemType, SelectRowsType, DeleteItemType,
     CommitType
     DEF Progress, DeadlockAbort
<1>6. CASE SetRetention
  BY <1>6 DEF SetRetention, TypeOK
<1>7. CASE Tick
  BY <1>7 DEF Tick, TypeOK
<1>8. CASE UNCHANGED vars
  BY <1>8 DEF vars, TypeOK
<1> QED BY <1>1, <1>4, <1>5, <1>6, <1>7, <1>8 DEF Next

(* Every reachable state of the table and its requests is well formed. *)
THEOREM TypeCorrect == Spec => []TypeOK
<1> QED BY TypeInit, TypeNext, PTL DEF Spec

-----------------------------------------------------------------------------
(* The lock discipline, and the data keys. *)

KeyInv == NoRetiredKey /\ LockDiscipline

(* A step that changes only the transaction of w, without touching what it  *)
(* has encrypted, or that ends it, keeps KeyInv.                             *)
LEMMA FinishKeyInv ==
  ASSUME TypeOK, KeyInv, NEW w \in Workers, Finish(w),
         UNCHANGED <<secrets, activeKey>>
  PROVE  KeyInv'
<1>1. NoRetiredKey'
  BY DEF KeyInv, NoRetiredKey
<1>2. ASSUME NEW o \in Workers, o # w
      PROVE  txn'[o] = txn[o] /\ (projectLock = o => projectLock' = o)
  BY <1>2 DEF Finish, TypeOK
<1>3. txn'[w] = Idle
  BY DEF Finish, TypeOK
<1>4. ASSUME NEW o \in Workers PROVE Disciplined(o)'
  BY <1>2, <1>3 DEF LockDiscipline, Disciplined, KeyInv, Idle, IdleTxn, KeyInUse
<1> QED BY <1>1, <1>4 DEF KeyInv, LockDiscipline

(* Steps that leave alone what KeyInv looks at. *)
LEMMA QuietKeyInv ==
  ASSUME TypeOK, KeyInv, NEW w \in Workers,
         UNCHANGED <<secrets, activeKey>>,
         projectLock' = projectLock \/ projectLock = None,
         txn' = [txn EXCEPT ![w] = txn'[w]],
         txn'[w].phase = "running",
         txn'[w].keyVersion = txn[w].keyVersion, txn'[w].added = txn[w].added,
         txn'[w].archiving = txn[w].archiving, txn'[w].rekeyed = txn[w].rekeyed,
         txn'[w].op # "rotate", txn[w].op # "rotate"
  PROVE  KeyInv'
<1>1. NoRetiredKey'
  BY DEF KeyInv, NoRetiredKey
<1>2. ASSUME NEW o \in Workers
      PROVE  projectLock = o => projectLock' = o
  BY NoneAssumption
<1>3. ASSUME NEW o \in Workers, o # w PROVE txn'[o] = txn[o]
  BY <1>3 DEF TypeOK
<1>4. ASSUME NEW o \in Workers PROVE Disciplined(o)'
  <2>1. Disciplined(o)
    BY DEF KeyInv, LockDiscipline
  <2>2. CASE o = w
    BY <2>1, <2>2, <1>2 DEF Disciplined, KeyInUse
  <2>3. CASE o # w
    BY <2>1, <2>3, <1>2, <1>3 DEF Disciplined, KeyInUse
  <2> QED BY <2>2, <2>3
<1> QED BY <1>1, <1>4 DEF KeyInv, LockDiscipline

LEMMA PlanKeyInv ==
  ASSUME TypeOK, KeyInv, NEW w \in Workers, NEW items,
         NEW op \in {"write", "delete"}, Plan(w, op, items)
  PROVE  KeyInv'
<1>1. txn[w] \in Txn /\ txn[w].op # "rotate"
  BY DEF TypeOK, KeyInv, LockDiscipline, Disciplined, Plan
<1>2. txn' = [txn EXCEPT ![w] =
               [txn[w] EXCEPT !.phase = "running", !.op = op, !.todo = items]]
  BY DEF Plan, TypeOK
<1>3. txn'[w] = [txn[w] EXCEPT !.phase = "running", !.op = op, !.todo = items]
  BY <1>2 DEF TypeOK
<1>4. /\ txn'[w].phase = "running" /\ txn'[w].op = op
      /\ txn'[w].keyVersion = txn[w].keyVersion /\ txn'[w].added = txn[w].added
      /\ txn'[w].archiving = txn[w].archiving /\ txn'[w].rekeyed = txn[w].rekeyed
  BY <1>1, <1>3 DEF Txn
<1>5. txn' = [txn EXCEPT ![w] = txn'[w]]
  BY <1>2, <1>3
<1> QED BY <1>1, <1>4, <1>5, QuietKeyInv DEF Plan

LEMMA RecoverKeyInv ==
  ASSUME TypeOK, KeyInv, NEW w \in Workers, Recover(w)
  PROVE  KeyInv'
<1>1. txn[w] \in Txn /\ txn[w].op # "rotate"
  BY DEF TypeOK, KeyInv, LockDiscipline, Disciplined, Recover
<1>2. PICK t, items :
        txn' = [txn EXCEPT ![w] = [txn[w] EXCEPT !.phase = "running",
                             !.op = "recover", !.at = t, !.todo = items]]
  <2>1. PICK t \in 0..clock, ks \in KeySeqs :
          txn' = [txn EXCEPT ![w].phase = "running", ![w].op = "recover", ![w].at = t,
                     ![w].todo = [i \in 1..Len(ks) |-> RecoveryItem(ks[i], t)]]
    BY DEF Recover
  <2> QED BY <2>1
<1>3. txn'[w] = [txn[w] EXCEPT !.phase = "running", !.op = "recover",
                               !.at = t, !.todo = items]
  BY <1>2 DEF TypeOK
<1>4. /\ txn'[w].phase = "running" /\ txn'[w].op = "recover"
      /\ txn'[w].keyVersion = txn[w].keyVersion /\ txn'[w].added = txn[w].added
      /\ txn'[w].archiving = txn[w].archiving /\ txn'[w].rekeyed = txn[w].rekeyed
  BY <1>1, <1>3 DEF Txn
<1>5. txn' = [txn EXCEPT ![w] = txn'[w]]
  BY <1>2, <1>3
<1> QED BY <1>1, <1>4, <1>5, QuietKeyInv DEF Recover

LEMMA RotateKeyInv ==
  ASSUME TypeOK, KeyInv, NEW w \in Workers, Rotate(w)
  PROVE  KeyInv'
<1>1. txn[w] \in Txn
  BY DEF TypeOK
<1>2. txn'[w] = [txn[w] EXCEPT !.phase = "running", !.op = "rotate",
                   !.keyVersion = activeKey + 1, !.rekeyed = secrets]
  BY DEF Rotate, TypeOK
<1>3. /\ txn'[w].phase = "running" /\ txn'[w].op = "rotate"
      /\ txn'[w].keyVersion = activeKey + 1 /\ txn'[w].rekeyed = secrets
      /\ txn'[w].added = txn[w].added /\ txn'[w].archiving = txn[w].archiving
      /\ txn'[w].removed = txn[w].removed /\ txn'[w].todo = txn[w].todo
  BY <1>1, <1>2 DEF Txn
<1>4. txn[w].todo = <<>>
  BY DEF KeyInv, LockDiscipline, Disciplined, Rotate
<1>5. ASSUME NEW o \in Workers, o # w PROVE txn'[o] = txn[o]
  BY <1>5 DEF Rotate, TypeOK
<1>6. projectLock = None /\ projectLock' = w /\ UNCHANGED <<secrets, activeKey>>
  BY DEF Rotate
<1>7. activeKey + 1 # 0
  BY DEF TypeOK
<1>8. Disciplined(w)'
  <2>1. Disciplined(w)
    BY DEF KeyInv, LockDiscipline
  <2>2. txn[w].added = {} /\ txn[w].archiving = {} /\ txn[w].removed = {}
    BY <2>1 DEF Disciplined, Rotate
  <2> QED BY <2>2, <1>3, <1>4, <1>6, <1>7 DEF Disciplined
<1>9. ASSUME NEW o \in Workers, o # w PROVE Disciplined(o)'
  <2>1. Disciplined(o) /\ txn'[o] = txn[o]
    BY <1>5, <1>9 DEF KeyInv, LockDiscipline
  <2>2. projectLock # o
    BY <1>6, NoneAssumption
  <2>3. txn[o].op # "rotate" /\ txn[o].keyVersion = 0
    BY <2>1, <2>2, <1>7, <1>6 DEF Disciplined
  <2> QED BY <2>1, <2>3, <1>6 DEF Disciplined, KeyInUse
<1> QED BY <1>6, <1>8, <1>9 DEF KeyInv, NoRetiredKey, LockDiscipline

LEMMA StartKeyInv ==
  ASSUME TypeOK, KeyInv, NEW w \in Workers, Start(w)
  PROVE  KeyInv'
<1>1. txn'[w] = NewTxn("begun") /\ \A o \in Workers : o # w => txn'[o] = txn[o]
  BY DEF Start, TypeOK
<1>2. UNCHANGED <<secrets, activeKey, projectLock>>
  BY DEF Start
<1>3. ASSUME NEW o \in Workers PROVE Disciplined(o)'
  <2>1. CASE o = w
    BY <2>1, <1>1, <1>2 DEF Disciplined, NewTxn
  <2>2. CASE o # w
    BY <2>2, <1>1, <1>2 DEF KeyInv, LockDiscipline, Disciplined, KeyInUse
  <2> QED BY <2>1, <2>2
<1> QED BY <1>2, <1>3 DEF KeyInv, NoRetiredKey, LockDiscipline

LEMMA LockProjectKeyInv ==
  ASSUME TypeOK, KeyInv, NEW w \in Workers, LockProject(w)
  PROVE  KeyInv'
<1>1. UNCHANGED <<secrets, activeKey, txn>> /\ projectLock = None
  BY DEF LockProject
<1>2. ASSUME NEW o \in Workers PROVE Disciplined(o)'
  <2>1. projectLock # o
    BY <1>1, NoneAssumption
  <2> QED BY <1>1, <2>1 DEF KeyInv, LockDiscipline, Disciplined, KeyInUse
<1> QED BY <1>1, <1>2 DEF KeyInv, NoRetiredKey, LockDiscipline

LEMMA WriteItemKeyInv ==
  ASSUME TypeOK, KeyInv, NEW w \in Workers, WriteItem(w)
  PROVE  KeyInv'
<1> DEFINE row == NewRow(w, Head(txn[w].todo))
<1>1. PICK old :
        txn' = [txn EXCEPT ![w].todo = Tail(@), ![w].keyVersion = KeyInUse,
                           ![w].added = @ \cup {row}, ![w].archiving = @ \cup old]
  BY DEF WriteItem
<1>2. Running(w) /\ projectLock = w /\ UNCHANGED <<secrets, activeKey, projectLock>>
  BY DEF WriteItem
<1>3. txn[w] \in Txn /\ txn[w].todo # <<>>
  BY DEF TypeOK, WriteItem, Needs
<1>4. row.keyVersion = KeyInUse /\ KeyInUse # 0
  BY DEF NewRow, KeyInUse
<1> HIDE DEF row
<1>5. /\ txn'[w].phase = txn[w].phase /\ txn'[w].op = txn[w].op
      /\ txn'[w].keyVersion = KeyInUse /\ txn'[w].added = txn[w].added \cup {row}
      /\ txn'[w].rekeyed = txn[w].rekeyed
  BY <1>1, <1>3 DEF TypeOK, Txn
<1>6. ASSUME NEW o \in Workers, o # w PROVE txn'[o] = txn[o]
  BY <1>1, <1>6 DEF TypeOK
<1>7. txn[w].op # "rotate" /\ txn[w].rekeyed = {} /\ Disciplined(w)
  BY <1>3 DEF KeyInv, LockDiscipline, Disciplined
<1>8. ASSUME NEW r \in txn[w].added PROVE r.keyVersion = KeyInUse
  BY <1>7 DEF Disciplined
<1>9. Disciplined(w)'
  BY <1>2, <1>4, <1>5, <1>7, <1>8 DEF Disciplined, KeyInUse, Running
<1>10. ASSUME NEW o \in Workers, o # w PROVE Disciplined(o)'
  BY <1>2, <1>6, <1>10 DEF KeyInv, LockDiscipline, Disciplined, KeyInUse
<1> QED BY <1>2, <1>9, <1>10 DEF KeyInv, NoRetiredKey, LockDiscipline

LEMMA SelectRowsKeyInv ==
  ASSUME TypeOK, KeyInv, NEW w \in Workers, SelectRows(w)
  PROVE  KeyInv'
<1>1. txn[w] \in Txn /\ txn[w].todo # <<>> /\ Running(w)
  BY DEF TypeOK, SelectRows, Needs
<1>2. txn' = [txn EXCEPT ![w] = [txn[w] EXCEPT !.selecting = TRUE]]
  BY DEF SelectRows
<1>3. txn'[w] = [txn[w] EXCEPT !.selecting = TRUE]
  BY <1>2 DEF TypeOK
<1>4. /\ txn'[w].phase = "running" /\ txn'[w].op = txn[w].op
      /\ txn'[w].keyVersion = txn[w].keyVersion /\ txn'[w].added = txn[w].added
      /\ txn'[w].archiving = txn[w].archiving /\ txn'[w].rekeyed = txn[w].rekeyed
  BY <1>1, <1>3 DEF Txn, Running
<1>5. txn[w].op # "rotate"
  BY <1>1 DEF KeyInv, LockDiscipline, Disciplined
<1>6. txn' = [txn EXCEPT ![w] = txn'[w]]
  BY <1>2, <1>3
<1> QED BY <1>4, <1>5, <1>6, QuietKeyInv DEF SelectRows

LEMMA DeleteItemKeyInv ==
  ASSUME TypeOK, KeyInv, NEW w \in Workers, DeleteItem(w)
  PROVE  KeyInv'
<1>1. txn' = [txn EXCEPT ![w] =
               [txn[w] EXCEPT !.todo = Tail(@), !.selecting = FALSE,
                              !.removed = @ \cup seen[w]]]
  BY DEF DeleteItem
<1>2. txn[w] \in Txn /\ txn[w].todo # <<>> /\ Running(w)
  BY DEF TypeOK, DeleteItem, Needs
<1>3. txn'[w] = [txn[w] EXCEPT !.todo = Tail(@), !.selecting = FALSE,
                               !.removed = @ \cup seen[w]]
  BY <1>1 DEF TypeOK
<1>4. /\ txn'[w].phase = "running" /\ txn'[w].op = txn[w].op
      /\ txn'[w].keyVersion = txn[w].keyVersion /\ txn'[w].added = txn[w].added
      /\ txn'[w].archiving = txn[w].archiving /\ txn'[w].rekeyed = txn[w].rekeyed
  BY <1>2, <1>3 DEF Txn, Running
<1>5. txn[w].op # "rotate"
  BY <1>2 DEF KeyInv, LockDiscipline, Disciplined
<1>6. txn' = [txn EXCEPT ![w] = txn'[w]]
  BY <1>1, <1>3
<1> QED BY <1>4, <1>5, <1>6, QuietKeyInv DEF DeleteItem

(* Whatever a commit writes is under the key that is active afterwards. *)
LEMMA CommitKeyInv ==
  ASSUME TypeOK, KeyInv, NEW w \in Workers, Commit(w)
  PROVE  KeyInv'
<1> DEFINE t == txn[w]
<1>1. /\ secrets' = {Committed(t, r) : r \in (secrets \ t.removed) \cup t.added}
      /\ activeKey' = IF t.keyVersion = 0 THEN activeKey ELSE t.keyVersion
      /\ projectLock' = IF projectLock = w THEN None ELSE projectLock
      /\ Running(w) /\ projectLock \in {None, w} /\ txn' = [txn EXCEPT ![w] = Idle]
  BY DEF Commit, Finish, ProjectFree, NeedsProject
<1>2. t \in Txn /\ Disciplined(w) /\ t.added \in SUBSET Row
  BY DEF TypeOK, KeyInv, LockDiscipline, Txn
<1>3. ASSUME NEW r \in (secrets \ t.removed) \cup t.added
      PROVE  Committed(t, r).keyVersion \in {0, activeKey'}
  <2>1. r \in Row
    BY <1>2 DEF TypeOK
  <2>2. Committed(t, r).keyVersion =
          IF r \in t.rekeyed THEN t.keyVersion ELSE r.keyVersion
    <3> HIDE DEF t
    <3> QED BY <1>2, <2>1, CommittedType
  <2>3. CASE t.op = "rotate"
    <3>1. r \in t.rekeyed /\ t.keyVersion = activeKey + 1 /\ activeKey \in Nat
      BY <1>2, <2>3 DEF Disciplined, TypeOK
    <3> QED BY <3>1, <2>2, <1>1
  <2>4. CASE t.op # "rotate"
    <3>1. r \notin t.rekeyed /\ t.keyVersion \in {0, KeyInUse}
      BY <1>2, <2>4 DEF Disciplined
    <3>2. CASE r \in t.added
      <4>1. r.keyVersion = t.keyVersion /\ t.keyVersion # 0
        BY <1>2, <3>2 DEF Disciplined
      <4> QED BY <4>1, <3>1, <2>2, <1>1
    <3>3. CASE r \in secrets
      <4>1. r.keyVersion \in {0, activeKey}
        BY <3>3 DEF KeyInv, NoRetiredKey
      <4> QED BY <4>1, <3>1, <2>2, <1>1 DEF KeyInUse
    <3> QED BY <3>2, <3>3
  <2> QED BY <2>3, <2>4
<1>4. NoRetiredKey'
  BY <1>1, <1>3 DEF NoRetiredKey
<1>5. Disciplined(w)'
  BY <1>1 DEF TypeOK, Disciplined, Idle, IdleTxn, KeyInUse
<1>6. ASSUME NEW o \in Workers, o # w PROVE Disciplined(o)'
  <2>1. Disciplined(o) /\ txn'[o] = txn[o]
    BY <1>1, <1>6 DEF KeyInv, LockDiscipline, TypeOK
  <2>2. projectLock # o /\ txn[o].keyVersion = 0
    BY <2>1, <1>1, <1>6, NoneAssumption DEF Disciplined
  <2>3. txn[o].op # "rotate"
    BY <2>1, <2>2 DEF Disciplined, TypeOK
  <2> QED BY <2>1, <2>2, <2>3 DEF Disciplined, KeyInUse
<1> QED BY <1>4, <1>5, <1>6 DEF KeyInv, LockDiscipline

LEMMA KeyInvInit == Init => KeyInv
<1> SUFFICES ASSUME Init PROVE KeyInv
  OBVIOUS
<1>1. NoRetiredKey
  BY DEF Init, NoRetiredKey
<1>2. ASSUME NEW w \in Workers PROVE Disciplined(w)
  <2>1. txn[w] = Idle
    BY DEF Init
  <2> QED BY <2>1 DEF Disciplined, Idle, IdleTxn
<1> QED BY <1>1, <1>2 DEF KeyInv, LockDiscipline

LEMMA KeyInvNext == TypeOK /\ KeyInv /\ [Next]_vars => KeyInv'
<1> SUFFICES ASSUME TypeOK, KeyInv, [Next]_vars PROVE KeyInv'
  OBVIOUS
<1>1. ASSUME NEW w \in Workers, Read(w) PROVE KeyInv'
  <2>1. CASE \/ Push(w) \/ Create(w) \/ Update(w) \/ Rollback(w)
            \/ DeleteOne(w) \/ BulkDelete(w)
    BY <2>1, PlanKeyInv DEF Push, Create, Update, Rollback, DeleteOne, BulkDelete
  <2>2. CASE Recover(w) BY <2>2, RecoverKeyInv
  <2>3. CASE Rotate(w)  BY <2>3, RotateKeyInv
  <2>4. CASE Refuse(w)  BY <2>4, FinishKeyInv DEF Refuse
  <2> QED BY <1>1, <2>1, <2>2, <2>3, <2>4 DEF Read
<1>2. ASSUME NEW w \in Workers, Conflict(w) \/ DeleteMissing(w) \/ Abort(w) PROVE KeyInv'
  BY <1>2, FinishKeyInv DEF Conflict, DeleteMissing, Abort
<1>3. ASSUME NEW w \in Workers, Progress(w) PROVE KeyInv'
  BY <1>1, <1>2, <1>3, LockProjectKeyInv, WriteItemKeyInv, SelectRowsKeyInv,
     DeleteItemKeyInv, CommitKeyInv DEF Progress, DeadlockAbort
<1>4. CASE SetRetention \/ Tick \/ UNCHANGED vars
  <2>1. UNCHANGED <<secrets, activeKey, projectLock, txn>>
    BY <1>4 DEF SetRetention, Tick, vars
  <2> QED BY <2>1 DEF KeyInv, NoRetiredKey, LockDiscipline, Disciplined, KeyInUse
<1> QED BY <1>2, <1>3, <1>4, StartKeyInv DEF Next

(* For every number of concurrent requests: whoever has encrypted anything  *)
(* holds the project row until it ends.                                     *)
THEOREM LockDisciplineHolds == Spec => []LockDiscipline
<1>1. Spec => []KeyInv
  BY TypeCorrect, KeyInvInit, KeyInvNext, PTL DEF Spec
<1>2. KeyInv => LockDiscipline
  BY DEF KeyInv
<1> QED BY <1>1, <1>2, PTL

(* No committed row is ever encrypted under a retired data key, whatever    *)
(* writes, deletions, recoveries, rotations and crashes overlap.            *)
THEOREM NoRetiredKeyHolds == Spec => []NoRetiredKey
<1>1. Spec => []KeyInv
  BY TypeCorrect, KeyInvInit, KeyInvNext, PTL DEF Spec
<1>2. KeyInv => NoRetiredKey
  BY DEF KeyInv
<1> QED BY <1>1, <1>2, PTL

(* A step that retires a data key leaves no row on another one.             *)
THEOREM RotationIsCompleteHolds == Spec => RotationIsComplete
<1> DEFINE Complete == activeKey' # activeKey /\ activeKey # 0
                         => \A r \in secrets' : r.keyVersion = activeKey'
<1>1. Spec => []KeyInv
  BY TypeCorrect, KeyInvInit, KeyInvNext, PTL DEF Spec
<1>2. TypeOK /\ KeyInv /\ [Next]_vars => [Complete]_vars
  <2> SUFFICES ASSUME TypeOK, KeyInv, Next, activeKey' # activeKey, activeKey # 0
               PROVE  \A r \in secrets' : r.keyVersion = activeKey'
    OBVIOUS
  <2>1. PICK w \in Workers : Commit(w)
    <3>1. ASSUME NEW w \in Workers, Read(w) PROVE UNCHANGED activeKey
      BY <3>1 DEF Read, Push, Create, Update, Rollback, DeleteOne, BulkDelete,
                    Plan, Recover, Rotate, Refuse
    <3>2. ASSUME NEW w \in Workers, Progress(w), ~Commit(w) PROVE UNCHANGED activeKey
      BY <3>1, <3>2 DEF Progress, LockProject, WriteItem, Conflict, SelectRows, DeleteItem,
                        DeleteMissing, DeadlockAbort, Abort
    <3>3. ~(SetRetention \/ Tick) /\ \A w \in Workers : ~(Start(w) \/ Abort(w))
      BY DEF SetRetention, Tick, Start, Abort
    <3> QED BY <3>2, <3>3 DEF Next
  <2> DEFINE t == txn[w]
  <2>2. /\ secrets' = {Committed(t, r) : r \in (secrets \ t.removed) \cup t.added}
        /\ activeKey' = IF t.keyVersion = 0 THEN activeKey ELSE t.keyVersion
    BY <2>1 DEF Commit
  <2>3. t \in Txn /\ Disciplined(w)
    BY DEF TypeOK, KeyInv, LockDiscipline
  <2>4. t.op = "rotate"
    BY <2>2, <2>3 DEF Disciplined, KeyInUse
  <2>5. t.rekeyed = secrets /\ t.added = {} /\ t.removed = {}
    BY <2>3, <2>4 DEF Disciplined
  <2>6. ASSUME NEW r \in secrets PROVE Committed(t, r).keyVersion = t.keyVersion
    <3>1. r \in Row /\ r \in t.rekeyed
      BY <2>5 DEF TypeOK
    <3> HIDE DEF t
    <3> QED BY <3>1, <2>3, CommittedType
  <2>7. activeKey' = t.keyVersion
    BY <2>2
  <2> QED BY <2>2, <2>5, <2>6, <2>7
<1> QED BY <1>1, <1>2, TypeCorrect, PTL DEF Spec, RotationIsComplete

-----------------------------------------------------------------------------
(* Rows, version numbers and retention.                                     *)

LiveRows(table, k) == {s \in RowsOf(table, k) : ~s.archived}
Index(live, s) == Cardinality({x \in live : x.version > s.version})
Limit(p) == IF p.versions > 1 THEN p.versions ELSE 1

(* The number that follows those of a secret. *)
Follows(table, k, v) ==
  /\ v \in Nat \ {0}
  /\ \A r \in RowsOf(table, k) : r.version < v
  /\ v = 1 \/ \E r \in RowsOf(table, k) : r.version = v - 1

(* What a request has loaded is there. *)
LoadedOK(t, s, table) ==
  s \cup t.removed \cup t.rekeyed \cup (t.archiving \ t.added) \subseteq table

(* The numbers it has planned follow what is there, or will be refused,      *)
(* unless the numbers of the secret were restarted; those it has written do. *)
PlannedOK(i, gone, table) ==
  i.kind = "write" /\ i.key \notin gone =>
    Follows(table, i.key, i.version) \/ \E r \in RowsOf(table, i.key) : r.version = i.version

NumbersOK(t, gone, table) ==
  /\ \A r \in t.added : r.key \notin gone => Follows(table, r.key, r.version)
  /\ \A j \in DOMAIN t.todo : PlannedOK(t.todo[j], gone, table)

(* It has written a secret once, under a number that is free, and archives   *)
(* what its policy does not keep.                                            *)
RetainsOK(t, r, table) ==
  LET live == LiveRows(table, r.key) \cup {r}
  IN  \A s \in live \ t.archiving :
        /\ Index(live, s) < Limit(t.policy)
        /\ \/ Index(live, s) = 0 \/ t.policy.age = NoAge
           \/ s.updated >= t.start - t.policy.age

WrittenOK(t, r, table) ==
  /\ \A q \in t.added : q.key = r.key => q = r
  /\ \A j \in DOMAIN t.todo : t.todo[j].key # r.key
  /\ \A s \in RowsOf(table, r.key) : s.version # r.version
  /\ RetainsOK(t, r, table)

KeepsOK(t, table, now) ==
  /\ t.start =< now /\ IsFiniteSet(t.added)
  /\ \A i, j \in DOMAIN t.todo : t.todo[i].key = t.todo[j].key => i = j
  /\ \A r \in t.added : WrittenOK(t, r, table)

SessionOK(t, s, gone, table, now) ==
  LoadedOK(t, s, table) /\ NumbersOK(t, gone, table) /\ KeepsOK(t, table, now)

TableOK(table) ==
  /\ IsFiniteSet(table)
  /\ \A r, s \in table : r.key = s.key /\ r.version = s.version => r = s

StoreInv ==
  /\ TableOK(secrets)
  /\ \A w \in Workers : SessionOK(txn[w], seen[w], restarted[w], secrets, clock)
  /\ \A w, o \in Workers : w # o => txn[w].removed \cap txn[o].removed = {}

LEMMA RowNumber ==
  \A r \in Row : r.version \in Nat \ {0} /\ r.key \in Keys /\ r.updated \in Nat
BY BoundAssumption DEF Row

LEMMA FollowsOnce ==
  ASSUME NEW table \in SUBSET Row, NEW k, NEW v, NEW u,
         Follows(table, k, v), Follows(table, k, u)
  PROVE  u = v
<1>1. \A r \in RowsOf(table, k) : r.version \in Nat
  BY RowNumber DEF RowsOf
<1>2. v \in Nat \ {0} /\ u \in Nat \ {0}
  BY DEF Follows
<1>3. v =< u
  <2>1. CASE v = 1
    BY <1>2, <2>1
  <2>2. CASE \E r \in RowsOf(table, k) : r.version = v - 1
    BY <1>1, <1>2, <2>2 DEF Follows
  <2> QED BY <2>1, <2>2 DEF Follows
<1>4. u =< v
  <2>1. CASE u = 1
    BY <1>2, <2>1
  <2>2. CASE \E r \in RowsOf(table, k) : r.version = u - 1
    BY <1>1, <1>2, <2>2 DEF Follows
  <2> QED BY <2>1, <2>2 DEF Follows
<1> QED BY <1>2, <1>3, <1>4

(* The next version follows those of the secret, and nothing else does. *)
LEMMA NextFollows ==
  ASSUME TypeOK, NEW k \in Keys
  PROVE  /\ Follows(secrets, k, NextVersion(k))
         /\ \A v : Follows(secrets, k, v) => v = NextVersion(k)
<1>1. Follows(secrets, k, NextVersion(k))
  <2>1. CASE Exists(k)
    <3> DEFINE top == Latest(secrets, k)
    <3>1. top \in RowsOf(secrets, k) /\ IsLatest(secrets, top)
      BY <2>1, LatestIsRow DEF TypeOK, Exists
    <3>2. top.version \in Nat \ {0} /\ top.key = k
          /\ \A r \in RowsOf(secrets, k) : r.version \in Nat /\ r.version =< top.version
      BY <3>1, RowNumber DEF RowsOf, IsLatest, TypeOK
    <3>3. NextVersion(k) = top.version + 1
      BY <2>1 DEF NextVersion
    <3> HIDE DEF top
    <3> QED BY <3>1, <3>2, <3>3 DEF Follows
  <2>2. CASE ~Exists(k)
    BY <2>2 DEF Follows, NextVersion, Exists
  <2> QED BY <2>1, <2>2
<1>2. secrets \in SUBSET Row
  BY DEF TypeOK
<1> QED BY <1>1, <1>2, FollowsOnce

(* A request that has read nothing but its time, or nothing at all. *)
LEMMA BlankOK ==
  ASSUME NEW t, NEW s, NEW gone, NEW table, NEW now,
         t.added = {}, t.archiving = {}, t.removed = {}, t.rekeyed = {}, t.todo = <<>>,
         t.start =< now, s \subseteq table
  PROVE  SessionOK(t, s, gone, table, now)
<1>1. DOMAIN t.todo = {}
  OBVIOUS
<1> QED BY <1>1, FS_EmptySet DEF SessionOK, LoadedOK, NumbersOK, KeepsOK

(* A step of one request that changes no table. *)
Own(w, t, s, gone) ==
  /\ txn' = [txn EXCEPT ![w] = t] /\ seen' = [seen EXCEPT ![w] = s]
  /\ restarted' = [restarted EXCEPT ![w] = gone]
  /\ UNCHANGED <<secrets, clock>>

LEMMA OwnStep ==
  ASSUME TypeOK, StoreInv, NEW w \in Workers, NEW t, NEW s, NEW gone, Own(w, t, s, gone),
         SessionOK(t, s, gone, secrets, clock),
         \A o \in Workers \ {w} : t.removed \cap txn[o].removed = {}
  PROVE  StoreInv'
<1>1. txn'[w] = t /\ seen'[w] = s /\ restarted'[w] = gone
  BY DEF TypeOK, Own
<1>2. ASSUME NEW o \in Workers, o # w
      PROVE  txn'[o] = txn[o] /\ seen'[o] = seen[o] /\ restarted'[o] = restarted[o]
  BY <1>2 DEF TypeOK, Own
<1>3. ASSUME NEW o \in Workers
      PROVE  SessionOK(txn'[o], seen'[o], restarted'[o], secrets', clock')
  <2>1. CASE o = w
    BY <1>1, <2>1 DEF Own
  <2>2. CASE o # w
    BY <1>2, <2>2 DEF StoreInv, Own
  <2> QED BY <2>1, <2>2
<1>4. ASSUME NEW o \in Workers, NEW p \in Workers, o # p
      PROVE  txn'[o].removed \cap txn'[p].removed = {}
  <2>1. CASE o = w
    <3>1. txn'[p] = txn[p] /\ txn'[o] = t
      BY <1>1, <1>2, <1>4, <2>1
    <3> QED BY <1>4, <2>1, <3>1
  <2>2. CASE p = w
    <3>1. txn'[o] = txn[o] /\ txn'[p] = t
      BY <1>1, <1>2, <1>4, <2>2
    <3> QED BY <1>4, <2>2, <3>1
  <2>3. CASE o # w /\ p # w
    BY <1>2, <1>4, <2>3 DEF StoreInv
  <2> QED BY <2>1, <2>2, <2>3
<1>5. TableOK(secrets')
  BY DEF StoreInv, Own
<1> QED BY <1>3, <1>4, <1>5 DEF StoreInv

LEMMA Same ==
  ASSUME TypeOK, NEW w \in Workers
  PROVE  /\ seen = [seen EXCEPT ![w] = seen[w]]
         /\ restarted = [restarted EXCEPT ![w] = restarted[w]]
         /\ seen[w] \in SUBSET Row /\ restarted[w] \in SUBSET Keys /\ txn[w] \in Txn
BY DEF TypeOK

LEMMA SeenThere ==
  ASSUME StoreInv, NEW w \in Workers
  PROVE  seen[w] \subseteq secrets
BY DEF StoreInv, SessionOK, LoadedOK

LEMMA FinishStoreInv ==
  ASSUME TypeOK, StoreInv, NEW w \in Workers, Finish(w), UNCHANGED <<secrets, clock>>,
         restarted' = restarted \/ restarted' = [restarted EXCEPT ![w] = {}],
         seen' = seen \/ seen' = [seen EXCEPT ![w] = {}]
  PROVE  StoreInv'
<1>1. txn' = [txn EXCEPT ![w] = Idle]
  BY DEF Finish
<1>2. Idle.removed = {} /\ Idle.start =< clock
  BY DEF Idle, IdleTxn, TypeOK
<1>3. PICK s, gone : /\ seen' = [seen EXCEPT ![w] = s] /\ s \subseteq secrets
                     /\ restarted' = [restarted EXCEPT ![w] = gone]
  BY Same, SeenThere
<1>4. SessionOK(Idle, s, gone, secrets, clock)
  BY <1>2, <1>3, BlankOK DEF Idle, IdleTxn
<1>5. Own(w, Idle, s, gone)
  BY <1>1, <1>3 DEF Own
<1> QED BY <1>2, <1>4, <1>5, OwnStep

LEMMA StartStoreInv ==
  ASSUME TypeOK, StoreInv, NEW w \in Workers, Start(w)
  PROVE  StoreInv'
<1> DEFINE t == NewTxn("begun")
<1>1. txn' = [txn EXCEPT ![w] = t] /\ UNCHANGED <<secrets, clock, restarted, seen>>
  BY DEF Start
<1>2. /\ t.added = {} /\ t.archiving = {} /\ t.removed = {} /\ t.rekeyed = {} /\ t.todo = <<>>
      /\ t.start =< clock
  BY DEF NewTxn, TypeOK
<1> HIDE DEF t
<1>3. SessionOK(t, seen[w], restarted[w], secrets, clock)
  BY <1>2, SeenThere, BlankOK
<1>4. seen' = [seen EXCEPT ![w] = seen[w]] /\ restarted' = [restarted EXCEPT ![w] = restarted[w]]
  BY <1>1, Same
<1>5. Own(w, t, seen[w], restarted[w])
  BY <1>1, <1>4 DEF Own
<1> QED BY <1>2, <1>3, <1>5, OwnStep

(* A request plans what it does by what it has read. *)
LEMMA PlansStoreInv ==
  ASSUME TypeOK, KeyInv, StoreInv, NEW w \in Workers, txn[w].phase = "begun",
         NEW t, txn' = [txn EXCEPT ![w] = t],
         t.added = txn[w].added, t.archiving = txn[w].archiving, t.removed = txn[w].removed,
         t.rekeyed \subseteq secrets, t.start = txn[w].start,
         \A j \in DOMAIN t.todo :
           t.todo[j].kind = "write" => Follows(secrets, t.todo[j].key, t.todo[j].version),
         \A i, j \in DOMAIN t.todo : t.todo[i].key = t.todo[j].key => i = j,
         UNCHANGED <<secrets, clock, restarted, seen>>
  PROVE  StoreInv'
<1>1. t.added = {} /\ t.archiving = {} /\ t.removed = {}
  BY DEF KeyInv, LockDiscipline, Disciplined
<1>2. t.start =< clock /\ IsFiniteSet(t.added)
  BY <1>1, FS_EmptySet DEF StoreInv, SessionOK, KeepsOK
<1>3. LoadedOK(t, seen[w], secrets)
  BY <1>1, SeenThere DEF LoadedOK
<1>4. NumbersOK(t, restarted[w], secrets)
  BY <1>1 DEF NumbersOK, PlannedOK
<1>5. KeepsOK(t, secrets, clock)
  BY <1>1, <1>2 DEF KeepsOK
<1>6. SessionOK(t, seen[w], restarted[w], secrets, clock)
  BY <1>3, <1>4, <1>5 DEF SessionOK
<1>7. seen' = [seen EXCEPT ![w] = seen[w]] /\ restarted' = [restarted EXCEPT ![w] = restarted[w]]
  BY Same
<1>8. Own(w, t, seen[w], restarted[w])
  BY <1>7 DEF Own
<1> QED BY <1>1, <1>6, <1>8, OwnStep

(* A planned step, with the statements of it. *)
Plans(w, op, at, items) ==
  /\ txn[w].phase = "begun"
  /\ txn' = [txn EXCEPT ![w] = [txn[w] EXCEPT !.phase = "running", !.op = op, !.at = at,
                                              !.todo = items]]
  /\ UNCHANGED <<secrets, clock, restarted, seen>>

PlannedItems(items) ==
  /\ \A j \in DOMAIN items :
       items[j].kind = "write" => Follows(secrets, items[j].key, items[j].version)
  /\ \A i, j \in DOMAIN items : items[i].key = items[j].key => i = j

LEMMA PlanStoreInv ==
  ASSUME TypeOK, KeyInv, StoreInv, NEW w \in Workers, NEW items, NEW op, NEW at,
         Plans(w, op, at, items), PlannedItems(items)
  PROVE  StoreInv'
<1> DEFINE t == [txn[w] EXCEPT !.phase = "running", !.op = op, !.at = at, !.todo = items]
<1>1. txn[w] \in Txn /\ txn[w].rekeyed = {}
  BY DEF TypeOK, KeyInv, LockDiscipline, Disciplined, Plans
<1>2. /\ t.added = txn[w].added /\ t.archiving = txn[w].archiving
      /\ t.removed = txn[w].removed /\ t.rekeyed = txn[w].rekeyed /\ t.start = txn[w].start
      /\ t.todo = items
  BY <1>1 DEF Txn
<1>3. /\ txn' = [txn EXCEPT ![w] = t] /\ txn[w].phase = "begun"
      /\ UNCHANGED <<secrets, clock, restarted, seen>>
  BY DEF Plans
<1> HIDE DEF t
<1> QED BY <1>1, <1>2, <1>3, PlansStoreInv DEF PlannedItems

LEMMA OneItem ==
  ASSUME TypeOK, NEW k \in Keys, NEW i, i.key = k, i.kind = "write" => i.version = NextVersion(k)
  PROVE  PlannedItems(<<i>>)
BY NextFollows DEF PlannedItems

LEMMA ManyItems ==
  ASSUME TypeOK, NEW ks \in KeySeqs, NEW items, DOMAIN items = 1 .. Len(ks),
         \A j \in 1 .. Len(ks) :
           /\ items[j].key = ks[j]
           /\ items[j].kind = "write" => items[j].version = NextVersion(ks[j])
  PROVE  PlannedItems(items)
<1>1. \A j \in 1 .. Len(ks) : ks[j] \in Keys
  BY KeySeqType
<1>2. \A i, j \in 1 .. Len(ks) : ks[i] = ks[j] => i = j
  BY KeySeqType DEF KeySeqs
<1> QED BY <1>1, <1>2, NextFollows DEF PlannedItems

(* What Plan does to the request. *)
LEMMA PlanRequest ==
  ASSUME TypeOK, NEW w \in Workers, NEW op, NEW items, Plan(w, op, items)
  PROVE  Plans(w, op, txn[w].at, items)
<1>1. txn[w] \in Txn
  BY DEF TypeOK
<1>2. txn' = [txn EXCEPT ![w] = [txn[w] EXCEPT !.phase = "running", !.op = op, !.todo = items]]
  BY DEF Plan, TypeOK
<1>3. [txn[w] EXCEPT !.phase = "running", !.op = op, !.todo = items]
        = [txn[w] EXCEPT !.phase = "running", !.op = op, !.at = txn[w].at, !.todo = items]
  BY <1>1 DEF Txn
<1> QED BY <1>2, <1>3 DEF Plan, Plans

LEMMA ReadStoreInv ==
  ASSUME TypeOK, KeyInv, StoreInv, NEW w \in Workers, Read(w)
  PROVE  StoreInv'
<1>1. ASSUME NEW op, NEW items, Plan(w, op, items), PlannedItems(items) PROVE StoreInv'
  BY <1>1, PlanRequest, PlanStoreInv
<1>2. CASE Push(w)
  <2>1. PICK ks \in KeySeqs, val \in [Keys -> Values] :
          Plan(w, "write", [i \in 1..Len(ks) |-> WriteOf(ks[i], val[ks[i]])])
    BY <1>2 DEF Push
  <2> DEFINE items == [i \in 1..Len(ks) |-> WriteOf(ks[i], val[ks[i]])]
  <2>2. PlannedItems(items)
    BY ManyItems DEF WriteOf
  <2> QED BY <1>1, <2>1, <2>2
<1>3. ASSUME NEW k \in Keys, NEW val, Plan(w, "write", <<WriteOf(k, val)>>) PROVE StoreInv'
  <2>1. PlannedItems(<<WriteOf(k, val)>>)
    BY OneItem DEF WriteOf
  <2> QED BY <1>1, <1>3, <2>1
<1>4. CASE Create(w)
  BY <1>3, <1>4 DEF Create
<1>5. CASE Update(w)
  BY <1>3, <1>5 DEF Update
<1>6. CASE Rollback(w)
  <2>1. PICK r \in secrets : Plan(w, "write", <<WriteOf(r.key, r.value)>>)
    BY <1>6 DEF Rollback
  <2>2. r.key \in Keys
    BY DEF TypeOK, Row
  <2> QED BY <1>3, <2>1, <2>2
<1>7. CASE DeleteOne(w)
  <2>1. PICK k \in Keys : Plan(w, "delete", <<DeleteOf(k)>>)
    BY <1>7 DEF DeleteOne
  <2>2. PlannedItems(<<DeleteOf(k)>>)
    BY OneItem DEF DeleteOf
  <2> QED BY <1>1, <2>1, <2>2
<1>8. CASE BulkDelete(w)
  <2>1. PICK ks \in KeySeqs : Plan(w, "delete", [i \in 1..Len(ks) |-> DeleteOf(ks[i])])
    BY <1>8 DEF BulkDelete
  <2>2. PlannedItems([i \in 1..Len(ks) |-> DeleteOf(ks[i])])
    BY ManyItems DEF DeleteOf
  <2> QED BY <1>1, <2>1, <2>2
<1>9. CASE Recover(w)
  <2>1. PICK t \in 0..clock, ks \in KeySeqs :
          /\ txn[w].phase = "begun"
          /\ txn' = [txn EXCEPT ![w].phase = "running", ![w].op = "recover", ![w].at = t,
                       ![w].todo = [i \in 1..Len(ks) |-> RecoveryItem(ks[i], t)]]
          /\ UNCHANGED <<secrets, activeKey, policy, projectLock, clock, restarted, seen>>
    BY <1>9 DEF Recover
  <2> DEFINE items == [i \in 1..Len(ks) |-> RecoveryItem(ks[i], t)]
  <2>2. PlannedItems(items)
    BY ManyItems DEF RecoveryItem, WriteOf, DeleteOf
  <2>3. txn' = [txn EXCEPT ![w] = [txn[w] EXCEPT !.phase = "running", !.op = "recover",
                                                 !.at = t, !.todo = items]]
    BY <2>1 DEF TypeOK
  <2> HIDE DEF items
  <2>4. Plans(w, "recover", t, items)
    BY <2>1, <2>3 DEF Plans
  <2> QED BY <2>2, <2>4, PlanStoreInv
<1>10. CASE Rotate(w)
  <2> DEFINE t == [txn[w] EXCEPT !.phase = "running", !.op = "rotate",
                     !.keyVersion = activeKey + 1, !.rekeyed = secrets]
  <2>1. txn[w] \in Txn /\ txn[w].todo = <<>>
    BY <1>10 DEF TypeOK, KeyInv, LockDiscipline, Disciplined, Rotate
  <2>2. /\ t.added = txn[w].added /\ t.archiving = txn[w].archiving
        /\ t.removed = txn[w].removed /\ t.rekeyed = secrets /\ t.start = txn[w].start
        /\ t.todo = <<>>
    BY <2>1 DEF Txn
  <2>3. txn' = [txn EXCEPT ![w] = t] /\ UNCHANGED <<secrets, clock, restarted, seen>>
        /\ txn[w].phase = "begun"
    BY <1>10 DEF Rotate
  <2> HIDE DEF t
  <2>4. DOMAIN t.todo = {}
    BY <2>2
  <2> QED BY <2>2, <2>3, <2>4, PlansStoreInv
<1>11. CASE Refuse(w)
  BY <1>11, FinishStoreInv DEF Refuse
<1> QED BY <1>2, <1>4, <1>5, <1>6, <1>7, <1>8, <1>9, <1>10, <1>11 DEF Read

LEMMA TodoFacts ==
  ASSUME TypeOK, NEW w \in Workers, txn[w].todo # <<>>
  PROVE  /\ 1 \in DOMAIN txn[w].todo /\ Head(txn[w].todo) = txn[w].todo[1]
         /\ \A j \in DOMAIN Tail(txn[w].todo) :
              /\ j + 1 \in DOMAIN txn[w].todo /\ j + 1 # 1 /\ j \in Nat
              /\ Tail(txn[w].todo)[j] = txn[w].todo[j + 1]
<1> DEFINE q == txn[w].todo
<1>1. q \in Seq(Item) /\ q # <<>>
  BY DEF TypeOK, Txn
<1> HIDE DEF q
<1>2. Len(q) \in Nat \ {0} /\ DOMAIN q = 1 .. Len(q) /\ Head(q) = q[1]
  BY <1>1
<1>3. Tail(q) \in Seq(Item) /\ Len(Tail(q)) = Len(q) - 1
      /\ \A j \in 1 .. Len(q) - 1 : Tail(q)[j] = q[j + 1]
  BY <1>1, HeadTailProperties
<1>4. DOMAIN Tail(q) = 1 .. Len(q) - 1
  BY <1>2, <1>3
<1> QED BY <1>2, <1>3, <1>4 DEF q

(* What is left to do stays planned. *)
LEMMA TailPlanned ==
  ASSUME TypeOK, StoreInv, NEW w \in Workers, txn[w].todo # <<>>
  PROVE  /\ \A j \in DOMAIN Tail(txn[w].todo) :
              /\ PlannedOK(Tail(txn[w].todo)[j], restarted[w], secrets)
              /\ Tail(txn[w].todo)[j].key # Head(txn[w].todo).key
         /\ \A i, j \in DOMAIN Tail(txn[w].todo) :
              Tail(txn[w].todo)[i].key = Tail(txn[w].todo)[j].key => i = j
         /\ PlannedOK(Head(txn[w].todo), restarted[w], secrets)
<1> DEFINE q == txn[w].todo
           rest == Tail(q)
<1>1. /\ \A j \in DOMAIN q : PlannedOK(q[j], restarted[w], secrets)
      /\ \A i, j \in DOMAIN q : q[i].key = q[j].key => i = j
  BY DEF StoreInv, SessionOK, NumbersOK, KeepsOK
<1>2. /\ 1 \in DOMAIN q /\ Head(q) = q[1]
      /\ \A j \in DOMAIN rest : /\ j + 1 \in DOMAIN q /\ j + 1 # 1 /\ j \in Nat
                                /\ rest[j] = q[j + 1]
  BY TodoFacts
<1> HIDE DEF q, rest
<1>3. \A j \in DOMAIN rest : PlannedOK(rest[j], restarted[w], secrets) /\ rest[j].key # Head(q).key
  BY <1>1, <1>2
<1>4. ASSUME NEW i \in DOMAIN rest, NEW j \in DOMAIN rest, rest[i].key = rest[j].key
      PROVE  i = j
  <2>1. i + 1 = j + 1 /\ i \in Nat /\ j \in Nat
    BY <1>1, <1>2, <1>4
  <2> QED BY <2>1
<1>5. PlannedOK(Head(q), restarted[w], secrets)
  BY <1>1, <1>2
<1> QED BY <1>3, <1>4, <1>5 DEF q, rest

LEMMA LiveFinite ==
  ASSUME StoreInv, NEW k, NEW r
  PROVE  /\ IsFiniteSet(LiveRows(secrets, k) \cup {r})
         /\ \A s : Index(LiveRows(secrets, k) \cup {r}, s) \in Nat
<1> DEFINE live == LiveRows(secrets, k) \cup {r}
<1>1. IsFiniteSet(secrets) /\ LiveRows(secrets, k) \subseteq secrets
  BY DEF StoreInv, TableOK, LiveRows, RowsOf
<1>2. IsFiniteSet(live)
  BY <1>1, FS_Subset, FS_AddElement
<1>3. ASSUME NEW s PROVE Index(live, s) \in Nat
  <2>1. IsFiniteSet({x \in live : x.version > s.version})
    <3> HIDE DEF live
    <3> QED BY <1>2, FS_Subset
  <2> HIDE DEF live
  <2> QED BY <2>1, FS_CardinalityType DEF Index
<1> QED BY <1>2, <1>3

LEMMA PolicyFacts ==
  ASSUME NEW t \in Txn
  PROVE  /\ Limit(t.policy) \in Nat \ {0}
         /\ t.policy.age \in Nat \cup {NoAge} /\ t.start \in Nat
BY PolicyAssumption DEF Txn, Limit

LEMMA WriteItemStoreInv ==
  ASSUME TypeOK, KeyInv, StoreInv, NEW w \in Workers, WriteItem(w)
  PROVE  StoreInv'
<1> DEFINE q == txn[w]
           i == Head(q.todo)
           row == NewRow(w, i)
           live == LiveRows(secrets, i.key) \cup {row}
           old == ToArchive(live, q.policy)
           t == [q EXCEPT !.todo = Tail(@), !.keyVersion = KeyInUse,
                          !.added = @ \cup {row}, !.archiving = @ \cup old]
<1>1. /\ txn' = [txn EXCEPT ![w] = t] /\ UNCHANGED <<secrets, clock, restarted, seen>>
      /\ Clashing(i) = {} /\ Needs(w) = "write" /\ Running(w)
  BY DEF WriteItem, LiveRows
<1>2. q \in Txn /\ q.todo # <<>> /\ i.kind = "write" /\ i.key \in Keys /\ row \in Row
  BY <1>1, HeadType, NewRowType DEF TypeOK, Needs
<1>3. row.key = i.key /\ row.version = i.version /\ row.updated = q.start /\ row.archived = FALSE
  BY DEF NewRow
<1>4. /\ t.todo = Tail(q.todo) /\ t.added = q.added \cup {row} /\ t.archiving = q.archiving \cup old
      /\ t.removed = q.removed /\ t.rekeyed = q.rekeyed /\ t.start = q.start /\ t.policy = q.policy
  BY <1>2 DEF Txn
<1>5. /\ LoadedOK(q, seen[w], secrets) /\ NumbersOK(q, restarted[w], secrets)
      /\ KeepsOK(q, secrets, clock)
  BY DEF StoreInv, SessionOK
<1>6. /\ \A j \in DOMAIN Tail(q.todo) :
           /\ PlannedOK(Tail(q.todo)[j], restarted[w], secrets)
           /\ Tail(q.todo)[j].key # i.key
      /\ \A j, k \in DOMAIN Tail(q.todo) : Tail(q.todo)[j].key = Tail(q.todo)[k].key => j = k
      /\ PlannedOK(i, restarted[w], secrets)
  BY <1>2, TailPlanned
<1>7. /\ 1 \in DOMAIN q.todo /\ i = q.todo[1]
      /\ \A j \in DOMAIN Tail(q.todo) : /\ j + 1 \in DOMAIN q.todo
                                        /\ Tail(q.todo)[j] = q.todo[j + 1]
  BY <1>2, TodoFacts
<1>8. old \subseteq live /\ LiveRows(secrets, i.key) \subseteq secrets
  BY DEF ToArchive, LiveRows, RowsOf
<1> HIDE DEF t
<1>9. LoadedOK(t, seen[w], secrets)
  <2>1. old \subseteq secrets \cup {row}
    BY <1>8
  <2> HIDE DEF old, live, row, i, q
  <2> QED BY <1>4, <1>5, <2>1 DEF LoadedOK
<1>10. NumbersOK(t, restarted[w], secrets)
  <2>1. row.key \notin restarted[w] => Follows(secrets, row.key, row.version)
    BY <1>1, <1>2, <1>3, <1>6 DEF PlannedOK, Clashing
  <2> HIDE DEF old, live, row, i, q
  <2> QED BY <1>4, <1>5, <1>6, <2>1 DEF NumbersOK
<1>11. WrittenOK(t, row, secrets)
  <2>1. \A r \in q.added : r.key # i.key
    BY <1>5, <1>7 DEF KeepsOK, WrittenOK
  <2>2. \A s \in RowsOf(secrets, i.key) : s.version # i.version
    BY <1>1 DEF Clashing
  <2>3. RetainsOK(t, row, secrets)
    <3> SUFFICES ASSUME NEW s \in live \ t.archiving
                 PROVE  /\ Index(live, s) < Limit(q.policy)
                        /\ \/ Index(live, s) = 0 \/ q.policy.age = NoAge
                           \/ s.updated >= q.start - q.policy.age
      BY <1>3, <1>4 DEF RetainsOK
    <3>1. s \in live /\ s \notin old
      BY <1>4
    <3>2. Index(live, s) \in Nat
      BY LiveFinite
    <3>3. ~ /\ Index(live, s) # 0
            /\ \/ Index(live, s) >= Limit(q.policy)
               \/ q.policy.age # NoAge /\ s.updated < clock - q.policy.age
      <4> HIDE DEF live, q
      <4> QED BY <3>1 DEF ToArchive, Index, Limit, old
    <3>4. s.updated \in Nat /\ clock \in Nat /\ q.start =< clock
      BY <1>2, <1>5, <1>8, RowNumber DEF TypeOK, KeepsOK
    <3>5. Limit(q.policy) \in Nat \ {0} /\ q.policy.age \in Nat \cup {NoAge} /\ q.start \in Nat
      BY <1>2, PolicyFacts
    <3> HIDE DEF live, q
    <3> QED BY <3>2, <3>3, <3>4, <3>5
  <2> HIDE DEF old, live, row, i, q
  <2> QED BY <1>3, <1>4, <1>6, <2>1, <2>2, <2>3 DEF WrittenOK
<1>12. ASSUME NEW r \in q.added PROVE WrittenOK(t, r, secrets)
  <2>1. WrittenOK(q, r, secrets)
    BY <1>5 DEF KeepsOK
  <2>2. i.key # r.key
    BY <1>7, <2>1 DEF WrittenOK
  <2>3. \A j \in DOMAIN Tail(q.todo) : Tail(q.todo)[j].key # r.key
    BY <1>7, <2>1 DEF WrittenOK
  <2>4. RetainsOK(t, r, secrets)
    <3> HIDE DEF old, live, row, i, q
    <3> QED BY <1>4, <2>1 DEF WrittenOK, RetainsOK
  <2> HIDE DEF old, live, row, i, q
  <2> QED BY <1>3, <1>4, <2>1, <2>2, <2>3, <2>4 DEF WrittenOK
<1>13. KeepsOK(t, secrets, clock)
  <2>1. IsFiniteSet(t.added)
    BY <1>4, <1>5, FS_AddElement DEF KeepsOK
  <2> HIDE DEF old, live, row, i, q
  <2> QED BY <1>4, <1>5, <1>6, <1>11, <1>12, <2>1 DEF KeepsOK
<1>14. SessionOK(t, seen[w], restarted[w], secrets, clock)
  BY <1>9, <1>10, <1>13 DEF SessionOK
<1>15. \A o \in Workers \ {w} : t.removed \cap txn[o].removed = {}
  BY <1>4 DEF StoreInv
<1>16. Own(w, t, seen[w], restarted[w])
  BY <1>1, Same DEF Own, t
<1> QED BY <1>14, <1>15, <1>16, OwnStep

LEMMA SelectRowsStoreInv ==
  ASSUME TypeOK, KeyInv, StoreInv, NEW w \in Workers, SelectRows(w)
  PROVE  StoreInv'
<1> DEFINE q == txn[w]
           t == [q EXCEPT !.selecting = TRUE]
           s == RowsOf(secrets, Head(q.todo).key)
<1>1. /\ txn' = [txn EXCEPT ![w] = t] /\ seen' = [seen EXCEPT ![w] = s]
      /\ UNCHANGED <<secrets, clock, restarted>>
  BY DEF SelectRows
<1>2. q \in Txn /\ s \subseteq secrets
  BY DEF TypeOK, RowsOf
<1>3. /\ t.todo = q.todo /\ t.added = q.added /\ t.archiving = q.archiving
      /\ t.removed = q.removed /\ t.rekeyed = q.rekeyed /\ t.start = q.start /\ t.policy = q.policy
  BY <1>2 DEF Txn
<1>4. SessionOK(q, seen[w], restarted[w], secrets, clock)
  BY DEF StoreInv
<1>5. Own(w, t, s, restarted[w])
  BY <1>1, Same DEF Own
<1>6. \A o \in Workers \ {w} : t.removed \cap txn[o].removed = {}
  BY <1>3 DEF StoreInv
<1> HIDE DEF t, s, q
<1>7. SessionOK(t, s, restarted[w], secrets, clock)
  <2>1. LoadedOK(t, s, secrets) /\ NumbersOK(t, restarted[w], secrets)
    BY <1>2, <1>3, <1>4 DEF SessionOK, LoadedOK, NumbersOK
  <2>2. \A r : WrittenOK(q, r, secrets) => WrittenOK(t, r, secrets)
    BY <1>3 DEF WrittenOK, RetainsOK
  <2>3. KeepsOK(t, secrets, clock)
    BY <1>3, <1>4, <2>2 DEF SessionOK, KeepsOK
  <2> QED BY <2>1, <2>3 DEF SessionOK
<1> QED BY <1>5, <1>6, <1>7, OwnStep

LEMMA DeleteItemStoreInv ==
  ASSUME TypeOK, KeyInv, StoreInv, NEW w \in Workers, DeleteItem(w)
  PROVE  StoreInv'
<1> DEFINE q == txn[w]
           t == [q EXCEPT !.todo = Tail(@), !.selecting = FALSE, !.removed = @ \cup seen[w]]
<1>1. /\ txn' = [txn EXCEPT ![w] = t] /\ seen' = [seen EXCEPT ![w] = {}]
      /\ UNCHANGED <<secrets, clock, restarted>>
      /\ ~Blocked(w) /\ Needs(w) = "delete" /\ Running(w)
  BY DEF DeleteItem
<1>2. q \in Txn /\ q.todo # <<>>
  BY <1>1 DEF TypeOK, Needs
<1>3. /\ t.todo = Tail(q.todo) /\ t.added = q.added /\ t.archiving = q.archiving
      /\ t.removed = q.removed \cup seen[w] /\ t.rekeyed = q.rekeyed /\ t.start = q.start
      /\ t.policy = q.policy
  BY <1>2 DEF Txn
<1>4. SessionOK(q, seen[w], restarted[w], secrets, clock)
  BY DEF StoreInv
<1>5. /\ \A j \in DOMAIN Tail(q.todo) : PlannedOK(Tail(q.todo)[j], restarted[w], secrets)
      /\ \A j, k \in DOMAIN Tail(q.todo) : Tail(q.todo)[j].key = Tail(q.todo)[k].key => j = k
  BY <1>2, TailPlanned
<1>6. \A j \in DOMAIN Tail(q.todo) : /\ j + 1 \in DOMAIN q.todo
                                     /\ Tail(q.todo)[j] = q.todo[j + 1]
  BY <1>2, TodoFacts
<1>7. \A o \in Workers \ {w} : t.removed \cap txn[o].removed = {}
  <2> SUFFICES ASSUME NEW o \in Workers, o # w PROVE t.removed \cap txn[o].removed = {}
    OBVIOUS
  <2>1. q.removed \cap txn[o].removed = {}
    BY DEF StoreInv
  <2>2. seen[w] \cap txn[o].removed = {}
    <3>1. CASE Running(o)
      BY <1>1, <3>1 DEF Blocked, WaitsFor, RowsNeeded
    <3>2. CASE ~Running(o)
      BY <3>2 DEF KeyInv, LockDiscipline, Disciplined, Running
    <3> QED BY <3>1, <3>2
  <2> QED BY <1>3, <2>1, <2>2
<1>8. Own(w, t, {}, restarted[w])
  BY <1>1, Same DEF Own
<1> HIDE DEF t
<1>9. LoadedOK(t, {}, secrets)
  BY <1>3, <1>4 DEF SessionOK, LoadedOK
<1>10. NumbersOK(t, restarted[w], secrets)
  BY <1>3, <1>4, <1>5 DEF SessionOK, NumbersOK
<1>11. ASSUME NEW r \in q.added PROVE WrittenOK(t, r, secrets)
  <2>1. WrittenOK(q, r, secrets)
    BY <1>4 DEF SessionOK, KeepsOK
  <2>2. \A j \in DOMAIN t.todo : t.todo[j].key # r.key
    BY <1>3, <1>6, <2>1 DEF WrittenOK
  <2>3. RetainsOK(t, r, secrets)
    <3> HIDE DEF q
    <3> QED BY <1>3, <2>1 DEF WrittenOK, RetainsOK
  <2> QED BY <1>3, <2>1, <2>2, <2>3 DEF WrittenOK
<1>12. KeepsOK(t, secrets, clock)
  BY <1>3, <1>4, <1>5, <1>11 DEF SessionOK, KeepsOK
<1>13. SessionOK(t, {}, restarted[w], secrets, clock)
  BY <1>9, <1>10, <1>12 DEF SessionOK
<1> QED BY <1>7, <1>8, <1>13, OwnStep

LEMMA CommittedSame ==
  ASSUME NEW t \in Txn, NEW r \in Row
  PROVE  /\ Committed(t, r).key = r.key /\ Committed(t, r).version = r.version
         /\ r \notin t.archiving \cup t.rekeyed => Committed(t, r) = r
         /\ ~Committed(t, r).archived => r \notin t.archiving /\ ~r.archived
<1>1. r.archived \in BOOLEAN
  BY DEF Row
<1> DEFINE a == r.archived \/ r \in t.archiving
           c == [r EXCEPT !.archived = a,
                  !.keyVersion = IF r \in t.rekeyed THEN t.keyVersion ELSE @,
                  !.updated = IF r \in t.archiving \cup t.rekeyed THEN t.start ELSE @]
<1>2. Committed(t, r) = c
  BY DEF Committed
<1>3. /\ a \in BOOLEAN /\ (r \notin t.archiving \cup t.rekeyed => a = r.archived)
      /\ ~a => r \notin t.archiving /\ ~r.archived
  BY <1>1
<1> HIDE DEF a
<1>4. c.key = r.key /\ c.version = r.version /\ c.archived = a
      /\ (r \notin t.archiving \cup t.rekeyed => c = r)
  BY <1>3 DEF Row
<1> HIDE DEF c
<1> QED BY <1>2, <1>3, <1>4

(* While a request commits, no other has encrypted or rotated anything. *)
LEMMA OthersHaveNothing ==
  ASSUME TypeOK, KeyInv, NEW w \in Workers, Commit(w), NEW o \in Workers, o # w
  PROVE  /\ txn[o].added = {} /\ txn[o].archiving = {} /\ txn[o].rekeyed = {}
         /\ ~Running(o) => txn[o].todo = <<>> /\ txn[o].removed = {}
         /\ txn'[o] = txn[o]
<1>1. projectLock \in {None, w} /\ txn' = [txn EXCEPT ![w] = Idle]
  BY DEF Commit, ProjectFree, NeedsProject, Finish
<1>2. Disciplined(o) /\ projectLock # o
  BY <1>1, NoneAssumption DEF KeyInv, LockDiscipline
<1>3. txn[o].keyVersion = 0 /\ txn[o].op # "rotate"
  BY <1>2 DEF Disciplined, TypeOK
<1> QED BY <1>1, <1>2, <1>3 DEF Disciplined, TypeOK, Running

(* Nothing that a commit changes is locked by another's deletion. *)
LEMMA RemovedApart ==
  ASSUME TypeOK, KeyInv, StoreInv, NEW w \in Workers, Commit(w), NEW o \in Workers, o # w,
         NEW r \in txn[o].removed
  PROVE  r \in secrets /\ r \notin txn[w].removed \cup txn[w].archiving \cup txn[w].rekeyed
<1>1. r \in secrets /\ r \notin txn[w].removed
  BY DEF StoreInv, SessionOK, LoadedOK
<1>2. Running(o)
  BY DEF KeyInv, LockDiscipline, Disciplined, Running
<1>3. ~Blocked(w) /\ Running(w) /\ Needs(w) = "commit"
  BY DEF Commit
<1>4. RowsNeeded(w) = txn[w].archiving \cup txn[w].rekeyed
  BY <1>3 DEF RowsNeeded
<1>5. RowsNeeded(w) \cap txn[o].removed = {}
  BY <1>2, <1>3 DEF Blocked, WaitsFor
<1> QED BY <1>1, <1>4, <1>5

(* The table after a commit. *)
LEMMA CommitTable ==
  ASSUME TypeOK, KeyInv, StoreInv, NEW w \in Workers, Commit(w)
  PROVE  TableOK(secrets')
<1> DEFINE t == txn[w]
           rows == (secrets \ t.removed) \cup t.added
<1>1. secrets' = {Committed(t, r) : r \in rows}
  BY DEF Commit
<1>2. t \in Txn /\ rows \subseteq Row
  BY DEF TypeOK, Txn
<1>3. IsFiniteSet(rows)
  <2>1. IsFiniteSet(secrets \ t.removed) /\ IsFiniteSet(t.added)
    BY FS_Subset DEF StoreInv, TableOK, SessionOK, KeepsOK
  <2> QED BY <2>1, FS_Union
<1>4. \A r, s \in rows : r.key = s.key /\ r.version = s.version => r = s
  <2>1. \A r \in t.added : WrittenOK(t, r, secrets)
    BY DEF StoreInv, SessionOK, KeepsOK
  <2>2. \A r \in t.added, s \in secrets : r.key = s.key => r.version # s.version
    BY <2>1 DEF WrittenOK, RowsOf
  <2>3. \A r, s \in t.added : r.key = s.key => r = s
    BY <2>1 DEF WrittenOK
  <2>4. \A r, s \in secrets : r.key = s.key /\ r.version = s.version => r = s
    BY DEF StoreInv, TableOK
  <2> QED BY <2>2, <2>3, <2>4
<1> HIDE DEF rows, t
<1>5. \A r \in rows : Committed(t, r).key = r.key /\ Committed(t, r).version = r.version
  BY <1>2, CommittedSame
<1>6. IsFiniteSet(secrets')
  <2> DEFINE f == [r \in rows |-> Committed(t, r)]
  <2>1. f \in Surjection(rows, secrets')
    BY <1>1 DEF Surjection
  <2> QED BY <1>3, <2>1, FS_Surjection
<1> QED BY <1>1, <1>4, <1>5, <1>6 DEF TableOK

(* What another has planned keeps its number, is refused, or is restarted. *)
LEMMA CommitPlanned ==
  ASSUME TypeOK, KeyInv, StoreInv, NEW w \in Workers, Commit(w), NEW o \in Workers, o # w,
         Running(o), NEW i, PlannedOK(i, restarted[o], secrets)
  PROVE  PlannedOK(i, restarted'[o], secrets')
<1> DEFINE t == txn[w]
           rows == (secrets \ t.removed) \cup t.added
<1>1. /\ secrets' = {Committed(t, r) : r \in rows}
      /\ restarted'[o] = restarted[o] \cup Restarts(w)
  BY DEF Commit
<1>2. t \in Txn /\ rows \subseteq Row /\ secrets \in SUBSET Row
  BY DEF TypeOK, Txn
<1>3. \A r \in t.added : r.key \notin restarted[w] => Follows(secrets, r.key, r.version)
  BY DEF StoreInv, SessionOK, NumbersOK
<1> SUFFICES ASSUME i.kind = "write", i.key \notin restarted'[o]
             PROVE  \/ Follows(secrets', i.key, i.version)
                    \/ \E r \in RowsOf(secrets', i.key) : r.version = i.version
  BY DEF PlannedOK
<1>4. /\ i.key \notin restarted[o]
      /\ \A r \in t.removed : r.key # i.key
      /\ \A r \in t.added : r.key = i.key => r.key \notin restarted[w]
  BY <1>1 DEF Restarts
<1>5. \/ Follows(secrets, i.key, i.version)
      \/ \E r \in RowsOf(secrets, i.key) : r.version = i.version
  BY <1>4 DEF PlannedOK
<1>6. \A r \in RowsOf(secrets, i.key) : r \in rows /\ r.key = i.key
  BY <1>4 DEF RowsOf
<1>7. \A r \in rows : /\ Committed(t, r) \in secrets'
                      /\ Committed(t, r).key = r.key /\ Committed(t, r).version = r.version
  <2> HIDE DEF rows, t
  <2> QED BY <1>1, <1>2, CommittedSame
<1>8. CASE \E r \in RowsOf(secrets, i.key) : r.version = i.version
  <2> HIDE DEF rows, t
  <2> QED BY <1>6, <1>7, <1>8 DEF RowsOf
<1>9. CASE Follows(secrets, i.key, i.version)
  <2>1. CASE \E r \in t.added : r.key = i.key
    <3>1. PICK r \in t.added : r.key = i.key
      BY <2>1
    <3>2. Follows(secrets, i.key, r.version)
      BY <1>3, <1>4, <3>1
    <3>3. r.version = i.version
      BY <1>2, <1>9, <3>2, FollowsOnce
    <3>4. r \in rows
      OBVIOUS
    <3> HIDE DEF rows, t
    <3> QED BY <1>7, <3>1, <3>3, <3>4 DEF RowsOf
  <2>2. CASE ~\E r \in t.added : r.key = i.key
    <3>1. \A x \in RowsOf(secrets', i.key) :
            \E r \in RowsOf(secrets, i.key) : r.version = x.version
      <4> SUFFICES ASSUME NEW x \in secrets', x.key = i.key
                   PROVE  \E r \in RowsOf(secrets, i.key) : r.version = x.version
        BY DEF RowsOf
      <4>1. PICK r \in rows : x = Committed(t, r)
        BY <1>1
      <4>2. r.key = i.key /\ r.version = x.version
        <5> HIDE DEF rows, t
        <5> QED BY <1>7, <4>1
      <4>3. r \in secrets
        BY <2>2, <4>2
      <4> QED BY <4>2, <4>3 DEF RowsOf
    <3>2. \A r \in RowsOf(secrets, i.key) :
            \E x \in RowsOf(secrets', i.key) : x.version = r.version
      <4> HIDE DEF rows, t
      <4> QED BY <1>6, <1>7 DEF RowsOf
    <3> QED BY <1>9, <3>1, <3>2 DEF Follows
  <2> QED BY <2>1, <2>2
<1> QED BY <1>5, <1>8, <1>9

LEMMA CommitStoreInv ==
  ASSUME TypeOK, KeyInv, StoreInv, NEW w \in Workers, Commit(w)
  PROVE  StoreInv'
<1> DEFINE t == txn[w]
           rows == (secrets \ t.removed) \cup t.added
<1>1. /\ secrets' = {Committed(t, r) : r \in rows} /\ clock' = clock
      /\ \A o \in Workers : seen'[o] = {Committed(t, r) : r \in seen[o] \ t.removed}
      /\ txn'[w] = Idle /\ Running(w)
  BY DEF Commit, Finish, TypeOK
<1>2. t \in Txn /\ rows \subseteq Row /\ secrets \in SUBSET Row
  BY DEF TypeOK, Txn
<1>3. TableOK(secrets')
  BY CommitTable
<1>4. ASSUME NEW o \in Workers PROVE seen'[o] \subseteq secrets'
  BY <1>1, SeenThere
<1>5. Idle.removed = {} /\ SessionOK(Idle, seen'[w], restarted'[w], secrets', clock')
  <2>1. /\ Idle.added = {} /\ Idle.archiving = {} /\ Idle.removed = {} /\ Idle.rekeyed = {}
        /\ Idle.todo = <<>> /\ Idle.start =< clock'
    BY <1>1 DEF Idle, IdleTxn, TypeOK
  <2> QED BY <1>4, <2>1, BlankOK
<1>6. ASSUME NEW o \in Workers, o # w
      PROVE  SessionOK(txn[o], seen'[o], restarted'[o], secrets', clock')
  <2> DEFINE q == txn[o]
  <2>1. /\ q.added = {} /\ q.archiving = {} /\ q.rekeyed = {}
        /\ ~Running(o) => q.todo = <<>> /\ q.removed = {}
    BY <1>6, OthersHaveNothing
  <2>2. q.removed \subseteq secrets'
    <3> SUFFICES ASSUME NEW r \in q.removed PROVE r \in secrets'
      OBVIOUS
    <3>1. r \in secrets /\ r \notin t.removed \cup t.archiving \cup t.rekeyed
      BY <1>6, RemovedApart
    <3>2. r \in rows /\ r \in Row
      BY <1>2, <3>1
    <3>3. Committed(t, r) = r
      <4> HIDE DEF rows, t
      <4> QED BY <1>2, <3>1, <3>2, CommittedSame
    <3> HIDE DEF rows, t
    <3> QED BY <1>1, <3>2, <3>3
  <2>3. LoadedOK(q, seen'[o], secrets')
    BY <1>4, <2>1, <2>2 DEF LoadedOK
  <2>4. KeepsOK(q, secrets, clock) /\ NumbersOK(q, restarted[o], secrets)
    BY DEF StoreInv, SessionOK
  <2>5. \A j \in DOMAIN q.todo : PlannedOK(q.todo[j], restarted'[o], secrets')
    <3> SUFFICES ASSUME NEW j \in DOMAIN q.todo
                 PROVE  PlannedOK(q.todo[j], restarted'[o], secrets')
      OBVIOUS
    <3>1. Running(o)
      BY <2>1
    <3>2. PlannedOK(q.todo[j], restarted[o], secrets)
      BY <2>4 DEF NumbersOK
    <3> QED BY <1>6, <3>1, <3>2, CommitPlanned
  <2> HIDE DEF q
  <2>6. NumbersOK(q, restarted'[o], secrets')
    BY <2>1, <2>5 DEF NumbersOK
  <2>7. KeepsOK(q, secrets', clock')
    BY <1>1, <2>1, <2>4 DEF KeepsOK
  <2> QED BY <2>3, <2>6, <2>7 DEF SessionOK, q
<1>7. \A o \in Workers : o # w => txn'[o] = txn[o]
  BY OthersHaveNothing
<1>8. \A o \in Workers : SessionOK(txn'[o], seen'[o], restarted'[o], secrets', clock')
  BY <1>1, <1>5, <1>6, <1>7
<1>9. \A o, p \in Workers : o # p => txn'[o].removed \cap txn'[p].removed = {}
  BY <1>1, <1>5, <1>7 DEF StoreInv
<1> QED BY <1>3, <1>8, <1>9 DEF StoreInv

LEMMA StoreInvInit == Init => StoreInv
<1> SUFFICES ASSUME Init PROVE StoreInv
  OBVIOUS
<1>1. TableOK(secrets)
  <2>1. CASE secrets = {}
    BY <2>1, FS_EmptySet DEF TableOK
  <2>2. CASE \E r : secrets = {r}
    BY <2>2, FS_Singleton DEF TableOK
  <2>3. secrets = {} \/ \E r : secrets = {r}
    BY DEF Init
  <2> QED BY <2>1, <2>2, <2>3
<1>2. /\ Idle.added = {} /\ Idle.archiving = {} /\ Idle.removed = {} /\ Idle.rekeyed = {}
      /\ Idle.todo = <<>> /\ Idle.start =< clock
  BY DEF Init, Idle, IdleTxn
<1>3. ASSUME NEW w \in Workers
      PROVE  txn[w] = Idle /\ SessionOK(txn[w], seen[w], restarted[w], secrets, clock)
  <2>1. txn[w] = Idle /\ seen[w] \subseteq secrets
    BY DEF Init
  <2> QED BY <1>2, <2>1, BlankOK
<1> QED BY <1>1, <1>2, <1>3 DEF StoreInv

LEMMA StoreInvNext == TypeOK /\ KeyInv /\ StoreInv /\ [Next]_vars => StoreInv'
<1> SUFFICES ASSUME TypeOK, KeyInv, StoreInv, [Next]_vars PROVE StoreInv'
  OBVIOUS
<1>1. ASSUME NEW w \in Workers, Conflict(w) \/ DeleteMissing(w) \/ Abort(w) PROVE StoreInv'
  BY <1>1, FinishStoreInv DEF Conflict, DeleteMissing, Abort
<1>2. ASSUME NEW w \in Workers, LockProject(w) PROVE StoreInv'
  BY <1>2 DEF LockProject, StoreInv
<1>3. ASSUME NEW w \in Workers, Progress(w) PROVE StoreInv'
  BY <1>1, <1>2, <1>3, ReadStoreInv, WriteItemStoreInv, SelectRowsStoreInv,
     DeleteItemStoreInv, CommitStoreInv DEF Progress, DeadlockAbort
<1>4. CASE SetRetention \/ UNCHANGED vars
  <2>1. UNCHANGED <<secrets, clock, txn, seen, restarted>>
    BY <1>4 DEF SetRetention, vars
  <2> QED BY <2>1 DEF StoreInv
<1>5. CASE Tick
  <2>1. UNCHANGED <<secrets, txn, seen, restarted>> /\ clock' = clock + 1 /\ clock \in Nat
        /\ \A w \in Workers : txn[w].start \in Nat
    BY <1>5 DEF Tick, TypeOK, Txn
  <2>2. ASSUME NEW w \in Workers PROVE SessionOK(txn[w], seen[w], restarted[w], secrets, clock')
    BY <2>1 DEF StoreInv, SessionOK, KeepsOK
  <2> QED BY <2>1, <2>2 DEF StoreInv
<1> QED BY <1>1, <1>3, <1>4, <1>5, StartStoreInv DEF Next

LEMMA StoreInvariant == Spec => [](TypeOK /\ KeyInv /\ StoreInv)
<1>1. Spec => []KeyInv
  BY TypeCorrect, KeyInvInit, KeyInvNext, PTL DEF Spec
<1> QED BY <1>1, TypeCorrect, StoreInvInit, StoreInvNext, PTL DEF Spec

(* Nothing that a request has loaded in order to archive, re-encrypt or       *)
(* delete it vanishes or changes before it commits.                          *)
THEOREM RowsStillThereHolds == Spec => []RowsStillThere
<1>1. StoreInv => RowsStillThere
  BY DEF StoreInv, SessionOK, LoadedOK, RowsStillThere
<1> QED BY <1>1, StoreInvariant, PTL

(* No update is lost: a version that is about to be committed comes right    *)
(* after the latest one, the unique index being what refuses it otherwise,    *)
(* unless a deletion restarted the numbers of its secret.                     *)
THEOREM NoLostUpdateHolds == Spec => []NoLostUpdate
<1>1. TypeOK /\ StoreInv => NoLostUpdate
  <2> SUFFICES ASSUME TypeOK, StoreInv, NEW w \in Workers, NEW r \in txn[w].added,
                      r.key \notin restarted[w]
               PROVE  r.version = NextVersion(r.key)
    BY DEF NoLostUpdate
  <2>1. Follows(secrets, r.key, r.version)
    BY DEF StoreInv, SessionOK, NumbersOK
  <2>2. r.key \in Keys
    BY DEF TypeOK, Txn, Row
  <2> QED BY <2>1, <2>2, NextFollows
<1> QED BY <1>1, StoreInvariant, PTL

-----------------------------------------------------------------------------
(* The versions with fewer than n newer ones are at most n.                  *)
LEMMA FewRemain ==
  ASSUME NEW live \in SUBSET Row, IsFiniteSet(live), NEW n \in Nat,
         \A r, s \in live : r.version = s.version => r = s,
         NEW kept \in SUBSET live, \A s \in kept : Index(live, s) < n
  PROVE  IsFiniteSet(kept) /\ Cardinality(kept) =< n
<1>1. IsFiniteSet(kept)
  BY FS_Subset
<1>2. CASE kept = {}
  BY <1>1, <1>2, FS_EmptySet
<1>3. CASE kept # {}
  <2> DEFINE V == {s.version : s \in kept}
             R == OpToRel(<, Nat)
  <2>1. \A s \in live : s.version \in Nat
    BY RowNumber
  <2>2. V \subseteq Nat /\ V # {}
    BY <1>3, <2>1
  <2>3. IsWellFoundedOn(R, Nat)
    BY NatLessThanWellFounded
  <2>4. PICK v \in V : \A u \in V : ~ (<<u, v>> \in R)
    <3> HIDE DEF R, V
    <3> QED BY <2>2, <2>3, WFMin
  <2>5. \A u \in V : ~(u < v)
    BY <2>2, <2>4 DEF OpToRel
  <2>6. PICK s \in kept : s.version = v
    OBVIOUS
  <2> DEFINE newer == {x \in live : x.version > s.version}
  <2>7. IsFiniteSet(newer) /\ Cardinality(newer) \in Nat
    <3>1. newer \in SUBSET live
      OBVIOUS
    <3> HIDE DEF newer
    <3> QED BY <3>1, FS_Subset, FS_CardinalityType
  <2>8. kept \subseteq newer \cup {s}
    <3> SUFFICES ASSUME NEW x \in kept, x # s PROVE x.version > s.version
      OBVIOUS
    <3>1. ~(x.version < s.version)
      BY <2>5, <2>6
    <3>2. x.version # s.version /\ x.version \in Nat /\ s.version \in Nat
      BY <2>1
    <3> QED BY <3>1, <3>2
  <2>9. Cardinality(newer) < n
    BY DEF Index
  <2> HIDE DEF newer
  <2>10. IsFiniteSet(newer \cup {s}) /\ Cardinality(newer \cup {s}) =< Cardinality(newer) + 1
    <3>1. Cardinality(newer \cup {s})
            = IF s \in newer THEN Cardinality(newer) ELSE Cardinality(newer) + 1
      BY <2>7, FS_AddElement
    <3>2. IsFiniteSet(newer \cup {s})
      BY <2>7, FS_AddElement
    <3> QED BY <2>7, <3>1, <3>2
  <2>11. Cardinality(kept) =< Cardinality(newer \cup {s}) /\ Cardinality(kept) \in Nat
         /\ Cardinality(newer \cup {s}) \in Nat
    BY <1>1, <2>8, <2>10, FS_Subset, FS_CardinalityType
  <2> QED BY <1>1, <2>7, <2>9, <2>10, <2>11
<1> QED BY <1>2, <1>3

(* What a commit leaves unarchived of a secret that the request wrote: the   *)
(* rows that were there when it wrote, and its own, but for those it         *)
(* archives.  A writer rotates nothing, so these rows are unchanged.         *)
LEMMA LiveAfterCommit ==
  ASSUME TypeOK, KeyInv, StoreInv, NEW w \in Workers, Commit(w), NEW r \in txn[w].added
  PROVE  LiveRows(secrets', r.key)
           \subseteq (LiveRows(secrets, r.key) \cup {r}) \ txn[w].archiving
<1> DEFINE t == txn[w]
           rows == (secrets \ t.removed) \cup t.added
<1>1. secrets' = {Committed(t, q) : q \in rows}
  BY DEF Commit
<1>2. t \in Txn /\ rows \subseteq Row
  BY DEF TypeOK, Txn
<1>3. t.rekeyed = {}
  BY DEF KeyInv, LockDiscipline, Disciplined
<1>4. \A q \in t.added : q.key = r.key => q = r
  BY DEF StoreInv, SessionOK, KeepsOK, WrittenOK
<1> SUFFICES ASSUME NEW s \in secrets', s.key = r.key, ~s.archived
             PROVE  s \in (LiveRows(secrets, r.key) \cup {r}) \ t.archiving
  BY DEF LiveRows, RowsOf
<1>5. PICK q \in rows : s = Committed(t, q)
  BY <1>1
<1>6. q \in Row
  BY <1>2
<1> HIDE DEF t, rows
<1>7. q.key = r.key /\ q \notin t.archiving /\ ~q.archived /\ s = q
  BY <1>2, <1>3, <1>5, <1>6, CommittedSame
<1>8. CASE q \in t.added
  BY <1>4, <1>7, <1>8
<1>9. CASE q \notin t.added
  <2>1. q \in secrets
    BY <1>9 DEF rows
  <2> QED BY <1>7, <2>1 DEF LiveRows, RowsOf
<1> QED BY <1>8, <1>9

(* Retention: a commit of new versions leaves of each secret it wrote at most *)
(* as many unarchived versions as its policy allows, and below the newest     *)
(* none that had outlived retain_days when the request began.  Rows it loaded *)
(* may have been archived only by itself, for it holds the project row.       *)
THEOREM RetentionIsRespected == Spec => RetentionRespected
<1>1. TypeOK /\ KeyInv /\ StoreInv /\ [Next]_vars
        => \A w \in Workers : \A r \in txn[w].added : Commit(w) =>
             LET p    == txn[w].policy
                 live == {s \in RowsOf(secrets', r.key) : ~s.archived}
             IN  /\ Cardinality(live) =< (IF p.versions > 1 THEN p.versions ELSE 1)
                 /\ p.age # NoAge => \A s \in live :
                      IsLatest(live, s) \/ s.updated >= txn[w].start - p.age
  <2> SUFFICES ASSUME TypeOK, KeyInv, StoreInv, NEW w \in Workers, NEW r \in txn[w].added,
                      Commit(w)
               PROVE  /\ Cardinality(LiveRows(secrets', r.key)) =< Limit(txn[w].policy)
                      /\ txn[w].policy.age # NoAge => \A s \in LiveRows(secrets', r.key) :
                           \/ IsLatest(LiveRows(secrets', r.key), s)
                           \/ s.updated >= txn[w].start - txn[w].policy.age
    BY DEF LiveRows, Limit
  <2> DEFINE t == txn[w]
             all == LiveRows(secrets, r.key) \cup {r}
             live == LiveRows(secrets', r.key)
  <2>1. live \subseteq all \ t.archiving
    BY LiveAfterCommit
  <2>2. t \in Txn /\ r \in Row /\ all \subseteq Row /\ r.key \in Keys
    BY RowNumber DEF TypeOK, Txn, LiveRows, RowsOf
  <2>3. WrittenOK(t, r, secrets)
    BY DEF StoreInv, SessionOK, KeepsOK
  <2>4. \A s \in all \ t.archiving :
          /\ Index(all, s) < Limit(t.policy)
          /\ \/ Index(all, s) = 0 \/ t.policy.age = NoAge
             \/ s.updated >= t.start - t.policy.age
    BY <2>3 DEF WrittenOK, RetainsOK
  <2>5. IsFiniteSet(all)
    BY LiveFinite
  <2>6. \A q, s \in all : q.version = s.version => q = s
    BY <2>3 DEF StoreInv, TableOK, WrittenOK, LiveRows, RowsOf
  <2>7. Limit(t.policy) \in Nat
    BY <2>2, PolicyFacts
  <2> HIDE DEF all, live, t
  <2>8. Cardinality(live) =< Limit(t.policy)
    BY <2>1, <2>2, <2>4, <2>5, <2>6, <2>7, FewRemain
  <2>9. ASSUME NEW s \in live, Index(all, s) = 0 PROVE IsLatest(live, s)
    <3> DEFINE newer == {x \in all : x.version > s.version}
    <3>1. newer \in SUBSET all /\ Cardinality(newer) = 0
      BY <2>9 DEF Index
    <3>2. newer = {}
      <4> HIDE DEF newer
      <4> QED BY <2>5, <3>1, FS_Subset, FS_EmptySet
    <3>3. \A x \in live : x.version \in Nat /\ s.version \in Nat /\ ~(x.version > s.version)
      BY <2>1, <2>2, <3>2, RowNumber
    <3> QED BY <3>3 DEF IsLatest, RowsOf
  <2>10. t.policy.age # NoAge => \A s \in live :
           IsLatest(live, s) \/ s.updated >= t.start - t.policy.age
    BY <2>1, <2>4, <2>9
  <2> QED BY <2>8, <2>10 DEF live, t
<1> QED BY <1>1, StoreInvariant, PTL DEF Spec, RetentionRespected

=============================================================================
