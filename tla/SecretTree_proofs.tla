--------------------------- MODULE SecretTree_proofs ---------------------------
(***************************************************************************)
(* For any tree of places, any values and any numbers of requests: what rows *)
(* and requests hold, that what is in the tree has its folders above it, and *)
(* that a read finds what is there and fails exactly when there is a cycle.   *)
(***************************************************************************)
EXTENDS SecretTree, FiniteSetTheorems, SequenceTheorems, WellFoundedInduction, TLAPS

Inserts == {"write", "folder", "import"}

(* A request that inserts has the folders on its way, or has read them, but   *)
(* for those taken by mistake, or has overlapped with a deletion.             *)
InsertOK(q, folds, cross, gone) ==
  q.op \in Inserts =>
    /\ q.rows \subseteq Chain(q.place)
    /\ q.place \notin cross => Chain(q.place) \subseteq folds \cup q.rows \cup Mistaken(gone)

(* One that deletes has read all that is below its folder, but for what       *)
(* requests that overlapped with it have inserted.                            *)
DeletionOK(q, folds, values, cross) ==
  q.op = "delete folder" =>
    /\ q.rows \subseteq Within(q.place) \cup Mistaken({q.place})
    /\ \A x \in Within(q.place) \ cross :
         /\ \A k \in Keys : values[x, k] = NoSecret
         /\ x \in folds => x \in q.rows

OverlapOK(q, r, cross) ==
  q.op \in Inserts /\ r.op = "delete folder" /\ q.place \in Within(r.place) =>
    Parents(q.place) \subseteq cross

FoldersKept(folds, values, cross, gone) ==
  \A p \in Places \ cross :
    p \in folds \/ (\E k \in Keys : values[p, k] # NoSecret) => Chain(p) \subseteq folds \cup Mistaken(gone)

TreeOK(folds, values, ds, cross, gone) ==
  /\ \A p \in cross : Parents(p) \subseteq cross
  /\ \A d \in Drafts : InsertOK(ds[d], folds, cross, gone) /\ DeletionOK(ds[d], folds, values, cross)
  /\ \A d, e \in Drafts : OverlapOK(ds[d], ds[e], cross)
  /\ FoldersKept(folds, values, cross, gone)

TreeInv ==
  /\ TreeTypeOK
  /\ TreeOK(folders, held, drafts, crossed, deleted)

LEMMA BelowIsOrder ==
  ASSUME NEW p \in Places
  PROVE  /\ p \in Parents(p) /\ p \in Within(p)
         /\ \A q \in Parents(p) : /\ Parents(q) \subseteq Parents(p) /\ Chain(q) \subseteq Chain(p)
                                  /\ p \in Within(q)
         /\ \A q \in Within(p) : Within(q) \subseteq Within(p) /\ p \in Parents(q)
<1>1. \A x \in Places : Len(x) \in Nat /\ Below(x, x)
  BY PlacesAssumption DEF Below
<1>2. ASSUME NEW x \in Places, NEW y \in Places, NEW z \in Places, Below(x, y), Below(y, z)
      PROVE  Below(x, z)
  <2>1. Len(x) =< Len(y) /\ Len(y) =< Len(z)
    BY <1>2 DEF Below
  <2>2. ASSUME NEW i \in 1 .. Len(x) PROVE x[i] = z[i]
    <3>1. i \in 1 .. Len(y)
      BY <1>1, <2>1
    <3> QED BY <1>2, <3>1 DEF Below
  <2> QED BY <1>1, <2>1, <2>2 DEF Below
<1>3. \A q \in Parents(p) : q \in Places /\ Below(q, p)
  BY DEF Parents
<1>4. \A q \in Within(p) : q \in Places /\ Below(p, q)
  BY DEF Within
<1>5. \A q \in Parents(p) : Parents(q) \subseteq Parents(p)
  BY <1>2 DEF Parents
<1>6. \A q \in Within(p) : Within(q) \subseteq Within(p)
  BY <1>2 DEF Within
<1> QED BY <1>1, <1>3, <1>4, <1>5, <1>6 DEF Parents, Within, Chain

(* The folders, the values and what requests have read, at any state of the   *)
(* tree.                                                                     *)
TreeTyped(folds, values, ds, cross) ==
  /\ folds \subseteq Places /\ cross \subseteq Places
  /\ ds \in [Drafts -> Draft]

LEMMA DraftPlace == \A q \in Draft : q.place \in Places
BY DEF Draft

(* A request ends that has changed nothing but what it held. *)
LEMMA DraftEnds ==
  ASSUME NEW folds, NEW values, NEW ds, NEW cross, NEW gone, TreeTyped(folds, values, ds, cross),
         TreeOK(folds, values, ds, cross, gone), NEW d \in Drafts, NEW none \in Draft,
         none.op = "none", NEW after, after = [ds EXCEPT ![d] = none]
  PROVE  TreeOK(folds, values, after, cross, gone)
<1>1. after[d] = none /\ \A e \in Drafts \ {d} : after[e] = ds[e]
  BY DEF TreeTyped
<1>2. \A e \in Drafts : InsertOK(after[e], folds, cross, gone) /\ DeletionOK(after[e], folds, values, cross)
  BY <1>1 DEF TreeOK, InsertOK, DeletionOK, Inserts
<1>3. \A e, f \in Drafts : OverlapOK(after[e], after[f], cross)
  BY <1>1 DEF TreeOK, OverlapOK, Inserts
<1> QED BY <1>2, <1>3 DEF TreeOK

(* One begins; what it overlaps with is recorded. *)
LEMMA DraftBegins ==
  ASSUME NEW folds, NEW values, NEW ds, NEW cross, NEW gone, TreeTyped(folds, values, ds, cross),
         TreeOK(folds, values, ds, cross, gone), NEW d \in Drafts, NEW draft \in Draft,
         NEW wider \in SUBSET Places, cross \subseteq wider,
         \A p \in wider : Parents(p) \subseteq wider,
         InsertOK(draft, folds, wider, gone), DeletionOK(draft, folds, values, wider),
         \A e \in Drafts : OverlapOK(draft, ds[e], wider) /\ OverlapOK(ds[e], draft, wider),
         NEW after, after = [ds EXCEPT ![d] = draft]
  PROVE  TreeOK(folds, values, after, wider, gone)
<1>1. after[d] = draft /\ \A e \in Drafts \ {d} : after[e] = ds[e]
  BY DEF TreeTyped
<1>2. \A e \in Drafts : InsertOK(ds[e], folds, wider, gone) /\ DeletionOK(ds[e], folds, values, wider)
  BY DEF TreeOK, InsertOK, DeletionOK
<1>3. \A e, f \in Drafts : OverlapOK(ds[e], ds[f], wider)
  BY DEF TreeOK, OverlapOK
<1>4. FoldersKept(folds, values, wider, gone)
  BY DEF TreeOK, FoldersKept
<1>5. OverlapOK(draft, draft, wider)
  BY DEF OverlapOK, Inserts
<1>6. \A e, f \in Drafts : OverlapOK(after[e], after[f], wider)
  BY <1>1, <1>3, <1>5
<1>7. \A e \in Drafts : InsertOK(after[e], folds, wider, gone) /\ DeletionOK(after[e], folds, values, wider)
  BY <1>1, <1>2
<1> QED BY <1>4, <1>6, <1>7 DEF TreeOK

(* A value may be written at a place; the others stay. *)
Elsewhere(p, values, after) ==
  \A x \in Places, k \in Keys : x # p => after[x, k] = values[x, k]

(* The folders that a request found missing are inserted, with a value at     *)
(* their end or without one.                                                 *)
LEMMA FoldersAppear ==
  ASSUME NEW folds, NEW values, NEW ds, NEW cross, NEW gone, TreeTyped(folds, values, ds, cross),
         TreeOK(folds, values, ds, cross, gone), NEW d \in Drafts, ds[d].op \in Inserts,
         NEW more, more = folds \cup ds[d].rows, NEW set,
         Elsewhere(ds[d].place, values, set)
  PROVE  TreeOK(more, set, ds, cross, gone) /\ more \subseteq Places
<1> DEFINE p == ds[d].place
<1>1. p \in Places /\ ds[d] \in Draft
  BY DraftPlace DEF TreeTyped
<1>2. /\ ds[d].rows \subseteq Chain(p)
      /\ p \notin cross => Chain(p) \subseteq more \cup Mistaken(gone)
  BY DEF TreeOK, InsertOK
<1>3. Chain(p) \subseteq Parents(p) /\ Parents(p) \subseteq Places
  BY DEF Chain, Parents
<1>4. more \subseteq Places /\ folds \subseteq more
  BY <1>2, <1>3 DEF TreeTyped
<1>5. \A x \in Parents(p) \ cross : p \notin cross
  BY DEF TreeOK
<1>6. ASSUME NEW e \in Drafts
      PROVE  InsertOK(ds[e], more, cross, gone) /\ DeletionOK(ds[e], more, set, cross)
  <2>1. InsertOK(ds[e], folds, cross, gone) /\ DeletionOK(ds[e], folds, values, cross)
        /\ OverlapOK(ds[d], ds[e], cross)
    BY DEF TreeOK
  <2>2. InsertOK(ds[e], more, cross, gone)
    BY <1>4, <2>1 DEF InsertOK
  <2>3. CASE ds[e].op = "delete folder"
    <3>1. ds[e].place \in Places
      BY DraftPlace DEF TreeTyped
    <3>2. p \in Within(ds[e].place) => Parents(p) \subseteq cross
      BY <2>1, <2>3 DEF OverlapOK
    <3>3. ASSUME NEW x \in Within(ds[e].place) \ cross PROVE x \notin Parents(p)
      <4>1. SUFFICES ASSUME x \in Parents(p) PROVE FALSE
        OBVIOUS
      <4>2. p \in Within(x)
        BY <1>1, <4>1, BelowIsOrder
      <4>3. p \in Within(ds[e].place)
        BY <3>1, <4>2, BelowIsOrder
      <4> QED BY <3>2, <4>1, <4>3
    <3>4. ASSUME NEW x \in Within(ds[e].place) \ cross
          PROVE  /\ \A k \in Keys : set[x, k] = NoSecret
                 /\ x \in more => x \in ds[e].rows
      <4>1. x # p /\ x \notin ds[d].rows
        BY <1>1, <1>2, <1>3, <3>3, BelowIsOrder
      <4>2. x \in Places /\ (\A k \in Keys : values[x, k] = NoSecret)
            /\ (x \in folds => x \in ds[e].rows)
        BY <2>1, <2>3 DEF DeletionOK, Within
      <4> QED BY <4>1, <4>2 DEF Elsewhere
    <3>5. ds[e].rows \subseteq Within(ds[e].place) \cup Mistaken({ds[e].place})
      BY <2>1, <2>3 DEF DeletionOK
    <3> QED BY <2>2, <3>4, <3>5 DEF DeletionOK
  <2> QED BY <2>2, <2>3 DEF DeletionOK
<1>7. FoldersKept(more, set, cross, gone)
  <2> SUFFICES ASSUME NEW x \in Places \ cross,
                      x \in more \/ \E k \in Keys : set[x, k] # NoSecret
               PROVE  Chain(x) \subseteq more \cup Mistaken(gone)
    BY DEF FoldersKept
  <2>1. CASE x \in Parents(p)
    <3>1. Chain(x) \subseteq Chain(p) /\ p \notin cross
      BY <1>1, <1>5, <2>1, BelowIsOrder
    <3> QED BY <1>2, <3>1
  <2>2. CASE x \notin Parents(p)
    <3>1. x # p /\ x \notin ds[d].rows
      BY <1>1, <1>2, <1>3, <2>2, BelowIsOrder
    <3>2. x \in folds \/ \E k \in Keys : values[x, k] # NoSecret
      BY <3>1 DEF Elsewhere
    <3> QED BY <1>4, <3>2 DEF TreeOK, FoldersKept
  <2> QED BY <2>1, <2>2
<1> QED BY <1>4, <1>6, <1>7 DEF TreeOK

(* A folder is deleted with those below it that were read. *)
LEMMA FoldersGo ==
  ASSUME NEW folds, NEW values, NEW ds, NEW cross, NEW gone, TreeTyped(folds, values, ds, cross),
         TreeOK(folds, values, ds, cross, gone), NEW d \in Drafts, ds[d].op = "delete folder",
         NEW less, less = folds \ ds[d].rows, NEW past, past = gone \cup {ds[d].place}
  PROVE  TreeOK(less, values, ds, cross, past) /\ less \subseteq Places
<1> DEFINE top == ds[d].place
<1>1. top \in Places /\ less \subseteq Places /\ less \subseteq folds
  BY DraftPlace DEF TreeTyped
<1>2. /\ ds[d].rows \subseteq Within(top) \cup Mistaken({top})
      /\ \A x \in Within(top) \ cross :
           /\ \A k \in Keys : values[x, k] = NoSecret
           /\ x \in folds => x \in ds[d].rows
  BY DEF TreeOK, DeletionOK
<1>3. Mistaken({top}) \subseteq Mistaken(past) /\ Mistaken(gone) \subseteq Mistaken(past)
  BY DEF Mistaken
<1>4. ASSUME NEW p \in Places, NEW x \in Chain(p), x \in ds[d].rows
      PROVE  p \in Within(top) \/ x \in Mistaken(past)
  <2> SUFFICES ASSUME x \notin Mistaken(past) PROVE p \in Within(top)
    OBVIOUS
  <2>1. x \in Parents(p) /\ x \in Within(top)
    BY <1>2, <1>4, <1>3 DEF Chain
  <2>2. p \in Within(x)
    BY <2>1, BelowIsOrder
  <2> QED BY <1>1, <2>1, <2>2, BelowIsOrder
<1>5. ASSUME NEW e \in Drafts
      PROVE  InsertOK(ds[e], less, cross, past) /\ DeletionOK(ds[e], less, values, cross)
  <2>1. InsertOK(ds[e], folds, cross, gone) /\ DeletionOK(ds[e], folds, values, cross)
        /\ OverlapOK(ds[e], ds[d], cross) /\ ds[e].place \in Places
    BY DraftPlace DEF TreeOK, TreeTyped
  <2>2. DeletionOK(ds[e], less, values, cross)
    BY <1>1, <2>1 DEF DeletionOK
  <2>3. ASSUME ds[e].op \in Inserts, ds[e].place \notin cross
        PROVE  Chain(ds[e].place) \subseteq less \cup ds[e].rows \cup Mistaken(past)
    <3>1. ds[e].place \in Parents(ds[e].place)
      BY <2>1, BelowIsOrder
    <3>2. ds[e].place \notin Within(top)
      BY <2>1, <2>3, <3>1 DEF OverlapOK
    <3>3. Chain(ds[e].place) \subseteq folds \cup ds[e].rows \cup Mistaken(past)
      BY <1>3, <2>1, <2>3 DEF InsertOK
    <3> QED BY <1>4, <2>1, <3>2, <3>3
  <2> QED BY <2>1, <2>2, <2>3 DEF InsertOK
<1>6. FoldersKept(less, values, cross, past)
  <2> SUFFICES ASSUME NEW p \in Places \ cross,
                      p \in less \/ \E k \in Keys : values[p, k] # NoSecret
               PROVE  Chain(p) \subseteq less \cup Mistaken(past)
    BY DEF FoldersKept
  <2>1. Chain(p) \subseteq folds \cup Mistaken(past)
    BY <1>1, <1>3 DEF TreeOK, FoldersKept
  <2>2. p \notin Within(top)
    BY <1>2
  <2> QED BY <1>4, <2>1, <2>2
<1> QED BY <1>1, <1>5, <1>6 DEF TreeOK

(* There are no two imports of the same source to the same target. *)
RulesOK(rows) ==
  /\ rows \in Seq(Rule)
  /\ \A i, j \in DOMAIN rows :
       /\ i # j /\ rows[i].exists /\ rows[j].exists
       => rows[i].target # rows[j].target \/ rows[i].source # rows[j].source

LEMMA NoDraftIsDraft ==
  /\ NoDraft \in Draft /\ NoDraft.op = "none"
  /\ ThePlace \in Places
<1>1. \E p \in Places : TRUE
  BY PlacesAssumption
<1>2. ThePlace \in Places
  BY <1>1 DEF ThePlace
<1> QED BY <1>2 DEF NoDraft, Draft

LEMMA CrossesFacts ==
  ASSUME NEW p \in Places
  PROVE  /\ Crosses(p) \subseteq Parents(p) /\ Parents(p) \subseteq Places
         /\ \A e \in Drafts : drafts[e].op = "delete folder" /\ p \in Within(drafts[e].place) =>
              Parents(p) \subseteq Crosses(p)
         /\ \A x \in Crosses(p) : Parents(x) \subseteq Crosses(p)
<1>1. /\ Crosses(p) \subseteq Parents(p) /\ Parents(p) \subseteq Places
      /\ \A e \in Drafts : drafts[e].op = "delete folder" /\ p \in Within(drafts[e].place) =>
           Parents(p) \subseteq Crosses(p)
      /\ \A x \in Crosses(p) : Parents(p) = Crosses(p)
  BY DEF Crosses, Parents
<1>2. \A x \in Crosses(p) : Parents(x) \subseteq Crosses(p)
  <2> SUFFICES ASSUME NEW x \in Crosses(p) PROVE Parents(x) \subseteq Crosses(p)
    OBVIOUS
  <2>1. x \in Parents(p) /\ Parents(p) = Crosses(p)
    BY <1>1
  <2>2. Parents(x) \subseteq Parents(p)
    BY <2>1, BelowIsOrder
  <2> QED BY <2>1, <2>2
<1> QED BY <1>1, <1>2

LEMMA TreeBegins ==
  ASSUME TreeInv, NEW d \in Drafts, NEW draft \in Draft, Starts(d, draft),
         crossed' \in SUBSET Places, crossed \subseteq crossed',
         \A p \in crossed' : Parents(p) \subseteq crossed',
         InsertOK(draft, folders, crossed', deleted), DeletionOK(draft, folders, held, crossed'),
         \A e \in Drafts : OverlapOK(draft, drafts[e], crossed')
                           /\ OverlapOK(drafts[e], draft, crossed')
  PROVE  TreeInv'
<1>1. /\ edits' = edits + 1 /\ drafts' = [drafts EXCEPT ![d] = draft]
      /\ UNCHANGED <<folders, held, rules, unchecked, deleted>>
  BY DEF Starts
<1>2. /\ TreeTyped(folders, held, drafts, crossed) /\ TreeOK(folders, held, drafts, crossed, deleted)
      /\ edits \in Nat /\ drafts \in [Drafts -> Draft]
  BY DEF TreeInv, TreeTypeOK, TreeTyped
<1>3. TreeOK(folders, held, drafts', crossed', deleted)
  BY <1>1, <1>2, DraftBegins
<1>4. drafts' \in [Drafts -> Draft]
  BY <1>1, <1>2
<1>5. TreeTypeOK'
  BY <1>1, <1>2, <1>4 DEF TreeInv, TreeTypeOK
<1> QED BY <1>1, <1>3, <1>4, <1>5 DEF TreeInv

(* A request that inserts begins. *)
LEMMA InsertBegins ==
  ASSUME TreeInv, NEW d \in Drafts, NEW draft \in Draft, Starts(d, draft),
         draft.op \in Inserts, draft.rows = Chain(draft.place) \ folders,
         crossed' = crossed \cup Crosses(draft.place)
  PROVE  TreeInv'
<1> DEFINE p == draft.place
<1>1. p \in Places
  BY DraftPlace
<1>2. /\ Crosses(p) \subseteq Places
      /\ \A e \in Drafts : drafts[e].op = "delete folder" /\ p \in Within(drafts[e].place) =>
           Parents(p) \subseteq Crosses(p)
      /\ \A x \in Crosses(p) : Parents(x) \subseteq Crosses(p)
  BY <1>1, CrossesFacts
<1>3. /\ TreeOK(folders, held, drafts, crossed, deleted) /\ crossed \subseteq Places
  BY DEF TreeInv, TreeTypeOK
<1>4. /\ crossed' \in SUBSET Places /\ crossed \subseteq crossed'
      /\ \A x \in crossed' : Parents(x) \subseteq crossed'
  BY <1>2, <1>3 DEF TreeOK
<1>5. InsertOK(draft, folders, crossed', deleted) /\ DeletionOK(draft, folders, held, crossed')
  BY DEF InsertOK, DeletionOK, Inserts
<1>6. \A e \in Drafts : OverlapOK(draft, drafts[e], crossed') /\ OverlapOK(drafts[e], draft, crossed')
  BY <1>2 DEF OverlapOK, Inserts
<1> QED BY <1>4, <1>5, <1>6, TreeBegins

LEMMA WriteBegins ==
  ASSUME TreeInv, NEW d \in Drafts, WriteValue(d)
  PROVE  TreeInv'
<1>1. PICK p \in Places, k \in Keys :
        /\ Starts(d, [NoDraft EXCEPT !.op = "write", !.place = p, !.key = k,
                        !.seen = held[p, k], !.rows = Chain(p) \ folders])
        /\ crossed' = crossed \cup Crosses(p)
  BY DEF WriteValue
<1> DEFINE draft == [NoDraft EXCEPT !.op = "write", !.place = p, !.key = k,
                        !.seen = held[p, k], !.rows = Chain(p) \ folders]
<1>2. held[p, k] \in Values \cup {NoSecret} /\ Chain(p) \ folders \in SUBSET Places
  BY DEF TreeInv, TreeTypeOK, Chain, Parents
<1>3. draft \in Draft /\ draft.op = "write" /\ draft.place = p /\ draft.rows = Chain(p) \ folders
  BY <1>2, NoDraftIsDraft DEF Draft
<1>4. Starts(d, draft)
  BY <1>1
<1> HIDE DEF draft
<1> QED BY <1>1, <1>3, <1>4, InsertBegins DEF Inserts

LEMMA FolderBegins ==
  ASSUME TreeInv, NEW d \in Drafts, CreateFolder(d)
  PROVE  TreeInv'
<1>1. PICK p \in Places :
        /\ Starts(d, [NoDraft EXCEPT !.op = "folder", !.place = p, !.rows = Chain(p) \ folders])
        /\ crossed' = crossed \cup Crosses(p)
  BY DEF CreateFolder
<1> DEFINE draft == [NoDraft EXCEPT !.op = "folder", !.place = p, !.rows = Chain(p) \ folders]
<1>2. Chain(p) \ folders \in SUBSET Places
  BY DEF Chain, Parents
<1>3. draft \in Draft /\ draft.op = "folder" /\ draft.place = p /\ draft.rows = Chain(p) \ folders
  BY <1>2, NoDraftIsDraft DEF Draft
<1>4. Starts(d, draft)
  BY <1>1
<1> HIDE DEF draft
<1> QED BY <1>1, <1>3, <1>4, InsertBegins DEF Inserts

LEMMA ImportBegins ==
  ASSUME TreeInv, NEW d \in Drafts, CreateImport(d)
  PROVE  TreeInv'
<1>1. PICK p \in Places, q \in Places :
        /\ Starts(d, [NoDraft EXCEPT !.op = "import", !.place = p, !.source = q,
                        !.rows = Chain(p) \ folders])
        /\ crossed' = crossed \cup Crosses(p)
  BY DEF CreateImport
<1> DEFINE draft == [NoDraft EXCEPT !.op = "import", !.place = p, !.source = q,
                        !.rows = Chain(p) \ folders]
<1>2. Chain(p) \ folders \in SUBSET Places
  BY DEF Chain, Parents
<1>3. draft \in Draft /\ draft.op = "import" /\ draft.place = p /\ draft.rows = Chain(p) \ folders
  BY <1>2, NoDraftIsDraft DEF Draft
<1>4. Starts(d, draft)
  BY <1>1
<1> HIDE DEF draft
<1> QED BY <1>1, <1>3, <1>4, InsertBegins DEF Inserts

LEMMA DeletionBegins ==
  ASSUME TreeInv, NEW d \in Drafts, DeleteFolder(d)
  PROVE  TreeInv'
<1>1. PICK p \in folders : (\A q \in Within(p) : KeysAt(q) = {}) /\ Deletes(d, p)
  BY DEF DeleteFolder
<1> DEFINE draft == [NoDraft EXCEPT !.op = "delete folder", !.place = p,
                                    !.rows = {p} \cup Descendants(p)]
           more == UNION {Parents(drafts[e].place) :
                     e \in {f \in Drafts : /\ drafts[f].op \in {"write", "folder", "import"}
                                          /\ drafts[f].place \in Within(p)}}
<1>2. /\ p \in Places /\ {p} \cup Descendants(p) \in SUBSET Places /\ crossed \subseteq Places
      /\ TreeOK(folders, held, drafts, crossed, deleted) /\ drafts \in [Drafts -> Draft]
  BY DEF TreeInv, TreeTypeOK, Descendants
<1>3. /\ draft \in Draft /\ draft.op = "delete folder" /\ draft.place = p
      /\ draft.rows = {p} \cup Descendants(p)
  BY <1>2, NoDraftIsDraft DEF Draft
<1>4. Starts(d, draft) /\ crossed' = crossed \cup more
  BY <1>1 DEF Deletes
<1>5. \A e \in Drafts : drafts[e].place \in Places
  BY <1>2, DraftPlace
<1>6. /\ more \subseteq Places
      /\ \A x \in more : Parents(x) \subseteq more
      /\ \A e \in Drafts : drafts[e].op \in Inserts /\ drafts[e].place \in Within(p) =>
           Parents(drafts[e].place) \subseteq more
  <2>1. \A x \in more : \E e \in Drafts :
          x \in Parents(drafts[e].place) /\ Parents(drafts[e].place) \subseteq more
    OBVIOUS
  <2>2. \A x \in more : x \in Places
    BY <2>1 DEF Parents
  <2>3. \A x \in more : Parents(x) \subseteq more
    BY <1>5, <2>1, BelowIsOrder
  <2> QED BY <2>2, <2>3 DEF Inserts
<1> HIDE DEF more
<1>7. /\ crossed' \in SUBSET Places /\ crossed \subseteq crossed'
      /\ \A x \in crossed' : Parents(x) \subseteq crossed'
  BY <1>2, <1>4, <1>6 DEF TreeOK
<1>8. InsertOK(draft, folders, crossed', deleted)
  BY <1>3 DEF InsertOK, Inserts
<1>9. DeletionOK(draft, folders, held, crossed')
  <2>1. ~IsRoot(p)
    BY DEF TreeInv, TreeTypeOK
  <2>2. {p} \cup Descendants(p) \subseteq Within(p) \cup Mistaken({p})
    BY <1>2, BelowIsOrder DEF Descendants, Mistaken, Within, TreeInv, TreeTypeOK
  <2>3. Within(p) \cap folders \subseteq {p} \cup Descendants(p)
    BY <1>2, <2>1, LikesAssumption DEF Descendants
  <2> QED BY <1>1, <1>3, <2>2, <2>3 DEF DeletionOK, KeysAt, Holds
<1>10. \A e \in Drafts : OverlapOK(draft, drafts[e], crossed') /\ OverlapOK(drafts[e], draft, crossed')
  BY <1>3, <1>4, <1>6 DEF OverlapOK, Inserts
<1> HIDE DEF draft
<1> QED BY <1>3, <1>4, <1>7, <1>8, <1>9, <1>10, TreeBegins

(* A request commits, or is rolled back: what it leaves is in order. *)
LEMMA TreeEnds ==
  ASSUME TreeInv, NEW d \in Drafts, Ends(d), folders' \subseteq Places,
         \A p \in folders' : ~IsRoot(p),
         TreeOK(folders', held', drafts, crossed, deleted'), deleted' \subseteq Places,
         held' \in [Places \X Keys -> Values \cup {NoSecret}], RulesOK(rules'),
         unchecked' \subseteq Places
  PROVE  TreeInv'
<1>1. drafts' = [drafts EXCEPT ![d] = NoDraft] /\ UNCHANGED <<edits, crossed>>
  BY DEF Ends
<1>2. drafts \in [Drafts -> Draft] /\ crossed \subseteq Places /\ edits \in Nat
  BY DEF TreeInv, TreeTypeOK
<1>3. drafts' \in [Drafts -> Draft]
  BY <1>1, <1>2, NoDraftIsDraft
<1>4. TreeTyped(folders', held', drafts, crossed)
  BY <1>2 DEF TreeTyped
<1>5. TreeOK(folders', held', drafts', crossed, deleted')
  BY <1>1, <1>4, NoDraftIsDraft, DraftEnds
<1>6. TreeTypeOK'
  BY <1>1, <1>2, <1>3 DEF TreeTypeOK, RulesOK
<1> QED BY <1>1, <1>3, <1>5, <1>6 DEF TreeInv

LEMMA TreeFacts ==
  TreeInv =>
    /\ TreeTyped(folders, held, drafts, crossed) /\ TreeOK(folders, held, drafts, crossed, deleted)
    /\ folders \subseteq Places /\ (\A p \in folders : ~IsRoot(p))
    /\ held \in [Places \X Keys -> Values \cup {NoSecret}]
    /\ RulesOK(rules)
    /\ unchecked \subseteq Places /\ deleted \subseteq Places
    /\ \A d \in Drafts : drafts[d] \in Draft /\ drafts[d].place \in Places
BY DraftPlace DEF TreeInv, TreeTypeOK, TreeTyped, RulesOK

(* Its folders are no roots. *)
LEMMA InsertsFolders ==
  ASSUME TreeInv, NEW d \in Drafts, drafts[d].op \in Inserts
  PROVE  \A p \in folders \cup drafts[d].rows : ~IsRoot(p)
<1>1. drafts[d].rows \subseteq Chain(drafts[d].place)
  BY TreeFacts DEF TreeOK, InsertOK
<1> QED BY <1>1, TreeFacts DEF Chain

LEMMA CommitValueKeeps ==
  ASSUME TreeInv, NEW d \in Drafts, CommitValue(d)
  PROVE  TreeInv'
<1> DEFINE q == drafts[d]
<1>1. PICK value \in Values :
      /\ q.op = "write" /\ held' = [held EXCEPT ![<<q.place, q.key>>] = value]
      /\ folders' = folders \cup q.rows
      /\ unchecked' \in {unchecked, unchecked \cup {q.place}}
      /\ Ends(d) /\ UNCHANGED <<rules, deleted>>
  BY DEF CommitValue
<1>2. q \in Draft /\ q.place \in Places
  BY TreeFacts DEF Draft
<1>3. held' \in [Places \X Keys -> Values \cup {NoSecret}]
  BY <1>1, <1>2, TreeFacts
<1>4. Elsewhere(q.place, held, held')
  BY <1>1, TreeFacts DEF Elsewhere
<1>5. TreeOK(folders', held', drafts, crossed, deleted) /\ folders' \subseteq Places
  <2>1. TreeTyped(folders, held, drafts, crossed) /\ TreeOK(folders, held, drafts, crossed, deleted)
    BY TreeFacts
  <2>2. folders' = folders \cup drafts[d].rows /\ drafts[d].op \in Inserts
    BY <1>1 DEF Inserts
  <2>3. Elsewhere(drafts[d].place, held, held')
    BY <1>4
  <2> QED BY <2>1, <2>2, <2>3, FoldersAppear
<1>6. \A p \in folders' : ~IsRoot(p)
  BY <1>1, InsertsFolders DEF Inserts
<1>7. unchecked' \subseteq Places
  BY <1>1, <1>2, TreeFacts
<1> QED BY <1>1, <1>3, <1>5, <1>6, <1>7, TreeFacts, TreeEnds

LEMMA CommitFolderKeeps ==
  ASSUME TreeInv, NEW d \in Drafts, CommitFolder(d)
  PROVE  TreeInv'
<1> DEFINE q == drafts[d]
<1>1. /\ q.op = "folder" /\ folders' = folders \cup q.rows
      /\ Ends(d) /\ UNCHANGED <<held, rules, unchecked, deleted>>
  BY DEF CommitFolder
<1>2. TreeOK(folders', held', drafts, crossed, deleted) /\ folders' \subseteq Places
  <2>1. TreeTyped(folders, held, drafts, crossed) /\ TreeOK(folders, held, drafts, crossed, deleted)
    BY TreeFacts
  <2>2. folders' = folders \cup drafts[d].rows /\ drafts[d].op \in Inserts
    BY <1>1 DEF Inserts
  <2>3. Elsewhere(drafts[d].place, held, held')
    BY <1>1 DEF Elsewhere
  <2> QED BY <2>1, <2>2, <2>3, FoldersAppear
<1>3. \A p \in folders' : ~IsRoot(p)
  BY <1>1, InsertsFolders DEF Inserts
<1> QED BY <1>1, <1>2, <1>3, TreeFacts, TreeEnds

LEMMA CommitDeleteFolderKeeps ==
  ASSUME TreeInv, NEW d \in Drafts, CommitDeleteFolder(d)
  PROVE  TreeInv'
<1>1. /\ drafts[d].op = "delete folder" /\ folders' = folders \ drafts[d].rows
      /\ deleted' = deleted \cup {drafts[d].place}
      /\ Ends(d) /\ UNCHANGED <<held, rules, unchecked>>
  BY DEF CommitDeleteFolder
<1>2. TreeOK(folders', held', drafts, crossed, deleted') /\ folders' \subseteq Places
  BY <1>1, TreeFacts, FoldersGo
<1> QED BY <1>1, <1>2, TreeFacts, TreeEnds

LEMMA RuleAdded ==
  ASSUME TreeInv, NEW rule \in Rule, ~Imports(rule.target, rule.source),
         NEW more, more = Append(rules, rule)
  PROVE  RulesOK(more)
<1>1. /\ more \in Seq(Rule) /\ Len(more) = Len(rules) + 1 /\ Len(rules) \in Nat
      /\ \A i \in 1 .. Len(rules) : more[i] = rules[i]
      /\ more[Len(rules) + 1] = rule
      /\ DOMAIN rules = 1 .. Len(rules) /\ DOMAIN more = 1 .. Len(rules) + 1
  BY TreeFacts, AppendProperties DEF RulesOK
<1>2. \A i \in 1 .. Len(rules) :
        rules[i].exists => rules[i].target # rule.target \/ rules[i].source # rule.source
  BY <1>1 DEF Imports
<1>3. ASSUME NEW i \in DOMAIN more, NEW j \in DOMAIN more, i # j, more[i].exists, more[j].exists
      PROVE  more[i].target # more[j].target \/ more[i].source # more[j].source
  <2>1. CASE i \in 1 .. Len(rules) /\ j \in 1 .. Len(rules)
    BY <1>1, <1>3, <2>1, TreeFacts DEF RulesOK
  <2>2. CASE i = Len(rules) + 1
    <3>1. j \in 1 .. Len(rules)
      BY <1>1, <1>3, <2>2
    <3> QED BY <1>1, <1>2, <1>3, <2>2, <3>1
  <2>3. CASE j = Len(rules) + 1
    <3>1. i \in 1 .. Len(rules)
      BY <1>1, <1>3, <2>3
    <3> QED BY <1>1, <1>2, <1>3, <2>3, <3>1
  <2> QED BY <1>1, <2>1, <2>2, <2>3
<1> QED BY <1>1, <1>3 DEF RulesOK

LEMMA CommitImportKeeps ==
  ASSUME TreeInv, NEW d \in Drafts, CommitImport(d)
  PROVE  TreeInv'
<1> DEFINE q == drafts[d]
<1>1. /\ q.op = "import" /\ folders' = folders \cup q.rows
      /\ ~Imports(q.place, q.source)
      /\ Ends(d) /\ UNCHANGED <<held, unchecked, deleted>>
  BY DEF CommitImport
<1>2. PICK rule \in Rule :
        /\ rule.target = q.place /\ rule.source = q.source
        /\ rules' = Append(rules, rule)
  <2>1. PICK recursive \in BOOLEAN, enabled \in BOOLEAN, priority \in Priorities :
          rules' = Append(rules, [target |-> q.place, source |-> q.source,
                                  recursive |-> recursive, priority |-> priority,
                                  enabled |-> enabled, exists |-> TRUE])
    BY DEF CommitImport
  <2> DEFINE new == [target |-> q.place, source |-> q.source, recursive |-> recursive,
                     priority |-> priority, enabled |-> enabled, exists |-> TRUE]
  <2>2. q.place \in Places /\ q.source \in Places
    BY TreeFacts DEF Draft
  <2>3. new \in Rule /\ new.target = q.place /\ new.source = q.source
    BY <2>2 DEF Rule
  <2>4. rules' = Append(rules, new)
    BY <2>1
  <2> HIDE DEF new
  <2> QED BY <2>3, <2>4
<1>3. TreeOK(folders', held', drafts, crossed, deleted) /\ folders' \subseteq Places
  <2>1. TreeTyped(folders, held, drafts, crossed) /\ TreeOK(folders, held, drafts, crossed, deleted)
    BY TreeFacts
  <2>2. folders' = folders \cup drafts[d].rows /\ drafts[d].op \in Inserts
    BY <1>1 DEF Inserts
  <2>3. Elsewhere(drafts[d].place, held, held')
    BY <1>1 DEF Elsewhere
  <2> QED BY <2>1, <2>2, <2>3, FoldersAppear
<1>4. \A p \in folders' : ~IsRoot(p)
  BY <1>1, InsertsFolders DEF Inserts
<1>5. RulesOK(rules')
  BY <1>1, <1>2, RuleAdded
<1> QED BY <1>1, <1>3, <1>4, <1>5, TreeFacts, TreeEnds

LEMMA RollBackKeeps ==
  ASSUME TreeInv, NEW d \in Drafts, RollBack(d)
  PROVE  TreeInv'
<1>1. Ends(d) /\ UNCHANGED <<folders, held, rules, unchecked, deleted>>
  BY DEF RollBack
<1> QED BY <1>1, TreeFacts, TreeEnds

LEMMA DeleteValueKeeps ==
  ASSUME TreeInv, DeleteValue
  PROVE  TreeInv'
<1>1. PICK p \in Places, k \in Keys : held' = [held EXCEPT ![<<p, k>>] = NoSecret]
  BY DEF DeleteValue
<1>2. edits' = edits + 1 /\ UNCHANGED <<folders, rules, drafts, unchecked, crossed, deleted>>
  BY DEF DeleteValue
<1>3. held' \in [Places \X Keys -> Values \cup {NoSecret}]
      /\ \A x \in Places, y \in Keys : held'[x, y] \in {held[x, y], NoSecret}
  BY <1>1, TreeFacts
<1>4. TreeOK(folders, held', drafts, crossed, deleted)
  <2>1. \A e \in Drafts : InsertOK(drafts[e], folders, crossed, deleted)
                          /\ DeletionOK(drafts[e], folders, held, crossed)
    BY TreeFacts DEF TreeOK
  <2>2. \A e \in Drafts : DeletionOK(drafts[e], folders, held', crossed)
    BY <1>3, <2>1 DEF DeletionOK, Within
  <2>3. FoldersKept(folders, held', crossed, deleted)
    BY <1>3, TreeFacts DEF TreeOK, FoldersKept
  <2> QED BY <2>1, <2>2, <2>3, TreeFacts DEF TreeOK
<1>5. edits' \in Nat
  BY <1>2 DEF TreeInv, TreeTypeOK
<1>6. TreeTypeOK'
  BY <1>2, <1>3, <1>5 DEF TreeInv, TreeTypeOK
<1> QED BY <1>2, <1>4, <1>6 DEF TreeInv

LEMMA ChangeImportKeeps ==
  ASSUME TreeInv, ChangeImport
  PROVE  TreeInv'
<1>1. PICK i \in DOMAIN rules :
        /\ rules[i].exists
        /\ \/ \E recursive, enabled \in BOOLEAN, priority \in Priorities :
                rules' = [rules EXCEPT ![i].enabled = enabled, ![i].recursive = recursive,
                                       ![i].priority = priority]
           \/ rules' = [rules EXCEPT ![i].exists = FALSE]
  BY DEF ChangeImport
<1>2. edits' = edits + 1 /\ UNCHANGED <<folders, held, drafts, unchecked, crossed, deleted>>
  BY DEF ChangeImport
<1>3. PICK rule \in Rule :
        /\ rule.target = rules[i].target /\ rule.source = rules[i].source
        /\ rules' = [rules EXCEPT ![i] = rule]
  <2>1. rules[i] \in Rule
    BY TreeFacts, ElementOfSeq DEF RulesOK
  <2>2. CASE rules' = [rules EXCEPT ![i].exists = FALSE]
    <3>1. [rules[i] EXCEPT !.exists = FALSE] \in Rule
      BY <2>1 DEF Rule
    <3> QED BY <2>1, <2>2, <3>1 DEF Rule
  <2>3. CASE \E recursive, enabled \in BOOLEAN, priority \in Priorities :
               rules' = [rules EXCEPT ![i].enabled = enabled, ![i].recursive = recursive,
                                      ![i].priority = priority]
    <3>1. PICK recursive \in BOOLEAN, enabled \in BOOLEAN, priority \in Priorities :
            rules' = [rules EXCEPT ![i].enabled = enabled, ![i].recursive = recursive,
                                   ![i].priority = priority]
      BY <2>3
    <3> DEFINE r == [rules[i] EXCEPT !.enabled = enabled, !.recursive = recursive,
                                     !.priority = priority]
    <3>2. r \in Rule /\ r.target = rules[i].target /\ r.source = rules[i].source
      BY <2>1 DEF Rule
    <3>3. rules' = [rules EXCEPT ![i] = r]
      BY <3>1
    <3> HIDE DEF r
    <3> QED BY <3>2, <3>3
  <2> QED BY <1>1, <2>2, <2>3
<1>4. rules' \in Seq(Rule) /\ DOMAIN rules' = DOMAIN rules
      /\ rules'[i] = rule /\ \A j \in DOMAIN rules \ {i} : rules'[j] = rules[j]
  BY <1>3, TreeFacts DEF RulesOK
<1>5. \A j, k \in DOMAIN rules' :
        /\ j # k /\ rules'[j].exists /\ rules'[k].exists
        => rules'[j].target # rules'[k].target \/ rules'[j].source # rules'[k].source
  <2>1. \A j \in DOMAIN rules : /\ rules'[j].target = rules[j].target
                                /\ rules'[j].source = rules[j].source
                                /\ rules'[j].exists => rules[j].exists
    BY <1>1, <1>3, <1>4
  <2>2. DOMAIN rules' = DOMAIN rules
    BY <1>4
  <2>3. \A j, k \in DOMAIN rules :
          /\ j # k /\ rules[j].exists /\ rules[k].exists
          => rules[j].target # rules[k].target \/ rules[j].source # rules[k].source
    BY TreeFacts DEF RulesOK
  <2> QED BY <2>1, <2>2, <2>3
<1>6. TreeTypeOK'
  BY <1>2, <1>4, <1>5 DEF TreeInv, TreeTypeOK
<1> QED BY <1>2, <1>6 DEF TreeInv

LEMMA TreeNextKeeps ==
  ASSUME TreeInv, [TreeNext]_treeVars
  PROVE  TreeInv'
<1>1. CASE UNCHANGED treeVars
  BY <1>1 DEF treeVars, TreeInv, TreeTypeOK
<1>2. CASE TreeRequests
  BY <1>2, DeleteValueKeeps, ChangeImportKeeps, WriteBegins, FolderBegins, DeletionBegins,
     ImportBegins DEF TreeRequests
<1>3. CASE TreeCommits
  BY <1>3, CommitValueKeeps, CommitFolderKeeps, CommitDeleteFolderKeeps, CommitImportKeeps,
     RollBackKeeps DEF TreeCommits
<1> QED BY <1>1, <1>2, <1>3 DEF TreeNext

LEMMA TreeInvariant == TreeSpec => []TreeInv
<1>1. TreeInit => TreeInv
  <2> SUFFICES ASSUME TreeInit PROVE TreeInv
    OBVIOUS
  <2>1. rules \in Seq(Rule) /\ DOMAIN rules = {}
    BY EmptySeq DEF TreeInit
  <2>2. TreeTypeOK
    BY <2>1, NoDraftIsDraft DEF TreeInit, TreeTypeOK
  <2>3. \A d \in Drafts : drafts[d].op = "none"
    BY NoDraftIsDraft DEF TreeInit
  <2>4. TreeOK(folders, held, drafts, crossed, deleted)
    BY <2>3 DEF TreeInit, TreeOK, InsertOK, DeletionOK, OverlapOK, FoldersKept, Inserts
  <2> QED BY <2>2, <2>3, <2>4 DEF TreeInv
<1> QED BY <1>1, TreeNextKeeps, PTL DEF TreeSpec

(* The rows of folders, values and imports: an import is there once, whatever *)
(* requests for it overlap.                                                  *)
THEOREM TreeTypeCorrect == TreeSpec => []TreeTypeOK
<1>1. TreeInv => TreeTypeOK
  BY DEF TreeInv
<1> QED BY <1>1, TreeInvariant, PTL

(* Whatever writes, imports and deletions of folders follow one another or     *)
(* overlap, a secret and a folder have the folders above them, unless a        *)
(* deletion overlapped with what inserted there or below, and but for those    *)
(* whose path is LIKE the descendants of a folder elsewhere that was deleted.  *)
THEOREM FoldersStayAbove == TreeSpec => []FoldersHold
<1>1. TreeInv => FoldersHold
  BY DEF TreeInv, TreeOK, FoldersKept, FoldersHold, KeysAt, Holds
<1> QED BY <1>1, TreeInvariant, PTL

-----------------------------------------------------------------------------
(* What a read of the tree finds.                                            *)

(* Induction, as a fact about sets. *)
LEMMA EveryNatural ==
  ASSUME NEW T, 0 \in T, \A n \in Nat : n \in T => n + 1 \in T
  PROVE  Nat \subseteq T
<1> DEFINE R == OpToRel(<, Nat)
           U == Nat \ T
<1> SUFFICES ASSUME U # {} PROVE FALSE
  OBVIOUS
<1>1. IsWellFoundedOn(R, Nat)
  BY NatLessThanWellFounded
<1>2. PICK u \in U : \A v \in U : ~ (<<v, u>> \in R)
  <2>1. U \subseteq Nat
    OBVIOUS
  <2> HIDE DEF R, U
  <2> QED BY <1>1, <2>1, WFMin
<1>3. u \in Nat /\ u # 0
  OBVIOUS
<1>4. u - 1 \in Nat
  BY <1>3
<1>5. u - 1 \in T => u \in T
  <2>1. u - 1 \in T => (u - 1) + 1 \in T
    BY <1>4
  <2> QED BY <1>3, <2>1
<1>6. u - 1 \in U
  BY <1>4, <1>5
<1>7. <<u - 1, u>> \in R
  BY <1>3, <1>4 DEF OpToRel
<1> QED BY <1>2, <1>6, <1>7

(* The search and the reading of a key, as functions of the stack.           *)
VisitsWith(f, view, stack) ==
  {k \in DOMAIN view : k \in stack \/ view[k] \cap f[stack \cup {k}] # {}}
Visited(view) == CHOOSE f : f = [stack \in SUBSET DOMAIN view |-> VisitsWith(f, view, stack)]

Reading(f, view, stack, k) ==
  IF k \in stack THEN "cycle"
  ELSE LET found == {f[stack \cup {k}][d] : d \in view[k] \cap DOMAIN view}
       IN  IF "cycle" \in found THEN "cycle"
           ELSE IF "unresolved" \in found \/ ~(view[k] \subseteq DOMAIN view)
           THEN "unresolved" ELSE "resolved"
ReadsWith(f, view, stack) == [k \in DOMAIN view |-> Reading(f, view, stack, k)]
ReadOf(view) == CHOOSE f : f = [stack \in SUBSET DOMAIN view |-> ReadsWith(f, view, stack)]

LEMMA MeetsIsVisited == \A view : MeetsCycle(view) <=> Visited(view)[{}] # {}
BY DEF MeetsCycle, Visited, VisitsWith

LEMMA ResolutionIsRead == \A view : Resolution(view) = ReadOf(view)[{}]
BY DEF Resolution, ReadOf, ReadsWith, Reading

(* One more key on the stack, one less beside it. *)
LEMMA OneLess ==
  ASSUME NEW D, IsFiniteSet(D), NEW s \in SUBSET D, NEW k \in D, k \notin s
  PROVE  /\ s \cup {k} \in SUBSET D
         /\ Cardinality(D \ s) \in Nat /\ Cardinality(D \ (s \cup {k})) \in Nat
         /\ Cardinality(D \ (s \cup {k})) = Cardinality(D \ s) - 1
<1> DEFINE E == D \ s
<1>1. IsFiniteSet(E)
  BY FS_Subset
<1>2. D \ (s \cup {k}) = E \ {k} /\ k \in E
  OBVIOUS
<1> HIDE DEF E
<1>3. IsFiniteSet(E \ {k}) /\ Cardinality(E \ {k}) = Cardinality(E) - 1
  BY <1>1, <1>2, FS_RemoveElement
<1>4. Cardinality(E) \in Nat /\ Cardinality(E \ {k}) \in Nat
  BY <1>1, <1>3, FS_CardinalityType
<1>5. s \cup {k} \in SUBSET D
  OBVIOUS
<1> QED BY <1>2, <1>3, <1>4, <1>5 DEF E

(* What holds of a stack when it holds of all that have one key more, holds  *)
(* of every stack.                                                          *)
Descends(D, T) == \A s \in SUBSET D : (\A k \in D \ s : s \cup {k} \in T) => s \in T

LEMMA EveryStack == \A D, T : IsFiniteSet(D) /\ Descends(D, T) => SUBSET D \subseteq T
<1> SUFFICES ASSUME NEW D, NEW T, IsFiniteSet(D), Descends(D, T) PROVE SUBSET D \subseteq T
  OBVIOUS
<1>0. \A s \in SUBSET D : (\A k \in D \ s : s \cup {k} \in T) => s \in T
  BY DEF Descends
<1> DEFINE U == {n \in Nat : \A s \in SUBSET D : Cardinality(D \ s) =< n => s \in T}
<1>1. \A s \in SUBSET D : Cardinality(D \ s) \in Nat
  BY FS_Subset, FS_CardinalityType
<1>2. 0 \in U
  <2>1. ASSUME NEW s \in SUBSET D, Cardinality(D \ s) =< 0 PROVE s \in T
    <3>1. ASSUME NEW k \in D \ s PROVE FALSE
      <4>1. /\ Cardinality(D \ s) \in Nat /\ Cardinality(D \ (s \cup {k})) \in Nat
            /\ Cardinality(D \ (s \cup {k})) = Cardinality(D \ s) - 1
        BY OneLess
      <4> QED BY <2>1, <4>1
    <3> QED BY <1>0, <3>1
  <2> QED BY <2>1
<1>3. ASSUME NEW n \in Nat, n \in U PROVE n + 1 \in U
  <2>1. ASSUME NEW s \in SUBSET D, Cardinality(D \ s) =< n + 1 PROVE s \in T
    <3>1. ASSUME NEW k \in D \ s PROVE s \cup {k} \in T
      <4>1. s \cup {k} \in SUBSET D /\ Cardinality(D \ (s \cup {k})) =< n
        BY <1>1, <2>1, <3>1, OneLess
      <4> QED BY <1>3, <4>1
    <3> QED BY <1>0, <3>1
  <2> QED BY <2>1
<1>4. Nat \subseteq U
  <2> HIDE DEF U
  <2> QED BY <1>2, <1>3, EveryNatural
<1> SUFFICES ASSUME NEW s \in SUBSET D PROVE s \in T
  OBVIOUS
<1>5. Cardinality(D \ s) \in U /\ Cardinality(D \ s) =< Cardinality(D \ s)
  <2> HIDE DEF U
  <2> QED BY <1>1, <1>4
<1> QED BY <1>5

(* The search is what it says it is. *)
VisitsUntil(f, view, n) ==
  \A s \in SUBSET DOMAIN view : Cardinality(DOMAIN view \ s) < n => f[s] = VisitsWith(f, view, s)

LEMMA VisitedIs ==
  ASSUME NEW view, IsFiniteSet(DOMAIN view)
  PROVE  \A s \in SUBSET DOMAIN view : Visited(view)[s] = VisitsWith(Visited(view), view, s)
<1> DEFINE D == DOMAIN view
           T == {n \in Nat : \E f : VisitsUntil(f, view, n)}
<1>1. \A s \in SUBSET D : Cardinality(D \ s) \in Nat
  BY FS_Subset, FS_CardinalityType
<1>2. ASSUME NEW n \in Nat, NEW f, VisitsUntil(f, view, n)
      PROVE  VisitsUntil([s \in SUBSET D |-> VisitsWith(f, view, s)], view, n + 1)
  <2> DEFINE g == [s \in SUBSET D |-> VisitsWith(f, view, s)]
  <2>1. \A s \in SUBSET D : g[s] = VisitsWith(f, view, s)
    OBVIOUS
  <2> HIDE DEF g
  <2>2. ASSUME NEW s \in SUBSET D, Cardinality(D \ s) < n + 1 PROVE g[s] = VisitsWith(g, view, s)
    <3>1. ASSUME NEW k \in D, k \notin s PROVE f[s \cup {k}] = g[s \cup {k}]
      <4>1. s \cup {k} \in SUBSET D /\ Cardinality(D \ (s \cup {k})) < n
        BY <1>1, <2>2, <3>1, OneLess
      <4> QED BY <1>2, <2>1, <4>1 DEF VisitsUntil
    <3> QED BY <2>1, <3>1 DEF VisitsWith
  <2> QED BY <2>2 DEF VisitsUntil, g
<1>3. Nat \subseteq T
  <2>1. 0 \in T
    <3>1. \A f : VisitsUntil(f, view, 0)
      BY <1>1 DEF VisitsUntil
    <3> QED BY <3>1
  <2>2. ASSUME NEW n \in Nat, n \in T PROVE n + 1 \in T
    <3>1. PICK f : VisitsUntil(f, view, n)
      BY <2>2
    <3>2. \E g : VisitsUntil(g, view, n + 1)
      BY <1>2, <3>1
    <3> QED BY <3>2
  <2> HIDE DEF T
  <2> QED BY <2>1, <2>2, EveryNatural
<1>4. PICK f : VisitsUntil(f, view, Cardinality(D) + 1)
  <2>1. Cardinality(D) + 1 \in Nat
    BY FS_CardinalityType
  <2> QED BY <1>3, <2>1
<1>5. \A s \in SUBSET D : f[s] = VisitsWith(f, view, s)
  <2>1. ASSUME NEW s \in SUBSET D PROVE Cardinality(D \ s) < Cardinality(D) + 1
    <3>1. Cardinality(D \ s) =< Cardinality(D)
      BY FS_Subset
    <3>2. Cardinality(D) \in Nat /\ Cardinality(D \ s) \in Nat
      BY <1>1, FS_CardinalityType
    <3> QED BY <3>1, <3>2
  <2> QED BY <1>4, <2>1 DEF VisitsUntil
<1> DEFINE g == [s \in SUBSET D |-> f[s]]
<1>6. g = [s \in SUBSET DOMAIN view |-> VisitsWith(g, view, s)]
  <2>1. ASSUME NEW s \in SUBSET D PROVE VisitsWith(f, view, s) = VisitsWith(g, view, s)
    <3>1. \A k \in D : g[s \cup {k}] = f[s \cup {k}]
      OBVIOUS
    <3> HIDE DEF g
    <3> QED BY <3>1 DEF VisitsWith
  <2> QED BY <1>5, <2>1
<1>7. Visited(view) = [s \in SUBSET DOMAIN view |-> VisitsWith(Visited(view), view, s)]
  <2> HIDE DEF g
  <2> QED BY <1>6 DEF Visited
<1> DEFINE h == Visited(view)
<1>8. h = [s \in SUBSET D |-> VisitsWith(h, view, s)]
  BY <1>7
<1> HIDE DEF h
<1>9. \A s \in SUBSET D : h[s] = VisitsWith(h, view, s)
  BY <1>8
<1> QED BY <1>9 DEF h

(* The reading is what it says it is. *)
ReadsUntil(f, view, n) ==
  \A s \in SUBSET DOMAIN view : Cardinality(DOMAIN view \ s) < n => f[s] = ReadsWith(f, view, s)

LEMMA ReadIs ==
  ASSUME NEW view, IsFiniteSet(DOMAIN view)
  PROVE  \A s \in SUBSET DOMAIN view : ReadOf(view)[s] = ReadsWith(ReadOf(view), view, s)
<1> DEFINE D == DOMAIN view
           T == {n \in Nat : \E f : ReadsUntil(f, view, n)}
<1>1. \A s \in SUBSET D : Cardinality(D \ s) \in Nat
  BY FS_Subset, FS_CardinalityType
<1>2. ASSUME NEW n \in Nat, NEW f, ReadsUntil(f, view, n)
      PROVE  ReadsUntil([s \in SUBSET D |-> ReadsWith(f, view, s)], view, n + 1)
  <2> DEFINE g == [s \in SUBSET D |-> ReadsWith(f, view, s)]
  <2>1. \A s \in SUBSET D : g[s] = ReadsWith(f, view, s)
    OBVIOUS
  <2> HIDE DEF g
  <2>2. ASSUME NEW s \in SUBSET D, Cardinality(D \ s) < n + 1 PROVE g[s] = ReadsWith(g, view, s)
    <3>1. ASSUME NEW k \in D, k \notin s PROVE f[s \cup {k}] = g[s \cup {k}]
      <4>1. s \cup {k} \in SUBSET D /\ Cardinality(D \ (s \cup {k})) < n
        BY <1>1, <2>2, <3>1, OneLess
      <4> QED BY <1>2, <2>1, <4>1 DEF ReadsUntil
    <3>2. \A k \in D : Reading(f, view, s, k) = Reading(g, view, s, k)
      BY <3>1 DEF Reading
    <3> QED BY <2>1, <3>2 DEF ReadsWith
  <2> QED BY <2>2 DEF ReadsUntil, g
<1>3. Nat \subseteq T
  <2>1. 0 \in T
    <3>1. \A f : ReadsUntil(f, view, 0)
      BY <1>1 DEF ReadsUntil
    <3> QED BY <3>1
  <2>2. ASSUME NEW n \in Nat, n \in T PROVE n + 1 \in T
    <3>1. PICK f : ReadsUntil(f, view, n)
      BY <2>2
    <3>2. \E g : ReadsUntil(g, view, n + 1)
      BY <1>2, <3>1
    <3> QED BY <3>2
  <2> HIDE DEF T
  <2> QED BY <2>1, <2>2, EveryNatural
<1>4. PICK f : ReadsUntil(f, view, Cardinality(D) + 1)
  <2>1. Cardinality(D) + 1 \in Nat
    BY FS_CardinalityType
  <2> QED BY <1>3, <2>1
<1>5. \A s \in SUBSET D : f[s] = ReadsWith(f, view, s)
  <2>1. ASSUME NEW s \in SUBSET D PROVE Cardinality(D \ s) < Cardinality(D) + 1
    <3>1. Cardinality(D \ s) =< Cardinality(D)
      BY FS_Subset
    <3>2. Cardinality(D) \in Nat /\ Cardinality(D \ s) \in Nat
      BY <1>1, FS_CardinalityType
    <3> QED BY <3>1, <3>2
  <2> QED BY <1>4, <2>1 DEF ReadsUntil
<1> DEFINE g == [s \in SUBSET D |-> f[s]]
<1>6. g = [s \in SUBSET DOMAIN view |-> ReadsWith(g, view, s)]
  <2>1. ASSUME NEW s \in SUBSET D PROVE ReadsWith(f, view, s) = ReadsWith(g, view, s)
    <3>1. \A k \in D : g[s \cup {k}] = f[s \cup {k}]
      OBVIOUS
    <3> HIDE DEF g
    <3> QED BY <3>1 DEF ReadsWith, Reading
  <2> QED BY <1>5, <2>1
<1>7. ReadOf(view) = [s \in SUBSET DOMAIN view |-> ReadsWith(ReadOf(view), view, s)]
  <2> HIDE DEF g
  <2> QED BY <1>6 DEF ReadOf
<1> DEFINE h == ReadOf(view)
<1>8. h = [s \in SUBSET D |-> ReadsWith(h, view, s)]
  BY <1>7
<1> HIDE DEF h
<1>9. \A s \in SUBSET D : h[s] = ReadsWith(h, view, s)
  BY <1>8
<1> QED BY <1>9 DEF h

(* Whoever is on the stack leads to what is above it. *)
Leads(view, stack, k) == \A j \in stack : view[j] \cap (stack \cup {k}) # {}

LEMMA CycleIsThere ==
  ASSUME NEW view, IsFiniteSet(DOMAIN view), Acyclic(view)
  PROVE  Visited(view)[{}] = {}
<1> DEFINE D == DOMAIN view
           T == {s \in SUBSET D : \A k \in Visited(view)[s] : ~Leads(view, s, k)}
<1>1. ASSUME NEW s \in SUBSET D, \A k \in D \ s : s \cup {k} \in T PROVE s \in T
  <2>1. ASSUME NEW k \in Visited(view)[s], Leads(view, s, k) PROVE FALSE
    <3>1. k \in D /\ (k \in s \/ view[k] \cap Visited(view)[s \cup {k}] # {})
      BY <2>1, VisitedIs DEF VisitsWith
    <3>2. CASE k \in s
      <4>1. s \in (SUBSET D) \ {{}} /\ \A j \in s : view[j] \cap s # {}
        BY <2>1, <3>2 DEF Leads
      <4> QED BY <4>1 DEF Acyclic
    <3>3. CASE k \notin s
      <4>1. PICK d \in Visited(view)[s \cup {k}] : d \in view[k]
        BY <3>1, <3>3
      <4>2. Leads(view, s \cup {k}, d)
        BY <2>1, <4>1 DEF Leads
      <4>3. s \cup {k} \in T
        BY <1>1, <3>1, <3>3
      <4> QED BY <4>1, <4>2, <4>3
    <3> QED BY <3>2, <3>3
  <2> QED BY <2>1
<1>2. {} \in T
  <2>1. Descends(D, T)
    <3> HIDE DEF T
    <3> QED BY <1>1 DEF Descends
  <2>2. {} \in SUBSET D
    OBVIOUS
  <2> HIDE DEF T
  <2> QED BY <2>1, <2>2, EveryStack
<1>3. \A k : Leads(view, {}, k)
  BY DEF Leads
<1> QED BY <1>2, <1>3

LEMMA CycleIsMet ==
  ASSUME NEW view, IsFiniteSet(DOMAIN view), Visited(view)[{}] = {}
  PROVE  Acyclic(view)
<1> DEFINE D == DOMAIN view
<1> SUFFICES ASSUME NEW keys \in (SUBSET D) \ {{}}, \A k \in keys : view[k] \cap keys # {}
             PROVE  FALSE
  BY DEF Acyclic
<1> DEFINE T == {s \in SUBSET D : keys \subseteq Visited(view)[s]}
<1>1. ASSUME NEW s \in SUBSET D, \A k \in D \ s : s \cup {k} \in T PROVE s \in T
  <2>1. ASSUME NEW k \in keys PROVE k \in Visited(view)[s]
    <3>1. Visited(view)[s] = VisitsWith(Visited(view), view, s) /\ k \in D
      BY VisitedIs
    <3>2. CASE k \in s
      BY <3>1, <3>2 DEF VisitsWith
    <3>3. CASE k \notin s
      <4>1. keys \subseteq Visited(view)[s \cup {k}]
        BY <1>1, <3>1, <3>3
      <4>2. view[k] \cap Visited(view)[s \cup {k}] # {}
        BY <4>1
      <4> QED BY <3>1, <4>2 DEF VisitsWith
    <3> QED BY <3>2, <3>3
  <2> QED BY <2>1
<1>2. {} \in T
  <2>1. Descends(D, T)
    <3> HIDE DEF T
    <3> QED BY <1>1 DEF Descends
  <2>2. {} \in SUBSET D
    OBVIOUS
  <2> HIDE DEF T
  <2> QED BY <2>1, <2>2, EveryStack
<1> QED BY <1>2

(* The check for cycles finds one exactly when there is one. *)
LEMMA CycleCheck ==
  ASSUME NEW view, IsFiniteSet(DOMAIN view)
  PROVE  MeetsCycle(view) <=> ~Acyclic(view)
BY CycleIsThere, CycleIsMet, MeetsIsVisited

(* A read meets the cycles that the search meets, ... *)
LEMMA ReadMeets ==
  ASSUME NEW view, IsFiniteSet(DOMAIN view)
  PROVE  \A s \in SUBSET DOMAIN view : \A k \in DOMAIN view :
           ReadOf(view)[s][k] = "cycle" <=> k \in Visited(view)[s]
<1> DEFINE D == DOMAIN view
           R == ReadOf(view)
           V == Visited(view)
           T == {s \in SUBSET D : \A k \in D : R[s][k] = "cycle" <=> k \in V[s]}
<1>1. ASSUME NEW s \in SUBSET D, \A k \in D \ s : s \cup {k} \in T PROVE s \in T
  <2>1. ASSUME NEW k \in D PROVE R[s][k] = "cycle" <=> k \in V[s]
    <3>1. R[s][k] = Reading(R, view, s, k)
      BY ReadIs DEF ReadsWith
    <3>2. k \in V[s] <=> k \in s \/ view[k] \cap V[s \cup {k}] # {}
      BY VisitedIs DEF VisitsWith
    <3>3. \A x \in SUBSET D : V[x] \subseteq D
      BY VisitedIs DEF VisitsWith
    <3>4. CASE k \in s
      BY <3>1, <3>2, <3>4 DEF Reading
    <3>5. CASE k \notin s
      <4>1. s \cup {k} \in SUBSET D /\ \A d \in D : R[s \cup {k}][d] = "cycle" <=> d \in V[s \cup {k}]
        BY <1>1, <3>5
      <4> DEFINE found == {R[s \cup {k}][d] : d \in view[k] \cap D}
      <4>2. "cycle" \in found <=> view[k] \cap V[s \cup {k}] # {}
        BY <3>3, <4>1
      <4>3. Reading(R, view, s, k) = "cycle" <=> "cycle" \in found
        BY <3>5 DEF Reading
      <4> HIDE DEF found
      <4> QED BY <3>1, <3>2, <3>5, <4>2, <4>3
    <3> QED BY <3>4, <3>5
  <2> QED BY <2>1
<1> SUFFICES SUBSET D \subseteq T
  OBVIOUS
<1>2. Descends(D, T)
  <2> HIDE DEF T
  <2> QED BY <1>1 DEF Descends
<1> HIDE DEF T
<1> QED BY <1>2, EveryStack

(* ... and without one gives the value exactly when nothing is missing.      *)
LEMMA CompleteBelow ==
  ASSUME NEW view, NEW k \in DOMAIN view
  PROVE  Complete(view, k) <=> /\ view[k] \subseteq DOMAIN view
                               /\ \A d \in view[k] : Complete(view, d)
<1>1. ASSUME Complete(view, k)
      PROVE  view[k] \subseteq DOMAIN view /\ \A d \in view[k] : Complete(view, d)
  BY <1>1 DEF Complete
<1>2. ASSUME view[k] \subseteq DOMAIN view, \A d \in view[k] : Complete(view, d)
      PROVE  Complete(view, k)
  <2> DEFINE whole == {j \in DOMAIN view : Complete(view, j)}
             keys == whole \cup {k}
  <2>1. ASSUME NEW j \in whole PROVE view[j] \subseteq whole
    <3>1. PICK below \in SUBSET DOMAIN view : j \in below /\ \A i \in below : view[i] \subseteq below
      BY DEF Complete
    <3> QED BY <3>1 DEF Complete
  <2>2. keys \in SUBSET DOMAIN view /\ k \in keys /\ view[k] \subseteq keys
    BY <1>2
  <2>3. \A j \in keys : view[j] \subseteq keys
    BY <2>1, <2>2
  <2> HIDE DEF keys
  <2> QED BY <2>2, <2>3 DEF Complete
<1> QED BY <1>1, <1>2

Answer(view, k) == IF Complete(view, k) THEN "resolved" ELSE "unresolved"

LEMMA ReadAnswers ==
  ASSUME NEW view, IsFiniteSet(DOMAIN view)
  PROVE  \A s \in SUBSET DOMAIN view : \A k \in DOMAIN view \ Visited(view)[s] :
           ReadOf(view)[s][k] = Answer(view, k)
<1> DEFINE D == DOMAIN view
           R == ReadOf(view)
           V == Visited(view)
           T == {s \in SUBSET D : \A k \in D \ V[s] : R[s][k] = Answer(view, k)}
<1>1. ASSUME NEW s \in SUBSET D, \A k \in D \ s : s \cup {k} \in T PROVE s \in T
  <2>1. ASSUME NEW k \in D \ V[s] PROVE R[s][k] = Answer(view, k)
    <3>1. R[s][k] = Reading(R, view, s, k)
      <4>1. R[s] = ReadsWith(R, view, s) /\ k \in D
        BY ReadIs
      <4> HIDE DEF R
      <4> QED BY <4>1 DEF ReadsWith
    <3>2. k \notin s /\ view[k] \cap V[s \cup {k}] = {}
      BY <2>1, VisitedIs DEF VisitsWith
    <3>3. s \cup {k} \in SUBSET D /\ \A d \in D \ V[s \cup {k}] : R[s \cup {k}][d] = Answer(view, d)
      BY <1>1, <3>2
    <3> DEFINE found == {R[s \cup {k}][d] : d \in view[k] \cap D}
    <3>4. found = {Answer(view, d) : d \in view[k] \cap D}
      <4>1. \A d \in view[k] \cap D : R[s \cup {k}][d] = Answer(view, d)
        BY <3>2, <3>3
      <4> QED BY <4>1
    <3>5. Reading(R, view, s, k) =
            IF "cycle" \in found THEN "cycle"
            ELSE IF "unresolved" \in found \/ ~(view[k] \subseteq D) THEN "unresolved" ELSE "resolved"
      BY <3>2 DEF Reading
    <3>6. /\ "cycle" \notin found
          /\ "unresolved" \in found <=> \E d \in view[k] \cap D : ~Complete(view, d)
      BY <3>4 DEF Answer
    <3> HIDE DEF found
    <3>7. "unresolved" \in found \/ ~(view[k] \subseteq D) <=> ~Complete(view, k)
      BY <2>1, <3>6, CompleteBelow
    <3> QED BY <3>1, <3>5, <3>6, <3>7 DEF Answer
  <2> QED BY <2>1
<1> SUFFICES SUBSET D \subseteq T
  OBVIOUS
<1>2. Descends(D, T)
  <2> HIDE DEF T
  <2> QED BY <1>1 DEF Descends
<1> HIDE DEF T
<1> QED BY <1>2, EveryStack

(* The rows of a place never meet a cycle, unless they were written           *)
(* unchecked.                                                               *)
Rows(values, p) == [k \in {j \in Keys : values[p, j] # NoSecret} |-> values[p, k]]
NoCycles(values, exempt) == \A p \in Places \ exempt : Acyclic(Rows(values, p))

LEMMA RowsAreRows == \A p : RowsAt(p) = Rows(held, p)
BY DEF RowsAt, KeysAt, Holds, Rows

LEMMA RowsFinite == \A values, p : IsFiniteSet(DOMAIN Rows(values, p))
BY KeysAssumption, FS_Subset DEF Rows

LEMMA FewerRows ==
  ASSUME NEW view, NEW less, DOMAIN less \subseteq DOMAIN view,
         \A k \in DOMAIN less : less[k] = view[k], Acyclic(view)
  PROVE  Acyclic(less)
BY DEF Acyclic

LEMMA CommitResolves ==
  ASSUME TreeTypeOK, NoCycles(held, unchecked), NEW d \in Drafts, CommitValue(d)
  PROVE  NoCycles(held', unchecked')
<1> DEFINE q == drafts[d]
           changed(value) == [held EXCEPT ![<<q.place, q.key>>] = value]
<1>1. q.place \in Places /\ held \in [Places \X Keys -> Values \cup {NoSecret}]
  BY DEF TreeTypeOK, Draft
<1>2. PICK value \in Values, checked \in BOOLEAN :
        /\ held' = changed(value)
        /\ unchecked' = IF checked THEN unchecked ELSE unchecked \cup {q.place}
        /\ checked => ~MeetsCycle(Rows(changed(value), q.place))
  BY DEF CommitValue, Rows
<1> DEFINE after == changed(value)
<1>3. /\ held' = after /\ unchecked \subseteq unchecked'
      /\ checked \/ q.place \in unchecked'
      /\ checked => ~MeetsCycle(Rows(after, q.place))
  BY <1>2
<1>4. ASSUME NEW p \in Places, p # q.place PROVE Rows(after, p) = Rows(held, p)
  <2>1. \A k \in Keys : after[p, k] = held[p, k]
    <3>1. ASSUME NEW k \in Keys PROVE after[<<p, k>>] = held[<<p, k>>]
      <4>1. <<p, k>> \in Places \X Keys /\ <<p, k>> # <<q.place, q.key>>
        BY <1>4
      <4> QED BY <1>1, <4>1
    <3> QED BY <3>1
  <2> HIDE DEF after
  <2> QED BY <2>1 DEF Rows
<1> HIDE DEF after, q
<1>5. ASSUME NEW p \in Places, p \notin unchecked' PROVE Acyclic(Rows(after, p))
  <2>1. CASE p = q.place
    <3>1. ~MeetsCycle(Rows(after, p))
      BY <1>2, <1>3, <1>5, <2>1
    <3> QED BY <3>1, RowsFinite, CycleCheck
  <2>2. CASE p # q.place
    <3>1. Acyclic(Rows(held, p))
      BY <1>2, <1>5 DEF NoCycles
    <3> QED BY <1>4, <2>2, <3>1
  <2> QED BY <2>1, <2>2
<1> QED BY <1>3, <1>5 DEF NoCycles

LEMMA DeleteResolves ==
  ASSUME TreeTypeOK, NoCycles(held, unchecked), DeleteValue
  PROVE  NoCycles(held', unchecked')
<1>1. PICK p \in Places, k \in Keys : held' = [held EXCEPT ![<<p, k>>] = NoSecret]
  BY DEF DeleteValue
<1> DEFINE after == [held EXCEPT ![<<p, k>>] = NoSecret]
<1>2. held \in [Places \X Keys -> Values \cup {NoSecret}]
  BY DEF TreeTypeOK
<1>3. ASSUME NEW r \in Places, NEW j \in Keys PROVE after[r, j] \in {held[r, j], NoSecret}
  <2>1. <<r, j>> \in Places \X Keys
    OBVIOUS
  <2>2. after[<<r, j>>] \in {held[<<r, j>>], NoSecret}
    BY <1>2, <2>1
  <2> QED BY <2>2
<1> HIDE DEF after
<1>4. ASSUME NEW r \in Places, Acyclic(Rows(held, r)) PROVE Acyclic(Rows(after, r))
  <2>1. DOMAIN Rows(after, r) = {j \in Keys : after[r, j] # NoSecret}
        /\ DOMAIN Rows(held, r) = {j \in Keys : held[r, j] # NoSecret}
    BY DEF Rows
  <2>2. \A j \in DOMAIN Rows(after, r) : Rows(after, r)[j] = after[r, j] /\ after[r, j] = held[r, j]
    BY <1>3, <2>1 DEF Rows
  <2>3. \A j \in DOMAIN Rows(held, r) : Rows(held, r)[j] = held[r, j]
    BY <2>1 DEF Rows
  <2>4. DOMAIN Rows(after, r) \subseteq DOMAIN Rows(held, r)
    BY <1>3, <2>1
  <2> QED BY <1>4, <2>2, <2>3, <2>4, FewerRows
<1>5. unchecked' = unchecked /\ held' = after
  BY <1>1 DEF DeleteValue, after
<1> QED BY <1>4, <1>5 DEF NoCycles

LEMMA TreeResolves ==
  TreeTypeOK /\ NoCycles(held, unchecked) /\ [TreeNext]_treeVars => NoCycles(held', unchecked')
<1> SUFFICES ASSUME TreeTypeOK, NoCycles(held, unchecked), [TreeNext]_treeVars
             PROVE  NoCycles(held', unchecked')
  OBVIOUS
<1>1. CASE DeleteValue
  BY <1>1, DeleteResolves
<1>2. ASSUME NEW d \in Drafts, CommitValue(d) PROVE NoCycles(held', unchecked')
  BY <1>2, CommitResolves
<1>3. CASE UNCHANGED <<held, unchecked>>
  BY <1>3
<1>4. CASE ChangeImport \/ UNCHANGED treeVars
  BY <1>3, <1>4 DEF ChangeImport, treeVars
<1>5. ASSUME NEW d \in Drafts,
             WriteValue(d) \/ CreateFolder(d) \/ DeleteFolder(d) \/ CreateImport(d)
      PROVE  NoCycles(held', unchecked')
  BY <1>3, <1>5 DEF WriteValue, CreateFolder, DeleteFolder, Deletes, CreateImport, Starts
<1>6. ASSUME NEW d \in Drafts,
             CommitFolder(d) \/ CommitDeleteFolder(d) \/ CommitImport(d) \/ RollBack(d)
      PROVE  NoCycles(held', unchecked')
  BY <1>3, <1>6 DEF CommitFolder, CommitDeleteFolder, CommitImport, RollBack
<1> QED BY <1>1, <1>2, <1>4, <1>5, <1>6 DEF TreeNext, TreeRequests, TreeCommits

LEMMA ReadsFollow == NoCycles(held, unchecked) => ReadsResolve
<1> SUFFICES ASSUME NoCycles(held, unchecked) PROVE ReadsResolve
  OBVIOUS
<1>1. ASSUME NEW p \in Places \ unchecked
      PROVE  /\ Acyclic(RowsAt(p))
             /\ \A k \in KeysAt(p) :
                  Resolution(RowsAt(p))[k] = IF Complete(RowsAt(p), k) THEN "resolved" ELSE "unresolved"
  <2> DEFINE view == Rows(held, p)
  <2>1. Acyclic(view) /\ IsFiniteSet(DOMAIN view)
    BY RowsFinite DEF NoCycles
  <2>2. KeysAt(p) = DOMAIN view
    BY DEF Rows, KeysAt, Holds
  <2> HIDE DEF view
  <2>3. \A k \in DOMAIN view : ReadOf(view)[{}][k] = Answer(view, k)
    BY <2>1, CycleIsThere, ReadAnswers
  <2>4. RowsAt(p) = view
    BY RowsAreRows DEF view
  <2> QED BY <2>1, <2>2, <2>3, <2>4, ResolutionIsRead DEF Answer
<1>2. ASSUME NEW p \in Places, NEW recursive \in BOOLEAN
      PROVE  (\E k \in DOMAIN View(p, recursive) : Resolution(View(p, recursive))[k] = "cycle")
             <=> ~Acyclic(View(p, recursive))
  <2> DEFINE view == View(p, recursive)
  <2>1. DOMAIN view \subseteq Keys
    BY DEF View
  <2>2. IsFiniteSet(DOMAIN view)
    BY <2>1, KeysAssumption, FS_Subset
  <2> HIDE DEF view
  <2>3. \A k \in DOMAIN view : Resolution(view)[k] = "cycle" <=> k \in Visited(view)[{}]
    BY <2>2, ReadMeets, ResolutionIsRead
  <2>4. Visited(view)[{}] \subseteq DOMAIN view
    BY <2>2, VisitedIs DEF VisitsWith
  <2>5. Visited(view)[{}] # {} <=> ~Acyclic(view)
    BY <2>2, CycleIsThere, CycleIsMet
  <2>6. (\E k \in DOMAIN view : Resolution(view)[k] = "cycle") <=> ~Acyclic(view)
    BY <2>3, <2>4, <2>5
  <2> QED BY <2>6 DEF view
<1> QED BY <1>1, <1>2 DEF ReadsResolve

(* A plain read of a place that was only written with the check meets no      *)
(* cycle and finds all that is there; any other fails exactly when there is   *)
(* a cycle to meet.                                                         *)
THEOREM ReadsFindTheirValues == TreeSpec => []ReadsResolve
<1>1. TreeInit => NoCycles(held, unchecked)
  <2> SUFFICES ASSUME TreeInit, NEW p \in Places PROVE Acyclic(Rows(held, p))
    BY DEF NoCycles
  <2>1. \A k \in Keys : held[<<p, k>>] = NoSecret
    BY DEF TreeInit
  <2>2. DOMAIN Rows(held, p) = {}
    BY <2>1 DEF Rows
  <2> HIDE DEF TreeInit
  <2> QED BY <2>2 DEF Acyclic
<1>2. NoCycles(held, unchecked) /\ TreeTypeOK /\ [TreeNext]_treeVars => NoCycles(held, unchecked)'
  BY TreeResolves DEF NoCycles, Acyclic, Rows
<1> QED BY <1>1, <1>2, ReadsFollow, TreeTypeCorrect, PTL DEF TreeSpec

=============================================================================
