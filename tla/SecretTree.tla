------------------------------ MODULE SecretTree ------------------------------
(***************************************************************************)
(* The tree of secrets: folders, imports from one place to another, values   *)
(* that refer to other keys, and how a read resolves them.                   *)
(*                                                                         *)
(* A place is an environment followed by the segments of a path; an          *)
(* environment alone is its root.  A value is the set of the keys it refers  *)
(* to.  A request that writes reads first, unlocked; from the moment it      *)
(* encrypts until its commit it holds the project row, so that its second    *)
(* step is alone with what it inserts (SecretStore has the versions and the  *)
(* locks in detail).  What a request brings with it and nothing asks for      *)
(* before its commit, like the value to be written, is chosen there.         *)
(***************************************************************************)
EXTENDS Integers, Sequences, FiniteSets

CONSTANTS
  Places,    \* <<environment>> and <<environment, segment, ...>>
  Likes,     \* <<p, q>>: the path of q is LIKE the path of p followed by '/%'
  Keys,
  Values,    \* what values refer to
  Drafts,    \* requests that may be in progress at the same time
  Priorities,\* of imports
  MaxRules,  \* bound on the imports inserted
  MaxEdits   \* bound on the requests made

NoSecret == {"no secret"}
NoKey == "no key"

(* A place and what is below it. *)
Below(p, q) == Len(p) =< Len(q) /\ \A i \in 1 .. Len(p) : p[i] = q[i]
Parents(p) == {q \in Places : Below(q, p)}
Within(p) == {q \in Places : Below(p, q)}
IsRoot(p) == Len(p) = 1
Chain(p) == {q \in Parents(p) : ~IsRoot(q)}

(* The keys of a place are finitely many rows; the folders above a place are *)
(* places.                                                                  *)
ASSUME KeysAssumption == IsFiniteSet(Keys)
ASSUME PlacesAssumption ==
  /\ Places # {}
  /\ \A p \in Places : Len(p) \in Nat \ {0} /\ \A n \in 2 .. Len(p) : SubSeq(p, 1, n) \in Places
(* What is below a folder is LIKE it, and so may be other folders of the      *)
(* environment, as '_' and '%' may be in a segment and are not escaped.      *)
ASSUME LikesAssumption ==
  /\ \A r \in Likes : /\ r[1] \in Places /\ ~IsRoot(r[1]) /\ r[2] \in Places
                      /\ r[1][1] = r[2][1] /\ Len(r[1]) < Len(r[2])
  /\ \A p \in Places : ~IsRoot(p) => \A q \in Within(p) \ {p} : <<p, q>> \in Likes
ASSUME ValuesAssumption == Values \subseteq SUBSET Keys
ASSUME EditsAssumption == Priorities \subseteq Int /\ MaxRules \in Nat /\ MaxEdits \in Nat

VARIABLES
  folders,   \* rows of secret_folders; roots have none
  held,      \* the latest value of each key at each place, or NoSecret
  rules,     \* secret_imports, in the order of their inserts
  drafts,    \* what each request in progress has read
  edits,     \* the number of requests made
  unchecked, \* history: places that were written without the check for cycles
  crossed,   \* history: places where a write and the deletion of a folder overlapped
  deleted    \* history: folders that were deleted by their own path

treeVars == <<folders, held, rules, drafts, edits, unchecked, crossed, deleted>>

-----------------------------------------------------------------------------
Rule == [target: Places, source: Places, recursive: BOOLEAN, priority: Priorities,
         enabled: BOOLEAN, exists: BOOLEAN]
Draft == [op: {"none", "write", "folder", "delete folder", "import"}, place: Places,
          key: Keys \cup {NoKey}, seen: Values \cup {NoSecret}, rows: SUBSET Places,
          source: Places]

ThePlace == CHOOSE p \in Places : TRUE

Holds(p, k) == held[p, k] # NoSecret
KeysAt(p) == {k \in Keys : Holds(p, k)}

(* get_latest_secret_rows with validate_reference_cycles: the keys at one    *)
(* place and what they refer to.                                            *)
RowsAt(p) == [k \in KeysAt(p) |-> held[p, k]]

(* visit in validate_reference_cycles: the keys below which the search, with  *)
(* those on its stack, comes upon one of them.                               *)
MeetsCycle(view) ==
  LET Visit[stack \in SUBSET DOMAIN view] ==
        {k \in DOMAIN view : k \in stack \/ view[k] \cap Visit[stack \cup {k}] # {}}
  IN  Visit[{}] # {}

(* resolve_key: the first error on the way, or the value.                    *)
Resolution(view) ==
  LET Resolve[stack \in SUBSET DOMAIN view] ==
        [k \in DOMAIN view |->
           IF k \in stack THEN "cycle"
           ELSE LET found == {Resolve[stack \cup {k}][d] : d \in view[k] \cap DOMAIN view}
                IN  IF "cycle" \in found THEN "cycle"
                    ELSE IF "unresolved" \in found \/ ~(view[k] \subseteq DOMAIN view)
                    THEN "unresolved" ELSE "resolved"]
  IN  Resolve[{}]

(* _select_flat_rows: of the rows of one key, the one nearest to the place.  *)
Nearest(p, k, recursive) ==
  LET rows == {q \in IF recursive THEN Within(p) ELSE {p} : Holds(q, k)}
  IN  CHOOSE q \in rows : \A r \in rows : Len(q) =< Len(r)

HasRow(p, k, recursive) == \E q \in IF recursive THEN Within(p) ELSE {p} : Holds(q, k)

Applicable(p, recursive) ==
  {i \in DOMAIN rules : /\ rules[i].exists /\ rules[i].enabled
                        /\ rules[i].target = p \/ (recursive /\ rules[i].target \in Within(p))}

(* resolve_secret_values: local rows first, then the imports by priority and *)
(* age.                                                                     *)
View(p, recursive) ==
  LET Offering(k) == {i \in Applicable(p, recursive) :
                        HasRow(rules[i].source, k, rules[i].recursive)}
      First(k) == CHOOSE i \in Offering(k) : \A j \in Offering(k) :
                    \/ rules[i].priority > rules[j].priority
                    \/ rules[i].priority = rules[j].priority /\ i =< j
  IN  [k \in {q \in Keys : HasRow(p, q, recursive) \/ Offering(q) # {}} |->
         IF HasRow(p, k, recursive) THEN held[Nearest(p, k, recursive), k]
         ELSE LET rule == rules[First(k)]
              IN  held[Nearest(rule.source, k, rule.recursive), k]]

NoDraft == [op |-> "none", place |-> ThePlace, key |-> NoKey, seen |-> NoSecret,
            rows |-> {}, source |-> ThePlace]

Starts(d, draft) ==
  /\ edits' = edits + 1
  /\ drafts' = [drafts EXCEPT ![d] = draft]
  /\ UNCHANGED <<folders, held, rules, unchecked, deleted>>

Ends(d) == drafts' = [drafts EXCEPT ![d] = NoDraft] /\ UNCHANGED <<edits, crossed>>

(* The folders on the way to a place while one of them is being deleted.    *)
Crosses(p) ==
  {q \in Parents(p) : \E d \in Drafts : /\ drafts[d].op = "delete folder"
                                      /\ p \in Within(drafts[d].place)}

-----------------------------------------------------------------------------
TreeInit ==
  /\ folders = {}
  /\ held = [q \in Places \X Keys |-> NoSecret]
  /\ rules = <<>>
  /\ drafts = [d \in Drafts |-> NoDraft]
  /\ edits = 0
  /\ unchecked = {} /\ crossed = {} /\ deleted = {}

(* push_secrets, create_secret, update_secret, rollback_secret, recovery or    *)
(* an approved change.                                                      *)
WriteValue(d) ==
  \E p \in Places, k \in Keys :
    /\ Starts(d, [NoDraft EXCEPT !.op = "write", !.place = p, !.key = k,
                    !.seen = held[p, k], !.rows = Chain(p) \ folders])
    /\ crossed' = crossed \cup Crosses(p)

(* Mutant: the values are checked before the new one is among them. *)
CommitValueUnchecked(d) ==
  LET q == drafts[d]
  IN  \E value \in Values, checked \in BOOLEAN :
        /\ q.op = "write"
        /\ held[q.place, q.key] \in {q.seen, NoSecret} /\ q.rows \cap folders = {}
        /\ checked => ~MeetsCycle(RowsAt(q.place))
        /\ held' = [held EXCEPT ![<<q.place, q.key>>] = value]
        /\ folders' = folders \cup q.rows
        /\ unchecked' = IF checked THEN unchecked ELSE unchecked \cup {q.place}
        /\ Ends(d)
        /\ UNCHANGED <<rules, deleted>>

(* _create_secret_version, and then the check: the folders that were found   *)
(* missing and the version after the one that was read, unless another has   *)
(* inserted one of them; a key that was deleted meanwhile clashes with none. *)
(* Rollback, recovery and an approved change, even of a new key, do not      *)
(* check.                                                                   *)
CommitValue(d) ==
  LET q == drafts[d]
  IN  \E value \in Values, checked \in BOOLEAN :
        LET after == [held EXCEPT ![<<q.place, q.key>>] = value]
            keys == {k \in Keys : after[q.place, k] # NoSecret}
        IN  /\ q.op = "write"
            /\ held[q.place, q.key] \in {q.seen, NoSecret} /\ q.rows \cap folders = {}
            /\ checked => ~MeetsCycle([k \in keys |-> after[q.place, k]])
            /\ held' = after
            /\ folders' = folders \cup q.rows
            /\ unchecked' = IF checked THEN unchecked ELSE unchecked \cup {q.place}
            /\ Ends(d)
            /\ UNCHANGED <<rules, deleted>>

(* A conflict, or a cycle: all of it is rolled back. *)
RollBack(d) ==
  /\ drafts[d].op # "none"
  /\ Ends(d)
  /\ UNCHANGED <<folders, held, rules, unchecked, deleted>>

(* permanently_delete_secret *)
DeleteValue ==
  /\ \E p \in Places, k \in Keys : Holds(p, k) /\ held' = [held EXCEPT ![<<p, k>>] = NoSecret]
  /\ edits' = edits + 1
  /\ UNCHANGED <<folders, rules, drafts, unchecked, crossed, deleted>>

-----------------------------------------------------------------------------
(* create_secret_folder with ensure_secret_folder *)
CreateFolder(d) ==
  \E p \in Places \ folders :
    /\ ~IsRoot(p)
    /\ Starts(d, [NoDraft EXCEPT !.op = "folder", !.place = p, !.rows = Chain(p) \ folders])
    /\ crossed' = crossed \cup Crosses(p)

CommitFolder(d) ==
  LET q == drafts[d]
  IN  /\ q.op = "folder" /\ q.rows \cap folders = {}
      /\ folders' = folders \cup q.rows
      /\ Ends(d)
      /\ UNCHANGED <<held, rules, unchecked, deleted>>

(* descendants in delete_secret_folder *)
Descendants(p) == {q \in folders : <<p, q>> \in Likes}

Deletes(d, p) ==
  /\ Starts(d, [NoDraft EXCEPT !.op = "delete folder", !.place = p,
                               !.rows = {p} \cup Descendants(p)])
  /\ crossed' = crossed \cup UNION {Parents(drafts[e].place) :
                   e \in {f \in Drafts : /\ drafts[f].op \in {"write", "folder", "import"}
                                        /\ drafts[f].place \in Within(p)}}

(* Mutant: only the secrets of the folder itself are looked for. *)
DeleteFolderShallow(d) ==
  \E p \in folders, recursive \in BOOLEAN :
    /\ recursive \/ Descendants(p) = {}
    /\ KeysAt(p) = {}
    /\ Deletes(d, p)

(* delete_secret_folder: no secret in it or below; what is LIKE its           *)
(* descendants only with "recursive".                                       *)
DeleteFolder(d) ==
  \E p \in folders, recursive \in BOOLEAN :
    /\ recursive \/ Descendants(p) = {}
    /\ \A q \in Within(p) : KeysAt(q) = {}
    /\ Deletes(d, p)

CommitDeleteFolder(d) ==
  /\ drafts[d].op = "delete folder"
  /\ folders' = folders \ drafts[d].rows
  /\ deleted' = deleted \cup {drafts[d].place}
  /\ Ends(d)
  /\ UNCHANGED <<held, rules, unchecked>>

-----------------------------------------------------------------------------
Imports(p, q) ==
  \E i \in DOMAIN rules : rules[i].exists /\ rules[i].target = p /\ rules[i].source = q

(* create_secret_import: not onto itself, not twice; it makes the folders of *)
(* its target.                                                              *)
CreateImport(d) ==
  \E p, q \in Places :
    /\ p # q /\ ~Imports(p, q)
    /\ Starts(d, [NoDraft EXCEPT !.op = "import", !.place = p, !.source = q,
                    !.rows = Chain(p) \ folders])
    /\ crossed' = crossed \cup Crosses(p)

CommitImport(d) ==
  LET q == drafts[d]
  IN  /\ q.op = "import" /\ Len(rules) < MaxRules
      /\ q.rows \cap folders = {} /\ ~Imports(q.place, q.source)
      /\ \E recursive, enabled \in BOOLEAN, priority \in Priorities :
           rules' = Append(rules, [target |-> q.place, source |-> q.source,
                                   recursive |-> recursive, priority |-> priority,
                                   enabled |-> enabled, exists |-> TRUE])
      /\ folders' = folders \cup q.rows
      /\ Ends(d)
      /\ UNCHANGED <<held, unchecked, deleted>>

(* update_secret_import, delete_secret_import *)
ChangeImport ==
  /\ \E i \in DOMAIN rules :
       /\ rules[i].exists
       /\ \/ \E recursive, enabled \in BOOLEAN, priority \in Priorities :
               rules' = [rules EXCEPT ![i].enabled = enabled, ![i].recursive = recursive,
                                      ![i].priority = priority]
          \/ rules' = [rules EXCEPT ![i].exists = FALSE]
  /\ edits' = edits + 1
  /\ UNCHANGED <<folders, held, drafts, unchecked, crossed, deleted>>

-----------------------------------------------------------------------------
TreeRequests ==
  /\ edits < MaxEdits
  /\ \/ DeleteValue \/ ChangeImport
     \/ \E d \in Drafts :
          /\ drafts[d].op = "none"
          /\ WriteValue(d) \/ CreateFolder(d) \/ DeleteFolder(d) \/ CreateImport(d)

TreeCommits ==
  \E d \in Drafts :
    \/ CommitValue(d) \/ CommitFolder(d) \/ CommitDeleteFolder(d) \/ CommitImport(d)
    \/ RollBack(d)

TreeNext == TreeRequests \/ TreeCommits

TreeSpec == TreeInit /\ [][TreeNext]_treeVars

-----------------------------------------------------------------------------
(* Rows hold what their columns hold; there are no two imports of the same  *)
(* source to the same target.                                               *)
TreeTypeOK ==
  /\ folders \subseteq Places /\ \A p \in folders : ~IsRoot(p)
  /\ held \in [Places \X Keys -> Values \cup {NoSecret}]
  /\ rules \in Seq(Rule)
  /\ \A i, j \in DOMAIN rules :
       /\ i # j /\ rules[i].exists /\ rules[j].exists
       => rules[i].target # rules[j].target \/ rules[i].source # rules[j].source
  /\ drafts \in [Drafts -> Draft] /\ edits \in Nat
  /\ unchecked \subseteq Places /\ crossed \subseteq Places /\ deleted \subseteq Places

(* A reference graph without cycles: in every set of keys there is one that *)
(* refers to none of them.                                                  *)
Acyclic(view) ==
  \A keys \in (SUBSET DOMAIN view) \ {{}} : \E k \in keys : view[k] \cap keys = {}

(* All that a key refers to, directly or not, is there. *)
Complete(view, k) == \E keys \in SUBSET DOMAIN view : k \in keys /\ \A j \in keys : view[j] \subseteq keys

(* However writes to a place overlap, a plain read of it meets no cycle and  *)
(* leaves open exactly the keys that miss something they refer to, unless a *)
(* rollback, a recovery or an approved change wrote there; a read with the  *)
(* places below or with imports, which no write checks, fails exactly when  *)
(* there is a cycle (validate_reference_cycles, resolve_secret_values).     *)
ReadsResolve ==
  /\ \A p \in Places \ unchecked :
       LET view == RowsAt(p)
           answer == Resolution(view)
       IN  /\ Acyclic(view)
           /\ \A k \in KeysAt(p) :
                answer[k] = IF Complete(view, k) THEN "resolved" ELSE "unresolved"
  /\ \A p \in Places, recursive \in BOOLEAN :
       LET view == View(p, recursive)
           answer == Resolution(view)
       IN  (\E k \in DOMAIN view : answer[k] = "cycle") <=> ~Acyclic(view)

(* Folders elsewhere in the tree that the deletion of another takes for some  *)
(* of its descendants.                                                      *)
Mistaken(roots) == {q \in Places : \E r \in roots : <<r, q>> \in Likes /\ ~Below(r, q)}

(* A secret and a folder have all the folders above them, so that somebody   *)
(* who walks the tree finds them, however writes, imports and deletions      *)
(* follow one another: what is missing was taken by a deletion that         *)
(* overlapped with their insertion, or by that of a folder elsewhere whose   *)
(* path, read as a pattern, matches (delete_secret_folder,                  *)
(* ensure_secret_folder).                                                   *)
FoldersHold ==
  \A p \in Places \ crossed :
    p \in folders \/ KeysAt(p) # {} => Chain(p) \subseteq folders \cup Mistaken(deleted)

=============================================================================
