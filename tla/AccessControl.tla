------------------------------ MODULE AccessControl ------------------------------
(***************************************************************************)
(* Roles, their permissions and their assignment to the users and machines   *)
(* of a project, and the decision about a request by them.                  *)
(*                                                                         *)
(* Updating a role deletes the permissions it finds and inserts the new ones *)
(* at its commit; it locks the permissions it deletes, never the role, so    *)
(* that two updates of one role may overlap.                                *)
(***************************************************************************)
EXTENDS Integers, Sequences, FiniteSets
LOCAL INSTANCE SequencesExt

CONSTANTS
  Administrators, \* requests that may be in progress at the same time
  AccessRoles,    \* rows of access_roles
  Subjects,       \* users but the owner, and machine identities
  Environments,
  Paths,          \* sequences of segments; the root has none
  Unset,          \* NULL in a permission, None in a request
  RoleLists,      \* the lists of permissions that a role may be given
  MaxUpdates      \* bound on the requests made

(* Of the permissions for one resource. *)
Actions == {"list", "read", "write"}
Permission ==
  [action: Actions \cup {"*"}, environment: Environments \cup {Unset},
   path: Paths \cup {Unset}, recursive: BOOLEAN, effect: {"allow", "deny"}]

ASSUME RoleListsAssumption == RoleLists \subseteq SUBSET Permission
ASSUME UpdatesAssumption == MaxUpdates \in Nat

VARIABLES
  written,     \* the lists of permissions written, in the order of their commits
  kept,        \* access_role_permissions: which of them each role has
  existing,    \* access_roles
  assignments, \* access_role_assignments
  administrators, \* what each update in progress has found
  updates      \* the number of requests made

accessVars == <<written, kept, existing, assignments, administrators, updates>>

-----------------------------------------------------------------------------
(* began: how many lists had been written when the request deleted what it   *)
(* found.                                                                   *)
Update == [role: AccessRoles, list: SUBSET Permission, found: SUBSET Nat, began: Nat]
NoUpdate == [role |-> "no role"]
WrittenList == [roles: SUBSET AccessRoles, began: Nat, list: SUBSET Permission]

ListFor(roles, began, list) == [roles |-> roles, began |-> began, list |-> list]

PermissionsOf(r) == UNION {written[i].list : i \in kept[r]}
RolesOf(s) == {r \in existing : <<r, s>> \in assignments}

(* _permission_matches, _path_matches: a permission without a path is for    *)
(* every path, and only such a one is for a request without a path, as the   *)
(* lists of the secrets of an environment or a project may be.              *)
Matches(permission, action, environment, path) ==
  /\ permission.action \in {"*", action}
  /\ permission.environment \in {Unset, environment}
  /\ \/ permission.path = Unset
     \/ /\ path # Unset
        /\ permission.path = path \/ (permission.recursive /\ IsPrefix(permission.path, path))

Says(list, effect, action, environment, path) ==
  \E p \in list : Matches(p, action, environment, path) /\ p.effect = effect

(* Mutant: a permission that allows is enough. *)
EvaluatedAllowing(s, action, environment, path) ==
  Says(UNION {PermissionsOf(r) : r \in RolesOf(s)}, "allow", action, environment, path)

(* evaluate_permission: some permission of some role allows and none denies. *)
Evaluated(s, action, environment, path) ==
  LET list == UNION {PermissionsOf(r) : r \in RolesOf(s)}
  IN  /\ Says(list, "allow", action, environment, path)
      /\ ~Says(list, "deny", action, environment, path)

-----------------------------------------------------------------------------
(* Some roles have been created with one list, and some are assigned. *)
AccessInit ==
  /\ existing \in SUBSET AccessRoles
  /\ \E list \in RoleLists \ {{}} : written = <<ListFor(existing, 0, list)>>
  /\ kept = [r \in AccessRoles |-> IF r \in existing THEN {1} ELSE {}]
  /\ assignments \in SUBSET (existing \X Subjects)
  /\ administrators = [c \in Administrators |-> NoUpdate]
  /\ updates = 0

Counted == updates < MaxUpdates /\ updates' = updates + 1

(* create_access_role: with a new id and at least one permission. *)
CreateRole ==
  /\ Counted
  /\ \E r \in AccessRoles \ existing, list \in RoleLists \ {{}} :
       /\ \A c \in Administrators : administrators[c].role # r
       /\ existing' = existing \cup {r}
       /\ written' = Append(written, ListFor({r}, Len(written), list))
       /\ kept' = [kept EXCEPT ![r] = {Len(written) + 1}]
  /\ UNCHANGED <<assignments, administrators>>

(* update_access_role with _replace_permissions: the permissions that are    *)
(* there now are deleted.                                                   *)
UpdateRole(c) ==
  /\ Counted /\ administrators[c] = NoUpdate
  /\ \E r \in existing, list \in RoleLists :
       administrators' = [administrators EXCEPT ![c] =
                            [role |-> r, list |-> list, found |-> kept[r], began |-> Len(written)]]
  /\ UNCHANGED <<written, kept, existing, assignments>>

(* Mutant: the new permissions are put beside the old ones. *)
CommitUpdateRoleKeeping(c) ==
  LET q == administrators[c]
  IN  /\ q # NoUpdate
      /\ IF q.role \in existing
         THEN /\ written' = Append(written, ListFor({q.role}, q.began, q.list))
              /\ kept' = [kept EXCEPT ![q.role] = @ \cup {Len(written) + 1}]
         ELSE UNCHANGED <<written, kept>>
      /\ administrators' = [administrators EXCEPT ![c] = NoUpdate]
      /\ UNCHANGED <<existing, assignments, updates>>

(* What another update has inserted meanwhile stays beside the new list; a   *)
(* role that was deleted meanwhile makes the inserts fail.  Of two that      *)
(* delete the same permissions the second waits for the first: either may   *)
(* have been that, so the order of their commits is left open.              *)
CommitUpdateRole(c) ==
  LET q == administrators[c]
  IN  /\ q # NoUpdate
      /\ IF q.role \in existing
         THEN /\ written' = Append(written, ListFor({q.role}, q.began, q.list))
              /\ kept' = [kept EXCEPT ![q.role] = (@ \ q.found) \cup {Len(written) + 1}]
         ELSE UNCHANGED <<written, kept>>
      /\ administrators' = [administrators EXCEPT ![c] = NoUpdate]
      /\ UNCHANGED <<existing, assignments, updates>>

(* An update holds the permissions it has deleted until its commit. *)
HoldsPermissions(c, r) ==
  LET q == administrators[c]
  IN  /\ q # NoUpdate /\ q.role = r
      /\ \E i \in q.found \cap kept[r] : written[i].list # {}

(* delete_access_role: its permissions and assignments go with it. *)
DeleteRole ==
  /\ Counted
  /\ \E r \in existing :
       /\ \A c \in Administrators : ~HoldsPermissions(c, r)
       /\ existing' = existing \ {r}
       /\ kept' = [kept EXCEPT ![r] = {}]
       /\ assignments' = {a \in assignments : a[1] # r}
  /\ UNCHANGED <<written, administrators>>

(* create_role_assignment: once to a subject. *)
CreateAssignment ==
  /\ Counted
  /\ \E r \in existing, s \in Subjects :
       /\ <<r, s>> \notin assignments
       /\ assignments' = assignments \cup {<<r, s>>}
  /\ UNCHANGED <<written, kept, existing, administrators>>

(* delete_role_assignment *)
DeleteAssignment ==
  /\ Counted
  /\ \E a \in assignments : assignments' = assignments \ {a}
  /\ UNCHANGED <<written, kept, existing, administrators>>

AccessNext ==
  \/ CreateRole \/ DeleteRole \/ CreateAssignment \/ DeleteAssignment
  \/ \E c \in Administrators : UpdateRole(c) \/ CommitUpdateRole(c)

AccessSpec == AccessInit /\ [][AccessNext]_accessVars

-----------------------------------------------------------------------------
(* Rows hold what their columns hold; only roles that exist have anything.  *)
AccessTypeOK ==
  /\ written \in Seq(WrittenList)
  /\ kept \in [AccessRoles -> SUBSET DOMAIN written] /\ existing \subseteq AccessRoles
  /\ \A r \in AccessRoles \ existing : kept[r] = {}
  /\ assignments \subseteq existing \X Subjects
  /\ administrators \in [Administrators -> Update \cup {NoUpdate}] /\ updates \in Nat

(* What the owners have asked for, whatever the tables hold: a list is the   *)
(* last of its role, or a request that began after its commit has replaced   *)
(* it, or it is one of several whose requests overlapped.                   *)
ListsOf(r) == {i \in DOMAIN written : r \in written[i].roles}
Replaced(r, i) == \E j \in ListsOf(r) : written[j].began >= i
LastOf(r) == CHOOSE i \in ListsOf(r) : \A j \in ListsOf(r) : j =< i

(* However updates of roles overlap, and roles are assigned and deleted      *)
(* meanwhile: a request is allowed only by a list of one of the subject's    *)
(* roles that no later update has replaced, and never against what the last  *)
(* update of any of them denies; and it is allowed if the last update of one *)
(* of them allows it and no list that may still be there denies it           *)
(* (_replace_permissions, evaluate_permission).                             *)
DecisionsFollowUpdates ==
  \A s \in Subjects, action \in Actions :
  \A environment \in Environments \cup {Unset}, path \in Paths \cup {Unset} :
    LET Said(r, i, effect) == Says(written[i].list, effect, action, environment, path)
        Unreplaced(r) == {i \in ListsOf(r) : ~Replaced(r, i)}
    IN  /\ Evaluated(s, action, environment, path) =>
             /\ \E r \in RolesOf(s) : \E i \in Unreplaced(r) : Said(r, i, "allow")
             /\ \A r \in RolesOf(s) : ~Said(r, LastOf(r), "deny")
        /\ /\ \E r \in RolesOf(s) : Said(r, LastOf(r), "allow")
           /\ \A r \in RolesOf(s) : \A i \in Unreplaced(r) : ~Said(r, i, "deny")
           => Evaluated(s, action, environment, path)

=============================================================================
