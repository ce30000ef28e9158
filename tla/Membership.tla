------------------------------ MODULE Membership ------------------------------
(***************************************************************************)
(* Who belongs to a project: invitations, members and their permissions,    *)
(* and the legacy runtime tokens that are shared with members.              *)
(*                                                                         *)
(* A request reads its rows at the start, among them the membership that    *)
(* gives its actor the right to make it, and writes them at its commit; no  *)
(* row is locked in between.  A call is therefore two steps here: the       *)
(* action of the endpoint reads, and the Commit action of its kind writes   *)
(* what SQLAlchemy emits: inserts, deletes by primary key, and updates of   *)
(* the columns that differ from what was read.                              *)
(***************************************************************************)
EXTENDS Integers, Sequences, FiniteSets

CONSTANTS
  Calls,       \* requests that may be in progress at the same time
  Owner,       \* the owner of the project
  Users,       \* everybody else who has an account
  NoUser,
  Offers,      \* the sets of permissions that requests grant or take away
  Founders,    \* the memberships the project may start with
  Visibilities,\* the values audit_log_visibility may take
  Tokens,      \* rows of runtime_tokens, in the order of their names
  Legacy,      \* those with an encrypted copy, which alone are shareable
  MaxSends,    \* MAX_SENDS_PER_COOLDOWN_CYCLE
  MaxRows,     \* bound on the invitations inserted
  MaxCalls     \* bound on the requests made

People == Users \cup {Owner}
Permissions == {"secrets", "tokens", "team", "audit"}
NotMember == {"not a member"}

ASSUME PeopleAssumption == Owner \notin Users /\ NoUser \notin People
ASSUME OffersAssumption == Offers \subseteq SUBSET Permissions
ASSUME FoundersAssumption == Founders \subseteq [Users -> (SUBSET Permissions) \cup {NotMember}]
ASSUME VisibilitiesAssumption == Visibilities \subseteq {"owner_only", "members", "specific"}
ASSUME TokensAssumption == Legacy \subseteq Tokens
ASSUME SendsAssumption == MaxSends \in Nat \ {0} /\ MaxRows \in Nat /\ MaxCalls \in Nat

VARIABLES
  visibility, \* projects.audit_log_visibility
  member,     \* project_members: the permissions of each person, or NotMember
  invitations,\* project_invitations, in the order of their inserts
  tokens,     \* runtime_tokens: the state of each
  shares,     \* runtime_token_shares
  calls,      \* what each request in progress has read
  begun,      \* the number of requests made
  granted,    \* history: permissions the owner has given to anybody
  revealed,   \* history: shared tokens a present or removed member has seen
  served,     \* history: tokens that have fetched secrets
  raced       \* history: people whose rows changed under a request about them

membershipVars ==
  <<visibility, member, invitations, tokens, shares, calls, begun, granted, revealed, served, raced>>

-----------------------------------------------------------------------------
InvitationStatuses == {"pending", "accepted", "rejected", "revoked", "expired"}
Invitation ==
  [email: Users, by: People, permissions: SUBSET Permissions, status: InvitationStatuses,
   sends: 0 .. MaxSends, cooling: BOOLEAN, due: BOOLEAN]

Share == [token: Legacy, user: People, manage: BOOLEAN]

(* What a call has read and is going to write: on, off are the permission   *)
(* columns that change for each of its people, pairs the shares it has read.*)
(* gone: people whose membership row was deleted after the call had read it.*)
Pair == [user: People, token: Tokens]
Columns == UNION {[people -> SUBSET Permissions] : people \in SUBSET People}
Call ==
  [op: {"none", "invite", "resend", "settle", "join", "permit", "remove", "share", "fetch"},
   users: SUBSET People, by: People \cup {NoUser}, row: Nat, status: InvitationStatuses,
   sends: 0 .. MaxSends, on: Columns, off: Columns, pairs: SUBSET Pair,
   flag: BOOLEAN, stale: BOOLEAN, gone: SUBSET People]

NoCall ==
  [op |-> "none", users |-> {}, by |-> NoUser, row |-> 0, status |-> "pending", sends |-> 0,
   on |-> [v \in {} |-> {}], off |-> [v \in {} |-> {}], pairs |-> {},
   flag |-> FALSE, stale |-> FALSE, gone |-> {}]

IsMember(u) == member[u] # NotMember

(* get_project_access: what a member may do; whether it sees the audit log  *)
(* is a matter of the project's setting first.                              *)
Access(u) ==
  IF u = Owner THEN Permissions
  ELSE IF ~IsMember(u) THEN {}
  ELSE CASE visibility = "members" -> member[u] \cup {"audit"}
         [] visibility = "specific" -> member[u]
         [] OTHER -> member[u] \ {"audit"}

(* get_undelegable_permissions *)
MayGrant(u, permissions) == u = Owner \/ permissions \subseteq Access(u)

Present(t) == tokens[t] \in {"live", "expired"}

TokenStates == {"absent", "live", "expired", "deleted", "cascaded"}

Pending(u) == {r \in DOMAIN invitations :
                 invitations[r].email = u /\ invitations[r].status = "pending"}

(* assert_can_send, apply_cooldown_reset, record_send_and_maybe_cooldown *)
MaySend(invitation) == ~(invitation.sends >= MaxSends /\ invitation.cooling)

(* Mutant: the cycle is never begun anew. *)
SendsAfterUncapped(invitation) == invitation.sends + 1
SendsAfter(invitation) == IF invitation.sends >= MaxSends THEN 1 ELSE invitation.sends + 1

(* mark_expired_pending *)
DueRow(r) == invitations[r].status = "pending" /\ invitations[r].due

SharedWith(u) == {s.token : s \in {x \in shares : x.user = u}}
Shared(people) == {[user |-> s.user, token |-> s.token] : s \in {x \in shares : x.user \in people}}

(* The action of an endpoint ends its reading by leaving its call. *)
Begin(c, fields) ==
  /\ begun' = begun + 1
  /\ calls' = [calls EXCEPT ![c] = fields]
  /\ UNCHANGED <<visibility, member, invitations, tokens, shares, revealed, served, raced>>

(* A commit that wrote memberships or shares of these people, removed these *)
(* members, and wrote these invitations: calls that had read them are stale.*)
Commit(c, people, removed, rows) ==
  LET Reads(d) == calls[d].users \cup {calls[d].by}
      Overlaps(d) == Reads(d) \cap people # {} \/ calls[d].row \in rows
  IN  /\ calls' = [d \in Calls |->
                     IF d = c \/ calls[d].op = "none" THEN IF d = c THEN NoCall ELSE calls[d]
                     ELSE [calls[d] EXCEPT !.stale = @ \/ Overlaps(d),
                                           !.gone = @ \cup (removed \cap calls[d].users)]]
      /\ raced' = IF calls[c].stale THEN raced \cup calls[c].users ELSE raced
      /\ UNCHANGED <<visibility, begun, granted, served>>

-----------------------------------------------------------------------------
MembershipInit ==
  /\ visibility \in Visibilities
  /\ \E founders \in Founders :
       /\ member = [u \in People |-> IF u = Owner THEN Permissions ELSE founders[u]]
       /\ granted = (UNION {founders[u] : u \in {v \in Users : founders[v] # NotMember}})
                      \cup (IF visibility = "members" THEN {"audit"} ELSE {})
  /\ invitations = <<>>
  /\ tokens = [t \in Tokens |-> IF t \in Legacy THEN "live" ELSE "absent"]
  /\ shares = {}
  /\ calls = [c \in Calls |-> NoCall]
  /\ begun = 0
  /\ revealed = {} /\ served = {} /\ raced = {}

Grants(a, permissions) == granted' = IF a = Owner THEN granted \cup permissions ELSE granted

(* update_project *)
UpdateProject ==
  /\ begun < MaxCalls
  /\ begun' = begun + 1
  /\ visibility' \in Visibilities \ {visibility}
  /\ granted' = IF visibility' = "members" THEN granted \cup {"audit"} ELSE granted
  /\ UNCHANGED <<member, invitations, tokens, shares, calls, revealed, served, raced>>

(* Mutant: any team manager may invite with any permissions. *)
InviteAnyone(c) ==
  \E a \in People, u \in Users, offer \in Offers :
    /\ "team" \in Access(a) /\ u # a /\ ~IsMember(u)
    /\ Grants(a, offer)
    /\ Pending(u) = {}
    /\ Begin(c, [NoCall EXCEPT !.op = "invite", !.users = {u}, !.by = a, !.on = [v \in {u} |-> offer]])

(* invite_member *)
MayInvite(a, u, offer) == "team" \in Access(a) /\ MayGrant(a, offer) /\ u # a /\ ~IsMember(u)

(* create_or_resend_invitation: a row that ran out expires   *)
(* and a new one is inserted; a pending one is changed and sent again,      *)
(* unless it has been sent too often; with none there is a new row.         *)
Invite(c) ==
  \E a \in People, u \in Users, offer \in Offers :
    /\ MayInvite(a, u, offer)
    /\ Grants(a, offer)
    /\ \/ /\ \A r \in Pending(u) : DueRow(r)
          /\ \E r \in IF Pending(u) = {} THEN {0} ELSE Pending(u) :
               Begin(c, [NoCall EXCEPT !.op = "invite", !.users = {u}, !.by = a, !.on = [v \in {u} |-> offer],
                                       !.row = r])
       \/ \E r \in Pending(u) :
            LET seen == invitations[r]
            IN  /\ ~DueRow(r)
                /\ MaySend(seen)
                /\ Begin(c, [NoCall EXCEPT
                      !.op = "resend", !.users = {u}, !.row = r,
                      !.by = IF seen.by = a THEN NoUser ELSE a,
                      !.sends = SendsAfter(seen),
                      !.on = [v \in {u} |-> offer \ seen.permissions],
                      !.off = [v \in {u} |-> seen.permissions \ offer]])

(* Another pending row for the address makes the insert fail.               *)
CommitInvite(c) ==
  LET q == calls[c]
      u == CHOOSE v \in q.users : TRUE
  IN  /\ q.op = "invite" /\ Len(invitations) < MaxRows
      /\ IF Pending(u) \subseteq {q.row}
         THEN /\ invitations' =
                   Append([r \in DOMAIN invitations |->
                             IF r = q.row THEN [invitations[r] EXCEPT !.status = "expired"]
                             ELSE invitations[r]],
                          [email |-> u, by |-> q.by, permissions |-> q.on[u], status |-> "pending",
                           sends |-> 1, cooling |-> MaxSends = 1, due |-> FALSE])
              /\ Commit(c, {}, {}, {q.row} \ {0})
         ELSE UNCHANGED invitations /\ Commit(c, {}, {}, {})
      /\ UNCHANGED <<member, tokens, shares, revealed>>

CommitResend(c) ==
  LET q == calls[c]
      u == invitations[q.row].email
  IN  /\ q.op = "resend"
      /\ invitations' = [invitations EXCEPT
            ![q.row].permissions = (@ \ q.off[u]) \cup q.on[u],
            ![q.row].by = IF q.by = NoUser THEN @ ELSE q.by,
            ![q.row].sends = q.sends,
            ![q.row].cooling = q.sends >= MaxSends]
      /\ Commit(c, {}, {}, {q.row})
      /\ UNCHANGED <<member, tokens, shares, revealed>>

(* A call that is going to write the status of an invitation, no more. *)
Settles(c, r, status) ==
  Begin(c, [NoCall EXCEPT !.op = "settle", !.users = {invitations[r].email}, !.row = r,
                          !.status = status])

(* revoke_project_invitation *)
RevokeInvitation(c) ==
  \E r \in DOMAIN invitations :
    /\ invitations[r].status = "pending" /\ \E a \in People : "team" \in Access(a)
    /\ Settles(c, r, "revoked")
    /\ UNCHANGED granted

(* Mutant: the inviter is not looked at again. *)
AcceptAsInvited(c) ==
  \E r \in DOMAIN invitations :
    LET row == invitations[r]
    IN  /\ row.status = "pending" /\ UNCHANGED granted
        /\ \/ DueRow(r) /\ Settles(c, r, "expired")
           \/ ~DueRow(r) /\ IsMember(row.email) /\ Settles(c, r, "accepted")
           \/ /\ ~DueRow(r) /\ ~IsMember(row.email)
              /\ Begin(c, [NoCall EXCEPT !.op = "join", !.users = {row.email}, !.row = r,
                                         !.by = row.by, !.on = [v \in {row.email} |-> row.permissions]])

(* accept_invitation *)
Accept(c) ==
  \E r \in DOMAIN invitations :
    LET row == invitations[r]
        Valid == row.by = Owner
                   \/ /\ IsMember(row.by) /\ "team" \in member[row.by]
                      /\ row.permissions \subseteq member[row.by]
    IN  /\ row.status = "pending" /\ UNCHANGED granted
        /\ \/ DueRow(r) /\ Settles(c, r, "expired")
           \/ ~DueRow(r) /\ ~Valid /\ Settles(c, r, "revoked")
           \/ ~DueRow(r) /\ Valid /\ IsMember(row.email) /\ Settles(c, r, "accepted")
           \/ /\ ~DueRow(r) /\ Valid /\ ~IsMember(row.email)
              /\ Begin(c, [NoCall EXCEPT !.op = "join", !.users = {row.email}, !.row = r,
                                         !.by = row.by, !.on = [v \in {row.email} |-> row.permissions]])

(* get_invitation_by_token_for_user records that an invitation has run out. *)
ReadInvitation(c) ==
  \E r \in DOMAIN invitations : DueRow(r) /\ Settles(c, r, "expired") /\ UNCHANGED granted

(* reject_invitation *)
Reject(c) ==
  \E r \in DOMAIN invitations :
    /\ invitations[r].status = "pending"
    /\ Settles(c, r, IF DueRow(r) THEN "expired" ELSE "rejected")
    /\ UNCHANGED granted

CommitSettle(c) ==
  LET q == calls[c]
  IN  /\ q.op = "settle"
      /\ invitations' = [invitations EXCEPT ![q.row].status = q.status]
      /\ Commit(c, {}, {}, {q.row})
      /\ UNCHANGED <<member, tokens, shares, revealed>>

(* A membership that was inserted meanwhile makes the insert fail.          *)
CommitJoin(c) ==
  LET q == calls[c]
      u == CHOOSE v \in q.users : TRUE
  IN  /\ q.op = "join"
      /\ IF IsMember(u)
         THEN UNCHANGED <<member, invitations>> /\ Commit(c, {}, {}, {})
         ELSE /\ member' = [member EXCEPT ![u] = q.on[u]]
              /\ invitations' = [invitations EXCEPT ![q.row].status = "accepted"]
              /\ Commit(c, {u}, {}, {q.row})
      /\ UNCHANGED <<tokens, shares, revealed>>

-----------------------------------------------------------------------------
(* update_member_permissions, bulk_update_member_permissions: only what is  *)
(* switched on has to be the actor's own.                                   *)
UpdateMemberPermissions(c) ==
  \E a \in People, users \in (SUBSET {u \in Users : IsMember(u)}) \ {{}}, on, off \in Offers :
    /\ "team" \in Access(a) /\ MayGrant(a, on) /\ on \cap off = {} /\ on \cup off # {}
    /\ Grants(a, on)
    /\ Begin(c, [NoCall EXCEPT !.op = "permit", !.users = users,
                               !.on = [u \in users |-> on \ member[u]],
                               !.off = [u \in users |-> off \cap member[u]]])

(* An UPDATE that finds its row deleted fails, and with it the transaction. *)
CommitPermissions(c) ==
  LET q == calls[c]
      changed == {u \in q.users : q.on[u] \cup q.off[u] # {}}
  IN  /\ q.op = "permit"
      /\ IF changed \cap q.gone = {}
         THEN /\ member' = [u \in People |->
                              IF u \in changed THEN (member[u] \ q.off[u]) \cup q.on[u]
                              ELSE member[u]]
              /\ Commit(c, changed, {}, {})
         ELSE UNCHANGED member /\ Commit(c, {}, {}, {})
      /\ UNCHANGED <<invitations, tokens, shares, revealed>>

(* With tokens shared, the caller has to say whether these are deleted, too. *)
Choices(users) == IF Shared(users) = {} THEN {FALSE} ELSE BOOLEAN

(* revoke_member, bulk_revoke_members *)
RevokeMember(c) ==
  \E users \in (SUBSET {u \in Users : IsMember(u)}) \ {{}} :
    \E delete \in Choices(users) :
      /\ \E a \in People : "team" \in Access(a)
      /\ UNCHANGED granted
      /\ Begin(c, [NoCall EXCEPT !.op = "remove", !.users = users, !.flag = delete,
                                 !.pairs = Shared(users)])

Drop(doomed, how) ==
  tokens' = [t \in Tokens |-> IF t \in doomed /\ Present(t) THEN how ELSE tokens[t]]

(* What a removal deletes: the tokens that were shared, if so asked.        *)
Doomed(q) == IF q.flag THEN {k.token : k \in q.pairs} ELSE {}

(* The audit entry of a token names its environment: when that was deleted  *)
(* meanwhile, the removal fails.                                            *)
Refused(q) == \E t \in Doomed(q) : tokens[t] = "cascaded"

(* The removal of the members: who was asked to keep the tokens active      *)
(* accepts that the leavers know them.                                      *)
Leave(c, q) ==
  LET left == q.users \ q.gone
  IN  /\ member' = [u \in People |-> IF u \in left THEN NotMember ELSE member[u]]
      /\ revealed' = IF q.flag THEN revealed ELSE {k \in revealed : k.user \notin q.users}
      /\ Commit(c, q.users, left, {})
      /\ UNCHANGED invitations

(* Mutant: the shares of a kept token stay. *)
CommitRevokeKeepingShares(c) ==
  LET q == calls[c]
  IN  /\ q.op = "remove" /\ ~Refused(q)
      /\ Drop(Doomed(q), "deleted")
      /\ shares' = {s \in shares : s.token \notin Doomed(q)}
      /\ Leave(c, q)

(* _apply_member_revoke: the shares that were read, the tokens with all     *)
(* their shares if so asked, and the membership, if it is still that row.   *)
CommitRevokeMember(c) ==
  LET q == calls[c]
  IN  /\ q.op = "remove"
      /\ IF Refused(q)
         THEN Commit(c, {}, {}, {}) /\ UNCHANGED <<member, invitations, tokens, shares, revealed>>
         ELSE /\ Drop(Doomed(q), "deleted")
              /\ shares' = {s \in shares : [user |-> s.user, token |-> s.token] \notin q.pairs
                                             /\ s.token \notin Doomed(q)}
              /\ Leave(c, q)

-----------------------------------------------------------------------------
(* create_runtime_token: a new token is shown once and never shareable.     *)
CreateRuntimeToken ==
  \E t \in Tokens \ Legacy :
    /\ begun < MaxCalls /\ tokens[t] = "absent" /\ \E a \in People : "tokens" \in Access(a)
    /\ begun' = begun + 1
    /\ tokens' = [tokens EXCEPT ![t] = "live"]
    /\ UNCHANGED <<visibility, member, invitations, shares, calls, granted, revealed, served, raced>>

(* share_runtime_token *)
ShareRuntimeToken(c) ==
  \E a, u \in People, t \in Legacy, manage \in BOOLEAN :
    /\ "tokens" \in Access(a) /\ tokens[t] = "live"
    /\ u # a /\ IsMember(u) /\ t \notin SharedWith(u)
    /\ UNCHANGED granted
    /\ Begin(c, [NoCall EXCEPT !.op = "share", !.users = {u}, !.flag = manage,
                               !.pairs = {[user |-> u, token |-> t]}])

(* The insert fails when the token is gone or the share exists; that the    *)
(* recipient is still a member is not checked again.                        *)
CommitShare(c) ==
  LET q == calls[c]
      k == CHOOSE p \in q.pairs : TRUE
      u == k.user
      t == k.token
  IN  /\ q.op = "share"
      /\ IF ~Present(t) \/ t \in SharedWith(u)
         THEN UNCHANGED shares /\ Commit(c, {}, {}, {})
         ELSE /\ shares' = shares \cup {[token |-> t, user |-> u, manage |-> q.flag]}
              /\ Commit(c, {u}, {}, {})
      /\ UNCHANGED <<member, invitations, tokens, revealed>>

(* reveal_runtime_token, reveal_runtime_token_by_name, to somebody with no  *)
(* better right than the share.                                             *)
MayReveal(s) == IsMember(s.user) /\ tokens[s.token] = "live"

RevealRuntimeToken ==
  \E s \in shares :
    /\ MayReveal(s)
    /\ revealed' = revealed \cup {[user |-> s.user, token |-> s.token]}
    /\ UNCHANGED <<visibility, member, invitations, tokens, shares, calls, begun, granted, served, raced>>

(* revoke_runtime_token, revoke_runtime_token_by_name: the owner, whoever   *)
(* manages the tokens, and a member whose share allows it; the shares go.   *)
MayRevoke(u, t) ==
  \/ "tokens" \in Access(u)
  \/ IsMember(u) /\ \E s \in shares : s.user = u /\ s.token = t /\ s.manage

RevokeRuntimeToken ==
  \E u \in People, t \in Tokens :
    /\ begun < MaxCalls /\ Present(t) /\ MayRevoke(u, t)
    /\ begun' = begun + 1
    /\ Drop({t}, "deleted")
    /\ shares' = {s \in shares : s.token # t}
    /\ UNCHANGED <<visibility, member, invitations, calls, granted, revealed, served, raced>>

(* delete_environment: the tokens of the environment go with their shares.  *)
DeleteEnvironment ==
  \E doomed \in (SUBSET {t \in Tokens : Present(t)}) \ {{}} :
    /\ begun < MaxCalls
    /\ begun' = begun + 1
    /\ Drop(doomed, "cascaded")
    /\ shares' = {s \in shares : s.token \notin doomed}
    /\ UNCHANGED <<visibility, member, invitations, calls, granted, revealed, served, raced>>

(* fetch_runtime_secrets finds its token ... *)
Fetch(c) ==
  \E t \in Tokens :
    /\ tokens[t] = "live" /\ UNCHANGED granted
    /\ Begin(c, [NoCall EXCEPT !.op = "fetch", !.pairs = {[user |-> Owner, token |-> t]}])

(* Mutant: the secrets are answered without last_used_at. *)
ServeAnyway(c) ==
  LET t == (CHOOSE p \in calls[c].pairs : TRUE).token
  IN  /\ calls[c].op = "fetch"
      /\ served' = served \cup {t}
      /\ calls' = [calls EXCEPT ![c] = NoCall]
      /\ UNCHANGED <<visibility, member, invitations, tokens, shares, begun, granted, revealed, raced>>

(* ... and serves the secrets, if the UPDATE of last_used_at finds it still.*)
Serve(c) ==
  LET t == (CHOOSE p \in calls[c].pairs : TRUE).token
  IN  /\ calls[c].op = "fetch"
      /\ served' = IF Present(t) THEN served \cup {t} ELSE served
      /\ calls' = [calls EXCEPT ![c] = NoCall]
      /\ UNCHANGED <<visibility, member, invitations, tokens, shares, begun, granted, revealed, raced>>

(* Time: an invitation runs out, its cooldown ends, a token expires.        *)
InvitationDue ==
  \E r \in DOMAIN invitations :
    /\ invitations[r].status = "pending" /\ ~invitations[r].due
    /\ invitations' = [invitations EXCEPT ![r].due = TRUE]
    /\ UNCHANGED <<visibility, member, tokens, shares, calls, begun, granted, revealed, served, raced>>

CooldownEnds ==
  \E r \in DOMAIN invitations :
    /\ invitations[r].status = "pending" /\ invitations[r].cooling
    /\ invitations' = [invitations EXCEPT ![r].cooling = FALSE]
    /\ UNCHANGED <<visibility, member, tokens, shares, calls, begun, granted, revealed, served, raced>>

TokenExpires ==
  \E t \in Tokens :
    /\ tokens[t] = "live"
    /\ tokens' = [tokens EXCEPT ![t] = "expired"]
    /\ UNCHANGED <<visibility, member, invitations, shares, calls, begun, granted, revealed, served, raced>>

-----------------------------------------------------------------------------
Endpoint(c) ==
  /\ calls[c].op = "none" /\ begun < MaxCalls
  /\ \/ Invite(c) \/ RevokeInvitation(c) \/ Accept(c) \/ ReadInvitation(c) \/ Reject(c)
     \/ UpdateMemberPermissions(c) \/ RevokeMember(c)
     \/ ShareRuntimeToken(c) \/ Fetch(c)

Commits(c) ==
  \/ CommitInvite(c) \/ CommitResend(c) \/ CommitSettle(c) \/ CommitJoin(c)
  \/ CommitPermissions(c) \/ CommitRevokeMember(c) \/ CommitShare(c) \/ Serve(c)

Time == InvitationDue \/ CooldownEnds \/ TokenExpires

MembershipNext ==
  \/ \E c \in Calls : Endpoint(c) \/ Commits(c)
  \/ UpdateProject \/ CreateRuntimeToken \/ RevealRuntimeToken \/ RevokeRuntimeToken
  \/ DeleteEnvironment
  \/ Time

MembershipSpec == MembershipInit /\ [][MembershipNext]_membershipVars

-----------------------------------------------------------------------------
(* Rows hold what their columns hold; a call has read rows that exist.      *)
MembershipTypeOK ==
  /\ visibility \in {"owner_only", "members", "specific"}
  /\ member \in [People -> (SUBSET Permissions) \cup {NotMember}]
  /\ invitations \in Seq(Invitation)
  /\ tokens \in [Tokens -> TokenStates]
  /\ shares \subseteq Share
  /\ calls \in [Calls -> Call]
  /\ \A c \in Calls : /\ calls[c].row \in 0 .. Len(invitations)
                      /\ DOMAIN calls[c].on \subseteq calls[c].users
  /\ begun \in 0 .. MaxCalls
  /\ granted \subseteq Permissions
  /\ revealed \subseteq Pair /\ served \subseteq Tokens /\ raced \subseteq People

(* "may only grant permissions that the member currently possesses"         *)
(* (docs/PERMISSIONS.md:67): whatever is delegated from member to member,   *)
(* and however the requests overlap, nobody holds or is offered a permission*)
(* that the owner has never given to anyone.                                *)
GrantsFromOwner ==
  /\ \A u \in Users : IsMember(u) => member[u] \subseteq granted
  /\ \A r \in DOMAIN invitations : invitations[r].permissions \subseteq granted

(* "Invitation acceptance revalidates the inviter's current membership and  *)
(* permissions" (docs/PERMISSIONS.md:76): who joins gets no more than the   *)
(* inviter holds by then, unless the invitation or the inviter changed      *)
(* under the acceptance.                                                    *)
JoinsWithinInviter ==
  [][\A u \in Users :
       ~IsMember(u) /\ member'[u] # NotMember =>
         \E c \in Calls :
           LET q == calls[c]
           IN  /\ q.op = "join" /\ u \in q.users
               /\ \/ q.stale \/ q.by = Owner
                  \/ /\ IsMember(q.by) /\ "team" \in member[q.by]
                     /\ member'[u] \subseteq member[q.by]]_membershipVars

(* "Runtime tokens can only be shared with project members": a share has a  *)
(* member and a token, unless it was given while the member was removed.    *)
SharesOfMembers ==
  \A s \in shares : Present(s.token) /\ (IsMember(s.user) \/ s.user \in raced)

(* "revoke_tokens": a token that a member has seen through a share serves   *)
(* nobody after the member's removal, not even a fetch that had begun       *)
(* before, unless the share overlapped with the removal.                    *)
LeaversLockedOut ==
  [][\A k \in revealed :
       k.token \in served' \ served => IsMember(k.user) \/ k.user \in raced]_membershipVars

=============================================================================
