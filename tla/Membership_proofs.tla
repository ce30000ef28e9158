--------------------------- MODULE Membership_proofs ---------------------------
(***************************************************************************)
(* For any accounts, offers, requests and bounds: what tables and calls      *)
(* hold, that nobody gets a permission the owner has never given, that a      *)
(* share has a member and a token, and that a token seen through one serves   *)
(* nobody who has left, unless the share overlapped with the removal.        *)
(***************************************************************************)
EXTENDS Membership, SequenceTheorems, TLAPS

(* A call takes with it no permission that the owner has not given, its      *)
(* columns are those of its people, its row exists and, before a change of   *)
(* permissions, the rows it has read do, unless they went meanwhile.         *)
CallOK(q, given, members, rows) ==
  /\ \A u \in DOMAIN q.on : q.on[u] \subseteq given
  /\ q.op \in {"invite", "join"} =>
       q.by \in People /\ \E u \in Users : q.users = {u} /\ DOMAIN q.on = {u}
  /\ q.op \in {"settle", "join", "resend"} => q.row \in DOMAIN rows
  /\ q.op = "resend" => DOMAIN q.on = {rows[q.row].email}
  /\ q.op = "permit" => /\ q.users \subseteq Users /\ DOMAIN q.on = q.users
                        /\ DOMAIN q.off = q.users
                        /\ \A u \in q.users \ q.gone : members[u] # NotMember
  /\ q.op \in {"share", "fetch"} => \E k \in Pair : q.pairs = {k}
  /\ q.op = "share" => \A k \in q.pairs : k.token \in Legacy

CallsOK == \A c \in Calls : CallOK(calls[c], granted, member, invitations)

GrantInv ==
  /\ MembershipTypeOK
  /\ CallsOK
  /\ GrantsFromOwner
  /\ visibility = "members" => "audit" \in granted

LEMMA NoColumns == [v \in {} |-> {}] \in Columns
<1>1. [v \in {} |-> {}] \in [{} -> SUBSET Permissions]
  OBVIOUS
<1>2. {} \in SUBSET People
  OBVIOUS
<1> QED BY <1>1, <1>2 DEF Columns

LEMMA NoSends == 0 \in 0 .. MaxSends /\ 1 \in 0 .. MaxSends
BY SendsAssumption

LEMMA NoCallIsCall == NoCall \in Call
BY NoColumns, NoSends DEF NoCall, Call, InvitationStatuses

LEMMA OneColumn ==
  ASSUME NEW u \in People, NEW P \in SUBSET Permissions
  PROVE  [v \in {u} |-> P] \in Columns
<1>1. [v \in {u} |-> P] \in [{u} -> SUBSET Permissions]
  OBVIOUS
<1>2. {u} \in SUBSET People
  OBVIOUS
<1> QED BY <1>1, <1>2 DEF Columns

LEMMA CallOKGrows ==
  ASSUME NEW q, NEW given, NEW more, given \subseteq more, NEW members, NEW rows,
         CallOK(q, given, members, rows)
  PROVE  CallOK(q, more, members, rows)
BY DEF CallOK

LEMMA NoCallOK == CallOK(NoCall, granted, member, invitations)
BY DEF CallOK, NoCall

(* A call begins with a record of its type and no other row is touched. *)
LEMMA BeginKeeps ==
  ASSUME GrantInv, NEW c \in Calls, NEW fields \in Call, begun < MaxCalls,
         fields.row \in 0 .. Len(invitations), DOMAIN fields.on \subseteq fields.users,
         CallOK(fields, granted', member, invitations),
         granted \subseteq granted', granted' \subseteq Permissions, Begin(c, fields)
  PROVE  GrantInv'
<1>1. begun' \in 0 .. MaxCalls
  BY SendsAssumption DEF Begin, MembershipTypeOK, GrantInv
<1>2. calls' \in [Calls -> Call] /\ calls' = [calls EXCEPT ![c] = fields]
  BY DEF Begin, MembershipTypeOK, GrantInv
<1>3. \A d \in Calls : /\ calls'[d].row \in 0 .. Len(invitations')
                       /\ DOMAIN calls'[d].on \subseteq calls'[d].users
  BY DEF Begin, MembershipTypeOK, GrantInv
<1>4. MembershipTypeOK'
  BY <1>1, <1>2, <1>3 DEF Begin, MembershipTypeOK, GrantInv
<1>5. ASSUME NEW d \in Calls PROVE CallOK(calls'[d], granted', member, invitations)
  <2>1. CASE d = c
    BY <1>2, <2>1 DEF GrantInv, MembershipTypeOK
  <2>2. CASE d # c
    <3>1. calls'[d] = calls[d] /\ CallOK(calls[d], granted, member, invitations)
      BY <1>2, <2>2 DEF GrantInv, CallsOK, MembershipTypeOK
    <3> QED BY <3>1, CallOKGrows
  <2> QED BY <2>1, <2>2
<1>6. member' = member /\ invitations' = invitations /\ visibility' = visibility
  BY DEF Begin
<1>7. CallsOK'
  BY <1>5, <1>6 DEF CallsOK
<1>8. GrantsFromOwner'
  BY <1>6 DEF GrantsFromOwner, IsMember, GrantInv
<1> QED BY <1>4, <1>6, <1>7, <1>8 DEF GrantInv

(* A commit leaves its call and marks the others. *)
LEMMA CommitType ==
  ASSUME MembershipTypeOK, NEW c \in Calls, NEW people, NEW removed \in SUBSET People, NEW rows,
         Commit(c, people, removed, rows),
         member' \in [People -> (SUBSET Permissions) \cup {NotMember}],
         invitations' \in Seq(Invitation), Len(invitations') >= Len(invitations),
         tokens' \in [Tokens -> TokenStates], shares' \subseteq Share, revealed' \subseteq Pair
  PROVE  MembershipTypeOK'
<1>1. ASSUME NEW d \in Calls
      PROVE  /\ calls'[d] \in Call
             /\ calls'[d].row \in {0, calls[d].row}
             /\ DOMAIN calls'[d].on \subseteq calls'[d].users
  <2>1. CASE d = c
    BY <2>1, NoCallIsCall DEF Commit, NoCall
  <2>2. CASE d # c /\ calls[d].op = "none"
    BY <2>2 DEF Commit, MembershipTypeOK
  <2>3. CASE d # c /\ calls[d].op # "none"
    <3>1. calls[d] \in Call
      BY DEF MembershipTypeOK
    <3>2. PICK s, g : calls'[d] = [calls[d] EXCEPT !.stale = calls[d].stale \/ s,
                                                   !.gone = calls[d].gone \cup g]
                      /\ s \in BOOLEAN /\ g \in SUBSET People
      <4> DEFINE Reads(e) == calls[e].users \cup {calls[e].by}
                 Over(e) == Reads(e) \cap people # {} \/ calls[e].row \in rows
      <4>1. calls'[d] = [calls[d] EXCEPT !.stale = calls[d].stale \/ Over(d),
                                         !.gone = calls[d].gone \cup (removed \cap calls[d].users)]
        BY <2>3, Zenon DEF Commit
      <4>2. Over(d) \in BOOLEAN
        BY Zenon
      <4>3. removed \cap calls[d].users \in SUBSET People
        OBVIOUS
      <4> QED BY <4>1, <4>2, <4>3, Zenon
    <3>3. (calls[d].stale \/ s) \in BOOLEAN
      BY Zenon
    <3>4. calls[d].gone \cup g \in SUBSET People
      BY <3>1, <3>2 DEF Call
    <3>5. calls'[d] \in Call
      BY <3>1, <3>2, <3>3, <3>4 DEF Call
    <3>6. calls'[d].row = calls[d].row /\ calls'[d].on = calls[d].on /\ calls'[d].users = calls[d].users
      BY <3>1, <3>2 DEF Call
    <3> QED BY <3>5, <3>6 DEF MembershipTypeOK
  <2> QED BY <2>1, <2>2, <2>3
<1>2. calls' \in [Calls -> Call]
  BY <1>1 DEF Commit
<1>3. ASSUME NEW d \in Calls PROVE calls'[d].row \in 0 .. Len(invitations')
  BY <1>1 DEF MembershipTypeOK
<1>4. raced' \subseteq People
  BY DEF Commit, MembershipTypeOK, Call
<1> QED BY <1>1, <1>2, <1>3, <1>4 DEF Commit, MembershipTypeOK

(* A commit that removes only the members it names, renames no invitation   *)
(* and writes no permission the owner has not given.                         *)
LEMMA CommitKeeps ==
  ASSUME GrantInv, NEW c \in Calls, NEW people, NEW removed \in SUBSET People, NEW rows,
         Commit(c, people, removed, rows),
         member' \in [People -> (SUBSET Permissions) \cup {NotMember}],
         \A u \in People : IsMember(u) /\ u \notin removed => member'[u] # NotMember,
         \A u \in Users : member'[u] # NotMember => member'[u] \subseteq granted,
         invitations' \in Seq(Invitation), Len(invitations') >= Len(invitations),
         \A r \in DOMAIN invitations : invitations'[r].email = invitations[r].email,
         \A r \in DOMAIN invitations' : invitations'[r].permissions \subseteq granted,
         tokens' \in [Tokens -> TokenStates], shares' \subseteq Share, revealed' \subseteq Pair
  PROVE  GrantInv'
<1>1. MembershipTypeOK'
  BY CommitType DEF GrantInv
<1>2. granted' = granted /\ visibility' = visibility
  BY DEF Commit
<1>3. ASSUME NEW d \in Calls PROVE CallOK(calls'[d], granted, member', invitations')
  <2>1. CallOK(calls[d], granted, member, invitations)
    BY DEF GrantInv, CallsOK
  <2>2. CASE calls'[d].op = "none" /\ DOMAIN calls'[d].on = {}
    BY <2>2 DEF CallOK
  <2>3. CASE d = c
    BY <2>2, <2>3 DEF Commit, NoCall
  <2>4. CASE d # c
    <3>1. calls[d] \in Call
      BY DEF GrantInv, MembershipTypeOK
    <3>2. /\ calls'[d].op = calls[d].op /\ calls'[d].users = calls[d].users
          /\ calls'[d].by = calls[d].by /\ calls'[d].row = calls[d].row
          /\ calls'[d].on = calls[d].on /\ calls'[d].off = calls[d].off
          /\ calls'[d].pairs = calls[d].pairs
          /\ calls[d].op # "none" => calls'[d].gone = calls[d].gone \cup (removed \cap calls[d].users)
      BY <2>4, <3>1 DEF Commit, Call
    <3>3. DOMAIN invitations \subseteq DOMAIN invitations'
      BY DEF GrantInv, MembershipTypeOK
    <3>4. calls[d].op = "resend" => DOMAIN calls[d].on = {invitations'[calls[d].row].email}
      BY <2>1 DEF CallOK
    <3>5. ASSUME calls[d].op = "permit", NEW u \in calls[d].users \ calls'[d].gone
          PROVE  member'[u] # NotMember
      <4>1. u \in calls[d].users \ calls[d].gone /\ u \notin removed /\ u \in People
        BY <3>1, <3>2, <3>5 DEF Call
      <4>2. member[u] # NotMember
        BY <2>1, <3>5, <4>1 DEF CallOK
      <4> QED BY <4>1, <4>2 DEF IsMember
    <3> QED BY <2>1, <3>2, <3>3, <3>4, <3>5 DEF CallOK
  <2> QED BY <2>3, <2>4
<1>4. CallsOK'
  BY <1>2, <1>3 DEF CallsOK
<1>5. GrantsFromOwner'
  BY <1>2 DEF GrantsFromOwner, IsMember
<1> QED BY <1>1, <1>2, <1>4, <1>5 DEF GrantInv

LEMMA InitType == MembershipInit => MembershipTypeOK
<1> SUFFICES ASSUME MembershipInit PROVE MembershipTypeOK
  OBVIOUS
<1>1. PICK founders \in Founders :
        /\ member = [u \in People |-> IF u = Owner THEN Permissions ELSE founders[u]]
        /\ granted = (UNION {founders[u] : u \in {v \in Users : founders[v] # NotMember}})
                       \cup (IF visibility = "members" THEN {"audit"} ELSE {})
  BY DEF MembershipInit
<1>2. founders \in [Users -> (SUBSET Permissions) \cup {NotMember}]
  BY FoundersAssumption
<1>3. member \in [People -> (SUBSET Permissions) \cup {NotMember}]
  BY <1>1, <1>2 DEF People
<1>4. granted \subseteq Permissions
  <2>1. ASSUME NEW u \in {v \in Users : founders[v] # NotMember} PROVE founders[u] \subseteq Permissions
    <3>1. u \in Users /\ founders[u] # NotMember
      OBVIOUS
    <3>2. founders[u] \in (SUBSET Permissions) \cup {NotMember}
      BY <1>2, <3>1
    <3> QED BY <3>1, <3>2
  <2> DEFINE given == UNION {founders[u] : u \in {v \in Users : founders[v] # NotMember}}
             audit == IF visibility = "members" THEN {"audit"} ELSE {}
  <2>2. given \subseteq Permissions
    BY <2>1
  <2>3. audit \subseteq Permissions
    BY DEF Permissions
  <2>4. granted = given \cup audit
    BY <1>1
  <2> HIDE DEF given, audit
  <2> QED BY <2>2, <2>3, <2>4
<1>5. invitations \in Seq(Invitation) /\ Len(invitations) = 0
  BY DEF MembershipInit
<1>6. \A c \in Calls : /\ calls[c] \in Call /\ calls[c].row \in 0 .. Len(invitations)
                       /\ DOMAIN calls[c].on \subseteq calls[c].users
  BY <1>5, NoCallIsCall DEF MembershipInit, NoCall
<1>7. calls \in [Calls -> Call]
  BY <1>6 DEF MembershipInit
<1>8. visibility \in {"owner_only", "members", "specific"}
  BY VisibilitiesAssumption DEF MembershipInit
<1>9. tokens \in [Tokens -> TokenStates]
  BY DEF MembershipInit, TokenStates
<1> QED BY <1>3, <1>4, <1>5, <1>6, <1>7, <1>8, <1>9, SendsAssumption DEF MembershipInit, MembershipTypeOK

-----------------------------------------------------------------------------
(* The endpoints: what each of them has read makes a call.                  *)
(* Whoever grants something is the owner or has it already. *)
LEMMA Delegated ==
  ASSUME GrantInv, NEW a \in People, NEW offer \in SUBSET Permissions,
         MayGrant(a, offer), Grants(a, offer)
  PROVE  offer \subseteq granted' /\ granted \subseteq granted' /\ granted' \subseteq Permissions
<1>1. granted \subseteq Permissions
  BY DEF GrantInv, MembershipTypeOK
<1>2. CASE a = Owner
  BY <1>1, <1>2 DEF Grants
<1>3. CASE a # Owner
  <2>1. a \in Users /\ granted' = granted /\ offer \subseteq Access(a)
    BY <1>3 DEF People, Grants, MayGrant
  <2>2. Access(a) \subseteq granted
    <3>1. CASE ~IsMember(a)
      BY <1>3, <3>1 DEF Access
    <3>2. CASE IsMember(a)
      <4>1. member[a] \subseteq granted
        BY <2>1, <3>2 DEF GrantInv, GrantsFromOwner
      <4>2. Access(a) = IF visibility = "members" THEN member[a] \cup {"audit"}
                        ELSE IF visibility = "specific" THEN member[a] ELSE member[a] \ {"audit"}
        BY <1>3, <3>2 DEF Access
      <4>3. CASE visibility = "members"
        BY <4>1, <4>2, <4>3 DEF GrantInv
      <4>4. CASE visibility # "members"
        BY <4>1, <4>2, <4>4
      <4> QED BY <4>3, <4>4
    <3> QED BY <3>1, <3>2
  <2> QED BY <1>1, <2>1, <2>2
<1> QED BY <1>2, <1>3

LEMMA SettlesKeeps ==
  ASSUME GrantInv, NEW c \in Calls, begun < MaxCalls, NEW r \in DOMAIN invitations,
         NEW status \in InvitationStatuses, Settles(c, r, status), UNCHANGED granted
  PROVE  GrantInv'
<1> DEFINE fields == [NoCall EXCEPT !.op = "settle", !.users = {invitations[r].email}, !.row = r,
                                    !.status = status]
<1>1. invitations[r] \in Invitation /\ r \in Nat /\ r \in 0 .. Len(invitations)
  BY DEF MembershipTypeOK, GrantInv
<1>2. fields \in Call
  <2>1. {invitations[r].email} \in SUBSET People
    BY <1>1 DEF Invitation, People
  <2> QED BY <1>1, <2>1, NoColumns, NoSends DEF NoCall, Call
<1>3. fields.row = r /\ DOMAIN fields.on = {} /\ fields.op = "settle"
  BY DEF NoCall
<1>4. Begin(c, fields)
  BY DEF Settles
<1> HIDE DEF fields
<1>5. CallOK(fields, granted', member, invitations)
  BY <1>1, <1>3 DEF CallOK
<1>6. granted' = granted /\ granted \subseteq Permissions
  BY DEF MembershipTypeOK, GrantInv
<1> QED BY <1>1, <1>2, <1>3, <1>4, <1>5, <1>6, BeginKeeps

LEMMA InviteKeeps ==
  ASSUME GrantInv, NEW c \in Calls, begun < MaxCalls, Invite(c)
  PROVE  GrantInv'
<1>1. PICK a \in People, u \in Users, offer \in Offers :
        /\ MayInvite(a, u, offer)
        /\ Grants(a, offer)
        /\ \/ /\ \A r \in Pending(u) : DueRow(r)
              /\ \E r \in IF Pending(u) = {} THEN {0} ELSE Pending(u) :
                   Begin(c, [NoCall EXCEPT !.op = "invite", !.users = {u}, !.by = a,
                                           !.on = [v \in {u} |-> offer], !.row = r])
           \/ \E r \in Pending(u) :
                /\ ~DueRow(r)
                /\ MaySend(invitations[r])
                /\ Begin(c, [NoCall EXCEPT
                      !.op = "resend", !.users = {u}, !.row = r,
                      !.by = IF invitations[r].by = a THEN NoUser ELSE a,
                      !.sends = SendsAfter(invitations[r]),
                      !.on = [v \in {u} |-> offer \ invitations[r].permissions],
                      !.off = [v \in {u} |-> invitations[r].permissions \ offer]])
  BY Zenon DEF Invite
<1>2. offer \in SUBSET Permissions /\ u \in People
  BY OffersAssumption DEF People
<1>3. offer \subseteq granted' /\ granted \subseteq granted' /\ granted' \subseteq Permissions
  BY <1>1, <1>2, Delegated DEF MayInvite
<1>4. Pending(u) \subseteq 1 .. Len(invitations)
  BY DEF Pending, MembershipTypeOK, GrantInv
<1>5. CASE \E r \in IF Pending(u) = {} THEN {0} ELSE Pending(u) :
             Begin(c, [NoCall EXCEPT !.op = "invite", !.users = {u}, !.by = a,
                                     !.on = [v \in {u} |-> offer], !.row = r])
  <2>1. PICK r \in IF Pending(u) = {} THEN {0} ELSE Pending(u) :
          Begin(c, [NoCall EXCEPT !.op = "invite", !.users = {u}, !.by = a,
                                  !.on = [v \in {u} |-> offer], !.row = r])
    BY <1>5
  <2> DEFINE fields == [NoCall EXCEPT !.op = "invite", !.users = {u}, !.by = a,
                                      !.on = [v \in {u} |-> offer], !.row = r]
  <2>2. r \in 0 .. Len(invitations)
    BY <1>4 DEF MembershipTypeOK, GrantInv
  <2>3. fields \in Call
    <3>1. {u} \in SUBSET People /\ r \in Nat /\ a \in People \cup {NoUser}
      BY <1>2, <2>2
    <3>2. [v \in {u} |-> offer] \in Columns
      BY <1>2, OneColumn
    <3> QED BY <3>1, <3>2, NoColumns, NoSends DEF NoCall, Call, InvitationStatuses
  <2>4. /\ fields.row = r /\ fields.on = [v \in {u} |-> offer] /\ fields.users = {u}
        /\ fields.op = "invite" /\ fields.by = a
    BY DEF NoCall
  <2>5. Begin(c, fields)
    BY <2>1
  <2> HIDE DEF fields
  <2>6. CallOK(fields, granted', member, invitations)
    BY <1>3, <2>4 DEF CallOK
  <2> QED BY <1>3, <2>2, <2>3, <2>4, <2>5, <2>6, BeginKeeps
<1>6. CASE \E r \in Pending(u) :
             Begin(c, [NoCall EXCEPT
                      !.op = "resend", !.users = {u}, !.row = r,
                      !.by = IF invitations[r].by = a THEN NoUser ELSE a,
                      !.sends = SendsAfter(invitations[r]),
                      !.on = [v \in {u} |-> offer \ invitations[r].permissions],
                      !.off = [v \in {u} |-> invitations[r].permissions \ offer]])
  <2>1. PICK r \in Pending(u) :
             Begin(c, [NoCall EXCEPT
                      !.op = "resend", !.users = {u}, !.row = r,
                      !.by = IF invitations[r].by = a THEN NoUser ELSE a,
                      !.sends = SendsAfter(invitations[r]),
                      !.on = [v \in {u} |-> offer \ invitations[r].permissions],
                      !.off = [v \in {u} |-> invitations[r].permissions \ offer]])
    BY <1>6
  <2> DEFINE fields == [NoCall EXCEPT
                      !.op = "resend", !.users = {u}, !.row = r,
                      !.by = IF invitations[r].by = a THEN NoUser ELSE a,
                      !.sends = SendsAfter(invitations[r]),
                      !.on = [v \in {u} |-> offer \ invitations[r].permissions],
                      !.off = [v \in {u} |-> invitations[r].permissions \ offer]]
  <2>2. r \in 0 .. Len(invitations) /\ invitations[r] \in Invitation
    BY <1>4 DEF MembershipTypeOK, GrantInv
  <2>3. SendsAfter(invitations[r]) \in 0 .. MaxSends
    BY <2>2, SendsAssumption DEF SendsAfter, Invitation
  <2>4. /\ [v \in {u} |-> offer \ invitations[r].permissions] \in Columns
        /\ [v \in {u} |-> invitations[r].permissions \ offer] \in Columns
    <3>1. /\ offer \ invitations[r].permissions \in SUBSET Permissions
          /\ invitations[r].permissions \ offer \in SUBSET Permissions
      BY <1>2, <2>2 DEF Invitation
    <3> QED BY <1>2, <3>1, OneColumn
  <2>5. (IF invitations[r].by = a THEN NoUser ELSE a) \in People \cup {NoUser}
    OBVIOUS
  <2>6. fields \in Call
    <3>1. {u} \in SUBSET People /\ r \in Nat
      BY <1>2, <2>2
    <3> QED BY <2>3, <2>4, <2>5, <3>1, NoColumns, NoSends DEF NoCall, Call, InvitationStatuses
  <2>7. /\ fields.row = r /\ fields.users = {u} /\ fields.op = "resend"
        /\ fields.on = [v \in {u} |-> offer \ invitations[r].permissions]
    BY DEF NoCall
  <2>8. Begin(c, fields)
    BY <2>1
  <2>9. r \in DOMAIN invitations /\ invitations[r].email = u
    BY DEF Pending
  <2> HIDE DEF fields
  <2>10. CallOK(fields, granted', member, invitations)
    BY <1>3, <2>7, <2>9 DEF CallOK
  <2> QED BY <1>3, <2>2, <2>6, <2>7, <2>8, <2>10, BeginKeeps
<1> QED BY <1>1, <1>5, <1>6

(* revoke_project_invitation, get_invitation_by_token_for_user, reject_invitation *)
LEMMA RevokeReadRejectKeeps ==
  ASSUME GrantInv, NEW c \in Calls, begun < MaxCalls,
         RevokeInvitation(c) \/ ReadInvitation(c) \/ Reject(c)
  PROVE  GrantInv'
<1>1. CASE RevokeInvitation(c)
  BY <1>1, SettlesKeeps DEF RevokeInvitation, InvitationStatuses
<1>2. CASE ReadInvitation(c)
  BY <1>2, SettlesKeeps DEF ReadInvitation, InvitationStatuses
<1>3. CASE Reject(c)
  BY <1>3, SettlesKeeps DEF Reject, InvitationStatuses
<1> QED BY <1>1, <1>2, <1>3

LEMMA AcceptKeeps ==
  ASSUME GrantInv, NEW c \in Calls, begun < MaxCalls, Accept(c)
  PROVE  GrantInv'
<1>1. PICK r \in DOMAIN invitations :
        /\ UNCHANGED granted
        /\ \/ Settles(c, r, "expired") \/ Settles(c, r, "revoked") \/ Settles(c, r, "accepted")
           \/ Begin(c, [NoCall EXCEPT !.op = "join", !.users = {invitations[r].email}, !.row = r,
                       !.by = invitations[r].by,
                       !.on = [v \in {invitations[r].email} |-> invitations[r].permissions]])
  BY DEF Accept
<1>2. CASE Settles(c, r, "expired") \/ Settles(c, r, "revoked") \/ Settles(c, r, "accepted")
  BY <1>1, <1>2, SettlesKeeps DEF InvitationStatuses
<1>3. CASE Begin(c, [NoCall EXCEPT !.op = "join", !.users = {invitations[r].email}, !.row = r,
                       !.by = invitations[r].by,
                       !.on = [v \in {invitations[r].email} |-> invitations[r].permissions]])
  <2> DEFINE fields == [NoCall EXCEPT !.op = "join", !.users = {invitations[r].email}, !.row = r,
                       !.by = invitations[r].by,
                       !.on = [v \in {invitations[r].email} |-> invitations[r].permissions]]
  <2>1. invitations[r] \in Invitation /\ r \in Nat /\ r \in 0 .. Len(invitations)
    BY DEF MembershipTypeOK, GrantInv
  <2>2. invitations[r].email \in People /\ invitations[r].permissions \in SUBSET Permissions
        /\ invitations[r].by \in People \cup {NoUser}
    BY <2>1 DEF Invitation, People
  <2>3. [v \in {invitations[r].email} |-> invitations[r].permissions] \in Columns
    BY <2>2, OneColumn
  <2>4. {invitations[r].email} \in SUBSET People
    BY <2>2
  <2>5. fields \in Call
    BY <2>1, <2>2, <2>3, <2>4, NoColumns, NoSends DEF NoCall, Call, InvitationStatuses
  <2>6. /\ fields.row = r /\ fields.users = {invitations[r].email} /\ fields.op = "join"
        /\ fields.by = invitations[r].by
        /\ fields.on = [v \in {invitations[r].email} |-> invitations[r].permissions]
    BY DEF NoCall
  <2>7. Begin(c, fields)
    BY <1>3
  <2> HIDE DEF fields
  <2>8. invitations[r].permissions \subseteq granted /\ granted \subseteq Permissions
    BY DEF GrantsFromOwner, MembershipTypeOK, GrantInv
  <2>9. invitations[r].by \in People /\ invitations[r].email \in Users
    BY <2>1 DEF Invitation
  <2>10. CallOK(fields, granted', member, invitations)
    BY <1>1, <2>6, <2>8, <2>9 DEF CallOK
  <2> QED BY <1>1, <2>1, <2>5, <2>6, <2>7, <2>8, <2>10, BeginKeeps
<1> QED BY <1>1, <1>2, <1>3

LEMMA UpdateMemberPermissionsKeeps ==
  ASSUME GrantInv, NEW c \in Calls, begun < MaxCalls, UpdateMemberPermissions(c)
  PROVE  GrantInv'
<1>1. PICK a \in People, users \in (SUBSET {u \in Users : IsMember(u)}) \ {{}},
          on \in Offers, off \in Offers :
        /\ MayGrant(a, on) /\ Grants(a, on)
        /\ Begin(c, [NoCall EXCEPT !.op = "permit", !.users = users,
                               !.on = [u \in users |-> on \ member[u]],
                               !.off = [u \in users |-> off \cap member[u]]])
  BY DEF UpdateMemberPermissions
<1> DEFINE fields == [NoCall EXCEPT !.op = "permit", !.users = users,
                               !.on = [u \in users |-> on \ member[u]],
                               !.off = [u \in users |-> off \cap member[u]]]
<1>2. on \subseteq Permissions /\ off \subseteq Permissions
  BY OffersAssumption
<1>3. users \in SUBSET People
  BY DEF People
<1>4. /\ [u \in users |-> on \ member[u]] \in [users -> SUBSET Permissions]
      /\ [u \in users |-> off \cap member[u]] \in [users -> SUBSET Permissions]
  BY <1>2
<1>5. /\ [u \in users |-> on \ member[u]] \in Columns
      /\ [u \in users |-> off \cap member[u]] \in Columns
  BY <1>3, <1>4 DEF Columns
<1>6. fields \in Call
  BY <1>3, <1>5, NoColumns, NoSends DEF NoCall, Call, InvitationStatuses
<1>7. /\ fields.row = 0 /\ fields.users = users /\ fields.op = "permit" /\ fields.gone = {}
      /\ fields.on = [u \in users |-> on \ member[u]]
      /\ fields.off = [u \in users |-> off \cap member[u]]
  BY DEF NoCall
<1>8. on \subseteq granted' /\ granted \subseteq granted' /\ granted' \subseteq Permissions
  BY <1>1, <1>2, Delegated
<1>9. 0 \in 0 .. Len(invitations)
  BY DEF MembershipTypeOK, GrantInv
<1>10. Begin(c, fields)
  BY <1>1
<1> HIDE DEF fields
<1>11. CallOK(fields, granted', member, invitations)
  BY <1>7, <1>8 DEF CallOK, IsMember
<1> QED BY <1>6, <1>7, <1>8, <1>9, <1>10, <1>11, BeginKeeps

LEMMA RevokeMemberKeeps ==
  ASSUME GrantInv, NEW c \in Calls, begun < MaxCalls, RevokeMember(c)
  PROVE  GrantInv'
<1>1. PICK users \in (SUBSET {u \in Users : IsMember(u)}) \ {{}} : \E delete \in Choices(users) :
        /\ UNCHANGED granted
        /\ Begin(c, [NoCall EXCEPT !.op = "remove", !.users = users, !.flag = delete,
                                   !.pairs = Shared(users)])
  BY DEF RevokeMember
<1>9. PICK delete \in Choices(users) :
        /\ UNCHANGED granted
        /\ Begin(c, [NoCall EXCEPT !.op = "remove", !.users = users, !.flag = delete,
                                   !.pairs = Shared(users)])
  BY <1>1
<1> DEFINE fields == [NoCall EXCEPT !.op = "remove", !.users = users, !.flag = delete,
                                    !.pairs = Shared(users)]
<1>2. users \in SUBSET People
  BY DEF People
<1>3. delete \in BOOLEAN
  BY DEF Choices
<1>4. Shared(users) \in SUBSET Pair
  BY TokensAssumption DEF GrantInv, MembershipTypeOK, Shared, Share, Pair
<1>5. fields \in Call
  BY <1>2, <1>3, <1>4, NoColumns, NoSends DEF NoCall, Call, InvitationStatuses
<1>6. fields.row = 0 /\ DOMAIN fields.on = {} /\ fields.op = "remove"
  BY DEF NoCall
<1>7. Begin(c, fields)
  BY <1>9
<1>8. 0 \in 0 .. Len(invitations) /\ granted' = granted /\ granted \subseteq Permissions
  BY <1>9 DEF MembershipTypeOK, GrantInv
<1> HIDE DEF fields
<1>10. CallOK(fields, granted', member, invitations)
  BY <1>6 DEF CallOK
<1> QED BY <1>5, <1>6, <1>7, <1>8, <1>10, BeginKeeps

LEMMA ShareKeeps ==
  ASSUME GrantInv, NEW c \in Calls, begun < MaxCalls, ShareRuntimeToken(c)
  PROVE  GrantInv'
<1>1. PICK a \in People, u \in People, t \in Legacy, manage \in BOOLEAN :
        /\ UNCHANGED granted
        /\ Begin(c, [NoCall EXCEPT !.op = "share", !.users = {u}, !.flag = manage,
                                   !.pairs = {[user |-> u, token |-> t]}])
  BY DEF ShareRuntimeToken
<1> DEFINE fields == [NoCall EXCEPT !.op = "share", !.users = {u}, !.flag = manage,
                                    !.pairs = {[user |-> u, token |-> t]}]
<1>2. {u} \in SUBSET People
  OBVIOUS
<1>3. {[user |-> u, token |-> t]} \in SUBSET Pair
  BY TokensAssumption DEF Pair
<1>4. fields \in Call
  BY <1>2, <1>3, NoColumns, NoSends DEF NoCall, Call, InvitationStatuses
<1>5. /\ fields.row = 0 /\ DOMAIN fields.on = {} /\ fields.op = "share"
      /\ fields.pairs = {[user |-> u, token |-> t]}
  BY DEF NoCall
<1>6. Begin(c, fields)
  BY <1>1
<1>7. 0 \in 0 .. Len(invitations) /\ granted' = granted /\ granted \subseteq Permissions
  BY <1>1 DEF MembershipTypeOK, GrantInv
<1> HIDE DEF fields
<1>8. CallOK(fields, granted', member, invitations)
  BY <1>3, <1>5 DEF CallOK
<1> QED BY <1>4, <1>5, <1>6, <1>7, <1>8, BeginKeeps

LEMMA FetchKeeps ==
  ASSUME GrantInv, NEW c \in Calls, begun < MaxCalls, Fetch(c)
  PROVE  GrantInv'
<1>1. PICK t \in Tokens :
        /\ UNCHANGED granted
        /\ Begin(c, [NoCall EXCEPT !.op = "fetch", !.pairs = {[user |-> Owner, token |-> t]}])
  BY DEF Fetch
<1> DEFINE fields == [NoCall EXCEPT !.op = "fetch", !.pairs = {[user |-> Owner, token |-> t]}]
<1>2. {[user |-> Owner, token |-> t]} \in SUBSET Pair
  BY DEF Pair, People
<1>3. fields \in Call
  BY <1>2, NoColumns, NoSends DEF NoCall, Call, InvitationStatuses
<1>4. /\ fields.row = 0 /\ DOMAIN fields.on = {} /\ fields.op = "fetch"
      /\ fields.pairs = {[user |-> Owner, token |-> t]}
  BY DEF NoCall
<1>5. Begin(c, fields)
  BY <1>1
<1>6. 0 \in 0 .. Len(invitations) /\ granted' = granted /\ granted \subseteq Permissions
  BY <1>1 DEF MembershipTypeOK, GrantInv
<1> HIDE DEF fields
<1>7. CallOK(fields, granted', member, invitations)
  BY <1>2, <1>4 DEF CallOK
<1> QED BY <1>3, <1>4, <1>5, <1>6, <1>7, BeginKeeps

-----------------------------------------------------------------------------
(* The commits.                                                             *)
LEMMA CommitInviteKeeps ==
  ASSUME GrantInv, NEW c \in Calls, CommitInvite(c)
  PROVE  GrantInv'
<1> DEFINE q == calls[c]
           u == CHOOSE v \in q.users : TRUE
<1>1. q \in Call /\ q.op = "invite" /\ CallOK(q, granted, member, invitations)
  BY DEF CommitInvite, GrantInv, MembershipTypeOK, CallsOK
<1>2. PICK w \in Users : q.users = {w} /\ DOMAIN q.on = {w}
  BY <1>1 DEF CallOK
<1>3. u = w
  BY <1>2
<1>4. q.by \in People /\ q.on[u] \subseteq granted /\ granted \subseteq Permissions
  BY <1>1, <1>2, <1>3 DEF CallOK, GrantInv, MembershipTypeOK
<1>5. /\ member' = member /\ tokens' = tokens /\ shares' = shares /\ revealed' = revealed
  BY DEF CommitInvite
<1>6. /\ member' \in [People -> (SUBSET Permissions) \cup {NotMember}]
      /\ \A v \in People : IsMember(v) => member'[v] # NotMember
      /\ \A v \in Users : member'[v] # NotMember => member'[v] \subseteq granted
      /\ tokens' \in [Tokens -> TokenStates] /\ shares' \subseteq Share /\ revealed' \subseteq Pair
      /\ Len(invitations) \in Nat
  BY <1>5 DEF GrantInv, MembershipTypeOK, GrantsFromOwner, IsMember
<1>7. /\ invitations \in Seq(Invitation)
      /\ \A r \in DOMAIN invitations : invitations[r].permissions \subseteq granted
  BY DEF GrantInv, MembershipTypeOK, GrantsFromOwner
<1> DEFINE kept == [r \in DOMAIN invitations |->
                      IF r = q.row THEN [invitations[r] EXCEPT !.status = "expired"]
                      ELSE invitations[r]]
           new == [email |-> u, by |-> q.by, permissions |-> q.on[u], status |-> "pending",
                   sends |-> 1, cooling |-> MaxSends = 1, due |-> FALSE]
<1>8. CASE invitations' = invitations /\ Commit(c, {}, {}, {})
  <2>1. /\ invitations' \in Seq(Invitation) /\ Len(invitations') >= Len(invitations)
        /\ \A r \in DOMAIN invitations : invitations'[r].email = invitations[r].email
        /\ \A r \in DOMAIN invitations' : invitations'[r].permissions \subseteq granted
    BY <1>6, <1>7, <1>8
  <2>2. {} \in SUBSET People /\ Commit(c, {}, {}, {})
    BY <1>8
  <2> QED BY <1>6, <2>1, <2>2, CommitKeeps
<1>9. CASE invitations' = Append(kept, new) /\ Commit(c, {}, {}, {q.row} \ {0})
  <2>1. ASSUME NEW r \in DOMAIN invitations
        PROVE  /\ kept[r] \in Invitation
               /\ kept[r].email = invitations[r].email
               /\ kept[r].permissions = invitations[r].permissions
    <3>1. /\ invitations[r] \in Invitation
          /\ kept[r] \in {invitations[r], [invitations[r] EXCEPT !.status = "expired"]}
      BY <1>7
    <3> HIDE DEF kept
    <3> QED BY <3>1 DEF Invitation, InvitationStatuses
  <2>2. kept \in Seq(Invitation) /\ Len(kept) = Len(invitations)
    BY <1>7, <2>1
  <2>3. (MaxSends = 1) \in BOOLEAN
    BY Zenon
  <2>4. new \in Invitation
    BY <1>2, <1>3, <1>4, <2>3, NoSends DEF Invitation, InvitationStatuses
  <2>5. new.permissions \subseteq granted
    BY <1>4
  <2> HIDE DEF kept, new
  <2>6. /\ invitations' \in Seq(Invitation) /\ Len(invitations') = Len(invitations) + 1
        /\ \A r \in DOMAIN invitations : invitations'[r] = kept[r]
        /\ invitations'[Len(invitations')] = new
    BY <1>9, <2>2, <2>4, AppendProperties
  <2>7. Len(invitations) \in Nat
    BY <1>7
  <2>8. \A r \in DOMAIN invitations' : invitations'[r].permissions \subseteq granted
    <3>1. ASSUME NEW r \in DOMAIN invitations' PROVE r \in DOMAIN invitations \/ r = Len(invitations')
      BY <1>7, <2>6, <2>7
    <3> QED BY <1>7, <2>1, <2>5, <2>6, <3>1
  <2> QED BY <1>6, <1>9, <2>1, <2>6, <2>7, <2>8, CommitKeeps
<1> QED BY <1>8, <1>9 DEF CommitInvite

LEMMA CommitResendKeeps ==
  ASSUME GrantInv, NEW c \in Calls, CommitResend(c)
  PROVE  GrantInv'
<1> DEFINE q == calls[c]
           old == invitations[q.row]
           new == [email |-> old.email, by |-> IF q.by = NoUser THEN old.by ELSE q.by,
                   permissions |-> (old.permissions \ q.off[old.email]) \cup q.on[old.email],
                   status |-> old.status, sends |-> q.sends, cooling |-> q.sends >= MaxSends,
                   due |-> old.due]
<1>1. q \in Call /\ q.op = "resend" /\ CallOK(q, granted, member, invitations)
  BY DEF CommitResend, GrantInv, MembershipTypeOK, CallsOK
<1>2. q.row \in DOMAIN invitations /\ q.on[old.email] \subseteq granted
  BY <1>1 DEF CallOK
<1>3. /\ invitations \in Seq(Invitation) /\ granted \subseteq Permissions
      /\ \A r \in DOMAIN invitations : invitations[r].permissions \subseteq granted
  BY DEF GrantInv, MembershipTypeOK, GrantsFromOwner
<1>4. old \in Invitation
  BY <1>2, <1>3
<1>5. invitations' = [invitations EXCEPT ![q.row] = new]
  <2>1. invitations' = [invitations EXCEPT ![q.row] = invitations'[q.row]]
    BY <1>2, <1>3 DEF CommitResend
  <2>2. invitations'[q.row] =
          [old EXCEPT !.permissions = (old.permissions \ q.off[old.email]) \cup q.on[old.email],
                      !.by = IF q.by = NoUser THEN old.by ELSE q.by,
                      !.sends = q.sends, !.cooling = q.sends >= MaxSends]
    BY <1>2, <1>3 DEF CommitResend
  <2>3. invitations'[q.row] = new
    BY <1>4, <2>2 DEF Invitation
  <2> QED BY <2>1, <2>3
<1>6. (q.sends >= MaxSends) \in BOOLEAN
  OBVIOUS
<1>7. new \in Invitation /\ new.permissions \subseteq granted /\ new.email = old.email
  BY <1>1, <1>2, <1>3, <1>4, <1>6 DEF Invitation, Call
<1> HIDE DEF new
<1>8. /\ invitations' \in Seq(Invitation) /\ Len(invitations') = Len(invitations)
      /\ \A r \in DOMAIN invitations : invitations'[r].email = invitations[r].email
      /\ \A r \in DOMAIN invitations' : invitations'[r].permissions \subseteq granted
  BY <1>2, <1>3, <1>5, <1>7
<1>9. /\ member' = member /\ tokens' = tokens /\ shares' = shares /\ revealed' = revealed
      /\ Commit(c, {}, {}, {q.row})
  BY DEF CommitResend
<1>10. /\ member' \in [People -> (SUBSET Permissions) \cup {NotMember}]
       /\ \A v \in People : IsMember(v) => member'[v] # NotMember
       /\ \A v \in Users : member'[v] # NotMember => member'[v] \subseteq granted
       /\ tokens' \in [Tokens -> TokenStates] /\ shares' \subseteq Share /\ revealed' \subseteq Pair
       /\ Len(invitations) \in Nat
  BY <1>9 DEF GrantInv, MembershipTypeOK, GrantsFromOwner, IsMember
<1> QED BY <1>8, <1>9, <1>10, CommitKeeps

(* The statuses of invitations are no matter of the invariant. *)
LEMMA StatusKeeps ==
  ASSUME GrantInv, NEW r \in DOMAIN invitations, NEW status \in InvitationStatuses,
         invitations' = [invitations EXCEPT ![r].status = status]
  PROVE  /\ invitations' \in Seq(Invitation) /\ Len(invitations') = Len(invitations)
         /\ Len(invitations) \in Nat
         /\ \A i \in DOMAIN invitations : invitations'[i].email = invitations[i].email
         /\ \A i \in DOMAIN invitations' : invitations'[i].permissions \subseteq granted
<1>1. /\ invitations \in Seq(Invitation)
      /\ \A i \in DOMAIN invitations : invitations[i].permissions \subseteq granted
  BY DEF GrantInv, MembershipTypeOK, GrantsFromOwner
<1>2. invitations[r] \in Invitation
  BY <1>1
<1> DEFINE new == [invitations[r] EXCEPT !.status = status]
<1>3. new \in Invitation /\ new.email = invitations[r].email
        /\ new.permissions = invitations[r].permissions
  BY <1>2 DEF Invitation
<1>4. invitations' = [invitations EXCEPT ![r] = new]
  OBVIOUS
<1> HIDE DEF new
<1> QED BY <1>1, <1>3, <1>4

(* What a commit that leaves the other tables alone owes CommitKeeps. *)
LEMMA OthersKeep ==
  ASSUME GrantInv
  PROVE  /\ member \in [People -> (SUBSET Permissions) \cup {NotMember}]
         /\ \A v \in People : IsMember(v) => member[v] # NotMember
         /\ \A v \in Users : member[v] # NotMember => member[v] \subseteq granted
         /\ tokens \in [Tokens -> TokenStates] /\ shares \subseteq Share /\ revealed \subseteq Pair
         /\ invitations \in Seq(Invitation) /\ Len(invitations) >= Len(invitations)
         /\ \A r \in DOMAIN invitations : invitations[r].permissions \subseteq granted
BY DEF GrantInv, MembershipTypeOK, GrantsFromOwner, IsMember

LEMMA CommitSettleKeeps ==
  ASSUME GrantInv, NEW c \in Calls, CommitSettle(c)
  PROVE  GrantInv'
<1> DEFINE q == calls[c]
<1>1. q \in Call /\ q.op = "settle" /\ CallOK(q, granted, member, invitations)
  BY DEF CommitSettle, GrantInv, MembershipTypeOK, CallsOK
<1>2. q.row \in DOMAIN invitations /\ q.status \in InvitationStatuses
  BY <1>1 DEF CallOK, Call
<1>3. /\ invitations' = [invitations EXCEPT ![q.row].status = q.status]
      /\ Commit(c, {}, {}, {q.row})
      /\ member' = member /\ tokens' = tokens /\ shares' = shares /\ revealed' = revealed
  BY DEF CommitSettle
<1> QED BY <1>2, <1>3, StatusKeeps, OthersKeep, CommitKeeps

LEMMA CommitJoinKeeps ==
  ASSUME GrantInv, NEW c \in Calls, CommitJoin(c)
  PROVE  GrantInv'
<1> DEFINE q == calls[c]
           u == CHOOSE v \in q.users : TRUE
<1>1. q \in Call /\ q.op = "join" /\ CallOK(q, granted, member, invitations)
  BY DEF CommitJoin, GrantInv, MembershipTypeOK, CallsOK
<1>2. PICK w \in Users : q.users = {w} /\ DOMAIN q.on = {w}
  BY <1>1 DEF CallOK
<1>3. u = w /\ q.on[u] \subseteq granted /\ q.row \in DOMAIN invitations
  BY <1>1, <1>2 DEF CallOK
<1>4. tokens' = tokens /\ shares' = shares /\ revealed' = revealed
  BY DEF CommitJoin
<1>5. CASE member' = member /\ invitations' = invitations /\ Commit(c, {}, {}, {})
  BY <1>4, <1>5, OthersKeep, CommitKeeps
<1>6. CASE /\ member' = [member EXCEPT ![u] = q.on[u]]
           /\ invitations' = [invitations EXCEPT ![q.row].status = "accepted"]
           /\ Commit(c, {u}, {}, {q.row})
  <2>1. granted \subseteq Permissions /\ NotMember \notin SUBSET Permissions
    BY DEF GrantInv, MembershipTypeOK, NotMember, Permissions
  <2>2. /\ member' \in [People -> (SUBSET Permissions) \cup {NotMember}]
        /\ \A v \in People : IsMember(v) => member'[v] # NotMember
        /\ \A v \in Users : member'[v] # NotMember => member'[v] \subseteq granted
    BY <1>2, <1>3, <1>6, <2>1, OthersKeep DEF People
  <2>3. "accepted" \in InvitationStatuses
    BY DEF InvitationStatuses
  <2> QED BY <1>3, <1>4, <1>6, <2>2, <2>3, StatusKeeps, OthersKeep, CommitKeeps
<1> QED BY <1>5, <1>6 DEF CommitJoin

LEMMA CommitPermissionsKeeps ==
  ASSUME GrantInv, NEW c \in Calls, CommitPermissions(c)
  PROVE  GrantInv'
<1> DEFINE q == calls[c]
           changed == {u \in q.users : q.on[u] \cup q.off[u] # {}}
<1>1. q \in Call /\ q.op = "permit" /\ CallOK(q, granted, member, invitations)
  BY DEF CommitPermissions, GrantInv, MembershipTypeOK, CallsOK
<1>2. /\ invitations' = invitations /\ tokens' = tokens /\ shares' = shares
      /\ revealed' = revealed
  BY DEF CommitPermissions
<1>3. CASE member' = member /\ Commit(c, {}, {}, {})
  BY <1>2, <1>3, OthersKeep, CommitKeeps
<1>4. CASE /\ changed \cap q.gone = {}
           /\ member' = [u \in People |-> IF u \in changed THEN (member[u] \ q.off[u]) \cup q.on[u]
                                          ELSE member[u]]
           /\ Commit(c, changed, {}, {})
  <2>1. granted \subseteq Permissions /\ NotMember \notin SUBSET Permissions
    BY DEF GrantInv, MembershipTypeOK, NotMember, Permissions
  <2>2. ASSUME NEW u \in changed
        PROVE  /\ u \in Users /\ member[u] # NotMember /\ member[u] \subseteq granted
               /\ (member[u] \ q.off[u]) \cup q.on[u] \subseteq granted
    <3>1. u \in q.users /\ u \notin q.gone
      BY <1>4
    <3>2. u \in Users /\ q.on[u] \subseteq granted /\ member[u] # NotMember
      BY <1>1, <3>1 DEF CallOK
    <3>3. member[u] \subseteq granted
      BY <3>2, OthersKeep
    <3> QED BY <3>2, <3>3
  <2>3. changed \subseteq Users
    BY <2>2
  <2> HIDE DEF changed
  <2>4. /\ member' \in [People -> (SUBSET Permissions) \cup {NotMember}]
        /\ \A v \in People : IsMember(v) => member'[v] # NotMember
        /\ \A v \in Users : member'[v] # NotMember => member'[v] \subseteq granted
    <3>1. ASSUME NEW v \in People
          PROVE  /\ member'[v] \in (SUBSET Permissions) \cup {NotMember}
                 /\ IsMember(v) => member'[v] # NotMember
                 /\ v \in Users /\ member'[v] # NotMember => member'[v] \subseteq granted
      <4>1. CASE v \in changed
        BY <1>4, <2>1, <2>2, <4>1
      <4>2. CASE v \notin changed
        BY <1>4, <4>2, OthersKeep
      <4> QED BY <4>1, <4>2
    <3> QED BY <1>4, <3>1 DEF People
  <2> QED BY <1>2, <1>4, <2>4, OthersKeep, CommitKeeps
<1> QED BY <1>3, <1>4 DEF CommitPermissions

LEMMA DropType ==
  ASSUME GrantInv, NEW doomed, NEW how \in TokenStates, Drop(doomed, how)
  PROVE  tokens' \in [Tokens -> TokenStates]
BY OthersKeep DEF Drop

LEMMA CommitRevokeMemberKeeps ==
  ASSUME GrantInv, NEW c \in Calls, CommitRevokeMember(c)
  PROVE  GrantInv'
<1> DEFINE q == calls[c]
           left == q.users \ q.gone
<1>1. q \in Call
  BY DEF GrantInv, MembershipTypeOK
<1>2. CASE /\ Commit(c, {}, {}, {})
           /\ UNCHANGED <<member, invitations, tokens, shares, revealed>>
  BY <1>2, OthersKeep, CommitKeeps
<1>3. CASE Drop(Doomed(q), "deleted") /\ shares' \subseteq shares /\ Leave(c, q)
  <2>1. "deleted" \in TokenStates
    BY DEF TokenStates
  <2>2. tokens' \in [Tokens -> TokenStates]
    BY <1>3, <2>1, DropType
  <2>3. /\ member' = [u \in People |-> IF u \in left THEN NotMember ELSE member[u]]
        /\ revealed' \subseteq revealed /\ invitations' = invitations
        /\ Commit(c, q.users, left, {})
    BY <1>3 DEF Leave
  <2>4. left \in SUBSET People
    BY <1>1 DEF Call
  <2> HIDE DEF left
  <2>5. /\ member' \in [People -> (SUBSET Permissions) \cup {NotMember}]
        /\ \A v \in People : IsMember(v) /\ v \notin left => member'[v] # NotMember
        /\ \A v \in Users : member'[v] # NotMember => member'[v] \subseteq granted
    BY <2>3, OthersKeep DEF People
  <2>6. shares' \subseteq Share /\ revealed' \subseteq Pair
    BY <1>3, <2>3, OthersKeep
  <2> QED BY <2>2, <2>3, <2>4, <2>5, <2>6, OthersKeep, CommitKeeps
<1> QED BY <1>2, <1>3 DEF CommitRevokeMember

LEMMA CommitShareKeeps ==
  ASSUME GrantInv, NEW c \in Calls, CommitShare(c)
  PROVE  GrantInv'
<1> DEFINE q == calls[c]
           k == CHOOSE p \in q.pairs : TRUE
<1>1. q \in Call /\ q.op = "share" /\ CallOK(q, granted, member, invitations)
  BY DEF CommitShare, GrantInv, MembershipTypeOK, CallsOK
<1>2. PICK p \in Pair : q.pairs = {p} /\ p.token \in Legacy
  BY <1>1 DEF CallOK
<1>3. k = p
  BY <1>2
<1>4. [token |-> k.token, user |-> k.user, manage |-> q.flag] \in Share
  BY <1>1, <1>2, <1>3 DEF Share, Pair, Call
<1>5. /\ shares' \in {shares, shares \cup {[token |-> k.token, user |-> k.user, manage |-> q.flag]}}
      /\ member' = member /\ invitations' = invitations /\ tokens' = tokens /\ revealed' = revealed
  BY DEF CommitShare
<1>6. Commit(c, {}, {}, {}) \/ Commit(c, {k.user}, {}, {})
  BY DEF CommitShare
<1> HIDE DEF k
<1>7. shares' \subseteq Share
  BY <1>4, <1>5, OthersKeep
<1> QED BY <1>5, <1>6, <1>7, OthersKeep, CommitKeeps

(* A step that makes no grant, touches no call but its own, which it ends,   *)
(* and leaves who is a member and what is offered as it was.                 *)
LEMMA AsideKeeps ==
  ASSUME GrantInv, UNCHANGED <<visibility, member, granted, raced>>,
         begun' \in 0 .. MaxCalls,
         \A c \in Calls : calls'[c] \in {calls[c], NoCall}, calls' \in [Calls -> Call],
         tokens' \in [Tokens -> TokenStates], shares' \subseteq Share, revealed' \subseteq Pair,
         served' \subseteq Tokens,
         invitations' \in Seq(Invitation), Len(invitations') = Len(invitations),
         \A r \in DOMAIN invitations : /\ invitations'[r].email = invitations[r].email
                                      /\ invitations'[r].permissions = invitations[r].permissions
  PROVE  GrantInv'
<1>1. DOMAIN invitations' = DOMAIN invitations /\ Len(invitations) \in Nat
  BY OthersKeep
<1>2. ASSUME NEW c \in Calls
      PROVE  /\ CallOK(calls'[c], granted, member, invitations')
             /\ calls'[c].row \in 0 .. Len(invitations')
             /\ DOMAIN calls'[c].on \subseteq calls'[c].users
  <2>1. CASE calls'[c] = NoCall
    <3>1. NoCall.op = "none" /\ NoCall.row = 0 /\ DOMAIN NoCall.on = {}
      BY DEF NoCall
    <3> QED BY <1>1, <2>1, <3>1 DEF CallOK
  <2>2. CASE calls'[c] = calls[c]
    <3>1. /\ CallOK(calls[c], granted, member, invitations)
          /\ calls[c].row \in 0 .. Len(invitations) /\ DOMAIN calls[c].on \subseteq calls[c].users
      BY DEF GrantInv, CallsOK, MembershipTypeOK
    <3> QED BY <1>1, <2>2, <3>1 DEF CallOK
  <2> QED BY <2>1, <2>2
<1>3. CallsOK'
  BY <1>2 DEF CallsOK
<1>4. MembershipTypeOK'
  BY <1>2 DEF GrantInv, MembershipTypeOK
<1>5. GrantsFromOwner'
  BY <1>1 DEF GrantInv, GrantsFromOwner, IsMember
<1> QED BY <1>3, <1>4, <1>5 DEF GrantInv

LEMMA ServeKeeps ==
  ASSUME GrantInv, NEW c \in Calls, Serve(c)
  PROVE  GrantInv'
<1> DEFINE q == calls[c]
           k == CHOOSE p \in q.pairs : TRUE
<1>1. q \in Call /\ q.op = "fetch" /\ CallOK(q, granted, member, invitations)
  BY DEF Serve, GrantInv, MembershipTypeOK, CallsOK
<1>2. PICK p \in Pair : q.pairs = {p}
  BY <1>1 DEF CallOK
<1>3. k.token \in Tokens
  BY <1>2 DEF Pair
<1>4. served' \in {served, served \cup {k.token}} /\ calls' = [calls EXCEPT ![c] = NoCall]
      /\ UNCHANGED <<visibility, member, invitations, tokens, shares, begun, granted, revealed, raced>>
  BY DEF Serve
<1> HIDE DEF k
<1>5. served' \subseteq Tokens
  BY <1>3, <1>4 DEF GrantInv, MembershipTypeOK
<1>6. calls' \in [Calls -> Call] /\ \A d \in Calls : calls'[d] \in {calls[d], NoCall}
  BY <1>4, NoCallIsCall DEF GrantInv, MembershipTypeOK
<1>7. begun' \in 0 .. MaxCalls
  BY <1>4 DEF GrantInv, MembershipTypeOK
<1> QED BY <1>4, <1>5, <1>6, <1>7, OthersKeep, AsideKeeps

LEMMA UpdateProjectKeeps ==
  ASSUME GrantInv, UpdateProject
  PROVE  GrantInv'
<1>1. /\ granted \subseteq granted' /\ granted' \subseteq Permissions
      /\ visibility' \in {"owner_only", "members", "specific"}
      /\ visibility' = "members" => "audit" \in granted'
  BY VisibilitiesAssumption DEF UpdateProject, GrantInv, MembershipTypeOK, Permissions
<1>2. UNCHANGED <<member, invitations, tokens, shares, calls, revealed, served, raced>>
  BY DEF UpdateProject
<1>3. begun' \in 0 .. MaxCalls
  BY SendsAssumption DEF UpdateProject, GrantInv, MembershipTypeOK
<1>4. MembershipTypeOK'
  BY <1>1, <1>2, <1>3 DEF GrantInv, MembershipTypeOK
<1>5. CallsOK'
  BY <1>1, <1>2, CallOKGrows DEF GrantInv, CallsOK
<1>6. GrantsFromOwner'
  BY <1>1, <1>2 DEF GrantInv, GrantsFromOwner, IsMember
<1> QED BY <1>1, <1>4, <1>5, <1>6 DEF GrantInv

(* create_runtime_token, reveal_runtime_token, revoke_runtime_token,         *)
(* delete_environment and the expiry of a token: no matter of grants.        *)
LEMMA TokensKeep ==
  ASSUME GrantInv,
         \/ CreateRuntimeToken \/ RevealRuntimeToken \/ RevokeRuntimeToken
         \/ DeleteEnvironment \/ TokenExpires
  PROVE  GrantInv'
<1> DEFINE Frame == UNCHANGED <<visibility, member, invitations, calls, granted, served, raced>>
<1>1. begun \in 0 .. MaxCalls /\ calls \in [Calls -> Call] /\ served \subseteq Tokens
  BY DEF GrantInv, MembershipTypeOK
<1>2. {"live", "deleted", "cascaded", "expired"} \subseteq TokenStates
  BY DEF TokenStates
<1>3. CASE CreateRuntimeToken
  <2>1. Frame /\ begun' \in 0 .. MaxCalls /\ shares' \subseteq shares /\ revealed' = revealed
    BY <1>1, <1>3, SendsAssumption DEF CreateRuntimeToken
  <2>2. tokens' \in [Tokens -> TokenStates]
    BY <1>2, <1>3, OthersKeep DEF CreateRuntimeToken
  <2> QED BY <1>1, <2>1, <2>2, OthersKeep, AsideKeeps
<1>4. CASE RevealRuntimeToken
  <2>1. Frame /\ UNCHANGED <<begun, tokens, shares>>
    BY <1>4 DEF RevealRuntimeToken
  <2>2. revealed' \subseteq Pair
    <3>1. PICK s \in shares : revealed' = revealed \cup {[user |-> s.user, token |-> s.token]}
      BY <1>4 DEF RevealRuntimeToken
    <3>2. [user |-> s.user, token |-> s.token] \in Pair
      BY OthersKeep, TokensAssumption DEF Share, Pair
    <3> QED BY <3>1, <3>2, OthersKeep
  <2> QED BY <1>1, <2>1, <2>2, OthersKeep, AsideKeeps
<1>5. CASE RevokeRuntimeToken
  <2>1. Frame /\ begun' \in 0 .. MaxCalls /\ shares' \subseteq shares /\ revealed' = revealed
    BY <1>1, <1>5, SendsAssumption DEF RevokeRuntimeToken
  <2>2. tokens' \in [Tokens -> TokenStates]
    BY <1>2, <1>5, DropType DEF RevokeRuntimeToken
  <2> QED BY <1>1, <2>1, <2>2, OthersKeep, AsideKeeps
<1>6. CASE DeleteEnvironment
  <2>1. Frame /\ begun' \in 0 .. MaxCalls /\ shares' \subseteq shares /\ revealed' = revealed
    BY <1>1, <1>6, SendsAssumption DEF DeleteEnvironment
  <2>2. tokens' \in [Tokens -> TokenStates]
    BY <1>2, <1>6, DropType DEF DeleteEnvironment
  <2> QED BY <1>1, <2>1, <2>2, OthersKeep, AsideKeeps
<1>7. CASE TokenExpires
  <2>1. Frame /\ UNCHANGED <<begun, shares, revealed>>
    BY <1>7 DEF TokenExpires
  <2>2. tokens' \in [Tokens -> TokenStates]
    BY <1>2, <1>7, OthersKeep DEF TokenExpires
  <2> QED BY <1>1, <2>1, <2>2, OthersKeep, AsideKeeps
<1> QED BY <1>3, <1>4, <1>5, <1>6, <1>7

LEMMA InvitationTimeKeeps ==
  ASSUME GrantInv, InvitationDue \/ CooldownEnds
  PROVE  GrantInv'
<1>1. PICK r \in DOMAIN invitations :
        \/ invitations' = [invitations EXCEPT ![r].due = TRUE]
        \/ invitations' = [invitations EXCEPT ![r].cooling = FALSE]
  BY DEF InvitationDue, CooldownEnds
<1>2. invitations \in Seq(Invitation) /\ invitations[r] \in Invitation
  BY OthersKeep
<1> DEFINE new == invitations'[r]
<1>3. new \in {[invitations[r] EXCEPT !.due = TRUE], [invitations[r] EXCEPT !.cooling = FALSE]}
  BY <1>1, <1>2
<1>4. invitations' = [invitations EXCEPT ![r] = new]
  BY <1>1
<1> HIDE DEF new
<1>5. new \in Invitation /\ new.email = invitations[r].email
        /\ new.permissions = invitations[r].permissions
  BY <1>2, <1>3 DEF Invitation
<1>6. /\ invitations' \in Seq(Invitation) /\ Len(invitations') = Len(invitations)
      /\ \A i \in DOMAIN invitations : /\ invitations'[i].email = invitations[i].email
                                       /\ invitations'[i].permissions = invitations[i].permissions
  BY <1>2, <1>4, <1>5
<1>7. UNCHANGED <<visibility, member, tokens, shares, calls, begun, granted, revealed, served, raced>>
  BY DEF InvitationDue, CooldownEnds
<1>8. begun \in 0 .. MaxCalls /\ calls \in [Calls -> Call] /\ served \subseteq Tokens
  BY DEF GrantInv, MembershipTypeOK
<1> QED BY <1>6, <1>7, <1>8, OthersKeep, AsideKeeps

-----------------------------------------------------------------------------
LEMMA GrantInit == MembershipInit => GrantInv
<1> SUFFICES ASSUME MembershipInit PROVE GrantInv
  OBVIOUS
<1>1. MembershipTypeOK
  BY InitType
<1>2. CallsOK
  BY NoCallOK DEF MembershipInit, CallsOK
<1>3. GrantsFromOwner /\ (visibility = "members" => "audit" \in granted)
  <2>1. PICK founders \in Founders :
          /\ member = [u \in People |-> IF u = Owner THEN Permissions ELSE founders[u]]
          /\ granted = (UNION {founders[u] : u \in {v \in Users : founders[v] # NotMember}})
                         \cup (IF visibility = "members" THEN {"audit"} ELSE {})
    BY DEF MembershipInit
  <2>2. ASSUME NEW u \in Users, IsMember(u) PROVE member[u] \subseteq granted
    <3>1. member[u] = founders[u] /\ founders[u] # NotMember
      BY <2>1, <2>2, PeopleAssumption DEF People, IsMember
    <3>2. founders[u] \subseteq UNION {founders[w] : w \in {v \in Users : founders[v] # NotMember}}
      BY <3>1
    <3> QED BY <2>1, <3>1, <3>2
  <2>3. DOMAIN invitations = {}
    BY DEF MembershipInit
  <2>4. visibility = "members" => "audit" \in granted
    BY <2>1
  <2> QED BY <2>2, <2>3, <2>4 DEF GrantsFromOwner
<1> QED BY <1>1, <1>2, <1>3 DEF GrantInv

LEMMA GrantNext == GrantInv /\ [MembershipNext]_membershipVars => GrantInv'
<1> SUFFICES ASSUME GrantInv, [MembershipNext]_membershipVars PROVE GrantInv'
  OBVIOUS
<1>1. ASSUME NEW c \in Calls, Endpoint(c) PROVE GrantInv'
  <2>1. begun < MaxCalls
    BY <1>1 DEF Endpoint
  <2> QED BY <1>1, <2>1, InviteKeeps, RevokeReadRejectKeeps, AcceptKeeps,
             UpdateMemberPermissionsKeeps, RevokeMemberKeeps, ShareKeeps, FetchKeeps DEF Endpoint
<1>2. ASSUME NEW c \in Calls, Commits(c) PROVE GrantInv'
  BY <1>2, CommitInviteKeeps, CommitResendKeeps, CommitSettleKeeps, CommitJoinKeeps,
     CommitPermissionsKeeps, CommitRevokeMemberKeeps, CommitShareKeeps, ServeKeeps DEF Commits
<1>3. CASE UpdateProject
  BY <1>3, UpdateProjectKeeps
<1>4. CASE CreateRuntimeToken \/ RevealRuntimeToken \/ RevokeRuntimeToken \/ DeleteEnvironment
  BY <1>4, TokensKeep
<1>5. CASE Time
  BY <1>5, TokensKeep, InvitationTimeKeeps DEF Time
<1>6. CASE UNCHANGED membershipVars
  BY <1>6 DEF membershipVars, GrantInv, MembershipTypeOK, CallsOK, GrantsFromOwner, IsMember
<1> QED BY <1>1, <1>2, <1>3, <1>4, <1>5, <1>6 DEF MembershipNext

(* Rows hold what their columns hold, whatever requests overlap. *)
THEOREM MembershipTypeCorrect == MembershipSpec => []MembershipTypeOK
<1>1. GrantInv => MembershipTypeOK
  BY DEF GrantInv
<1> QED BY <1>1, GrantInit, GrantNext, PTL DEF MembershipSpec

(* However many requests overlap, and however permissions are delegated from *)
(* member to member, nobody holds or is offered a permission that the owner  *)
(* has never given to anyone.                                                *)
THEOREM GrantsFromOwnerHolds == MembershipSpec => []GrantsFromOwner
<1>1. GrantInv => GrantsFromOwner
  BY DEF GrantInv
<1> QED BY <1>1, GrantInit, GrantNext, PTL DEF MembershipSpec

-----------------------------------------------------------------------------
(* An acceptance that nothing has overtaken stays within its inviter. *)
WithinInviter(q, members) ==
  \/ q.by = Owner
  \/ /\ members[q.by] # NotMember /\ "team" \in members[q.by]
     /\ \A u \in DOMAIN q.on : q.on[u] \subseteq members[q.by]

JoinsOK == \A c \in Calls : calls[c].op = "join" /\ ~calls[c].stale => WithinInviter(calls[c], member)

JoinInv == GrantInv /\ JoinsOK

LEMMA JoinBegin ==
  ASSUME JoinInv, NEW c \in Calls, UNCHANGED member,
         \A d \in Calls \ {c} : calls'[d] = calls[d],
         calls'[c].op = "join" => WithinInviter(calls'[c], member)
  PROVE  JoinsOK'
BY DEF JoinInv, JoinsOK

LEMMA JoinCommit ==
  ASSUME JoinInv, NEW c \in Calls, NEW people, NEW removed, NEW rows, Commit(c, people, removed, rows),
         \A u \in People \ people : member'[u] = member[u]
  PROVE  JoinsOK'
<1> SUFFICES ASSUME NEW d \in Calls, calls'[d].op = "join", ~calls'[d].stale
             PROVE  WithinInviter(calls'[d], member')
  BY DEF JoinsOK
<1>1. calls[d] \in Call /\ CallOK(calls[d], granted, member, invitations)
  BY DEF JoinInv, GrantInv, MembershipTypeOK, CallsOK
<1>2. d # c /\ calls[d].op # "none"
  BY DEF Commit, NoCall
<1>3. calls'[d] = [calls[d] EXCEPT
        !.stale = calls[d].stale \/ ((calls[d].users \cup {calls[d].by}) \cap people # {}
                                       \/ calls[d].row \in rows),
        !.gone = calls[d].gone \cup (removed \cap calls[d].users)]
  BY <1>2, Zenon DEF Commit
<1>4. /\ calls'[d].op = calls[d].op /\ calls'[d].by = calls[d].by /\ calls'[d].on = calls[d].on
      /\ ~calls[d].stale /\ calls[d].by \notin people
  <2>1. /\ calls'[d].op = calls[d].op /\ calls'[d].by = calls[d].by /\ calls'[d].on = calls[d].on
    BY <1>1, <1>3 DEF Call
  <2>2. calls'[d].stale = (calls[d].stale \/ ((calls[d].users \cup {calls[d].by}) \cap people # {}
                                                \/ calls[d].row \in rows))
    BY <1>1, <1>3 DEF Call
  <2>3. ~calls[d].stale /\ (calls[d].users \cup {calls[d].by}) \cap people = {}
    BY <2>2, Zenon
  <2> QED BY <2>1, <2>3
<1>5. WithinInviter(calls[d], member)
  BY <1>4 DEF JoinInv, JoinsOK
<1>6. calls[d].by \in People
  BY <1>1, <1>4 DEF CallOK
<1>7. member'[calls[d].by] = member[calls[d].by]
  BY <1>4, <1>6
<1> QED BY <1>4, <1>5, <1>7 DEF WithinInviter

LEMMA JoinAside ==
  ASSUME JoinInv, UNCHANGED member, \A c \in Calls : calls'[c] \in {calls[c], NoCall}
  PROVE  JoinsOK'
BY DEF JoinInv, JoinsOK, NoCall

LEMMA JoinEndpoint ==
  ASSUME JoinInv, NEW c \in Calls, Endpoint(c)
  PROVE  JoinsOK'
<1>1. calls \in [Calls -> Call]
  BY DEF JoinInv, GrantInv, MembershipTypeOK
<1>2. ASSUME NEW fields, Begin(c, fields), fields.op = "join" => WithinInviter(fields, member)
      PROVE  JoinsOK'
  BY <1>1, <1>2, JoinBegin DEF Begin
<1>3. ASSUME NEW r, NEW status, Settles(c, r, status) PROVE JoinsOK'
  <2> DEFINE fields == [NoCall EXCEPT !.op = "settle", !.users = {invitations[r].email}, !.row = r,
                                      !.status = status]
  <2>1. Begin(c, fields)
    BY <1>3 DEF Settles
  <2>2. fields.op = "settle"
    BY DEF NoCall
  <2> HIDE DEF fields
  <2> QED BY <1>2, <2>1, <2>2
<1>4. CASE RevokeInvitation(c) \/ ReadInvitation(c) \/ Reject(c)
  BY <1>3, <1>4 DEF RevokeInvitation, ReadInvitation, Reject
<1>5. CASE Accept(c)
  <2>1. PICK r \in DOMAIN invitations :
          \/ Settles(c, r, "expired") \/ Settles(c, r, "revoked") \/ Settles(c, r, "accepted")
          \/ /\ \/ invitations[r].by = Owner
                \/ /\ IsMember(invitations[r].by) /\ "team" \in member[invitations[r].by]
                   /\ invitations[r].permissions \subseteq member[invitations[r].by]
             /\ Begin(c, [NoCall EXCEPT !.op = "join", !.users = {invitations[r].email}, !.row = r,
                        !.by = invitations[r].by,
                        !.on = [v \in {invitations[r].email} |-> invitations[r].permissions]])
    BY <1>5 DEF Accept
  <2> DEFINE fields == [NoCall EXCEPT !.op = "join", !.users = {invitations[r].email}, !.row = r,
                        !.by = invitations[r].by,
                        !.on = [v \in {invitations[r].email} |-> invitations[r].permissions]]
  <2>2. /\ fields.by = invitations[r].by
        /\ fields.on = [v \in {invitations[r].email} |-> invitations[r].permissions]
    BY DEF NoCall
  <2>3. CASE Settles(c, r, "expired") \/ Settles(c, r, "revoked") \/ Settles(c, r, "accepted")
    BY <1>3, <2>3
  <2>4. CASE /\ \/ invitations[r].by = Owner
                \/ /\ IsMember(invitations[r].by) /\ "team" \in member[invitations[r].by]
                   /\ invitations[r].permissions \subseteq member[invitations[r].by]
             /\ Begin(c, fields)
    <3> HIDE DEF fields
    <3>1. WithinInviter(fields, member)
      BY <2>2, <2>4 DEF WithinInviter, IsMember
    <3> QED BY <1>2, <2>4, <3>1
  <2> QED BY <2>1, <2>3, <2>4
<1>6. CASE Invite(c)
  <2>1. PICK a \in People, u \in Users, offer \in Offers :
          /\ MayInvite(a, u, offer)
          /\ Grants(a, offer)
          /\ \/ /\ \A r \in Pending(u) : DueRow(r)
                /\ \E r \in IF Pending(u) = {} THEN {0} ELSE Pending(u) :
                     Begin(c, [NoCall EXCEPT !.op = "invite", !.users = {u}, !.by = a,
                                             !.on = [v \in {u} |-> offer], !.row = r])
             \/ \E r \in Pending(u) :
                  /\ ~DueRow(r)
                  /\ MaySend(invitations[r])
                  /\ Begin(c, [NoCall EXCEPT
                        !.op = "resend", !.users = {u}, !.row = r,
                        !.by = IF invitations[r].by = a THEN NoUser ELSE a,
                        !.sends = SendsAfter(invitations[r]),
                        !.on = [v \in {u} |-> offer \ invitations[r].permissions],
                        !.off = [v \in {u} |-> invitations[r].permissions \ offer]])
    BY <1>6, Zenon DEF Invite
  <2>2. ASSUME NEW r, Begin(c, [NoCall EXCEPT !.op = "invite", !.users = {u}, !.by = a,
                                             !.on = [v \in {u} |-> offer], !.row = r])
        PROVE  JoinsOK'
    <3> DEFINE fields == [NoCall EXCEPT !.op = "invite", !.users = {u}, !.by = a,
                                             !.on = [v \in {u} |-> offer], !.row = r]
    <3>1. fields.op = "invite" /\ Begin(c, fields)
      BY <2>2 DEF NoCall
    <3> HIDE DEF fields
    <3> QED BY <1>2, <3>1
  <2>3. ASSUME NEW r, Begin(c, [NoCall EXCEPT
                        !.op = "resend", !.users = {u}, !.row = r,
                        !.by = IF invitations[r].by = a THEN NoUser ELSE a,
                        !.sends = SendsAfter(invitations[r]),
                        !.on = [v \in {u} |-> offer \ invitations[r].permissions],
                        !.off = [v \in {u} |-> invitations[r].permissions \ offer]])
        PROVE  JoinsOK'
    <3> DEFINE fields == [NoCall EXCEPT
                        !.op = "resend", !.users = {u}, !.row = r,
                        !.by = IF invitations[r].by = a THEN NoUser ELSE a,
                        !.sends = SendsAfter(invitations[r]),
                        !.on = [v \in {u} |-> offer \ invitations[r].permissions],
                        !.off = [v \in {u} |-> invitations[r].permissions \ offer]]
    <3>1. fields.op = "resend" /\ Begin(c, fields)
      BY <2>3 DEF NoCall
    <3> HIDE DEF fields
    <3> QED BY <1>2, <3>1
  <2> QED BY <2>1, <2>2, <2>3, Zenon
<1>7. CASE UpdateMemberPermissions(c)
  <2>1. UNCHANGED member /\ \A d \in Calls \ {c} : calls'[d] = calls[d]
    BY <1>7 DEF UpdateMemberPermissions, Begin
  <2>2. calls'[c].op = "permit"
    BY <1>1, <1>7 DEF UpdateMemberPermissions, Begin, NoCall
  <2> QED BY <2>1, <2>2, JoinBegin
<1>8. CASE RevokeMember(c)
  <2>1. UNCHANGED member /\ \A d \in Calls \ {c} : calls'[d] = calls[d]
    BY <1>8 DEF RevokeMember, Begin
  <2>2. calls'[c].op = "remove"
    BY <1>1, <1>8 DEF RevokeMember, Begin, NoCall
  <2> QED BY <2>1, <2>2, JoinBegin
<1>9. CASE ShareRuntimeToken(c)
  <2>1. UNCHANGED member /\ \A d \in Calls \ {c} : calls'[d] = calls[d]
    BY <1>9 DEF ShareRuntimeToken, Begin
  <2>2. calls'[c].op = "share"
    BY <1>1, <1>9 DEF ShareRuntimeToken, Begin, NoCall
  <2> QED BY <2>1, <2>2, JoinBegin
<1>10. CASE Fetch(c)
  <2>1. UNCHANGED member /\ \A d \in Calls \ {c} : calls'[d] = calls[d]
    BY <1>10 DEF Fetch, Begin
  <2>2. calls'[c].op = "fetch"
    BY <1>1, <1>10 DEF Fetch, Begin, NoCall
  <2> QED BY <2>1, <2>2, JoinBegin
<1> QED BY <1>4, <1>5, <1>6, <1>7, <1>8, <1>9, <1>10 DEF Endpoint

LEMMA JoinCommits ==
  ASSUME JoinInv, NEW c \in Calls, Commits(c)
  PROVE  JoinsOK'
<1>1. CASE CommitInvite(c) \/ CommitResend(c) \/ CommitSettle(c) \/ CommitShare(c)
  <2>1. member' = member
    BY <1>1 DEF CommitInvite, CommitResend, CommitSettle, CommitShare
  <2>2. \E people, rows : Commit(c, people, {}, rows)
    BY <1>1 DEF CommitInvite, CommitResend, CommitSettle, CommitShare
  <2> QED BY <2>1, <2>2, JoinCommit
<1>2. CASE CommitJoin(c)
  <2> DEFINE u == CHOOSE v \in calls[c].users : TRUE
  <2>1. CASE member' = member /\ Commit(c, {}, {}, {})
    BY <2>1, JoinCommit
  <2>2. CASE member' = [member EXCEPT ![u] = calls[c].on[u]] /\ Commit(c, {u}, {}, {calls[c].row})
    <3>1. \A v \in People \ {u} : member'[v] = member[v]
      BY <2>2, OthersKeep DEF JoinInv
    <3> QED BY <2>2, <3>1, JoinCommit
  <2> QED BY <1>2, <2>1, <2>2 DEF CommitJoin
<1>3. CASE CommitPermissions(c)
  <2> DEFINE q == calls[c]
             changed == {u \in q.users : q.on[u] \cup q.off[u] # {}}
  <2>1. CASE member' = member /\ Commit(c, {}, {}, {})
    BY <2>1, JoinCommit
  <2>2. CASE /\ member' = [u \in People |-> IF u \in changed THEN (member[u] \ q.off[u]) \cup q.on[u]
                                            ELSE member[u]]
             /\ Commit(c, changed, {}, {})
    <3> HIDE DEF changed
    <3>1. \A v \in People \ changed : member'[v] = member[v]
      BY <2>2
    <3> QED BY <2>2, <3>1, JoinCommit
  <2> QED BY <1>3, <2>1, <2>2 DEF CommitPermissions
<1>4. CASE CommitRevokeMember(c)
  <2> DEFINE q == calls[c]
             left == q.users \ q.gone
  <2>1. CASE member' = member /\ Commit(c, {}, {}, {})
    BY <2>1, JoinCommit
  <2>2. CASE Leave(c, q)
    <3>1. /\ member' = [u \in People |-> IF u \in left THEN NotMember ELSE member[u]]
          /\ Commit(c, q.users, left, {})
      BY <2>2 DEF Leave
    <3>2. \A v \in People \ q.users : member'[v] = member[v]
      BY <3>1
    <3> QED BY <3>1, <3>2, JoinCommit
  <2> QED BY <1>4, <2>1, <2>2 DEF CommitRevokeMember
<1>5. CASE Serve(c)
  <2>1. calls \in [Calls -> Call]
    BY DEF JoinInv, GrantInv, MembershipTypeOK
  <2> QED BY <1>5, <2>1, JoinAside DEF Serve
<1> QED BY <1>1, <1>2, <1>3, <1>4, <1>5 DEF Commits

LEMMA JoinInit == MembershipInit => JoinInv
BY GrantInit DEF JoinInv, JoinsOK, MembershipInit, NoCall

LEMMA JoinNext == JoinInv /\ [MembershipNext]_membershipVars => JoinInv'
<1> SUFFICES ASSUME JoinInv, [MembershipNext]_membershipVars PROVE JoinInv'
  OBVIOUS
<1>1. GrantInv'
  BY GrantNext DEF JoinInv
<1>2. CASE \E c \in Calls : Endpoint(c) \/ Commits(c)
  BY <1>1, <1>2, JoinEndpoint, JoinCommits DEF JoinInv
<1>3. CASE \/ UpdateProject \/ CreateRuntimeToken \/ RevealRuntimeToken \/ RevokeRuntimeToken
           \/ DeleteEnvironment \/ Time \/ UNCHANGED membershipVars
  <2>1. UNCHANGED <<member, calls>>
    BY <1>3 DEF UpdateProject, CreateRuntimeToken, RevealRuntimeToken, RevokeRuntimeToken,
                DeleteEnvironment, Time, InvitationDue, CooldownEnds, TokenExpires, membershipVars
  <2> QED BY <1>1, <2>1, JoinAside DEF JoinInv
<1> QED BY <1>2, <1>3 DEF MembershipNext

(* Only an acceptance makes a member. *)
LEMMA JoinStep ==
  ASSUME JoinInv, [MembershipNext]_membershipVars, NEW u \in Users, ~IsMember(u), member'[u] # NotMember
  PROVE  \E c \in Calls :
           LET q == calls[c]
           IN  /\ q.op = "join" /\ u \in q.users
               /\ \/ q.stale \/ q.by = Owner
                  \/ /\ IsMember(q.by) /\ "team" \in member[q.by]
                     /\ member'[u] \subseteq member[q.by]
<1>1. member'[u] # member[u] /\ u \in People
  BY DEF IsMember, People
<1>2. PICK c \in Calls : CommitJoin(c)
  <2>1. ASSUME NEW c \in Calls, CommitPermissions(c) PROVE FALSE
    <3> DEFINE q == calls[c]
               changed == {w \in q.users : q.on[w] \cup q.off[w] # {}}
    <3>1. q.op = "permit" /\ CallOK(q, granted, member, invitations)
      BY <2>1 DEF CommitPermissions, JoinInv, GrantInv, CallsOK
    <3>2. CASE member' = member
      BY <1>1, <3>2
    <3>3. CASE /\ changed \cap q.gone = {}
               /\ member' = [w \in People |-> IF w \in changed THEN (member[w] \ q.off[w]) \cup q.on[w]
                                              ELSE member[w]]
      <4>1. u \in changed
        BY <1>1, <3>3
      <4>2. u \in q.users \ q.gone
        BY <3>3, <4>1
      <4> HIDE DEF changed
      <4>3. member[u] # NotMember
        BY <3>1, <4>2 DEF CallOK
      <4> QED BY <4>3 DEF IsMember
    <3> QED BY <2>1, <3>2, <3>3 DEF CommitPermissions
  <2>2. ASSUME NEW c \in Calls, CommitRevokeMember(c) PROVE FALSE
    BY <1>1, <2>2 DEF CommitRevokeMember, Leave
  <2>3. ASSUME NEW c \in Calls, Endpoint(c) PROVE FALSE
    <3>1. member' = member
      BY <2>3 DEF Endpoint, Begin, Settles, Invite, RevokeInvitation, Accept, ReadInvitation, Reject,
                  UpdateMemberPermissions, RevokeMember, ShareRuntimeToken, Fetch
    <3> QED BY <1>1, <3>1
  <2>4. ASSUME NEW c \in Calls,
               CommitInvite(c) \/ CommitResend(c) \/ CommitSettle(c) \/ CommitShare(c) \/ Serve(c)
        PROVE  FALSE
    BY <1>1, <2>4 DEF CommitInvite, CommitResend, CommitSettle, CommitShare, Serve
  <2>5. CASE \/ UpdateProject \/ CreateRuntimeToken \/ RevealRuntimeToken \/ RevokeRuntimeToken
             \/ DeleteEnvironment \/ Time \/ UNCHANGED membershipVars
    BY <1>1, <2>5 DEF UpdateProject, CreateRuntimeToken, RevealRuntimeToken, RevokeRuntimeToken,
                DeleteEnvironment, Time, InvitationDue, CooldownEnds, TokenExpires, membershipVars
  <2> QED BY <2>1, <2>2, <2>3, <2>4, <2>5 DEF MembershipNext, Commits
<1> DEFINE q == calls[c]
           w == CHOOSE v \in q.users : TRUE
<1>3. q.op = "join" /\ CallOK(q, granted, member, invitations)
  BY <1>2 DEF CommitJoin, JoinInv, GrantInv, CallsOK
<1>4. PICK v \in Users : q.users = {v} /\ DOMAIN q.on = {v} /\ q.by \in People
  BY <1>3 DEF CallOK
<1>5. w = v
  BY <1>4
<1>6. member' = [member EXCEPT ![w] = q.on[w]]
  BY <1>1, <1>2 DEF CommitJoin
<1>7. u = v /\ member'[u] = q.on[u]
  BY <1>1, <1>5, <1>6, OthersKeep DEF JoinInv
<1>8. q.stale \/ WithinInviter(q, member)
  BY <1>3 DEF JoinInv, JoinsOK
<1> HIDE DEF q
<1>9. /\ q.op = "join" /\ u \in q.users
      /\ \/ q.stale \/ q.by = Owner
         \/ /\ IsMember(q.by) /\ "team" \in member[q.by]
            /\ member'[u] \subseteq member[q.by]
  BY <1>3, <1>4, <1>7, <1>8 DEF WithinInviter, IsMember
<1> QED BY <1>9 DEF q

(* Who joins gets no more than the inviter holds by then, unless the         *)
(* invitation or the inviter changed under the acceptance.                   *)
THEOREM JoinsWithinInviterHolds == MembershipSpec => JoinsWithinInviter
<1>1. JoinInv /\ [MembershipNext]_membershipVars =>
        [\A u \in Users :
           ~IsMember(u) /\ member'[u] # NotMember =>
             \E c \in Calls :
               LET q == calls[c]
               IN  /\ q.op = "join" /\ u \in q.users
                   /\ \/ q.stale \/ q.by = Owner
                      \/ /\ IsMember(q.by) /\ "team" \in member[q.by]
                         /\ member'[u] \subseteq member[q.by]]_membershipVars
  BY JoinStep, Zenon
<1> QED BY <1>1, JoinInit, JoinNext, PTL DEF MembershipSpec, JoinsWithinInviter

-----------------------------------------------------------------------------
(* Shares.  While nothing of its people was written, a call that is going   *)
(* to share has a member in mind, and one that is going to remove members   *)
(* has read every share they have.                                          *)
Aims(q, members, late) ==
  q.op = "share" =>
    \E k \in Pair : /\ q.pairs = {k} /\ q.users = {k.user} /\ k.token \in Legacy
                    /\ q.stale \/ members[k.user] # NotMember \/ k.user \in late

Knows(q, given) ==
  q.op = "remove" =>
    /\ \A k \in q.pairs : k.user \in q.users
    /\ q.stale \/ \A s \in given : s.user \in q.users => [user |-> s.user, token |-> s.token] \in q.pairs

SharersOK == \A c \in Calls : Aims(calls[c], member, raced) /\ Knows(calls[c], shares)

(* Who has seen a token has still its share while the token can be used. *)
SeenOK ==
  \A k \in revealed :
    /\ k.token \in Legacy
    /\ Present(k.token) => \E s \in shares : s.user = k.user /\ s.token = k.token

ShareInv == MembershipTypeOK /\ SharersOK /\ SharesOfMembers /\ SeenOK

LEMMA ShareBegin ==
  ASSUME ShareInv, NEW c \in Calls, NEW fields, Begin(c, fields),
         Aims(fields, member, raced), Knows(fields, shares)
  PROVE  SharersOK' /\ SharesOfMembers' /\ SeenOK'
<1>1. /\ calls' = [calls EXCEPT ![c] = fields] /\ calls \in [Calls -> Call]
      /\ UNCHANGED <<member, shares, raced, tokens, revealed>>
  BY DEF Begin, ShareInv, MembershipTypeOK
<1>2. ASSUME NEW d \in Calls PROVE Aims(calls'[d], member, raced) /\ Knows(calls'[d], shares)
  <2>1. Aims(calls[d], member, raced) /\ Knows(calls[d], shares)
    BY DEF ShareInv, SharersOK
  <2>2. calls'[d] = IF d = c THEN fields ELSE calls[d]
    BY <1>1
  <2> QED BY <2>1, <2>2
<1>3. SharersOK'
  BY <1>1, <1>2 DEF SharersOK
<1> QED BY <1>1, <1>3 DEF ShareInv, SharesOfMembers, SeenOK, Present, IsMember

LEMMA ShareOthers ==
  ASSUME ShareInv, NEW c \in Calls, NEW fields, Begin(c, fields), fields.op \notin {"share", "remove"}
  PROVE  SharersOK' /\ SharesOfMembers' /\ SeenOK'
<1>1. Aims(fields, member, raced) /\ Knows(fields, shares)
  BY DEF Aims, Knows
<1> QED BY <1>1, ShareBegin

LEMMA ShareCommit ==
  ASSUME ShareInv, NEW c \in Calls, NEW people, NEW removed, NEW rows, Commit(c, people, removed, rows),
         \A u \in People \ people : member'[u] = member[u],
         \A s \in shares' \ shares : s.user \in people
  PROVE  SharersOK'
<1> SUFFICES ASSUME NEW d \in Calls PROVE Aims(calls'[d], member', raced') /\ Knows(calls'[d], shares')
  BY DEF SharersOK
<1>1. calls[d] \in Call /\ Aims(calls[d], member, raced) /\ Knows(calls[d], shares)
  BY DEF ShareInv, MembershipTypeOK, SharersOK
<1>2. CASE d = c \/ calls[d].op = "none"
  <2>1. calls'[d].op = "none"
    BY <1>2 DEF Commit, NoCall
  <2> QED BY <2>1 DEF Aims, Knows
<1>3. CASE d # c /\ calls[d].op # "none"
  <2> DEFINE over == (calls[d].users \cup {calls[d].by}) \cap people # {} \/ calls[d].row \in rows
  <2>1. calls'[d] = [calls[d] EXCEPT !.stale = calls[d].stale \/ over,
                                     !.gone = calls[d].gone \cup (removed \cap calls[d].users)]
    BY <1>3, Zenon DEF Commit
  <2>2. /\ calls'[d].op = calls[d].op /\ calls'[d].users = calls[d].users
        /\ calls'[d].pairs = calls[d].pairs /\ calls'[d].stale = (calls[d].stale \/ over)
    BY <1>1, <2>1 DEF Call
  <2>3. ~calls'[d].stale => ~calls[d].stale /\ calls[d].users \cap people = {}
    <3>1. ~calls'[d].stale => ~calls[d].stale /\ (calls[d].users \cup {calls[d].by}) \cap people = {}
      BY <2>2, Zenon
    <3> QED BY <3>1
  <2>4. raced \subseteq raced'
    BY DEF Commit
  <2> HIDE DEF over
  <2>5. Aims(calls'[d], member', raced')
    <3> SUFFICES ASSUME calls'[d].op = "share" PROVE Aims(calls'[d], member', raced')
      BY DEF Aims
    <3>1. PICK k \in Pair : /\ calls[d].pairs = {k} /\ calls[d].users = {k.user} /\ k.token \in Legacy
                            /\ calls[d].stale \/ member[k.user] # NotMember \/ k.user \in raced
      BY <1>1, <2>2 DEF Aims
    <3>2. calls'[d].stale \/ member'[k.user] # NotMember \/ k.user \in raced'
      BY <2>2, <2>3, <2>4, <3>1 DEF Pair
    <3> QED BY <2>2, <3>1, <3>2 DEF Aims
  <2>6. Knows(calls'[d], shares')
    <3>1. CASE calls'[d].stale
      BY <1>1, <2>2, <3>1 DEF Knows
    <3>2. CASE ~calls'[d].stale
      BY <1>1, <2>2, <2>3, <3>2 DEF Knows
    <3> QED BY <3>1, <3>2
  <2> QED BY <2>5, <2>6
<1> QED BY <1>2, <1>3

(* A commit that writes no share, token or revealed copy and makes nobody leave. *)
LEMMA ShareKept ==
  ASSUME ShareInv, NEW c \in Calls, NEW people, NEW removed, NEW rows, Commit(c, people, removed, rows),
         \A u \in People \ people : member'[u] = member[u],
         \A u \in People : IsMember(u) => member'[u] # NotMember,
         UNCHANGED <<shares, tokens, revealed>>
  PROVE  SharersOK' /\ SharesOfMembers' /\ SeenOK'
<1>1. SharersOK'
  BY ShareCommit
<1>2. raced \subseteq raced'
  BY DEF Commit
<1>3. SharesOfMembers'
  BY <1>2 DEF ShareInv, SharesOfMembers, MembershipTypeOK, Share, Present, IsMember
<1>4. SeenOK'
  BY DEF ShareInv, SeenOK, Present
<1> QED BY <1>1, <1>3, <1>4


(* Invitations, permissions and fetches aim at no share. *)
LEMMA ShareEndpoint ==
  ASSUME ShareInv, NEW c \in Calls, Endpoint(c)
  PROVE  SharersOK' /\ SharesOfMembers' /\ SeenOK'
<1>1. ASSUME NEW fields, Begin(c, fields), Aims(fields, member, raced), Knows(fields, shares)
      PROVE  SharersOK' /\ SharesOfMembers' /\ SeenOK'
  BY <1>1, ShareBegin
<1>2. CASE ShareRuntimeToken(c)
  <2>1. PICK a \in People, u \in People, t \in Legacy, manage \in BOOLEAN :
          /\ IsMember(u)
          /\ Begin(c, [NoCall EXCEPT !.op = "share", !.users = {u}, !.flag = manage,
                                     !.pairs = {[user |-> u, token |-> t]}])
    BY <1>2 DEF ShareRuntimeToken
  <2> DEFINE fields == [NoCall EXCEPT !.op = "share", !.users = {u}, !.flag = manage,
                                      !.pairs = {[user |-> u, token |-> t]}]
             k == [user |-> u, token |-> t]
  <2>2. fields.op = "share" /\ fields.users = {u} /\ fields.pairs = {k}
    BY DEF NoCall
  <2>3. k \in Pair /\ k.user = u /\ k.token = t
    BY TokensAssumption DEF Pair
  <2>4. Begin(c, fields)
    BY <2>1
  <2> HIDE DEF fields, k
  <2>5. Aims(fields, member, raced)
    BY <2>1, <2>2, <2>3 DEF Aims, IsMember
  <2>6. Knows(fields, shares)
    BY <2>2 DEF Knows
  <2> QED BY <1>1, <2>4, <2>5, <2>6
<1>3. CASE RevokeMember(c)
  <2>1. PICK users \in SUBSET Users, delete \in BOOLEAN :
          Begin(c, [NoCall EXCEPT !.op = "remove", !.users = users, !.flag = delete,
                                  !.pairs = Shared(users)])
    BY <1>3 DEF RevokeMember, Choices
  <2> DEFINE fields == [NoCall EXCEPT !.op = "remove", !.users = users, !.flag = delete,
                                      !.pairs = Shared(users)]
  <2>2. fields.op = "remove" /\ fields.users = users /\ fields.pairs = Shared(users)
    BY DEF NoCall
  <2>3. Begin(c, fields)
    BY <2>1
  <2> HIDE DEF fields
  <2>4. Aims(fields, member, raced)
    BY <2>2 DEF Aims
  <2>5. Knows(fields, shares)
    BY <2>2 DEF Knows, Shared
  <2> QED BY <1>1, <2>3, <2>4, <2>5
<1>4. ASSUME NEW fields, Begin(c, fields), fields.op \notin {"share", "remove"}
      PROVE  SharersOK' /\ SharesOfMembers' /\ SeenOK'
  BY <1>4, ShareOthers
<1>5. CASE Invite(c) \/ RevokeInvitation(c) \/ Accept(c) \/ ReadInvitation(c) \/ Reject(c)
           \/ UpdateMemberPermissions(c) \/ Fetch(c)
  <2>1. \E fields : Begin(c, fields)
    BY <1>5 DEF Invite, RevokeInvitation, Accept, ReadInvitation, Reject, Settles,
                UpdateMemberPermissions, Fetch
  <2>2. PICK fields : Begin(c, fields)
    BY <2>1
  <2>3. calls'[c] = fields
    BY <2>2 DEF Begin, ShareInv, MembershipTypeOK
  <2>4. calls'[c].op \notin {"share", "remove"}
    <3>1. calls \in [Calls -> Call]
      BY DEF ShareInv, MembershipTypeOK
    <3>2. CASE Invite(c)
      <4>1. PICK a \in People, u \in Users, offer \in Offers :
              /\ MayInvite(a, u, offer)
              /\ Grants(a, offer)
              /\ \/ /\ \A r \in Pending(u) : DueRow(r)
                    /\ \E r \in IF Pending(u) = {} THEN {0} ELSE Pending(u) :
                         Begin(c, [NoCall EXCEPT !.op = "invite", !.users = {u}, !.by = a,
                                                 !.on = [v \in {u} |-> offer], !.row = r])
                 \/ \E r \in Pending(u) :
                      /\ ~DueRow(r)
                      /\ MaySend(invitations[r])
                      /\ Begin(c, [NoCall EXCEPT
                            !.op = "resend", !.users = {u}, !.row = r,
                            !.by = IF invitations[r].by = a THEN NoUser ELSE a,
                            !.sends = SendsAfter(invitations[r]),
                            !.on = [v \in {u} |-> offer \ invitations[r].permissions],
                            !.off = [v \in {u} |-> invitations[r].permissions \ offer]])
        BY <3>2, Zenon DEF Invite
      <4>2. ASSUME NEW r, Begin(c, [NoCall EXCEPT !.op = "invite", !.users = {u}, !.by = a,
                                              !.on = [v \in {u} |-> offer], !.row = r])
            PROVE  calls'[c].op \notin {"share", "remove"}
        BY <3>1, <4>2 DEF Begin, NoCall
      <4>3. ASSUME NEW r, Begin(c, [NoCall EXCEPT
                            !.op = "resend", !.users = {u}, !.row = r,
                            !.by = IF invitations[r].by = a THEN NoUser ELSE a,
                            !.sends = SendsAfter(invitations[r]),
                            !.on = [v \in {u} |-> offer \ invitations[r].permissions],
                            !.off = [v \in {u} |-> invitations[r].permissions \ offer]])
            PROVE  calls'[c].op \notin {"share", "remove"}
        BY <3>1, <4>3 DEF Begin, NoCall
      <4> QED BY <4>1, <4>2, <4>3, Zenon
    <3>3. ASSUME NEW r, NEW status, Settles(c, r, status) PROVE calls'[c].op \notin {"share", "remove"}
      BY <3>1, <3>3 DEF Settles, Begin, NoCall
    <3>4. ASSUME NEW r, Begin(c, [NoCall EXCEPT !.op = "join", !.users = {invitations[r].email}, !.row = r,
                        !.by = invitations[r].by,
                        !.on = [v \in {invitations[r].email} |-> invitations[r].permissions]])
          PROVE  calls'[c].op \notin {"share", "remove"}
      BY <3>1, <3>4 DEF Begin, NoCall
    <3>7. CASE RevokeInvitation(c) \/ ReadInvitation(c) \/ Reject(c)
      BY <3>3, <3>7 DEF RevokeInvitation, ReadInvitation, Reject
    <3>8. CASE Accept(c)
      BY <3>3, <3>4, <3>8, Zenon DEF Accept
    <3>5. CASE UpdateMemberPermissions(c)
      BY <3>1, <3>5 DEF UpdateMemberPermissions, Begin, NoCall
    <3>6. CASE Fetch(c)
      BY <3>1, <3>6 DEF Fetch, Begin, NoCall
    <3> QED BY <1>5, <3>2, <3>5, <3>6, <3>7, <3>8
  <2> QED BY <1>4, <2>2, <2>3, <2>4
<1> QED BY <1>2, <1>3, <1>5 DEF Endpoint

(* What is no longer there does not come back, and the shares of it are gone. *)
LEMMA DroppedShares ==
  ASSUME ShareInv, NEW doomed, NEW how \in {"deleted", "cascaded"}, Drop(doomed, how),
         \A s \in shares' : s \in shares /\ s.token \notin doomed
  PROVE  /\ \A s \in shares' : Present(s.token)'
         /\ \A t \in Tokens : tokens'[t] \in {"live", "expired"} => Present(t) /\ t \notin doomed
<1>1. \A s \in shares' : s.token \in Tokens /\ Present(s.token)
  BY TokensAssumption DEF ShareInv, SharesOfMembers, MembershipTypeOK, Share
<1> QED BY <1>1 DEF Drop, Present

LEMMA ShareRemoval ==
  ASSUME ShareInv, NEW c \in Calls, CommitRevokeMember(c)
  PROVE  SharersOK' /\ SharesOfMembers' /\ SeenOK'
<1> DEFINE q == calls[c]
           left == q.users \ q.gone
<1>1. q \in Call /\ Knows(q, shares) /\ q.op = "remove"
  BY DEF ShareInv, MembershipTypeOK, SharersOK, CommitRevokeMember
<1>2. CASE Refused(q)
  <2>1. Commit(c, {}, {}, {}) /\ UNCHANGED <<member, shares, tokens, revealed>>
    BY <1>2 DEF CommitRevokeMember
  <2> QED BY <2>1, ShareKept DEF IsMember
<1>3. CASE ~Refused(q)
  <2>1. /\ Drop(Doomed(q), "deleted")
        /\ shares' = {s \in shares : [user |-> s.user, token |-> s.token] \notin q.pairs
                                       /\ s.token \notin Doomed(q)}
        /\ member' = [u \in People |-> IF u \in left THEN NotMember ELSE member[u]]
        /\ revealed' = IF q.flag THEN revealed ELSE {k \in revealed : k.user \notin q.users}
        /\ Commit(c, q.users, left, {})
    BY <1>3 DEF CommitRevokeMember, Leave
  <2>2. /\ \A s \in shares' : Present(s.token)'
        /\ \A t \in Tokens : tokens'[t] \in {"live", "expired"} => Present(t) /\ t \notin Doomed(q)
    <3>1. \A s \in shares' : s \in shares /\ s.token \notin Doomed(q)
      BY <2>1
    <3> QED BY <2>1, <3>1, DroppedShares
  <2>3. raced' = IF q.stale THEN raced \cup q.users ELSE raced
    BY <2>1 DEF Commit
  <2>4. SharersOK'
    <3>1. \A u \in People \ q.users : member'[u] = member[u]
      BY <2>1
    <3>2. \A s \in shares' \ shares : s.user \in q.users
      BY <2>1
    <3> QED BY <2>1, <3>1, <3>2, ShareCommit
  <2>5. ASSUME NEW s \in shares' PROVE member'[s.user] # NotMember \/ s.user \in raced'
    <3>1. s \in shares /\ s.user \in People /\ [user |-> s.user, token |-> s.token] \notin q.pairs
      BY <2>1 DEF ShareInv, MembershipTypeOK, Share
    <3>2. IsMember(s.user) \/ s.user \in raced
      BY <3>1 DEF ShareInv, SharesOfMembers
    <3>3. CASE s.user \notin q.users
      BY <2>1, <2>3, <3>1, <3>2, <3>3 DEF IsMember
    <3>4. CASE s.user \in q.users
      <4>1. q.stale
        BY <1>1, <3>1, <3>4 DEF Knows
      <4> QED BY <2>3, <3>4, <4>1
    <3> QED BY <3>3, <3>4
  <2>6. SharesOfMembers'
    BY <2>2, <2>5 DEF SharesOfMembers, IsMember
  <2>7. ASSUME NEW k \in revealed', tokens'[k.token] \in {"live", "expired"}
        PROVE  \E s \in shares' : s.user = k.user /\ s.token = k.token
    <3>1. k \in revealed /\ k \in Pair /\ (q.flag \/ k.user \notin q.users)
      BY <2>1, <2>7 DEF ShareInv, MembershipTypeOK
    <3>2. Present(k.token) /\ k.token \notin Doomed(q)
      BY <2>2, <2>7, <3>1 DEF Pair
    <3>3. PICK s \in shares : s.user = k.user /\ s.token = k.token
      BY <3>1, <3>2 DEF ShareInv, SeenOK
    <3> DEFINE p == [user |-> s.user, token |-> s.token]
    <3>4. p \notin q.pairs
      <4> SUFFICES ASSUME p \in q.pairs PROVE FALSE
        OBVIOUS
      <4>1. p.user = k.user /\ p.token = k.token
        BY <3>3
      <4> HIDE DEF p
      <4>2. k.user \in q.users
        BY <1>1, <4>1 DEF Knows
      <4>3. q.flag
        BY <3>1, <4>2
      <4>4. p.token \in Doomed(q)
        BY <4>3 DEF Doomed
      <4> QED BY <3>2, <4>1, <4>4
    <3> QED BY <2>1, <3>2, <3>3, <3>4
  <2>8. \A k \in revealed' : k \in revealed
    BY <2>1
  <2>9. SeenOK'
    BY <2>7, <2>8 DEF SeenOK, ShareInv, Present
  <2> QED BY <2>4, <2>6, <2>9
<1> QED BY <1>2, <1>3


LEMMA ShareCommits ==
  ASSUME ShareInv, NEW c \in Calls, Commits(c), CallOK(calls[c], granted, member, invitations)
  PROVE  SharersOK' /\ SharesOfMembers' /\ SeenOK'
<1> DEFINE q == calls[c]
<1>1. member \in [People -> (SUBSET Permissions) \cup {NotMember}] /\ q \in Call
  BY DEF ShareInv, MembershipTypeOK
<1>2. CASE CommitInvite(c) \/ CommitResend(c) \/ CommitSettle(c)
  <2>1. UNCHANGED <<member, shares, tokens, revealed>>
    BY <1>2 DEF CommitInvite, CommitResend, CommitSettle
  <2>2. \E rows : Commit(c, {}, {}, rows)
    BY <1>2 DEF CommitInvite, CommitResend, CommitSettle
  <2> QED BY <2>1, <2>2, ShareKept DEF IsMember
<1>3. CASE CommitJoin(c)
  <2> DEFINE u == CHOOSE v \in q.users : TRUE
  <2>1. UNCHANGED <<shares, tokens, revealed>>
    BY <1>3 DEF CommitJoin
  <2>2. CASE member' = member /\ Commit(c, {}, {}, {})
    BY <2>1, <2>2, ShareKept DEF IsMember
  <2>3. CASE ~IsMember(u) /\ member' = [member EXCEPT ![u] = q.on[u]] /\ Commit(c, {u}, {}, {q.row})
    <3> HIDE DEF u
    <3>1. \A v \in People \ {u} : member'[v] = member[v]
      BY <1>1, <2>3
    <3>2. \A v \in People : IsMember(v) => member'[v] # NotMember
      BY <2>3, <3>1 DEF IsMember
    <3> QED BY <2>1, <2>3, <3>1, <3>2, ShareKept
  <2> QED BY <1>3, <2>2, <2>3 DEF CommitJoin
<1>4. CASE CommitPermissions(c)
  <2> DEFINE changed == {u \in q.users : q.on[u] \cup q.off[u] # {}}
  <2>1. UNCHANGED <<shares, tokens, revealed>> /\ q.op = "permit"
    BY <1>4 DEF CommitPermissions
  <2>2. CASE member' = member /\ Commit(c, {}, {}, {})
    BY <2>1, <2>2, ShareKept DEF IsMember
  <2>3. CASE /\ member' = [u \in People |-> IF u \in changed THEN (member[u] \ q.off[u]) \cup q.on[u]
                                            ELSE member[u]]
             /\ Commit(c, changed, {}, {})
    <3>1. \A u \in q.users : q.on[u] \subseteq Permissions
      <4>1. q.on \in Columns /\ DOMAIN q.on = q.users
        BY <1>1, <2>1 DEF Call, CallOK
      <4> QED BY <4>1 DEF Columns
    <3>2. \A v \in changed : v \in q.users
      OBVIOUS
    <3> HIDE DEF changed
    <3>3. \A v \in People \ changed : member'[v] = member[v]
      BY <2>3
    <3>4. ASSUME NEW v \in People, IsMember(v) PROVE member'[v] # NotMember
      <4>1. member[v] \subseteq Permissions
        BY <1>1, <3>4 DEF IsMember
      <4>2. CASE v \in changed
        <5>1. (member[v] \ q.off[v]) \cup q.on[v] \subseteq Permissions
          BY <3>1, <3>2, <4>1, <4>2
        <5>2. NotMember # member'[v]
          BY <2>3, <4>2, <5>1 DEF NotMember, Permissions
        <5> QED BY <5>2
      <4>3. CASE v \notin changed
        BY <3>3, <3>4, <4>3 DEF IsMember
      <4> QED BY <4>2, <4>3
    <3> QED BY <2>1, <2>3, <3>3, <3>4, ShareKept
  <2> QED BY <1>4, <2>2, <2>3 DEF CommitPermissions
<1>5. CASE CommitRevokeMember(c)
  BY <1>5, ShareRemoval
<1>6. CASE CommitShare(c)
  <2> DEFINE k == CHOOSE p \in q.pairs : TRUE
             new == [token |-> k.token, user |-> k.user, manage |-> q.flag]
  <2>1. q.op = "share" /\ UNCHANGED <<member, tokens, revealed>>
    BY <1>6 DEF CommitShare
  <2>2. PICK p \in Pair : /\ q.pairs = {p} /\ q.users = {p.user} /\ p.token \in Legacy
                          /\ q.stale \/ member[p.user] # NotMember \/ p.user \in raced
    BY <2>1 DEF ShareInv, SharersOK, Aims
  <2>3. k = p
    BY <2>2
  <2>4. CASE UNCHANGED shares /\ Commit(c, {}, {}, {})
    BY <2>1, <2>4, ShareKept DEF IsMember
  <2>5. CASE Present(k.token) /\ shares' = shares \cup {new} /\ Commit(c, {k.user}, {}, {})
    <3>1. new.user = k.user /\ new.token = k.token
      OBVIOUS
    <3> HIDE DEF new
    <3>2. SharersOK'
      BY <2>1, <2>5, <3>1, ShareCommit
    <3>3. raced' = IF q.stale THEN raced \cup q.users ELSE raced
      BY <2>5 DEF Commit
    <3>4. ASSUME NEW s \in shares' PROVE Present(s.token) /\ (IsMember(s.user) \/ s.user \in raced')
      <4>1. CASE s \in shares
        BY <3>3, <4>1 DEF ShareInv, SharesOfMembers
      <4>2. CASE s = new
        BY <2>2, <2>3, <2>5, <3>1, <3>3, <4>2 DEF IsMember
      <4> QED BY <2>5, <4>1, <4>2
    <3>5. SharesOfMembers'
      BY <2>1, <3>4 DEF SharesOfMembers, Present, IsMember
    <3>6. SeenOK'
      BY <2>1, <2>5 DEF ShareInv, SeenOK, Present
    <3> QED BY <3>2, <3>5, <3>6
  <2> QED BY <1>6, <2>4, <2>5 DEF CommitShare
<1>7. CASE Serve(c)
  <2>1. /\ UNCHANGED <<member, shares, tokens, revealed, raced>>
        /\ calls' = [calls EXCEPT ![c] = NoCall] /\ calls \in [Calls -> Call]
    BY <1>7 DEF Serve, ShareInv, MembershipTypeOK
  <2>2. ASSUME NEW d \in Calls PROVE Aims(calls'[d], member, raced) /\ Knows(calls'[d], shares)
    <3>1. Aims(calls[d], member, raced) /\ Knows(calls[d], shares)
      BY DEF ShareInv, SharersOK
    <3>2. Aims(NoCall, member, raced) /\ Knows(NoCall, shares)
      BY DEF Aims, Knows, NoCall
    <3> QED BY <2>1, <3>1, <3>2
  <2>3. SharersOK'
    BY <2>1, <2>2 DEF SharersOK
  <2> QED BY <2>1, <2>3 DEF ShareInv, SharesOfMembers, SeenOK, Present, IsMember
<1> QED BY <1>2, <1>3, <1>4, <1>5, <1>6, <1>7 DEF Commits

(* Losing shares or tokens leaves what calls know true. *)
LEMMA ShareAside ==
  ASSUME ShareInv, UNCHANGED <<member, calls, raced>>, shares' \subseteq shares
  PROVE  SharersOK'
<1>1. ASSUME NEW d \in Calls PROVE Aims(calls[d], member, raced) /\ Knows(calls[d], shares')
  BY DEF ShareInv, SharersOK, Knows
<1> QED BY <1>1 DEF SharersOK

LEMMA ShareTokens ==
  ASSUME ShareInv, NEW doomed \in SUBSET Tokens, NEW how \in {"deleted", "cascaded"}, Drop(doomed, how),
         shares' = {s \in shares : s.token \notin doomed}, UNCHANGED <<member, calls, raced, revealed>>
  PROVE  SharersOK' /\ SharesOfMembers' /\ SeenOK'
<1>1. \A s \in shares' : s \in shares /\ s.token \notin doomed
  OBVIOUS
<1>2. /\ \A s \in shares' : Present(s.token)'
      /\ \A t \in Tokens : tokens'[t] \in {"live", "expired"} => Present(t) /\ t \notin doomed
  BY <1>1, DroppedShares
<1>3. SharesOfMembers'
  BY <1>1, <1>2 DEF ShareInv, SharesOfMembers, IsMember
<1>4. ASSUME NEW k \in revealed, tokens'[k.token] \in {"live", "expired"}
      PROVE  \E s \in shares' : s.user = k.user /\ s.token = k.token
  BY <1>2, <1>4, TokensAssumption DEF ShareInv, SeenOK
<1>5. SeenOK'
  BY <1>4 DEF ShareInv, SeenOK, Present
<1> QED BY <1>1, <1>3, <1>5, ShareAside

LEMMA ShareNext == GrantInv /\ ShareInv /\ [MembershipNext]_membershipVars => ShareInv'
<1> SUFFICES ASSUME GrantInv, ShareInv, [MembershipNext]_membershipVars PROVE ShareInv'
  OBVIOUS
<1>1. MembershipTypeOK'
  BY GrantNext DEF GrantInv
<1>2. CASE \E c \in Calls : Endpoint(c) \/ Commits(c)
  <2>1. \A c \in Calls : CallOK(calls[c], granted, member, invitations)
    BY DEF GrantInv, CallsOK
  <2> QED BY <1>1, <1>2, <2>1, ShareEndpoint, ShareCommits DEF ShareInv
<1>3. CASE RevokeRuntimeToken
  <2>1. PICK t \in Tokens : Drop({t}, "deleted") /\ shares' = {s \in shares : s.token # t}
    BY <1>3 DEF RevokeRuntimeToken
  <2>2. UNCHANGED <<member, calls, raced, revealed>> /\ shares' = {s \in shares : s.token \notin {t}}
    BY <1>3, <2>1 DEF RevokeRuntimeToken
  <2> QED BY <1>1, <2>1, <2>2, ShareTokens DEF ShareInv
<1>4. CASE DeleteEnvironment
  <2>1. PICK doomed \in SUBSET Tokens :
          Drop(doomed, "cascaded") /\ shares' = {s \in shares : s.token \notin doomed}
    BY <1>4 DEF DeleteEnvironment
  <2>2. UNCHANGED <<member, calls, raced, revealed>>
    BY <1>4 DEF DeleteEnvironment
  <2> QED BY <1>1, <2>1, <2>2, ShareTokens DEF ShareInv
<1>5. CASE CreateRuntimeToken \/ TokenExpires
  <2>1. UNCHANGED <<member, shares, calls, raced, revealed>>
    BY <1>5 DEF CreateRuntimeToken, TokenExpires
  <2>2. \A t \in Legacy : tokens'[t] \in {"live", "expired"} <=> Present(t)
    BY <1>5, TokensAssumption DEF CreateRuntimeToken, TokenExpires, Present, ShareInv, MembershipTypeOK
  <2>3. SharesOfMembers'
    BY <2>1, <2>2 DEF ShareInv, SharesOfMembers, MembershipTypeOK, Share, Present, IsMember
  <2>4. SeenOK'
    BY <2>1, <2>2 DEF ShareInv, SeenOK, Present
  <2> QED BY <1>1, <2>1, <2>3, <2>4, ShareAside DEF ShareInv
<1>6. CASE RevealRuntimeToken
  <2>1. PICK s \in shares : revealed' = revealed \cup {[user |-> s.user, token |-> s.token]}
    BY <1>6 DEF RevealRuntimeToken
  <2>2. UNCHANGED <<member, shares, calls, raced, tokens>>
    BY <1>6 DEF RevealRuntimeToken
  <2>3. s.token \in Legacy
    BY DEF ShareInv, MembershipTypeOK, Share
  <2>4. SeenOK'
    BY <2>1, <2>2, <2>3 DEF ShareInv, SeenOK, Present
  <2> QED BY <1>1, <2>2, <2>4, ShareAside DEF ShareInv, SharesOfMembers, Present, IsMember
<1>7. CASE UpdateProject \/ InvitationDue \/ CooldownEnds \/ UNCHANGED membershipVars
  <2>1. UNCHANGED <<member, shares, calls, raced, tokens, revealed>>
    BY <1>7 DEF UpdateProject, InvitationDue, CooldownEnds, membershipVars
  <2> QED BY <1>1, <2>1, ShareAside DEF ShareInv, SharesOfMembers, SeenOK, Present, IsMember
<1> QED BY <1>2, <1>3, <1>4, <1>5, <1>6, <1>7 DEF MembershipNext, Time

LEMMA ShareInit == MembershipInit => ShareInv
BY InitType DEF MembershipInit, ShareInv, SharersOK, Aims, Knows, NoCall, SharesOfMembers, SeenOK

LEMMA ShareInvariant == MembershipSpec => []ShareInv
<1>1. GrantInv /\ ShareInv /\ [MembershipNext]_membershipVars => (GrantInv /\ ShareInv)'
  BY GrantNext, ShareNext
<1> QED BY <1>1, GrantInit, ShareInit, PTL DEF MembershipSpec

(* "Runtime tokens can only be shared with project members": a share has a  *)
(* member and a token, unless it was given while the member was removed.    *)
THEOREM SharesStayWithMembers == MembershipSpec => []SharesOfMembers
<1>1. ShareInv => SharesOfMembers
  BY DEF ShareInv
<1> QED BY <1>1, ShareInvariant, PTL

(* A token that a member has seen through a share serves nobody after the   *)
(* member's removal with revoke_tokens, not even a fetch that had begun.    *)
THEOREM LeaversAreLockedOut == MembershipSpec => LeaversLockedOut
<1>1. ShareInv /\ [MembershipNext]_membershipVars =>
        [\A k \in revealed :
           k.token \in served' \ served => IsMember(k.user) \/ k.user \in raced]_membershipVars
  <2> SUFFICES ASSUME ShareInv, [MembershipNext]_membershipVars, NEW k \in revealed,
                      k.token \in served' \ served
               PROVE  IsMember(k.user) \/ k.user \in raced
    OBVIOUS
  <2>1. \E c \in Calls : Serve(c)
    <3>1. ASSUME NEW c \in Calls, Endpoint(c) PROVE served' = served
      BY <3>1 DEF Endpoint, Begin, Settles, Invite, RevokeInvitation, Accept, ReadInvitation, Reject,
                  UpdateMemberPermissions, RevokeMember, ShareRuntimeToken, Fetch
    <3>2. ASSUME NEW c \in Calls, Commits(c), ~Serve(c) PROVE served' = served
      BY <3>2 DEF Commits, Commit, CommitInvite, CommitResend, CommitSettle, CommitJoin,
                  CommitPermissions, CommitRevokeMember, Leave, CommitShare
    <3>3. CASE \/ UpdateProject \/ CreateRuntimeToken \/ RevealRuntimeToken \/ RevokeRuntimeToken
               \/ DeleteEnvironment \/ Time \/ UNCHANGED membershipVars
      BY <3>3 DEF UpdateProject, CreateRuntimeToken, RevealRuntimeToken, RevokeRuntimeToken,
                  DeleteEnvironment, Time, InvitationDue, CooldownEnds, TokenExpires, membershipVars
    <3> QED BY <3>1, <3>2, <3>3 DEF MembershipNext
  <2>2. Present(k.token)
    BY <2>1 DEF Serve
  <2>3. PICK s \in shares : s.user = k.user /\ s.token = k.token
    BY <2>2 DEF ShareInv, SeenOK
  <2> QED BY <2>3 DEF ShareInv, SharesOfMembers
<1> QED BY <1>1, ShareInvariant, PTL DEF MembershipSpec, LeaversLockedOut

=============================================================================
