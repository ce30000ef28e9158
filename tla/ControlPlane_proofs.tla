-------------------------- MODULE ControlPlane_proofs --------------------------
(***************************************************************************)
(* The machines, the proxy, the roles and the redaction of a response, for   *)
(* any values of their constants; and that the control plane is made of its   *)
(* parts: a behaviour of it is one of each, so that what is proved of a part  *)
(* holds of it.                                                             *)
(***************************************************************************)
EXTENDS Membership_proofs, Approvals_proofs, SecretTree_proofs, ControlPlane

-----------------------------------------------------------------------------
(* The machines.                                                             *)

(* A call that writes to a credential, or issues a token for it, has read    *)
(* its row: it exists.                                                       *)
NamesCredential(running, rows) ==
  \A m \in Machines : running[m].op \in {"rotate", "drop", "exchange"} =>
                        running[m].credential \in DOMAIN rows

(* What a revocation leaves: the row of the identity is marked, or else those *)
(* of the credentials are.                                                   *)
RevocationsStay == identity.revoked \/ \A k \in barred : credentials[k].revoked

MachineInv ==
  /\ MachineTypeOK
  /\ NamesCredential(machine, credentials)
  /\ RevocationsStay

LEMMA FreshIsIdentity == Fresh \in Identity
BY DEF Fresh, Identity

LEMMA NewCredentialIsCredential ==
  ASSUME NEW v \in Nat, NEW expires \in Nat
  PROVE  NewCredential(v, expires) \in Credential
BY MachineAssumption DEF NewCredential, Credential, Never

LEMMA NoRequestIsCall == NoRequestYet \in MachineCall
BY FreshIsIdentity DEF NoRequestYet, MachineCall

LEMMA OperationIsCall ==
  ASSUME MachineTypeOK, NEW op \in {"rotate", "revoke", "insert", "drop", "disable", "enable",
                                    "unlock", "exchange", "failure"}
  PROVE  /\ Operation(op) \in MachineCall
         /\ Operation(op).op = op /\ Operation(op).credential = 0 /\ Operation(op).rows = {}
BY FreshIsIdentity DEF Operation, NoRequestYet, MachineCall, MachineTypeOK

(* What a credential's version and its domain are. *)
LEMMA CredentialFields ==
  ASSUME MachineTypeOK, NEW k \in DOMAIN credentials
  PROVE  /\ credentials[k] \in Credential
         /\ k \in 1 .. Len(credentials) /\ DOMAIN credentials = 1 .. Len(credentials)
         /\ Len(credentials) \in Nat
BY DEF MachineTypeOK

(* A request begins with a record of its type, and no row is touched. *)
LEMMA ReadsKeeps ==
  ASSUME MachineInv, NEW m \in Machines, NEW fields \in MachineCall, Reads(m, fields),
         fields.credential \in 0 .. Len(credentials), fields.rows \subseteq DOMAIN credentials,
         fields.op \in {"rotate", "drop", "exchange"} => fields.credential \in DOMAIN credentials
  PROVE  MachineInv'
<1>1. machine' = [machine EXCEPT ![m] = fields] /\ machine \in [Machines -> MachineCall]
  BY DEF Reads, MachineInv, MachineTypeOK
<1>2. ASSUME NEW n \in Machines
      PROVE  /\ machine'[n].credential \in 0 .. Len(credentials)
             /\ machine'[n].rows \subseteq DOMAIN credentials
             /\ machine'[n].op \in {"rotate", "drop", "exchange"} =>
                  machine'[n].credential \in DOMAIN credentials
  <2>1. CASE n = m
    BY <1>1, <2>1
  <2>2. CASE n # m
    <3>1. machine'[n] = machine[n]
      BY <1>1, <2>2
    <3> QED BY <3>1 DEF MachineInv, MachineTypeOK, NamesCredential
  <2> QED BY <2>1, <2>2
<1>3. /\ identity' = identity /\ credentials' = credentials /\ issued' = issued
      /\ now' = now /\ barred' = barred /\ made' = made + 1
  BY DEF Reads
<1>4. MachineTypeOK'
  <2>1. machine' \in [Machines -> MachineCall]
    BY <1>1
  <2> QED BY <1>2, <1>3, <2>1 DEF MachineInv, MachineTypeOK
<1>5. NamesCredential(machine', credentials')
  BY <1>2, <1>3 DEF NamesCredential
<1>6. RevocationsStay'
  BY <1>3 DEF MachineInv, RevocationsStay
<1> QED BY <1>4, <1>5, <1>6 DEF MachineInv, NamesCredential

(* A commit ends its call; rows are only added, so that the other calls      *)
(* still name rows that exist.                                               *)
LEMMA DoneKeeps ==
  ASSUME MachineInv, NEW m \in Machines, Done(m),
         identity' \in Identity,
         credentials' \in Seq(Credential), Len(credentials') >= Len(credentials),
         issued' \subseteq AccessToken,
         \A token \in issued' : token.credential \in DOMAIN credentials',
         barred' \subseteq DOMAIN credentials',
         RevocationsStay'
  PROVE  MachineInv'
<1>1. machine' = [machine EXCEPT ![m] = NoRequestYet] /\ machine \in [Machines -> MachineCall]
  BY DEF Done, MachineInv, MachineTypeOK
<1>2. /\ credentials \in Seq(Credential) /\ Len(credentials) \in Nat /\ Len(credentials') \in Nat
      /\ DOMAIN credentials = 1 .. Len(credentials) /\ DOMAIN credentials' = 1 .. Len(credentials')
      /\ credentials # <<>>
  BY DEF MachineInv, MachineTypeOK
<1>3. DOMAIN credentials \subseteq DOMAIN credentials' /\ credentials' # <<>>
  <2>1. Len(credentials) # 0
    BY <1>2, EmptySeq
  <2>2. Len(credentials') # 0
    BY <1>2, <2>1
  <2> QED BY <1>2, <2>2
<1>4. ASSUME NEW n \in Machines
      PROVE  /\ machine'[n].credential \in 0 .. Len(credentials')
             /\ machine'[n].rows \subseteq DOMAIN credentials'
             /\ machine'[n].op \in {"rotate", "drop", "exchange"} =>
                  machine'[n].credential \in DOMAIN credentials'
  <2>1. CASE n = m
    <3>1. machine'[n] = NoRequestYet
      BY <1>1, <2>1
    <3> QED BY <1>2, <3>1 DEF NoRequestYet
  <2>2. CASE n # m
    <3>1. machine'[n] = machine[n]
      BY <1>1, <2>2
    <3>2. /\ machine[n].credential \in 0 .. Len(credentials)
          /\ machine[n].rows \subseteq DOMAIN credentials
      BY DEF MachineInv, MachineTypeOK
    <3>3. machine[n].op \in {"rotate", "drop", "exchange"} =>
            machine[n].credential \in DOMAIN credentials
      BY DEF MachineInv, NamesCredential
    <3> QED BY <1>2, <1>3, <3>1, <3>2, <3>3
  <2> QED BY <2>1, <2>2
<1>5. now' = now /\ made' = made
  BY DEF Done
<1>6. MachineTypeOK'
  <2>1. machine' \in [Machines -> MachineCall]
    BY <1>1, NoRequestIsCall
  <2> QED BY <1>3, <1>4, <1>5, <2>1 DEF MachineInv, MachineTypeOK
<1>7. NamesCredential(machine', credentials')
  BY <1>4 DEF NamesCredential
<1> QED BY <1>6, <1>7 DEF MachineInv, NamesCredential

(* The commits that leave the credentials and the revocation alone. *)
LEMMA IdentityCommitKeeps ==
  ASSUME MachineInv, NEW m \in Machines, Done(m), identity' \in Identity,
         identity.revoked => identity'.revoked,
         UNCHANGED <<credentials, issued, barred>>
  PROVE  MachineInv'
<1>1. RevocationsStay'
  BY DEF MachineInv, RevocationsStay
<1>2. /\ credentials' = credentials /\ issued' = issued /\ barred' = barred
      /\ credentials \in Seq(Credential)
      /\ issued \subseteq AccessToken /\ barred \subseteq DOMAIN credentials
      /\ \A token \in issued : token.credential \in DOMAIN credentials
  BY DEF MachineInv, MachineTypeOK
<1>3. Len(credentials') >= Len(credentials)
  BY <1>2
<1> QED BY <1>1, <1>2, <1>3, DoneKeeps

-----------------------------------------------------------------------------
LEMMA RequestsKeep ==
  ASSUME MachineInv, NEW m \in Machines, MachineRequests(m)
  PROVE  MachineInv'
<1> DEFINE Ops == {"rotate", "revoke", "insert", "drop", "disable", "enable",
                   "unlock", "exchange", "failure"}
<1>0. MachineTypeOK /\ Len(credentials) \in Nat /\ DOMAIN credentials = 1 .. Len(credentials)
  BY DEF MachineInv, MachineTypeOK
<1>1. \A op \in Ops : /\ Operation(op) \in MachineCall /\ Operation(op).op = op
                      /\ Operation(op).credential = 0 /\ Operation(op).rows = {}
  BY <1>0, OperationIsCall
<1>2. ASSUME NEW op \in Ops, op \notin {"rotate", "drop", "exchange"}, Reads(m, Operation(op))
      PROVE  MachineInv'
  BY <1>0, <1>1, <1>2, ReadsKeeps
<1>3. ASSUME NEW k \in DOMAIN credentials PROVE credentials[k].version \in Nat /\ k \in Nat
  <2>1. credentials[k] \in Credential /\ k \in 1 .. Len(credentials)
    BY <1>0, CredentialFields
  <2> QED BY <2>1 DEF Credential
<1>4. CASE Rotate(m)
  <2>1. PICK k \in DOMAIN credentials, window \in Windows :
          Reads(m, [Operation("rotate") EXCEPT !.credential = k,
                      !.version = credentials[k].version, !.window = window])
    BY <1>4 DEF Rotate
  <2>2. window \in Nat
    BY MachineAssumption
  <2> DEFINE fields == [Operation("rotate") EXCEPT !.credential = k,
                          !.version = credentials[k].version, !.window = window]
  <2>3. fields \in MachineCall /\ fields.credential = k /\ fields.rows = {}
    BY <1>1, <1>3, <2>2 DEF MachineCall
  <2> HIDE DEF fields
  <2>4. Reads(m, fields)
    BY <2>1 DEF fields
  <2> QED BY <1>0, <2>3, <2>4, ReadsKeeps
<1>5. CASE RevokeIdentity(m)
  <2> DEFINE rows == {k \in DOMAIN credentials : ~credentials[k].revoked}
             fields == [Operation("revoke") EXCEPT !.rows = rows]
  <2>1. rows \in SUBSET Nat /\ rows \subseteq DOMAIN credentials
    BY <1>3
  <2> HIDE DEF rows
  <2>2. fields \in MachineCall /\ fields.credential = 0 /\ fields.rows = rows /\ fields.op = "revoke"
    BY <1>1, <2>1 DEF MachineCall
  <2> HIDE DEF fields
  <2>3. Reads(m, fields)
    BY <1>5 DEF RevokeIdentity, fields, rows
  <2>4. /\ fields.credential \in 0 .. Len(credentials) /\ fields.rows \subseteq DOMAIN credentials
        /\ fields.op \notin {"rotate", "drop", "exchange"}
    BY <1>0, <2>1, <2>2
  <2>5. fields \in MachineCall
    BY <2>2
  <2> QED BY <2>3, <2>4, <2>5, ReadsKeeps
<1>6. CASE CreateCredential(m)
  BY <1>2, <1>6 DEF CreateCredential
<1>7. CASE RevokeCredential(m)
  <2>1. PICK k \in DOMAIN credentials :
          Reads(m, [Operation("drop") EXCEPT !.credential = k, !.version = credentials[k].version])
    BY <1>7 DEF RevokeCredential
  <2> DEFINE fields == [Operation("drop") EXCEPT !.credential = k,
                          !.version = credentials[k].version]
  <2>3. fields \in MachineCall /\ fields.credential = k /\ fields.rows = {}
    BY <1>1, <1>3 DEF MachineCall
  <2> HIDE DEF fields
  <2>4. Reads(m, fields)
    BY <2>1 DEF fields
  <2> QED BY <1>0, <2>3, <2>4, ReadsKeeps
<1>8. CASE Disable(m) \/ Enable(m) \/ Unlock(m) \/ Fails(m)
  <2>1. CASE Disable(m)
    BY <1>2, <2>1 DEF Disable
  <2>2. CASE Enable(m)
    BY <1>2, <2>2 DEF Enable
  <2>3. CASE Unlock(m)
    BY <1>2, <2>3 DEF Unlock
  <2>4. CASE Fails(m)
    BY <1>2, <2>4 DEF Fails
  <2> QED BY <1>8, <2>1, <2>2, <2>3, <2>4
<1>9. CASE Exchanges(m)
  <2>1. PICK k \in DOMAIN credentials :
          Reads(m, [Operation("exchange") EXCEPT !.credential = k,
                                                 !.version = credentials[k].version])
    BY <1>9 DEF Exchanges
  <2> DEFINE fields == [Operation("exchange") EXCEPT !.credential = k,
                          !.version = credentials[k].version]
  <2>3. fields \in MachineCall /\ fields.credential = k /\ fields.rows = {}
    BY <1>1, <1>3 DEF MachineCall
  <2> HIDE DEF fields
  <2>4. Reads(m, fields)
    BY <2>1 DEF fields
  <2> QED BY <1>0, <2>3, <2>4, ReadsKeeps
<1> QED BY <1>4, <1>5, <1>6, <1>7, <1>8, <1>9 DEF MachineRequests

-----------------------------------------------------------------------------
(* A credential is only ever marked, never cleared: the old rows of a table  *)
(* that a commit writes are those before, or revoked.                        *)
LEMMA MarkedStay ==
  ASSUME MachineInv, identity'.revoked \/ identity' = identity,
         NEW more \in SUBSET DOMAIN credentials, barred' = barred \cup more,
         \A k \in DOMAIN credentials : credentials[k].revoked => credentials'[k].revoked,
         \A k \in more : credentials'[k].revoked \/ identity'.revoked
  PROVE  RevocationsStay'
<1>1. identity.revoked \/ \A k \in barred : credentials[k].revoked
  BY DEF MachineInv, RevocationsStay
<1>2. barred \subseteq DOMAIN credentials
  BY DEF MachineInv, MachineTypeOK
<1> QED BY <1>1, <1>2 DEF RevocationsStay

LEMMA Appended ==
  ASSUME NEW s \in Seq(Credential), NEW t \in Seq(Credential), Len(t) = Len(s),
         NEW c \in Credential, NEW rows, rows = Append(t, c)
  PROVE  /\ rows \in Seq(Credential) /\ Len(rows) >= Len(s)
         /\ DOMAIN s \subseteq DOMAIN rows
         /\ \A k \in DOMAIN s : rows[k] = t[k]
<1>1. Len(rows) = Len(t) + 1 /\ rows \in Seq(Credential)
  BY AppendProperties
<1>2. \A k \in 1 .. Len(t) : rows[k] = t[k]
  BY AppendProperties
<1> QED BY <1>1, <1>2

LEMMA RotateKeeps ==
  ASSUME MachineInv, NEW m \in Machines, CommitRotate(m)
  PROVE  MachineInv'
<1> DEFINE q == machine[m]
           old == IF q.window = 0 THEN [credentials[q.credential] EXCEPT !.revoked = TRUE]
                  ELSE [credentials[q.credential] EXCEPT !.overlap = q.at + q.window]
           t == [credentials EXCEPT ![q.credential] = old]
<1>1. /\ q \in MachineCall /\ q.op = "rotate" /\ q.credential \in DOMAIN credentials
      /\ credentials \in Seq(Credential) /\ now \in Nat
  BY DEF CommitRotate, MachineInv, MachineTypeOK, NamesCredential
<1>2. PICK expires \in {now + 1, Never} :
        credentials' = Append(t, NewCredential(q.version + 1, expires))
  BY DEF CommitRotate
<1>3. q.version + 1 \in Nat /\ expires \in Nat /\ q.at + q.window \in Nat
  BY <1>1, MachineAssumption DEF MachineCall, Never
<1>4. /\ old \in Credential
      /\ credentials[q.credential].revoked \/ q.window = 0 => old.revoked
  <2>1. credentials[q.credential] \in Credential
    BY <1>1, CredentialFields DEF MachineInv
  <2>2. CASE q.window = 0
    <3>1. old = [credentials[q.credential] EXCEPT !.revoked = TRUE]
      BY <2>2
    <3> QED BY <2>1, <3>1 DEF Credential
  <2>3. CASE q.window # 0
    <3>1. old = [credentials[q.credential] EXCEPT !.overlap = q.at + q.window]
      BY <2>3
    <3> QED BY <1>3, <2>1, <2>3, <3>1 DEF Credential
  <2> QED BY <2>2, <2>3
<1> HIDE DEF old
<1>5. t \in Seq(Credential) /\ Len(t) = Len(credentials)
  BY <1>1, <1>4
<1>6. \A k \in DOMAIN credentials : t[k] = IF k = q.credential THEN old ELSE credentials[k]
  BY <1>1
<1> DEFINE c == NewCredential(q.version + 1, expires)
<1>7. c \in Credential
  BY <1>3, NewCredentialIsCredential
<1> HIDE DEF c, t
<1>8. credentials' = Append(t, c)
  BY <1>2 DEF c
<1>9. /\ credentials' \in Seq(Credential) /\ Len(credentials') >= Len(credentials)
      /\ DOMAIN credentials \subseteq DOMAIN credentials'
      /\ \A k \in DOMAIN credentials : credentials'[k] = t[k]
  BY <1>1, <1>5, <1>7, <1>8, Appended
<1>10. /\ Done(m) /\ identity' = identity /\ issued' = issued
       /\ barred' = IF q.window = 0 THEN barred \cup {q.credential} ELSE barred
  BY DEF CommitRotate
<1>11. RevocationsStay'
  <2>1. \A k \in DOMAIN credentials : credentials[k].revoked => credentials'[k].revoked
    BY <1>4, <1>6, <1>9
  <2>2. CASE q.window = 0
    <3>1. credentials'[q.credential].revoked
      BY <1>1, <1>4, <1>6, <1>9, <2>2
    <3>2. /\ {q.credential} \in SUBSET DOMAIN credentials
          /\ barred' = barred \cup {q.credential}
          /\ \A k \in {q.credential} : credentials'[k].revoked \/ identity'.revoked
      BY <1>1, <1>10, <2>2, <3>1
    <3> QED BY <1>10, <2>1, <3>2, MarkedStay
  <2>3. CASE q.window # 0
    <3>1. /\ {} \in SUBSET DOMAIN credentials
          /\ barred' = barred \cup {}
          /\ \A k \in {} : credentials'[k].revoked \/ identity'.revoked
      BY <1>10, <2>3
    <3> QED BY <1>10, <2>1, <3>1, MarkedStay
  <2> QED BY <2>2, <2>3
<1>12. /\ identity' \in Identity /\ issued' \subseteq AccessToken
       /\ \A token \in issued' : token.credential \in DOMAIN credentials'
       /\ barred' \subseteq DOMAIN credentials'
  BY <1>1, <1>9, <1>10 DEF MachineInv, MachineTypeOK
<1> QED BY <1>9, <1>10, <1>11, <1>12, DoneKeeps

LEMMA RevokeIdentityKeeps ==
  ASSUME MachineInv, NEW m \in Machines, CommitRevokeIdentity(m)
  PROVE  MachineInv'
<1> DEFINE q == machine[m]
<1>1. /\ identity' = [identity EXCEPT !.revoked = TRUE] /\ identity \in Identity
      /\ credentials \in Seq(Credential)
      /\ credentials' = [k \in DOMAIN credentials |->
                           IF k \in q.rows THEN [credentials[k] EXCEPT !.revoked = TRUE]
                           ELSE credentials[k]]
      /\ barred' = barred \cup DOMAIN credentials /\ Done(m) /\ issued' = issued
  BY DEF CommitRevokeIdentity, MachineInv, MachineTypeOK
<1>2. DOMAIN credentials = 1 .. Len(credentials) /\ Len(credentials) \in Nat
  BY <1>1
<1>3. ASSUME NEW k \in DOMAIN credentials PROVE credentials'[k] \in Credential
  <2>1. credentials[k] \in Credential
    BY CredentialFields DEF MachineInv
  <2>2. credentials'[k] \in {credentials[k], [credentials[k] EXCEPT !.revoked = TRUE]}
    BY <1>1
  <2> QED BY <2>1, <2>2 DEF Credential
<1>4. DOMAIN credentials' = DOMAIN credentials
  BY <1>1
<1>5. credentials' \in Seq(Credential) /\ Len(credentials') = Len(credentials)
  <2>1. credentials' = [k \in 1 .. Len(credentials) |-> credentials'[k]]
    BY <1>1, <1>2
  <2>2. credentials' \in [1 .. Len(credentials) -> Credential]
    BY <1>2, <1>3, <2>1
  <2>3. credentials' \in Seq(Credential)
    BY <1>2, <2>2, SeqDef
  <2> QED BY <1>2, <1>4, <2>3
<1>6. identity'.revoked /\ identity' \in Identity
  BY <1>1 DEF Identity
<1>7. RevocationsStay'
  BY <1>6 DEF RevocationsStay
<1>8. /\ issued' \subseteq AccessToken
      /\ \A token \in issued' : token.credential \in DOMAIN credentials'
      /\ barred' \subseteq DOMAIN credentials'
  BY <1>1, <1>4 DEF MachineInv, MachineTypeOK
<1>9. Len(credentials') >= Len(credentials)
  BY <1>2, <1>5
<1> QED BY <1>1, <1>5, <1>6, <1>7, <1>8, <1>9, DoneKeeps

LEMMA CreateCredentialKeeps ==
  ASSUME MachineInv, NEW m \in Machines, CommitCreateCredential(m)
  PROVE  MachineInv'
<1>1. /\ Done(m) /\ identity' = identity /\ issued' = issued /\ barred' = barred
      /\ credentials \in Seq(Credential) /\ now \in Nat
  BY DEF CommitCreateCredential, MachineInv, MachineTypeOK
<1>2. PICK expires \in {now + 1, Never} :
        credentials' = Append(credentials, NewCredential(1, expires))
  BY DEF CommitCreateCredential
<1> DEFINE c == NewCredential(1, expires)
<1>3. c \in Credential
  BY <1>1, MachineAssumption, NewCredentialIsCredential DEF Never
<1> HIDE DEF c
<1>4. credentials' = Append(credentials, c)
  BY <1>2 DEF c
<1>5. /\ credentials' \in Seq(Credential) /\ Len(credentials') >= Len(credentials)
      /\ DOMAIN credentials \subseteq DOMAIN credentials'
      /\ \A k \in DOMAIN credentials : credentials'[k] = credentials[k]
  BY <1>1, <1>3, <1>4, Appended
<1>6. RevocationsStay'
  <2>1. /\ {} \in SUBSET DOMAIN credentials
        /\ barred' = barred \cup {}
        /\ \A k \in {} : credentials'[k].revoked \/ identity'.revoked
    BY <1>1
  <2>2. \A k \in DOMAIN credentials : credentials[k].revoked => credentials'[k].revoked
    BY <1>5
  <2> QED BY <1>1, <2>1, <2>2, MarkedStay
<1>7. /\ identity' \in Identity /\ issued' \subseteq AccessToken
      /\ \A token \in issued' : token.credential \in DOMAIN credentials'
      /\ barred' \subseteq DOMAIN credentials'
  BY <1>1, <1>5 DEF MachineInv, MachineTypeOK
<1> QED BY <1>1, <1>5, <1>6, <1>7, DoneKeeps

LEMMA RevokeCredentialKeeps ==
  ASSUME MachineInv, NEW m \in Machines, CommitRevokeCredential(m)
  PROVE  MachineInv'
<1> DEFINE q == machine[m]
           c == [credentials[q.credential] EXCEPT !.revoked = TRUE, !.version = q.version + 1]
<1>1. /\ Done(m) /\ identity' = identity /\ issued' = issued
      /\ barred' = barred \cup {q.credential}
      /\ q \in MachineCall /\ q.op = "drop" /\ q.credential \in DOMAIN credentials
      /\ credentials \in Seq(Credential)
  BY DEF CommitRevokeCredential, MachineInv, MachineTypeOK, NamesCredential
<1>2. credentials' = [credentials EXCEPT ![q.credential] = c]
  BY <1>1 DEF CommitRevokeCredential
<1>3. c \in Credential /\ c.revoked
  <2>1. credentials[q.credential] \in Credential /\ q.version + 1 \in Nat
    BY <1>1, CredentialFields DEF MachineInv, MachineCall
  <2> QED BY <2>1 DEF Credential
<1> HIDE DEF c
<1>4. /\ credentials' \in Seq(Credential) /\ Len(credentials') = Len(credentials)
      /\ DOMAIN credentials' = DOMAIN credentials
  BY <1>1, <1>2, <1>3
<1>5. \A k \in DOMAIN credentials : credentials'[k] = IF k = q.credential THEN c ELSE credentials[k]
  BY <1>1, <1>2
<1>6. RevocationsStay'
  <2>1. /\ {q.credential} \in SUBSET DOMAIN credentials
        /\ \A k \in {q.credential} : credentials'[k].revoked \/ identity'.revoked
    BY <1>1, <1>3, <1>5
  <2>2. \A k \in DOMAIN credentials : credentials[k].revoked => credentials'[k].revoked
    BY <1>3, <1>5
  <2> QED BY <1>1, <2>1, <2>2, MarkedStay
<1>7. /\ identity' \in Identity /\ issued' \subseteq AccessToken
      /\ \A token \in issued' : token.credential \in DOMAIN credentials'
      /\ barred' \subseteq DOMAIN credentials'
  BY <1>1, <1>4 DEF MachineInv, MachineTypeOK
<1>8. Len(credentials') >= Len(credentials)
  BY <1>1, <1>4
<1> QED BY <1>1, <1>4, <1>6, <1>7, <1>8, DoneKeeps

LEMMA SetBackType ==
  ASSUME MachineTypeOK, NEW seen \in Identity
  PROVE  SetBack(seen) \in Identity /\ SetBack(seen).revoked = identity.revoked
BY DEF SetBack, Identity, MachineTypeOK

LEMMA SwitchKeeps ==
  ASSUME MachineInv, NEW m \in Machines, CommitSwitch(m)
  PROVE  MachineInv'
<1>1. /\ Done(m) /\ UNCHANGED <<credentials, issued, barred>>
      /\ identity' \in {identity, [identity EXCEPT !.disabled = (machine[m].op = "disable")]}
      /\ identity \in Identity
  BY DEF CommitSwitch, MachineInv, MachineTypeOK
<1>2. identity' \in Identity /\ identity'.revoked = identity.revoked
  BY <1>1 DEF Identity
<1> QED BY <1>1, <1>2, IdentityCommitKeeps

LEMMA UnlockKeeps ==
  ASSUME MachineInv, NEW m \in Machines, CommitUnlock(m)
  PROVE  MachineInv'
<1>1. /\ Done(m) /\ UNCHANGED <<credentials, issued, barred>>
      /\ identity' = SetBack(machine[m].seen) /\ machine[m].seen \in Identity
  BY DEF CommitUnlock, MachineInv, MachineTypeOK, MachineCall
<1>2. identity' \in Identity /\ identity'.revoked = identity.revoked
  BY <1>1, SetBackType DEF MachineInv
<1> QED BY <1>1, <1>2, IdentityCommitKeeps

LEMMA ExchangeKeeps ==
  ASSUME MachineInv, NEW m \in Machines, CommitExchange(m)
  PROVE  MachineInv'
<1> DEFINE q == machine[m]
           token == [credential |-> q.credential, version |-> q.version,
                     until |-> q.at + TokenTime]
<1>1. /\ Done(m) /\ credentials' = credentials /\ barred' = barred
      /\ issued' = issued \cup {token}
      /\ identity' = SetBack(q.seen) /\ q \in MachineCall
      /\ q.op = "exchange" /\ q.credential \in DOMAIN credentials
      /\ credentials \in Seq(Credential)
  BY DEF CommitExchange, MachineInv, MachineTypeOK, NamesCredential
<1>2. token \in AccessToken /\ token.credential = q.credential
  BY <1>1, MachineAssumption DEF AccessToken, MachineCall
<1> HIDE DEF token
<1>3. identity' \in Identity /\ identity'.revoked = identity.revoked
  BY <1>1, SetBackType DEF MachineInv, MachineCall
<1>4. RevocationsStay'
  BY <1>1, <1>3 DEF MachineInv, RevocationsStay
<1>5. /\ issued' \subseteq AccessToken
      /\ \A x \in issued' : x.credential \in DOMAIN credentials'
      /\ barred' \subseteq DOMAIN credentials'
  BY <1>1, <1>2 DEF MachineInv, MachineTypeOK
<1>6. Len(credentials') >= Len(credentials)
  BY <1>1
<1> QED BY <1>1, <1>3, <1>4, <1>5, <1>6, DoneKeeps

LEMMA FailureKeeps ==
  ASSUME MachineInv, NEW m \in Machines, CommitFailure(m)
  PROVE  MachineInv'
<1> DEFINE q == machine[m]
<1>1. q \in MachineCall /\ identity \in Identity
  BY DEF MachineInv, MachineTypeOK
<1>2. q.seen.attempts + 1 \in Nat /\ q.at + LockTime \in Nat
  BY <1>1, MachineAssumption DEF MachineCall, Identity
<1>3. /\ Done(m) /\ UNCHANGED <<credentials, issued, barred>>
      /\ identity' = [identity EXCEPT
            !.attempts = q.seen.attempts + 1,
            !.locked = IF q.seen.attempts + 1 >= MaxAttempts THEN q.at + LockTime ELSE @]
  BY DEF CommitFailure
<1>4. identity' \in Identity /\ identity'.revoked = identity.revoked
  BY <1>1, <1>2, <1>3 DEF Identity
<1> QED BY <1>3, <1>4, IdentityCommitKeeps

LEMMA MachineNextKeeps ==
  ASSUME MachineInv, [MachineNext]_machineVars
  PROVE  MachineInv'
<1>1. CASE Passes
  BY <1>1 DEF Passes, MachineInv, MachineTypeOK, NamesCredential, RevocationsStay
<1>2. CASE UNCHANGED machineVars
  BY <1>2 DEF machineVars, MachineInv, MachineTypeOK, NamesCredential, RevocationsStay
<1>3. ASSUME NEW m \in Machines, MachineRequests(m) PROVE MachineInv'
  BY <1>3, RequestsKeep
<1>4. ASSUME NEW m \in Machines, MachineCommits(m) PROVE MachineInv'
  BY <1>4, RotateKeeps, RevokeIdentityKeeps, CreateCredentialKeeps, RevokeCredentialKeeps,
     SwitchKeeps, UnlockKeeps, ExchangeKeeps, FailureKeeps DEF MachineCommits
<1> QED BY <1>1, <1>2, <1>3, <1>4 DEF MachineNext

LEMMA MachineInitInv == MachineInit => MachineInv
<1> SUFFICES ASSUME MachineInit PROVE MachineInv
  OBVIOUS
<1>1. PICK expires \in {1, Never} : credentials = <<NewCredential(1, expires)>>
  BY DEF MachineInit
<1> DEFINE c == NewCredential(1, expires)
<1>2. c \in Credential
  BY MachineAssumption, NewCredentialIsCredential DEF Never
<1> HIDE DEF c
<1>3. credentials = <<c>>
  BY <1>1 DEF c
<1>4. credentials \in Seq(Credential) /\ credentials # <<>> /\ Len(credentials) = 1
  BY <1>2, <1>3
<1> QED BY <1>4, FreshIsIdentity, NoRequestIsCall
        DEF MachineInit, MachineInv, MachineTypeOK, NamesCredential, RevocationsStay, NoRequestYet

LEMMA MachineInvariant == MachineSpec => []MachineInv
BY MachineInitInv, MachineNextKeeps, PTL DEF MachineSpec

-----------------------------------------------------------------------------
(* Rows hold what their columns hold; the tokens that machines hold, and the *)
(* calls in progress, name rows of machine_identity_credentials that exist   *)
(* (they are marked, never deleted).                                         *)
THEOREM MachineTypeCorrect == MachineSpec => []MachineTypeOK
<1>1. MachineInv => MachineTypeOK
  BY DEF MachineInv
<1> QED BY <1>1, MachineInvariant, PTL

(* Once a revocation of an identity or of a credential is committed, no call *)
(* and no overlap of calls makes the credential exchangeable or one of its   *)
(* tokens accepted again: routes/machine_identities.py never clears          *)
(* revoked_at, and every use looks at it.                                    *)
THEOREM RevocationIsFinal == MachineSpec => []RevokedStaysOut
<1>1. MachineInv => RevokedStaysOut
  BY DEF MachineInv, RevocationsStay, RevokedStaysOut, CredentialActive, IdentityActive, Accepted
<1> QED BY <1>1, MachineInvariant, PTL

(* A lock ends before its time only by the commit of an administrator's      *)
(* unlock, or by one of a call that overlapped with the one that locked:     *)
(* the columns it had read are those before the lock.                        *)
THEOREM LocksHold == MachineSpec => LockHolds
<1> DEFINE Lifted == now' = now /\ identity.locked > now /\ identity'.locked =< now
           Lifter == \E m \in Machines :
                       \/ machine[m].op = "unlock"
                       \/ machine[m].op = "exchange" /\ machine[m].seen.locked # 0
                       \/ machine[m].op = "failure" /\ machine[m].at < now
<1>1. MachineInv /\ [MachineNext]_machineVars => [Lifted => Lifter]_machineVars
  <2> SUFFICES ASSUME MachineInv, MachineNext, Lifted PROVE Lifter
    BY DEF MachineNext
  <2>0. identity \in Identity /\ now \in Nat /\ identity.locked \in Nat
        /\ \A m \in Machines : machine[m] \in MachineCall
    BY DEF MachineInv, MachineTypeOK, Identity
  <2>1. identity' # identity /\ identity'.locked # identity.locked
    BY <2>0
  <2>2. PICK m \in Machines : MachineCommits(m)
    BY <2>1 DEF MachineNext, MachineRequests, Passes, Reads, Rotate, RevokeIdentity,
       CreateCredential, RevokeCredential, Disable, Enable, Unlock, Exchanges, Fails
  <2>3. CASE CommitRotate(m) \/ CommitCreateCredential(m) \/ CommitRevokeCredential(m)
    BY <2>1, <2>3 DEF CommitRotate, CommitCreateCredential, CommitRevokeCredential
  <2>4. CASE CommitRevokeIdentity(m)
    <3>1. identity'.locked = identity.locked
      BY <2>0, <2>4 DEF CommitRevokeIdentity, Identity
    <3> QED BY <2>1, <3>1
  <2>5. CASE CommitSwitch(m)
    <3>1. identity'.locked = identity.locked
      BY <2>0, <2>5 DEF CommitSwitch, Identity
    <3> QED BY <2>1, <3>1
  <2>6. CASE CommitUnlock(m)
    BY <2>6 DEF CommitUnlock
  <2>7. CASE CommitExchange(m)
    <3>1. machine[m].seen.locked = 0 => identity'.locked = identity.locked
      BY <2>0, <2>7 DEF CommitExchange, SetBack, Identity
    <3> QED BY <2>1, <2>7, <3>1 DEF CommitExchange
  <2>8. CASE CommitFailure(m)
    <3>1. machine[m].op = "failure" /\ machine[m].at \in Nat
      BY <2>0, <2>8 DEF CommitFailure, MachineCall
    <3>2. identity'.locked \in {identity.locked, machine[m].at + LockTime}
      BY <2>0, <2>8 DEF CommitFailure, Identity
    <3>3. machine[m].at + LockTime =< now
      BY <2>1, <3>2
    <3>4. machine[m].at < now
      BY <2>0, <3>1, <3>3, MachineAssumption
    <3> QED BY <3>1, <3>4
  <2> QED BY <2>2, <2>3, <2>4, <2>5, <2>6, <2>7, <2>8 DEF MachineCommits
<1>2. MachineSpec => [][Lifted => Lifter]_machineVars
  BY <1>1, MachineInvariant, PTL DEF MachineSpec
<1> QED BY <1>2 DEF LockHolds

-----------------------------------------------------------------------------
(* The proxy.                                                                *)

(* Who writes the stored row under the project's lock has read it as it is,   *)
(* unless it was deleted meanwhile.                                           *)
EditOK(q, row, active) ==
  /\ q.op \in {"upserting", "rotating"} => row \in {q.seen, NoCredential}
  /\ q.op \in {"upsert", "upserting"} => q.secret \in Secrets
  /\ q.seen = NoCredential \/ (q.seen \in Credentials /\ q.seen.id # 0)

(* The row is encrypted under the version it says. *)
RowOK(row) ==
  row = NoCredential \/ (row \in Credentials /\ row.id # 0 /\ row.key = row.version)

(* A request holds a secret only when it was answered, and one that was       *)
(* offered to it; while its question is open the row is on offer.             *)
AgentOK(agent, offers, row) ==
  /\ agent.phase \in {"idle", "authenticated", "asking", "admitted", "refused"} =>
       agent.secret = NothingStored
  /\ agent.secret # NothingStored => agent.secret \in offers
  /\ agent.phase \in {"asking", "admitted"} /\ row.id # 0 => row.secret \in offers

ProxyInv ==
  /\ ProxyTypeOK
  /\ RowOK(stored)
  /\ \A e \in Editors : EditOK(editors[e], stored, dataKey)
  /\ \A e \in Editors : editors[e].op \in {"upserting", "rotating"} => project = e
  /\ \A a \in Agents : AgentOK(agents[a], offered[a], stored)

LEMMA NoCredentialOK ==
  /\ NoCredential \in Credentials \cup {NoCredential} /\ NoCredential.id = 0
  /\ NoEdit \in Editor /\ NoEdit.op = "none"
  /\ \A row, active : EditOK(NoEdit, row, active)
BY DEF NoCredential, NoEdit, Editor, EditOK

LEMMA NoAgentOK ==
  /\ NoAgent \in Agent
  /\ \A offers, row : AgentOK(NoAgent, offers, row)
BY DEF NoAgent, Agent, AgentOK

(* One request of an editor begins, or reads on: the row stays. *)
LEMMA EditorReads ==
  ASSUME ProxyInv, NEW e \in Editors, NEW q \in Editor, EditOK(q, stored, dataKey),
         editors' = [editors EXCEPT ![e] = q],
         project' \in {project, e}, project' = e => q.op \in {"upserting", "rotating"},
         q.op \in {"upserting", "rotating"} => project' = e,
         project' # project => project = NoEditor,
         UNCHANGED <<dataKey, stored, inserted, eligible, agents, offered>>
  PROVE  ProxyInv'
<1>1. /\ editors \in [Editors -> Editor] /\ project \in Editors \cup {NoEditor}
      /\ project # NoEditor => editors[project].op \in {"upserting", "rotating"}
      /\ \A d \in Editors : editors[d].op \in {"upserting", "rotating"} => project = d
  BY DEF ProxyInv, ProxyTypeOK
<1>2. editors' \in [Editors -> Editor] /\ editors'[e] = q
      /\ \A d \in Editors \ {e} : editors'[d] = editors[d]
  BY <1>1
<1>3. project' \in Editors \cup {NoEditor}
      /\ (project' # NoEditor => editors'[project'].op \in {"upserting", "rotating"})
  BY <1>1, <1>2, EditorsAssumption
<1>4. \A d \in Editors : editors'[d].op \in {"upserting", "rotating"} => project' = d
  BY <1>1, <1>2, EditorsAssumption
<1>5. ProxyTypeOK'
  BY <1>2, <1>3 DEF ProxyInv, ProxyTypeOK
<1>6. \A d \in Editors : EditOK(editors'[d], stored, dataKey)
  BY <1>2 DEF ProxyInv
<1> QED BY <1>4, <1>5, <1>6 DEF ProxyInv

(* One ends: what it has written is a row that agrees with its key, and      *)
(* nobody else is writing.                                                   *)
LEMMA EditorEnds ==
  ASSUME ProxyInv, NEW e \in Editors, Ended(e),
         Unlocks(e) \/ (project' = project /\ editors[e].op \notin {"upserting", "rotating"}),
         dataKey' \in Nat, inserted' \in Nat, RowOK(stored'),
         stored' = NoCredential \/ stored' = stored
           \/ editors[e].op \in {"upserting", "rotating"},
         UNCHANGED <<eligible, agents>>,
         offered' = Offering(stored') \/ (offered' = offered /\ stored' \in {stored, NoCredential})
  PROVE  ProxyInv'
<1>1. /\ editors \in [Editors -> Editor] /\ project \in Editors \cup {NoEditor}
      /\ project # NoEditor => editors[project].op \in {"upserting", "rotating"}
      /\ \A d \in Editors : editors[d].op \in {"upserting", "rotating"} => project = d
      /\ \A d \in Editors : EditOK(editors[d], stored, dataKey)
      /\ editors' = [editors EXCEPT ![e] = NoEdit]
      /\ offered \in [Agents -> SUBSET Secrets] /\ agents \in [Agents -> Agent]
      /\ \A a \in Agents : AgentOK(agents[a], offered[a], stored)
  BY DEF ProxyInv, ProxyTypeOK, Ended
<1>2. editors' \in [Editors -> Editor] /\ editors'[e] = NoEdit
      /\ \A d \in Editors \ {e} : editors'[d] = editors[d]
  BY <1>1, NoCredentialOK
<1>3. \A d \in Editors : editors'[d].op \in {"upserting", "rotating"} =>
                           d # e /\ project = d /\ project' = d
  BY <1>1, <1>2, NoCredentialOK DEF Unlocks
<1>4. project' \in Editors \cup {NoEditor}
      /\ (project' # NoEditor => editors'[project'].op \in {"upserting", "rotating"})
  BY <1>1, <1>2 DEF Unlocks
<1>5. ASSUME NEW d \in Editors PROVE EditOK(editors'[d], stored', dataKey')
  <2>1. CASE d = e
    BY <1>2, <2>1, NoCredentialOK
  <2>2. CASE d # e
    <3>1. editors'[d] = editors[d] /\ EditOK(editors[d], stored, dataKey)
      BY <1>1, <1>2, <2>2
    <3>2. editors[d].op \in {"upserting", "rotating"} => stored' \in {stored, NoCredential}
      BY <1>1, <2>2
    <3> QED BY <3>1, <3>2 DEF EditOK
  <2> QED BY <2>1, <2>2
<1>6. stored'.id # 0 => stored'.secret \in Secrets
  BY NoCredentialOK DEF RowOK, Credentials
<1>7. ASSUME NEW a \in Agents
      PROVE  offered'[a] \in SUBSET Secrets /\ AgentOK(agents'[a], offered'[a], stored')
  <2>1. offered[a] \subseteq offered'[a] /\ offered'[a] \in SUBSET Secrets
    BY <1>1, <1>6 DEF Offering
  <2>2. agents[a].phase \in {"asking", "admitted"} /\ stored'.id # 0 =>
          stored'.secret \in offered'[a]
    BY <1>1, NoCredentialOK DEF Offering, AgentOK
  <2> QED BY <1>1, <2>1, <2>2 DEF AgentOK
<1>8. offered' \in [Agents -> SUBSET Secrets]
  <2>1. offered' = [a \in Agents |-> offered'[a]]
    BY <1>1 DEF Offering
  <2> QED BY <1>7, <2>1
<1>9. ProxyTypeOK'
  BY <1>2, <1>4, <1>8 DEF ProxyInv, ProxyTypeOK, RowOK
<1> QED BY <1>3, <1>5, <1>7, <1>9 DEF ProxyInv

LEMMA EditsKeep ==
  ASSUME ProxyInv, NEW e \in Editors, Edits(e)
  PROVE  ProxyInv'
<1> DEFINE q == editors[e]
<1>1. /\ q \in Editor /\ EditOK(q, stored, dataKey) /\ RowOK(stored)
      /\ editors \in [Editors -> Editor]
      /\ dataKey \in Nat /\ inserted \in Nat /\ project \in Editors \cup {NoEditor}
      /\ stored \in Credentials \cup {NoCredential}
      /\ q.op \in {"upserting", "rotating"} => project = e
      /\ project = e => q.op \in {"upserting", "rotating"}
  BY EditorsAssumption DEF ProxyInv, ProxyTypeOK
<1>2. stored = NoCredential \/ (stored \in Credentials /\ stored.id # 0)
  BY <1>1 DEF RowOK
<1>3. CASE Upsert(e)
  <2>1. PICK s \in Secrets : editors' = [editors EXCEPT ![e] = [NoEdit EXCEPT !.op = "upsert",
                                                                             !.secret = s]]
    BY <1>3 DEF Upsert
  <2> DEFINE edit == [NoEdit EXCEPT !.op = "upsert", !.secret = s]
  <2>2. edit \in Editor /\ edit.op = "upsert" /\ EditOK(edit, stored, dataKey)
    BY NoCredentialOK DEF NoEdit, Editor, EditOK
  <2>3. q.op = "none" /\ project' = project
        /\ UNCHANGED <<dataKey, stored, inserted, eligible, agents, offered>>
    BY <1>3 DEF Upsert
  <2>4. project' # e
    BY <1>1, <2>3
  <2> HIDE DEF edit
  <2>5. editors' = [editors EXCEPT ![e] = edit]
    BY <2>1 DEF edit
  <2> QED BY <2>2, <2>3, <2>4, <2>5, EditorReads
<1>4. CASE UpsertLocks(e)
  <2> DEFINE edit == [q EXCEPT !.op = "upserting", !.key = dataKey, !.seen = stored]
  <2>1. /\ q.op = "upsert" /\ project = NoEditor /\ project' = e
        /\ editors' = [editors EXCEPT ![e] = edit]
        /\ UNCHANGED <<dataKey, stored, inserted, eligible, agents, offered>>
    BY <1>1, <1>4 DEF UpsertLocks
  <2>2. edit \in Editor /\ edit.op = "upserting" /\ edit.seen = stored /\ edit.secret = q.secret
    BY <1>1 DEF Editor
  <2>3. EditOK(edit, stored, dataKey)
    BY <1>1, <1>2, <2>1, <2>2 DEF EditOK
  <2> HIDE DEF edit
  <2> QED BY <2>1, <2>2, <2>3, EditorReads
<1>5. CASE CommitUpsert(e)
  <2>1. /\ q.op = "upserting" /\ Unlocks(e) /\ Ended(e) /\ UNCHANGED <<dataKey, eligible, agents>>
        /\ offered' = Offering(stored')
        /\ \/ /\ stored' = [id |-> inserted + 1, secret |-> q.secret, key |-> q.key,
                            version |-> q.key]
              /\ inserted' = inserted + 1
           \/ /\ q.seen # NoCredential /\ stored.id = q.seen.id
              /\ stored' = [stored EXCEPT !.secret = q.secret, !.key = q.key,
                              !.version = IF q.key = q.seen.version THEN @ ELSE q.key]
              /\ UNCHANGED inserted
    BY <1>5 DEF CommitUpsert
  <2>2. q.secret \in Secrets /\ q.key \in Nat
    BY <1>1, <2>1 DEF EditOK, Editor
  <2>3. CASE /\ stored' = [id |-> inserted + 1, secret |-> q.secret, key |-> q.key,
                           version |-> q.key]
             /\ inserted' = inserted + 1
    <3>1. RowOK(stored')
      BY <1>1, <2>2, <2>3 DEF RowOK, Credentials
    <3> QED BY <1>1, <2>1, <2>3, <3>1, EditorEnds
  <2>4. CASE /\ q.seen # NoCredential /\ stored.id = q.seen.id
             /\ stored' = [stored EXCEPT !.secret = q.secret, !.key = q.key,
                             !.version = IF q.key = q.seen.version THEN @ ELSE q.key]
             /\ UNCHANGED inserted
    <3>1. stored = q.seen /\ stored \in Credentials /\ stored.id # 0
      BY <1>1, <2>1, <2>4, NoCredentialOK DEF EditOK
    <3>2. RowOK(stored')
      BY <2>2, <2>4, <3>1 DEF RowOK, Credentials
    <3> QED BY <1>1, <2>1, <2>4, <3>2, EditorEnds
  <2> QED BY <2>1, <2>3, <2>4
<1>6. CASE RotateDataKey(e)
  <2> DEFINE edit == [NoEdit EXCEPT !.op = "rotating", !.key = dataKey + 1, !.seen = stored]
  <2>1. /\ q.op = "none" /\ project = NoEditor /\ project' = e
        /\ editors' = [editors EXCEPT ![e] = edit]
        /\ UNCHANGED <<dataKey, stored, inserted, eligible, agents, offered>>
    BY <1>6 DEF RotateDataKey
  <2>2. edit \in Editor /\ edit.op = "rotating" /\ edit.seen = stored
    <3>1. dataKey + 1 \in Nat /\ stored \in Credentials \cup {NoCredential}
      BY <1>1
    <3>2. NoEdit \in Editor
      BY NoCredentialOK
    <3> DEFINE k == dataKey + 1
    <3>3. k \in Nat
      BY <3>1
    <3> HIDE DEF k
    <3>4. [NoEdit EXCEPT !.op = "rotating", !.key = k, !.seen = stored] \in Editor
      BY <3>1, <3>2, <3>3 DEF Editor
    <3> QED BY <3>4, <3>2 DEF k, Editor
  <2>3. EditOK(edit, stored, dataKey)
    BY <1>2, <2>2 DEF EditOK
  <2> HIDE DEF edit
  <2> QED BY <2>1, <2>2, <2>3, EditorReads
<1>7. CASE CommitRotateDataKey(e)
  <2>1. /\ q.op = "rotating" /\ Unlocks(e) /\ Ended(e) /\ UNCHANGED <<inserted, eligible, agents>>
        /\ offered' = Offering(stored') /\ dataKey' = q.key
        /\ stored' = IF q.seen = NoCredential THEN stored
                     ELSE [stored EXCEPT !.secret = q.seen.secret, !.key = q.key, !.version = q.key]
        /\ q.seen = NoCredential \/ stored.id = q.seen.id
    BY <1>7 DEF CommitRotateDataKey
  <2>2. q.key \in Nat
    BY <1>1 DEF Editor
  <2>3. RowOK(stored')
    <3>1. CASE q.seen = NoCredential
      BY <1>1, <2>1, <3>1
    <3>2. CASE q.seen # NoCredential
      <4>1. stored = q.seen /\ stored \in Credentials /\ stored.id # 0
        BY <1>1, <2>1, <3>2, NoCredentialOK DEF EditOK
      <4> QED BY <2>1, <2>2, <3>2, <4>1 DEF RowOK, Credentials
    <3> QED BY <3>1, <3>2
  <2> QED BY <1>1, <2>1, <2>2, <2>3, EditorEnds
<1>8. CASE DeleteCredential(e)
  <2> DEFINE edit == [NoEdit EXCEPT !.op = "delete", !.seen = stored]
  <2>1. /\ q.op = "none" /\ project' = project
        /\ editors' = [editors EXCEPT ![e] = edit]
        /\ UNCHANGED <<dataKey, stored, inserted, eligible, agents, offered>>
    BY <1>8 DEF DeleteCredential
  <2>2. edit \in Editor /\ edit.op = "delete" /\ edit.seen = stored
    BY <1>1 DEF NoEdit, Editor
  <2>3. EditOK(edit, stored, dataKey)
    BY <1>2, <2>2 DEF EditOK
  <2>4. project' # e
    BY <1>1, <2>1
  <2> HIDE DEF edit
  <2> QED BY <2>1, <2>2, <2>3, <2>4, EditorReads
<1>9. CASE CommitDeleteCredential(e)
  <2>1. /\ q.op = "delete" /\ Ended(e) /\ project' = project
        /\ stored' \in {stored, NoCredential} /\ UNCHANGED <<dataKey, inserted, eligible, agents, offered>>
    BY <1>9 DEF CommitDeleteCredential
  <2>2. RowOK(stored')
    BY <1>1, <2>1 DEF RowOK
  <2> QED BY <1>1, <2>1, <2>2, EditorEnds
<1>10. CASE EditFails(e)
  BY <1>1, <1>10, EditorEnds DEF EditFails
<1> QED BY <1>3, <1>4, <1>5, <1>6, <1>7, <1>8, <1>9, <1>10 DEF Edits

(* One request of an agent moves on. *)
LEMMA AgentMoves ==
  ASSUME ProxyInv, NEW a \in Agents, NEW agent \in Agent, agents' = [agents EXCEPT ![a] = agent],
         NEW offers \in SUBSET Secrets, offered' = [offered EXCEPT ![a] = offers],
         AgentOK(agent, offers, stored), Silent
  PROVE  ProxyInv'
<1>1. /\ agents' \in [Agents -> Agent] /\ offered' \in [Agents -> SUBSET Secrets]
      /\ agents'[a] = agent /\ offered'[a] = offers
      /\ \A b \in Agents \ {a} : agents'[b] = agents[b] /\ offered'[b] = offered[b]
  BY DEF ProxyInv, ProxyTypeOK
<1>2. \A b \in Agents : AgentOK(agents'[b], offered'[b], stored)
  BY <1>1 DEF ProxyInv
<1>3. ProxyTypeOK'
  BY <1>1 DEF ProxyInv, ProxyTypeOK, Silent
<1> QED BY <1>2, <1>3 DEF ProxyInv, Silent

LEMMA ProxiesKeep ==
  ASSUME ProxyInv, NEW a \in Agents, Proxies(a)
  PROVE  ProxyInv'
<1> DEFINE agent == agents[a]
<1>1. /\ agent \in Agent /\ offered[a] \in SUBSET Secrets /\ AgentOK(agent, offered[a], stored)
      /\ agents \in [Agents -> Agent] /\ offered \in [Agents -> SUBSET Secrets]
      /\ stored = NoCredential \/ (stored \in Credentials /\ stored.id # 0 /\ stored.key = stored.version)
  BY DEF ProxyInv, ProxyTypeOK, RowOK
<1>2. offered = [offered EXCEPT ![a] = offered[a]]
  BY <1>1
<1>3. ASSUME NEW phase \in {"authenticated", "admitted", "forwarded"}, Goes(a, phase),
             Silent, UNCHANGED offered,
             phase = "admitted" => agent.phase = "asking",
             phase = "authenticated" => agent.phase = "idle"
      PROVE  ProxyInv'
  <2> DEFINE next == [agent EXCEPT !.phase = phase]
  <2>1. next \in Agent /\ next.phase = phase /\ next.secret = agent.secret
    BY <1>1 DEF Agent
  <2>2. AgentOK(next, offered[a], stored)
    BY <1>1, <1>3, <2>1 DEF AgentOK
  <2>3. agents' = [agents EXCEPT ![a] = next]
    BY <1>1, <1>3 DEF Goes
  <2> HIDE DEF next
  <2> QED BY <1>1, <1>2, <1>3, <2>1, <2>2, <2>3, AgentMoves
<1>4. CASE Authenticate(a)
  BY <1>3, <1>4 DEF Authenticate
<1>5. CASE AskControlPlane(a)
  <2> DEFINE next == [agent EXCEPT !.phase = "asking"]
             offers == IF IsStored THEN {stored.secret} ELSE {}
  <2>1. next \in Agent /\ next.phase = "asking" /\ next.secret = agent.secret
    BY <1>1 DEF Agent
  <2>2. agent.secret = NothingStored
    BY <1>1, <1>5 DEF AskControlPlane, AgentOK
  <2>3. offers \in SUBSET Secrets /\ (stored.id # 0 => stored.secret \in offers)
    BY <1>1, NoCredentialOK DEF IsStored, Credentials
  <2>4. /\ agents' = [agents EXCEPT ![a] = next] /\ offered' = [offered EXCEPT ![a] = offers]
        /\ Silent
    BY <1>1, <1>5 DEF AskControlPlane, Goes
  <2> HIDE DEF next, offers
  <2>5. AgentOK(next, offers, stored)
    BY <2>1, <2>2, <2>3 DEF AgentOK
  <2> QED BY <2>1, <2>3, <2>4, <2>5, AgentMoves
<1>6. CASE AdmitIdentity(a)
  BY <1>3, <1>6 DEF AdmitIdentity
<1>7. CASE ResolveCredential(a)
  <2> DEFINE next == [phase |-> "answered", secret |-> Decrypted]
  <2>1. /\ agent.phase = "admitted" /\ stored.id # 0 /\ Silent /\ UNCHANGED offered
        /\ agents' = [agents EXCEPT ![a] = next]
    BY <1>7 DEF ResolveCredential, IsStored
  <2>2. Decrypted = stored.secret /\ stored.secret \in Secrets
    BY <1>1, <2>1, NoCredentialOK DEF Decrypted, Credentials
  <2>3. next \in Agent /\ next.phase = "answered" /\ next.secret = stored.secret
    BY <2>2 DEF Agent
  <2> HIDE DEF next
  <2>4. AgentOK(next, offered[a], stored)
    BY <1>1, <2>1, <2>3 DEF AgentOK
  <2> QED BY <1>1, <1>2, <2>1, <2>3, <2>4, AgentMoves
<1>8. CASE ProxyRefuses(a)
  <2> DEFINE next == [phase |-> "refused", secret |-> NothingStored]
  <2>1. next \in Agent /\ AgentOK(next, offered[a], stored)
    BY DEF Agent, AgentOK
  <2>2. Silent /\ UNCHANGED offered /\ agents' = [agents EXCEPT ![a] = next]
    BY <1>8 DEF ProxyRefuses
  <2> HIDE DEF next
  <2> QED BY <1>1, <1>2, <2>1, <2>2, AgentMoves
<1>9. CASE Forward(a)
  BY <1>3, <1>9 DEF Forward
<1>10. CASE AgentDone(a)
  <2>1. agents' = [agents EXCEPT ![a] = NoAgent] /\ offered' = [offered EXCEPT ![a] = {}] /\ Silent
    BY <1>10 DEF AgentDone
  <2> QED BY <2>1, NoAgentOK, AgentMoves
<1> QED BY <1>4, <1>5, <1>6, <1>7, <1>8, <1>9, <1>10 DEF Proxies

LEMMA ProxyNextKeeps ==
  ASSUME ProxyInv, [ProxyNext]_proxyVars
  PROVE  ProxyInv'
<1>1. CASE UNCHANGED proxyVars
  BY <1>1 DEF proxyVars, ProxyInv, ProxyTypeOK
<1>2. CASE IdentityChanges
  <2>1. eligible' \in BOOLEAN
    BY <1>2 DEF IdentityChanges, ProxyInv, ProxyTypeOK
  <2> QED BY <1>2, <2>1 DEF IdentityChanges, ProxyInv, ProxyTypeOK
<1> QED BY <1>1, <1>2, EditsKeep, ProxiesKeep DEF ProxyNext

LEMMA ProxyInvariant == ProxySpec => []ProxyInv
<1>1. ProxyInit => ProxyInv
  BY NoCredentialOK, NoAgentOK DEF ProxyInit, ProxyInv, ProxyTypeOK, RowOK
<1> QED BY <1>1, ProxyNextKeeps, PTL DEF ProxySpec

(* The rows of the data keys and of provider_credentials, and what requests   *)
(* have read of them; who holds the project's row is between the lock and its  *)
(* commit.                                                                   *)
THEOREM ProxyTypeCorrect == ProxySpec => []ProxyTypeOK
<1>1. ProxyInv => ProxyTypeOK
  BY DEF ProxyInv
<1> QED BY <1>1, ProxyInvariant, PTL

(* What the proxy gets for a request can be decrypted and was stored at some   *)
(* moment since it asked: uploads and rotations exclude each other by the row  *)
(* of the project, and a deletion leaves nothing to write to.                  *)
THEOREM ProxyGetsCurrentSecret == ProxySpec => []ProxySecretIsCurrent
<1>1. ProxyInv => ProxySecretIsCurrent
  BY DEF ProxyInv, AgentOK, ProxySecretIsCurrent
<1> QED BY <1>1, ProxyInvariant, PTL

-----------------------------------------------------------------------------
(* The roles.                                                                *)

LEMMA ListAppended ==
  ASSUME NEW list \in WrittenList, written \in Seq(WrittenList),
         written' = Append(written, list)
  PROVE  /\ written' \in Seq(WrittenList) /\ Len(written) \in Nat
         /\ DOMAIN written = 1 .. Len(written) /\ DOMAIN written' = 1 .. Len(written) + 1
         /\ \A i \in 1 .. Len(written) : written'[i] = written[i]
         /\ written'[Len(written) + 1] = list
<1>1. /\ written' \in Seq(WrittenList) /\ Len(written') = Len(written) + 1
      /\ Len(written) \in Nat
      /\ \A i \in 1 .. Len(written) : written'[i] = written[i]
      /\ written'[Len(written) + 1] = list
  BY AppendProperties
<1>2. DOMAIN written' = 1 .. Len(written') /\ DOMAIN written = 1 .. Len(written)
  BY <1>1
<1> QED BY <1>1, <1>2

(* The lists of a role; one that began after the i-th was written; the last. *)
ListsIn(lists, r) == {i \in DOMAIN lists : r \in lists[i].roles}
ReplacedIn(lists, r, i) == \E j \in ListsIn(lists, r) : lists[j].began >= i
IsLastIn(lists, r, i) == i \in ListsIn(lists, r) /\ \A j \in ListsIn(lists, r) : j =< i

(* What is kept of a role is written for it and was not replaced; the last    *)
(* list is among it.                                                         *)
RoleKept(lists, r, is) ==
  /\ \A i \in is : i \in ListsIn(lists, r) /\ ~ReplacedIn(lists, r, i)
  /\ \E i \in is : IsLastIn(lists, r, i)

(* An update in progress has found all that is kept and was written before. *)
FoundOK(q, lists, keeps, roles) ==
  q # NoUpdate =>
    /\ q.began =< Len(lists)
    /\ q.role \in roles => \A i \in keeps[q.role] : i =< q.began => i \in q.found
    /\ \A i \in q.found : i =< q.began

ListsBegan(lists) == \A i \in DOMAIN lists : lists[i].began < i

RolesInv ==
  /\ AccessTypeOK
  /\ ListsBegan(written)
  /\ \A r \in existing : RoleKept(written, r, kept[r])
  /\ \A c \in Administrators : FoundOK(administrators[c], written, kept, existing)

LEMMA NoUpdateIsNone == NoUpdate \notin Update
<1> SUFFICES ASSUME NoUpdate \in Update PROVE FALSE
  OBVIOUS
<1>1. DOMAIN NoUpdate = {"role"}
  BY DEF NoUpdate
<1>2. "list" \in DOMAIN NoUpdate
  BY DEF Update
<1> QED BY <1>1, <1>2

(* A list is added that began when "began" lists were there, and replaces all  *)
(* that was kept of them.                                                    *)
LEMMA ListAdded ==
  ASSUME NEW lists \in Seq(WrittenList), NEW list \in WrittenList, NEW more,
         Len(lists) \in Nat, DOMAIN lists = 1 .. Len(lists),
         DOMAIN more = 1 .. Len(lists) + 1, more[Len(lists) + 1] = list,
         \A i \in 1 .. Len(lists) : more[i] = lists[i]
  PROVE  /\ ListsBegan(lists) /\ list.began =< Len(lists) => ListsBegan(more)
         /\ \A r, is : r \notin list.roles /\ RoleKept(lists, r, is) => RoleKept(more, r, is)
         /\ \A r, is : /\ r \in list.roles
                       /\ \A i \in is : /\ i \in ListsIn(lists, r) /\ ~ReplacedIn(lists, r, i)
                                        /\ ~(list.began >= i)
                       /\ ListsBegan(lists) /\ list.began =< Len(lists)
                       => RoleKept(more, r, is \cup {Len(lists) + 1})
<1> DEFINE n == Len(lists)
<1>1. n \in Nat /\ list.began \in Nat /\ \A i \in 1 .. n : lists[i].began \in Nat
  <2>1. \A i \in 1 .. n : lists[i] \in WrittenList
    BY ElementOfSeq
  <2> QED BY <2>1 DEF WrittenList
<1>2. ListsBegan(lists) /\ list.began =< n => ListsBegan(more)
  BY <1>1 DEF ListsBegan
<1>3. ASSUME NEW r, r \notin list.roles PROVE ListsIn(more, r) = ListsIn(lists, r)
  BY <1>1, <1>3 DEF ListsIn
<1>4. \A r : \A i \in ListsIn(lists, r) : more[i] = lists[i] /\ i \in 1 .. n
  BY DEF ListsIn
<1>5. ASSUME NEW r, NEW is, r \notin list.roles, RoleKept(lists, r, is)
      PROVE  RoleKept(more, r, is)
  BY <1>3, <1>4, <1>5 DEF RoleKept, ReplacedIn, IsLastIn
<1>6. ASSUME NEW r, NEW is, r \in list.roles,
             \A i \in is : i \in ListsIn(lists, r) /\ ~ReplacedIn(lists, r, i) /\ ~(list.began >= i),
             ListsBegan(lists), list.began =< n
      PROVE  RoleKept(more, r, is \cup {n + 1})
  <2>1. ListsIn(more, r) = ListsIn(lists, r) \cup {n + 1}
    BY <1>1, <1>6 DEF ListsIn
  <2>2. \A i \in is : i \in ListsIn(more, r) /\ ~ReplacedIn(more, r, i)
    BY <1>4, <1>6, <2>1 DEF ReplacedIn
  <2>3. \A j \in ListsIn(more, r) : more[j].began < n + 1 /\ j =< n + 1
    BY <1>1, <1>2, <1>6 DEF ListsIn, ListsBegan
  <2>4. \A j \in ListsIn(more, r) : more[j].began \in Nat
    BY <1>1 DEF ListsIn
  <2>5. ~ReplacedIn(more, r, n + 1)
    BY <1>1, <2>3, <2>4 DEF ReplacedIn
  <2>6. IsLastIn(more, r, n + 1)
    BY <2>1, <2>3 DEF IsLastIn
  <2> QED BY <2>1, <2>2, <2>5, <2>6 DEF RoleKept
<1> QED BY <1>2, <1>5, <1>6

LEMMA AccessBegins == AccessInit => RolesInv
<1> SUFFICES ASSUME AccessInit PROVE RolesInv
  OBVIOUS
<1>1. PICK list \in RoleLists : written = <<ListFor(existing, 0, list)>>
  BY DEF AccessInit
<1> DEFINE first == ListFor(existing, 0, list)
<1>2. /\ first \in WrittenList /\ first.began = 0 /\ first.roles = existing
      /\ written = <<first>> /\ existing \subseteq AccessRoles
  BY <1>1, RoleListsAssumption DEF AccessInit, ListFor, WrittenList
<1> HIDE DEF first
<1>3. written \in Seq(WrittenList) /\ DOMAIN written = 1 .. 1 /\ written[1] = first
  BY <1>2
<1>4. /\ kept = [r \in AccessRoles |-> IF r \in existing THEN {1} ELSE {}]
      /\ administrators = [c \in Administrators |-> NoUpdate]
      /\ assignments \subseteq existing \X Subjects /\ updates = 0
  BY DEF AccessInit
<1>5. AccessTypeOK
  BY <1>2, <1>3, <1>4 DEF AccessTypeOK
<1>6. \A r \in existing : RoleKept(written, r, kept[r])
  <2> SUFFICES ASSUME NEW r \in existing PROVE RoleKept(written, r, kept[r])
    OBVIOUS
  <2>1. ListsIn(written, r) = {1} /\ kept[r] = {1}
    BY <1>2, <1>3, <1>4 DEF ListsIn
  <2>2. ~ReplacedIn(written, r, 1) /\ IsLastIn(written, r, 1)
    BY <1>2, <1>3, <2>1 DEF ReplacedIn, IsLastIn
  <2> QED BY <2>1, <2>2 DEF RoleKept
<1>7. ListsBegan(written)
  BY <1>2, <1>3 DEF ListsBegan
<1> QED BY <1>4, <1>5, <1>6, <1>7 DEF RolesInv, FoundOK

LEMMA CreateRoleKeeps ==
  ASSUME RolesInv, CreateRole
  PROVE  RolesInv'
<1>1. PICK r \in AccessRoles \ existing, list \in RoleLists :
        /\ \A c \in Administrators : administrators[c].role # r
        /\ existing' = existing \cup {r}
        /\ written' = Append(written, ListFor({r}, Len(written), list))
        /\ kept' = [kept EXCEPT ![r] = {Len(written) + 1}]
  BY DEF CreateRole
<1>2. /\ updates' = updates + 1 /\ UNCHANGED <<assignments, administrators>>
  BY DEF CreateRole, Counted
<1>3. /\ AccessTypeOK /\ ListsBegan(written)
      /\ \A x \in existing : RoleKept(written, x, kept[x])
      /\ \A c \in Administrators : FoundOK(administrators[c], written, kept, existing)
  BY DEF RolesInv
<1> DEFINE item == ListFor({r}, Len(written), list)
           n == Len(written)
<1>4. written \in Seq(WrittenList) /\ n \in Nat
  BY <1>3 DEF AccessTypeOK
<1>5. item \in WrittenList /\ item.roles = {r} /\ item.began = n
  BY <1>4, RoleListsAssumption DEF ListFor, WrittenList
<1> HIDE DEF item
<1>6. /\ written' \in Seq(WrittenList) /\ DOMAIN written = 1 .. n /\ DOMAIN written' = 1 .. n + 1
      /\ \A i \in 1 .. n : written'[i] = written[i]
      /\ written'[n + 1] = item
  <2>1. written' = Append(written, item)
    BY <1>1 DEF item
  <2> QED BY <1>4, <1>5, <2>1, ListAppended
<1>7. /\ ListsBegan(written')
      /\ \A x, is : x \notin item.roles /\ RoleKept(written, x, is) => RoleKept(written', x, is)
      /\ RoleKept(written', r, {n + 1})
  <2> DEFINE none == {}
  <2>1. r \in item.roles /\ item.began =< n
        /\ \A i \in none : /\ i \in ListsIn(written, r) /\ ~ReplacedIn(written, r, i)
                           /\ ~(item.began >= i)
    BY <1>4, <1>5
  <2> HIDE DEF none
  <2>2. /\ \A x, is : x \notin item.roles /\ RoleKept(written, x, is) => RoleKept(written', x, is)
        /\ RoleKept(written', r, none \cup {n + 1})
        /\ ListsBegan(written')
    BY <1>3, <1>4, <1>5, <1>6, <2>1, ListAdded
  <2>3. none \cup {n + 1} = {n + 1}
    BY DEF none
  <2> QED BY <2>2, <2>3
<1>8. kept \in [AccessRoles -> SUBSET (1 .. n)] /\ kept' \in [AccessRoles -> SUBSET (1 .. n + 1)]
  BY <1>1, <1>3, <1>4, <1>6 DEF AccessTypeOK
<1>9. kept'[r] = {n + 1} /\ \A x \in AccessRoles \ {r} : kept'[x] = kept[x]
  BY <1>1, <1>8
<1>10. AccessTypeOK'
  BY <1>1, <1>2, <1>3, <1>6, <1>8, <1>9 DEF AccessTypeOK
<1>11. \A x \in existing' : RoleKept(written', x, kept'[x])
  BY <1>1, <1>3, <1>5, <1>7, <1>9 DEF AccessTypeOK
<1>12. \A c \in Administrators : FoundOK(administrators'[c], written', kept', existing')
  <2> SUFFICES ASSUME NEW c \in Administrators, administrators[c] # NoUpdate
               PROVE  FoundOK(administrators[c], written', kept', existing')
    BY <1>2 DEF FoundOK
  <2>1. FoundOK(administrators[c], written, kept, existing) /\ administrators[c] \in Update
    BY <1>3 DEF AccessTypeOK
  <2>2. Len(written') = n + 1 /\ administrators[c].role # r
        /\ administrators[c].role \in AccessRoles /\ administrators[c].began \in Nat
    BY <1>1, <1>4, <1>6, <2>1 DEF Update
  <2> QED BY <1>1, <1>4, <1>9, <2>1, <2>2 DEF FoundOK
<1> QED BY <1>7, <1>10, <1>11, <1>12 DEF RolesInv

LEMMA UpdateRoleKeeps ==
  ASSUME RolesInv, NEW c \in Administrators, UpdateRole(c)
  PROVE  RolesInv'
<1>1. PICK r \in existing, list \in RoleLists :
        administrators' = [administrators EXCEPT ![c] =
          [role |-> r, list |-> list, found |-> kept[r], began |-> Len(written)]]
  BY DEF UpdateRole
<1>2. updates' = updates + 1 /\ UNCHANGED <<written, kept, existing, assignments>>
  BY DEF UpdateRole, Counted
<1> DEFINE q == [role |-> r, list |-> list, found |-> kept[r], began |-> Len(written)]
<1>3. /\ r \in AccessRoles /\ kept[r] \subseteq 1 .. Len(written) /\ Len(written) \in Nat
  BY DEF RolesInv, AccessTypeOK
<1>4. q \in Update /\ FoundOK(q, written, kept, existing)
  BY <1>3, RoleListsAssumption DEF Update, FoundOK
<1>5. administrators' = [administrators EXCEPT ![c] = q]
  BY <1>1
<1> HIDE DEF q
<1>6. AccessTypeOK'
  BY <1>2, <1>4, <1>5 DEF RolesInv, AccessTypeOK
<1>7. \A e \in Administrators : FoundOK(administrators'[e], written, kept, existing)
  BY <1>4, <1>5 DEF RolesInv, AccessTypeOK
<1> QED BY <1>2, <1>6, <1>7 DEF RolesInv

LEMMA CommitUpdateRoleKeeps ==
  ASSUME RolesInv, NEW c \in Administrators, CommitUpdateRole(c)
  PROVE  RolesInv'
<1> DEFINE q == administrators[c]
           n == Len(written)
<1>1. /\ AccessTypeOK /\ ListsBegan(written)
      /\ \A x \in existing : RoleKept(written, x, kept[x])
      /\ \A e \in Administrators : FoundOK(administrators[e], written, kept, existing)
  BY DEF RolesInv
<1>2. /\ q # NoUpdate /\ q \in Update /\ FoundOK(q, written, kept, existing)
      /\ administrators' = [administrators EXCEPT ![c] = NoUpdate]
      /\ UNCHANGED <<existing, assignments, updates>>
  BY <1>1 DEF CommitUpdateRole, AccessTypeOK
<1>3. administrators' \in [Administrators -> Update \cup {NoUpdate}]
  BY <1>1, <1>2 DEF AccessTypeOK
<1>4. CASE q.role \notin existing
  <2>1. UNCHANGED <<written, kept>>
    BY <1>4 DEF CommitUpdateRole
  <2>2. \A e \in Administrators : FoundOK(administrators'[e], written, kept, existing)
    BY <1>1, <1>2 DEF AccessTypeOK, FoundOK
  <2>3. AccessTypeOK'
    BY <1>1, <1>2, <1>3, <2>1 DEF AccessTypeOK
  <2> QED BY <1>1, <1>2, <2>1, <2>2, <2>3 DEF RolesInv
<1>5. CASE q.role \in existing
  <2> DEFINE r == q.role
             item == ListFor({r}, q.began, q.list)
             rest == kept[r] \ q.found
  <2>1. /\ written' = Append(written, item)
        /\ kept' = [kept EXCEPT ![r] = rest \cup {n + 1}]
    BY <1>5 DEF CommitUpdateRole
  <2>2. /\ r \in AccessRoles /\ q.began \in Nat /\ q.list \in SUBSET Permission
        /\ q.began =< n /\ (\A i \in kept[r] : i =< q.began => i \in q.found)
    BY <1>2, <1>5 DEF Update, FoundOK
  <2>3. item \in WrittenList /\ item.roles = {r} /\ item.began = q.began
    BY <2>2 DEF ListFor, WrittenList
  <2>4. written \in Seq(WrittenList) /\ n \in Nat
    BY <1>1 DEF AccessTypeOK
  <2>5. rest \subseteq kept[r] /\ \A i \in rest : ~(i =< q.began)
    BY <2>2
  <2> HIDE DEF item, rest
  <2>6. /\ written' \in Seq(WrittenList) /\ DOMAIN written = 1 .. n /\ DOMAIN written' = 1 .. n + 1
        /\ \A i \in 1 .. n : written'[i] = written[i]
        /\ written'[n + 1] = item
    BY <2>1, <2>3, <2>4, ListAppended
  <2>7. \A i \in rest : i \in ListsIn(written, r) /\ ~ReplacedIn(written, r, i) /\ ~(item.began >= i)
    <3>1. RoleKept(written, r, kept[r])
      BY <1>1, <1>5
    <3>2. \A i \in rest : i \in 1 .. n
      BY <2>5, <2>6, <3>1 DEF RoleKept, ListsIn
    <3> QED BY <2>2, <2>3, <2>4, <2>5, <3>1, <3>2 DEF RoleKept
  <2>8. /\ ListsBegan(written')
        /\ \A x, is : x \notin item.roles /\ RoleKept(written, x, is) => RoleKept(written', x, is)
        /\ RoleKept(written', r, rest \cup {n + 1})
    <3>1. item.began =< n /\ r \in item.roles
      BY <2>2, <2>3
    <3> QED BY <1>1, <2>3, <2>4, <2>6, <2>7, <3>1, ListAdded
  <2>9. kept \in [AccessRoles -> SUBSET (1 .. n)] /\ kept' \in [AccessRoles -> SUBSET (1 .. n + 1)]
    <3>1. kept \in [AccessRoles -> SUBSET (1 .. n)]
      BY <1>1, <2>6 DEF AccessTypeOK
    <3>2. kept[r] \subseteq 1 .. n /\ 1 .. n \subseteq 1 .. n + 1 /\ n + 1 \in 1 .. n + 1
      BY <2>2, <2>4, <3>1
    <3> DEFINE set == rest \cup {n + 1}
               room == 1 .. n + 1
    <3>3. set \in SUBSET room
      BY <2>5, <3>2
    <3>4. kept \in [AccessRoles -> SUBSET room] /\ kept' = [kept EXCEPT ![r] = set]
      BY <2>1, <3>1, <3>2
    <3> HIDE DEF set, room
    <3>5. kept' \in [AccessRoles -> SUBSET room]
      BY <3>3, <3>4
    <3> QED BY <3>1, <3>5 DEF room
  <2>10. kept'[r] = rest \cup {n + 1} /\ \A x \in AccessRoles \ {r} : kept'[x] = kept[x]
    BY <2>1, <2>2, <2>9
  <2>11. AccessTypeOK'
    BY <1>1, <1>2, <1>3, <1>5, <2>6, <2>9, <2>10 DEF AccessTypeOK
  <2>12. \A x \in existing' : RoleKept(written', x, kept'[x])
    BY <1>1, <1>2, <2>3, <2>8, <2>10 DEF AccessTypeOK
  <2>13. \A e \in Administrators : FoundOK(administrators'[e], written', kept', existing')
    <3> SUFFICES ASSUME NEW e \in Administrators, administrators'[e] # NoUpdate
                 PROVE  FoundOK(administrators'[e], written', kept', existing')
      BY DEF FoundOK
    <3>1. administrators'[e] = administrators[e]
      BY <1>1, <1>2 DEF AccessTypeOK
    <3> DEFINE u == administrators[e]
    <3>2. u \in Update /\ FoundOK(u, written, kept, existing) /\ u # NoUpdate
      BY <1>1, <3>1 DEF AccessTypeOK
    <3>3. u.role \in AccessRoles /\ u.began \in Nat
      BY <3>2 DEF Update
    <3>4. Len(written') = n + 1
      BY <2>4, <2>6
    <3> HIDE DEF u
    <3>5. u.began =< Len(written') /\ \A i \in u.found : i =< u.began
      BY <2>4, <3>2, <3>3, <3>4 DEF FoundOK
    <3>6. \A i \in kept'[u.role] : i =< u.began => i \in kept[u.role]
      <4>1. ~(n + 1 =< u.began)
        BY <2>4, <3>2, <3>3 DEF FoundOK
      <4> QED BY <2>5, <2>10, <3>3, <4>1
    <3>7. FoundOK(u, written', kept', existing')
      BY <1>2, <3>2, <3>5, <3>6 DEF FoundOK
    <3> QED BY <3>1, <3>7 DEF u
  <2> QED BY <2>8, <2>11, <2>12, <2>13 DEF RolesInv
<1> QED BY <1>4, <1>5

LEMMA DeleteRoleKeeps ==
  ASSUME RolesInv, DeleteRole
  PROVE  RolesInv'
<1>1. PICK r \in existing : /\ existing' = existing \ {r} /\ kept' = [kept EXCEPT ![r] = {}]
                            /\ assignments' = {a \in assignments : a[1] # r}
  BY DEF DeleteRole
<1>2. updates' = updates + 1 /\ UNCHANGED <<written, administrators>>
  BY DEF DeleteRole, Counted
<1>3. kept' \in [AccessRoles -> SUBSET DOMAIN written] /\ kept'[r] = {}
      /\ \A x \in AccessRoles \ {r} : kept'[x] = kept[x]
  BY <1>1 DEF RolesInv, AccessTypeOK
<1>4. AccessTypeOK'
  BY <1>1, <1>2, <1>3 DEF RolesInv, AccessTypeOK
<1>5. \A x \in existing' : RoleKept(written, x, kept'[x])
  BY <1>1, <1>3 DEF RolesInv, AccessTypeOK
<1>6. \A c \in Administrators : FoundOK(administrators[c], written, kept', existing')
  BY <1>1, <1>3 DEF RolesInv, AccessTypeOK, FoundOK
<1> QED BY <1>2, <1>4, <1>5, <1>6 DEF RolesInv

LEMMA AccessNextKeeps ==
  ASSUME RolesInv, [AccessNext]_accessVars
  PROVE  RolesInv'
<1>1. CASE UNCHANGED accessVars
  BY <1>1 DEF accessVars, RolesInv, AccessTypeOK
<1>2. CASE CreateAssignment \/ DeleteAssignment
  <2>1. UNCHANGED <<written, kept, existing, administrators>> /\ updates' = updates + 1
    BY <1>2 DEF CreateAssignment, DeleteAssignment, Counted
  <2>2. assignments' \subseteq existing \X Subjects
    <3>1. assignments \subseteq existing \X Subjects
      BY DEF RolesInv, AccessTypeOK
    <3>2. CASE CreateAssignment
      <4>1. PICK r \in existing, s \in Subjects : assignments' = assignments \cup {<<r, s>>}
        BY <3>2 DEF CreateAssignment
      <4> QED BY <3>1, <4>1
    <3>3. CASE DeleteAssignment
      <4>1. PICK a \in assignments : assignments' = assignments \ {a}
        BY <3>3 DEF DeleteAssignment
      <4> QED BY <3>1, <4>1
    <3> QED BY <1>2, <3>2, <3>3
  <2>3. AccessTypeOK'
    BY <2>1, <2>2 DEF RolesInv, AccessTypeOK
  <2> QED BY <2>1, <2>3 DEF RolesInv
<1> QED BY <1>1, <1>2, CreateRoleKeeps, DeleteRoleKeeps, UpdateRoleKeeps, CommitUpdateRoleKeeps
        DEF AccessNext

LEMMA RolesInvariant == AccessSpec => []RolesInv
BY AccessBegins, AccessNextKeeps, PTL DEF AccessSpec

(* The rows of access_roles, their permissions and their assignments: a role  *)
(* that was deleted keeps none, whatever updates of it are in progress.       *)
THEOREM AccessTypeCorrect == AccessSpec => []AccessTypeOK
<1>1. RolesInv => AccessTypeOK
  BY DEF RolesInv
<1> QED BY <1>1, RolesInvariant, PTL

LEMMA KeptFollow ==
  ASSUME RolesInv, NEW r \in existing
  PROVE  /\ kept[r] \subseteq {i \in ListsOf(r) : ~Replaced(r, i)}
         /\ LastOf(r) \in kept[r]
<1>1. RoleKept(written, r, kept[r]) /\ written \in Seq(WrittenList) /\ DOMAIN written \subseteq Nat
  BY DEF RolesInv, AccessTypeOK
<1>2. ListsOf(r) = ListsIn(written, r) /\ \A i : Replaced(r, i) <=> ReplacedIn(written, r, i)
  BY DEF ListsOf, ListsIn, Replaced, ReplacedIn
<1>3. kept[r] \subseteq {i \in ListsOf(r) : ~Replaced(r, i)}
  BY <1>1, <1>2 DEF RoleKept
<1>4. PICK i \in kept[r] : i \in ListsOf(r) /\ \A j \in ListsOf(r) : j =< i
  BY <1>1, <1>2 DEF RoleKept, IsLastIn
<1>5. LastOf(r) \in ListsOf(r) /\ \A j \in ListsOf(r) : j =< LastOf(r)
  BY <1>4 DEF LastOf
<1>6. LastOf(r) = i
  BY <1>1, <1>4, <1>5 DEF ListsOf
<1> QED BY <1>3, <1>4, <1>6

(* What the permissions of some roles say, list by list. *)
LEMMA SaidByLists ==
  ASSUME NEW s, NEW effect, NEW action, NEW environment, NEW path
  PROVE  Says(UNION {PermissionsOf(r) : r \in RolesOf(s)}, effect, action, environment, path)
         <=> \E r \in RolesOf(s) : \E i \in kept[r] :
               Says(written[i].list, effect, action, environment, path)
BY DEF Says, PermissionsOf

LEMMA DecisionsFollow == RolesInv => DecisionsFollowUpdates
<1> SUFFICES ASSUME RolesInv, NEW s \in Subjects, NEW action \in Actions,
                    NEW environment \in Environments \cup {Unset}, NEW path \in Paths \cup {Unset}
             PROVE  LET Said(r, i, effect) == Says(written[i].list, effect, action, environment, path)
                        Unreplaced(r) == {i \in ListsOf(r) : ~Replaced(r, i)}
                    IN  /\ Evaluated(s, action, environment, path) =>
                             /\ \E r \in RolesOf(s) : \E i \in Unreplaced(r) : Said(r, i, "allow")
                             /\ \A r \in RolesOf(s) : ~Said(r, LastOf(r), "deny")
                        /\ /\ \E r \in RolesOf(s) : Said(r, LastOf(r), "allow")
                           /\ \A r \in RolesOf(s) : \A i \in Unreplaced(r) : ~Said(r, i, "deny")
                           => Evaluated(s, action, environment, path)
  BY DEF DecisionsFollowUpdates
<1> DEFINE Said(r, i, effect) == Says(written[i].list, effect, action, environment, path)
           Unreplaced(r) == {i \in ListsOf(r) : ~Replaced(r, i)}
           Some(effect) == \E r \in RolesOf(s) : \E i \in kept[r] : Said(r, i, effect)
<1>1. \A r \in RolesOf(s) : kept[r] \subseteq Unreplaced(r) /\ LastOf(r) \in kept[r]
  BY KeptFollow DEF RolesOf
<1>2. Evaluated(s, action, environment, path) <=> Some("allow") /\ ~Some("deny")
  BY SaidByLists DEF Evaluated
<1> HIDE DEF Said, Unreplaced
<1>3. Evaluated(s, action, environment, path) =>
        /\ \E r \in RolesOf(s) : \E i \in Unreplaced(r) : Said(r, i, "allow")
        /\ \A r \in RolesOf(s) : ~Said(r, LastOf(r), "deny")
  BY <1>1, <1>2
<1>4. /\ \E r \in RolesOf(s) : Said(r, LastOf(r), "allow")
      /\ \A r \in RolesOf(s) : \A i \in Unreplaced(r) : ~Said(r, i, "deny")
      => Evaluated(s, action, environment, path)
  BY <1>1, <1>2
<1> QED BY <1>3, <1>4 DEF Said, Unreplaced

(* However many updates of roles overlap, and whatever roles are created,     *)
(* assigned and deleted meanwhile: the evaluation allows nothing that no       *)
(* list still in force allows and nothing that a last list denies, and it      *)
(* allows what a last list does and none in force denies.                      *)
THEOREM DecisionsFollowUpdatesHolds == AccessSpec => []DecisionsFollowUpdates
BY RolesInvariant, DecisionsFollow, PTL

-----------------------------------------------------------------------------
(* The redaction of a stream.                                                *)

(* What begins in a sequence and fits in it lies in it. *)
LEMMA StaysInside ==
  \A n, w \in Nat : \A j \in Nat \ {0} : \A k \in 1 .. w :
     j + w - 1 =< n => j + k - 1 \in 1 .. n
OBVIOUS

LEMMA CredentialHasLength == Length \in Nat /\ Length >= 1 /\ ProviderSecret \in Seq(Bytes)
BY CredentialAssumption, EmptySeq DEF Length

LEMMA MarkerHasLength == Marker \in Seq(Bytes) /\ Len(Marker) \in Nat /\ Len(Marker) >= 1
BY MarkerAssumption, EmptySeq

(* What the scan makes of the rest of the bytes, given what it makes of less. *)
Scan(f, bytes, i) ==
  IF i > Len(bytes) THEN <<>>
  ELSE IF i + Length - 1 =< Len(bytes) /\ SubSeq(bytes, i, i + Length - 1) = ProviderSecret
  THEN Marker \o f[i + Length]
  ELSE <<bytes[i]>> \o f[i + 1]

Scanned(bytes) == CHOOSE f : f = [i \in 1 .. Len(bytes) + Length |-> Scan(f, bytes, i)]

LEMMA RedactedIsScanned == \A bytes : Redacted(bytes) = Scanned(bytes)[1]
BY Zenon DEF Redacted, Scanned, Scan

LEMMA ScanLooksAhead ==
  ASSUME NEW s \in Seq(Bytes), NEW i \in 1 .. Len(s) + Length, NEW f, NEW g,
         \A j \in i + 1 .. Len(s) + Length : f[j] = g[j]
  PROVE  Scan(f, s, i) = Scan(g, s, i)
<1>1. Len(s) \in Nat /\ i \in Nat
  BY CredentialHasLength
<1>2. CASE i > Len(s)
  BY <1>2 DEF Scan
<1>3. CASE i =< Len(s)
  <2>1. f[i + 1] = g[i + 1] /\ f[i + Length] = g[i + Length]
    BY <1>1, <1>3, CredentialHasLength
  <2> QED BY <2>1 DEF Scan
<1> QED BY <1>1, <1>2, <1>3

LEMMA ScannedIs ==
  ASSUME NEW s \in Seq(Bytes)
  PROVE  Scanned(s) = [i \in 1 .. Len(s) + Length |-> Scan(Scanned(s), s, i)]
<1> DEFINE N == Len(s) + Length
           Until(f, n) == f = [i \in 1 .. N |-> IF i + n > N THEN Scan(f, s, i) ELSE <<>>]
           T == {n \in Nat : \E f : Until(f, n)}
<1>1. N \in Nat /\ Len(s) \in Nat
  BY CredentialHasLength
<1>2. 0 \in T
  <2>1. Until([i \in 1 .. N |-> <<>>], 0)
    BY <1>1
  <2> QED BY <2>1
<1>3. ASSUME NEW n \in Nat, n \in T PROVE n + 1 \in T
  <2>1. PICK f : Until(f, n)
    BY <1>3
  <2> DEFINE g == [i \in 1 .. N |-> IF i = N - n THEN Scan(f, s, i) ELSE f[i]]
  <2>2. ASSUME NEW i \in 1 .. N PROVE g[i] = IF i + (n + 1) > N THEN Scan(g, s, i) ELSE <<>>
    <3>1. f[i] = IF i + n > N THEN Scan(f, s, i) ELSE <<>>
      BY <2>1
    <3>2. i \in Nat
      BY <1>1
    <3>3. CASE i + (n + 1) > N
      <4>1. \A j \in i + 1 .. N : f[j] = g[j]
        BY <1>1, <3>2, <3>3
      <4> HIDE DEF g
      <4>2. Scan(f, s, i) = Scan(g, s, i)
        BY <4>1, ScanLooksAhead
      <4>3. g[i] = Scan(f, s, i)
        BY <1>1, <3>1, <3>2, <3>3 DEF g
      <4> QED BY <3>3, <4>2, <4>3
    <3>4. CASE ~(i + (n + 1) > N)
      BY <1>1, <3>1, <3>2, <3>4
    <3> QED BY <3>3, <3>4
  <2>3. g = [i \in 1 .. N |-> IF i + (n + 1) > N THEN Scan(g, s, i) ELSE <<>>]
    <3> DEFINE h == [i \in 1 .. N |-> IF i + (n + 1) > N THEN Scan(g, s, i) ELSE <<>>]
    <3>1. \A i \in 1 .. N : g[i] = h[i]
      BY <2>2
    <3>2. g = [i \in 1 .. N |-> g[i]] /\ h = [i \in 1 .. N |-> h[i]]
      OBVIOUS
    <3> HIDE DEF g, h
    <3>3. g = h
      BY <3>1, <3>2
    <3> QED BY <3>3 DEF h
  <2> HIDE DEF g
  <2>4. Until(g, n + 1)
    BY <2>3
  <2> HIDE DEF Until
  <2> QED BY <2>4
<1>4. N \in T
  <2> HIDE DEF T
  <2> QED BY <1>1, <1>2, <1>3, EveryNatural
<1>5. PICK f : Until(f, N)
  BY <1>4
<1>6. f = [i \in 1 .. N |-> Scan(f, s, i)]
  <2>1. \A i \in 1 .. N : i + N > N
    BY <1>1
  <2> QED BY <1>5, <2>1
<1>7. \E h : h = [i \in 1 .. Len(s) + Length |-> Scan(h, s, i)]
  BY <1>6
<1> QED BY <1>7, Zenon DEF Scanned

LEMMA ScannedAt ==
  ASSUME NEW s \in Seq(Bytes), NEW i \in 1 .. Len(s) + Length
  PROVE  Scanned(s)[i] = Scan(Scanned(s), s, i)
BY ScannedIs

(* Facts about what is to the right of a position, from right to left. *)
LEMMA FromRight ==
  ASSUME NEW N \in Nat, NEW T,
         \A i \in 1 .. N : (\A j \in i + 1 .. N : j \in T) => i \in T
  PROVE  1 .. N \subseteq T
<1> DEFINE U == {n \in Nat : \A i \in 1 .. N : i + n > N => i \in T}
<1>1. 0 \in U
  OBVIOUS
<1>2. ASSUME NEW n \in Nat, n \in U PROVE n + 1 \in U
  <2> SUFFICES ASSUME NEW i \in 1 .. N, i + (n + 1) > N PROVE i \in T
    OBVIOUS
  <2>1. \A j \in i + 1 .. N : j + n > N
    BY <2>1
  <2>2. \A j \in i + 1 .. N : j \in T
    BY <1>2, <2>1
  <2> QED BY <2>2
<1>3. N \in U
  <2> HIDE DEF U
  <2> QED BY <1>1, <1>2, EveryNatural
<1> QED BY <1>3

LEMMA ScannedType ==
  ASSUME NEW s \in Seq(Bytes)
  PROVE  \A i \in 1 .. Len(s) + Length : Scanned(s)[i] \in Seq(Bytes)
<1> DEFINE N == Len(s) + Length
           T == {i \in 1 .. N : Scanned(s)[i] \in Seq(Bytes)}
<1>1. N \in Nat /\ Len(s) \in Nat
  BY CredentialHasLength
<1>2. ASSUME NEW i \in 1 .. N, \A j \in i + 1 .. N : j \in T PROVE i \in T
  <2>1. Scanned(s)[i] = Scan(Scanned(s), s, i)
    BY ScannedAt
  <2>2. CASE i > Len(s)
    BY <2>1, <2>2, EmptySeq DEF Scan
  <2>3. CASE i =< Len(s)
    <3>1. i + 1 \in T /\ i + Length \in T
      BY <1>1, <1>2, <2>3, CredentialHasLength
    <3>2. s[i] \in Bytes
      BY <1>1, <2>3, ElementOfSeq
    <3>3. <<s[i]>> \in Seq(Bytes)
      BY <3>2
    <3>4. /\ Marker \o Scanned(s)[i + Length] \in Seq(Bytes)
          /\ <<s[i]>> \o Scanned(s)[i + 1] \in Seq(Bytes)
      BY <3>1, <3>3, MarkerHasLength, ConcatProperties
    <3>5. ~(i > Len(s))
      BY <1>1, <2>3
    <3>6. Scanned(s)[i] \in {Marker \o Scanned(s)[i + Length], <<s[i]>> \o Scanned(s)[i + 1]}
      BY <2>1, <3>5 DEF Scan
    <3> QED BY <3>4, <3>6
  <2> QED BY <1>1, <2>2, <2>3
<1>3. 1 .. N \subseteq T
  <2> HIDE DEF T, N
  <2> QED BY <1>1, <1>2, FromRight
<1> QED BY <1>3

(* A place of the shifted range, shifted back. *)
LEMMA ShiftBack ==
  ASSUME NEW d \in Nat, NEW i \in Nat, NEW l \in Nat, NEW k \in d + i .. d + i + l - 1
  PROVE  k - d \in i .. i + l - 1 /\ k = d + (k - d)
OBVIOUS

(* The scan of a part is that of the whole from there. *)
LEMMA ScannedShifts ==
  ASSUME NEW s \in Seq(Bytes), NEW t \in Seq(Bytes), NEW d \in Nat, Len(s) = d + Len(t),
         \A i \in 1 .. Len(t) : s[d + i] = t[i]
  PROVE  \A i \in 1 .. Len(t) + Length : Scanned(s)[d + i] = Scanned(t)[i]
<1> DEFINE N == Len(t) + Length
           T == {i \in 1 .. N : Scanned(s)[d + i] = Scanned(t)[i]}
<1>1. N \in Nat /\ Len(t) \in Nat
  BY CredentialHasLength
<1>2. ASSUME NEW i \in 1 .. N, \A j \in i + 1 .. N : j \in T PROVE i \in T
  <2>0. i \in Nat /\ d + i \in 1 .. Len(s) + Length
    BY <1>1, CredentialHasLength
  <2>1. Scanned(s)[d + i] = Scan(Scanned(s), s, d + i) /\ Scanned(t)[i] = Scan(Scanned(t), t, i)
    BY <2>0, ScannedAt
  <2>2. CASE i > Len(t)
    <3>1. d + i > Len(s)
      BY <1>1, <2>0, <2>2
    <3> QED BY <2>1, <2>2, <3>1 DEF Scan
  <2>3. CASE i =< Len(t)
    <3>1. i + 1 \in T /\ i + Length \in T
      BY <1>1, <1>2, <2>3, CredentialHasLength
    <3>2. Scanned(s)[d + i + 1] = Scanned(t)[i + 1] /\ Scanned(s)[d + i + Length] = Scanned(t)[i + Length]
      <4>1. d + i + 1 = d + (i + 1) /\ d + i + Length = d + (i + Length)
        BY <2>0, CredentialHasLength
      <4> QED BY <3>1, <4>1
    <3>3. s[d + i] = t[i]
      BY <2>0, <2>3
    <3>4. ~(d + i > Len(s)) /\ ~(i > Len(t))
      BY <1>1, <2>0, <2>3
    <3>5. d + i + Length - 1 =< Len(s) <=> i + Length - 1 =< Len(t)
      BY <1>1, <2>0, CredentialHasLength
    <3>6. CASE ~(i + Length - 1 =< Len(t))
      BY <2>1, <3>2, <3>3, <3>4, <3>5, <3>6 DEF Scan
    <3>7. CASE i + Length - 1 =< Len(t)
      <4> DEFINE a == SubSeq(s, d + i, d + i + Length - 1)
                 b == SubSeq(t, i, i + Length - 1)
      <4>1. \A k \in i .. i + Length - 1 : t[k] \in Bytes /\ s[d + k] = t[k]
        <5> SUFFICES ASSUME NEW k \in i .. i + Length - 1 PROVE t[k] \in Bytes /\ s[d + k] = t[k]
          OBVIOUS
        <5>1. k \in 1 .. Len(t)
          BY <2>0, <3>7, CredentialHasLength
        <5> QED BY <1>1, <2>0, <5>1, ElementOfSeq
      <4>2. b \in Seq(Bytes) /\ Len(b) = Length /\ \A k \in 1 .. Length : b[k] = t[i + k - 1]
        BY <1>1, <2>0, <4>1, CredentialHasLength, SubSeqProperties
      <4>3. \A k \in d + i .. d + i + Length - 1 : s[k] \in Bytes
        <5>1. ASSUME NEW k \in d + i .. d + i + Length - 1 PROVE s[k] \in Bytes
          <6>1. k - d \in i .. i + Length - 1 /\ k = d + (k - d)
            BY <2>0, CredentialHasLength, ShiftBack
          <6>2. t[k - d] \in Bytes /\ s[d + (k - d)] = t[k - d]
            BY <4>1, <6>1
          <6> QED BY <6>1, <6>2
        <5> QED BY <5>1
      <4>4. a \in Seq(Bytes) /\ Len(a) = Length /\ \A k \in 1 .. Length : a[k] = s[d + i + k - 1]
        BY <1>1, <2>0, <4>3, CredentialHasLength, SubSeqProperties
      <4>5. ASSUME NEW k \in 1 .. Length PROVE a[k] = b[k]
        <5>1. i + k - 1 \in i .. i + Length - 1 /\ d + i + k - 1 = d + (i + k - 1)
          BY <2>0, CredentialHasLength
        <5> HIDE DEF a, b
        <5> QED BY <4>1, <4>2, <4>4, <5>1
      <4> HIDE DEF a, b
      <4>6. a = b
        BY <4>2, <4>4, <4>5, SeqEqual
      <4> QED BY <2>1, <3>2, <3>3, <3>4, <3>5, <3>7, <4>6 DEF Scan, a, b
    <3> QED BY <3>6, <3>7
  <2> QED BY <1>1, <2>0, <2>2, <2>3
<1>3. 1 .. N \subseteq T
  <2> HIDE DEF T, N
  <2> QED BY <1>1, <1>2, FromRight
<1> QED BY <1>3

LEMMA FromShorter ==
  ASSUME NEW C,
         \A s \in Seq(Bytes) : (\A t \in Seq(Bytes) : Len(t) < Len(s) => t \in C) => s \in C
  PROVE  Seq(Bytes) \subseteq C
<1> DEFINE T == {n \in Nat : \A s \in Seq(Bytes) : Len(s) < n => s \in C}
<1>1. \A s \in Seq(Bytes) : Len(s) \in Nat
  BY LenProperties
<1>2. 0 \in T
  BY <1>1
<1>3. ASSUME NEW n \in Nat, n \in T PROVE n + 1 \in T
  <2> SUFFICES ASSUME NEW s \in Seq(Bytes), Len(s) < n + 1 PROVE s \in C
    OBVIOUS
  <2>1. ASSUME NEW t \in Seq(Bytes), Len(t) < Len(s) PROVE t \in C
    <3>1. Len(t) < n
      BY <1>1, <2>1
    <3> QED BY <1>3, <3>1
  <2> QED BY <2>1
<1>4. ASSUME NEW s \in Seq(Bytes) PROVE s \in C
  <2>1. Len(s) \in Nat /\ Len(s) + 1 \in Nat
    BY <1>1
  <2>2. Len(s) + 1 \in T
    <3> HIDE DEF T
    <3> QED BY <1>2, <1>3, <2>1, EveryNatural
  <2>3. Len(s) < Len(s) + 1
    BY <2>1
  <2> QED BY <2>2, <2>3
<1> QED BY <1>4

(* The credential lies in the bytes at a position. *)
At(s, i) == i + Length - 1 =< Len(s) /\ \A k \in 1 .. Length : s[i + k - 1] = ProviderSecret[k]

LEMMA AtIsFound ==
  ASSUME NEW s \in Seq(Bytes), NEW i \in Nat, i >= 1
  PROVE  At(s, i) <=> i + Length - 1 =< Len(s) /\ SubSeq(s, i, i + Length - 1) = ProviderSecret
<1>1. Len(s) \in Nat
  BY LenProperties
<1>2. CASE i + Length - 1 =< Len(s)
  <2> DEFINE a == SubSeq(s, i, i + Length - 1)
  <2>1. \A k \in i .. i + Length - 1 : s[k] \in Bytes
    BY <1>1, <1>2, CredentialHasLength, ElementOfSeq
  <2>2. a \in Seq(Bytes) /\ Len(a) = Length /\ \A k \in 1 .. Length : a[k] = s[i + k - 1]
    BY <2>1, CredentialHasLength, SubSeqProperties
  <2> HIDE DEF a
  <2>3. a = ProviderSecret <=> \A k \in 1 .. Length : a[k] = ProviderSecret[k]
    <3>1. Len(ProviderSecret) = Length
      BY DEF Length
    <3> QED BY <2>2, <3>1, CredentialHasLength, SeqEqual
  <2> QED BY <1>2, <2>2, <2>3 DEF At, a
<1> QED BY <1>2 DEF At

LEMMA RedactedType == \A s \in Seq(Bytes) : Redacted(s) \in Seq(Bytes)
<1> SUFFICES ASSUME NEW s \in Seq(Bytes) PROVE Redacted(s) \in Seq(Bytes)
  OBVIOUS
<1>1. 1 \in 1 .. Len(s) + Length
  BY CredentialHasLength, LenProperties
<1> QED BY <1>1, ScannedType, RedactedIsScanned

LEMMA RedactedOfNone == Redacted(<<>>) = <<>>
<1>1. <<>> \in Seq(Bytes) /\ Len(<<>>) = 0
  BY EmptySeq
<1>2. 1 \in 1 .. Len(<<>>) + Length
  BY <1>1, CredentialHasLength
<1>3. Scanned(<<>>)[1] = Scan(Scanned(<<>>), <<>>, 1)
  BY <1>1, <1>2, ScannedAt
<1> QED BY <1>1, <1>3, RedactedIsScanned DEF Scan

LEMMA RedactedOfFound ==
  ASSUME NEW s \in Seq(Bytes), NEW t \in Seq(Bytes), s = ProviderSecret \o t
  PROVE  Redacted(s) = Marker \o Redacted(t)
<1>1. /\ Len(s) = Length + Len(t) /\ Len(t) \in Nat
      /\ \A i \in 1 .. Length + Len(t) :
           s[i] = IF i <= Length THEN ProviderSecret[i] ELSE t[i - Length]
  BY CredentialHasLength, ConcatProperties, LenProperties DEF Length
<1>2. 1 \in 1 .. Len(s) + Length /\ 1 \in 1 .. Len(t) + Length
  BY <1>1, CredentialHasLength
<1>3. At(s, 1)
  <2>1. \A k \in 1 .. Length : s[1 + k - 1] = ProviderSecret[k]
    <3>1. ASSUME NEW k \in 1 .. Length PROVE s[1 + k - 1] = ProviderSecret[k]
      <4>1. 1 + k - 1 = k /\ k \in 1 .. Length + Len(t) /\ k <= Length
        BY <1>1, CredentialHasLength
      <4> QED BY <1>1, <4>1
    <3> QED BY <3>1
  <2> QED BY <1>1, <2>1, CredentialHasLength DEF At
<1>4. 1 + Length - 1 =< Len(s) /\ SubSeq(s, 1, 1 + Length - 1) = ProviderSecret /\ ~(1 > Len(s))
  BY <1>1, <1>3, AtIsFound, CredentialHasLength
<1>5. Scanned(s)[1] = Marker \o Scanned(s)[1 + Length]
  <2>1. Scanned(s)[1] = Scan(Scanned(s), s, 1)
    BY <1>2, ScannedAt
  <2> QED BY <1>4, <2>1 DEF Scan
<1>6. Scanned(s)[Length + 1] = Scanned(t)[1]
  <2>1. \A i \in 1 .. Len(t) : s[Length + i] = t[i]
    <3>1. ASSUME NEW i \in 1 .. Len(t) PROVE s[Length + i] = t[i]
      <4> DEFINE j == Length + i
      <4>1. j \in 1 .. Length + Len(t) /\ ~(j <= Length) /\ j - Length = i
        BY <1>1, CredentialHasLength
      <4> HIDE DEF j
      <4>2. s[j] = t[i]
        BY <1>1, <4>1
      <4> QED BY <4>2 DEF j
    <3> QED BY <3>1
  <2> QED BY <1>1, <1>2, <2>1, ScannedShifts, CredentialHasLength
<1>7. 1 + Length = Length + 1
  BY CredentialHasLength
<1> QED BY <1>5, <1>6, <1>7, RedactedIsScanned

LEMMA OneMore ==
  ASSUME NEW t \in Seq(Bytes), NEW b \in Bytes
  PROVE  /\ <<b>> \o t \in Seq(Bytes) /\ Len(<<b>> \o t) = Len(t) + 1 /\ Len(t) \in Nat
         /\ (<<b>> \o t)[1] = b
         /\ \A i \in 1 .. Len(t) : (<<b>> \o t)[i + 1] = t[i]
<1>1. <<b>> \in Seq(Bytes) /\ Len(<<b>>) = 1 /\ <<b>>[1] = b
  OBVIOUS
<1>2. Len(t) \in Nat
  BY LenProperties
<1>3. /\ <<b>> \o t \in Seq(Bytes) /\ Len(<<b>> \o t) = 1 + Len(t)
      /\ \A i \in 1 .. 1 + Len(t) : (<<b>> \o t)[i] = IF i <= 1 THEN <<b>>[i] ELSE t[i - 1]
  BY <1>1, ConcatProperties
<1>4. (<<b>> \o t)[1] = b
  BY <1>1, <1>2, <1>3
<1>5. ASSUME NEW i \in 1 .. Len(t) PROVE (<<b>> \o t)[i + 1] = t[i]
  <2>1. i + 1 \in 1 .. 1 + Len(t) /\ ~(i + 1 <= 1) /\ (i + 1) - 1 = i
    BY <1>2
  <2> QED BY <1>3, <2>1
<1> QED BY <1>2, <1>3, <1>4, <1>5

LEMMA RedactedOfByte ==
  ASSUME NEW t \in Seq(Bytes), NEW b \in Bytes, ~At(<<b>> \o t, 1)
  PROVE  Redacted(<<b>> \o t) = <<b>> \o Redacted(t)
<1> DEFINE s == <<b>> \o t
<1>1. /\ s \in Seq(Bytes) /\ Len(s) = Len(t) + 1 /\ Len(t) \in Nat
      /\ s[1] = b /\ \A i \in 1 .. Len(t) : s[i + 1] = t[i]
  BY OneMore
<1> HIDE DEF s
<1>2. 1 \in 1 .. Len(s) + Length /\ 1 \in 1 .. Len(t) + Length
  BY <1>1, CredentialHasLength
<1>3. ~(1 + Length - 1 =< Len(s) /\ SubSeq(s, 1, 1 + Length - 1) = ProviderSecret) /\ ~(1 > Len(s))
  <2>1. ~At(s, 1)
    BY DEF s
  <2>2. At(s, 1) <=> 1 + Length - 1 =< Len(s) /\ SubSeq(s, 1, 1 + Length - 1) = ProviderSecret
    BY <1>1, AtIsFound
  <2> QED BY <1>1, <2>1, <2>2
<1>4. Scanned(s)[1] = <<b>> \o Scanned(s)[1 + 1]
  <2>1. Scanned(s)[1] = Scan(Scanned(s), s, 1)
    BY <1>1, <1>2, ScannedAt
  <2> QED BY <1>1, <1>3, <2>1 DEF Scan
<1>5. Scanned(s)[1 + 1] = Scanned(t)[1]
  <2>1. \A i \in 1 .. Len(t) : s[1 + i] = t[i]
    BY <1>1
  <2>2. Len(s) = 1 + Len(t)
    BY <1>1
  <2> QED BY <1>1, <1>2, <2>1, <2>2, ScannedShifts
<1> QED BY <1>4, <1>5, RedactedIsScanned DEF s

(* Bytes are none, or begin with the credential, or with a byte that is passed. *)
LEMMA Shapes ==
  ASSUME NEW s \in Seq(Bytes)
  PROVE  \/ s = <<>>
         \/ \E t \in Seq(Bytes) : s = ProviderSecret \o t /\ Len(t) < Len(s)
         \/ ~At(s, 1) /\ \E b \in Bytes, t \in Seq(Bytes) : s = <<b>> \o t /\ Len(t) < Len(s)
<1>1. Len(s) \in Nat
  BY LenProperties
<1> SUFFICES ASSUME s # <<>>
             PROVE  \/ \E t \in Seq(Bytes) : s = ProviderSecret \o t /\ Len(t) < Len(s)
                    \/ ~At(s, 1) /\ \E b \in Bytes, t \in Seq(Bytes) : s = <<b>> \o t /\ Len(t) < Len(s)
  OBVIOUS
<1>2. Len(s) >= 1
  BY <1>1, EmptySeq
<1>3. CASE At(s, 1)
  <2>1. Length =< Len(s) /\ SubSeq(s, 1, Length) = ProviderSecret
    <3>1. 1 + Length - 1 = Length
      BY CredentialHasLength
    <3> QED BY <1>3, <3>1, AtIsFound
  <2> DEFINE t == SubSeq(s, Length + 1, Len(s))
  <2>2. ProviderSecret \o t = SubSeq(s, 1, Len(s))
    <3>1. 1 \in 1 .. Len(s) + 1 /\ Length \in 1 - 1 .. Len(s) /\ Len(s) \in Length .. Len(s)
      BY <1>1, <2>1, CredentialHasLength
    <3>2. SubSeq(s, 1, Length) \o SubSeq(s, Length + 1, Len(s)) = SubSeq(s, 1, Len(s))
      BY <3>1, ConcatAdjacentSubSeq
    <3> QED BY <2>1, <3>2
  <2>3. SubSeq(s, 1, Len(s)) = s
    BY SubSeqFull
  <2>4. t \in Seq(Bytes) /\ Len(t) = IF Length + 1 <= Len(s) THEN Len(s) - (Length + 1) + 1 ELSE 0
    <3>1. \A i \in Length + 1 .. Len(s) : s[i] \in Bytes
      BY <1>1, CredentialHasLength, ElementOfSeq
    <3> QED BY <1>1, <3>1, CredentialHasLength, SubSeqProperties
  <2>5. Len(t) < Len(s)
    BY <1>1, <1>2, <2>4, CredentialHasLength
  <2> HIDE DEF t
  <2> QED BY <2>2, <2>3, <2>4, <2>5
<1>4. CASE ~At(s, 1)
  <2> DEFINE t == SubSeq(s, 2, Len(s))
  <2>1. SubSeq(s, 1, Len(s)) = <<s[1]>> \o SubSeq(s, 1 + 1, Len(s))
    BY <1>1, <1>2, SubSeqRecursiveFirst
  <2>2. SubSeq(s, 1, Len(s)) = s /\ 1 + 1 = 2
    BY SubSeqFull
  <2>3. s[1] \in Bytes
    BY <1>1, <1>2, ElementOfSeq
  <2>4. t \in Seq(Bytes) /\ Len(t) = IF 2 <= Len(s) THEN Len(s) - 2 + 1 ELSE 0
    <3>1. \A i \in 2 .. Len(s) : s[i] \in Bytes
      BY <1>1, ElementOfSeq
    <3> QED BY <1>1, <3>1, SubSeqProperties
  <2>5. Len(t) < Len(s)
    BY <1>1, <1>2, <2>4
  <2>6. s = <<s[1]>> \o t
    BY <2>1, <2>2
  <2> HIDE DEF t
  <2> QED BY <1>4, <2>3, <2>4, <2>5, <2>6
<1> QED BY <1>3, <1>4

(* While no marker begins in what the scan gives, it is what it was. *)
SameUntilMarked(s, r) ==
  \A k \in 0 .. Len(r) :
    (\A i \in 1 .. k : r[i] # Marker[1]) =>
       /\ k =< Len(s)
       /\ \A i \in 1 .. k : r[i] = s[i]
       /\ k = Len(r) => Len(s) = k

LEMMA UnmarkedIsKept == \A s \in Seq(Bytes) : SameUntilMarked(s, Redacted(s))
<1> DEFINE C == {s \in Seq(Bytes) : SameUntilMarked(s, Redacted(s))}
<1>1. ASSUME NEW s \in Seq(Bytes), \A t \in Seq(Bytes) : Len(t) < Len(s) => t \in C PROVE s \in C
  <2>1. CASE s = <<>>
    <3>1. Redacted(s) = <<>> /\ Len(<<>>) = 0
      BY <2>1, RedactedOfNone, EmptySeq
    <3> QED BY <2>1, <3>1 DEF SameUntilMarked
  <2>2. ASSUME NEW t \in Seq(Bytes), s = ProviderSecret \o t PROVE s \in C
    <3>1. Redacted(s) = Marker \o Redacted(t) /\ Redacted(t) \in Seq(Bytes)
      BY <2>2, RedactedOfFound, RedactedType
    <3> DEFINE y == Redacted(t)
               r == Marker \o y
    <3>2. Len(r) = Len(Marker) + Len(y) /\ Len(y) \in Nat
          /\ \A i \in 1 .. Len(Marker) + Len(y) :
               r[i] = IF i <= Len(Marker) THEN Marker[i] ELSE y[i - Len(Marker)]
      BY <3>1, MarkerHasLength, ConcatProperties, LenProperties
    <3> HIDE DEF y, r
    <3>3. r[1] = Marker[1] /\ Len(r) \in Nat /\ Len(r) # 0
      BY <3>2, MarkerHasLength
    <3>4. Len(s) = Length + Len(t) /\ Len(t) \in Nat
      BY <2>2, CredentialHasLength, ConcatProperties, LenProperties DEF Length
    <3>5. SameUntilMarked(s, r)
      <4> SUFFICES ASSUME NEW k \in 0 .. Len(r), \A i \in 1 .. k : r[i] # Marker[1]
                   PROVE  k =< Len(s) /\ (\A i \in 1 .. k : r[i] = s[i]) /\ (k = Len(r) => Len(s) = k)
        BY DEF SameUntilMarked
      <4>1. k = 0
        BY <3>3
      <4> QED BY <3>3, <3>4, <4>1, CredentialHasLength
    <3> QED BY <3>1, <3>5 DEF r, y
  <2>3. ASSUME ~At(s, 1), NEW b \in Bytes, NEW t \in Seq(Bytes), s = <<b>> \o t, Len(t) < Len(s)
        PROVE  s \in C
    <3>1. Redacted(s) = <<b>> \o Redacted(t) /\ Redacted(t) \in Seq(Bytes)
      BY <2>3, RedactedOfByte, RedactedType
    <3> DEFINE y == Redacted(t)
               r == <<b>> \o y
    <3>2. Len(r) = Len(y) + 1 /\ Len(y) \in Nat /\ r[1] = b /\ \A i \in 1 .. Len(y) : r[i + 1] = y[i]
      BY <3>1, OneMore
    <3>3. Len(s) = Len(t) + 1 /\ Len(t) \in Nat /\ s[1] = b /\ \A i \in 1 .. Len(t) : s[i + 1] = t[i]
      BY <2>3, OneMore
    <3>4. SameUntilMarked(t, y)
      BY <1>1, <2>3
    <3> HIDE DEF y, r
    <3>5. SameUntilMarked(s, r)
      <4> SUFFICES ASSUME NEW k \in 0 .. Len(r), \A i \in 1 .. k : r[i] # Marker[1]
                   PROVE  k =< Len(s) /\ (\A i \in 1 .. k : r[i] = s[i]) /\ (k = Len(r) => Len(s) = k)
        BY DEF SameUntilMarked
      <4>1. CASE k = 0
        BY <3>2, <3>3, <4>1
      <4>2. CASE k # 0
        <5>1. k - 1 \in 0 .. Len(y) /\ k \in Nat
          BY <3>2, <4>2
        <5>2. \A i \in 1 .. k - 1 : y[i] # Marker[1]
          <6>1. ASSUME NEW i \in 1 .. k - 1 PROVE y[i] # Marker[1]
            <7>1. i + 1 \in 1 .. k /\ i \in 1 .. Len(y)
              BY <3>2, <5>1
            <7> QED BY <3>2, <7>1
          <6> QED BY <6>1
        <5>3. /\ k - 1 =< Len(t) /\ \A i \in 1 .. k - 1 : y[i] = t[i]
              /\ k - 1 = Len(y) => Len(t) = k - 1
          BY <3>4, <5>1, <5>2 DEF SameUntilMarked
        <5>4. ASSUME NEW i \in 1 .. k PROVE r[i] = s[i]
          <6>1. CASE i = 1
            BY <3>2, <3>3, <6>1
          <6>2. CASE i # 1
            <7>1. i - 1 \in 1 .. k - 1 /\ i - 1 \in 1 .. Len(y) /\ i - 1 \in 1 .. Len(t) /\ (i - 1) + 1 = i
              BY <3>2, <3>3, <5>1, <5>3, <6>2
            <7>2. r[(i - 1) + 1] = y[i - 1] /\ s[(i - 1) + 1] = t[i - 1] /\ y[i - 1] = t[i - 1]
              BY <3>2, <3>3, <5>3, <7>1
            <7> QED BY <7>1, <7>2
          <6> QED BY <6>1, <6>2
        <5> QED BY <3>2, <3>3, <5>1, <5>3, <5>4
      <4> QED BY <4>1, <4>2
    <3> QED BY <3>1, <3>5 DEF r, y
  <2> QED BY <2>1, <2>2, <2>3, Shapes
<1>2. Seq(Bytes) \subseteq C
  <2> HIDE DEF C
  <2> QED BY <1>1, FromShorter
<1> QED BY <1>2

(* Where an end of the marker is followed by more, no credential begins in it. *)
LEMMA NoneInMarker ==
  ASSUME NEW z \in Seq(Bytes), NEW a \in Seq(Bytes), Marker = a \o z, NEW x \in Seq(Bytes),
         NEW i \in 1 .. Len(z)
  PROVE  ~At(z \o x, i)
<1>1. /\ Len(a) \in Nat /\ Len(z) \in Nat /\ Len(x) \in Nat /\ Len(Marker) = Len(a) + Len(z)
      /\ Len(z \o x) = Len(z) + Len(x)
      /\ \A j \in 1 .. Len(a) + Len(z) : Marker[j] = IF j <= Len(a) THEN a[j] ELSE z[j - Len(a)]
      /\ \A j \in 1 .. Len(z) + Len(x) : (z \o x)[j] = IF j <= Len(z) THEN z[j] ELSE x[j - Len(z)]
  BY ConcatProperties, LenProperties
<1>2. ASSUME NEW j \in 1 .. Len(z) PROVE (z \o x)[j] = Marker[Len(a) + j]
  <2> DEFINE m == Len(a) + j
  <2>1. m \in 1 .. Len(a) + Len(z) /\ ~(m <= Len(a)) /\ m - Len(a) = j
    BY <1>1
  <2> HIDE DEF m
  <2>2. Marker[m] = z[j]
    BY <1>1, <2>1
  <2>3. j \in 1 .. Len(z) + Len(x) /\ j <= Len(z)
    BY <1>1
  <2>4. (z \o x)[j] = z[j]
    BY <1>1, <2>3
  <2> QED BY <2>2, <2>4 DEF m
<1> SUFFICES ASSUME At(z \o x, i) PROVE FALSE
  OBVIOUS
<1>3. \A k \in 1 .. Length : (z \o x)[i + k - 1] = ProviderSecret[k]
  BY DEF At
<1>4. DOMAIN ProviderSecret = 1 .. Length
  BY CredentialHasLength, LenProperties DEF Length
<1>5. CASE i + Length - 1 =< Len(z)
  <2> DEFINE p == Len(a) + i
  <2>1. p \in Nat /\ p >= 1 /\ p + Length - 1 =< Len(Marker)
    BY <1>1, <1>5, CredentialHasLength
  <2>2. ASSUME NEW k \in 1 .. Length PROVE Marker[p + k - 1] = ProviderSecret[k]
    <3>1. i + k - 1 \in 1 .. Len(z) /\ p + k - 1 = Len(a) + (i + k - 1)
      BY <1>1, <1>5, CredentialHasLength
    <3>2. (z \o x)[i + k - 1] = Marker[Len(a) + (i + k - 1)]
      BY <1>2, <3>1
    <3> QED BY <1>3, <3>1, <3>2
  <2>3. At(Marker, p)
    BY <2>1, <2>2 DEF At
  <2>4. SubSeq(Marker, p, p + Length - 1) = ProviderSecret
    BY <2>1, <2>3, AtIsFound, MarkerHasLength
  <2>5. p \in 1 .. Len(Marker) - Len(ProviderSecret) + 1
    BY <2>1, MarkerHasLength, CredentialHasLength DEF Length
  <2> HIDE DEF p
  <2> QED BY <2>4, <2>5, MarkerAssumption DEF Length
<1>6. CASE ~(i + Length - 1 =< Len(z))
  <2> DEFINE k == Len(z) - i + 1
  <2>1. k \in 1 .. Length /\ i + k - 1 = Len(z) /\ Len(z) \in 1 .. Len(z) /\ Len(a) + Len(z) = Len(Marker)
    BY <1>1, <1>6, CredentialHasLength
  <2> HIDE DEF k
  <2>2. ProviderSecret[k] = Marker[Len(Marker)]
    BY <1>2, <1>3, <2>1
  <2> QED BY <1>4, <2>1, <2>2, MarkerAssumption
<1> QED BY <1>5, <1>6

LEMMA MarkerStays ==
  \A z \in Seq(Bytes) : \A a, x \in Seq(Bytes) :
    Marker = a \o z => Redacted(z \o x) = z \o Redacted(x)
<1> DEFINE C == {z \in Seq(Bytes) : \A a, x \in Seq(Bytes) :
                   Marker = a \o z => Redacted(z \o x) = z \o Redacted(x)}
<1>1. ASSUME NEW z \in Seq(Bytes), \A t \in Seq(Bytes) : Len(t) < Len(z) => t \in C PROVE z \in C
  <2> SUFFICES ASSUME NEW a \in Seq(Bytes), NEW x \in Seq(Bytes), Marker = a \o z
               PROVE  Redacted(z \o x) = z \o Redacted(x)
    OBVIOUS
  <2>1. CASE z = <<>>
    BY <2>1, RedactedType, ConcatEmptySeq
  <2>2. CASE z # <<>>
    <3>1. PICK b \in Bytes, t \in Seq(Bytes) : z = <<b>> \o t /\ Len(t) < Len(z)
      <4>1. Len(z) \in Nat /\ Len(z) >= 1
        BY <2>2, EmptySeq
      <4> DEFINE t == SubSeq(z, 2, Len(z))
      <4>2. SubSeq(z, 1, Len(z)) = <<z[1]>> \o SubSeq(z, 1 + 1, Len(z))
        BY <4>1, SubSeqRecursiveFirst
      <4>3. SubSeq(z, 1, Len(z)) = z /\ 1 + 1 = 2
        BY SubSeqFull
      <4>4. z[1] \in Bytes
        BY <4>1, ElementOfSeq
      <4>5. t \in Seq(Bytes) /\ Len(t) = IF 2 <= Len(z) THEN Len(z) - 2 + 1 ELSE 0
        <5>1. \A i \in 2 .. Len(z) : z[i] \in Bytes
          BY <4>1, ElementOfSeq
        <5> QED BY <4>1, <5>1, SubSeqProperties
      <4>6. Len(t) < Len(z)
        BY <4>1, <4>5
      <4>7. z = <<z[1]>> \o t
        BY <4>2, <4>3
      <4> HIDE DEF t
      <4> QED BY <4>4, <4>5, <4>6, <4>7
    <3> DEFINE y == t \o x
               f == a \o <<b>>
    <3>2. <<b>> \in Seq(Bytes) /\ y \in Seq(Bytes) /\ f \in Seq(Bytes)
      <4>1. <<b>> \in Seq(Bytes)
        OBVIOUS
      <4> QED BY <4>1, ConcatProperties
    <3>3. z \o x = <<b>> \o y /\ Marker = f \o t
      <4>1. (<<b>> \o t) \o x = <<b>> \o (t \o x)
        BY <3>1, <3>2, ConcatAssociative
      <4>2. (a \o <<b>>) \o t = a \o (<<b>> \o t)
        BY <3>1, <3>2, ConcatAssociative
      <4> QED BY <3>1, <4>1, <4>2
    <3>4. Redacted(y) = t \o Redacted(x)
      <4>1. t \in C
        BY <1>1, <3>1
      <4> QED BY <3>2, <3>3, <4>1
    <3>5. ~At(<<b>> \o y, 1)
      <4>1. 1 \in 1 .. Len(z)
        BY <2>2, EmptySeq
      <4> QED BY <3>3, <4>1, NoneInMarker
    <3>6. Redacted(z \o x) = <<b>> \o (t \o Redacted(x))
      BY <3>2, <3>3, <3>4, <3>5, RedactedOfByte
    <3>7. (<<b>> \o t) \o Redacted(x) = <<b>> \o (t \o Redacted(x))
      BY <3>1, <3>2, RedactedType, ConcatAssociative
    <3> QED BY <3>1, <3>6, <3>7
  <2> QED BY <2>1, <2>2
<1>2. Seq(Bytes) \subseteq C
  <2> HIDE DEF C
  <2> QED BY <1>1, FromShorter
<1> QED BY <1>2

LEMMA ConcatFacts ==
  ASSUME NEW u \in Seq(Bytes), NEW v \in Seq(Bytes)
  PROVE  /\ u \o v \in Seq(Bytes) /\ Len(u \o v) = Len(u) + Len(v)
         /\ Len(u) \in Nat /\ Len(v) \in Nat
         /\ \A i \in 1 .. Len(u) : (u \o v)[i] = u[i]
         /\ \A i \in 1 .. Len(v) : (u \o v)[Len(u) + i] = v[i]
<1>1. /\ u \o v \in Seq(Bytes) /\ Len(u \o v) = Len(u) + Len(v)
      /\ Len(u) \in Nat /\ Len(v) \in Nat
      /\ \A i \in 1 .. Len(u) + Len(v) : (u \o v)[i] = IF i <= Len(u) THEN u[i] ELSE v[i - Len(u)]
  BY ConcatProperties, LenProperties
<1>2. ASSUME NEW i \in 1 .. Len(u) PROVE (u \o v)[i] = u[i]
  <2>1. i \in 1 .. Len(u) + Len(v) /\ i <= Len(u)
    BY <1>1
  <2> QED BY <1>1, <2>1
<1>3. ASSUME NEW i \in 1 .. Len(v) PROVE (u \o v)[Len(u) + i] = v[i]
  <2> DEFINE j == Len(u) + i
  <2>1. j \in 1 .. Len(u) + Len(v) /\ ~(j <= Len(u)) /\ j - Len(u) = i
    BY <1>1
  <2> HIDE DEF j
  <2>2. (u \o v)[j] = v[i]
    BY <1>1, <2>1
  <2> QED BY <2>2 DEF j
<1> QED BY <1>1, <1>2, <1>3

LEMMA NothingMore ==
  /\ <<>> \in Seq(Bytes) /\ Len(<<>>) = 0
  /\ \A s \in Seq(Bytes) : <<>> \o s = s /\ s \o <<>> = s /\ (s # <<>> => Len(s) >= 1)
BY EmptySeq, ConcatEmptySeq

(* The same bytes, cut at two places. *)
LEMMA CutTwice ==
  ASSUME NEW u \in Seq(Bytes), NEW v \in Seq(Bytes), NEW A \in Seq(Bytes), NEW B \in Seq(Bytes),
         u \o v = A \o B
  PROVE  \/ Len(B) =< Len(v) /\ \E w \in Seq(Bytes) : A = u \o w /\ v = w \o B
         \/ Len(B) > Len(v) /\ \E z \in Seq(Bytes) : B = z \o v /\ u = A \o z
<1>1. /\ Len(u) \in Nat /\ Len(v) \in Nat /\ Len(A) \in Nat /\ Len(B) \in Nat
      /\ Len(u) + Len(v) = Len(A) + Len(B)
  BY ConcatFacts
<1> DEFINE s == u \o v
           R(i, j) == SubSeq(s, i, j)
<1>2. s \in Seq(Bytes) /\ Len(s) = Len(u) + Len(v)
  BY ConcatFacts
<1>3. ASSUME NEW f \in Seq(Bytes), NEW g \in Seq(Bytes), s = f \o g
      PROVE  f = R(1, Len(f)) /\ g = R(Len(f) + 1, Len(s))
  <2>1. /\ Len(f) \in Nat /\ Len(g) \in Nat /\ Len(s) = Len(f) + Len(g)
        /\ \A i \in 1 .. Len(f) : s[i] = f[i]
        /\ \A i \in 1 .. Len(g) : s[Len(f) + i] = g[i]
    BY <1>3, ConcatFacts
  <2> HIDE DEF s
  <2>2. f = R(1, Len(f))
    <3>1. \A i \in 1 .. Len(f) : s[i] \in Bytes
      BY <2>1, ElementOfSeq
    <3>2. /\ R(1, Len(f)) \in Seq(Bytes)
          /\ Len(R(1, Len(f))) = IF 1 <= Len(f) THEN Len(f) - 1 + 1 ELSE 0
          /\ \A i \in 1 .. Len(f) - 1 + 1 : R(1, Len(f))[i] = s[1 + i - 1]
      BY <2>1, <3>1, SubSeqProperties
    <3>3. Len(R(1, Len(f))) = Len(f)
      BY <2>1, <3>2
    <3>4. ASSUME NEW i \in 1 .. Len(f) PROVE f[i] = R(1, Len(f))[i]
      <4>1. i \in 1 .. Len(f) - 1 + 1 /\ 1 + i - 1 = i
        BY <2>1
      <4> QED BY <2>1, <3>2, <4>1
    <3> HIDE DEF R
    <3> QED BY <3>2, <3>3, <3>4, SeqEqual
  <2>3. g = R(Len(f) + 1, Len(s))
    <3>1. \A i \in Len(f) + 1 .. Len(s) : s[i] \in Bytes
      BY <1>2, <2>1, ElementOfSeq
    <3>2. /\ R(Len(f) + 1, Len(s)) \in Seq(Bytes)
          /\ Len(R(Len(f) + 1, Len(s))) = IF Len(f) + 1 <= Len(s) THEN Len(s) - (Len(f) + 1) + 1 ELSE 0
          /\ \A i \in 1 .. Len(s) - (Len(f) + 1) + 1 : R(Len(f) + 1, Len(s))[i] = s[Len(f) + 1 + i - 1]
      BY <2>1, <3>1, SubSeqProperties
    <3>3. Len(R(Len(f) + 1, Len(s))) = Len(g)
      BY <2>1, <3>2
    <3>4. ASSUME NEW i \in 1 .. Len(g) PROVE g[i] = R(Len(f) + 1, Len(s))[i]
      <4>1. i \in 1 .. Len(s) - (Len(f) + 1) + 1 /\ Len(f) + 1 + i - 1 = Len(f) + i
        BY <2>1
      <4> QED BY <2>1, <3>2, <4>1
    <3> HIDE DEF R
    <3> QED BY <3>2, <3>3, <3>4, SeqEqual
  <2> QED BY <2>2, <2>3
<1>4. /\ u = R(1, Len(u)) /\ v = R(Len(u) + 1, Len(s))
      /\ A = R(1, Len(A)) /\ B = R(Len(A) + 1, Len(s))
  BY <1>3
<1> HIDE DEF s
<1>5. CASE Len(B) =< Len(v)
  <2>1. Len(u) =< Len(A) /\ Len(A) =< Len(s)
    BY <1>1, <1>2, <1>5
  <2> DEFINE w == R(Len(u) + 1, Len(A))
  <2>2. R(1, Len(u)) \o w = R(1, Len(A))
    <3>1. 1 \in 1 .. Len(s) + 1 /\ Len(u) \in 1 - 1 .. Len(s) /\ Len(A) \in Len(u) .. Len(s)
      BY <1>1, <1>2, <2>1
    <3> QED BY <1>2, <3>1, ConcatAdjacentSubSeq
  <2>3. w \o R(Len(A) + 1, Len(s)) = R(Len(u) + 1, Len(s))
    <3>1. /\ Len(u) + 1 \in 1 .. Len(s) + 1 /\ Len(A) \in (Len(u) + 1) - 1 .. Len(s)
          /\ Len(s) \in Len(A) .. Len(s)
      BY <1>1, <1>2, <2>1
    <3> QED BY <1>2, <3>1, ConcatAdjacentSubSeq
  <2>4. w \in Seq(Bytes)
    <3>1. \A i \in Len(u) + 1 .. Len(A) : s[i] \in Bytes
      BY <1>1, <1>2, <2>1, ElementOfSeq
    <3> QED BY <1>1, <3>1, SubSeqProperties
  <2> HIDE DEF R, w
  <2> QED BY <1>4, <1>5, <2>2, <2>3, <2>4
<1>6. CASE ~(Len(B) =< Len(v))
  <2>1. Len(A) =< Len(u) /\ Len(u) =< Len(s) /\ Len(B) > Len(v)
    BY <1>1, <1>2, <1>6
  <2> DEFINE z == R(Len(A) + 1, Len(u))
  <2>2. R(1, Len(A)) \o z = R(1, Len(u))
    <3>1. 1 \in 1 .. Len(s) + 1 /\ Len(A) \in 1 - 1 .. Len(s) /\ Len(u) \in Len(A) .. Len(s)
      BY <1>1, <1>2, <2>1
    <3> QED BY <1>2, <3>1, ConcatAdjacentSubSeq
  <2>3. z \o R(Len(u) + 1, Len(s)) = R(Len(A) + 1, Len(s))
    <3>1. /\ Len(A) + 1 \in 1 .. Len(s) + 1 /\ Len(u) \in (Len(A) + 1) - 1 .. Len(s)
          /\ Len(s) \in Len(u) .. Len(s)
      BY <1>1, <1>2, <2>1
    <3> QED BY <1>2, <3>1, ConcatAdjacentSubSeq
  <2>4. z \in Seq(Bytes)
    <3>1. \A i \in Len(A) + 1 .. Len(u) : s[i] \in Bytes
      BY <1>1, <1>2, <2>1, ElementOfSeq
    <3> QED BY <1>1, <3>1, SubSeqProperties
  <2> HIDE DEF R, z
  <2> QED BY <1>4, <2>1, <2>2, <2>3, <2>4
<1> QED BY <1>5, <1>6

LEMMA ShortIsKept == \A s \in Seq(Bytes) : Len(s) < Length => Redacted(s) = s
<1> DEFINE C == {s \in Seq(Bytes) : Len(s) < Length => Redacted(s) = s}
<1>1. ASSUME NEW s \in Seq(Bytes), \A t \in Seq(Bytes) : Len(t) < Len(s) => t \in C PROVE s \in C
  <2> SUFFICES ASSUME Len(s) < Length PROVE Redacted(s) = s
    OBVIOUS
  <2>1. CASE s = <<>>
    BY <2>1, RedactedOfNone
  <2>2. ASSUME NEW t \in Seq(Bytes), s = ProviderSecret \o t PROVE FALSE
    <3>1. Len(s) = Length + Len(t) /\ Len(t) \in Nat
      BY <2>2, CredentialHasLength, ConcatFacts DEF Length
    <3> QED BY <3>1, CredentialHasLength
  <2>3. ASSUME ~At(s, 1), NEW b \in Bytes, NEW t \in Seq(Bytes), s = <<b>> \o t, Len(t) < Len(s)
        PROVE  Redacted(s) = s
    <3>1. Len(t) < Length
      <4>1. Len(t) \in Nat /\ Len(s) \in Nat
        BY LenProperties
      <4> QED BY <2>3, <4>1, CredentialHasLength
    <3>2. Redacted(t) = t
      BY <1>1, <2>3, <3>1
    <3> QED BY <2>3, <3>2, RedactedOfByte
  <2> QED BY <2>1, <2>2, <2>3, Shapes
<1>2. Seq(Bytes) \subseteq C
  <2> HIDE DEF C
  <2> QED BY <1>1, FromShorter
<1> QED BY <1>2

(* No credential is left in what the scan gives. *)
LEMMA NoneLeft == \A s \in Seq(Bytes) : \A i \in Nat \ {0} : ~At(Redacted(s), i)
<1> DEFINE C == {s \in Seq(Bytes) : \A i \in Nat \ {0} : ~At(Redacted(s), i)}
<1>1. ASSUME NEW s \in Seq(Bytes), \A t \in Seq(Bytes) : Len(t) < Len(s) => t \in C PROVE s \in C
  <2> SUFFICES ASSUME NEW i \in Nat \ {0} PROVE ~At(Redacted(s), i)
    OBVIOUS
  <2>1. CASE s = <<>>
    <3>1. Redacted(s) = <<>> /\ Len(<<>>) = 0
      BY <2>1, RedactedOfNone, NothingMore
    <3> QED BY <3>1, CredentialHasLength DEF At
  <2>2. ASSUME NEW t \in Seq(Bytes), s = ProviderSecret \o t, Len(t) < Len(s)
        PROVE  ~At(Redacted(s), i)
    <3> DEFINE y == Redacted(t)
    <3>1. Redacted(s) = Marker \o y /\ y \in Seq(Bytes) /\ \A j \in Nat \ {0} : ~At(y, j)
      <4>1. t \in C
        BY <1>1, <2>2
      <4> QED BY <2>2, <4>1, RedactedOfFound, RedactedType
    <3> HIDE DEF y
    <3>2. /\ Len(Marker \o y) = Len(Marker) + Len(y) /\ Len(Marker) \in Nat /\ Len(y) \in Nat
          /\ \A j \in 1 .. Len(y) : (Marker \o y)[Len(Marker) + j] = y[j]
      BY <3>1, MarkerHasLength, ConcatFacts
    <3>3. CASE i =< Len(Marker)
      <4>1. Marker = <<>> \o Marker /\ i \in 1 .. Len(Marker)
        BY <3>2, <3>3, NothingMore, MarkerHasLength
      <4> QED BY <3>1, <4>1, NoneInMarker, NothingMore, MarkerHasLength
    <3>4. CASE ~(i =< Len(Marker))
      <4> SUFFICES ASSUME At(Marker \o y, i) PROVE FALSE
        BY <3>1
      <4> DEFINE j == i - Len(Marker)
      <4>1. j \in Nat \ {0} /\ j + Length - 1 =< Len(y)
        BY <3>2, <3>4, CredentialHasLength DEF At
      <4>0. i = Len(Marker) + j
        BY <3>2
      <4> HIDE DEF j
      <4>2. ASSUME NEW k \in 1 .. Length PROVE y[j + k - 1] = ProviderSecret[k]
        <5>1. j + k - 1 \in 1 .. Len(y) /\ Len(Marker) + (j + k - 1) = i + k - 1
          BY <3>2, <4>1, <4>0, CredentialHasLength, StaysInside
        <5>2. (Marker \o y)[i + k - 1] = ProviderSecret[k]
          BY DEF At
        <5>3. (Marker \o y)[Len(Marker) + (j + k - 1)] = y[j + k - 1]
          BY <3>2, <5>1
        <5> QED BY <5>1, <5>2, <5>3
      <4>3. At(y, j)
        BY <4>1, <4>2 DEF At
      <4> QED BY <3>1, <4>1, <4>3
    <3> QED BY <3>3, <3>4
  <2>3. ASSUME ~At(s, 1), NEW b \in Bytes, NEW t \in Seq(Bytes), s = <<b>> \o t, Len(t) < Len(s)
        PROVE  ~At(Redacted(s), i)
    <3> DEFINE y == Redacted(t)
    <3>1. Redacted(s) = <<b>> \o y /\ y \in Seq(Bytes) /\ \A j \in Nat \ {0} : ~At(y, j)
      <4>1. t \in C
        BY <1>1, <2>3
      <4> QED BY <2>3, <4>1, RedactedOfByte, RedactedType
    <3>2. SameUntilMarked(t, y)
      BY UnmarkedIsKept
    <3> HIDE DEF y
    <3> DEFINE r == <<b>> \o y
    <3>3. Len(r) = Len(y) + 1 /\ Len(y) \in Nat /\ r[1] = b /\ \A j \in 1 .. Len(y) : r[j + 1] = y[j]
      BY <3>1, OneMore
    <3>4. Len(s) = Len(t) + 1 /\ Len(t) \in Nat /\ s[1] = b /\ \A j \in 1 .. Len(t) : s[j + 1] = t[j]
      BY <2>3, OneMore
    <3> HIDE DEF r
    <3> SUFFICES ASSUME At(r, i) PROVE FALSE
      BY <3>1 DEF r
    <3>5. i + Length - 1 =< Len(r) /\ \A k \in 1 .. Length : r[i + k - 1] = ProviderSecret[k]
      BY DEF At
    <3>6. CASE i # 1
      <4> DEFINE j == i - 1
      <4>1. j \in Nat \ {0} /\ j + Length - 1 =< Len(y)
        BY <3>3, <3>5, <3>6, CredentialHasLength
      <4>0. i = j + 1
        OBVIOUS
      <4> HIDE DEF j
      <4>2. ASSUME NEW k \in 1 .. Length PROVE y[j + k - 1] = ProviderSecret[k]
        <5>1. j + k - 1 \in 1 .. Len(y) /\ (j + k - 1) + 1 = i + k - 1
          BY <3>3, <4>1, <4>0, CredentialHasLength, StaysInside
        <5>2. r[(j + k - 1) + 1] = y[j + k - 1]
          BY <3>3, <5>1
        <5> QED BY <3>5, <5>1, <5>2
      <4>3. At(y, j)
        BY <4>1, <4>2 DEF At
      <4> QED BY <3>1, <4>1, <4>3
    <3>7. CASE i = 1
      <4>1. Length - 1 \in 0 .. Len(y) /\ \A k \in 1 .. Length : r[k] = ProviderSecret[k]
        <5>1. \A k \in 1 .. Length : 1 + k - 1 = k
          BY CredentialHasLength
        <5> QED BY <3>3, <3>5, <3>7, <5>1, CredentialHasLength
      <4>2. \A k \in 1 .. Length - 1 : y[k] = ProviderSecret[k + 1]
        <5>1. ASSUME NEW k \in 1 .. Length - 1 PROVE y[k] = ProviderSecret[k + 1]
          <6>1. k + 1 \in 1 .. Length /\ k \in 1 .. Len(y)
            BY <4>1, CredentialHasLength
          <6> QED BY <3>3, <4>1, <6>1
        <5> QED BY <5>1
      <4>3. \A k \in 1 .. Length - 1 : y[k] # Marker[1]
        <5>1. DOMAIN ProviderSecret = 1 .. Length
          BY CredentialHasLength, LenProperties DEF Length
        <5>2. ASSUME NEW k \in 1 .. Length - 1 PROVE ProviderSecret[k + 1] # Marker[1]
          <6>1. k + 1 \in 1 .. Length
            BY CredentialHasLength
          <6> QED BY <5>1, <6>1, MarkerAssumption
        <5> QED BY <4>2, <5>2
      <4>4. Length - 1 =< Len(t) /\ \A k \in 1 .. Length - 1 : y[k] = t[k]
        BY <3>2, <4>1, <4>3 DEF SameUntilMarked
      <4>5. ASSUME NEW k \in 1 .. Length PROVE s[1 + k - 1] = ProviderSecret[k]
        <5>1. CASE k = 1
          BY <3>3, <3>4, <4>1, <5>1
        <5>2. CASE k # 1
          <6>1. k - 1 \in 1 .. Length - 1 /\ k - 1 \in 1 .. Len(t) /\ (k - 1) + 1 = k /\ 1 + k - 1 = k
            BY <3>4, <4>4, <5>2, CredentialHasLength
          <6>2. s[(k - 1) + 1] = t[k - 1] /\ y[k - 1] = t[k - 1] /\ y[k - 1] = ProviderSecret[(k - 1) + 1]
            BY <3>4, <4>2, <4>4, <6>1
          <6> QED BY <6>1, <6>2
        <5> QED BY <5>1, <5>2
      <4>6. At(s, 1)
        BY <3>4, <4>4, <4>5, CredentialHasLength DEF At
      <4> QED BY <2>3, <4>6
    <3> QED BY <3>6, <3>7
  <2> QED BY <2>1, <2>2, <2>3, Shapes
<1>2. Seq(Bytes) \subseteq C
  <2> HIDE DEF C
  <2> QED BY <1>1, FromShorter
<1> QED BY <1>2

(* Of what the scan gives all but the last bytes can be passed on: with more *)
(* to come, the rest gives what it would have given in one piece.            *)
CutAt(r, A, B) == r = A \o B /\ Len(B) < Length /\ (A = <<>> \/ Len(B) = Length - 1)

Resumes(s, A, B, c) == Redacted(s \o c) = A \o Redacted(B \o c)

Splits(s) ==
  \A A, B, c \in Seq(Bytes) : CutAt(Redacted(s), A, B) => Resumes(s, A, B, c)

Regrouped(u, v, w) == (u \o v) \o w = u \o (v \o w)

LEMMA Regroup == \A u, v, w \in Seq(Bytes) : Regrouped(u, v, w)
BY ConcatAssociative DEF Regrouped

CutsTwice(u, v, A, B) ==
  \/ Len(B) =< Len(v) /\ \E w \in Seq(Bytes) : A = u \o w /\ v = w \o B
  \/ Len(B) > Len(v) /\ \E z \in Seq(Bytes) : B = z \o v /\ u = A \o z

LEMMA CutsAgree == \A u, v, A, B \in Seq(Bytes) : u \o v = A \o B => CutsTwice(u, v, A, B)
BY CutTwice DEF CutsTwice

Joined(s, a, b) == s = a \o b

LEMMA SplitsFound ==
  ASSUME NEW s \in Seq(Bytes), NEW t \in Seq(Bytes), Joined(s, ProviderSecret, t), Splits(t)
  PROVE  Splits(s)
<1> SUFFICES ASSUME NEW A \in Seq(Bytes), NEW B \in Seq(Bytes), NEW c \in Seq(Bytes),
                    CutAt(Redacted(s), A, B)
             PROVE  Redacted(s \o c) = A \o Redacted(B \o c)
  BY Zenon DEF Splits, Resumes
<1>0. Redacted(s) = A \o B /\ Len(B) < Length /\ (A = <<>> \/ Len(B) = Length - 1)
  BY DEF CutAt
<1> DEFINE y == Redacted(t)
<1>1. Redacted(s) = Marker \o y /\ y \in Seq(Bytes)
  BY RedactedOfFound, RedactedType DEF Joined
<1>2. Redacted(s \o c) = Marker \o Redacted(t \o c)
  <2>1. s \o c = ProviderSecret \o (t \o c)
    <3>1. Regrouped(ProviderSecret, t, c)
      BY CredentialHasLength, Regroup
    <3> QED BY <3>1 DEF Regrouped, Joined
  <2> QED BY <2>1, ConcatFacts, RedactedOfFound
<1>3. B \o c \in Seq(Bytes) /\ y \o c \in Seq(Bytes) /\ t \o c \in Seq(Bytes)
  BY <1>1, ConcatFacts
<1>4. Redacted(B \o c) \in Seq(Bytes) /\ Redacted(y \o c) \in Seq(Bytes)
  BY <1>3, RedactedType
<1>5. CASE \E w \in Seq(Bytes) : A = Marker \o w /\ y = w \o B
  <2>1. PICK w \in Seq(Bytes) : A = Marker \o w /\ y = w \o B
    BY <1>5
  <2>2. A # <<>>
    <3>1. Len(A) = Len(Marker) + Len(w) /\ Len(w) \in Nat
      BY <2>1, MarkerHasLength, ConcatFacts
    <3> QED BY <3>1, MarkerHasLength, NothingMore
  <2>3. Redacted(t \o c) = w \o Redacted(B \o c)
    <3>1. CutAt(y, w, B)
      BY <1>0, <2>1, <2>2 DEF CutAt
    <3>2. Resumes(t, w, B, c)
      BY <2>1, <3>1, Zenon DEF Splits
    <3> QED BY <3>2 DEF Resumes
  <2> HIDE DEF y
  <2>4. (Marker \o w) \o Redacted(B \o c) = Marker \o (w \o Redacted(B \o c))
    <3> DEFINE r == Redacted(B \o c)
    <3>1. r \in Seq(Bytes) /\ w \in Seq(Bytes) /\ Marker \in Seq(Bytes)
      BY <1>4, <2>1, MarkerHasLength
    <3> HIDE DEF r
    <3>2. Regrouped(Marker, w, r)
      BY <3>1, Regroup, Zenon
    <3> QED BY <3>2 DEF r, Regrouped
  <2> QED BY <1>2, <2>1, <2>3, <2>4
<1>6. CASE Len(B) > Len(y) /\ \E z \in Seq(Bytes) : B = z \o y /\ Marker = A \o z
  <2>1. PICK z \in Seq(Bytes) : B = z \o y /\ Marker = A \o z
    BY <1>6
  <2>2. Redacted(t \o c) = Redacted(y \o c)
    <3>1. y = <<>> \o y /\ Len(y) < Length
      <4>1. Len(y) \in Nat /\ Len(B) \in Nat
        BY <1>1, LenProperties
      <4> QED BY <1>0, <1>1, <1>6, <4>1, CredentialHasLength, NothingMore
    <3>2. Redacted(t \o c) = <<>> \o Redacted(y \o c)
      <4> DEFINE e == <<>>
      <4>1. CutAt(y, e, y)
        BY <3>1 DEF CutAt
      <4>2. e \in Seq(Bytes)
        BY NothingMore
      <4> HIDE DEF e
      <4>3. Resumes(t, e, y, c)
        BY <1>1, <4>1, <4>2, Zenon DEF Splits
      <4> QED BY <4>3 DEF e, Resumes
    <3> QED BY <1>4, <3>2, NothingMore
  <2>3. Redacted(B \o c) = z \o Redacted(y \o c)
    <3>1. B \o c = z \o (y \o c)
      <4>1. Regrouped(z, y, c)
        BY <1>1, <2>1, Regroup
      <4> QED BY <2>1, <4>1 DEF Regrouped
    <3> QED BY <1>3, <2>1, <3>1, MarkerStays
  <2> HIDE DEF y
  <2>4. Marker \o Redacted(y \o c) = A \o (z \o Redacted(y \o c))
    <3> DEFINE r == Redacted(y \o c)
    <3>1. r \in Seq(Bytes) /\ z \in Seq(Bytes)
      BY <1>4, <2>1
    <3> HIDE DEF r
    <3>2. Regrouped(A, z, r)
      BY <3>1, Regroup, Zenon
    <3> QED BY <2>1, <3>2 DEF r, Regrouped
  <2> QED BY <1>2, <2>2, <2>3, <2>4
<1> HIDE DEF y
<1>7. Marker \o y = A \o B
  BY <1>0, <1>1
<1>8. \/ Len(B) =< Len(y) /\ \E w \in Seq(Bytes) : A = Marker \o w /\ y = w \o B
      \/ Len(B) > Len(y) /\ \E z \in Seq(Bytes) : B = z \o y /\ Marker = A \o z
  <2>1. CutsTwice(Marker, y, A, B)
    BY <1>1, <1>7, MarkerHasLength, CutsAgree
  <2> QED BY <2>1 DEF CutsTwice
<1> QED BY <1>5, <1>6, <1>8

LEMMA SplitsByte ==
  ASSUME NEW s \in Seq(Bytes), NEW b \in Bytes, NEW t \in Seq(Bytes), Joined(s, <<b>>, t), ~At(s, 1),
         Splits(t)
  PROVE  Splits(s)
<1> SUFFICES ASSUME NEW A \in Seq(Bytes), NEW B \in Seq(Bytes), NEW c \in Seq(Bytes),
                    CutAt(Redacted(s), A, B)
             PROVE  Redacted(s \o c) = A \o Redacted(B \o c)
  BY Zenon DEF Splits, Resumes
<1>0. Redacted(s) = A \o B /\ Len(B) < Length /\ (A = <<>> \/ Len(B) = Length - 1)
  BY DEF CutAt
<1> DEFINE y == Redacted(t)
           o == <<b>>
<1>1. Redacted(s) = o \o y /\ y \in Seq(Bytes) /\ o \in Seq(Bytes) /\ Len(o) = 1
  <2>1. Redacted(s) = o \o y
    BY RedactedOfByte DEF Joined
  <2>2. y \in Seq(Bytes)
    BY RedactedType
  <2>3. o \in Seq(Bytes) /\ Len(o) = 1
    OBVIOUS
  <2> QED BY <2>1, <2>2, <2>3
<1>2. B \o c \in Seq(Bytes) /\ y \o c \in Seq(Bytes) /\ t \o c \in Seq(Bytes)
  BY <1>1, ConcatFacts
<1>3. Redacted(B \o c) \in Seq(Bytes) /\ Redacted(y \o c) \in Seq(Bytes)
  BY <1>2, RedactedType
<1>4. Len(s) = Len(t) + 1 /\ Len(t) \in Nat /\ Len(A) \in Nat /\ Len(B) \in Nat /\ Len(y) \in Nat
  BY <1>1, OneMore, LenProperties DEF Joined
<1>5. CASE Len(s) < Length
  <2>1. s = A \o B
    BY <1>0, <1>5, ShortIsKept
  <2>2. Len(s) = Len(A) + Len(B)
    BY <2>1, ConcatFacts
  <2>3. A = <<>>
    <3> SUFFICES ASSUME A # <<>> PROVE FALSE
      OBVIOUS
    <3>1. Len(A) >= 1 /\ Len(B) = Length - 1
      BY <1>0, NothingMore
    <3> QED BY <1>4, <1>5, <2>2, <3>1, CredentialHasLength
  <2> QED BY <1>3, <2>1, <2>3, NothingMore
<1>6. CASE ~(Len(s) < Length)
  <2>1. Redacted(s \o c) = o \o Redacted(t \o c)
    <3>1. s \o c = o \o (t \o c)
      <4>1. Regrouped(o, t, c)
        BY <1>1, Regroup
      <4> QED BY <4>1 DEF Regrouped, Joined
    <3>2. ~At(s \o c, 1)
      <4> SUFFICES ASSUME At(s \o c, 1) PROVE At(s, 1)
        OBVIOUS
      <4>1. \A k \in 1 .. Length : 1 + k - 1 \in 1 .. Len(s)
        BY <1>4, <1>6, CredentialHasLength
      <4>2. \A j \in 1 .. Len(s) : (s \o c)[j] = s[j]
        BY ConcatFacts
      <4>3. \A k \in 1 .. Length : s[1 + k - 1] = ProviderSecret[k]
        BY <4>1, <4>2 DEF At
      <4> QED BY <1>4, <1>6, <4>3, CredentialHasLength DEF At
    <3> QED BY <1>2, <3>1, <3>2, RedactedOfByte
  <2>2. CASE \E w \in Seq(Bytes) : A = o \o w /\ y = w \o B
    <3>1. PICK w \in Seq(Bytes) : A = o \o w /\ y = w \o B
      BY <2>2
    <3>2. A # <<>>
      <4>1. Len(A) = 1 + Len(w) /\ Len(w) \in Nat
        BY <1>1, <3>1, ConcatFacts
      <4> QED BY <4>1, NothingMore
    <3>3. Redacted(t \o c) = w \o Redacted(B \o c)
      <4>1. CutAt(y, w, B)
        BY <1>0, <3>1, <3>2 DEF CutAt
      <4>2. Resumes(t, w, B, c)
        BY <3>1, <4>1, Zenon DEF Splits
      <4> QED BY <4>2 DEF Resumes
    <3> HIDE DEF y, o
    <3>4. (o \o w) \o Redacted(B \o c) = o \o (w \o Redacted(B \o c))
      <4> DEFINE r == Redacted(B \o c)
      <4>1. r \in Seq(Bytes) /\ w \in Seq(Bytes) /\ o \in Seq(Bytes)
        BY <1>1, <1>3, <3>1
      <4> HIDE DEF r
      <4>2. Regrouped(o, w, r)
        BY <4>1, Regroup, Zenon
      <4> QED BY <4>2 DEF r, Regrouped
    <3> QED BY <2>1, <3>1, <3>3, <3>4
  <2>3. CASE Len(B) > Len(y) /\ \E z \in Seq(Bytes) : B = z \o y /\ o = A \o z
    <3>1. PICK z \in Seq(Bytes) : B = z \o y /\ o = A \o z
      BY <2>3
    <3>2. A = <<>> /\ B = o \o y
      <4>1. Len(B) = Len(z) + Len(y) /\ Len(z) \in Nat /\ 1 = Len(A) + Len(z)
        BY <1>1, <3>1, ConcatFacts
      <4>2. Len(A) = 0
        BY <1>4, <2>3, <4>1
      <4>3. A = <<>>
        BY <4>2, NothingMore
      <4> QED BY <3>1, <4>3, NothingMore
    <3>3. Redacted(t \o c) = Redacted(y \o c)
      <4>1. y = <<>> \o y /\ Len(y) < Length
        BY <1>0, <1>1, <1>4, <2>3, CredentialHasLength, NothingMore
      <4> DEFINE e == <<>>
      <4>2. CutAt(y, e, y)
        BY <4>1 DEF CutAt
      <4>3. e \in Seq(Bytes)
        BY NothingMore
      <4> HIDE DEF e
      <4>4. Resumes(t, e, y, c)
        BY <1>1, <4>2, <4>3, Zenon DEF Splits
      <4> QED BY <1>3, <4>4, NothingMore DEF e, Resumes
    <3>4. Len(B) = Len(y) + 1
      BY <1>1, <3>2, OneMore
    <3>5. SameUntilMarked(t, y)
      BY UnmarkedIsKept
    <3>6. ~At(o \o (y \o c), 1)
      <4> SUFFICES ASSUME At(o \o (y \o c), 1) PROVE FALSE
        OBVIOUS
      <4> HIDE DEF y
      <4>1. /\ \A j \in 1 .. Len(y \o c) : (o \o (y \o c))[j + 1] = (y \o c)[j]
            /\ Len(y \o c) = Len(y) + Len(c) /\ Len(c) \in Nat
            /\ \A j \in 1 .. Len(y) : (y \o c)[j] = y[j]
        BY <1>1, <1>2, OneMore, ConcatFacts
      <4>2. DOMAIN ProviderSecret = 1 .. Length
        BY CredentialHasLength, LenProperties DEF Length
      <4>3. ASSUME NEW j \in 1 .. Len(y) PROVE y[j] # Marker[1]
        <5>1. j + 1 \in 1 .. Length /\ 1 + (j + 1) - 1 = j + 1 /\ j \in 1 .. Len(y \o c)
          BY <1>0, <1>4, <3>4, <4>1, CredentialHasLength
        <5>2. (o \o (y \o c))[1 + (j + 1) - 1] = ProviderSecret[j + 1]
          BY <5>1 DEF At
        <5>3. y[j] = ProviderSecret[j + 1]
          BY <4>1, <5>1, <5>2
        <5> QED BY <4>2, <5>1, <5>3, MarkerAssumption
      <4>4. Len(t) = Len(y)
        <5>1. Len(y) \in 0 .. Len(y)
          BY <1>4
        <5> QED BY <3>5, <4>3, <5>1 DEF SameUntilMarked
      <4> QED BY <1>0, <1>4, <1>6, <3>4, <4>4, CredentialHasLength
    <3>7. Redacted(B \o c) = o \o Redacted(y \o c)
      <4>1. B \o c = o \o (y \o c)
        <5>1. Regrouped(o, y, c)
          BY <1>1, Regroup
        <5> QED BY <3>2, <5>1 DEF Regrouped
      <4> QED BY <1>2, <3>6, <4>1, RedactedOfByte
    <3>8. A \o Redacted(B \o c) = Redacted(B \o c)
      BY <1>3, <3>2, NothingMore
    <3> QED BY <2>1, <3>3, <3>7, <3>8
  <2> HIDE DEF y, o
  <2>4. o \o y = A \o B
    BY <1>0, <1>1
  <2>5. \/ Len(B) =< Len(y) /\ \E w \in Seq(Bytes) : A = o \o w /\ y = w \o B
        \/ Len(B) > Len(y) /\ \E z \in Seq(Bytes) : B = z \o y /\ o = A \o z
    <3>1. CutsTwice(o, y, A, B)
      BY <1>1, <2>4, CutsAgree
    <3> QED BY <3>1 DEF CutsTwice
  <2> QED BY <2>2, <2>3, <2>5
<1> QED BY <1>5, <1>6

LEMMA AlwaysSplits == \A s \in Seq(Bytes) : Splits(s)
<1> DEFINE C == {s \in Seq(Bytes) : Splits(s)}
<1>1. ASSUME NEW s \in Seq(Bytes), \A t \in Seq(Bytes) : Len(t) < Len(s) => t \in C PROVE s \in C
  <2>1. CASE s = <<>>
    <3> SUFFICES ASSUME NEW A \in Seq(Bytes), NEW B \in Seq(Bytes), NEW c \in Seq(Bytes),
                        CutAt(Redacted(s), A, B)
                 PROVE  Redacted(s \o c) = A \o Redacted(B \o c)
      BY Zenon DEF Splits, Resumes
    <3>1. A \o B = <<>>
      BY <2>1, RedactedOfNone DEF CutAt
    <3>2. A = <<>> /\ B = <<>>
      BY <3>1, ConcatEqualIffEmpty
    <3>3. Redacted(c) \in Seq(Bytes)
      BY RedactedType
    <3> QED BY <2>1, <3>2, <3>3, NothingMore
  <2>2. ASSUME NEW t \in Seq(Bytes), s = ProviderSecret \o t, Len(t) < Len(s) PROVE s \in C
    BY <1>1, <2>2, SplitsFound DEF Joined
  <2>3. ASSUME ~At(s, 1), NEW b \in Bytes, NEW t \in Seq(Bytes), s = <<b>> \o t, Len(t) < Len(s)
        PROVE  s \in C
    BY <1>1, <2>3, SplitsByte DEF Joined
  <2> QED BY <2>1, <2>2, <2>3, Shapes
<1>2. Seq(Bytes) \subseteq C
  <2> HIDE DEF C
  <2> QED BY <1>1, FromShorter
<1> QED BY <1>2

(* Whatever is still to come, what was sent and what becomes of the rest make *)
(* what the scan of all of it gives.                                          *)
StreamInv ==
  /\ RedactionTypeOK
  /\ stream = "open" =>
       Len(buffered) < Length /\ \A c \in Seq(Bytes) : Resumes(received, sent, buffered, c)
  /\ stream = "closed" => sent = Redacted(received)
  /\ stream = "broken" => \E rest \in Seq(Bytes) : sent \o rest = Redacted(received)

LEMMA OpenGives ==
  ASSUME StreamInv, stream = "open"
  PROVE  sent \o buffered = Redacted(received)
<1>1. Resumes(received, sent, buffered, <<>>)
  BY NothingMore DEF StreamInv
<1>2. /\ received \o <<>> = received /\ buffered \o <<>> = buffered /\ Redacted(buffered) = buffered
  BY NothingMore, ShortIsKept DEF StreamInv, RedactionTypeOK
<1> QED BY <1>1, <1>2 DEF Resumes

LEMMA ChunkKeeps ==
  ASSUME StreamInv, PassChunk
  PROVE  StreamInv'
<1>1. PICK chunk \in Chunks :
        LET clean == Redacted(buffered \o chunk)
            passed == IF Len(clean) > Keep THEN Len(clean) - Keep ELSE 0
        IN  /\ received' = received \o chunk
            /\ sent' = sent \o SubSeq(clean, 1, passed)
            /\ buffered' = SubSeq(clean, passed + 1, Len(clean))
  BY DEF PassChunk
<1>2. chunk \in Seq(Bytes)
  <2>1. PICK n \in 1 .. MaxChunk : chunk \in [1 .. n -> Bytes]
    BY DEF Chunks
  <2> QED BY <2>1, BytesAssumption, SeqDef
<1>3. /\ received \in Seq(Bytes) /\ buffered \in Seq(Bytes) /\ sent \in Seq(Bytes)
      /\ stream = "open" /\ stream' = "open"
      /\ \A c \in Seq(Bytes) : Resumes(received, sent, buffered, c)
  BY DEF StreamInv, RedactionTypeOK, PassChunk
<1> DEFINE s == buffered \o chunk
           clean == Redacted(s)
           passed == IF Len(clean) > Keep THEN Len(clean) - Keep ELSE 0
           A == SubSeq(clean, 1, passed)
           B == SubSeq(clean, passed + 1, Len(clean))
<1>4. s \in Seq(Bytes) /\ clean \in Seq(Bytes)
  BY <1>2, <1>3, ConcatFacts, RedactedType
<1>5. received' = received \o chunk /\ sent' = sent \o A /\ buffered' = B
  BY <1>1
<1> HIDE DEF s, clean
<1>6. Len(clean) \in Nat /\ Keep \in Nat /\ Keep = Length - 1 /\ passed \in 0 .. Len(clean)
  BY <1>4, LenProperties, CredentialHasLength DEF Keep
<1>7. A \in Seq(Bytes) /\ Len(A) = passed
  <2>1. \A i \in 1 .. passed : clean[i] \in Bytes
    BY <1>4, <1>6, ElementOfSeq
  <2>2. A \in Seq(Bytes) /\ Len(A) = IF 1 <= passed THEN passed - 1 + 1 ELSE 0
    BY <1>6, <2>1, SubSeqProperties
  <2> HIDE DEF passed, A
  <2> QED BY <1>6, <2>2
<1>8. B \in Seq(Bytes) /\ Len(B) = Len(clean) - passed
  <2>1. \A i \in passed + 1 .. Len(clean) : clean[i] \in Bytes
    BY <1>4, <1>6, ElementOfSeq
  <2>2. B \in Seq(Bytes) /\ Len(B) = IF passed + 1 <= Len(clean) THEN Len(clean) - (passed + 1) + 1 ELSE 0
    BY <1>6, <2>1, SubSeqProperties
  <2> HIDE DEF passed, B
  <2> QED BY <1>6, <2>2
<1>9. clean = A \o B
  <2>1. 1 \in 1 .. Len(clean) + 1 /\ passed \in 1 - 1 .. Len(clean) /\ Len(clean) \in passed .. Len(clean)
    BY <1>6
  <2> HIDE DEF passed
  <2>2. A \o B = SubSeq(clean, 1, Len(clean))
    BY <1>4, <2>1, ConcatAdjacentSubSeq
  <2> QED BY <1>4, <2>2, SubSeqFull
<1>10. Len(B) < Length /\ (A = <<>> \/ Len(B) = Length - 1)
  <2>1. CASE Len(clean) > Keep
    <3>1. passed = Len(clean) - Keep
      BY <2>1
    <3> HIDE DEF passed, B
    <3> QED BY <1>6, <1>8, <3>1, CredentialHasLength
  <2>2. CASE ~(Len(clean) > Keep)
    <3>1. passed = 0
      BY <2>2
    <3> HIDE DEF passed, A, B
    <3>2. A = <<>>
      BY <1>7, <3>1, NothingMore
    <3> QED BY <1>6, <1>8, <2>2, <3>1, <3>2, CredentialHasLength
  <2> QED BY <2>1, <2>2
<1> HIDE DEF passed, A, B
<1>11. CutAt(clean, A, B)
  BY <1>9, <1>10 DEF CutAt
<1>12. ASSUME NEW c \in Seq(Bytes) PROVE Resumes(received \o chunk, sent \o A, B, c)
  <2>1. Redacted(s \o c) = A \o Redacted(B \o c)
    <3>1. CutAt(Redacted(s), A, B)
      BY <1>11 DEF clean
    <3>2. Resumes(s, A, B, c)
      BY <1>4, <1>7, <1>8, <3>1, AlwaysSplits, Zenon DEF Splits
    <3> QED BY <3>2 DEF Resumes
  <2> DEFINE d == chunk \o c
  <2>2. d \in Seq(Bytes)
    BY <1>2, ConcatFacts
  <2>3. Redacted(received \o d) = sent \o Redacted(buffered \o d)
    <3> HIDE DEF d
    <3> QED BY <1>3, <2>2 DEF Resumes
  <2>4. (received \o chunk) \o c = received \o d /\ s \o c = buffered \o d
    <3>1. Regrouped(received, chunk, c) /\ Regrouped(buffered, chunk, c)
      BY <1>2, <1>3, Regroup
    <3> QED BY <3>1 DEF Regrouped, s
  <2>5. sent \o (A \o Redacted(B \o c)) = (sent \o A) \o Redacted(B \o c)
    <3> DEFINE r == Redacted(B \o c)
    <3>1. r \in Seq(Bytes)
      BY <1>8, ConcatFacts, RedactedType
    <3> HIDE DEF r
    <3>2. Regrouped(sent, A, r)
      BY <1>3, <1>7, <3>1, Regroup
    <3> QED BY <3>2 DEF Regrouped, r
  <2> HIDE DEF d
  <2> QED BY <2>1, <2>3, <2>4, <2>5 DEF Resumes
<1>13. received \o chunk \in Seq(Bytes) /\ sent \o A \in Seq(Bytes)
  BY <1>2, <1>3, <1>7, ConcatFacts
<1> QED BY <1>3, <1>5, <1>8, <1>10, <1>12, <1>13 DEF StreamInv, RedactionTypeOK

LEMMA StreamNext == StreamInv /\ [RedactionNext]_redactionVars => StreamInv'
<1> SUFFICES ASSUME StreamInv, [RedactionNext]_redactionVars PROVE StreamInv'
  OBVIOUS
<1>1. CASE PassChunk
  BY <1>1, ChunkKeeps
<1>2. CASE PassRest
  <2>1. /\ stream = "open" /\ stream' = "closed" /\ received' = received
        /\ sent' = sent \o Redacted(buffered) /\ buffered' = <<>>
    BY <1>2 DEF PassRest
  <2>2. Redacted(buffered) = buffered
    BY <2>1, ShortIsKept DEF StreamInv, RedactionTypeOK
  <2>3. sent' = Redacted(received) /\ received \in Seq(Bytes)
    BY <2>1, <2>2, OpenGives DEF StreamInv, RedactionTypeOK
  <2>4. sent' \in Seq(Bytes) /\ buffered' \in Seq(Bytes)
    BY <2>1, <2>3, RedactedType, NothingMore
  <2> QED BY <2>1, <2>3, <2>4 DEF StreamInv, RedactionTypeOK
<1>3. CASE Break
  <2>1. stream = "open" /\ stream' = "broken" /\ buffered' = <<>> /\ received' = received /\ sent' = sent
    BY <1>3 DEF Break
  <2>2. sent \o buffered = Redacted(received) /\ buffered \in Seq(Bytes)
    BY <2>1, OpenGives DEF StreamInv, RedactionTypeOK
  <2> QED BY <2>1, <2>2, NothingMore DEF StreamInv, RedactionTypeOK
<1>4. CASE UNCHANGED redactionVars
  BY <1>4 DEF redactionVars, StreamInv, RedactionTypeOK
<1> QED BY <1>1, <1>2, <1>3, <1>4 DEF RedactionNext

LEMMA StreamInvariant == RedactionSpec => []StreamInv
<1>1. RedactionInit => StreamInv
  <2> SUFFICES ASSUME RedactionInit PROVE StreamInv
    OBVIOUS
  <2>1. received = <<>> /\ buffered = <<>> /\ sent = <<>> /\ stream = "open"
    BY DEF RedactionInit
  <2>2. ASSUME NEW c \in Seq(Bytes) PROVE Resumes(<<>>, <<>>, <<>>, c)
    <3>1. Redacted(c) \in Seq(Bytes)
      BY RedactedType
    <3> QED BY <3>1, NothingMore DEF Resumes
  <2> QED BY <2>1, <2>2, NothingMore, CredentialHasLength DEF StreamInv, RedactionTypeOK
<1> QED BY <1>1, StreamNext, PTL DEF RedactionSpec

(* All that is received, held back and sent is bytes. *)
THEOREM RedactionTypeCorrect == RedactionSpec => []RedactionTypeOK
<1>1. StreamInv => RedactionTypeOK
  BY DEF StreamInv
<1> QED BY <1>1, StreamInvariant, PTL

(* However a response is cut into chunks, the agent never sees the            *)
(* credential, and is given what it would be if it had come in one piece.     *)
THEOREM RedactedHoweverItIsCut == RedactionSpec => []RedactedHoweverCut
<1>1. StreamInv => RedactedHoweverCut
  <2> SUFFICES ASSUME StreamInv PROVE RedactedHoweverCut
    OBVIOUS
  <2>1. received \in Seq(Bytes) /\ sent \in Seq(Bytes) /\ buffered \in Seq(Bytes)
        /\ stream \in {"open", "closed", "broken"}
    BY DEF StreamInv, RedactionTypeOK
  <2>2. stream = "open" => sent \o buffered = Redacted(received)
    BY OpenGives
  <2>3. PICK rest \in Seq(Bytes) : sent \o rest = Redacted(received)
    <3>1. CASE stream = "open"
      BY <2>1, <2>2, <3>1
    <3>2. CASE stream = "closed"
      BY <2>1, <3>2, NothingMore DEF StreamInv
    <3>3. CASE stream = "broken"
      BY <3>3 DEF StreamInv
    <3> QED BY <2>1, <3>1, <3>2, <3>3
  <2>4. ASSUME NEW i \in 1 .. Len(sent) - Length + 1,
               SubSeq(sent, i, i + Length - 1) = ProviderSecret
        PROVE  FALSE
    <3>1. i \in Nat \ {0} /\ i + Length - 1 =< Len(sent) /\ Len(sent) \in Nat
      BY <2>1, CredentialHasLength, LenProperties
    <3>2. At(sent, i)
      BY <2>1, <2>4, <3>1, AtIsFound
    <3>3. /\ Len(sent \o rest) = Len(sent) + Len(rest) /\ Len(rest) \in Nat
          /\ \A j \in 1 .. Len(sent) : (sent \o rest)[j] = sent[j]
      BY <2>1, <2>3, ConcatFacts
    <3>4. \A k \in 1 .. Length : i + k - 1 \in 1 .. Len(sent)
      BY <3>1, CredentialHasLength
    <3>5. \A k \in 1 .. Length : (sent \o rest)[i + k - 1] = ProviderSecret[k]
      BY <3>2, <3>3, <3>4 DEF At
    <3>6. At(sent \o rest, i)
      BY <3>1, <3>3, <3>5, CredentialHasLength DEF At
    <3> QED BY <2>1, <2>3, <3>1, <3>6, NoneLeft
  <2> QED BY <2>2, <2>4 DEF StreamInv, RedactedHoweverCut
<1> QED BY <1>1, StreamInvariant, PTL

-----------------------------------------------------------------------------
(* The parts together.                                                       *)

LEMMA MembershipOfPlane == ControlPlaneSpec => MembershipSpec
<1>1. ControlPlaneInit => MembershipInit
  BY DEF ControlPlaneInit
<1>2. [ControlPlaneNext]_controlPlaneVars => [MembershipNext]_membershipVars
  BY DEF ControlPlaneNext, controlPlaneVars, MembershipSteps, MachineSteps, ApprovalsSteps,
    TreeSteps, ProxySteps, RedactionSteps, AccessSteps
<1> QED BY <1>1, <1>2, PTL DEF ControlPlaneSpec, MembershipSpec

LEMMA MachinesOfPlane == ControlPlaneSpec => MachineSpec
<1>1. ControlPlaneInit => MachineInit
  BY DEF ControlPlaneInit
<1>2. [ControlPlaneNext]_controlPlaneVars => [MachineNext]_machineVars
  BY DEF ControlPlaneNext, controlPlaneVars, MembershipSteps, MachineSteps, ApprovalsSteps,
    TreeSteps, ProxySteps, RedactionSteps, AccessSteps
<1> QED BY <1>1, <1>2, PTL DEF ControlPlaneSpec, MachineSpec

LEMMA ApprovalsOfPlane == ControlPlaneSpec => ApprovalsSpec
<1>1. ControlPlaneInit => ApprovalsInit
  BY DEF ControlPlaneInit
<1>2. [ControlPlaneNext]_controlPlaneVars => [ApprovalsNext]_approvalVars
  BY DEF ControlPlaneNext, controlPlaneVars, MembershipSteps, MachineSteps, ApprovalsSteps,
    TreeSteps, ProxySteps, RedactionSteps, AccessSteps
<1> QED BY <1>1, <1>2, PTL DEF ControlPlaneSpec, ApprovalsSpec

LEMMA TreeOfPlane == ControlPlaneSpec => TreeSpec
<1>1. ControlPlaneInit => TreeInit
  BY DEF ControlPlaneInit
<1>2. [ControlPlaneNext]_controlPlaneVars => [TreeNext]_treeVars
  BY DEF ControlPlaneNext, controlPlaneVars, MembershipSteps, MachineSteps, ApprovalsSteps,
    TreeSteps, ProxySteps, RedactionSteps, AccessSteps
<1> QED BY <1>1, <1>2, PTL DEF ControlPlaneSpec, TreeSpec

LEMMA ProxyOfPlane == ControlPlaneSpec => ProxySpec
<1>1. ControlPlaneInit => ProxyInit
  BY DEF ControlPlaneInit
<1>2. [ControlPlaneNext]_controlPlaneVars => [ProxyNext]_proxyVars
  BY DEF ControlPlaneNext, controlPlaneVars, MembershipSteps, MachineSteps, ApprovalsSteps,
    TreeSteps, ProxySteps, RedactionSteps, AccessSteps
<1> QED BY <1>1, <1>2, PTL DEF ControlPlaneSpec, ProxySpec

LEMMA AccessOfPlane == ControlPlaneSpec => AccessSpec
<1>1. ControlPlaneInit => AccessInit
  BY DEF ControlPlaneInit
<1>2. [ControlPlaneNext]_controlPlaneVars => [AccessNext]_accessVars
  BY DEF ControlPlaneNext, controlPlaneVars, MembershipSteps, MachineSteps, ApprovalsSteps,
    TreeSteps, ProxySteps, RedactionSteps, AccessSteps
<1> QED BY <1>1, <1>2, PTL DEF ControlPlaneSpec, AccessSpec

LEMMA RedactionOfPlane == ControlPlaneSpec => RedactionSpec
<1>1. ControlPlaneInit => RedactionInit
  BY DEF ControlPlaneInit
<1>2. [ControlPlaneNext]_controlPlaneVars => [RedactionNext]_redactionVars
  BY DEF ControlPlaneNext, controlPlaneVars, MembershipSteps, MachineSteps, ApprovalsSteps,
    TreeSteps, ProxySteps, RedactionSteps, AccessSteps
<1> QED BY <1>1, <1>2, PTL DEF ControlPlaneSpec, RedactionSpec

(* Of the whole control plane: what its rows and its requests hold.           *)
THEOREM ControlPlaneTypeCorrect == ControlPlaneSpec => []ControlPlaneTypeOK
<1>1. MembershipTypeOK /\ MachineTypeOK /\ ApprovalsTypeOK /\ TreeTypeOK /\ ProxyTypeOK
      /\ RedactionTypeOK /\ AccessTypeOK => ControlPlaneTypeOK
  BY DEF ControlPlaneTypeOK
<1> QED BY <1>1, MembershipOfPlane, MachinesOfPlane, ApprovalsOfPlane, TreeOfPlane, ProxyOfPlane,
     AccessOfPlane, RedactionOfPlane, MembershipTypeCorrect, MachineTypeCorrect,
     ApprovalsTypeCorrect, TreeTypeCorrect, ProxyTypeCorrect, RedactionTypeCorrect,
     AccessTypeCorrect, PTL

(* The control plane as a whole keeps what each of its parts promises: no     *)
(* permission the owner has not given, no share of one who has left, no       *)
(* token of a revoked machine, no change that was not approved, no secret     *)
(* that lost its folders but to an overlap or a pattern, no read that differs  *)
(* from what is there, no request with a credential that was not current, no   *)
(* credential in a response, no decision by a list that was replaced.         *)
THEOREM PartsKeepTheirPromises ==
  ControlPlaneSpec =>
    /\ [](/\ GrantsFromOwner /\ SharesOfMembers
          /\ RevokedStaysOut
          /\ AppliedIfApproved /\ StepsAreCounted
          /\ FoldersHold /\ ReadsResolve
          /\ ProxySecretIsCurrent /\ RedactedHoweverCut
          /\ DecisionsFollowUpdates)
    /\ JoinsWithinInviter /\ LeaversLockedOut /\ LockHolds
<1>1. ControlPlaneSpec => []GrantsFromOwner /\ []SharesOfMembers
  BY MembershipOfPlane, GrantsFromOwnerHolds, SharesStayWithMembers, PTL
<1>2. ControlPlaneSpec => []RevokedStaysOut /\ []AppliedIfApproved /\ []StepsAreCounted
  BY MachinesOfPlane, RevocationIsFinal, ApprovalsOfPlane, AppliedOnlyIfApproved, StepsCounted, PTL
<1>3. ControlPlaneSpec => []FoldersHold /\ []ReadsResolve /\ []ProxySecretIsCurrent
  BY TreeOfPlane, FoldersStayAbove, ReadsFindTheirValues, ProxyOfPlane, ProxyGetsCurrentSecret, PTL
<1>4. ControlPlaneSpec => []RedactedHoweverCut /\ []DecisionsFollowUpdates
  BY RedactionOfPlane, RedactedHoweverItIsCut, AccessOfPlane, DecisionsFollowUpdatesHolds,
     PTL
<1>5. ControlPlaneSpec => JoinsWithinInviter /\ LeaversLockedOut /\ LockHolds
  BY MembershipOfPlane, JoinsWithinInviterHolds, LeaversAreLockedOut, MachinesOfPlane, LocksHold, PTL
<1> QED BY <1>1, <1>2, <1>3, <1>4, <1>5, PTL

=============================================================================
