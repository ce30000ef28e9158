------------------------------ MODULE MachineAuth ------------------------------
(***************************************************************************)
(* A machine identity: its credentials, the access tokens they are          *)
(* exchanged for, rotation with an overlap, revocation, and the lock after   *)
(* repeated failures.                                                       *)
(*                                                                         *)
(* As everywhere in the API, a request reads its rows without locks and     *)
(* later writes, by primary key, the columns that it has changed: a call    *)
(* reads in its first step and commits in its second.  "seen" is the row of *)
(* the identity it has read, and a column is written only if it differs     *)
(* from that.                                                               *)
(***************************************************************************)
EXTENDS Integers, Sequences, FiniteSets

CONSTANTS
  Machines,       \* requests that may be in progress at the same time
  MaxAttempts,    \* settings.machine_auth_max_failed_attempts
  LockTime,       \* settings.machine_auth_lockout_seconds
  TokenTime,      \* access_token_ttl_seconds
  Windows,        \* the values overlap_seconds may take
  MaxCredentials, \* bound on the credentials inserted
  MaxClock,       \* bound on the clock
  MaxRequests     \* bound on the requests made

ASSUME MachineAssumption ==
  /\ MaxAttempts \in Nat \ {0} /\ LockTime \in Nat \ {0} /\ TokenTime \in Nat \ {0}
  /\ Windows \subseteq Nat
  /\ MaxCredentials \in Nat /\ MaxClock \in Nat /\ MaxRequests \in Nat

VARIABLES
  identity,    \* the row of machine_identities
  credentials, \* machine_identity_credentials, in the order of their inserts
  issued,      \* the access tokens that machines hold
  machine,     \* what each request in progress has read
  now,
  made,        \* the number of requests made
  barred       \* history: credentials whose revocation was committed

machineVars == <<identity, credentials, issued, machine, now, made, barred>>

-----------------------------------------------------------------------------
Never == MaxClock + 1

(* locked: the time until which the identity is locked, 0: not locked.      *)
Identity == [revoked: BOOLEAN, disabled: BOOLEAN, locked: Nat, attempts: Nat]
Credential == [revoked: BOOLEAN, version: Nat, expires: Nat, overlap: Nat]
AccessToken == [credential: Nat, version: Nat, until: Nat]

MachineCall ==
  [op: {"none", "rotate", "revoke", "insert", "drop", "disable", "enable", "unlock",
        "exchange", "failure"},
   seen: Identity, credential: Nat, version: Nat, rows: SUBSET Nat, window: Nat, at: Nat]

Fresh == [revoked |-> FALSE, disabled |-> FALSE, locked |-> 0, attempts |-> 0]
NoRequestYet == [op |-> "none", seen |-> Fresh, credential |-> 0, version |-> 0, rows |-> {},
                 window |-> 0, at |-> 0]

(* is_machine_identity_active *)
IdentityActive == ~identity.revoked /\ ~identity.disabled /\ identity.locked =< now

(* is_machine_credential_active *)
CredentialActive(k) ==
  /\ ~credentials[k].revoked
  /\ now < credentials[k].expires /\ now < credentials[k].overlap

(* resolve_machine_identity_from_access_token *)
Accepted(token) ==
  /\ now < token.until
  /\ IdentityActive
  /\ CredentialActive(token.credential)
  /\ token.version = credentials[token.credential].version

NewCredential(version, expires) ==
  [revoked |-> FALSE, version |-> version, expires |-> expires, overlap |-> Never]

Reads(m, fields) ==
  /\ made' = made + 1
  /\ machine' = [machine EXCEPT ![m] = fields]
  /\ UNCHANGED <<identity, credentials, issued, now, barred>>

Operation(op) == [NoRequestYet EXCEPT !.op = op, !.seen = identity, !.at = now]

Done(m) ==
  /\ machine' = [machine EXCEPT ![m] = NoRequestYet]
  /\ UNCHANGED <<now, made>>

-----------------------------------------------------------------------------
(* create_machine_identity *)
MachineInit ==
  /\ identity = Fresh
  /\ \E expires \in {1, Never} : credentials = <<NewCredential(1, expires)>>
  /\ issued = {}
  /\ machine = [m \in Machines |-> NoRequestYet]
  /\ now = 0 /\ made = 0
  /\ barred = {}

(* rotate_machine_identity_secret: the credential that is named, also one   *)
(* that is not active any more, or else the latest that is not revoked.     *)
Rotate(m) ==
  /\ ~identity.revoked
  /\ \E k \in DOMAIN credentials, window \in Windows :
       Reads(m, [Operation("rotate") EXCEPT !.credential = k, !.version = credentials[k].version,
                                            !.window = window])

(* Mutant: the overlap reactivates the old credential. *)
CommitRotateReopening(m) ==
  LET q == machine[m]
      Old(c) == IF q.window = 0 THEN [c EXCEPT !.revoked = TRUE]
                ELSE [c EXCEPT !.overlap = q.at + q.window, !.revoked = FALSE]
  IN  /\ q.op = "rotate" /\ Len(credentials) < MaxCredentials
      /\ \E expires \in {now + 1, Never} :
           credentials' = Append([credentials EXCEPT ![q.credential] = Old(@)],
                                 NewCredential(q.version + 1, expires))
      /\ barred' = IF q.window = 0 THEN barred \cup {q.credential} ELSE barred
      /\ Done(m)
      /\ UNCHANGED <<identity, issued>>

(* The old one is revoked, or stays for the overlap; a new one is inserted. *)
CommitRotate(m) ==
  LET q == machine[m]
      Old(c) == IF q.window = 0 THEN [c EXCEPT !.revoked = TRUE]
                ELSE [c EXCEPT !.overlap = q.at + q.window]
  IN  /\ q.op = "rotate" /\ Len(credentials) < MaxCredentials
      /\ \E expires \in {now + 1, Never} :
           credentials' = Append([credentials EXCEPT ![q.credential] = Old(@)],
                                 NewCredential(q.version + 1, expires))
      /\ barred' = IF q.window = 0 THEN barred \cup {q.credential} ELSE barred
      /\ Done(m)
      /\ UNCHANGED <<identity, issued>>

(* revoke_machine_identity: the identity and the credentials that were      *)
(* found not revoked.                                                       *)
RevokeIdentity(m) ==
  /\ ~identity.revoked
  /\ Reads(m, [Operation("revoke") EXCEPT
                 !.rows = {k \in DOMAIN credentials : ~credentials[k].revoked}])

CommitRevokeIdentity(m) ==
  LET q == machine[m]
  IN  /\ q.op = "revoke"
      /\ identity' = [identity EXCEPT !.revoked = TRUE]
      /\ credentials' = [k \in DOMAIN credentials |->
                           IF k \in q.rows THEN [credentials[k] EXCEPT !.revoked = TRUE]
                           ELSE credentials[k]]
      /\ barred' = barred \cup DOMAIN credentials
      /\ Done(m)
      /\ UNCHANGED issued

(* create_machine_credential *)
CreateCredential(m) ==
  /\ ~identity.revoked /\ ~identity.disabled
  /\ Reads(m, Operation("insert"))

CommitCreateCredential(m) ==
  /\ machine[m].op = "insert" /\ Len(credentials) < MaxCredentials
  /\ \E expires \in {now + 1, Never} :
       credentials' = Append(credentials, NewCredential(1, expires))
  /\ Done(m)
  /\ UNCHANGED <<identity, issued, barred>>

(* revoke_machine_credential *)
RevokeCredential(m) ==
  \E k \in DOMAIN credentials :
    /\ ~credentials[k].revoked
    /\ Reads(m, [Operation("drop") EXCEPT !.credential = k, !.version = credentials[k].version])

CommitRevokeCredential(m) ==
  LET q == machine[m]
  IN  /\ q.op = "drop"
      /\ credentials' = [credentials EXCEPT ![q.credential].revoked = TRUE,
                                            ![q.credential].version = q.version + 1]
      /\ barred' = barred \cup {q.credential}
      /\ Done(m)
      /\ UNCHANGED <<identity, issued>>

-----------------------------------------------------------------------------
(* disable_machine_identity, enable_machine_identity, unlock_machine_identity *)
Disable(m) == Reads(m, Operation("disable"))
Enable(m) == ~identity.revoked /\ Reads(m, Operation("enable"))
Unlock(m) == Reads(m, Operation("unlock"))

CommitSwitch(m) ==
  LET q == machine[m]
  IN  /\ q.op \in {"disable", "enable"}
      /\ identity' = IF q.seen.disabled = (q.op = "disable") THEN identity
                     ELSE [identity EXCEPT !.disabled = (q.op = "disable")]
      /\ Done(m)
      /\ UNCHANGED <<credentials, issued, barred>>

(* The counter and the lock are set back where they were found set.         *)
SetBack(seen) ==
  [identity EXCEPT !.attempts = IF seen.attempts = 0 THEN @ ELSE 0,
                   !.locked = IF seen.locked = 0 THEN @ ELSE 0]

CommitUnlock(m) ==
  /\ machine[m].op = "unlock"
  /\ identity' = SetBack(machine[m].seen)
  /\ Done(m)
  /\ UNCHANGED <<credentials, issued, barred>>

(* exchange_machine_identity_token: the right secret of an active           *)
(* credential, while the identity is active ...                             *)
Exchanges(m) ==
  \E k \in DOMAIN credentials :
    /\ CredentialActive(k) /\ IdentityActive
    /\ Reads(m, [Operation("exchange") EXCEPT !.credential = k, !.version = credentials[k].version])

(* Mutant: the columns are written whatever was read. *)
CommitExchangeClearing(m) ==
  LET q == machine[m]
  IN  /\ q.op = "exchange"
      /\ issued' = issued \cup {[credential |-> q.credential, version |-> q.version,
                                 until |-> q.at + TokenTime]}
      /\ identity' = [identity EXCEPT !.attempts = 0, !.locked = 0]
      /\ Done(m)
      /\ UNCHANGED <<credentials, barred>>

CommitExchange(m) ==
  LET q == machine[m]
  IN  /\ q.op = "exchange"
      /\ issued' = issued \cup {[credential |-> q.credential, version |-> q.version,
                                 until |-> q.at + TokenTime]}
      /\ identity' = SetBack(q.seen)
      /\ Done(m)
      /\ UNCHANGED <<credentials, barred>>

(* ... and a wrong secret, which counts also while the identity is locked,  *)
(* disabled or revoked.                                                     *)
Fails(m) == Reads(m, Operation("failure"))

CommitFailure(m) ==
  LET q == machine[m]
      attempts == q.seen.attempts + 1
  IN  /\ q.op = "failure"
      /\ identity' = [identity EXCEPT
            !.attempts = attempts,
            !.locked = IF attempts >= MaxAttempts THEN q.at + LockTime ELSE @]
      /\ Done(m)
      /\ UNCHANGED <<credentials, issued, barred>>

Passes ==
  /\ now < MaxClock
  /\ now' = now + 1
  /\ UNCHANGED <<identity, credentials, issued, machine, made, barred>>

-----------------------------------------------------------------------------
MachineCommits(m) ==
  \/ CommitRotate(m) \/ CommitRevokeIdentity(m) \/ CommitCreateCredential(m)
  \/ CommitRevokeCredential(m) \/ CommitSwitch(m) \/ CommitUnlock(m)
  \/ CommitExchange(m) \/ CommitFailure(m)

MachineRequests(m) ==
  /\ machine[m].op = "none" /\ made < MaxRequests
  /\ \/ Rotate(m) \/ RevokeIdentity(m) \/ CreateCredential(m) \/ RevokeCredential(m)
     \/ Disable(m) \/ Enable(m) \/ Unlock(m) \/ Exchanges(m) \/ Fails(m)

MachineNext == (\E m \in Machines : MachineRequests(m) \/ MachineCommits(m)) \/ Passes

MachineSpec == MachineInit /\ [][MachineNext]_machineVars

-----------------------------------------------------------------------------
(* Rows hold what their columns hold; tokens and calls name credentials     *)
(* that exist.                                                              *)
MachineTypeOK ==
  /\ identity \in Identity
  /\ credentials \in Seq(Credential) /\ credentials # <<>>
  /\ issued \subseteq AccessToken
  /\ \A token \in issued : token.credential \in DOMAIN credentials
  /\ machine \in [Machines -> MachineCall]
  /\ \A m \in Machines : machine[m].credential \in 0 .. Len(credentials)
                           /\ machine[m].rows \subseteq DOMAIN credentials
  /\ now \in Nat /\ made \in Nat
  /\ barred \subseteq DOMAIN credentials

(* "blocks both new token exchange and existing access tokens immediately"  *)
(* (docs/MACHINE_IDENTITIES.md:57): no later enable, unlock or rotation of  *)
(* the same credential, and no request that overlaps with the revocation,   *)
(* makes it or one of its tokens usable again.                              *)
RevokedStaysOut ==
  \A k \in DOMAIN credentials :
    k \in barred \/ identity.revoked =>
      /\ ~(CredentialActive(k) /\ IdentityActive)
      /\ \A token \in issued : token.credential = k => ~Accepted(token)

(* "Repeated failed client-secret checks lock the identity temporarily"     *)
(* (docs/MACHINE_IDENTITIES.md:59): before its time only an administrator   *)
(* lifts the lock, or a request that overlapped with the one that locked:   *)
(* an exchange that had found an older lock, a failure that began earlier.  *)
LockHolds ==
  [][now' = now /\ identity.locked > now /\ identity'.locked =< now =>
       \E m \in Machines :
         \/ machine[m].op = "unlock"
         \/ machine[m].op = "exchange" /\ machine[m].seen.locked # 0
         \/ machine[m].op = "failure" /\ machine[m].at < now]_machineVars

=============================================================================
