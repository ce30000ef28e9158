----------------------------- MODULE ProviderProxy -----------------------------
(***************************************************************************)
(* The key of a provider that an environment stores, under the data key of   *)
(* its project, and the proxy that fetches it for every request of an agent. *)
(*                                                                         *)
(* To store a credential and to rotate the data key take the project row     *)
(* before they read and keep it until their commit; to delete one does not.  *)
(* A commit writes the columns that differ from what was read, to the row    *)
(* that was read.                                                           *)
(***************************************************************************)
EXTENDS Integers, FiniteSets

CONSTANTS
  Editors,     \* API requests that may be in progress at the same time
  Agents,      \* requests of agents to the proxy
  Secrets,     \* what may be stored
  MaxDataKeys, \* bound on the versions of the data key
  MaxStored,   \* bound on the rows inserted
  NoEditor

ASSUME EditorsAssumption == NoEditor \notin Editors
ASSUME StoredAssumption == MaxDataKeys \in Nat /\ MaxStored \in Nat

VARIABLES
  dataKey,  \* the version of the active data key
  project,  \* who holds the row of the project
  stored,   \* the row of provider_credentials
  inserted, \* the number of rows inserted so far
  editors,  \* what each request in progress has read and encrypted
  eligible, \* whether the machine identity is active and may use the proxy
  agents,   \* where each request to the proxy is
  offered   \* history: for each request, what has been stored since it asked

proxyVars == <<dataKey, project, stored, inserted, editors, eligible, agents, offered>>

-----------------------------------------------------------------------------
NothingStored == "nothing stored"
Unreadable == "unreadable"

(* The version of the key that encrypted the value, and the version that the *)
(* row says.                                                                *)
Credentials == [id: Nat, secret: Secrets, key: Nat, version: Nat]
NoCredential == [id |-> 0, secret |-> NothingStored, key |-> 0, version |-> 0]

Editor == [op: {"none", "upsert", "upserting", "delete", "rotating"},
           secret: Secrets \cup {NothingStored}, key: Nat, seen: Credentials \cup {NoCredential}]
NoEdit == [op |-> "none", secret |-> NothingStored, key |-> 0, seen |-> NoCredential]

Agent == [phase: {"idle", "authenticated", "asking", "admitted", "answered", "forwarded",
                  "refused"},
          secret: Secrets \cup {NothingStored, Unreadable}]
NoAgent == [phase |-> "idle", secret |-> NothingStored]

IsStored == stored.id # 0

(* decrypt_project_secret *)
Decrypted == IF stored.key = stored.version THEN stored.secret ELSE Unreadable

(* What a question that is open may now be answered with. *)
Offering(row) ==
  [a \in Agents |-> IF agents[a].phase \in {"asking", "admitted"} /\ row.id # 0
                    THEN offered[a] \cup {row.secret} ELSE offered[a]]

Ended(e) == editors' = [editors EXCEPT ![e] = NoEdit]

-----------------------------------------------------------------------------
ProxyInit ==
  /\ dataKey = 1 /\ project = NoEditor
  /\ stored = NoCredential /\ inserted = 0
  /\ editors = [e \in Editors |-> NoEdit]
  /\ eligible \in BOOLEAN
  /\ agents = [a \in Agents |-> NoAgent]
  /\ offered = [a \in Agents |-> {}]

(* upsert_environment_provider_credential up to encrypt_project_secret *)
Upsert(e) ==
  /\ editors[e].op = "none"
  /\ \E s \in Secrets : editors' = [editors EXCEPT ![e] = [NoEdit EXCEPT !.op = "upsert",
                                                                        !.secret = s]]
  /\ UNCHANGED <<dataKey, project, stored, inserted, eligible, agents, offered>>

(* Mutant: the project is not locked. *)
UpsertUnlocked(e) ==
  /\ editors[e].op = "upsert"
  /\ editors' = [editors EXCEPT ![e].op = "upserting", ![e].key = dataKey, ![e].seen = stored]
  /\ UNCHANGED <<dataKey, project, stored, inserted, eligible, agents, offered>>

(* get_or_create_active_project_key takes the project; then the row is read. *)
UpsertLocks(e) ==
  /\ editors[e].op = "upsert" /\ project = NoEditor
  /\ project' = e
  /\ editors' = [editors EXCEPT ![e].op = "upserting", ![e].key = dataKey, ![e].seen = stored]
  /\ UNCHANGED <<dataKey, stored, inserted, eligible, agents, offered>>

Unlocks(e) == project' = IF project = e THEN NoEditor ELSE project

(* A new row, or the columns that have changed. *)
CommitUpsert(e) ==
  LET q == editors[e]
  IN  /\ q.op = "upserting"
      /\ \/ /\ q.seen = NoCredential /\ ~IsStored /\ inserted < MaxStored
            /\ stored' = [id |-> inserted + 1, secret |-> q.secret, key |-> q.key,
                          version |-> q.key]
            /\ inserted' = inserted + 1
         \/ /\ q.seen # NoCredential /\ stored.id = q.seen.id
            /\ stored' = [stored EXCEPT !.secret = q.secret, !.key = q.key,
                            !.version = IF q.key = q.seen.version THEN @ ELSE q.key]
            /\ UNCHANGED inserted
      /\ Unlocks(e) /\ Ended(e)
      /\ UNCHANGED <<dataKey, eligible, agents>>
      /\ offered' = Offering(stored')

(* rotate_project_encryption_key *)
RotateDataKey(e) ==
  /\ editors[e].op = "none" /\ project = NoEditor /\ dataKey < MaxDataKeys
  /\ project' = e
  /\ editors' = [editors EXCEPT ![e] = [NoEdit EXCEPT !.op = "rotating", !.key = dataKey + 1,
                                                     !.seen = stored]]
  /\ UNCHANGED <<dataKey, stored, inserted, eligible, agents, offered>>

CommitRotateDataKey(e) ==
  LET q == editors[e]
  IN  /\ q.op = "rotating"
      /\ stored' = IF q.seen = NoCredential THEN stored
                   ELSE [stored EXCEPT !.secret = q.seen.secret, !.key = q.key, !.version = q.key]
      /\ q.seen = NoCredential \/ stored.id = q.seen.id
      /\ dataKey' = q.key
      /\ Unlocks(e) /\ Ended(e)
      /\ UNCHANGED <<inserted, eligible, agents>>
      /\ offered' = Offering(stored')

(* delete_environment_provider_credential *)
DeleteCredential(e) ==
  /\ editors[e].op = "none" /\ IsStored
  /\ editors' = [editors EXCEPT ![e] = [NoEdit EXCEPT !.op = "delete", !.seen = stored]]
  /\ UNCHANGED <<dataKey, project, stored, inserted, eligible, agents, offered>>

CommitDeleteCredential(e) ==
  /\ editors[e].op = "delete"
  /\ stored' = IF stored.id = editors[e].seen.id THEN NoCredential ELSE stored
  /\ Ended(e)
  /\ UNCHANGED <<dataKey, project, inserted, eligible, agents, offered>>

(* The row that was read is gone (StaleDataError), another has inserted one  *)
(* (unique constraint), or the process ends: nothing is written.             *)
EditFails(e) ==
  /\ editors[e].op # "none"
  /\ Unlocks(e) /\ Ended(e)
  /\ UNCHANGED <<dataKey, stored, inserted, eligible, agents, offered>>

-----------------------------------------------------------------------------
Goes(a, phase) == agents' = [agents EXCEPT ![a].phase = phase]
Silent == UNCHANGED <<dataKey, project, stored, inserted, editors, eligible>>

(* authenticate_machine_request: the signature and the claims of a token     *)
(* that may be older than what has become of its identity.                   *)
Authenticate(a) ==
  /\ agents[a].phase = "idle"
  /\ Goes(a, "authenticated")
  /\ Silent /\ UNCHANGED offered

(* resolve_provider_secret: the claim "proxy:use", and a call of the control *)
(* plane.                                                                   *)
AskControlPlane(a) ==
  /\ agents[a].phase = "authenticated"
  /\ Goes(a, "asking")
  /\ Silent
  /\ offered' = [offered EXCEPT ![a] = IF IsStored THEN {stored.secret} ELSE {}]

(* resolve_proxy_credential: the identity as it is now; then the row.        *)
AdmitIdentity(a) ==
  /\ agents[a].phase = "asking" /\ eligible
  /\ Goes(a, "admitted")
  /\ Silent /\ UNCHANGED offered

ResolveCredential(a) ==
  /\ agents[a].phase = "admitted" /\ IsStored
  /\ agents' = [agents EXCEPT ![a] = [phase |-> "answered", secret |-> Decrypted]]
  /\ Silent /\ UNCHANGED offered

(* Refused by the proxy or the control plane, or no answer in time.          *)
ProxyRefuses(a) ==
  /\ agents[a].phase \in {"authenticated", "asking", "admitted", "answered"}
  /\ agents' = [agents EXCEPT ![a] = [phase |-> "refused", secret |-> NothingStored]]
  /\ Silent /\ UNCHANGED offered

Forward(a) ==
  /\ agents[a].phase = "answered"
  /\ Goes(a, "forwarded")
  /\ Silent /\ UNCHANGED offered

AgentDone(a) ==
  /\ agents[a].phase \in {"forwarded", "refused"}
  /\ agents' = [agents EXCEPT ![a] = NoAgent]
  /\ Silent /\ offered' = [offered EXCEPT ![a] = {}]

(* The identity is disabled, revoked, locked or its actions are changed, or  *)
(* the reverse (MachineAuth has these in detail).                            *)
IdentityChanges ==
  /\ eligible' = ~eligible
  /\ UNCHANGED <<dataKey, project, stored, inserted, editors, agents, offered>>

-----------------------------------------------------------------------------
Edits(e) ==
  \/ Upsert(e) \/ UpsertLocks(e) \/ CommitUpsert(e) \/ RotateDataKey(e)
  \/ CommitRotateDataKey(e) \/ DeleteCredential(e) \/ CommitDeleteCredential(e) \/ EditFails(e)

Proxies(a) ==
  \/ Authenticate(a) \/ AskControlPlane(a) \/ AdmitIdentity(a) \/ ResolveCredential(a)
  \/ ProxyRefuses(a) \/ Forward(a) \/ AgentDone(a)

ProxyNext == (\E e \in Editors : Edits(e)) \/ (\E a \in Agents : Proxies(a)) \/ IdentityChanges

ProxySpec == ProxyInit /\ [][ProxyNext]_proxyVars

-----------------------------------------------------------------------------
(* Rows hold what their columns hold; who holds the project is writing.      *)
ProxyTypeOK ==
  /\ dataKey \in Nat /\ project \in Editors \cup {NoEditor} /\ inserted \in Nat
  /\ stored \in Credentials \cup {NoCredential}
  /\ editors \in [Editors -> Editor]
  /\ project # NoEditor => editors[project].op \in {"upserting", "rotating"}
  /\ eligible \in BOOLEAN /\ agents \in [Agents -> Agent]
  /\ offered \in [Agents -> SUBSET Secrets]

(* Whatever uploads, rotations and deletions overlap, what the proxy gets for *)
(* a request can be decrypted, and is what was stored at some moment since   *)
(* it asked: nothing older, and no row of which one write is half over       *)
(* another.                                                                 *)
ProxySecretIsCurrent ==
  \A a \in Agents :
    agents[a].secret # NothingStored => agents[a].secret \in offered[a]

=============================================================================
