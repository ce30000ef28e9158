# A verification project for EnvBasis

EnvBasis keeps application secrets. Its back end is a FastAPI service over
PostgreSQL (`console/backend/app`); a React console, a command-line client
(`cli`) and a credential-injecting HTTP proxy (`proxy`) talk to it. This
directory holds TLA+ models of the parts whose correctness depends on the order
of steps of several actors, TLC configurations that check them on small
instances, and TLAPS proofs of what holds for every instance. Paths below are
relative to `src/`, and `app/` stands for `console/backend/app/`.

## 1. Inventory

Every API request is one PostgreSQL transaction at READ COMMITTED
(`app/db/session.py`: one session per request, no autoflush, closed and so rolled
back unless the handler committed). There is no application lock: what
protects shared state is row locks where a handler asks for them, unique
indexes, and foreign keys. Most of the hard behaviour comes from handlers that
read, decide, and write without a lock in between.

| component | state | operations | hard behaviour | what makes it correct |
|---|---|---|---|---|
| secret store (`routes/secrets.py`, `routes/secret_history.py`, `services/secrets.py`) | versioned rows per (environment, path, key), archived marks, retention policy | push, create, update, rollback, delete, bulk delete, recover, set retention | versions planned from unlocked reads; deletions outside the project lock; `updated_at` rewritten by maintenance | no lost update, retention limits, deletion removes the secret, recovery restores what existed |
| data keys (`services/project_encryption.py`, `services/root_key_provider.py`) | wrapped keys per project, one active; key version of every row | encrypt under the active key, rotate | rotation against concurrent writers, crash half way | every committed row readable under the active key; rotation is all or nothing |
| webhooks (`services/webhooks.py`, `routes/webhooks.py`, `workers/webhooks.py`) | webhooks, deliveries, attempts | create, enqueue, deliver a batch, retry, test, redeliver, delete | several workers, crash between POST and commit, manual redelivery against a running batch | at-least-once delivery, attempts bounded and numbered, nothing sent twice at once |
| API idempotency (`services/api_idempotency.py`) | one record per (subject, key): pending with a lease, or completed with a response | claim, replay, complete, release | racing inserts, lease expiry while the first request still runs | one response per key; a retry of a finished request changes nothing |
| CLI device login (`routes/cli_auth.py`, `services/cli_auth.py`) | device codes, refresh and access tokens | start, verify or deny, poll, refresh, log out | handlers read then write without locks | a code is exchanged once; a denied code gives no token; logout ends the session |
| invitations (`services/invitation_service.py`) | invitations, memberships | invite, resend, accept, reject, revoke, expire | accept against revoke and reject; cooldown and send counts | no membership from a revoked invitation; at most one pending per address |
| approvals (`services/approvals.py`, `routes/approvals.py`) | policies, change requests, votes | request, vote, apply, cancel, edit policy | policy edited while requests are pending; applied change meets a newer secret | no change without its approvals; every pending request can be resolved |
| machine identities (`services/machine_identities.py`, `routes/machine_identities.py`) | identities, credentials, failure counters | create, issue, rotate, revoke, disable, unlock, exchange | revocation against a token exchange; failures counted by read and increment | a revoked credential yields no new token; lockout after the configured failures |
| runtime tokens (`routes/runtime_tokens.py`, `routes/runtime.py`) | tokens, shares | create, reveal, share, revoke, use | member removal against sharing | tokens of removed members stop working |
| projects, environments, members (`routes/projects.py`) | projects, environments, members and their permissions | create, rename, delete, change permissions, revoke members | bulk changes, delegation limits | nobody delegates what he does not have |
| access control (`services/access_control.py`, `routes/access_control.py`) | roles, grants, assignments | evaluate, edit | two updates of one role delete what each has found and leave both lists | what is decided follows the last update of every role |
| secret references (`services/secret_resolution.py`) | none (pure) | resolve references, find cycles | recursion, cycles, inheritance | every reference resolves or a cycle is reported |
| secret import and structure (`routes/secret_imports.py`, `routes/secret_structure.py`, `services/secret_structure.py`) | folders, imports, tags | create and delete folders, create, change and delete imports | a folder is deleted while something is put into it; what lies below it is found by an unescaped LIKE | folders above a secret exist |
| rate limiting and middleware (`core/middleware.py`) | counters per client and window | admit or refuse | window boundaries, bounded memory | no more than the limit per window |
| proxy (`proxy/src/envbasis_proxy`) | none (a credential is fetched for every request) | authenticate the token locally, resolve the credential at the control plane, validate, forward | revocation against a token still valid locally; a credential split over chunks of a response | the credential is a current one, and no response shows it |
| provider credentials (`services/provider_credentials.py`) | one encrypted row per (environment, provider) | upsert, delete, read | rotation | as for secrets |
| audit log (`services/audit.py`) | append-only rows | append, delete old ones | shared by every component | an entry commits with the change it reports |
| command-line client (`cli`) | one session in the keyring, configuration files | every command | several processes share the keyring | nobody is left with a dead session |
| console front end, deployment, migrations | | | presentation, configuration, one-shot scripts | |

`PROJECT.json` lists the hazards, each at its line of the source.

## 2. Modules

Each component has a specification module; the `MC` module with its small
instances; and, where something is proved, a `_proofs` module. In the order of
importance:

| module | models | section |
|---|---|---|
| `SecretStore` | versions, deletion, recovery, retention, data-key rotation | 3 |
| `WebhookQueue`, refining `DeliveryPromise` | the delivery queue and its workers, with crashes | 4 |
| `IdempotencyRecords` | claims, leases, replays | 5 |
| `CliAuth` | device login, refresh rotation and logout, with the keyring that several processes share | 6 |
| `Membership` | invitations, members and their permissions, runtime tokens shared with them | 7 |
| `MachineAuth` | credentials of machines, rotation, revocation, the lock after failures | 7 |
| `Approvals` | policies, requests, decisions, and the changes they apply | 7 |
| `SecretTree` | folders, imports, references and their resolution | 7 |
| `ProviderProxy`, `StreamRedaction` | provider credentials and the proxy that uses them | 7 |
| `AccessControl` | roles, their updates and assignments, and how a request is decided by them | 7 |
| `ControlPlane` | the last seven together | 7 |

The first four have runs of their own. They touch nowhere but in what section 3
says of the project row: webhooks are enqueued in the transaction of their event
(modelled as the event's own), an idempotency key wraps whole handlers
(`Execute`), and a change of the secret store is one step for everybody else.

All API models have the same form, since all handlers do: a request reads its
rows without locks in one step and commits in another, and the commit writes what
SQLAlchemy emits: inserts, which unique indexes and foreign keys may refuse;
deletes by primary key; updates of exactly the columns that differ from what was
read, which fail when their row is gone. Where a handler takes a row lock, the
model has it. History variables (`raced`, `forked`, `edited`, `crossed`,
`unchecked`, ...) record that requests overlapped on the same rows, so that the
properties can say precisely when the unlocked reads may show.

## 3. Secret store

### Model

`SecretStore` is one environment of one project. `secrets` is the committed
table, `activeKey` the version of the active data key (0 before the first one),
`policy` the retention settings, `projectLock` the transaction that holds the
project row FOR UPDATE, `clock` the database clock. `txn[w]` is what the
transaction of request `w` has read and written so far; nothing of it is in
`secrets` before `Commit`. `restarted` and the field `created` are history
variables that the properties need and the code has not.

A request goes `Start` (authentication fixes `now()` and loads the project),
one of the `Read` actions (the handler reads the latest versions and decides what
it will write, or refuses), then one step for each statement that can wait or
fail, then `Commit`. The steps of a write are `LockProject` (taken by the first
`encrypt_project_secret`), and per key `WriteItem` (insert the version, pick
versions to archive) or `Conflict` (the unique index). The steps of a deletion are
`SelectRows` (the SELECT ... FOR UPDATE begins and fixes its snapshot) and
`DeleteItem` (it has the locks) or `DeleteMissing` (404). A rotation locks the
project in `Rotate` and writes everything in its `Commit`. `Abort` is a crash or a
failed request at any point. Who waits for whom is `WaitsFor`; a cycle is broken
by `DeadlockAbort`, as PostgreSQL does.

Deletions do not take the project lock, but every request inserts an audit row
whose foreign key needs a share lock on the project row, so `Commit` waits for
`projectLock` in every request. That one line of schema is what keeps a
deletion from removing rows under a rotation or an archiving writer
(`RowsStillThere`; its mutant drops the wait).

Abstractions: a value stands for the whole content of a version; permission and
approval checks may refuse any request and are left to other modules; folder and tag
rows, which only add unique-index conflicts, are left out; so are legacy
tombstones (`is_deleted`), which no current operation writes. UPDATEs of archived
rows are sent in the commit's flush; SQLAlchemy sends those of earlier keys of
a push with each later insert, which only moves the point at which the same
lock cycle is met. Rollback's and recovery's two SELECTs are one step.

### Checks

| run | instance | shows |
|---|---|---|
| `SecretStore_core` | 2 requests, 1 key, 3 versions, 1 rotation, clock up to 1; policies: keep one version, or archive by age | `TypeOK`, `NoRetiredKey`, `RotationIsComplete`, `RetentionRespected` |
| `SecretStore_three` | 3 requests, 1 key, 2 values, 3 versions, keep two | a deletion and a write between a third request's read and write: `NoLostUpdate`, `RowsStillThere` |
| `SecretStore_live` | 2 requests, 2 keys, strong fairness | lock cycles over two keys, bulk operations: `RequestsEnd` |
| `SecretStore_deleted`, `SecretStore_recovery` | as small as the counterexample allows | two disagreements with the documentation, below |

The bounds (`MaxVersion`, `MaxKeyVersion`, `MaxTime`) cut requests that would go
beyond them, never the middle of one. Three versions let a secret be deleted,
recreated and outgrow the retention limit; two requests suffice for every lock
cycle over one or two rows, three for a stale plan that survives a deletion.

Fairness: each request is strongly fair on its own progress. PostgreSQL queues
lock waiters, so a session that can go on again and again does. Starting requests,
crashes and the clock are not fair.

### What the checks found

* `DeletedStaysDeleted`: a write that read the secret before a deletion
  committed writes the version number it had planned, so the secret is back at
  version n+1. The console promises "This permanently removes the secret and its history."
* `RecoveryKeepsSecrets`: rotation and archiving rewrite `updated_at`, by which
  recovery judges what existed; recovering to a time before a rotation plans to
  delete every secret.

Three consequences no document speaks of: a version committed while a deletion
waits for its row locks is not among the rows it deletes and survives it; after such a race an acknowledged
create can insert version 1 beneath a resurrected version 2, where no reader
finds it; and a row archived in between may be the latest version. `NoLostUpdate` is
therefore stated for secrets not deleted since the request read them.

### Proofs

`SecretStore_proofs` proves, for any requests, keys, values and policies:
`TypeCorrect`, `LockDisciplineHolds`, `NoRetiredKeyHolds`,
`RotationIsCompleteHolds`, `NoLostUpdateHolds`, `RowsStillThereHolds` and
`RetentionIsRespected`, from the assumptions on the constants in
`SecretStore`. `NoRetiredKey` alone is not inductive: the invariant is
`KeyInv == NoRetiredKey /\ LockDiscipline`, where the discipline says that whatever a
running request has encrypted is under the active key and that it holds the project
row until it ends, while a rotation holds it from before it loads the rows, so
that the rows it loaded are still all rows when it commits. `TypeOK` needs that
the latest version of a non-empty secret exists (`LatestIsRow`, by well-founded
minimality).

The last three hold together, by `StoreInv`. None is inductive alone: that a loaded row is
still there at the commit (`LoadedOK`) needs that no two requests are about to delete the same row and
that a commit waits for the project lock, as the writers hold it; that a number comes
right after the latest one (`NumbersOK`) needs that, since a number is free only while its
predecessor is there, and needs that what is still planned will either follow or be refused; and
that what an archiving write leaves is within its policy (`KeepsOK`) needs both,
as the rows it chose from are read before the lock. The rest of the argument is
counting: `Index`, the number of younger rows, does not grow when rows are deleted.

`RequestsEnd` is model-checked only: liveness under fairness is out of the
prover's reach. `DeletedStaysDeleted` and `RecoveryKeepsSecrets` are false.

## 4. Webhook queue

### Model

`WebhookQueue` models the tables `webhooks` (`hooks`), `webhook_deliveries`
(`rows`, one for each webhook and event, as the unique idempotency key has it)
and `webhook_delivery_attempts` (`attempts`). `batch[w]` is the open transaction
of worker process `w`: the rows it holds locked and the results it has got so
far. `request[r]` is what an API request has read. `announced`, `tried` and
`owed` are history: deliveries whose event committed, attempts really made, and
deliveries accepted and not attempted since; so are, for each delivery, `sent`,
`redelivered` and `lost`: requests that may have gone out, redeliveries served, and
attempts that a crash forgot.

`Dispatch` is `ReadTargets` completed: an event reads the active webhooks, and
commits with a queued delivery for each one; `FailRequest` rolls both back.
`Claim` is the SELECT ... FOR UPDATE SKIP LOCKED of due rows. `Deliver` is one
attempt: the code goes through the addresses of the host
(`app/services/webhooks.py:351`) and sends the request again to the next one
after a connection error or a timeout, so an attempt sends up to `MaxAddresses`
requests (one that is refused before its first request is counted as if it had
sent it, which an upper bound may do). `CommitBatch` writes every row and attempt of the batch in one commit
(`Attempted` decides success, retry or failure), `Crash` loses the batch: the
requests were sent and the tables know nothing of it. A batch also ends in
`Crash` when a delivery in it raises. `ReadDelivery` and `Requeue` are manual
redelivery, which reads without a lock and updates later; the UPDATE waits for a
worker that holds the row. `DeleteWebhook` cascades and waits likewise.

Abstractions: time is "due" or "not due" (`ComesDue`), so backoff lengths are
left out; which of the due rows make up a batch is arbitrary; webhooks are
enabled (the settings' default is off) and a destination's answer is one of
three `Results`. The branch for inactive webhooks is left out, since nothing ever
clears `is_active`. A request's project, signing and URL validation are data.

`DeliveryPromise` is what one delivery promises its owner: it is tried until an
attempt settles it, every recorded attempt was really made, and only a
redelivery opens it again. Attempts may be made and not recorded, by a crash
before the commit: so docs/WEBHOOKS.md:51, "Every actual request creates a row",
holds up to crashes.

### Checks

| run | instance | shows |
|---|---|---|
| `WebhookQueue_queue` | 2 workers, batches of 2, 2 webhooks, 1 event, 2 attempts, up to 2 addresses, 2 API requests, 1 crash, 2 redeliveries | `TypeOK`, `HistoryMatches`, `OneSender`, `AcceptedIsServed`, `QueuedWithItsEvent`, `RequestsBounded`, and `KeepsPromise` (refinement) |
| `WebhookQueue_live` | 2 workers, 1 webhook, 2 events, 1 crash, 1 redelivery | `EveryDeliveryEnds` |
| `WebhookQueue_budget` | 1 worker, 1 delivery, 2 racing redeliveries | a disagreement with the documentation, below |

Two workers with batches of two over two deliveries are the smallest instance in
which SKIP LOCKED splits the work; two redeliveries race each other and a
worker; two attempts make the first retryable and the second the last; two
addresses make one attempt send twice, which only `RequestsBounded` looks at (the
other two runs have one).

`RequestsBounded` speaks of each delivery by itself: a receiver gets
`MaxAttempts` attempts for it and as many for each of its redeliveries, one more
for each of its attempts that was forgotten, and per attempt one request for each address.

Fairness: every worker process runs its loop (weak fairness of its own steps:
a worker never waits for a row, it skips locked ones) and every backoff ends
(`ComesDue`). Clients, events and crashes are not fair; crashes and redeliveries
are bounded, without which no delivery need ever end.

### What the checks found

* `FreshBudget`: two redeliveries of one delivery read it as finished; the first is
  served to its end before the second updates the row, with the limit it computed from the
  old attempt count. The second leaves fewer than the promised attempts.

### Proofs

`WebhookQueue_proofs` proves, for any numbers of workers, webhooks, events,
attempts, batch sizes and bounds: `TypeCorrect`, `HistoryMatchesHolds`,
`OneSenderHolds`, `AcceptedIsServedHolds`, `QueuedWithItsEventHolds`,
`RequestsBoundedHolds`, and the
refinement `KeepsPromiseHolds`. The inductive invariant `QueueInv` conjoins the
five properties with three that make them inductive: the rows a batch holds are
waiting (`JobsWait`: nobody changes a locked row), events that a request has read the
targets of are not announced yet (`FreshEvents`), and announced deliveries belong
to webhooks that existed (`AnnouncedExisted`). The refinement needs one more,
`TriesCounted`: recorded attempts, and one more for an attempt a worker has made
and not yet committed, are no more than the tries.

`RequestsBounded` has an invariant of its own, `BudgetInv`: what a delivery has on record and
what it still has left (`Left`) is within what its redeliveries have granted (`Granted`); the attempts
made are those on record, one that a worker has not committed yet, and those a crash lost; and the
requests sent are no more than the attempts made, times the addresses. A waiting delivery has an attempt left even when its limit is behind its
count, which is why the limit a redelivery sets must come from a count no greater than the one it meets
(`RequestOK`).

`EveryDeliveryEnds` is model-checked only (liveness); `FreshBudget` is false.

## 5. API idempotency

### Model

`IdempotencyRecords` is one idempotency key. `record` is its row, known by the
request that inserted it; `request[r]` is how far each API request with this key
has come and what it has read. `effects` is history: the requests whose handler
has committed. `disturbed` is history too: something has failed, or some request
has outlived the lease it counts on.

A request goes `Arrive` (the time is read), `Lookup` (expired rows are deleted; 409,
replay, or go on), then `Insert` or `Conflict` (the unique constraint: claim again)
or `Takeover` of an abandoned record, `Execute` (the handler, in a transaction of
its own), `Load` and `Store` (complete or release the record). The deletion of an
expired row and the INSERT are one transaction, so that row is `Locked` in
between. `StoreFails` and `Crash` are the failures the code handles or leaves
behind; a handler that raises after it committed counts as one of them.

Abstractions: one key of one credential (the records of other keys are met only
by the deletion of expired rows, which is per row); a body stands for the
request hash; the encrypted response is the request that stored it.

### Checks

| run | instance | shows |
|---|---|---|
| `IdempotencyRecords_key` | 3 requests, 2 bodies, lease 2, retention 3, clock up to 4, 1 fault | `TypeOK`, `ReplayMatches`, `OneExecutor`, `OncePerWindow`, `StableReplay` |
| `IdempotencyRecords_lease` | 3 requests, 1 body | a disagreement with the documentation, below |

Three requests let one abandon the key and two race for it; a clock one past
the retention lets a record expire, be deleted and be replaced. Deadlock is not
checked: requests end and the clock is bounded, so the system does stop.

`ReplayMatches` holds whatever fails. The other three are promises the code can
keep only while requests end before their lease does and nothing fails between a
handler's commit and the storing of its response; that is exactly `~disturbed`.

### What the checks found

* `OneLeaseHolder`: taking a record over is an UPDATE by primary key that does not
  ask again whether the lease is over. Two retries that read the same abandoned record both
  succeed and both execute, each within its lease, though "In-progress duplicate
  requests return `409`".

### Proofs

`IdempotencyRecords_proofs` proves, for any number of requests and bodies and any
lease not longer than the retention (`SettingsAssumption`; the settings' validators
allow others): `TypeCorrect`, `OneExecutorHolds`, `OncePerWindowHolds`,
`StableReplayHolds` and `ReplayMatchesHolds`. The inductive invariant is `CalmInv`: unless disturbed, every
request is within its lease and none has met an abandoned record (`InTime`), who
executes owns the pending record and a pending record is being executed (`Owned`),
at most one request holds the expired row it replaces (`RowHeld`), and whatever was
created is on record until its window is over (`CreatedOnRecord`). A second
execution would need a record that is gone or expired, hence an executor whose
lease is over.

`ReplayMatches` holds also when requests are disturbed, so it has an invariant of its own,
`ReplayInv`: whoever works on a record has the body of the request that inserted it, whatever
takeovers lie between, and a response on record was answered to a request with
the record's body, which is done and will not change.

`OneLeaseHolder` is false (the run `IdempotencyRecords_lease`).

## 6. CLI device login

### Model

`CliAuth` has the rows of `cli_auth_sessions` (`login`) and of
`cli_auth_refresh_tokens` (`tokens`, in the order of their inserts), the one
`keyring` entry that all CLI processes of a machine share, the processes
themselves (`cli`), the request each has in the API (`request`), and the
requests of the signed-in user in the browser (`browser`). `raced`, `forked`,
`ended` and `approved` are history: logins whose status, or whose tokens, were
not what their last writer had read, logins that a logout has revoked, and
logins that the browser has approved.

A command is `Start` (login), `Refresh` or `Logout`; the process then sends its request
(`Poll`, `SendRefresh`, `SendLogout`: the API reads), the API commits (`Exchange` or
`Expire`, `Rotate`, `Revoke`), and the process changes the keyring (`Save`,
`Clear`), which another process may have changed meanwhile. `Decide` and `Decided` are
resolve, verify and deny. `NoAnswer` is a lost or late answer: the request goes on
in the API, and the process does what the code does after a failure, which for a
refresh is to clear the shared entry. `Killed` ends a process anywhere. `Tick`
lets codes and tokens run out.

Abstractions: access tokens are signed and stateless, so only the refresh
tokens are rows; the slow-down of polls and the user code are data.

### Checks

`CliAuth_login`: 2 logins, 2 processes, 2 browser requests, 3 refresh tokens, a
code and a token that live one unit of a clock that goes to 2, one fault. Two
processes are enough for a refresh beside a refresh, a logout or a login; three
tokens for two logins or two rotations of one; a second login takes the keyring from the first.
Deadlock is not checked: the bounds end every command.

* `ConsumedOnce` -- a code is exchanged once at most, whatever overlaps, and a
  consumed login has been exchanged;
* `ApprovedFirst` -- every token, rotated ones too, is of a login that the user has approved;
* `OneLiveToken` -- one live refresh token per login;
* `LogoutEnds` -- after a logout none, orphans of lost answers included;
* `KeyringUsable` -- without faults nobody leaves a revoked session in the keyring.

The exchange itself would give two polls that both read "approved" a token each. That it
happens once rests on the client: a code is known to the process that asked for it,
which polls with one request at a time and gives up when an answer is lost
(`cli/src/envbasis_cli/auth.py`). What the server does let happen is
that an approval and a denial overwrite each other, or a consumed status: `raced`
has these logins, and `ConsumedOnce` says of the others that they stay consumed.
`OneLiveToken` and `LogoutEnds` leave out the logins in `forked`: a refresh that
overlaps with a logout or with another refresh does leave a live token behind.

### Proofs

`CliAuth_proofs` proves all of them for any logins, processes, browser requests,
lifetimes and bounds: `CliAuthTypeCorrect`, `ConsumedOnceHolds`,
`ApprovedFirstHolds`, `OneLiveTokenHolds`, `LogoutEndsHolds` and
`KeyringUsableHolds`. `TypeInv` adds to the types what a request knows of its rows:
whoever is going to change a status has read one that is not final, and a token to
be rotated belongs to the login it is rotated for. `CodeInv` says that a code
which may still be exchanged is held by one process, in its command or in
the request of it, and that its login has no token yet. `LoginInv` is inductive
relative to these two: every token descends from an exchange of its login (`Rooted`);
`RootsOnce` and `LiveOnce` are the properties. `ApprovedInv` needs `TypeInv` only:
an approved or consumed status, and an exchange in progress, are of an approved
login, which passes to the tokens. `KeyringInv` speaks of runs
without faults: each process waits for the very request it has in the API
(`AllMeet`), and a token about to be saved is live, or its login has ended, and is
in nobody else's hands (`OwnToken`); so whoever revokes the keyring's token is the
process that is about to replace or clear it.

## 7. Control plane

`ControlPlane` puts seven modules side by side. No part writes a table that
another reads here, so interleaving their steps would show nothing more; the
variable `part` chooses one, and the others rest in one of their initial
states. What one part assumes of another is an action of its own
(`IdentityChanges`, `AssignRole`), wider than what the other part does.

### Membership

`member` is `project_members` with the four permissions (the owner has all),
`invitations` the rows in the order of their inserts, `tokens` and `shares` the
runtime tokens. `calls[c]` is what request `c` has read and will write. The
endpoint actions are `Invite` (create or resend), `RevokeInvitation`, `Accept`,
`ReadInvitation`, `Reject`, `UpdateMemberPermissions`, `RevokeMember` (single
and bulk), `ShareRuntimeToken` and `Fetch`; each has its `Commit...` action, `Fetch`
has `Serve`. Requests that read and write one row are one step
(`UpdateProject`, `CreateRuntimeToken`, `RevokeRuntimeToken`,
`DeleteEnvironment`, `RevealRuntimeToken`); `Time` makes invitations and tokens
run out and ends the cooldown of an invitation. `granted` is history: the permissions the owner has ever given to anybody.

* `GrantsFromOwner` -- managers invite managers and edit each other, in
  overlapping requests; nobody ever holds or is offered a permission the owner
  has not given to someone.
* `JoinsWithinInviter` -- who joins gets no more than the inviter has by then.
* `SharesOfMembers` -- tokens are shared with members only, up to a share that
  overlaps with the removal, whose recipient is not looked at again.
* `LeaversLockedOut` -- a token a leaver has seen serves nobody afterwards, if
  its deletion was asked for; not even a fetch that had begun.

### MachineAuth

One identity with its credentials, the tokens they were exchanged for (each
with the version it was issued under), and two requests at a time: rotation with an overlap, revocation
of the identity or of one credential, creation, disabling, enabling, unlocking,
exchange, and a failed check. `seen` is the identity as the request read it, and a commit
writes the columns that differ from it; `barred` are credentials whose
revocation was committed.

* `RevokedStaysOut` -- no rotation, unlock or enable, whatever it overlaps with,
  makes a revoked credential or a token of it usable again.
* `LockHolds` -- a lock ends by its time, by an administrator, or by a request
  that overlapped with the one that locked. The counter itself loses increments
  of parallel failures, so that more than the configured number may be needed;
  no document promises otherwise.

### Approvals

One policy and one secret. `requests` are the changes with their approvals,
`versions` the versions of the secret; `tally` is history: what each step that was passed
needed, and how often the change was applied. A decision locks its request
(`Unlocked`); policy, roles and secret are read without locks.

* `AppliedIfApproved` -- a change is applied once, and only for a request that
  ends approved.
* `StepsAreCounted` -- every step passed has its approvals, each of another
  person, and no request waits at a step that has enough, unless its policy was
  edited meanwhile.

The exception is real: a policy may lose steps while a request is beyond
them, after which the request can be neither approved nor rejected, only
cancelled, and one whose step now needs fewer approvals than it has waits for another
one. An update that was approved after the secret was deleted creates it anew.

### SecretTree

Folders, the latest value of each key at each place (as the set of keys it
refers to), and imports. What goes with a deleted folder is chosen by an unescaped
`LIKE '<path>/%'` (`app/api/routes/secret_structure.py:211`), in which `_` and
`%`, legal in a segment, are wildcards: `Likes` says which paths match, all that
are below and whatever else in the environment the instance has match. `deleted`
is history: the folders that were deleted by their own path. What a request brings
and nothing asks for before its commit (the value, whether its handler checks for
cycles, the settings of an import) is chosen in the commit. `View` is what a read collects, from the place, the
places below if asked, and the imports; `Resolution` follows the code's
`resolve_key`, `MeetsCycle` its search for cycles, both as recursive functions.

* `ReadsResolve` -- checked against their definitions on graphs: a plain read
  meets no cycle and resolves exactly the keys all of whose references are there,
  unless a rollback, a recovery or an approved change wrote to the place; a recursive or
  importing read reports a cycle exactly when there is one.
* `FoldersHold` -- whatever exists has its folders above it; what is missing was
  taken by a deletion that overlapped with the insertion, or belongs to another
  subtree and matched the pattern of a folder deleted there (`Mistaken`).

The second exception is real and needs no overlap: deleting `/a_b` recursively also
deletes the folders below `/axb`, and since secrets are looked for by the exact prefix
(line 221), those below `/axb` do not prevent it and stay without their folders. Reads
go by the path of a secret, so it is still read; it is the tree that has lost it.

### ProviderProxy and StreamRedaction

`ProviderProxy` is the row of one provider's credential under the data key of
its project, written and rotated under the project lock and deleted without it,
and the proxy's requests from the token to the provider. The row's value and the version that it
says encrypted it are separate fields, since a commit writes the columns that have changed.

* `ProxySecretIsCurrent` -- what the proxy gets can be decrypted and was stored
  at some moment since it asked.

`StreamRedaction` passes a response on chunk by chunk with the last bytes kept
back; the credential is `0 1 0`, which overlaps itself.

* `RedactedHoweverCut` -- for every response of up to 8 bytes and every way to cut it,
  the agent gets what it would get if it had come in one piece, and never the credential.

### AccessControl

Roles with lists of permissions (`written[i]` is the list of the i-th commit,
`kept[r]` those of them of which role `r` has the rows) and their assignments.
`Evaluated` is `evaluate_permission`: a request is allowed when some permission of some
role of the subject allows it and none denies it. `UpdateRole` and
`CommitUpdateRole` are the update of a role, which deletes the permissions it finds
and inserts the new ones; it locks what it deletes, not the role, so that two which overlap
leave both lists, and the second of two that delete the same rows waits. Creating and
deleting roles and assignments are single steps.

* `DecisionsFollowUpdates` -- whoever is allowed something is so by a list which no
  later update has replaced, and never against what the last update of any of his
  roles denies; and whom the last update of one of his roles allows is allowed, unless a
  list which may still be there denies. A list is replaced by an update that began
  after its commit; of lists written by updates that overlapped, each may be there.

The property compares the tables with what the owners asked for. It does
not say that only the last list counts: after overlapping updates it need not, and a
permission that the last update took away may remain until the next one.

Left out: what applies to subjects without any role (the older project permissions); the
simulation; and which rows an endpoint returns once its one decision is made. Pull and
list ask for the requested path, or for none, and return what is below it and what imports
bring in without asking again (`app/api/routes/secrets.py:556`, 662, 829), so a denied
folder below an allowed one is read with it.

### Checks

| run | part | distinguishes |
|---|---|---|
| `ControlPlane_parts` | membership | 2 requests at a time, 3 in all; 2 users, one of whom may start as a manager; 2 invitations; a cycle of 2 sends; all 3 audit settings; one shareable token and one that is not |
| | machines | 2 requests at a time, 3 in all; 2 credentials; 2 failures lock for 1, a token lives for 2, overlaps of 0 and 1, clock up to 2 |
| | approvals | 2 requests at a time, 4 in all; 3 people; policies of one step (by role) or two (the second needs two people); 2 changes |
| | tree | 2 requests at a time, 3 in all; 2 keys; a folder, one in it, and one named `_`, whose path matches the first as a pattern; values without or with one reference; 1 import |
| | proxy | 2 editors, 1 agent, 2 values, 2 data keys, 2 rows |
| | redaction | 8 bytes of three kinds, chunks of up to 4, a credential of 3, a marker that shares a byte with it |
| | access | 2 requests at a time, 3 in all; 2 roles, none, one or both of which exist and are assigned at first; 1 subject; lists of no, one allowing, or an allowing and a denying permission; 1 environment and a request without one; 2 paths and a request without one |

All the properties above are checked in this one run, with `ControlPlaneTypeOK`.
Two overlapping requests are the least that shows a stale read, and in all these
handlers only one other request can come between a read and its commit in a way
that matters: a third has an effect only through the rows that the
second could have written. The third request, where there is one, is there to be first: it brings
about the state that the two then race on. Three places and two keys make nested folders, a folder that
a pattern takes by mistake, and a cycle of references (the root of an environment has no folder and
is left out here; the theorems have it); two steps make an approval that moves a request on and one that
applies it; eight bytes hold a credential that is split, doubled and overlapping.
Requests, users, roles and keys are symmetric. Deadlock is not checked: the bounds end
every part.

### Proofs

`Membership_proofs` proves, for any people, offers, tokens and any number of
requests: `MembershipTypeCorrect`, `GrantsFromOwnerHolds`,
`JoinsWithinInviterHolds`, `SharesStayWithMembers` and `LeaversAreLockedOut`. The
first two hold together or not at all. The invariant is `GrantInv`: besides the
types and `GrantsFromOwner` it says that whoever sees the audit log by the
project's setting has it from the owner, and, in `CallsOK`, that no call in
progress is about to write a permission that the owner has not given, that its
columns are those of its people, that the row it is about to change exists, and
that an update of permissions still finds the memberships it read, unless they
were removed meanwhile. So what was delegated before the delegating member lost it
is still within what the owner gave, since `granted` only grows (`Delegated`). The
third adds `JoinsOK`: an acceptance that nothing has overtaken stays within its
inviter, because whoever changes the inviter's row marks the acceptance as stale
(`JoinCommit`); and only an acceptance makes a member (`JoinStep`).

The last two rest on `ShareInv`: while nothing of its people was written, a call
that is going to share has a member in mind (`Aims`), one that is going to remove
members has read every share they have (`Knows`), and who has seen a token has
still a share of it while it can be used (`SeenOK`). So a removal takes away
whatever a fetch could still rely on.

`Approvals_proofs` proves `ApprovalsTypeCorrect`, `AppliedOnlyIfApproved` and
`StepsCounted` for any people, policies and requests, by `ApprovalsInv`: a
decision in progress holds the row of its request alone (`RowsLocked`), which is
therefore still pending, at the step it has read and without an approval of this
person (`ReviewsOK`); no event is of a step to come and nobody has two at one
(`EventsOK`); what was passed is counted (`AllCounted`), and what waits needs more
(`AllWait`). Approvers are counted as the cardinality of a set, since the table of
events is one: its rows have no order that anything depends on.

`SecretTree_proofs` proves `TreeTypeCorrect`, `FoldersStayAbove` and
`ReadsFindTheirValues` for any tree of places and any finite set of keys.
`FoldersHold` needs `TreeOK`: an insertion has the folders on its way or will
insert them (`InsertOK`), a deletion has read all that is below and nothing but
that and what its pattern matches (`DeletionOK`),
and two of them that overlap are in `crossed` (`OverlapOK`). `ReadsResolve` is
about two recursive functions of a set of keys and the stack of a search. That
they do what their equations say is proved by building them stack by stack
(`VisitedIs`, `ReadIs`); what they find follows by descending over the stacks,
which end because there are finitely many keys (`EveryStack`, derived from the
minimality of a set of numbers, since the library's induction theorems take an
operator as a parameter): the search meets a cycle exactly when some set of keys
has no way out (`CycleCheck`), a read meets the same cycles (`ReadMeets`) and else
answers by what is there (`ReadAnswers`). With that, the invariant is that the
rows of a place which was only written with the check are acyclic (`NoCycles`):
the commit that adds one has checked the rows as they will be.

`ControlPlane_proofs` has the other parts.

* Machines: `MachineTypeCorrect`, `RevocationIsFinal`, `LocksHold`. A call names a
  row that exists (`NamesCredential`), and what a revocation has marked stays
  marked (`RevocationsStay`), because a commit writes only the columns in which it
  differs from what it read.
* Proxy: `ProxyTypeCorrect`, `ProxyGetsCurrentSecret`. Who writes the row under
  the project lock has read it as it is, unless it was deleted (`EditOK`), so that
  key and version of a row agree (`RowOK`); while a request's question is open,
  the row is among what it was offered (`AgentOK`).
* Roles: `AccessTypeCorrect`, `DecisionsFollowUpdatesHolds`, by `RolesInv`: what is
  kept of a role was written for it and not replaced, its last list is kept
  (`RoleKept`), and an update in progress has found everything that was written before
  it began and is still kept (`FoundOK`). A commit so takes away exactly what
  had been committed before its update began.
* Redaction: `RedactionTypeCorrect`, `RedactedHoweverItIsCut`, for a credential, a
  marker and chunks of any length. That the recursive scan exists is proved from
  the right end (`ScannedIs`, `FromRight`), that what it gives is free of the
  credential by induction on the length (`NoneLeft`), and that scanning may be
  resumed at any cut which keeps back all but one byte of a credential's length by
  the same induction (`AlwaysSplits`). `StreamInv` says just that: whatever comes
  next, what was sent and the scan of what is kept back with the rest is the scan
  of all of it.
* Together: a behaviour of `ControlPlaneSpec` is one of each part
  (`MembershipOfPlane` and its like), so that `ControlPlaneTypeCorrect` and
  `PartsKeepTheirPromises` state of the specification that the run checks all that
  is proved of the parts: every property of this section.

Two assumptions the code does not look at. `KeysAssumption`: a place has finitely
many keys, as tables have. `MarkerAssumption`: a credential has neither the first
nor the last byte of `[REDACTED_CREDENTIAL]`
(`proxy/src/envbasis_proxy/forwarding/leakage.py:6`) and is not a part of it. The
schema accepts any string (`app/schemas/provider_credential.py:23`), and for one
that breaks the assumption the property may fail: what surrounds a replaced
credential could form, together with the marker, the credential again, and a part
of the marker is shown by every marker. The keys that providers issue have no
brackets and are no part of its text.

## 8. What is not modelled

* Rate limiting and the other middleware (`app/core/middleware.py`): a counter per client
  and window under one lock, or one script in Redis, with no step of another request in between.
* The audit log: rows appended in the transaction of whatever they report. That
  they refer to the project is part of `SecretStore` (`Commit` waits for the project
  row) and that they refer to an environment part of `Membership` (`Refused`).
* The command line's commands, output and configuration files, and the console
  front end: presentation over the API, one request at a time. The session handling of
  the command line is in `CliAuth`.
* What requests without roles may do, the simulation of access, and the selection of
  the rows that pull and list return (section 7, `AccessControl`).
* Token verification, password and key derivation, encryption, and the mail and
  key services: library and external calls, taken to do what they say.
* Deployment scripts, migrations, health checks: run once, or without state.

Of the components that are modelled in part: choosing among several approval
policies; tags and metadata; renaming, listing and creating environments;
deleting a project, which takes everything with it; the proxy's choice of a route and its
headers. `PROJECT.json` gives the reasons component by component.

Liveness is checked where the code has a loop or waits for locks (sections 3 and 4).
The requests of sections 5 to 7 are finite sequences of statements that wait
for nothing but the row locks of requests which end.
