# Verification of the PharmaIntel BR platform

TLA+ specifications of the Python backend of this repository, TLC runs that check small
instances of them, and TLAPS proofs of the results that matter most. Source paths are relative
to `src/apps/api/src/pharma_api/` unless they start with `src/` or `docs/`.

The backend is a multi-tenant analytics platform for pharmacies. ERP data enters through a
pipeline of Dramatiq workers, is aggregated into a versioned warehouse, and is served to users
whose organisations, roles and scopes the platform manages. PostgreSQL holds every durable
state, Redis carries messages, rate limits and the KPI cache, and an object store keeps the
landing files.

- [1. The system](#1-the-system)
- [2. The modules](#2-the-modules)
- [3. The import pipeline](#3-the-import-pipeline)
- [4. The analytics refresh](#4-the-analytics-refresh)
- [5. Access](#5-access)
- [6. The canonical history](#6-the-canonical-history)
- [7. The database](#7-the-database)
- [8. Four services](#8-four-services)
- [9. What the runs show](#9-what-the-runs-show)
- [10. Fairness](#10-fairness)
- [11. What is proved](#11-what-is-proved)
- [12. Where the code and its documents disagree](#12-where-the-code-and-its-documents-disagree)
- [13. What is not modelled, and the plan](#13-what-is-not-modelled-and-the-plan)

## 1. The system

### Processes and how they interact

| process | what it runs | talks to |
|---|---|---|
| API (FastAPI, async) | HTTP handlers; one database session per request, committed by `get_db_session` (`api/dependencies.py:37-45`) or by the service itself | PostgreSQL, Redis, object store; sends messages **after** its commit |
| worker (`dramatiq pharma_worker.tasks --processes 1 --threads 4`) | actors for the pipeline, analytics, e-mail, maintenance | PostgreSQL through one pool per process, Redis, object store, ERP connectors |
| release command | `pharma-migrate`, under an advisory lock | PostgreSQL |

A message is sent by `.send` after the transaction it follows from has committed; nothing ties
the two together (the outbox table is only logged). Dramatiq delivers at least once: an
unacknowledged message of a dead or presumed dead worker is delivered again, and an actor that
raises is scheduled again up to `max_retries`.

### Inventory

For each component: the state it keeps, its operations, what makes it hard, and what makes it
correct.

| component | state | operations | hard | correct when |
|---|---|---|---|---|
| Batch state machine (`domain/integrations/state_machine.py`) | the state of a batch and its synchronisation | `assert_transition`; repeated by a database trigger | the same table guards handlers and workers that race | no transition out of a terminal state |
| ERP import pipeline (`infrastructure/integrations/tasks.py`, `application/integrations/service.py`, `api/v1/integrations.py`) | batches, executions, files, staging rows, rejected rows, errors, dead letters, lineage, outbox; objects in storage | start, upload, replay, cancel, correct; actors acquire → parse → validate → map → normalize → load → finalize | several commits per step, at-least-once delivery, retries, cancellation at any time, process death | rows are judged before they are loaded; a completed batch is whole; settled batches stay; every batch settles |
| Canonical loaders (`tasks.py:1181-1826`) | products, suppliers, sales, purchases, stock, prices | upserts on natural keys | late and replayed rows | newer facts are not overwritten by older ones; one current price |
| Quality engine (`application/integrations/quality.py`) | none | rules over one record, volume, summary | many rules, order of severity | a blocking finding is never lost in a summary |
| Analytics refresh (`infrastructure/analytics/tasks.py`, `application/analytics/processing.py`, `service.py`) | jobs, data version, dimensions, facts, aggregates, lineage; advisory lock | request, enqueue, refresh, cancel | overlapping windows, session lock on pooled connections, duplicates, cancellation against commit | versions move only by success and never lose data; jobs end |
| Analytics queries (`application/analytics/queries.py`) | KPI cache in Redis | KPI, comparison, series, ranking, drill-down | version read first, measures later | what is cached under a version is of that version |
| KPI catalogue (`domain/analytics/kpis.py`) | none | formula evaluation | nulls and division | as documented per KPI |
| Accounts and sessions (`application/auth/*.py`, `core/security.py`) | users, one-time tokens, sessions, attempt counters | register, verify, log in, reset, change, rotate, revoke | concurrent resend, reset against login, check-then-count | at most one live token; no session survives a reset |
| Active context and permissions (`application/auth/types.py`, `context.py`, `scope_filters.py`) | active context of a session; grants | covers, delegates, scope union, switch context | three nested scopes, stricter rule for delegation | a delegated grant never exceeds the delegator's |
| Roles, memberships, invitations, teams (`application/rbac/service.py`, `application/organizations/service.py`) | roles, assignments, memberships, invitations | create/update/delete role, assign, remove, invite, accept, resend, revoke | counts that are not locked, authority that changes between invitation and acceptance | a tenant keeps an owner; an invitation grants only what its author still may |
| Companies, branches, onboarding (`application/onboarding/service.py`) | organisational rows | create, update, archive; onboarding | optimistic versions | onboarding is done once and whole |
| E-mail (`application/email`, `infrastructure/email`) | deduplication markers in Redis | deliver | marker before delivery, keys reused by a resend | every command is delivered, once |
| Database schema and migrations (`alembic/versions`, `infrastructure/db/models`) | tables, keys, policies, triggers | upgrade, downgrade, delete | hand-ordered lists of seventy tables, two in a cycle; cascades over five migrations | every path of migrations works; a table of a tenant is under its policy; a delete takes what it should and nothing else |
| Diagnostics store (`models/diagnostics.py`, migration 0005) | rules, versions, runs, findings and what explains them | inserts of a session | keys and checks that NULL makes silent | a finding is of its run's scope, an explanation of its finding |
| Audit, RLS context, object store, outbox, CLI, HTTP layer, web | see `PROJECT.json` | | | |

The code's hazards, each at its line and with the properties that would catch it, are in
`PROJECT.json` under `hazards`.

## 2. The modules

| module | role |
|---|---|
| `ProcessingStateMachine` | the states of a batch, the table `_TRANSITIONS`, `assert_transition` |
| `ImportPipeline` | the pipeline: handlers, seven steps, workers, broker, failures; its properties and its inductive invariant |
| `BatchContract` | what the pipeline promises of each batch, in four actions; `ImportPipeline` implements it |
| `MCImportPipeline` | instances for TLC: files of one or two keys, a repeated row, worker symmetry |
| `ImportPipelineProofs` | the theorems about `ImportPipeline` |
| `AnalyticsRefresh` | one tenant's refresh jobs: requests, two actors, connection pool, lease, row locks, failures; properties and inductive invariant |
| `MCAnalyticsRefresh` | instances for TLC: overlapping windows, thread and connection symmetry |
| `WarehouseContract` | what the warehouse of a tenant promises, in four actions; `AnalyticsRefresh` implements it |
| `AnalyticsRefreshProofs` | the theorems about `AnalyticsRefresh` |
| `PermissionScopes` | grants, targets, what covers what, and the filters of lists: pure operators |
| `PermissionScopesProofs` | the theorems about them |
| `TenantAccess` | one tenant's roles, assignments, memberships and invitations under overlapping requests; extends `PermissionScopes`; properties and inductive invariant |
| `MCTenantAccess` | instances for TLC: a manager with guests, two owners |
| `TenantAccessProofs` | the theorems about `TenantAccess` |
| `CanonicalHistory` | the six loaders under overlapping transactions, and the members a refresh derives |
| `MCCanonicalHistory` | files for TLC, batch symmetry |
| `CanonicalHistoryProofs` | the theorems about `CanonicalHistory` |
| `SchemaTypes` | the vocabulary of the migrations: tables, owners, keys |
| `IdentitySchema`, `IntegrationSchema`, `CanonicalSchema`, `AnalyticsSchema`, `DiagnosticSchema` | the tables of the migrations 0001, 0003, 0004 and 0005, in the order of creation, with every foreign key, the order of their removal and the list of policies |
| `Database` | migrations statement by statement, and DELETE with its cascades and triggers |
| `DiagnosticStore` | what a session may insert into the diagnostics tables |
| `ProductDatabase`, `MCDatabase` | the two together, and populations for TLC |
| `ProductDatabaseProofs` | the theorems about both: what diagnostics rows refer to, what a DELETE leaves behind, and what the migrations make |
| `KpiQueries`, `LoginLimiter`, `EmailDelivery`, `AccountSessions` | one service each |
| `ProductServices`, `MCProductServices` | their composition, and its instance |
| `ProductServicesProofs`, `AccountSessionsProofs` | the theorems about the first three services, and about the account |

The two systems meet in one message: `_finalize_batch` sends `enqueue_batch_analytics` after a
batch has completed. In `ImportPipeline` it is the member `<<b, "analytics">>` of `notices`; in
`AnalyticsRefresh` the action `BatchCompleted`, which may happen once per batch and never is
undone. That a batch which asked for its refresh was completed and stays so is what
`AnalyticsOnlyForCompleted` and `TerminalNotReopened` prove, so the action is a sound
environment for the second module.

Some operators are defined directly before the definition they resemble and used nowhere
(`AllowedOnceMore` before `Allowed`, `MarkerUnset` before `MarkerSet`). They are deliberate
errors: each one replaces the definition after it in an experiment that shows that some property
can fail.

## 3. The import pipeline

### State

| variable | in the code |
|---|---|
| `db` | the committed rows of each batch: `import_batches` (state, cancel_requested, duplicate_records, rejected_records), `sync_executions`, the file of the landing manifest, `staging_records`, the parse row of `processing_statistics`, `rejected_records`, severities and counts of `processing_errors`, `dead_letters`, `lineage_events`, the finalize event of the outbox |
| `objects` | landing objects in storage, by the batch that put them |
| `queue` | copies of each message in Redis |
| `worker` | per thread: what it has read and where it stands between two commits |
| `outgoing` | messages a handler sends after its commit |
| `cancelling` | cancel handlers that have read a queued batch and not yet committed |
| `notices` | messages for the outbox and for analytics |
| `faults`, `crashes`, `duplicates` | how much of each bound has been used |

A staged row is identified by its key (entity type, external id, source version), the target of
`ON CONFLICT DO NOTHING`. `File` is the sequence of keys a landing file stages; a key that
occurs twice is a repeated row. What a row contains is abstracted to the worst finding the
quality engine may report on it (`Verdicts`).

### Actions

A step whose body is one transaction under `SELECT ... FOR UPDATE` is one action that includes
every change up to its commit. Sending the next message is a second action (`SendFollowing`),
because a crash or a Redis error may come in between. Acquire and parse commit in between and
are several actions:

- `Acquire`, then `Land`: the state becomes `extracting` in the first commit, the manifest and
  the object are written before the second (`tasks.py:241-481`);
- `Parse`, `InsertStagingChunk` once per chunk, `FinishParse` (`tasks.py:625-791`). The batch is
  **not** read again for the chunks.

`transition_batch` is `TransitionBatch`: the domain table must allow the move, the execution
follows. A step starts from the states its guard names (`ReadyFor`, `Resume`), which include
`retry_scheduled` for every step but finalize. An exception anywhere leads to `RecordFailure`,
a transaction of its own, which counts the error of that step, writes a dead letter at
`FinalAttempt` and otherwise schedules a retry; then Dramatiq requeues the message while
`retries < MaxRetries`.

Handlers: `StartSync`, `UploadSourceFile`, `ReprocessBatch`, then `ApiSend`, `ApiCrash` or
`ApiSendFails` for the message after the commit; `UploadRefused`, a second upload of the same file
that found no object in the bucket before the first one put it: its insert is refused, and its
handler deletes the object of both; `CancelRead` and `CancelCommit` (the batch is read without a
lock); `CorrectRejectedRecord`.

Environment: `FaultOnDelivery` and `FaultMidway` (a transient error before or between the
commits of a step), `SendFails`, `Crash`, `Redeliver`.

### Abstract specification

`BatchContract` knows of a batch only its phase (absent, open, completed, quarantined, failed,
cancelled) and the keys that are canonical. It says that keys are added only to open batches,
that a batch completes only when all its keys are canonical, and that what is completed or
cancelled does not move. `ImplementsContract` is the refinement: the phase is computed by
`PhaseOf`, the canonical keys are those of `lineage`.

## 4. The analytics refresh

### State

| variable | in the code |
|---|---|
| `job` | `analytics_refresh_jobs`: state and `cancel_requested_at` |
| `canonical` | batches that have completed |
| `warehouse` | `analytics_data_versions` (version, last job) and the batches whose rows are facts |
| `queue`, `outgoing` | messages in Redis; jobs that a handler has committed and not yet sent |
| `thread` | per thread of the worker process: stage, message, connection held, whether the lease was granted, version and rows read |
| `pool` | free connections of the process, oldest first (`QueuePool`, first in first out) |
| `lease` | how often each connection has taken the advisory lock |
| `budgets` | used errors, process deaths and duplicates |

### What is modelled closely, and why

- **Connections.** A session holds a connection from its first statement to its commit, but
  `pg_try_advisory_lock` belongs to the connection. `CheckOut`, `Transaction` and `Rotate` say
  which connection a session gets; `LeaseGranted` that the lock is re-entrant on its own
  connection; `Release` that the unlock runs on whatever connection comes next. `Traffic` is the
  use of the same pool by the process's other actors.
- **Locks.** From its first flush to its commit a refresh holds the row of its job, and from its
  first statement the version row, once there is one (`JobLocked`, `VersionLocked`). These
  block `CancelRefresh`, `MarkFailed`, `BeginRefresh` and `Load`.
- **Constraints.** `uq_analytics_refresh_running` in `Run`, `uq_analytics_data_versions_tenant` in
  `Publish`.
- **Row level security.** The tenant is set per transaction. After the rollback at
  `tasks.py:187` it is gone, the update of the job finds no row, and the cancelled refresh ends
  in the except clause (`LookForCancel`). Its retry then honours the cancellation.

What is loaded is abstracted to the set of batches whose facts a window covers (`Window`);
deleting and reloading a window is `Reload`. Dimensions, aggregates and lineage change in the
same transaction and are not told apart.

The steps of `_refresh` are `BeginRefresh` (first transaction: lease, row, cancellation, state),
`Load` (version row and snapshot), `LookForCancel`, `Publish` (commit), `MarkFailed`, `Release`.
`EnqueueBatch` and `SendRefresh` are the other actor; `QueueRefresh`, `ApiSend` and
`CancelRefresh` the handlers.

Two simplifications: two simultaneous `EnqueueBatch` of one job are serialised (in the code the
second violates the idempotency constraint and is retried), and a send that raises after the
commit of `queue_refresh` is not an action (the job would stay queued; no document promises
otherwise).

### Abstract specification

`WarehouseContract` knows of the warehouse its version, the batches that its facts come from, and
which jobs are reported as completed or as being cancelled; no messages, threads, connections or
locks. A batch may arrive, a job that is not completed may be cancelled, and a version may be
published for a job that is not being cancelled, from a reading that has all that is published and
the job's own batch. A late failure may retract the report of a completed job, which is the
divergence `CompletedStays` of section 12; what the job published stays. `ImplementsContract` is
the refinement. `KpiQueries` takes `Publish` of this contract, its version only, as its environment.

## 5. Access

### Scopes

`PermissionScopes` translates the methods of `AuthorizationTarget`, `PermissionGrant` and
`AuthContext` (`application/auth/types.py`) and the filters of `scope_filters.py`. The code
answers each question by a cascade of comparisons; the module has the same cascade as a
disjunction. `Within` is the order the cascades are about (a place, and what lies below it).
It is not in the code; the theorems relate the two.

### The administration of a tenant

| variable | in the code |
|---|---|
| `roles` | `roles` with their `role_permissions`: scope and keys |
| `members` | the status of each user's membership |
| `assigned` | `role_assignments`: member, role, place |
| `invitations` | status, whether `expires_at` is ahead, e-mail, role, place, author |
| `tx` | per session: the transaction of its request and what it has read and decided |
| `requests` | how much of the bound has been used |

A request has three steps. `Authenticate` is `get_auth_context`: the membership must be active,
and the grants are those of the assignments that match the session's active place. Any place of
the tenant may be active, because `switch_context` asks for an active membership and for a
place that exists, not for a role there. Then comes the decision, the service function up to
its last check, with the row locks it takes: `CreateRole`, `UpdateRole`, `DeleteRole`,
`AssignRole`, `RemoveRoleAssignment`, `UpdateMembershipStatus`, `CreateInvitation`,
`ResendInvitation`, `RevokeInvitation`, `AcceptInvitation`. Last, the writes and the commit:
`WriteRole`, `EraseRole`, `InsertAssignment`, `DeleteAssignment`, `SetMembershipStatus`,
`InsertInvitation`, `RenewInvitation`, `WithdrawInvitation`, `Accept`. Everything between may be
overtaken by the requests of other sessions; a decision reads at one moment. `Rollback` ends a
request at any time, and `Expire` is the clock.

What the database does at the commit is part of the last step: the foreign keys, the trigger
`validate_scoped_role_reference`, `ON DELETE RESTRICT`, `uq_role_assignments_scope`,
`uq_invitations_pending_tenant_email`. A row that another transaction holds blocks the step
(`RoleFree`, `InvitationFree`, `MemberFree`, `AssignmentFree`).

`AcceptInvitation` is open to users without an active membership; it therefore does not start
with `Authenticate`. It checks the inviter again, with **all** of the inviter's assignments
where a request has only those of the active place.

Left out because they are compared or replaced under a row lock that the model has: the
optimistic versions, the token of an invitation (a resend replaces it). Also left out: the
status of user accounts, changes of the set of platform administrators (a command), and the
companies and branches themselves, which no request of the module changes.

### What it promises

`NoEscalation` is about a group: the users of the modelled sessions. Whatever they create,
change, assign, invite and accept, in any overlap, every permission they have handed out lies
where one of them could delegate it at the start (`Covered`). Each check in the code looks at
one step; that no sequence of steps adds up to more is nowhere checked. The keys of a role may
change after it was assigned, a request may act on grants its actor has lost, an inviter may
gain or lose authority before the acceptance.

`RolesExist`, `OnePending` and `InvitationUsedOnce` are the integrity of the references and of
invitations. `OwnerRemains` and `RevokedStaysOut` do not hold: see section 12.

## 6. The canonical history

`CanonicalHistory` looks inside the load step, which `ImportPipeline` takes as one action on a
set of keys: what the rows of several batches leave in the canonical tables when their
transactions overlap, are refused, deadlock and are tried again.

| variable | in the code |
|---|---|
| `file`, `phase`, `attempt`, `next` | the staged records of a batch in load order, and how far its load has come |
| `started`, `scan`, `closed`, `writes` | a transaction: its `now()`, the rows its UPDATE has found, the rows it has written |
| `db` | the committed rows of the canonical tables and of `lineage` |
| `members`, `refresh` | the versions of `analytics_dimension_members`, and whether a refresh is due |
| `tidy` | history: batches came one by one and their records in order |

A row is named by the tuple its identifier is computed from (`tasks.py:1181-1826` derive
identifiers with uuid5 from such tuples), and a loader is an operator that says which rows a
record becomes and whether the database accepts them. What matters is the difference between the
*name* of a row and the *conflict target* of its statement: they agree for products, and do not
for lines of a sale, for prices and for members.

`FindPrices` and `ClosePrices` are the two halves of one UPDATE at READ COMMITTED: it looks for
rows in a snapshot, waits for them, and tests them again; a row committed meanwhile is not found.
`WaitsFor` is the wait for a row another transaction has written, `Deadlock` what PostgreSQL does
about a circle of two.

What the properties say, and what they leave open:

- a sale line is counted once (`SaleLineCountedOnce`), but a sale corrected to another instant
  with a line it had before is refused by the primary key on every attempt, and its batch fails;
- the newest price stays current (`NewestPriceIsCurrent`), but a late price, or one of an
  overlapping batch, may be current beside it;
- `OrderlyHistoryIsExact` is the exact history for batches that do not overlap and come in order.
  Out of order the stock balance is that of the batch loaded last, whatever its instant;
- a current member shows what its source says (`CurrentMemberIsTrue`), but something may have no
  current member (`EveryMemberIsCurrent`, section 12), and a product that returns to earlier
  attributes meets its earlier version in the primary key, so that every further refresh fails.

Amounts, payments, promotions' contents, lots and the end of a supplier's cost (never set) are
left out. Two assumptions are made about the files. `FilesAssumption` says that a file is a
sequence of records of the six entities, and that stock and prices have an instant.
`PriceIdAssumption` says that a source does not use the external id of a price again, for the
same beginning, with another product: the upsert of a price (`tasks.py:1752-1790`) would keep the
product of the row it meets, while the UPDATE before it has closed the prices of the new one.

## 7. The database

`Database` is what the migrations make. The five schema modules list every table with its owner
(`required`, `optional` or no tenant) and its foreign keys: what it refers to, what happens on
delete, whether `tenant_id` is one of its columns, whether a column may be NULL. Migration 0002
makes no table. Left out are columns, indexes and CHECKs, the partitions of `canonical_sales`
(one table here), keys of a table to itself, and seeds.

`Upgrade` and `Downgrade` put the statements of one migration into `plan`; `Migrate` runs one, if
PostgreSQL accepts it. `Load` fills the database with a population: one row per table for the
tables chosen and everything they need, with the optional keys set or not. A population is
`Complete`: PostgreSQL takes no row before the rows its keys name. `Delete`, `RunKey` and
`Return` are a DELETE and the triggers of the keys. The triggers of one row run in the order in
which the keys were created. A row that a cascade deletes is gone at once, but its own triggers
wait in `queue` behind those already there: a referential action runs its statement inside the
query of the DELETE, whose queue of triggers takes the new ones at its end. This order decides what
a RESTRICT key refuses. `DeletionRefused` and `ClearingRefused` are the triggers and the
NOT NULL columns that make the whole statement fail. Deletes of a root row are statements of an
administrator: no handler deletes a tenant, a user or a branch.

With one row per table a chain of keys that would need two rows of one table is not followed
apart; the self-references it leaves out carry no cascade.

`DiagnosticStore` is the other half of migration 0005: the CHECKs, keys and policies that say
which rows may be inserted. No code of the repository writes these tables yet, so the actions are
what the schema lets a session of a tenant do, with the two rules of SQL that make it
interesting: a CHECK that is NULL passes, and a key with a NULL column is not looked at. The rule
of the platform is published first, and one is enough.

`TenantsCanBeErased` is what the order means for a tenant. No key to `tenants` restricts, and every
table of a tenant has a key of its own that cascades, so that all rows of the tenant are gone before
the triggers of the second row look for referring rows. The many RESTRICT keys between them are
never met, and the deletion erases batches, canonical rows and findings alike. Only two things stand
in its way, and both are triggers: an audit event that names the tenant, whose `tenant_id` cannot be
cleared, and a file under retention. Below the tenant it is otherwise, and the following can be read
off the model without being a property: a company with sold lines cannot be deleted, because its
products go before its sales and `canonical_sale_items` restricts the deletion of a product; a
branch takes its sales and their lines along, unless the products of the lines are its own; a user
who is a member of a tenant is not deleted.

## 8. Four services

`ProductServices` puts four modules that share no state side by side; a behaviour chooses one.
What they have in common is that a step reads something, lets others work, and acts on it.

**`KpiQueries`** (`application/analytics/queries.py`). A request reads the data version, looks into
the cache under it, and only then measures, in several statements at READ COMMITTED, while
refreshes publish. A value is abstracted to the oldest and newest version its statements saw and
the grants that filtered them. `AnswersAreAsNewAsTheirLabel` says what holds: an answer under a
version may be newer than it, never older, and never of someone else's grants. The goal, which is
read at each request, is left out.

**`LoginLimiter`** (`application/auth/rate_limit.py`). The limit is compared before the password is
verified and counted after. `LimitBoundsAttempts` is the exact excess: one attempt less than
there are logins at a time, and what Redis did not count. The public limit counts first.

**`EmailDelivery`** (`infrastructure/email/tasks.py`, `application/email`). The send after the
commit, the marker under the idempotency key, the file, and every way to fail in between.
`MailedOnceOrLost`: the e-mails of a key are written once in the life of its marker, and a settled
key that was never written met one of the named accidents.

**`AccountSessions`** (`application/auth/service.py`). One account under overlapping requests, each a
transaction with row locks: ten operations from registration to revocation. Each statement is a
step, a statement that needs a row held by another request waits, and a circle of waiting
requests is broken by `Deadlock`. `LiveSessionsKnowThePassword`, `ChangeReplacesWhatItProved` and
`OneLiveToken` hold for every overlap but the ones they name (a login during a change of password;
two requests for a token at once), which do break them. The last one is worth a look: a change
of password verifies the old one on an unlocked row, and only the lock on the session of its
request, which every other change must revoke, keeps it from replacing a password it has not
seen.

Expiry of tokens and sessions by time, the rotation of a session's token, profiles and hashing
are left out.

## 9. What the runs show

| run | instance | what it shows |
|---|---|---|
| `pipeline_faults` | one batch, two workers, two keys with a repeated row, chunk 2; one error of any kind, one duplicate | `QualityBeforeLoad`, `CompletedIsWhole`, `TerminalNotReopened`, `ImplementsContract` under every overlap of two deliveries, cancellation and correction |
| `pipeline_retries` | one batch, two errors, one crash, three verdicts | `IInv` and `DeadLetterMeansFailed` on all paths through retries to failure |
| `pipeline_replay` | two batches that share landing files, one worker; one second upload that is refused and deletes the object, no other error | `AnalyticsOnlyForCompleted` |
| `pipeline_live` | one batch of one row, two workers, one error before finalize, one duplicate, fair | `Settles`, `RetryIsScheduled`, `CompletedReachesAnalytics` |
| `refresh_safety` | two batches, the window of the first includes the second; two threads, two connections; one retry, one error, one crash, one duplicate | `IInv`, `CompletedIsPublished`, `FactsNeverLost`, `ImplementsContract` |
| `refresh_live` | one batch and one job on request, two threads, two connections, one crash, fair | `JobSettles` |
| `access_delegation` | two sessions of a manager who may make roles in the tenant but assign and invite in one company only, one session of a suspended guest and one of a newcomer; two companies, one branch, four roles, two invitations, four requests | `IInv`, `NoEscalation`, `RolesExist`, `OnePending`, `InvitationUsedOnce` |
| `access_last_owner` | two owners and a guest, three requests | a documented promise that does not hold: section 12 |
| `canonical_history` | three batches, each with any of eight files, two attempts each | `SaleLineCountedOnce`, `NewestPriceIsCurrent`, `OrderlyHistoryIsExact`, `CurrentMemberIsTrue` |
| `history_members` | as `canonical_history` | a documented promise that does not hold: section 12 |
| `database` | every path between base and head; populations of every table and of each area at head; two tenants, two companies with one branch | `MigrationsRoundTrip`, `TenantsAreSeparated`, `HistorySurvivesItsParents`, `CanonicalKeepsItsOrigin`, `ErasureIsComplete`, `TenantsCanBeErased`, `FindingInRunScope`, `ExplanationStaysInFinding` |
| `services` | two readers with two grants; three logins; three e-mails of two keys; three requests of ten operations for one account | `AnswersAreAsNewAsTheirLabel`, `LimitBoundsAttempts`, `MailedOnceOrLost`, `LiveSessionsKnowThePassword`, `OneLiveToken`, `ChangeReplacesWhatItProved` |

### Bounds

| bound | in the code | in the runs | why it is enough |
|---|---|---|---|
| `FinalAttempt` | 5 | 2 | one attempt that schedules a retry and one that fails; the further ones repeat the first |
| `MaxRetries` (pipeline) | 5 | 2 | at least one more than `FinalAttempt - 1`, as in the code, so that retries never run out first |
| `MaxRetries` (refresh) | 5 | 1 | a job that is retried and one whose retries are spent |
| `Chunk` | 1000 records | 2 of a file of 3 rows | a full chunk and a partial one, with a row repeated across chunks |
| `Workers`, `Threads` | 4 | 2 | every hazard listed is between two deliveries |
| `Conns` | 5 + 10 overflow | 2 | a connection with the lease and one without |
| `MaxRequests` | unbounded | 3 or 4 | invite, accept, and two more that overlap with either; the longest way from a narrow grant to a wider one in the mutated model takes four; the proofs have no bound |
| `RequestedKeys` | any set | two sets of one key | a key the manager has everywhere, and one it has in one company |
| `Invitations` | unbounded | 2 | two for one address |
| `MaxFaults`, `MaxCrashes`, `MaxDuplicates` | unbounded | 0 to 2, per run | a failure and a second one that meets its consequences; the proofs have no bound |
| `Files` | unbounded | eight | two catalogues that exchange an identifier and change an attribute and back, a sale at two instants with the same and another line, prices and stock in and out of order, products in opposite orders for a deadlock |
| `Batches` of the history | unbounded | 3 | a first one, a change, and a change back or a third that overlaps |
| `MaxAttempts` | 6 | 2 | a refused load is tried again, and one gives up |
| `Leaves` | any rows | each table, each of four areas | every chain of cascades begins in a row of one table; the areas let the chains meet |
| `PopulatedRevisions` | all | head | the keys of an earlier revision are a subset |
| `Ids`, `MaxRows`, `MaxLeaves` | unbounded | 2, 7, 1 | two runs, findings or explanations to confuse, with everything they need; rows nobody refers to, one at a time |
| `MaxVersion` | unbounded | 2 | a version read and a newer one measured |
| `Clients`, `MaxLoginAttempts`, `MaxPublicRequests`, `MaxUncounted` | any; settings | 3, 3, 2, 1 | logins that overlap at the last allowed attempt, one failure not counted; proved without the bounds |
| `FinalDelivery`, `MaxDeaths` | 6, unbounded | 2, 2 | an attempt that is retried and a last one; a death before and after the file |
| `Requests`, `OldSessions` | unbounded | 3, 2 | two that overlap and one that made what they are about |

`CHECK_DEADLOCK FALSE` in the runs of the pipeline, the refresh, access and the database: when
every batch has settled and every queue is empty, or every request or row of the bound has been
made, the system has nothing left to do. `canonical_history`, `history_members` and `services`
check for deadlock; there the end is a step of its own, allowed only when everything is settled.

## 10. Fairness

`ImportPipeline`: weak fairness of each worker's next step, of the delivery of each message,
and of each handler's send. Dramatiq polls its queues as long as a thread is idle, a thread
that has work continues it, and a handler that has committed reaches its `.send` unless the
process dies. The runs with fairness therefore have no crash of an API process, no send that
fails and no error in finalize: with them a batch does get stuck, which section 12 and the
hazards say. Fairness is not assumed of users, of failures, or of duplicates.

`AnalyticsRefresh`: the same three, per message, per thread, per job. A worker crash is part of
the fair run: its messages are delivered again.

## 11. What is proved

The proof modules are checked by TLAPS down to the last leaf, for every value of the
constants that satisfies `PipelineAssumption`, `RefreshAssumption`, `TenantAssumption` (with
`NoneAssumption` and `HierarchyAssumption`), `FilesAssumption` and `PriceIdAssumption`, or
`LimiterAssumption`, `EmailAssumption` and `AccountAssumption`: any number of batches, rows,
workers, connections, retries, errors, crashes and duplicates, of files and their records, of
users, sessions, roles, places, invitations and requests, of readers, logins and e-mails, of
tenants and populations of the schema. The assumptions only type the constants and say that every
key occurs in the file, that the window of a batch's job has the batch, that threads, clients,
e-mails and requests of an account are finite, that the assignments a tenant starts with have the
level of their role, and that the external id of a price belongs to one product (section 6). One
theorem, `RetriesScheduled`, has hypotheses more, which it states; section 12 shows what the code
does without the one that matters.

### ImportPipelineProofs

`Invariance`, the inductive invariant `IInv`, has three layers:

1. `RowInv`: the tables of one batch agree. Rejected rows have their entry, a parsed batch has
   every key staged, a batch with canonical rows has every key judged, a completed batch has
   every key canonical, a failed one has a dead letter.
2. `Due` and `TaskInv`: a message or a worker at a step implies what the steps before it have
   committed. This is what makes the safety properties inductive: nothing in the load step
   itself says that rows were judged. It holds because what is `Reached` is never taken back,
   whatever late transaction commits.
3. The analytics request is that of a completed batch.

Because every property of layer 2 is monotone in the rows of a batch, the proof is organised by
a relation between rows (`Follows` in the proof module): each operator on a row yields a row
that follows, and whatever follows keeps the messages and workers of the batch valid
(`Preserved`). Then each action has one lemma.

From it: `QualityFirst`, `CompletedWhole`, `DeadLetters`, `AnalyticsCompleted`, `TypeCorrect`; and from the invariant and the transition table,
`TerminalStays` and `Implementation` (the refinement of `BatchContract`, initial states and
steps).

`RetriesScheduled`: a batch that waits for a retry has one coming. `RetryIsScheduled` is not
inductive, because what keeps it true is what happened to the deliveries before. `RetryInv` has
four parts:

- `Awaited`: a message of the batch is in the queue, or a worker has it and has not committed its
  step (`WillRetry`), and no step ignores a batch that waits for a retry, but `finalize`; which
  message it is may change, since a duplicate of another step can take the batch over;
- `Counted`: a message was not sent more often than failures of its step were recorded, as long as
  its batch is open. The recorder therefore comes to `FinalAttempt` before the broker gives up,
  which takes `FinalAttempt <= MaxRetries + 1`; the code has 5 and 5;
- `Finalized`: a message of `finalize` that is sent on or fails finds its batch settled, so that a
  failure to send is nothing any batch waits for;
- `Accepted`: no batch is seen between its creation and its first step.

The hypothesis `"finalize" \notin FaultySteps` cannot be dropped: a retry of `finalize` is ignored
by the handler (section 12), and the batch then waits for nothing.

### AnalyticsRefreshProofs

`Invariance` says nothing of the lease: the documents rest the consistency of the warehouse on
it, the proof shows that row locks and unique constraints suffice. Its core is `Current`: a
transaction that may still publish has either read the present version, and then has seen all
that is published, or it started before the first version row and will be rejected.
`OneHolder` says that only one transaction can have the version row. Why published facts are
always in the next snapshot needs `Known`: what is published was canonical, and what is
canonical stays so.

From it: `FactsStay`, `SuccessPublishes` (a version is published by one, for a job that completes in
the same commit and that nobody has cancelled), `CompletedPublished`, `TypeCorrect`, and
`Implementation` (the refinement of `WarehouseContract`). For the last one every action is shown to
leave the contract's variables alone (`Quiet`), but the arrival of a batch, a cancellation, a
recorded failure and the commit; the commit is a step of the contract because `Current` says what
its snapshot contains.

### PermissionScopesProofs

`DelegationReachesDown` and `AccessIsComparable` say what the cascades compute: a grant delegates
at its place and below it, and gives access there and above it. From these:
`DelegationImpliesAccess`, `DelegationIsTransitive`, `TenantWideCoversTenant`, and that lists and
single lookups agree (`CompanyListAgrees`, `BranchListAgrees`, `ListedRowsAreAccessible`).
`Consistent`, that the branch of a grant belongs to its company, is the foreign key of
`role_assignments`.

### TenantAccessProofs

`AccessInvariant`: `NoEscalation` is not inductive. `RequestsCovered` adds what is in flight:
the grants of an open request delegate only what the group could, a role about to be written
has only keys the group could delegate everywhere (it may be assigned anywhere already), an
assignment or an acceptance that was decided stays covered whatever happens to its role. The
step from an assignment to the grants it yields is `YieldCovered`, which rests on
`DelegationReachesDown`, on the level of the role being that of its place (`RolesExist`), and
on coverage being closed downwards (`CoveredBelow`). `LocksHold` and `ReadsHold` say what the
`FOR UPDATE` reads are for: two requests never hold the same role or invitation, so that what
was read under the lock is still so at the commit.

The proof has one general step for decisions (`DecisionStep`: only one transaction changes) and
one for commits (`CommitStep`: the writes are sound and the other transactions survive them),
and one lemma per action under them.

From it: `NoEscalationHolds`, `RolesExistHolds`, `OnePendingHolds`, `InvitationUsedOnceHolds`.

### ProductServicesProofs

`ServicesInvariant` has one part per service.

- `KpiInv`: the version a request has read is not ahead of the data, and a value it has measured
  is not older than that version and of its grants. What is stored under an identity is then right
  whoever reads it, and whatever is published between the read and the measures.
- `LimiterInv`: while a login is between its check and its count, the attempts counted and the
  logins in between are together less than the limit and their number; what is tried beyond the
  attempts counted is a login at work or a failure Redis did not count.
- `EmailInv`: whoever works on an e-mail has set the marker of its key and is alone in it; within
  the life of a marker nothing is written until its setter writes; a key that is settled was
  written, or is named lost.

From it: `AnswersHold`, `LimitHolds`, `MailedHolds`.

### AccountSessionsProofs

`AccountInv` says what a request at work may rely on: what its rows protect (`Locked`), what it has
read and is still so (`Fresh`, unless a login overlapped a change), and that it has found all the
tokens it must spend (`Complete`, unless two requests for a token overlapped). No row has two
holders (`Exclusive`). A step before the commit changes one request and no row (`RequestStep`); a
commit must leave the others sound (`OthersStaySound`). The interesting case is a change of
password whose check and write are statements apart: another change or a reset that commits in
between would have had to revoke every live session but its own, and so would hold the session row
the first one has locked, or be the same request.

From it: `SessionsHold`, `TokensHold`, `ChangeHolds` (an action property).

### CanonicalHistoryProofs

Each invariant is about what is committed (`db`) and what open transactions have written
(`writes`), because the next commit puts one over the other. `TransactionInv` says that a batch
which is not loading has written nothing, and that only a record of a price has its prices looked
for or closed. `ShapeInv` says that the columns of a row repeat what its identifier was computed
from: an identifier tells the product of a price (by `PriceIdAssumption`), the sale of a line, and
that a balance is the one of its product. On these rest:

- `SaleLinesAreCountedOnce`: two rows of one line of a sale have the same identifier.
- `NewestPriceStaysCurrent`: `NewestInv`. A price that is not open has a newer one which is
  committed, written by the same transaction, or about to be, the record that closed it being at
  work. Two transactions may close each other's prices without seeing each other; that the newest
  of all survives is because `ClosePrices` closes older prices only.
- `OrderlyHistoryIsKept`: `OrderlyInv`. As long as history came in order, one batch at a time
  loads, what its UPDATE found is still all there is, and what it sees is exact but for the price
  it is loading (`ExactUpTo`: the prices that this one ends are closed, and it is not there yet).
- `CurrentMembersAreTrue`: `MemberInv`. A current member shows what it was made from, and after a
  refresh none was made from something its source no longer says.

### ProductDatabaseProofs

Three groups of theorems, about the rows of diagnostics, about DELETE and about the migrations.
The two halves of the state share no variable, and their proofs share nothing.

Of the diagnostics tables, `FindingsAreInTheirRunsScope`: a foreign key with a NULL column is not
checked, so the key by company and the one by branch say nothing of a finding about the tenant.
`RunsInv` (a run has a coherent scope and an identifier of its own) and `CoherentScopes` show that
the CHECKs on both tables close this gap: two coherent scopes of one type whose set columns agree
are equal. For `ExplanationsStayInTheirFinding` the invariant says the same of each pair of rows
that is joined: a link, its evidence and its hypothesis name one finding of one tenant.

Of DELETE, two pairs of theorems. The first pair says where a cascade may lead. `Within` is an
invariant for any set of roots, any set of tables whose triggers may wait in the queue, and any set
of tables whose rows may be gone; it is inductive when the sets are `Closed` under the keys that
cascade (`CascadeStaysWithin`). That they are is a fact about the schema:

- `CanonicalOriginIsKept`: a cascade from a source, a batch or a staging record stays within
  `OriginTables`, which neither canonical rows nor facts are among.
- `HistoryOutlivesItsParents`: no cascade but that of a tenant reaches the operational history, and
  none reaches a tenant, so that a finding is erased only by a DELETE of its own row or of the tenant.

The second pair is about the tenant, and rests on the order of the triggers. `ErasureInv` says of a
DELETE of a tenant that the tenant is at the head of the queue or no row refers to it any more
(`TenantsKeysFirst`), and that the rows of `Spared`, those of the platform and of users, are all
there. After the tenant's own keys no row with a `tenant_id` is left (`RowsOfTenantAreGone`), so
that a RESTRICT key is met by no row of the tenant, and the tables of the others restrict spared rows
only (`ErasureMeetsNoRestriction`). It follows:

- `TenantErasureIsComplete`: no row of a table whose `tenant_id` is mandatory is left.
- `TenantsAreErasable`: the statement goes through exactly when neither an audit event nor a retained
  file protects the tenant. That these two do is not their triggers alone: the triggers must be
  reached, which is why the audit event is still there when the keys to the tenant have run
  (`Spared`), and a retained file as well (`FileIsKept`).

The facts about the schema on which these rest (which keys cascade, which are set) are read off
the tables of the five schema modules, which a proof expands.

Of the migrations, `MigrationInvariant`. `MigrationsRoundTrip` is about the end of a migration and
is not inductive. `MigrationInv` says of every moment that what is left of the plan can be executed
and leads to its revision, in one of two forms:

- `Building` (an upgrade): a table to create is new, and what it refers to exists or is created
  before it (`Ready`, `CreatesInOrder`); the key of 0005 and the policies are about tables that
  exist by then (`AddsInOrder`); at the end the tables of the revision are there, those of a tenant
  under a policy (`LeadsUp`).
- `Dismantling` (a downgrade): a table to drop exists, and a table that refers to it is dropped
  before it (`Gone`, `DropsInOrder`), but for the key that 0005 added to tables it had already
  created, which must have been dropped first (`KeyInOrder`); at the end the tables of the revision
  are left (`LeadsDown`).

That a step keeps the invariant is an argument about any plan, and needs nothing of the lists
(`FirstIsAccepted`, `BuildingGoesOn`, `FirstIsDropped`, `DismantlingGoesOn`). That the plan of a migration
has one of the two forms when it begins is where the lists come in. `Number` is the position of
each of the ninety-nine tables in the order of creation, and a table refers only to smaller numbers
or to itself (`CreationNumbered`). `Height` is the position from the bottom in the order in which
downgrades drop tables: the number, but for the fourteen tables of 0005, whose `downgrade()` has an
order of its own (`LastDropped`). A key leads from a higher table to a lower one (`KeysNumbered`), and the
one that does not, `CurrentVersion`, closes the cycle of two tables that 0005 breaks by hand. With
the numbers, `UpgradeInOrder` and `DowngradeInOrder` are arithmetic. It follows:

- `MigrationsRunThrough`: no statement is refused, and between migrations the tables and the key
  are those of the revision, whatever the path.
- `TenantsStaySeparated`: between migrations every table with rows of a tenant is under a policy. No
  key by identifier alone leads from a row of a tenant to one of another (`NoKeyMayLeave`): each is
  scoped by `tenant_id`, or one of the two of `ById`, or leads to a table in `Platform`, none of
  which must have a tenant.

The constants choose only populations, so that TLC and these two theorems range over the same
paths. What the theorems add is the reason: the orders `Number` and `Height`, against which a table
added to a list can be held before anything is run.

### Only model-checked

Every invariant and every action property of the runs that pass is stated by a theorem. Liveness
under fairness (`Settles`, `CompletedReachesAnalytics`, `JobSettles`) is beyond the prover, and so is
ENABLED: that nothing deadlocks, where a run asks for it, is TLC's finding. The two runs that
expect a violation are TLC's too.

## 12. Where the code and its documents disagree

Two have a run in which TLC produces the history.

| run | history |
|---|---|
| `access_last_owner` | Two owners' assignments are removed at once. Each request locks its own row and counts two owners (`docs/phase2/rbac.md:29`). |
| `history_members` | A batch moves an identifier to another product without touching its `updated_at`. The next refresh closes the member and meets the closed row where it inserts: no version is current (`application/analytics/processing.py:421`; `docs/architecture/analytics-platform.md:13`). |

The others are seen by giving a run the property named (as an INVARIANT, but `CompletedStays` and
`RevokedStaysOut`, which are PROPERTIES) and the constants given.

Of the pipeline:

- `FailsOnlyAfterFinalAttempt` in `MCPipelineFaults.cfg` with `BrokerFails = TRUE` and
  `MaxDuplicates = 0`: the `.send` after the last commit of acquire or parse raises. The retry
  starts the step again and meets its own manifest (or statistics row) in a unique constraint, at
  every attempt, until the batch fails (`tasks.py:481`; `docs/phase2/data-platform.md:48`).
- The same with `BrokerFails = FALSE` and `MaxDuplicates = 1`: a step fails once and its retry is
  scheduled. `retry_scheduled` does not say which step is to be retried, so a duplicate of an
  earlier message resumes the batch at the earlier step (`tasks.py:262`;
  `docs/phase2/data-platform.md:52`).
- `RetryIsScheduled` in `MCPipelineLive.cfg` with finalize in `FaultySteps`: finalize fails once.
  Its retry accepts only `loading`, finds `retry_scheduled` and returns; nothing ever moves the
  batch again (`tasks.py:1951`; `docs/phase2/data-platform.md:88`).
- `ManifestHasObject` in `MCPipelineReplay.cfg` as it is: two uploads of one file at a time both find
  no object in the bucket and both store it, since the S3 `put_file` looks first and puts then
  (`infrastructure/object_storage.py:115`); the insert of the second is refused, and its except clause
  deletes the object of the first (`api/v1/integrations.py:624`; `docs/phase2/data-platform.md:91`).
- The same with `BrokerFails = TRUE`: the except clause also covers the send after the commit.

Of the refresh, in `MCRefreshSafety.cfg`:

- `OneWriter`: the first commit of a refresh returns the connection that has the advisory lock to
  the pool. Another thread gets it and is granted the lock as well
  (`infrastructure/analytics/tasks.py:174`; `docs/architecture/analytics-platform.md:52`).
- `CompletedStays`: a duplicate is refused the lease, raises, and `_mark_failed` marks the job
  failed that the first delivery completes or has completed
  (`infrastructure/analytics/tasks.py:149`; `docs/phase2/analytics-operations.md:19`).

Of access, in `MCAccessLastOwner.cfg`:

- `RevokedStaysOut`: a suspended user accepts an invitation. The membership is read without a
  lock; it is revoked before the acceptance writes it, and becomes active
  (`application/organizations/service.py:699`; `docs/guides/administrator.md:15`).

Of the database:

- `SetNullClears` in `MCDatabase.cfg`: `ON DELETE SET NULL` on a key that contains `tenant_id`
  clears that column too, which is NOT NULL (migration 0003, lines 893, 1620, 2584), and on the
  audit trail it meets the trigger that refuses updates (0001, lines 637-641). The deletion is
  refused instead of clearing the reference.
- `RuleStaysInTenant` in `MCDatabase.cfg`: a row with `rule_ownership_type` 'tenant' and a NULL
  `rule_tenant_id` makes the CHECK NULL and the key silent, and refers to the rule of another
  tenant (`infrastructure/db/models/diagnostics.py:841-845`, against
  `test_diagnostics_operational_models.py:390` and `432-435`).

Of the services, in prose because the model says so by a condition in its property or leaves the
datum out:

- A login that overlaps a change of password may leave a session with the old password, or, when
  it hashes anew, write the old password back; two requests for a token at once leave two good ones
  (`LiveSessionsKnowThePassword`, `ChangeReplacesWhatItProved` and `OneLiveToken` name the overlaps
  they exclude).
- A resent invitation has the idempotency key of the first e-mail and is suppressed for a day,
  while its token has replaced the one that was mailed (`application/organizations/service.py:1111`).
- A request with `If-None-Match` gets 304 from the identity of the cache entry
  (`api/v1/analytics.py:167`), which does not contain the goal; `queries.py:560-562` says that a
  new goal "is visible immediately".

## 13. What is not modelled, and the plan

Left out for good: the SQL of fact loaders and aggregates and the arithmetic of KPIs (data, not
control), connectors, object store, logging, HTTP wiring and the web client (I/O and
presentation), the outbox (its publication only logs) and landing retention (it selects files
that are not immutable, and every file is created immutable). Mapping configuration,
credentials and webhooks are configuration rows without interaction.

Of access: the row level security policies (the model has one tenant, and each transaction sees
all of it; `Database` has which tables are under a policy), teams, and the audit trail, which is
only appended to. Of the queries: comparisons, series, rankings and drill-downs, which read as
a KPI does and keep nothing, and the limit of requests per user.

Planned, in this order:

1. Onboarding, organisations and teams: the optimistic versions, and what archiving leaves behind.
2. `QualityRules`, the mapping of records and the conditions of diagnostic rules, as pure operators.
