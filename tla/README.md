# NeuralOps: a verification development

NeuralOps turns application logs into incidents. A FastAPI side ingests and parses logs,
deduplicates them into incidents and runs an AI agent workflow over new ones; a
Django side owns tenants, users, billing, alert rules, playbooks, integrations and a
read model of the incidents; Celery workers, Kafka topics, Redis, Elasticsearch, S3,
three lambdas and two Postgres databases (DB-1 for Django, DB-2 for FastAPI) sit between
them. The hard part of this system is not any one handler: it is that every handler is
at-least-once, that several of them write the same rows, and that each one trusts
something it read a few awaits ago. The TLA+ modules here model those handlers step by
step.

## 1. Inventory

| component | state it keeps | operations | what makes it correct |
|---|---|---|---|
| **run_agent pipeline** (`worker/tasks/run_agent.py`, `services/incidents.py`, `services/dedup_lock.py`) | `incidents`, `notification_deliveries`, `outbox` (DB-2); `dedup:lock:*` (Redis); the `agent` queue | acquire lock, duplicate query, record duplicate, analyse, persist, publish, release, dispatch | one active incident per fingerprint; every reported outcome is true of the table; outbox rows tell the table; no key stays locked; every task ends |
| **incident API** (`api/v1/incidents.py`) | the same rows | `PATCH /incidents/{id}`: status machine, assignees, outbox row | the outbox reports what was written |
| **tenant wipe** (`worker/tasks/wipe_data.py`) | the same rows | delete all incidents, logs, indexes | tasks in flight do not resurrect or corrupt rows |
| **agent workflow** (`agents/workflow.py`, `agents/nodes/`) | the workflow's state; alert rules and playbooks it reads | classify, retrieve code, match playbook, analyse, fix, score, decide, patch, persist | an answer no model gave never becomes an open incident; only a promoted incident alerts or patches |
| **circuit breaker of the models** (`agents/circuit_breaker.py`) | `cb:{name}:*` (Redis) | allow, record success, record failure | opens after the threshold; never shut for good; closes once the dependency is well |
| **alert delivery** (`send_notification.py`, `github_pr.py`, `lambdas/`, `apps/push`) | delivery rows, branches and pull requests, device tokens, `push_notification_log` | dispatch, POST, record; branch, pull request, record; route, reserve, send, finalize | each alert goes out once, its outcome is recorded, live tokens are kept |
| **incident snapshot consumer** (`analytics/management/commands/consume_incidents.py`) | `incident_snapshots`, `processed_events` (DB-1); Kafka offsets | created, duplicate, updated, analyzed handlers | a redelivered event has no second effect; the snapshot mirrors the incident |
| **config sync consumer** (`queue/kafka/consumers/config_sync.py`), **playbook embedding** (`embed_playbook.py`) | `alert_rule_snapshots`, `playbook_snapshots`, `tenant_snapshots`, `api_key_snapshots` (DB-2), Redis version keys, vectors, Kafka offsets | version-guarded upsert, delete, invalidate, embed | an older event never overwrites a newer one; no committed change is lost |
| **tenants, billing, API keys, tenant dependency cache** (`apps/tenants`, `apps/billing`, `api/dependencies/tenant.py`) | tenant row, billing events (DB-1), suspension flag, cached configuration and keys (Redis) | webhook, payment, hourly sync, plan signal, create and revoke a key, cached look-ups | an event takes effect once; a suspension and a revocation reach the API |
| **code indexing, integrations** (`index_code.py`, `webhooks.py`, `apps/integrations`) | `code_index` (DB-2), S3 objects, repository rows and statuses (DB-1, DB-2) | connect, PATCH, disconnect, push, index, clean up, report status | rows point at objects; the index ends as the branch is; Django shows the recorded status |
| **log ingestion, rate limiter, parser, log search** (`ingest.py`, `rate_limit.py`, `parse_log.py`, `log_event_indexer.py`) | token bucket (Redis), S3 objects, `ingested_log_metadata`, outbox, Elasticsearch documents | take a token, upload, insert, index, deliver, parse, link | the limit holds; what is accepted is stored, counted once and analysed; the search page shows the incident's status |
| **users and accounts** (`apps/users`) | users, invitations, sessions, devices, resets (DB-1); blocklist and counters (Redis) | invite, join, roles, verification, login, second factor, refresh, logout, passwords, downgrade | what an answer promised holds; a session that ended stays ended; the owner remains |
| collaboration, websockets, gateway and middleware, superadmin, scripts | see section 6 | | best-effort broadcast, request-response CRUD, configuration |

How they interact. The SDK posts to the **ingest API**, which writes S3 and DB-2 with an
outbox row; Debezium reads the outbox and writes one **Kafka topic per event type**: order
holds inside a topic (per key) and not across topics. `raw.logs` -> parser -> **agent
queue** -> run_agent -> DB-2 with outbox rows in the same transaction; what run_agent
dispatches after its commit (push, pull request, notifications) is alert delivery. Django
consumes the incident and indexing-status topics; FastAPI consumes the alert-rule,
playbook, tenant and API key topics Django writes in the same manner. Offsets are
committed by hand after a handler. Redis carries locks, caches, breakers, blocklists and
buckets, and almost every user of it fails open. Celery runs with `acks_late` and
`reject_on_worker_lost`, so a dead worker's message is delivered again; so does SQS.

The behaviours that are hard to test are listed under `hazards` in `PROJECT.json`, each at
its line with the properties about it: a lock that expires under its holder, a commit
whose reply is lost, a row read before an `await` and written by id after it, `save()`
writing every column of a row loaded earlier, topics that overtake each other, an offset
committed past a failed message, a cache populated after its invalidation, a reservation
that outlives the attempt it was for. Section 5 has those that no property covers.

## 2. Modules

| module | role |
|---|---|
| `IncidentTable` | the `incidents` table as a value; the pure operations on a row; the partial unique index |
| `IncidentLedger` | abstract specification: what the table promises whoever writes it |
| `IncidentPipeline`, `MCIncidentPipeline` | run_agent, dedup lock, persistence, dispatch, PATCH, wipe; implements `IncidentLedger`; its constants for TLC |
| `IncidentTable_proofs`, `IncidentPipeline_proofs`, `SnapshotSync_proofs`, `ConfigSync_proofs`, `AlertDelivery_proofs`, `TenantConfig_proofs`, `AgentWorkflow_proofs`, `Ingest_proofs` | theorems about the module each is named after (section 4), and in `AgentWorkflow_proofs` also about `CircuitBreaker` and `IndexCode`, in `TenantConfig_proofs` also about `Accounts`; `IncidentTable_proofs` has the lemmas about rows and about counting occurrences that the pipeline and the ingestion share |
| `SnapshotSync` | outbox -> Debezium -> Kafka -> Django's `consume_incidents`; its event source is `IncidentLedger` (EXTENDS), which the pipeline is proved to implement |
| `ConfigSync` | Django rules and playbooks -> Kafka -> `ConfigSyncConsumer` -> embed tasks |
| `TenantConfig` | billing webhooks, payments and sync, plan signal, API keys -> Kafka -> `ConfigSyncConsumer` -> cached look-ups of every request |
| `IndexCode` | integrations -> Kafka -> first index; push webhook; index and cleanup tasks; statuses back to Django |
| `AgentWorkflow` | the nodes and routes of the LangGraph workflow up to the persisted row |
| `CircuitBreaker` | the Redis breaker of the model calls, command by command |
| `AlertDelivery` | notification, pull request and push of one incident |
| `Ingest` | token bucket, request, outbox event, consumer, parser, document, and what run_agent and PATCH do to it; uses `IncidentTable` |
| `Accounts` | invitations, roles, verification, logins, second factor, sessions, passwords of one tenant |

How they compose. `IncidentTable` is shared by the pipeline, the ledger, `SnapshotSync`
and `Ingest`. The pipeline implements the ledger (run `pipeline_faults`, theorem
`PipelineImplementsLedger`), so `SnapshotSync` and `Ingest` take the ledger's view of an incident
instead of the pipeline's. `AgentWorkflow` is the inside of the pipeline's `Analyse` step, and
`AlertDelivery` begins where its `Dispatch` ends. `TenantConfig`, `IndexCode` and
`ConfigSync` each model the part of one consumer process that concerns them; nothing is
shared between those parts but the order of the loop, which each keeps.

No module declares a RECURSIVE operator, so all of them can be proved about. A module of proofs
EXTENDS every module it is about; `CircuitBreaker`, `IndexCode` and `Accounts`, which share one with
a neighbour, give their `Init`, `Next`, `Spec` and `TypeOK` the prefix `Breaker`, `Index` or `Accounts`.

### How state and actions correspond to the code

`IncidentTable`. A table maps incident ids to rows. `Unissued` is an id no INSERT has drawn,
`Deleted` one whose row is gone. A row keeps the fingerprint, the status, the counter
and the S3 keys of the occurrences; severity, texts, assignees, timestamps and
`resolved_at` are left out. `IsActive` is both the predicate of
`uq_incidents_tenant_fingerprint_active` and the query of
`find_active_by_fingerprint`: everything but `resolved` is active. One tenant
is modelled: every query and the index carry the tenant id.

`IncidentPipeline`. A `Task` is one message of the agent queue. Its `pc` names the
await it is about to execute:

| pc | code | action |
|---|---|---|
| `queued` | `SET NX EX` | `AcquireLock`, `LockContention`, `AcquireFailOpen` (Redis error: go on without the lock) |
| `find` | SELECT of the active incident | `FindActive` |
| `record` | UPDATE .. RETURNING, outbox row, commit | `RecordDuplicate` |
| `analyse` | agent workflow | `Analyse` |
| `persist` | INSERT, delivery row, two outbox rows, commit | `Persist` (the unique index gives `late_duplicate`) |
| `publish` | push message after the commit | `PublishPush` |
| `release` | `finally`: DEL without comparing owners; retry or end | `Release` |
| `dispatch` | `create_github_pr`, `send_notification` after the commit | `Dispatch` |

`RaiseError` is an exception before a commit; a commit that takes effect while its
reply is lost is the `retry` and `error` outcomes inside `RecordDuplicate` and `Persist`.
`WorkerLost` puts the message back and leaves the lock key; `HardTimeLimit` ends the
task without its `finally` block. `LockExpires` is the 30 s TTL: with `TtlTooShort` it
may fire under a running holder (the soft limit of the task is 480 s). `PatchRead` and
`PatchWrite` are the two halves of `PATCH /incidents/{id}` around the awaits between
them; `WipeTenant` is the DELETE of `wipe_tenant_data`. `seenCount` and `target` are the
locals a task carries from one await to the next.

`SnapshotSync`. `table` and its actions come from `IncidentLedger`; `outbox` gets one
event per change. `Publish` is Debezium in commit order, `ConnectorRestart` re-reads.
`Consume` is `_handle_message` (one transaction: `processed_events` row and handler),
`CommitOffset` the commit after it, `Restart` any end of the loop. The topics keep the
spelling problem of the code: writers use `duplicate_recorded`, the command subscribes
to `duplicate_detected`. A database error inside the collaboration or notification writes of
`_handle_updated` is caught inside `atomic()`: the transaction rolls back without an
exception (`lost` collects those events). Of whom an event names, `names` keeps what decides
that: an actor that does not exist writes neither; an assigned user without a row in DB-1 (a
"stranger") breaks a deferred foreign key when the transaction commits, which no `except` of
the handler sees, at every delivery (`Stuck`). `incidents.analyzed` (its handler writes
nothing) is left out.

`ConfigSync`. `version` is `source_version` in DB-1; a row's content is identified with it.
`Apply` is a handler's transaction with its staleness check, `ApplyFails` and
`EnqueueFails` the `except` of the loop that logs and goes on, `Commit` the argument-less
`commit()`, which commits the position of every partition. The embed queue is a set:
workers run its tasks in any order, and each task is at one of the steps between its
Redis and database calls.

`TenantConfig`. None of Django's writes to the tenant row runs in a transaction with its outbox
row, so each is a step of its own. A webhook request goes through `LogEvent` (the unique
`razorpay_event_id`), `LoadTenant`, `SaveTenant`, `AfterSave` (the Redis flag), and, when the save
changed the plan, `ReadClock`, `BuildPayload` and `SendPlan` of the signal; `VerifyPayment` is the
request of the browser after a payment: it loads and saves the tenant in the same steps, without a
`BillingEvent`. `StartSync` and `SyncStatus` are the hourly task. `CreateKey`, `RevokeKey`,
`SendRevocation` are the API key views. The consumer is `ApplyTenant`/`Invalidate` and
`ApplyKey`/`CacheKey`, with `HandlerFails`, `Commit`, `Restart` as in `ConfigSync`. A request of
FastAPI is a `reader` that looks in the cache, reads the row and fills the cache in separate
steps. `source_version` is the wall clock in milliseconds: `ReadClock` may or may not advance it,
and `tied` remembers that two events carry the same one.

`IndexCode`. `Connect`, `LoadPatch`/`SavePatch`, `Disconnect` are the Django views; a row's
`branch` is what `default_branch`, `repo_url` and `repo_name` name together: a branch of the
repository, or "elsewhere", a row that names another one. A PATCH may name any of them (gap
"repointed"), as long as no two rows have one URL (`Unclaimed`). `HandleEvent`, `DispatchInitial`
are the handler and the dispatch after it, `HandleFails` the `except` that loses the event, if the
commit of the next one passes over it (gap "lost"), or not; `Push` the webhook. A task starts with
`StartInitial` (tarball) or `StartIncremental` (compare), goes file by file through `Upload`,
`InsertRows` or `KeepRows`, `DeleteRows`, `SkipFile`, and ends with `Complete`, `FailInitial` or
`FailSilently`, or with `StopsUnreported`, when nobody writes its outcome (gap "unreported": the
hard time limit, a `CancelledError` that `except Exception` does not catch, an error of the report
itself); `CleanRows` and `CleanObjects` are `cleanup_code_index`; `LoseWorker` puts the message
back. `ApplyStatus` is `consume_indexing_status`. A commit is its number in the order of the
pushes, a file's content the commit that last changed it. `StartGaps` says at the start of a task
what makes it a gap: another one is running, one of a later commit is done, or a cleanup sent
after it has begun. `HandleEvent` notes "patch" when the event of a PATCH takes
`last_indexed_commit` back.

`AgentWorkflow`. One action per node (`Classify`, `SymbolFound`/`SymbolMissing`/`Retrieved`,
`MatchPlaybook`, `Analyse`, `GenerateFix`, `ScoreConfidence`, `Decide`, `GeneratePatch`/`SkipPatch`) and
`Persist`, the decision half of `persist_new_incident`. Between any two of them `TenantChanges`
may change the alert rules or the playbook. A failed statement sets `aborted`: PostgreSQL
refuses everything after it, which is why an error a node swallows still fails the run.
Scores are integers scaled so that no rounding of the code is lost.

`CircuitBreaker`. Each Redis command of `can_execute`, `record_success` and `record_failure` is an
action. `opened` and `slot` are what is left of the 30 seconds; `Tick` is time. `Records` says which
results each of the three nodes counts. `RedisError` and `Killed` end a caller anywhere.

`AlertDelivery`. `agent` is run_agent after its commit. A notification is `LoadDelivery`, `Post`,
`SaveDelivery`, `AckDelivery` with the retry between; a pull request `Prepare`, `CreateBranch`,
`UpdateBranch`, `OpenPullRequest`, `SaveOpened`/`SavePrFields`; a push `Route`, `SendBatch`
(router lambda; SQS may refuse entries of a batch, and the router does not look: gap "unqueued"),
`Reserve`, `SendFcm`, `Finalize`, `DropToken` (dispatch lambda). Celery and SQS deliver again what
was not acknowledged; `Duplicate` is a message SQS delivers twice.

`Ingest`. `Taken` is the Lua script of the bucket, evaluated with the clock of whichever API
process calls. A request is `Arrive` (or `TooMany`, `FailOpen`), `Upload`, `Store` (or `StoreConflicts`),
`IndexDocument`; the event `Deliver`, the task `Parse`; run_agent is reduced to `UpdateFields`, the
query (`FindActive` or `FindNone`), `RecordDuplicate` or the analysis, which is a pc of its own
(`analyse`) and ends in `Create`, `NotActionable` or `LateDuplicate` (a PATCH made an incident active
meanwhile, and the INSERT is refused), and `Link`; `UpdateFieldsFails` and `LinkFails` are the caught
errors of Elasticsearch, after which the run goes on (`astray` has its log). An INSERT waits for a PATCH
that holds an entry of the partial index (`EntryHeld`). PATCH is `PatchUpdate` (under its row lock),
`PatchDocuments`, `PatchCommit`. `Refresh` makes a document searchable.

`Accounts`. A handler is its load and its `save()`, which writes every column of the row it
loaded and inserts the row again if it is gone. `req` holds the running requests; `told` is
what the answers so far make people expect; `raced` collects the rows on which two requests
overlapped, and "device" when two requests disable the second factor at once. A login is admitted
(`LoginAdmit`) before its password is looked at (`LoginCheck`, `FailLogin`); a verification is dropped
before the next is created (`DropVerification`, `RenewVerification`), and so is a device (`Setup`,
`SetupCreate`); `DisableRead` loads and verifies the device that `Disable` deletes. Whatever is created
has an identity no running request has loaded (`NewId`). The `...View` operators group the steps by
the view they belong to.

## 3. Runs

All of them pass, each within five minutes on two cores.

| run | question | bounds |
|---|---|---|
| `pipeline_faults` | does every fault around one fingerprint, beside an operator who moves statuses, leave the table unique, the outbox telling the table, the outcomes true, and the ledger implemented? | 2 tasks, 2 ids, 1 loss, 2 PATCH requests one after the other, 1 wipe, Redis and broker errors, TTL too short |
| `pipeline_lock` | with what the lock's comments assume, is it a lock, is a log recorded at most once per execution, is the key always freed, does every task end? | 2 tasks, 1 retry, 2 losses, fairness |
| `snapshot_redelivery` | does redelivery, at Debezium and at the consumer, leave effects exactly once and block nothing? | 2 incidents, 3 events, 1 connector restart, 2 consumer restarts, 1 caught error, any user named, fairness (289,365 states) |
| `config_sync` | does DB-2 follow DB-1 and never go back? | 1 rule, 1 playbook, 3 saves each, 1 handler error, 1 restart, 1 task fault |
| `tenant_billing` | does each billing event take effect once, does the flag follow the status, does the plan arrive? | 3 events (one of a kind), 2 requests at a time, 1 payment, sync, crash, failure or restart (2,111,394 states) |
| `tenant_config` | is a revoked key refused for good, is a stale configuration dropped? | 1 key, 1 request at a time, 2 events, 1 trouble, fairness (1,406,964 states) |
| `index_code` | do rows lead to objects, does the index end as the branch is, does Django show it? | 1 file, 2 branches, 2 commits, 2 tasks at a time, 2 integrations, 1 trouble, a PATCH among them (3,914,159 states) |
| `agent_workflow` | what can become an open incident, alert and patch? | 3 categories, 2 rules, 1 change, 2 executions, any statement may fail |
| `circuit_breaker` | is the breaker consistent, never shut for good, and closed once calls succeed? | 2 workers, thresholds 2 and 2, timeout of 2 ticks, 2 nodes, fairness |
| `alert_delivery` | is each alert sent once and its outcome recorded? | 1 delivery row, 1 pull request, 2 devices in 2 batches, 1 retry, 1 fault (3,275,526 states) |
| `ingest` | does the limit hold, and is what is accepted stored, counted once, analysed and shown? | 2 requests, 2 logs, 2 ids, clocks 1 tick apart, 3 PATCH requests, 1 fault (3,264,647 states) |
| `accounts` | does what the answers promise hold? | 4 requests, 2 at a time, 2 invitations, 3 sessions, 1 crash (1,878,368 states) |

Most properties are conjunctions of named parts, each with its own comment in the module: for
instance `AlertedOnce` is `TypeOK`, `PostedOnce` and `PushedOnce`.

**Named exceptions.** Some properties hold only while nothing of a certain kind happened.
A history variable then names what happened, and the property excludes exactly that:
`gaps` (`IndexCode`, `AlertDelivery`), `overlapped` and `tied` (`TenantConfig`), `raced` (`Accounts`),
`astray`, `repeats` and `dropped` (`Ingest`), `lost` (`SnapshotSync`, with `Stuck`, which reads the
outbox). Each exception is something the code
allows, and section 5 says what it does. No history variable decides what a component
does; `lost` bounds itself, and in `Accounts` people type the password they were last `told`.

Why the bounds are enough to be interesting. Two actors are the least that can race, and every
hazard about a row, a lock, a cache or a circuit needs two. A loss and a retry together give one
message a second and a third execution; `pipeline_faults` has losses and errors without a retry,
`pipeline_lock` the retries. Two incident ids let a fingerprint be resolved and opened again,
which is what makes reopening meet the index; two PATCH requests are a resolution and a reopening,
and the third of `ingest` moves the incident that was reopened. Three saves of one rule are the
least with two different stale events; three outbox rows give one incident two status changes
after its creation, which is what reordering and redelivery need; three billing events are one of
each kind. Two commits and two connections give an index task something stale to work on. Four
requests are an invitation, an acceptance, a login and one that interferes. The single fault of
the newer runs is spent on any of the listed faults at any step. What grows without bound in the
code (retries of a process manager, edits, saves, requests) is capped by a named `Max...` constant
in a guard. Thresholds and capacities are smaller than in the code (5 failures, plan capacities,
batches of 10) and named in the CONSTANTS.

`CHECK_DEADLOCK FALSE` is set because these systems stop: the tasks are finished and the bounds
used up. `circuit_breaker` never stops and is checked for deadlock.

Data is reduced to what the properties tell apart. One tenant is modelled everywhere (every query
and key carries the tenant id, and the push router selects devices by tenant), one fingerprint in
`Ingest`, one repository in `IndexCode`, one incident in `AlertDelivery`.

### Fairness

`IncidentPipeline`: weak fairness of each task's own step (Celery workers run what they
received, and time limits bound every step) and of `LockExpires` (Redis
drops keys that have a TTL). Errors, losses and editors are never forced. In `pipeline_lock`
losses are bounded, which is all that "every task ends" needs: losses without
end would redeliver a message without end.
`SnapshotSync`: weak fairness of Debezium, of the consumer on every topic with messages and
of its commit; both processes reconnect in a loop. Restarts are bounded.
`TenantConfig`: weak fairness of the consumer loop and of the expiry of cached keys and
configurations, which have TTLs. Requests, webhooks and restarts are never forced.
`CircuitBreaker`: weak fairness of time, of a caller's next await and of the next check of the
circuit (workers keep taking tasks). That calls succeed is not assumed but the condition `healthy`,
which may never come.
The other modules state no liveness property: nothing in the code excludes a handler that
always raises, a client that never retries or a request that never comes.

## 4. Proofs

Everything below is checked by TLAPS for every value of the constants: any number of tasks,
incidents, editors, rules, devices, webhooks and faults, from the assumptions on the types of
the constants (`PipelineAssumption`, `TenantAssumption`, ...) alone unless said otherwise. The
statements have the premises of the properties they are about; a premise added by a theorem is
named here. Every inductive invariant was checked by TLC on the instance of a run before it was
proved.

The proofs share one layout. A lemma per action says what the step does, pointwise, so that
the invariants that follow never expand an action; then each invariant has an `Init` lemma and a
`Next` lemma with one step per action; a last lemma (`SoundInvariant`, or one per invariant) makes them
invariants of `Spec`, and a theorem only has to show that they imply the property.

**IncidentPipeline**

* `TypeCorrect`. `TypeOK` is inductive as it stands because it says where a task must already
  have a `target`: without that conjunct the update of `incidents[target[t]]` would leave
  the table.
* `PipelineImplementsLedger`. `LedgerActions` relates the row operations to the ledger's actions;
  `StepSimulation` takes the actions of `Next` one by one: `Persist` is `Open`, `RecordDuplicate`
  is `Absorb` (or a stutter when the row is gone), `PatchWrite` is `SetStatus`, `WipeTenant`
  is `Wipe`, all others stutter. The refinement maps `table` to `incidents`.
* `AtMostOneActive`. The ledger's steps keep `UniqueActiveIn` (`LedgerKeepsUnique`), so the
  pipeline's do, by the simulation: no property of the lock is used. This is the formal content
  of "the index is the second layer".
* `OutcomesAreTrue`. The invariant strengthens `OutcomeIsTrue` to every program point after the
  write, not only to finished tasks: a report is true from the moment it is made
  (`ReportIsTrue`), nothing before the write reports (`NoReportYet`), `target` names an id that
  was issued (`TargetIssued`), and `count` is the length of `occurrences` (`CountIsLength`).
  `LedgerKeepsOccurrences` shows that no ledger step takes an occurrence away.
* `LockIsExclusive`, under `~RedisFaults` and `~TtlTooShort`. `LockExclusive` is not inductive: that
  two tasks are not both inside says nothing about the key. `HolderOwnsKey` (who is inside owns
  the key) is, and two owners of one key are one task.
* `IndexNeverRefuses`, under the same assumptions and without editors. Between the duplicate
  query and the INSERT no other task can write the fingerprint, because it would be inside the
  section too (`QueryStillHolds`).
* `OutboxIsTrue`, if there is at most one editor: two PATCH requests that overlap leave the
  loser's status in the outbox (section 5, item 2). A step either tells nothing (`Quiet`) or is one
  transaction that writes one row and the events that tell it (`WhatAStepTells`), and the editor
  between its two halves still sees the status it read (`EditorSees`).
* `RecordedOnce`, if each task has a log of its own (one object per ingested log). What a task may
  have recorded by now is bounded by a budget (`Budget`): one for this execution once it is past its
  transaction, and one for each earlier execution.

**SnapshotSync**

* `EventsProcessedOnce`. Once is not inductive: it needs to know that the topic has the events of
  a kind in outbox order and with none missing (`LogInOrder`), that below a position everything was
  handled (`Handled`), that processing follows the order of each topic (`ProcessedInOrder`), and that
  the status history has one row for each processed change (`HistoryTold`).
* `SnapshotMirrorsTable`. The last event of an incident that sets its status has the status of its
  row (`SourceTold`), and the snapshot has the status of the last event processed for it
  (`SnapshotTold`); drained, the two are the same event.

**ConfigSync**

* `ConfigSyncTypeCorrect`; `ConfigNeverGoesBack`, an action property: both staleness checks are in
  the transaction of their write, so no interleaving of handlers and embed tasks comes between.
* `ConfigConverges`. `Followed` says that while no handler raised, the latest version of a live rule
  or playbook is in its topic and, if the consumer is past it, in DB-2. `Owed` says who still owes an
  embedding: the handler before its enqueue, or a task that is queued or running - the invariant that
  a restart breaks, which is why the property excludes it.

**AlertDelivery**

* `NobodyAlertedTwice`, `OutcomesAreKnown`, `OnlyDeadDropped`. `NotifierSound` and
  `PullRequestSound` say at each program point of the two tasks what the outside has seen and what
  the row says; `ReservedOnce`, that a handler about to send holds the reservation of its device
  alone and nothing was sent before; `EveryDeviceServed`, that a device without an outcome has a
  message, a handler or a place in the router's list, unless SQS refused its entry; `TokensKnown`,
  that a message has the token its device has now and that a handler drops a token only after a
  refusal.

**TenantConfig**

* `EventsBilledOnce`. Only the delivery that wrote its `BillingEvent` row goes on to the save
  (`AppliedOnce`: who is between the two holds the only licence for the event). A payment goes
  through the same save and counts for no event.
* `FlagIsTrue`. Without an overlap a writer is alone (`Alone`), so between the save and the flag the
  difference of the two is what the running webhook owes (`FlagTold`).
* `PlanArrives`. The versions of the topic increase and its last event has the plan of the table, but
  for the one that the running webhook is about to send (`PlanTold`); the snapshot is an event at or
  after the position (`SnapshotAhead`), so that an event is stale exactly when a restart repeats it.

**Accounts**

A request has loaded copies of rows and will save all of their columns. `HeldAlone` says that two
requests hold a row together only if it is in `raced`; what the other parts say of the copies
(`InviteRequest`, `MemberRequest`, `SessionRequest`, `LimitRequest`) is then true of the table when it is
saved, unless the row is raced. The theorems need that workers and invitees are finitely many.

* `TeamStaysConsistent`, `AnswersStayTrue`. An accepted invitation names the member it made (`Made`),
  the owner's rows, stored or loaded, are those of an active owner (`Owns`), and what a user was
  told of a row is what the table has, unless requests raced on it. A downgrade is the only step
  that writes several members; it never reaches the owner.
* `SessionsKeepTheirLife`. `SessionRequest` says what a request that holds a session's row knows: a
  refresh, that it was live and has not ended; a request about to block, that the row is
  live no longer; a logout without a row, that there is none. `ReuseDetected`, which revokes a live
  row, is then possible only on a raced session.
* The limits in `TeamStaysConsistent`. A limit is asked before the failure is counted, so requests
  that were admitted together exceed it. Logins and codes under way (`Admissions`, `SecondFactors`)
  count with those that failed: together they stay within `MaxFailures - 1 + Cardinality(Worker)`
  (`LoginsBounded`, `CodesBounded`). A step that admits nobody (`Follows`) keeps this wherever it goes.
* The second factor in `AnswersStayTrue`. Nothing but a request that disables it changes a confirmed
  device, so one that loaded it and is alone (`DisablesAlone`) deletes the user's device and not a
  row that has gone.
* `FailuresGoAway`. A counter without a lifetime has a request between INCR and EXPIRE, or its worker
  died there.

**AgentWorkflow**

* `FallbackStaysDraft`. The score of the decision is the one of what the nodes returned (`Scored`), and
  the weights of the scorer leave 6850 of 10000 to a fallback (`FallbackScore`, linear arithmetic over
  all retrieval scores and coverages). `ThresholdInRange` needs that a set of numbers has a
  minimum (`MinIsThere`, from the well-foundedness of < on Nat).
* `PromotedActs`, `PlaybookWasGiven`. What is stored is what the state says at the end
  (`StoredAtEnd`), the action is the one of score and threshold (`Decided`), a patch follows the decision
  (`Patched`), and a match without instructions means that the transaction is dead (`Doomed`).

**CircuitBreaker**

* `BreakerStaysConsistent`. `BreakerConsistent` is inductive: between any two commands of a worker
  the others may have changed every key, so each command is proved against keys of any value
  (`CheckKeepsBreaker`, `SuccessKeepsBreaker`, `FailureKeepsBreaker`) and only what a command writes
  itself is used.

**IndexCode**

* `IndexStaysReadable`. Its type invariant bounds the queue, which takes counting: every task, event
  and dispatch stands for a connection, a disconnection, a push or a PATCH (`CountedFor`), so
  that there are never more than `MaxTasks`. While no two tasks overlapped, one is running
  at most (`OneRuns`); a cleanup past its first step has left no rows (`CleanedFirst`), and a file
  between its two writes has its object (`StoredFirst`).
* `StatusAlwaysSettles`. Without a PATCH a repository that is "indexing" has a first index left in
  the queue, unless one ended unreported (`IndexingEnds`). And while no event was lost and nothing
  was connected again, the only integration passes through the stages `NotYet`, `Announced` (its
  event is on the way), `Followed`, `Leaving` and `Left`; while it is followed, replaying the
  statuses still in the topic on Django's row gives FastAPI's (`Reaches`). Three lemmas say what a
  status appended, a status applied and a row without a commit do to that replay.

**Ingest**

* `AcceptedIsThere`. A request that has got so far has uploaded its object and stored its row, and
  of the requests of one log at most one has (`Kept`). Counting is by a budget again: a log may be
  recorded once for its row and once for each repeated message (`Due`), every event not yet
  consumed, every message of the two queues and the run that holds the log use up one of these, and
  what is left (`Spare`) bounds the occurrences (`Counted`). The property alone is not inductive,
  since it says nothing of the messages that are still to be recorded.
* `StoredGetsRecorded`. A stored log is recorded, dropped or on its way: after the offset in the
  topic, in one of the queues, or with the run, its analysis included (`Pending`). Dropped is what a
  task said it did not record, a late duplicate among it.
* `SearchPageIsTrue`, if no log has the id of an incident (both are uuid4). A document is linked
  unless its run has not ended, it was written after that or Elasticsearch failed the run
  (`DocsLinked`), and it shows the
  status of the row or, between the two writes of a PATCH, the one that is about to be committed
  (`DocsShow`); a run carries the status that it is going to write (`RunShows`). The last is
  what the row lock is for: no PATCH comes between the run's read and its link. A new
  row needs a fingerprint to have (`Fingerprint # {}`, an assumption of the module: the agent always
  computes one).

`AtMost` of `IncidentTable_proofs` carries the two counting proofs: it says that a set is finite and
has at most so many elements, and its lemmas say how the places of a log in the table grow with one
transaction (`NoNewPlace`, `OneNewPlace`).

What the proofs changed in the models. The proofs about notifications showed that `RetryDelivery`
of `AlertDelivery` counted the retries of a fresh record, so that the counter stayed at one and
the bound on retries never bit; it now counts the task's own, as Celery does for `self.retry`
(`send_notification.py:242`). `AfterSave` of `TenantConfig` states which keys a downgrade keeps by
their rank among the active ones instead of by a recursive selection, which no prover can unfold,
and `Downgrade` of `Accounts` which members it keeps (`Before`, `Older`) in the same manner.

Where the code takes several steps, so do the models, and the statements give way: failed logins
exceed their limit (`AccountsTypeOK`), a disabled device may be the wrong one (`DeviceAnswerHolds`), a
log may be recorded nowhere (`StoredIsRecorded`).

The search for the invariant of `IndexMatchesBranch` showed that the property claimed too much, and
longer runs of TLC confirmed it. Both counterexamples are beyond the bounds of `index_code` (25 and
28 steps, 3 and 4 commits):

* A first index is retried and stores a newer tarball under the key of its first attempt. Until the
  next task has run, the object of a file is newer than the rows parsed from it. The claim that
  an object is the content of its rows is therefore made between tasks (`ObjectsAreParsed`), and
  `RowsHaveObjects` says only that there is one.
* A PATCH that loaded its row at commit 2 is saved after commit 3 was indexed, and its event takes
  `last_indexed_commit` back to 2. A file added in 3 and removed by a merge push in 4 is the
  same in 2 and 4: the comparison does not find it and its rows stay. The gap "patch", which was noted
  when such a PATCH met a status on its way to Django, is now noted where the commit is taken back.

Only model-checked: `IndexMatchesBranch` of `IndexCode`, which follows each commit through the
connections, retries and comparisons that may carry it (an invariant about the order of tasks across
connections that is not yet stated); and `RateBounded` of `Ingest`,
which evaluates a recursive function over sequences of clocks: for every length it would need
induction over data, which the installed provers cannot instantiate. Liveness under fairness and
ENABLED are outside what the prover supports; those properties (`NothingIsStuck`,
`EveryEventProcessed`, `RevokedKeyRefused`, `StaleConfigDropped`, `NeverShutForGood`, `HealthyCloses`)
stay with TLC.

## 5. Where the code falls short of what it says

Each of these was met while modelling. Items 1 to 16 are behaviours of the modules and the
reasons for the named exceptions, or for stating a weaker property; the sequential ones were
seen in the code that is modelled or beside it. None has a run of its own.

Order, redelivery and lost replies:

1. A worker lost inside the locked section leaves its key. Its own redelivered message
   takes the key for another worker's and is acknowledged, so no incident is written for that
   log, although "the worker that DID acquire the lock will handle the new incident"
   (`dedup_lock.py:41`). So is a log whose incident was refused because a PATCH reopened another
   while it was analysed (`late_duplicate`, `run_agent.py:458`). `StoredIsRecorded` of `Ingest` counts
   both as `dropped`.
2. Two PATCH requests that overlap each validate against the row they read and update by
   id (`incidents.py:421`, `:508`): together they make a transition `allowed_transitions` forbids,
   and the outbox may end with the loser's status. The same for two assignee lists (`:471`).
3. A delivery row is committed before its message is sent (`run_agent.py:639`). If the broker
   refuses, nothing re-sends what the model's comment says `send_notification` picks up
   (`models/incidents.py:513`).
4. Topics are not ordered among each other: a status change consumed before the creation
   of its incident is dropped (`consume_incidents.py:413`), and the snapshot keeps `open`.
   `MirrorsInOrder` therefore speaks of incidents whose creation came first.
5. Occurrences are published as `duplicate_recorded` and the command subscribes to
   `duplicate_detected` (`consume_incidents.py:58`): the snapshot's counter never moves.
6. The consumer's `commit()` after the next good message passes over a failed one, although
   the failure path says "Do NOT commit — allow retry on restart" (`config_sync.py:442`). And an
   event that assigns a user DB-1 does not know fails Django's consumer at every delivery, when
   its transaction commits (`consume_incidents.py:481`): no event after it is consumed.
7. A delete carries the version of the last save (`alerts/views.py:182`) and is discarded as stale:
   rules and playbooks deleted in Django stay in DB-2.
8. A restart between a playbook's transaction and the enqueue of its embedding loses the
   embedding: the repeated event is stale and returns first.
9. A webhook's `BillingEvent` row is written before its effect (`webhooks.py:43`): a request that
   ends in between loses the event. Two handlers that overlap may write status and flag in
   opposite orders; the hourly sync writes the status without the flag and saves a row it
   loaded before its requests to the provider; two events of one millisecond count as one.
10. A notification whose worker dies between the POST and the commit is sent again. A
    pull request task that ends after moving the branch finds the branch there the next
    time and records `failed` over an open pull request. A push whose attempt failed is
    delivered again for a retry, but its reservation makes the retry a no-op. An entry that SQS
    refuses is in the `Failed` list of the answer, which the router does not read (`handler.py:103`):
    that device gets nothing.
11. A device registered again while its message is on the way loses the new token:
    `mark_token_invalid` names the device only.
12. Of two overlapping index tasks the older may record its commit last; a late cleanup
    empties the index of a new connection; a PATCH of the integration saves the status it
    loaded over the one FastAPI reported, and the last indexed commit with it: a merge push
    that is compared with an older commit may leave the rows of a removed file. A PATCH may
    also name another branch or repository, whose first index is never dispatched, since the row
    was indexed before (`config_sync.py:164`). And a first index that is killed by its hard time limit,
    cancelled, or fails in its own report (`index_code.py:614`, `:1016`) stays "indexing".
13. A PATCH between `persist_new_incident` and `link_log_to_incident` is overwritten in
    Elasticsearch; a document written after run_agent looked for it, or while Elasticsearch failed
    (`run_agent.py:286`, `:419`), is never linked.
    `update_incident_status` therefore does not always keep the search page in sync.
14. A retry of an ingestion whose commit succeeded hits the primary key and is answered 500
    every time, although the comment calls it idempotent (`ingest.py:353`: "ON CONFLICT DO
    NOTHING"; the INSERT is a plain one).
15. `save()` of a user, session, invitation or device writes every column of a row loaded
    before: two requests that overlap lose one of the updates, and a session row deleted
    meanwhile is inserted again (`users/models.py:279`, `:498`, `users/views.py:257`). Two requests
    that disable the second factor, with a set-up between them, leave a confirmed device after the
    answer "disabled", and without its new backup codes (`mfa_service.py:254`).
16. A worker that dies between INCR and EXPIRE leaves a login counter without a lifetime. Logins
    that are checked together exceed the limit of failures together (`users/views.py:124`).

Sequential:

17. Drafts are stored as `open` incidents, with the outbox rows that the docstring says are
    skipped (`services/incidents.py:498`).
18. The look-up of the patch generator filters by tenant but not by repository
    (`patch_generator.py:221`), and each search is verified in the file looked up, whatever file
    the patch names, so the paths "PatchGenerator will never touch" (`:51`) can be named. Two
    patches of one file are both applied to its original and the last one stays
    (`github_pr.py:356`). A fix confidence of 0.0 is not blended into the coherence; an answer
    in code fences counts as 0.80 whatever confidence it states.
19. The analyzer and the fix generator record a failure for callers the breaker itself
    blocked, although the comment restricts failures to API and network errors
    (`analyzer.py:397`). `HealthyCloses` is about the patch generator for that reason.
20. `index_log_event` returns False on every error, so the Elasticsearch breaker around it never
    counts a failure and never opens (`log_event_indexer.py:121`).
21. `send_invitation` looks up only `pending` rows, so its branch for expired ones cannot run
    (`invitation_service.py:54`); a second lapsed or cancelled invitation of one e-mail
    violates the unique key and is answered with an error. Seats are counted in members,
    not in pending invitations, and before the row is created (`quotas.py:97`), so acceptances
    can exceed the plan. `check_api_key_limit` has no caller although its docstring names
    one (`quotas.py:116`).
22. Only the first unused backup code is compared (`mfa_service.py:187`); disabling the second
    factor accepts a TOTP code only, although its serializer says "TOTP code OR backup code".
23. An owner who registered with upper-case letters before the `@` cannot log in: the login
    lower-cases the address and the registration does not.
24. `post_system_message` writes an outbox row; its docstring says no event is needed.
25. An S3 object that does not exist raises `FileNotFoundError`, an `OSError`, which `parse_log`
    retries five times with the other ones (`parse_log.py:172`, `:669`), although its docstring
    says "NOT retried" (`:720`). `ObjectBeforeTask` shows that no task meets that case.

Hazards no property covers, and which are not in `PROJECT.json`: the lost dispatch of item 3 and
the assignee lists of item 2 (no property holds of them); the bulk deactivation of API keys at a
downgrade sends no event, so FastAPI accepts those keys until they are revoked; the plan of
a cached key lives as long as its cache entry; parse errors that end a task without a retry leave
a stored log unanalysed (counted as `dropped`).

## 6. Not modelled

`PROJECT.json` lists every component with its status. In short:

* External services (model calls, GitHub, S3, Elasticsearch, SES, Razorpay, FCM) appear as the
  answers and state the code depends on, never as programs of their own.
* Collaboration (threads and messages appended once, best-effort broadcast), websockets
  (no state of their own), superadmin and admin views (over other components' data),
  middleware, gateway and deployment scripts (headers and configuration).
* The Elasticsearch breaker of `services/circuit_breaker.py`: by item 20 nothing it guards raises.
* A PATCH of an integration that changes the repository's name without its URL, and the index of any
  repository but the one modelled.
* Inside the modelled components: row-level security, audit logs, wording and layout, prompts,
  presigned uploads, profile pictures' contents, encryption of tokens, invoices and payment orders,
  the assignee rules of PATCH, the destinations of notifications, the extraction of error type and
  stack frames by the parser, the computation of vectors, the Elasticsearch and S3 part of the
  tenant wipe.
* Reads that change nothing: lists, details, search queries, dashboards.
