---------------------------- MODULE TenantConfig ----------------------------
(***************************************************************************)
(* The plan, the suspension and the API keys of one tenant on their way    *)
(* from Django to the requests of FastAPI: the payment provider's webhook, *)
(* the verification of a payment and the hourly subscription sync          *)
(* (django/apps/billing), the plan signal (django/apps/tenants/signals.py),*)
(* creating and revoking API keys (django/apps/users), the config.tenants  *)
(* and config.api_keys handlers of the ConfigSyncConsumer, and the cached  *)
(* look-ups that every request of FastAPI makes                            *)
(* (fastapi/app/api/dependencies/tenant.py).                               *)
(*                                                                         *)
(* None of the Django writes below runs in a transaction with its outbox   *)
(* row.  The source_version of a tenant event is the wall clock in         *)
(* milliseconds: `clock', which two events may read in the same tick.      *)
(* A Redis that fails is not modelled here: the checks then fall through.  *)
(***************************************************************************)
EXTENDS Integers, Sequences, FiniteSets

CONSTANTS Restores, Halts, Cancels, \* events of the payment provider, by kind
          Hook,          \* requests of Django that can write the tenant at the same time
          Key,           \* API keys
          Reader,        \* concurrent requests of FastAPI
          FreeKeys,      \* PLAN_QUOTAS["free"].max_api_keys
          MaxTrouble     \* bound: runs of sync_subscription_statuses, payments, Django requests
                         \* that end half way, handlers that raise and restarts, together

Event == Restores \cup Halts \cup Cancels

\* Why a request writes the tenant: an event, or a payment the browser reports.
Cause == Event \cup {"payment"}
NoConfig == [plan |-> "none", suspended |-> FALSE, version |-> 0]

ASSUME TenantAssumption ==
    /\ FreeKeys \in Nat /\ MaxTrouble \in Nat
    /\ Restores \cap Halts = {} /\ Restores \cap Cancels = {} /\ Halts \cap Cancels = {}
    /\ "payment" \notin Event

Plan == {"free", "pro"}
Status == {"active", "suspended"}
Config == [plan : Plan, suspended : BOOLEAN, version : Nat]

VARIABLES
    tenant,      \* DB-1: plan_tier and status
    logged,      \* DB-1: razorpay_event_id of the BillingEvent rows
    hook,        \* the running webhook requests
    sync,        \* the running subscription sync
    activeKeys,  \* DB-1: API keys with is_active
    created,     \* DB-1: API keys by created_at
    revoking,    \* the key whose revocation was saved and not yet sent
    flag,        \* Redis: tenant:{id}:suspended
    clock,       \* milliseconds
    topic,       \* Kafka: the events of config.tenants and config.api_keys
    committed, position, handling,        \* the consumer
    snapshot,    \* DB-2: TenantSnapshot, NoConfig before the first event
    keyRow,      \* DB-2: APIKeySnapshot of each key
    config,      \* Redis: tenant:{id}:config
    keyCache,    \* Redis: keys with an entry apikey_to_tenant:{key}
    reader,      \* the running requests of FastAPI
    syncs, payments, crashes, failures, restarts,   \* counters of the bounds
    effects,     \* history: how often each billing event took effect
    overlapped,  \* history: two writers of the tenant row ran at the same time
    tied         \* history: two tenant events carry the same millisecond

djangoVars   == <<tenant, logged, hook, sync, activeKeys, created, revoking, flag, clock>>
consumerVars == <<committed, position, handling, snapshot, keyRow>>
cacheVars    == <<config, keyCache>>
bounds       == <<syncs, payments, crashes, failures, restarts>>
history      == <<effects, overlapped, tied>>
vars == <<djangoVars, topic, consumerVars, cacheVars, reader, bounds, history>>

TroubleLeft == syncs + payments + crashes + failures + restarts < MaxTrouble

IdleHook == [pc |-> "idle"]
IdleReader == [pc |-> "idle"]

\* Registration: an active tenant on the free plan, its first event written.
Init ==
    /\ tenant = [plan |-> "free", status |-> "active"]
    /\ logged = {}
    /\ hook = [h \in Hook |-> IdleHook]
    /\ sync = IdleHook
    /\ activeKeys = {} /\ created = << >> /\ revoking = {}
    /\ flag = FALSE
    /\ clock = 1
    /\ topic = [tenants |-> <<[plan |-> "free", suspended |-> FALSE, version |-> 1]>>,
                keys |-> << >>]
    /\ committed = [tenants |-> 0, keys |-> 0]
    /\ position = [tenants |-> 0, keys |-> 0]
    /\ handling = IdleHook
    /\ snapshot = NoConfig
    /\ keyRow = [k \in Key |-> "none"]
    /\ config = NoConfig
    /\ keyCache = {}
    /\ reader = [r \in Reader |-> IdleReader]
    /\ syncs = 0 /\ payments = 0 /\ crashes = 0 /\ failures = 0 /\ restarts = 0
    /\ effects = [e \in Event |-> 0]
    /\ overlapped = FALSE /\ tied = FALSE

-----------------------------------------------------------------------------
(* RazorpayWebhookView.post *)

Busy(h) == hook[h].pc # "idle"
Writers == {h \in Hook : Busy(h)} \cup (IF sync.pc # "idle" THEN {"sync"} ELSE {})
Step(h, s) == hook' = [hook EXCEPT ![h] = s]
NoteOverlap == overlapped' = (overlapped \/ Writers # {})

\* The existence check; the event of a known row is answered "already processed".
ReceiveEvent(h, e) ==
    /\ ~Busy(h)
    /\ e \notin logged
    /\ Step(h, [pc |-> "log", event |-> e])
    /\ NoteOverlap
    /\ UNCHANGED <<tenant, logged, sync, activeKeys, created, revoking, flag, clock, topic,
                   consumerVars, cacheVars, reader, bounds, effects, tied>>

\* Mutant: razorpay_event_id is not unique.
LogAlways(h) ==
    /\ hook[h].pc = "log"
    /\ logged' = logged \cup {hook[h].event}
    /\ Step(h, [hook[h] EXCEPT !.pc = "load"])
    /\ UNCHANGED <<tenant, sync, activeKeys, created, revoking, flag, clock, topic,
                   consumerVars, cacheVars, reader, bounds, history>>

\* BillingEvent.objects.create: the id is unique, so the second of two concurrent
\* deliveries gets an error.
LogEvent(h) ==
    /\ hook[h].pc = "log"
    /\ logged' = logged \cup {hook[h].event}
    /\ Step(h, IF hook[h].event \in logged THEN IdleHook ELSE [hook[h] EXCEPT !.pc = "load"])
    /\ UNCHANGED <<tenant, sync, activeKeys, created, revoking, flag, clock, topic,
                   consumerVars, cacheVars, reader, bounds, history>>

LoadTenant(h) ==
    /\ hook[h].pc = "load"
    /\ Step(h, [pc |-> "save", event |-> hook[h].event, row |-> tenant])
    /\ UNCHANGED <<tenant, logged, sync, activeKeys, created, revoking, flag, clock, topic,
                   consumerVars, cacheVars, reader, bounds, history>>

\* VerifyPaymentView.post: the browser's payment is genuine; the tenant of the user is loaded,
\* to get the plan that was paid for.
VerifyPayment(h) ==
    /\ TroubleLeft
    /\ payments' = payments + 1
    /\ ~Busy(h)
    /\ Step(h, [pc |-> "save", event |-> "payment", row |-> tenant])
    /\ NoteOverlap
    /\ UNCHANGED <<tenant, logged, sync, activeKeys, created, revoking, flag, clock, topic,
                   consumerVars, cacheVars, reader, syncs, crashes, failures, restarts,
                   effects, tied>>

\* What the handler sets on the row it loaded.
Applied(e, row) ==
    CASE e \in Restores -> [plan |-> "pro", status |-> "active"]
      [] e \in Halts    -> [row EXCEPT !.status = "suspended"]
      [] e \in Cancels  -> [row EXCEPT !.plan = "free"]
      [] e = "payment"  -> [row EXCEPT !.plan = "pro"]

\* update_fields: only the fields the branch names are written.
Written(e, row) ==
    CASE e \in Restores -> row
      [] e \in Halts    -> [tenant EXCEPT !.status = row.status]
      [] e \in Cancels \cup {"payment"} -> [tenant EXCEPT !.plan = row.plan]

\* Mutant: the signal does not see that the plan has changed.
SaveSilently(h) ==
    /\ hook[h].pc = "save"
    /\ LET e == hook[h].event
           row == Applied(e, hook[h].row)
       IN  /\ tenant' = Written(e, row)
           /\ effects' = IF e \in Event THEN [effects EXCEPT ![e] = @ + 1] ELSE effects
           /\ Step(h, [pc |-> "after", event |-> e])
    /\ UNCHANGED <<logged, sync, activeKeys, created, revoking, flag, clock, topic,
                   consumerVars, cacheVars, reader, bounds, overlapped, tied>>

\* tenant.save with its signals: pre_save reads the stored plan, post_save writes an event
\* when the plan differs from it.
SaveTenant(h) ==
    /\ hook[h].pc = "save"
    /\ LET e == hook[h].event
           row == Applied(e, hook[h].row)
       IN  /\ tenant' = Written(e, row)
           /\ effects' = IF e \in Event THEN [effects EXCEPT ![e] = @ + 1] ELSE effects
           /\ Step(h, IF row.plan # tenant.plan
                      THEN [pc |-> "payload", event |-> e, row |-> row]
                      ELSE [pc |-> "after", event |-> e])
    /\ UNCHANGED <<logged, sync, activeKeys, created, revoking, flag, clock, topic,
                   consumerVars, cacheVars, reader, bounds, overlapped, tied>>

\* invalidate_cache_on_plan_change: the payload carries the row in memory and the time; the
\* row of the outbox follows.  (It also deletes "tenant:config:{id}", which is not the key
\* FastAPI caches under.)
Stamp(row, tick) == [plan |-> row.plan, suspended |-> row.status = "suspended",
                     version |-> clock + tick]

ReadClock(tick) ==
    /\ clock' = clock + tick
    /\ tied' = (tied \/ tick = 0)

BuildPayload(h) ==
    /\ hook[h].pc = "payload"
    /\ \E tick \in 0..1 :
        /\ ReadClock(tick)
        /\ Step(h, [pc |-> "send", event |-> hook[h].event,
                    payload |-> Stamp(hook[h].row, tick)])
    /\ UNCHANGED <<tenant, logged, sync, activeKeys, created, revoking, flag, topic,
                   consumerVars, cacheVars, reader, bounds, effects, overlapped>>

SendPlan(h) ==
    /\ hook[h].pc = "send"
    /\ topic' = [topic EXCEPT !.tenants = Append(@, hook[h].payload)]
    /\ Step(h, [pc |-> "after", event |-> hook[h].event])
    /\ UNCHANGED <<tenant, logged, sync, activeKeys, created, revoking, flag, clock,
                   consumerVars, cacheVars, reader, bounds, history>>

\* Mutant: a restored tenant keeps its suspension flag.
AfterSaveKeepsFlag(h) ==
    /\ hook[h].pc = "after"
    /\ flag' = (flag \/ hook[h].event \in Halts)
    /\ Step(h, IdleHook)
    /\ UNCHANGED <<tenant, logged, sync, activeKeys, created, revoking, clock, topic,
                   consumerVars, cacheVars, reader, bounds, history>>

\* The branch's last step.  A cancellation deactivates the API keys beyond the free quota,
\* the oldest stay; bulk_update writes no event.  (The excess users are not modelled.)
AfterSave(h) ==
    /\ hook[h].pc = "after"
    /\ LET e == hook[h].event
           active == {i \in 1..Len(created) : created[i] \in activeKeys}
           kept == {i \in active : Cardinality({j \in active : j < i}) < FreeKeys}
       IN  /\ flag' = IF e \in Halts THEN TRUE ELSE IF e \in Restores THEN FALSE ELSE flag
           /\ activeKeys' = IF e \in Cancels THEN {created[i] : i \in kept} ELSE activeKeys
    /\ Step(h, IdleHook)
    /\ UNCHANGED <<tenant, logged, sync, created, revoking, clock, topic,
                   consumerVars, cacheVars, reader, bounds, history>>

\* The request ends half way; the delivery of the event that follows finds the row and does
\* nothing.
CrashHook(h) ==
    /\ TroubleLeft
    /\ crashes' = crashes + 1
    /\ Busy(h)
    /\ Step(h, IdleHook)
    /\ UNCHANGED <<tenant, logged, sync, activeKeys, created, revoking, flag, clock, topic,
                   consumerVars, cacheVars, reader, syncs, payments, failures, restarts,
                   history>>

-----------------------------------------------------------------------------
(* sync_subscription_statuses, the hourly task *)

\* The query loads the tenants; the subscriptions are fetched one by one afterwards.
StartSync ==
    /\ TroubleLeft
    /\ sync.pc = "idle"
    /\ sync' = [pc |-> "fetch", row |-> tenant]
    /\ syncs' = syncs + 1
    /\ NoteOverlap
    /\ UNCHANGED <<tenant, logged, hook, activeKeys, created, revoking, flag, clock, topic,
                   consumerVars, cacheVars, reader, payments, crashes, failures, restarts, effects,
                   tied>>

\* The provider's answer s becomes the status; the flag in Redis is left alone.  The signal
\* compares the stored plan with the plan loaded before.
SyncStatus(s) ==
    /\ sync.pc = "fetch"
    /\ LET row == [sync.row EXCEPT !.status = s]
       IN  IF sync.row.status = s
           THEN /\ sync' = IdleHook
                /\ UNCHANGED <<tenant, clock, tied, topic>>
           ELSE /\ tenant' = [tenant EXCEPT !.status = s]
                /\ sync' = IdleHook
                /\ IF row.plan # tenant.plan
                   THEN \E tick \in 0..1 :
                            /\ ReadClock(tick)
                            /\ topic' = [topic EXCEPT !.tenants = Append(@, Stamp(row, tick))]
                   ELSE UNCHANGED <<clock, tied, topic>>
    /\ UNCHANGED <<logged, hook, activeKeys, created, revoking, flag,
                   consumerVars, cacheVars, reader, bounds, effects, overlapped>>

-----------------------------------------------------------------------------
(* API keys in Django *)

\* APIKeyCreateSerializer.create: the row and its event.
CreateKey(k) ==
    /\ \A i \in 1..Len(created) : created[i] # k
    /\ created' = Append(created, k)
    /\ activeKeys' = activeKeys \cup {k}
    /\ topic' = [topic EXCEPT !.keys = Append(@, [key |-> k, active |-> TRUE])]
    /\ UNCHANGED <<tenant, logged, hook, sync, revoking, flag, clock,
                   consumerVars, cacheVars, reader, bounds, history>>

\* RevokeAPIKeyView.post: first the row ...
RevokeKey(k) ==
    /\ k \in activeKeys
    /\ activeKeys' = activeKeys \ {k}
    /\ revoking' = revoking \cup {k}
    /\ UNCHANGED <<tenant, logged, hook, sync, created, flag, clock, topic,
                   consumerVars, cacheVars, reader, bounds, history>>

\* ... then the event, unless the request ends between the two.
SendRevocation(k) ==
    /\ k \in revoking
    /\ revoking' = revoking \ {k}
    /\ topic' = [topic EXCEPT !.keys = Append(@, [key |-> k, active |-> FALSE])]
    /\ UNCHANGED <<tenant, logged, hook, sync, activeKeys, created, flag, clock,
                   consumerVars, cacheVars, reader, bounds, history>>

CrashRevocation(k) ==
    /\ TroubleLeft
    /\ crashes' = crashes + 1
    /\ k \in revoking
    /\ revoking' = revoking \ {k}
    /\ UNCHANGED <<tenant, logged, hook, sync, activeKeys, created, flag, clock, topic,
                   consumerVars, cacheVars, reader, syncs, payments, failures, restarts,
                   history>>

-----------------------------------------------------------------------------
(* ConfigSyncConsumer *)

Polls(p) == handling.pc = "idle" /\ position[p] < Len(topic[p])
NextEvent(p) == topic[p][position[p] + 1]
Advance(p) == position' = [position EXCEPT ![p] = @ + 1]

IsStale(ev) == snapshot # NoConfig /\ snapshot.version >= ev.version

\* _handle_tenant_event: a stale event returns, without an invalidation.
ApplyTenant ==
    /\ Polls("tenants")
    /\ Advance("tenants")
    /\ LET ev == NextEvent("tenants")
       IN  IF IsStale(ev)
           THEN handling' = [pc |-> "commit"] /\ UNCHANGED snapshot
           ELSE snapshot' = ev /\ handling' = [pc |-> "invalidate"]
    /\ UNCHANGED <<djangoVars, topic, committed, keyRow, cacheVars, reader, bounds, history>>

Invalidate ==
    /\ handling.pc = "invalidate"
    /\ config' = NoConfig
    /\ handling' = [pc |-> "commit"]
    /\ UNCHANGED <<djangoVars, topic, committed, position, snapshot, keyRow, keyCache,
                   reader, bounds, history>>

KeyState(ev) == IF ev.active THEN "active" ELSE "inactive"

\* Mutant: the upsert does nothing for a key that has a row.
ApplyKeyOnce ==
    /\ Polls("keys")
    /\ Advance("keys")
    /\ LET ev == NextEvent("keys")
       IN  /\ keyRow' = IF keyRow[ev.key] = "none"
                        THEN [keyRow EXCEPT ![ev.key] = KeyState(ev)] ELSE keyRow
           /\ handling' = [pc |-> "cacheKey", event |-> ev]
    /\ UNCHANGED <<djangoVars, topic, committed, snapshot, cacheVars, reader, bounds, history>>

\* _handle_api_keys_event: the upsert has no version to compare.
ApplyKey ==
    /\ Polls("keys")
    /\ Advance("keys")
    /\ LET ev == NextEvent("keys")
       IN  /\ keyRow' = [keyRow EXCEPT ![ev.key] = KeyState(ev)]
           /\ handling' = [pc |-> "cacheKey", event |-> ev]
    /\ UNCHANGED <<djangoVars, topic, committed, snapshot, cacheVars, reader, bounds, history>>

CacheKey ==
    /\ handling.pc = "cacheKey"
    /\ keyCache' = IF handling.event.active THEN keyCache \cup {handling.event.key}
                   ELSE keyCache \ {handling.event.key}
    /\ handling' = [pc |-> "commit"]
    /\ UNCHANGED <<djangoVars, topic, committed, position, snapshot, keyRow, config,
                   reader, bounds, history>>

\* The database or, after the upsert of a key, Redis raises: the loop goes on with the
\* next message.
HandlerFails ==
    /\ TroubleLeft
    /\ failures' = failures + 1
    /\ \/ \E p \in {"tenants", "keys"} : Polls(p) /\ Advance(p) /\ UNCHANGED handling
       \/ handling.pc = "cacheKey" /\ handling' = IdleHook /\ UNCHANGED position
    /\ UNCHANGED <<djangoVars, topic, committed, snapshot, keyRow, cacheVars, reader,
                   syncs, payments, crashes, restarts, history>>

Commit ==
    /\ handling.pc = "commit"
    /\ committed' = position
    /\ handling' = IdleHook
    /\ UNCHANGED <<djangoVars, topic, position, snapshot, keyRow, cacheVars, reader,
                   bounds, history>>

Restart ==
    /\ TroubleLeft
    /\ restarts' = restarts + 1
    /\ position' = committed
    /\ handling' = IdleHook
    /\ UNCHANGED <<djangoVars, topic, committed, snapshot, keyRow, cacheVars, reader,
                   syncs, payments, crashes, failures, history>>

-----------------------------------------------------------------------------
(* The requests of FastAPI: get_tenant_from_api_key, which ends in get_validated_tenant *)

Move(r, s) == reader' = [reader EXCEPT ![r] = s]
AtPc(r, pc) == reader[r].pc = pc

\* The key's cache entry; on a miss its row.
ReadKeyCache(r, k) ==
    /\ AtPc(r, "idle")
    /\ Move(r, IF k \in keyCache THEN [pc |-> "flag"] ELSE [pc |-> "keyRow", key |-> k])
    /\ UNCHANGED <<djangoVars, topic, consumerVars, cacheVars, bounds, history>>

ReadKeyRow(r) ==
    /\ AtPc(r, "keyRow")
    /\ Move(r, IF keyRow[reader[r].key] = "active" THEN [reader[r] EXCEPT !.pc = "keyFill"]
               ELSE IdleReader)
    /\ UNCHANGED <<djangoVars, topic, consumerVars, cacheVars, bounds, history>>

FillKeyCache(r) ==
    /\ AtPc(r, "keyFill")
    /\ keyCache' = keyCache \cup {reader[r].key}
    /\ Move(r, [pc |-> "flag"])
    /\ UNCHANGED <<djangoVars, topic, consumerVars, config, bounds, history>>

\* A request with a JWT starts here (get_validated_tenant).
StartWithToken(r) ==
    /\ AtPc(r, "idle")
    /\ Move(r, [pc |-> "flag"])
    /\ UNCHANGED <<djangoVars, topic, consumerVars, cacheVars, bounds, history>>

\* _check_suspension_flag, then _get_cached_snapshot.
CheckFlagAndCache(r) ==
    /\ AtPc(r, "flag")
    /\ Move(r, IF flag \/ config # NoConfig THEN IdleReader ELSE [pc |-> "row"])
    /\ UNCHANGED <<djangoVars, topic, consumerVars, cacheVars, bounds, history>>

\* The row of DB-2: a missing or suspended tenant is refused and not cached.
ReadRow(r) ==
    /\ AtPc(r, "row")
    /\ Move(r, IF snapshot = NoConfig THEN IdleReader
               ELSE IF snapshot.suspended THEN IdleReader
               ELSE [pc |-> "fill", row |-> snapshot])
    /\ UNCHANGED <<djangoVars, topic, consumerVars, cacheVars, bounds, history>>

\* _populate_cache
FillConfig(r) ==
    /\ AtPc(r, "fill")
    /\ config' = reader[r].row
    /\ Move(r, IdleReader)
    /\ UNCHANGED <<djangoVars, topic, consumerVars, keyCache, bounds, history>>

\* Mutant: the entry is set without a TTL.
NeverExpires == FALSE /\ UNCHANGED vars

\* _CACHE_TTL_SECONDS
ExpireConfig ==
    /\ config # NoConfig
    /\ config' = NoConfig
    /\ UNCHANGED <<djangoVars, topic, consumerVars, keyCache, reader, bounds, history>>

ExpireKey(k) ==
    /\ k \in keyCache
    /\ keyCache' = keyCache \ {k}
    /\ UNCHANGED <<djangoVars, topic, consumerVars, config, reader, bounds, history>>

-----------------------------------------------------------------------------
Consume == ApplyTenant \/ Invalidate \/ ApplyKey \/ CacheKey \/ Commit
HookSteps(h) == VerifyPayment(h) \/ LogEvent(h) \/ LoadTenant(h) \/ SaveTenant(h) \/ BuildPayload(h)
                \/ SendPlan(h) \/ AfterSave(h)
Request(r) ==
    \/ \E k \in Key : ReadKeyCache(r, k)
    \/ ReadKeyRow(r) \/ FillKeyCache(r) \/ StartWithToken(r) \/ CheckFlagAndCache(r)
    \/ ReadRow(r) \/ FillConfig(r)

Next ==
    \/ \E h \in Hook : (\E e \in Event : ReceiveEvent(h, e)) \/ HookSteps(h) \/ CrashHook(h)
    \/ StartSync \/ \E s \in Status : SyncStatus(s)
    \/ \E k \in Key : CreateKey(k) \/ RevokeKey(k) \/ SendRevocation(k)
                      \/ CrashRevocation(k) \/ ExpireKey(k)
    \/ Consume \/ HandlerFails \/ Restart
    \/ \E r \in Reader : Request(r)
    \/ ExpireConfig

\* The consumer polls for ever and Redis drops an entry when its time is over; nothing
\* else is owed: requests come and go, and a webhook may never be sent.
Fairness == WF_vars(Consume) /\ WF_vars(ExpireConfig) /\ \A k \in Key : WF_vars(ExpireKey(k))

Spec == Init /\ [][Next]_vars /\ Fairness

-----------------------------------------------------------------------------
(* The rows, caches and requests have the values the code gives them. *)
TypeOK ==
    /\ tenant \in [plan : Plan, status : Status]
    /\ logged \subseteq Event /\ activeKeys \subseteq Key /\ keyCache \subseteq Key
    /\ snapshot \in Config \cup {NoConfig} /\ config \in Config \cup {NoConfig}
    /\ keyRow \in [Key -> {"none", "active", "inactive"}]
    /\ flag \in BOOLEAN
    /\ \A p \in {"tenants", "keys"} : committed[p] <= position[p] /\ position[p] <= Len(topic[p])

(* A billing event takes effect at most once, however often and concurrently the payment  *)
(* provider delivers it (the unique razorpay_event_id behind the existence check).        *)
EventAppliedOnce == \A e \in Event : effects[e] <= 1

(* The tables stay within what the code writes and no event counts twice, through          *)
(* concurrent deliveries, crashes, failing handlers and restarts.                          *)
BilledOnce == TypeOK /\ EventAppliedOnce

Quiet == Writers = {}

(* When webhooks were handled one after the other, none ended half way and the hourly     *)
(* sync did not write the status, the suspension flag of Redis that every request checks  *)
(* says what the status column says.                                                      *)
FlagFollowsStatus ==
    Quiet /\ crashes = 0 /\ syncs = 0 /\ ~overlapped => (flag <=> tenant.status = "suspended")

(* The plan in DB-2 is the plan in DB-1 once the topic is drained, if no writers of the   *)
(* tenant overlapped or ended half way, no handler raised and no two events carry the     *)
(* same millisecond (the second would be discarded as stale).                             *)
PlanConverges ==
    /\ Quiet /\ crashes = 0 /\ failures = 0 /\ ~overlapped /\ ~tied
    /\ position.tenants = Len(topic.tenants)
    => snapshot.plan = tenant.plan

(* A revoked key is refused for good after a while: its cache entry expires, and a request *)
(* that read the row before the revocation and fills the cache after the purge can only    *)
(* delay that.  (Unless the revocation's event was lost.)                                  *)
RevokedKeyRefused ==
    \A k \in Key :
        <>[](crashes = 0 /\ failures = 0 /\ k \in {created[i] : i \in 1..Len(created)}
             /\ k \notin activeKeys /\ k \notin revoking /\ logged \cap Cancels = {}
             => keyRow[k] = "inactive" /\ k \notin keyCache)

(* A configuration cached from a row that has changed since is dropped in the end, even    *)
(* when it was cached after the invalidation.                                              *)
StaleConfigDropped ==
    (config # NoConfig /\ config # snapshot) ~> (config = NoConfig \/ config = snapshot)
=============================================================================
