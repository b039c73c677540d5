-------------------------- MODULE IncidentPipeline --------------------------
(***************************************************************************)
(* The path of a parsed log event through the run_agent Celery task        *)
(* (fastapi/app/worker/tasks/run_agent.py): the Redis deduplication lock,  *)
(* the fingerprint query, the duplicate path, the agent workflow, the      *)
(* transaction that persists a new incident, the release of the lock and   *)
(* the messages sent downstream; together with what runs beside it on the  *)
(* same rows: status changes through PATCH /incidents/{id} and the         *)
(* tenant wipe.                                                            *)
(*                                                                         *)
(* One action per Redis command, per database transaction and per await    *)
(* that another worker can interleave with.  A task is one message of the  *)
(* agent queue; acks_late and reject_on_worker_lost put it back on the     *)
(* queue when its worker dies.                                             *)
(***************************************************************************)
EXTENDS IncidentTable, FiniteSets

CONSTANTS Task,          \* run_agent messages
          FpOf,          \* the fingerprint of a task's event
          LogOf,         \* the S3 key of a task's event
          HasAlert,      \* tasks whose incident an enabled alert rule matches
          HasPatch,      \* tasks for which the agent produces a code patch
          Editor,        \* clients of PATCH /incidents/{id}, one request at a time
          NoTask, NoIncident,
          RedisFaults,   \* a Redis command may fail (fail-open, lost release)
          TtlTooShort,   \* a run may outlive the 30 s TTL of its lock
          BrokerFaults,  \* publishing a message may fail (errors are swallowed)
          MaxRetries,    \* max_retries of the task
          MaxCrashes,    \* bound: worker losses and hard time-limit kills
          MaxEdits,      \* bound: PATCH requests that reach their UPDATE
          MaxWipes       \* bound: executions of wipe_tenant_data

ASSUME PipelineAssumption ==
    /\ FpOf \in [Task -> Fingerprint]
    /\ LogOf \in [Task -> Log]
    /\ HasAlert \subseteq Task
    /\ HasPatch \subseteq Task
    /\ NoTask \notin Task
    /\ NoIncident \notin IncidentId
    /\ RedisFaults \in BOOLEAN
    /\ TtlTooShort \in BOOLEAN
    /\ BrokerFaults \in BOOLEAN
    /\ MaxRetries \in Nat
    /\ MaxCrashes \in Nat
    /\ MaxEdits \in Nat
    /\ MaxWipes \in Nat

VARIABLES
    pc,         \* where each task is
    outcome,    \* the "action" a task returned, or why it raised
    target,     \* the incident a task read or inserted
    seenCount,  \* occurrence_count in the row the task read
    retries,    \* self.request.retries
    lock,       \* dedup:lock:{fingerprint} -> owner_id
    incidents,  \* the incidents table
    outbox,     \* rows of the outbox table, in commit order
    delivery,   \* incidents with a NotificationDelivery row, which is pending
    messages,   \* messages sent to other queues about an incident
    patch,      \* the PATCH request an editor has in progress
    crashes, edits, wipes

taskVars  == <<pc, outcome, target, seenCount, retries>>
tableVars == <<incidents, outbox, delivery>>
vars == <<taskVars, lock, tableVars, messages, patch, crashes, edits, wipes>>

-----------------------------------------------------------------------------
\* Program points of _execute_run_agent and of the wrapper around it.
InLockedSection == {"find", "record", "analyse", "persist", "publish", "release"}
InFlight == InLockedSection \cup {"dispatch"}
Finished == {"done", "failed"}
TaskPC   == {"queued"} \cup InFlight \cup Finished

Outcomes == {"none", "lock_contention", "duplicate_recorded", "not_actionable",
             "late_duplicate", "created", "retry", "error"}

Topics == {"created", "analyzed", "duplicate_recorded", "updated"}
NoStatus == "none"
Event == [topic : Topics, id : IncidentId, count : Nat,
          from : Status \cup {NoStatus}, to : Status \cup {NoStatus}]

\* _build_incident_created_payload and _build_incident_analyzed_payload
CreatedEvents(i) ==
    << [topic |-> "created",  id |-> i, count |-> 1, from |-> NoStatus, to |-> "open"],
       [topic |-> "analyzed", id |-> i, count |-> 0, from |-> NoStatus, to |-> NoStatus] >>
DuplicateEvent(i, n) ==
    [topic |-> "duplicate_recorded", id |-> i, count |-> n,
     from |-> NoStatus, to |-> NoStatus]
UpdatedEvent(i, s1, s2) ==
    [topic |-> "updated", id |-> i, count |-> 0, from |-> s1, to |-> s2]

Message == [to : {"push", "send_notification", "create_github_pr"}, id : IncidentId]
Msg(q, i) == [to |-> q, id |-> i]

PatchState == [pc : {"idle", "write"},
               id : IncidentId \cup {NoIncident},
               from : Status \cup {NoStatus}, to : Status \cup {NoStatus}]
IdlePatch == [pc |-> "idle", id |-> NoIncident, from |-> NoStatus, to |-> NoStatus]

Init ==
    /\ pc = [t \in Task |-> "queued"]
    /\ outcome = [t \in Task |-> "none"]
    /\ target = [t \in Task |-> NoIncident]
    /\ seenCount = [t \in Task |-> 0]
    /\ retries = [t \in Task |-> 0]
    /\ lock = [f \in Fingerprint |-> NoTask]
    /\ incidents = EmptyTable
    /\ outbox = << >>
    /\ delivery = {}
    /\ messages = {}
    /\ patch = [e \in Editor |-> IdlePatch]
    /\ crashes = 0
    /\ edits = 0
    /\ wipes = 0

Goto(t, from, to) == pc[t] = from /\ pc' = [pc EXCEPT ![t] = to]

Return(t, o) == outcome' = [outcome EXCEPT ![t] = o]

\* The locals of an execution are gone when its message is queued again.
ForgetLocals(t) ==
    /\ outcome' = [outcome EXCEPT ![t] = "none"]
    /\ target' = [target EXCEPT ![t] = NoIncident]
    /\ seenCount' = [seenCount EXCEPT ![t] = 0]

-----------------------------------------------------------------------------
(* acquire_dedup_lock: SET key owner NX EX 30 *)
\* Mutant: SET without NX.
AcquireWithoutNX(t) ==
    /\ Goto(t, "queued", "find")
    /\ lock' = [lock EXCEPT ![FpOf[t]] = t]
    /\ UNCHANGED <<outcome, target, seenCount, retries, tableVars, messages,
                   patch, crashes, edits, wipes>>

AcquireLock(t) ==
    /\ Goto(t, "queued", "find")
    /\ lock[FpOf[t]] = NoTask
    /\ lock' = [lock EXCEPT ![FpOf[t]] = t]
    /\ UNCHANGED <<outcome, target, seenCount, retries, tableVars, messages,
                   patch, crashes, edits, wipes>>

\* The key exists: the task returns "lock_contention" and is acknowledged.
LockContention(t) ==
    /\ Goto(t, "queued", "done")
    /\ lock[FpOf[t]] # NoTask
    /\ Return(t, "lock_contention")
    /\ UNCHANGED <<target, seenCount, retries, lock, tableVars, messages,
                   patch, crashes, edits, wipes>>

\* RedisError: proceed without the lock.
AcquireFailOpen(t) ==
    /\ RedisFaults
    /\ Goto(t, "queued", "find")
    /\ UNCHANGED <<outcome, target, seenCount, retries, lock, tableVars, messages,
                   patch, crashes, edits, wipes>>

-----------------------------------------------------------------------------
(* find_active_by_fingerprint, and the branch on its result *)

FindActive(t) ==
    LET f == FpOf[t] IN
    \/ /\ Goto(t, "find", "analyse")
       /\ \A i \in IncidentId : ~IsActive(incidents, i, f)
       /\ UNCHANGED <<outcome, target, seenCount, retries, lock, tableVars,
                      messages, patch, crashes, edits, wipes>>
    \/ /\ Goto(t, "find", "record")
       /\ \E i \in IncidentId :
              /\ IsActive(incidents, i, f)
              /\ target' = [target EXCEPT ![t] = i]
              /\ seenCount' = [seenCount EXCEPT ![t] = incidents[i].count]
       /\ UNCHANGED <<outcome, retries, lock, tableVars, messages,
                      patch, crashes, edits, wipes>>

\* The UPDATE and the outbox row of a duplicate, when the UPDATE matches.
RecordOn(t, matches, newCount) ==
    /\ incidents' = IF matches
                    THEN [incidents EXCEPT ![target[t]] = WithOccurrence(@, LogOf[t])]
                    ELSE incidents
    /\ outbox' = Append(outbox, DuplicateEvent(target[t], newCount))

\* Mutant: the count is computed from the row read earlier.
RecordReadModifyWrite(t) ==
    /\ Goto(t, "record", "release")
    /\ RecordOn(t, Live(incidents, target[t]), seenCount[t] + 1)
    /\ Return(t, "duplicate_recorded")
    /\ UNCHANGED <<target, seenCount, retries, lock, delivery, messages,
                   patch, crashes, edits, wipes>>

\* Mutant: the UPDATE also asks for the count read earlier, and nobody looks at
\* the number of rows it matched.
RecordOptimistic(t) ==
    LET row == incidents[target[t]]
        matches == Live(incidents, target[t]) /\ row.count = seenCount[t]
    IN  /\ Goto(t, "record", "release")
        /\ RecordOn(t, matches, seenCount[t] + (IF matches THEN 1 ELSE 0))
        /\ Return(t, "duplicate_recorded")
        /\ UNCHANGED <<target, seenCount, retries, lock, delivery, messages,
                       patch, crashes, edits, wipes>>

\* Mutant: a lost commit reply is retried in place.
RecordRetriesInPlace(t) ==
    /\ pc[t] = "record"
    /\ RecordOn(t, Live(incidents, target[t]), seenCount[t] + 1)
    /\ \/ pc' = [pc EXCEPT ![t] = "release"] /\ Return(t, "duplicate_recorded")
       \/ UNCHANGED <<pc, outcome>>
    /\ UNCHANGED <<target, seenCount, retries, lock, delivery, messages,
                   patch, crashes, edits, wipes>>

\* record_duplicate_occurrence: UPDATE ... RETURNING occurrence_count, the
\* outbox row and the commit.  When the row is gone the count read earlier is
\* used.  A commit may take effect although its reply is lost; the exception that
\* raises is one Celery retries, or not.
RecordDuplicate(t) ==
    LET i == target[t]
        newCount == IF Live(incidents, i) THEN incidents[i].count + 1 ELSE seenCount[t]
    IN  /\ Goto(t, "record", "release")
        /\ RecordOn(t, Live(incidents, i), newCount)
        /\ \E o \in {"duplicate_recorded", "retry", "error"} : Return(t, o)
        /\ UNCHANGED <<target, seenCount, retries, lock, delivery, messages,
                       patch, crashes, edits, wipes>>

-----------------------------------------------------------------------------
(* The agent workflow and persist_new_incident *)

\* The workflow finds the event actionable or not.  Its confidence and action
\* decide the severity of the row (draft rule), which is not kept here.
Analyse(t) ==
    /\ \/ /\ Goto(t, "analyse", "persist")
          /\ UNCHANGED outcome
       \/ /\ Goto(t, "analyse", "release")
          /\ Return(t, "not_actionable")
    /\ UNCHANGED <<target, seenCount, retries, lock, tableVars, messages,
                   patch, crashes, edits, wipes>>

\* The transaction of persist_new_incident with the id i.
Insert(t, i) ==
    /\ incidents[i] = Unissued
    /\ incidents' = [incidents EXCEPT ![i] = NewIncident(FpOf[t], LogOf[t])]
    /\ outbox' = outbox \o CreatedEvents(i)
    /\ delivery' = IF t \in HasAlert THEN delivery \cup {i} ELSE delivery
    /\ target' = [target EXCEPT ![t] = i]

\* Mutant: the partial unique index is missing.
PersistUnchecked(t) ==
    \E i \in IncidentId :
        /\ Goto(t, "persist", "publish")
        /\ Insert(t, i)
        /\ Return(t, "created")
        /\ UNCHANGED <<seenCount, retries, lock, messages, patch, crashes, edits, wipes>>

\* The INSERT of the incident, one NotificationDelivery when an alert rule
\* matches, both outbox rows and the commit; an IntegrityError rolls all of it
\* back and ends in "late_duplicate".
Persist(t) ==
    LET f == FpOf[t] IN
    \/ /\ Goto(t, "persist", "release")
       /\ IndexConflict(incidents, NoIncident, f, "open")
       /\ Return(t, "late_duplicate")
       /\ UNCHANGED <<target, seenCount, retries, lock, tableVars, messages,
                      patch, crashes, edits, wipes>>
    \/ \E i \in IncidentId, o \in {"created", "retry", "error"} :
       /\ Goto(t, "persist", IF o = "created" THEN "publish" ELSE "release")
       /\ ~IndexConflict(incidents, i, f, "open")
       /\ Insert(t, i)
       /\ Return(t, o)
       /\ UNCHANGED <<seenCount, retries, lock, messages, patch, crashes, edits, wipes>>

\* _publish_to_sqs, after the commit; its errors are swallowed.
PublishPush(t) ==
    /\ Goto(t, "publish", "release")
    /\ \/ messages' = messages \cup {Msg("push", target[t])}
       \/ BrokerFaults /\ UNCHANGED messages
    /\ UNCHANGED <<outcome, target, seenCount, retries, lock, tableVars,
                   patch, crashes, edits, wipes>>

-----------------------------------------------------------------------------
(* Errors, the finally block and the dispatch that follows it *)

\* An exception before the commit: one of autoretry_for, or any other
\* (validation, SoftTimeLimitExceeded).
RaiseError(t) ==
    /\ pc[t] \in {"find", "record", "analyse", "persist"}
    /\ pc' = [pc EXCEPT ![t] = "release"]
    /\ \E o \in {"retry", "error"} : Return(t, o)
    /\ UNCHANGED <<target, seenCount, retries, lock, tableVars, messages,
                   patch, crashes, edits, wipes>>

\* Mutant: the retry limit is not looked at.
RetriesForever(t) == outcome[t] = "retry"

\* Celery sends the message again, counting the retry, or gives up.
Retries(t) == outcome[t] = "retry" /\ retries[t] < MaxRetries

\* Where the wrapper goes once _execute_run_agent has returned or raised.
AfterRelease(t) ==
    CASE Retries(t) -> "queued"
      [] outcome[t] \in {"retry", "error"} /\ ~Retries(t) -> "failed"
      [] outcome[t] = "created" -> "dispatch"
      [] OTHER -> "done"

\* release_dedup_lock deletes the key, whoever owns it; a RedisError leaves it.
Release(t) ==
    /\ Goto(t, "release", AfterRelease(t))
    /\ \/ lock' = [lock EXCEPT ![FpOf[t]] = NoTask]
       \/ RedisFaults /\ UNCHANGED lock
    /\ \/ /\ Retries(t)
          /\ retries' = [retries EXCEPT ![t] = @ + 1]
          /\ ForgetLocals(t)
       \/ /\ ~Retries(t)
          /\ UNCHANGED <<outcome, target, seenCount, retries>>
    /\ UNCHANGED <<tableVars, messages, patch, crashes, edits, wipes>>

\* The wrapper sends create_github_pr (when the agent produced a patch) and
\* send_notification (per delivery row); a broker error is swallowed.
Dispatch(t) ==
    LET i == target[t]
        due == (IF t \in HasPatch THEN {Msg("create_github_pr", i)} ELSE {})
               \cup (IF t \in HasAlert THEN {Msg("send_notification", i)} ELSE {})
    IN  /\ Goto(t, "dispatch", "done")
        /\ \/ messages' = messages \cup due
           \/ BrokerFaults /\ \E sent \in SUBSET due : messages' = messages \cup sent
        /\ UNCHANGED <<outcome, target, seenCount, retries, lock, tableVars,
                       patch, crashes, edits, wipes>>

-----------------------------------------------------------------------------
(* The environment of a task *)

\* The worker process dies before the message is acknowledged: the broker
\* delivers it again.  The lock key stays.
WorkerLost(t) ==
    /\ crashes < MaxCrashes
    /\ pc[t] \in InFlight
    /\ pc' = [pc EXCEPT ![t] = "queued"]
    /\ ForgetLocals(t)
    /\ crashes' = crashes + 1
    /\ UNCHANGED <<retries, lock, tableVars, messages, patch, edits, wipes>>

\* time_limit = 600: the pool kills the process and acknowledges the message;
\* no finally block runs.
HardTimeLimit(t) ==
    /\ crashes < MaxCrashes
    /\ pc[t] \in InFlight
    /\ pc' = [pc EXCEPT ![t] = "failed"]
    /\ outcome' = [outcome EXCEPT ![t] = "error"]
    /\ crashes' = crashes + 1
    /\ UNCHANGED <<target, seenCount, retries, lock, tableVars, messages, patch, edits, wipes>>

\* Mutant: SET without EX.
LockNeverExpires(f) == FALSE /\ lock[f] # NoTask /\ UNCHANGED vars

\* EX 30: Redis drops the key; with TtlTooShort also under a running holder.
LockExpires(f) ==
    /\ lock[f] # NoTask
    /\ TtlTooShort \/ pc[lock[f]] \notin InLockedSection
    /\ lock' = [lock EXCEPT ![f] = NoTask]
    /\ UNCHANGED <<taskVars, tableVars, messages, patch, crashes, edits, wipes>>

-----------------------------------------------------------------------------
(* PATCH /incidents/{id}: SELECT and validation, then UPDATE, outbox row and   *)
(* commit.  A request gives a new status or, with NoStatus, only assignees; a  *)
(* transition that is not allowed is answered 400 and changes nothing.         *)

Requested(e, i, s) ==
    patch' = [patch EXCEPT ![e] =
                 [pc |-> "write", id |-> i, from |-> incidents[i].status, to |-> s]]

PatchRead(e) ==
    /\ patch[e].pc = "idle"
    /\ edits < MaxEdits
    /\ edits' = edits + 1
    /\ \E i \in IncidentId, s \in Status \cup {NoStatus} :
           /\ Live(incidents, i)
           /\ s = NoStatus \/ s \in AllowedTransitions[incidents[i].status]
           /\ Requested(e, i, s)
    /\ UNCHANGED <<taskVars, lock, tableVars, messages, crashes, wipes>>

\* The UPDATE, which leaves the status of a row alone when none is requested, and
\* an outbox row that tells status s.
WriteStatus(e, s) ==
    LET i == patch[e].id IN
    /\ incidents' = IF Live(incidents, i) /\ patch[e].to # NoStatus
                    THEN [incidents EXCEPT ![i] = WithStatus(@, patch[e].to)]
                    ELSE incidents
    /\ outbox' = Append(outbox, UpdatedEvent(i, patch[e].from, s))

\* The status a PATCH reports: the one requested, else the one it read.
NewStatus(e) == IF patch[e].to = NoStatus THEN patch[e].from ELSE patch[e].to

\* The UPDATE of a row that is gone changes nothing; one that would occupy an index
\* entry in use raises, and get_db rolls back.
PatchWrite(e) ==
    LET i == patch[e].id
        Refused == /\ patch[e].to # NoStatus
                   /\ Live(incidents, i)
                   /\ IndexConflict(incidents, i, incidents[i].fp, patch[e].to)
    IN  /\ patch[e].pc = "write"
        /\ patch' = [patch EXCEPT ![e] = IdlePatch]
        /\ \/ ~Refused /\ WriteStatus(e, NewStatus(e))
           \/ Refused /\ UNCHANGED <<incidents, outbox>>
        /\ UNCHANGED <<taskVars, lock, delivery, messages, crashes, edits, wipes>>

\* wipe_tenant_data: DELETE FROM incidents of the tenant; delivery rows go with
\* their incident, the outbox rows stay.
WipeTenant ==
    /\ wipes < MaxWipes
    /\ wipes' = wipes + 1
    /\ incidents' = [i \in IncidentId |->
                        IF Live(incidents, i) THEN Deleted ELSE incidents[i]]
    /\ delivery' = {}
    /\ UNCHANGED <<taskVars, lock, outbox, messages, patch, crashes, edits>>

-----------------------------------------------------------------------------
\* What a running task does next; errors and losses are not part of it.
TaskStep(t) ==
    \/ AcquireLock(t) \/ LockContention(t) \/ AcquireFailOpen(t)
    \/ FindActive(t) \/ RecordDuplicate(t)
    \/ Analyse(t) \/ Persist(t) \/ PublishPush(t)
    \/ Release(t) \/ Dispatch(t)

Next ==
    \/ \E t \in Task : TaskStep(t) \/ RaiseError(t) \/ WorkerLost(t) \/ HardTimeLimit(t)
    \/ \E f \in Fingerprint : LockExpires(f)
    \/ \E e \in Editor : PatchRead(e) \/ PatchWrite(e)
    \/ WipeTenant

Spec == Init /\ [][Next]_vars

\* A worker runs every task it has received to the end (its time limits bound
\* each step), and Redis expires every key that has a TTL.
Fairness == /\ \A t \in Task : WF_vars(TaskStep(t))
            /\ \A f \in Fingerprint : WF_vars(LockExpires(f))

FairSpec == Spec /\ Fairness

-----------------------------------------------------------------------------
(* Properties *)

\* Every variable has its type; a task names an incident once the duplicate query
\* or the INSERT gave it one, as a PATCH about to write does.
TypeOK ==
    /\ pc \in [Task -> TaskPC]
    /\ outcome \in [Task -> Outcomes]
    /\ target \in [Task -> IncidentId \cup {NoIncident}]
    /\ \A t \in Task :
           pc[t] \in {"record", "publish", "dispatch"} \/ outcome[t] = "created" =>
               target[t] # NoIncident
    /\ seenCount \in [Task -> Nat]
    /\ retries \in [Task -> 0..MaxRetries]
    /\ lock \in [Fingerprint -> Task \cup {NoTask}]
    /\ incidents \in Table
    /\ outbox \in Seq(Event)
    /\ delivery \subseteq IncidentId
    /\ messages \subseteq Message
    /\ patch \in [Editor -> PatchState]
    /\ \A e \in Editor : patch[e].pc = "write" =>
           patch[e].id # NoIncident /\ patch[e].from # NoStatus
    /\ crashes \in 0..MaxCrashes
    /\ edits \in 0..MaxEdits
    /\ wipes \in 0..MaxWipes

\* The pipeline's reason to exist: however locks expire, tasks are redelivered
\* and operators move statuses, a fingerprint never has two active incidents.
UniqueActive == UniqueActiveIn(incidents)

\* The transactional outbox tells the table: for every row that exists, the
\* latest counting event in commit order carries the row's occurrence_count, which
\* is its number of stored occurrences, and the latest status event its status (as long
\* as PATCH requests do not overlap).
LatestEvent(i, topics) ==
    LET at == {k \in DOMAIN outbox : outbox[k].id = i /\ outbox[k].topic \in topics}
    IN  outbox[CHOOSE k \in at : \A m \in at : m <= k]
OutboxTellsTable ==
    \A i \in IncidentId : Live(incidents, i) =>
        /\ LatestEvent(i, {"created", "duplicate_recorded"}).count = incidents[i].count
        /\ Len(incidents[i].occurrences) = incidents[i].count
        /\ LatestEvent(i, {"created", "updated"}).to = incidents[i].status

\* A task that reports "created" or "duplicate_recorded" has its log among the
\* occurrences of the incident it names, unless the tenant was wiped meanwhile.
OutcomeIsTrue ==
    \A t \in Task :
        pc[t] = "done" /\ outcome[t] \in {"created", "duplicate_recorded"} =>
            \/ incidents[target[t]] = Deleted
            \/ \E k \in 1..incidents[target[t]].count :
                   incidents[target[t]].occurrences[k] = LogOf[t]

\* A log is recorded at most once per execution of its task: redelivery after a
\* lost worker and a retry after a lost commit reply may record it again, nothing
\* else does.  (Every task carries its own log in the runs.)
Recorded(key) == Places(incidents, key)
RecordedOncePerExecution ==
    \A t \in Task : Cardinality(Recorded(LogOf[t])) <= 1 + retries[t] + crashes

\* Only one worker at a time executes the locked section of a fingerprint
\* (release_dedup_lock: "Only one worker ever holds the lock").
LockExclusive ==
    \A t, u \in Task :
        /\ FpOf[t] = FpOf[u]
        /\ pc[t] \in InLockedSection
        /\ pc[u] \in InLockedSection
        => t = u

\* The unique index is only a second layer: no INSERT ever reaches it.
NoLateDuplicate == \A t \in Task : outcome[t] # "late_duplicate"

\* The table only changes the way the ledger allows.
Ledger == INSTANCE IncidentLedger WITH table <- incidents
ImplementsLedger == Ledger!LedgerSpec

\* Every message of the agent queue is finished with, and every lock key goes
\* away, whoever died holding it.
NothingIsStuck ==
    /\ \A t \in Task : <>[](pc[t] \in Finished)
    /\ \A f \in Fingerprint : lock[f] # NoTask ~> lock[f] = NoTask
=============================================================================
