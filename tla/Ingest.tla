------------------------------- MODULE Ingest -------------------------------
(***************************************************************************)
(* A log from the SDK to the search page: POST /ingest/logs with its token *)
(* bucket (api/v1/ingest.py, api/dependencies/rate_limit.py), the object   *)
(* in S3, the transaction of the metadata row and its outbox event, the    *)
(* document in Elasticsearch (services/log_event_indexer.py), the          *)
(* raw.logs consumer (consumers/raw_logs.py), the parse_log task           *)
(* (worker/tasks/parse_log.py), and what run_agent and PATCH               *)
(* /incidents/{id} do to the document.                                     *)
(*                                                                         *)
(* All logs are of one tenant and one fingerprint.  The incidents are the  *)
(* table of IncidentTable; IncidentPipeline has the tasks that write it in *)
(* detail, and here a run of run_agent is reduced to the steps whose order *)
(* with the document matters.  Every API process passes its own clock to   *)
(* the bucket, so that clocks go forth and back; a tick is the time in     *)
(* which the bucket gains one token, 60 s / capacity.                      *)
(***************************************************************************)
EXTENDS IncidentTable, FiniteSets

CONSTANTS Requests,     \* bound: POST requests the SDK sends
          Capacity,     \* tokens of the tenant's plan
          MaxClock,     \* bound: ticks between the clocks that requests read
          MaxPatches,   \* bound: PATCH requests with a status
          MaxFaults     \* bound: failures, lost processes and repeated messages, together

ASSUME IngestAssumption ==
    /\ Requests \in Nat /\ Capacity \in Nat \ {0} /\ MaxClock \in Nat
    /\ MaxPatches \in Nat /\ MaxFaults \in Nat
    /\ Fingerprint # {}

Request == 1..Requests

VARIABLES
    bucket,         \* Redis: rl:ingest:{tenant_id}
    requests,       \* the requests, in the order they arrive
    objects,        \* S3: the contexts
    rows,           \* DB-2: ingested_log_metadata
    topic, offset,  \* Kafka: raw.logs.{tenant_id} and the committed offset
    parses, agents, \* Celery: parse_log and run_agent messages of each log
    run,            \* the run_agent task in its locked section
    incidents,      \* DB-2: incidents
    docs,           \* Elasticsearch: the document each request wrote
    patch,          \* the PATCH request that holds the row lock of its incident
    faults, patches,            \* counters of the bounds
    repeats, dropped, done,     \* history: messages repeated, logs a task left unrecorded,
                                \* logs recorded
    astray                      \* history: incidents and logs whose documents may disagree

apiVars   == <<bucket, requests, objects>>
storeVars == <<rows, topic>>
queueVars == <<offset, parses, agents>>
agentVars == <<run, incidents, done>>
patchVars == <<patch, patches>>
history   == <<repeats, dropped, astray>>
vars == <<apiVars, storeVars, queueVars, agentVars, docs, patchVars, faults, history>>

NoBucket == [tokens |-> Capacity, at |-> -1]
NoRun    == [pc |-> "none"]
NoPatch  == [pc |-> "none"]
NoDoc    == [clean |-> TRUE]
Unsent   == [pc |-> "unsent"]

TypeOK ==
    /\ bucket \in [tokens : 0..Capacity, at : -1..MaxClock]
    /\ requests \in [Request -> {Unsent} \cup
           [log : Log, pc : {"arrived", "uploaded", "stored", "202", "429", "4xx", "5xx", "lost"}]]
    /\ objects \subseteq Log /\ rows \subseteq Log
    /\ topic \in Seq(Log) /\ offset \in 0..Len(topic)
    /\ parses \in [Log -> Nat] /\ agents \in [Log -> Nat]
    /\ run \in {NoRun} \cup
           [pc : {"fields", "find", "analyse"}, log : Log] \cup
           [pc : {"record", "link"}, log : Log, incident : IncidentId, status : Status]
    /\ incidents \in Table
    /\ docs \in [Request -> {NoDoc} \cup
           [incident : Log \cup IncidentId, status : Status, late : BOOLEAN, clean : BOOLEAN]]
    /\ patch \in {NoPatch} \cup
           [pc : {"search", "commit"}, incident : IncidentId, status : Status]
    /\ faults \in 0..MaxFaults /\ patches \in 0..MaxPatches
    /\ repeats \in [Log -> Nat] /\ dropped \subseteq Log /\ done \subseteq Log
    /\ astray \subseteq IncidentId \cup Log

Init ==
    /\ bucket = NoBucket
    /\ requests = [r \in Request |-> Unsent]
    /\ objects = {} /\ rows = {} /\ topic = <<>> /\ offset = 0
    /\ parses = [l \in Log |-> 0] /\ agents = [l \in Log |-> 0]
    /\ run = NoRun /\ incidents = EmptyTable
    /\ docs = [r \in Request |-> NoDoc]
    /\ patch = NoPatch /\ faults = 0 /\ patches = 0
    /\ repeats = [l \in Log |-> 0] /\ dropped = {} /\ done = {} /\ astray = {}

Fault == faults < MaxFaults /\ faults' = faults + 1

-----------------------------------------------------------------------------
(* The token bucket *)

\* TOKEN_BUCKET_SCRIPT up to its test: what bucket b holds at clock c.  A bucket
\* nobody used for 120 s is forgotten, when it would be full anyway.
Tokens(capacity, b, c) ==
    IF b.at = -1 \/ b.tokens + c - b.at > capacity
    THEN capacity
    ELSE b.tokens + c - b.at

\* Mutant: the time is the one of the first request.
TakenFirstTime(capacity, b, c) ==
    [tokens |-> Tokens(capacity, b, c) - 1, at |-> IF b.at = -1 THEN c ELSE b.at]

\* What a passing request leaves in the hash.
Taken(capacity, b, c) == [tokens |-> Tokens(capacity, b, c) - 1, at |-> c]

\* How many of a sequence of requests pass from a bucket on, each with the clock of its process.
Granted(capacity, bucket0, clocks) ==
    LET b[k \in 0..Len(clocks)] ==
            IF k = 0 THEN bucket0
            ELSE IF Tokens(capacity, b[k - 1], clocks[k]) >= 1
                 THEN Taken(capacity, b[k - 1], clocks[k])
                 ELSE b[k - 1]
    IN  Cardinality({k \in DOMAIN clocks : Tokens(capacity, b[k - 1], clocks[k]) >= 1})

\* The SDK sends a log until it is answered 202; it may do so while an earlier
\* request for the log is still running.
Sends(r, l, pc) ==
    /\ requests[r] = Unsent
    /\ \A q \in 1..(r - 1) : requests[q] # Unsent
    /\ \A q \in Request : requests[q] # [log |-> l, pc |-> "202"]
    /\ requests' = [requests EXCEPT ![r] = [log |-> l, pc |-> pc]]

\* rate_limit_dependency lets the request pass.
Arrive(r, l, c) ==
    /\ Tokens(Capacity, bucket, c) >= 1
    /\ Sends(r, l, "arrived")
    /\ bucket' = Taken(Capacity, bucket, c)
    /\ UNCHANGED <<objects, storeVars, queueVars, agentVars, docs, patchVars,
                   faults, history>>

\* 429; a blocked request writes nothing to the bucket.
TooMany(r, l, c) ==
    /\ Tokens(Capacity, bucket, c) < 1
    /\ Sends(r, l, "429")
    /\ UNCHANGED <<bucket, objects, storeVars, queueVars,
                   agentVars, docs, patchVars, faults, history>>

\* Redis fails and the limiter lets the request pass.
FailOpen(r, l) ==
    /\ Fault
    /\ Sends(r, l, "arrived")
    /\ UNCHANGED <<bucket, objects, storeVars, queueVars,
                   agentVars, docs, patchVars, history>>

-----------------------------------------------------------------------------
(* POST /ingest/logs *)

Goto(r, from, to) ==
    /\ requests[r] # Unsent /\ requests[r].pc = from
    /\ requests' = [requests EXCEPT ![r].pc = to]

\* 403 without a code mapping of the service, or 400 for entries JSON cannot hold.
Refuse(r) ==
    /\ Goto(r, "arrived", "4xx")
    /\ UNCHANGED <<bucket, objects, storeVars, queueVars,
                   agentVars, docs, patchVars, faults, history>>

\* _upload_to_s3 succeeds.
Upload(r) ==
    /\ Goto(r, "arrived", "uploaded")
    /\ objects' = objects \cup {requests[r].log}
    /\ UNCHANGED <<bucket, storeVars, queueVars, agentVars, docs,
                   patchVars, faults, history>>

\* _upload_to_s3 raises 502 or 503; the object may be there all the same.
UploadFails(r) ==
    /\ Fault
    /\ Goto(r, "arrived", "5xx")
    /\ objects' \in {objects, objects \cup {requests[r].log}}
    /\ UNCHANGED <<bucket, storeVars, queueVars, agentVars, docs,
                   patchVars, history>>

\* Mutant: the row is written with ON CONFLICT DO NOTHING.
StoreOrSkip(r) ==
    /\ Goto(r, "uploaded", "stored")
    /\ rows' = rows \cup {requests[r].log}
    /\ topic' = Append(topic, requests[r].log)
    /\ UNCHANGED <<bucket, objects, queueVars, agentVars, docs,
                   patchVars, faults, history>>

\* The row and its outbox event are committed; Debezium moves the event to the topic.
Store(r) ==
    /\ requests[r] # Unsent /\ requests[r].log \notin rows
    /\ Goto(r, "uploaded", "stored")
    /\ rows' = rows \cup {requests[r].log}
    /\ topic' = Append(topic, requests[r].log)
    /\ UNCHANGED <<bucket, objects, queueVars, agentVars, docs,
                   patchVars, faults, history>>

\* The primary key is taken: the transaction is rolled back, 500.
StoreConflicts(r) ==
    /\ requests[r] # Unsent /\ requests[r].log \in rows
    /\ Goto(r, "uploaded", "5xx")
    /\ UNCHANGED <<bucket, objects, storeVars, queueVars,
                   agentVars, docs, patchVars, faults, history>>

\* The commit is refused, or takes effect and its reply is lost: 500 in both cases.
StoreFails(r) ==
    /\ Fault
    /\ requests[r] # Unsent /\ requests[r].log \notin rows
    /\ Goto(r, "uploaded", "5xx")
    /\ \/ UNCHANGED storeVars
       \/ /\ rows' = rows \cup {requests[r].log}
          /\ topic' = Append(topic, requests[r].log)
    /\ UNCHANGED <<bucket, objects, queueVars, agentVars, docs,
                   patchVars, history>>

\* _build_document: the document names the log where an incident will stand.
\* late: a task for the log has ended before.
NewDoc(l) == [incident |-> l, status |-> "open", late |-> l \in done, clean |-> FALSE]

\* index_log_event writes the document and the request is answered 202.
IndexDocument(r) ==
    /\ Goto(r, "stored", "202")
    /\ docs' = [docs EXCEPT ![r] = NewDoc(requests[r].log)]
    /\ UNCHANGED <<bucket, objects, storeVars, queueVars,
                   agentVars, patchVars, faults, history>>

\* Elasticsearch refuses or does not answer: index_log_event returns False, 202.
IndexFails(r) ==
    /\ Fault
    /\ Goto(r, "stored", "202")
    /\ UNCHANGED <<bucket, objects, storeVars, queueVars,
                   agentVars, docs, patchVars, history>>

\* The API process dies and the client gets no answer.
ServerLost(r) ==
    /\ Fault
    /\ \E pc \in {"arrived", "uploaded", "stored"} : Goto(r, pc, "lost")
    /\ UNCHANGED <<bucket, objects, storeVars, queueVars,
                   agentVars, docs, patchVars, history>>

-----------------------------------------------------------------------------
(* RawLogConsumer and parse_log *)

\* Mutant: the offset is committed before the task is sent, which then fails.
DeliverAfterCommit ==
    /\ offset < Len(topic)
    /\ offset' = offset + 1
    /\ \/ parses' = [parses EXCEPT ![topic[offset + 1]] = @ + 1]
       \/ UNCHANGED parses
    /\ UNCHANGED <<agents, apiVars, storeVars, agentVars, docs, patchVars, faults, history>>

\* The next message: parse_log is sent and the offset is committed.  When delay()
\* raises, the consumer starts again at the committed offset: nothing changes.
Deliver ==
    /\ offset < Len(topic)
    /\ parses' = [parses EXCEPT ![topic[offset + 1]] = @ + 1]
    /\ offset' = offset + 1
    /\ UNCHANGED <<agents, apiVars, storeVars, agentVars, docs, patchVars, faults, history>>

\* The consumer stops between delay() and commit().
DeliverRepeated ==
    /\ Fault
    /\ offset < Len(topic)
    /\ LET l == topic[offset + 1] IN
       /\ parses' = [parses EXCEPT ![l] = @ + 1]
       /\ repeats' = [repeats EXCEPT ![l] = @ + 1]
    /\ UNCHANGED <<offset, agents, apiVars, storeVars, agentVars, docs, patchVars,
                   dropped, astray>>

\* Debezium or Kafka write an event again.
Redeliver(l) ==
    /\ Fault
    /\ l \in rows
    /\ topic' = Append(topic, l)
    /\ repeats' = [repeats EXCEPT ![l] = @ + 1]
    /\ UNCHANGED <<rows, apiVars, queueVars, agentVars, docs, patchVars, dropped, astray>>

\* The object is fetched and parsed, run_agent is sent and the message acknowledged.
\* A retry for OSError, ConnectionError or TimeoutError leaves the message as it is.
Parse(l) ==
    /\ parses[l] > 0 /\ l \in objects
    /\ parses' = [parses EXCEPT ![l] = @ - 1]
    /\ agents' = [agents EXCEPT ![l] = @ + 1]
    /\ UNCHANGED <<offset, apiVars, storeVars, agentVars, docs, patchVars, faults, history>>

\* run_agent is sent and the worker dies, or takes the sending for failed and retries.
ParseRepeated(l) ==
    /\ Fault
    /\ parses[l] > 0 /\ l \in objects
    /\ agents' = [agents EXCEPT ![l] = @ + 1]
    /\ repeats' = [repeats EXCEPT ![l] = @ + 1]
    /\ UNCHANGED <<offset, parses, apiVars, storeVars, agentVars, docs, patchVars,
                   dropped, astray>>

\* An error outside autoretry_for - any ClientError of S3 is a RuntimeError - or the
\* last retry: the message is acknowledged and the log is not analysed.
ParseFails(l) ==
    /\ Fault
    /\ parses[l] > 0
    /\ parses' = [parses EXCEPT ![l] = @ - 1]
    /\ dropped' = dropped \cup {l}
    /\ UNCHANGED <<offset, agents, apiVars, storeVars, agentVars, docs, patchVars,
                   repeats, astray>>

-----------------------------------------------------------------------------
(* Elasticsearch: an update_by_query changes the documents as the last refresh *)
(* showed them; one that was written since is a conflict and is passed over.   *)

Refreshed(index) == [r \in Request |-> [index[r] EXCEPT !.clean = TRUE]]

\* Documents with this incident_id, and those of them an update_by_query can change.
Stored(id)   == {r \in Request : docs[r] # NoDoc /\ docs[r].incident = id}
Matching(id) == {r \in Stored(id) : docs[r].clean}

\* The periodic refresh of the index.
Refresh ==
    /\ \E r \in Request : ~docs[r].clean
    /\ docs' = Refreshed(docs)
    /\ UNCHANGED <<apiVars, storeVars, queueVars, agentVars, patchVars, faults, history>>

-----------------------------------------------------------------------------
(* run_agent *)

TheFingerprint == CHOOSE f \in Fingerprint : TRUE

\* The task takes the lock of the fingerprint; its message stays until it ends.
StartAgent(l) ==
    /\ agents[l] > 0 /\ run = NoRun
    /\ run' = [pc |-> "fields", log |-> l]
    /\ agents' = [agents EXCEPT ![l] = @ - 1]
    /\ UNCHANGED <<incidents, done, offset, parses, apiVars, storeVars, docs, patchVars,
                   faults, history>>

\* Another task has the lock: "lock_contention", and the log is not analysed.
Contention(l) ==
    /\ agents[l] > 0 /\ run # NoRun
    /\ agents' = [agents EXCEPT ![l] = @ - 1]
    /\ dropped' = dropped \cup {l}
    /\ UNCHANGED <<offset, parses, apiVars, storeVars, agentVars, docs, patchVars, faults,
                   repeats, astray>>

\* update_parsed_fields; it waits for a refresh, and gives up without a document.
\* The parsed fields themselves are not kept here.
UpdateFields ==
    /\ run.pc = "fields"
    /\ Matching(run.log) # {} \/ Stored(run.log) = {}
    /\ docs' = IF Matching(run.log) # {} THEN Refreshed(docs) ELSE docs
    /\ run' = [run EXCEPT !.pc = "find"]
    /\ UNCHANGED <<incidents, done, apiVars, storeVars, queueVars, patchVars, faults,
                   history>>

\* Elasticsearch fails, or twelve attempts end before a refresh has shown the document:
\* the run goes on.
UpdateFieldsFails ==
    /\ Fault
    /\ run.pc = "fields"
    /\ run' = [run EXCEPT !.pc = "find"]
    /\ UNCHANGED <<incidents, done, apiVars, storeVars, queueVars, docs, patchVars, history>>

\* find_active_by_fingerprint sees an active incident.
FindActive ==
    /\ run.pc = "find"
    /\ \E i \in IncidentId :
           /\ IsActive(incidents, i, TheFingerprint)
           /\ run' = [pc |-> "record", log |-> run.log, incident |-> i,
                      status |-> incidents[i].status]
    /\ UNCHANGED <<incidents, done, apiVars, storeVars, queueVars, docs, patchVars,
                   faults, history>>

\* record_duplicate_occurrence, once no PATCH holds the row lock.
RecordDuplicate ==
    /\ run.pc = "record"
    /\ ~(patch # NoPatch /\ patch.incident = run.incident)
    /\ incidents' = [incidents EXCEPT ![run.incident] = WithOccurrence(@, run.log)]
    /\ run' = [run EXCEPT !.pc = "link"]
    /\ UNCHANGED <<done, apiVars, storeVars, queueVars, docs, patchVars, faults, history>>

\* No incident is active: the workflow analyses the event.
FindNone ==
    /\ run.pc = "find"
    /\ \A i \in IncidentId : ~IsActive(incidents, i, TheFingerprint)
    /\ run' = [run EXCEPT !.pc = "analyse"]
    /\ UNCHANGED <<incidents, done, apiVars, storeVars, queueVars, docs, patchVars,
                   faults, history>>

\* The INSERT waits for a PATCH that holds an entry of the partial unique index.
EntryHeld ==
    /\ patch # NoPatch
    /\ patch.status # "resolved" \/ IsActive(incidents, patch.incident, TheFingerprint)

\* persist_new_incident stores one.
Create ==
    /\ run.pc = "analyse" /\ ~EntryHeld
    /\ \E i \in IncidentId :
           /\ incidents[i] = Unissued
           /\ ~IndexConflict(incidents, i, TheFingerprint, "open")
           /\ incidents' = [incidents EXCEPT ![i] = NewIncident(TheFingerprint, run.log)]
           /\ run' = [pc |-> "link", log |-> run.log, incident |-> i, status |-> "open"]
    /\ UNCHANGED <<done, apiVars, storeVars, queueVars, docs, patchVars, faults, history>>

\* The run ends and its log is recorded nowhere.
Drop ==
    /\ run' = NoRun
    /\ dropped' = dropped \cup {run.log}
    /\ UNCHANGED <<incidents, done, apiVars, storeVars, queueVars, docs, patchVars, faults,
                   repeats, astray>>

\* "late_duplicate": a PATCH has made an incident active since the query, and the
\* INSERT is refused.
LateDuplicate ==
    /\ run.pc = "analyse" /\ ~EntryHeld
    /\ \E i \in IncidentId : IsActive(incidents, i, TheFingerprint)
    /\ Drop

\* The workflow finds the event not actionable, and nothing is stored.
NotActionable ==
    /\ run.pc = "analyse"
    /\ Drop

Finish ==
    /\ run' = NoRun
    /\ done' = done \cup {run.log}
    /\ UNCHANGED <<incidents, apiVars, storeVars, queueVars, patchVars>>

\* The documents of an update of link_log_to_incident.
Linked(ids, i, s) ==
    Refreshed([r \in Request |->
        IF r \in ids THEN [docs[r] EXCEPT !.incident = i, !.status = s] ELSE docs[r]])

\* link_log_to_incident; the status is the one read before the row was written.
Link ==
    /\ run.pc = "link" /\ Matching(run.log) # {}
    /\ docs' = Linked(Matching(run.log), run.incident, run.status)
    /\ Finish
    /\ UNCHANGED <<faults, history>>

\* Mutant: the update is tried once, whether or not the index was refreshed.
LinkOnce ==
    /\ run.pc = "link" /\ Matching(run.log) = {}
    /\ Finish
    /\ UNCHANGED <<docs, faults, history>>

\* Twelve attempts find nothing: there is no document.
LinkNothing ==
    /\ run.pc = "link" /\ Stored(run.log) = {}
    /\ Finish
    /\ UNCHANGED <<docs, faults, history>>

\* Elasticsearch fails, with or without effect, or twelve attempts end before a refresh
\* has shown the document: the error is logged and the run ends like any other.
LinkFails ==
    /\ Fault
    /\ run.pc = "link"
    /\ docs' \in {docs, Linked(Matching(run.log), run.incident, run.status)}
    /\ astray' = astray \cup {run.log}
    /\ Finish
    /\ UNCHANGED <<repeats, dropped>>

\* The worker dies, or a database error is retried: the message is delivered again
\* when the lock has expired.
AgentLost ==
    /\ Fault
    /\ run # NoRun
    /\ run' = NoRun
    /\ agents' = [agents EXCEPT ![run.log] = @ + 1]
    /\ repeats' = [repeats EXCEPT ![run.log] = @ + 1]
    /\ UNCHANGED <<incidents, done, offset, parses, apiVars, storeVars, docs, patchVars,
                   dropped, astray>>

-----------------------------------------------------------------------------
(* PATCH /incidents/{id}: the UPDATE takes the row lock, Elasticsearch is updated, *)
(* and the session is committed when the handler has returned                      *)

PatchUpdate(i, s) ==
    /\ patches < MaxPatches
    /\ patch = NoPatch
    /\ Live(incidents, i) /\ s \in AllowedTransitions[incidents[i].status]
    /\ ~IndexConflict(incidents, i, TheFingerprint, s)
    /\ patch' = [pc |-> "search", incident |-> i, status |-> s]
    /\ patches' = patches + 1
    /\ UNCHANGED <<apiVars, storeVars, queueVars, agentVars, docs, faults, history>>

\* A run that has read this incident will link its document with the status it read.
Overlapped == run.pc \in {"record", "link"} /\ run.incident = patch.incident

\* update_incident_status
PatchDocuments ==
    /\ patch.pc = "search"
    /\ LET ids == Matching(patch.incident) IN
       /\ docs' = [r \in Request |->
              IF r \in ids
              THEN [docs[r] EXCEPT !.status = patch.status, !.clean = FALSE]
              ELSE docs[r]]
       /\ astray' = IF Overlapped \/ ids # Stored(patch.incident)
                    THEN astray \cup {patch.incident} ELSE astray
    /\ patch' = [patch EXCEPT !.pc = "commit"]
    /\ UNCHANGED <<apiVars, storeVars, queueVars, agentVars, patches, faults, repeats, dropped>>

\* Elasticsearch does not answer: the PATCH goes on.
PatchDocumentsFails ==
    /\ Fault
    /\ patch.pc = "search"
    /\ patch' = [patch EXCEPT !.pc = "commit"]
    /\ astray' = astray \cup {patch.incident}
    /\ UNCHANGED <<apiVars, storeVars, queueVars, agentVars, docs, patches, repeats, dropped>>

PatchCommit ==
    /\ patch.pc = "commit"
    /\ incidents' = [incidents EXCEPT ![patch.incident] = WithStatus(@, patch.status)]
    /\ patch' = NoPatch
    /\ astray' = IF Overlapped THEN astray \cup {patch.incident} ELSE astray
    /\ UNCHANGED <<run, done, apiVars, storeVars, queueVars, docs, patches, faults,
                   repeats, dropped>>

\* The commit fails, or the process dies before it.
PatchRollback ==
    /\ Fault
    /\ patch # NoPatch
    /\ patch' = NoPatch
    /\ astray' = astray \cup {patch.incident}
    /\ UNCHANGED <<apiVars, storeVars, queueVars, agentVars, docs, patches, repeats, dropped>>

-----------------------------------------------------------------------------

Next ==
    \/ Refresh \/ Deliver \/ DeliverRepeated
    \/ \E r \in Request, l \in Log :
           FailOpen(r, l) \/ \E c \in 0..MaxClock : Arrive(r, l, c) \/ TooMany(r, l, c)
    \/ \E r \in Request :
           \/ Refuse(r) \/ Upload(r) \/ UploadFails(r)
           \/ Store(r) \/ StoreConflicts(r) \/ StoreFails(r)
           \/ IndexDocument(r) \/ IndexFails(r) \/ ServerLost(r)
    \/ \E l \in Log :
           \/ Redeliver(l) \/ Parse(l) \/ ParseRepeated(l) \/ ParseFails(l)
           \/ StartAgent(l) \/ Contention(l)
    \/ UpdateFields \/ UpdateFieldsFails \/ FindActive \/ RecordDuplicate
    \/ FindNone \/ Create \/ LateDuplicate \/ NotActionable
    \/ Link \/ LinkNothing \/ LinkFails \/ AgentLost
    \/ \E i \in IncidentId, s \in Status : PatchUpdate(i, s)
    \/ PatchDocuments \/ PatchDocumentsFails \/ PatchCommit \/ PatchRollback

Spec == Init /\ [][Next]_vars

-----------------------------------------------------------------------------
(* Properties *)

Busy(r) == requests[r] # Unsent /\ requests[r].pc \in {"arrived", "uploaded", "stored"}

\* Nothing is on the way any more.
Quiet ==
    /\ \A r \in Request : ~Busy(r) /\ docs[r].clean
    /\ offset = Len(topic)
    /\ \A l \in Log : parses[l] = 0 /\ agents[l] = 0
    /\ run = NoRun /\ patch = NoPatch

Occurrences(l) == Cardinality(Places(incidents, l))

\* From an unused bucket on, the limiter lets in no more requests between the lowest
\* and the highest clock it has seen than the bucket holds and gains in that time, also
\* when the clocks of API processes differ and their requests alternate.
RateBounded ==
    (\A r \in Request : requests[r] = Unsent) =>
        \A capacity \in 1..3, n \in 1..5 : \A clocks \in [1..n -> 0..3] :
            \E lo, hi \in 1..n :
                Granted(capacity, bucket, clocks) <= capacity + clocks[hi] - clocks[lo]

\* A request answered 202 has left its object, its row and its event, whatever
\* other requests of the same log are running.
AcceptedIsKept ==
    \A r \in Request : requests[r] # Unsent /\ requests[r].pc = "202" =>
        LET l == requests[r].log IN
        l \in objects /\ l \in rows /\ \E k \in DOMAIN topic : topic[k] = l

\* parse_log never looks for an object that is not there yet, which it would retry five
\* times and then give the log up.
ObjectBeforeTask == \A l \in Log : parses[l] > 0 => l \in objects

\* However often the SDK sends a log, at most one document stands for it, and it is
\* counted once, and once more for every message that was repeated.
CountedOnce ==
    \A l \in Log :
        /\ Cardinality({r \in Request : docs[r] # NoDoc /\ requests[r].log = l}) <= 1
        /\ Occurrences(l) <= 1 + repeats[l]

\* What the SDK was told was accepted is there, and there once.
AcceptedOnce == TypeOK /\ AcceptedIsKept /\ ObjectBeforeTask /\ CountedOnce

\* Every stored log is recorded in an incident in the end, unless its task failed for
\* good, met the lock of another, found the event not actionable, or was refused the new
\* incident because a PATCH made one active while the log was analysed.
StoredIsRecorded == Quiet => rows \subseteq done \cup dropped

\* In the end the document of a recorded log belongs to an incident, although the
\* task may start before the document is written or can be searched; unless it was
\* written after a task for the log had ended, or Elasticsearch failed the run that was
\* to link it.
EventsAreLinked ==
    Quiet => \A r \in Request :
        docs[r] # NoDoc /\ ~docs[r].late /\ Occurrences(requests[r].log) > 0
            /\ requests[r].log \notin dropped \cup astray
        => docs[r].incident \in IncidentId

\* In the end the search page shows the status of the incident a document belongs to,
\* unless a PATCH overlapped the run that linked it, or found it changed since the
\* last refresh, or one of its two writes failed.
SearchShowsStatus ==
    Quiet => \A r \in Request :
        docs[r] # NoDoc /\ docs[r].incident \in IncidentId \ astray
        => docs[r].status = incidents[docs[r].incident].status

\* The search page is a true picture of DB-2 under these conditions.
SearchIsTrue == EventsAreLinked /\ SearchShowsStatus

=============================================================================
