----------------------------- MODULE ConfigSync -----------------------------
(***************************************************************************)
(* Alert rules and playbooks on their way from Django to FastAPI: the      *)
(* views of DB-1 that create, update and delete them and write an outbox   *)
(* row each time, the ConfigSyncConsumer that keeps the snapshot rows of   *)
(* DB-2 (fastapi/app/queue/kafka/consumers/config_sync.py), and the        *)
(* embed_playbook Celery task that keeps the embedding of a playbook       *)
(* (worker/tasks/embed_playbook.py).                                       *)
(*                                                                         *)
(* The content of a row is identified with the source_version it was       *)
(* saved with.  The outbox and Debezium are one step: a row committed in   *)
(* DB-1 is in its topic, in the order of the commits (the Kafka key is the *)
(* tenant).                                                                *)
(***************************************************************************)
EXTENDS Integers, Sequences, FiniteSets

CONSTANTS Rule, Playbook,   \* primary keys; never reused
          MaxVersion,       \* bound: saves of one rule or playbook
          MaxFailures,      \* bound: handler calls that raise
          MaxRestarts,      \* bound: restarts of the consumer
          MaxTaskFaults     \* bound: embed tasks that fail or lose their worker;
                            \* below max_retries = 5, so no task is given up

ASSUME ConfigAssumption ==
    /\ Rule \cap Playbook = {}
    /\ {MaxVersion, MaxFailures, MaxRestarts, MaxTaskFaults} \subseteq Nat

Entity == Rule \cup Playbook

VARIABLES
    version,     \* DB-1: source_version of each entity; 0 before it is created
    deleted,     \* DB-1: entities that were deleted
    log,         \* Kafka: events of each topic
    committed,   \* Kafka: committed offsets of the consumer group
    position,    \* next offset of the running consumer
    handling,    \* the message in the handler after its transaction
    stored,      \* DB-2: source_version of each snapshot row; 0 without a row
    tasks,       \* messages of the embed queue, each with the step it is at
    embedded,    \* DB-2: source_version of each embedding row; 0 without a row
    doneKey,     \* Redis: playbook_embed:{id}:version; 0 without a key
    failures, restarts, taskFaults

sourceVars   == <<version, deleted>>
consumerVars == <<committed, position, handling>>
embedVars    == <<tasks, embedded, doneKey>>
bounds       == <<failures, restarts, taskFaults>>
vars == <<sourceVars, log, consumerVars, stored, embedVars, bounds>>

Topic == {"alert_rules", "playbooks"}
TopicOf(e) == IF e \in Rule THEN "alert_rules" ELSE "playbooks"

Event == [entity : Entity, version : 1..MaxVersion, deleted : BOOLEAN]
EmbedStep == {"queued", "upsert", "record", "forget"}
EmbedTask == [event : Event, at : EmbedStep]
Idle == [at |-> "poll"]

Init ==
    /\ version = [e \in Entity |-> 0]
    /\ deleted = {}
    /\ log = [p \in Topic |-> << >>]
    /\ committed = [p \in Topic |-> 0]
    /\ position = [p \in Topic |-> 0]
    /\ handling = Idle
    /\ stored = [e \in Entity |-> 0]
    /\ tasks = {}
    /\ embedded = [e \in Playbook |-> 0]
    /\ doneKey = [e \in Playbook |-> 0]
    /\ failures = 0
    /\ restarts = 0
    /\ taskFaults = 0

-----------------------------------------------------------------------------
(* The views of DB-1: the row and its outbox row in one transaction *)

Send(e, v, gone) ==
    log' = [log EXCEPT ![TopicOf(e)] =
               Append(@, [entity |-> e, version |-> v, deleted |-> gone])]

\* create, update: save() adds one to source_version, a new row has 1.
SaveEntity(e) ==
    /\ e \notin deleted
    /\ version[e] < MaxVersion
    /\ version' = [version EXCEPT ![e] = @ + 1]
    /\ Send(e, version[e] + 1, FALSE)
    /\ UNCHANGED <<deleted, consumerVars, stored, embedVars, bounds>>

\* destroy: the event carries the source_version the row had.
DeleteEntity(e) ==
    /\ e \notin deleted
    /\ version[e] > 0
    /\ deleted' = deleted \cup {e}
    /\ Send(e, version[e], TRUE)
    /\ UNCHANGED <<version, consumerVars, stored, embedVars, bounds>>

-----------------------------------------------------------------------------
(* ConfigSyncConsumer._consume_loop *)

NextEvent(p) == log[p][position[p] + 1]
CanPoll(p) == handling = Idle /\ position[p] < Len(log[p])
Advance(p) == position' = [position EXCEPT ![p] = @ + 1]

\* The staleness check of the handlers.
IsStale(ev) == stored[ev.entity] # 0 /\ stored[ev.entity] >= ev.version

\* The handler's transaction: a stale event, and the deletion of a row that does not
\* exist, return at once; otherwise the row is written or deleted.
Apply(p) ==
    LET ev == NextEvent(p)
        Returns == IsStale(ev) \/ (ev.deleted /\ stored[ev.entity] = 0)
    IN  /\ CanPoll(p)
        /\ Advance(p)
        /\ \/ /\ Returns
              /\ handling' = [at |-> "commit"]
              /\ UNCHANGED stored
           \/ /\ ~Returns
              /\ handling' = IF ev.entity \in Playbook
                             THEN [at |-> "enqueue", event |-> ev]
                             ELSE [at |-> "commit"]
              /\ stored' = [stored EXCEPT ![ev.entity] =
                               IF ev.deleted THEN 0 ELSE ev.version]
        /\ UNCHANGED <<sourceVars, log, committed, embedVars, bounds>>

\* The transaction raises: the error is logged and the loop goes on with the next
\* message, without a commit.
ApplyFails(p) ==
    /\ failures < MaxFailures
    /\ failures' = failures + 1
    /\ CanPoll(p)
    /\ Advance(p)
    /\ UNCHANGED <<sourceVars, log, committed, handling, stored, embedVars,
                   restarts, taskFaults>>

\* After the transaction of a playbook: embed_playbook.delay.
Enqueue ==
    /\ handling.at = "enqueue"
    /\ tasks' = tasks \cup {[event |-> handling.event, at |-> "queued"]}
    /\ handling' = [at |-> "commit"]
    /\ UNCHANGED <<sourceVars, log, committed, position, stored, embedded, doneKey, bounds>>

\* The plan tier cannot be read or the broker refuses: also without a commit.
EnqueueFails ==
    /\ failures < MaxFailures
    /\ failures' = failures + 1
    /\ handling.at = "enqueue"
    /\ handling' = Idle
    /\ UNCHANGED <<sourceVars, log, committed, position, stored, embedVars,
                   restarts, taskFaults>>

\* Mutant: commit up to the end of the topics instead of the position.
CommitEnd ==
    /\ handling.at = "commit"
    /\ committed' = [p \in Topic |-> Len(log[p])]
    /\ handling' = Idle
    /\ UNCHANGED <<sourceVars, log, position, stored, embedVars, bounds>>

\* consumer.commit() without arguments commits the position of every partition.
Commit ==
    /\ handling.at = "commit"
    /\ committed' = position
    /\ handling' = Idle
    /\ UNCHANGED <<sourceVars, log, position, stored, embedVars, bounds>>

Restart ==
    /\ restarts < MaxRestarts
    /\ restarts' = restarts + 1
    /\ position' = committed
    /\ handling' = Idle
    /\ UNCHANGED <<sourceVars, log, committed, stored, embedVars, failures, taskFaults>>

-----------------------------------------------------------------------------
(* embed_playbook: several workers, tasks in any order *)

MoveTask(k, step) == tasks' = (tasks \ {k}) \cup {[k EXCEPT !.at = step]}
Finish(k) == tasks' = tasks \ {k}
taskFrame == <<sourceVars, log, consumerVars, stored, bounds>>

\* Deletion: the row, then the version key.
DeleteEmbedding(k) ==
    /\ k.at = "queued" /\ k.event.deleted
    /\ embedded' = [embedded EXCEPT ![k.event.entity] = 0]
    /\ MoveTask(k, "forget")
    /\ UNCHANGED <<doneKey, taskFrame>>
ForgetVersion(k) ==
    /\ k.at = "forget"
    /\ doneKey' = [doneKey EXCEPT ![k.event.entity] = 0]
    /\ Finish(k)
    /\ UNCHANGED <<embedded, taskFrame>>

\* Mutant: the key is set before the row is written.
CheckAndRecord(k) ==
    /\ k.at = "queued" /\ ~k.event.deleted
    /\ IF doneKey[k.event.entity] >= k.event.version
       THEN Finish(k) /\ UNCHANGED doneKey
       ELSE /\ MoveTask(k, "upsert")
            /\ doneKey' = [doneKey EXCEPT ![k.event.entity] = k.event.version]
    /\ UNCHANGED <<embedded, taskFrame>>

\* The version key is looked at first.
CheckVersion(k) ==
    /\ k.at = "queued" /\ ~k.event.deleted
    /\ IF doneKey[k.event.entity] >= k.event.version
       THEN Finish(k)
       ELSE MoveTask(k, "upsert")
    /\ UNCHANGED <<embedded, doneKey, taskFrame>>

\* Mutant: ON CONFLICT DO UPDATE without its WHERE.
UpsertAlways(k) ==
    /\ k.at = "upsert"
    /\ embedded' = [embedded EXCEPT ![k.event.entity] = k.event.version]
    /\ MoveTask(k, "record")
    /\ UNCHANGED <<doneKey, taskFrame>>

\* INSERT ... ON CONFLICT DO UPDATE ... WHERE the stored version is lower.
UpsertEmbedding(k) ==
    /\ k.at = "upsert"
    /\ embedded' = [embedded EXCEPT ![k.event.entity] =
                       IF @ < k.event.version THEN k.event.version ELSE @]
    /\ MoveTask(k, "record")
    /\ UNCHANGED <<doneKey, taskFrame>>

RecordVersion(k) ==
    /\ k.at = "record"
    /\ doneKey' = [doneKey EXCEPT ![k.event.entity] = k.event.version]
    /\ Finish(k)
    /\ UNCHANGED <<embedded, taskFrame>>

\* An exception (autoretry) or a lost worker: the message is queued again.
TaskFails(k) ==
    /\ taskFaults < MaxTaskFaults
    /\ taskFaults' = taskFaults + 1
    /\ MoveTask(k, "queued")
    /\ UNCHANGED <<sourceVars, log, consumerVars, stored, embedded, doneKey,
                   failures, restarts>>

-----------------------------------------------------------------------------
Next ==
    \/ \E e \in Entity : SaveEntity(e) \/ DeleteEntity(e)
    \/ \E p \in Topic : Apply(p) \/ ApplyFails(p)
    \/ Enqueue \/ EnqueueFails \/ Commit \/ Restart
    \/ \E k \in tasks :
           \/ DeleteEmbedding(k) \/ ForgetVersion(k)
           \/ CheckVersion(k) \/ UpsertEmbedding(k) \/ RecordVersion(k)
           \/ TaskFails(k)

Spec == Init /\ [][Next]_vars

-----------------------------------------------------------------------------
(* Properties *)

\* Every variable has its type; what is stored or embedded is no newer than DB-1.
TypeOK ==
    /\ version \in [Entity -> 0..MaxVersion]
    /\ deleted \subseteq Entity
    /\ log \in [Topic -> Seq(Event)]
    /\ \A p \in Topic : committed[p] <= position[p] /\ position[p] \in 0..Len(log[p])
    /\ committed \in [Topic -> Nat]
    /\ handling \in {Idle, [at |-> "commit"]} \cup
                    [at : {"enqueue"}, event : Event]
    /\ stored \in [Entity -> Nat]
    /\ embedded \in [Playbook -> Nat]
    /\ doneKey \in [Playbook -> Nat]
    /\ \A e \in Entity : stored[e] <= version[e]
    /\ \A e \in Playbook : embedded[e] <= version[e]
    /\ tasks \subseteq EmbedTask
    /\ failures \in 0..MaxFailures
    /\ restarts \in 0..MaxRestarts
    /\ taskFaults \in 0..MaxTaskFaults

\* However often a restart repeats events, a snapshot row is never replaced by an
\* older one.
SnapshotNeverGoesBack ==
    [][\A e \in Entity : stored'[e] # 0 => stored'[e] >= stored[e]]_vars

\* Nor is an embedding, whatever order the workers run their tasks in.
EmbeddingNeverGoesBack ==
    [][\A e \in Playbook : embedded'[e] # 0 => embedded'[e] >= embedded[e]]_vars

\* Neither table goes back, whatever is repeated or reordered on the way to it.
NeverGoesBack == SnapshotNeverGoesBack /\ EmbeddingNeverGoesBack

\* Once everything sent is consumed, every live rule and playbook has its latest
\* version in DB-2, unless a handler raised; restarts do not matter.
Consumed ==
    /\ handling = Idle
    /\ \A p \in Topic : committed[p] = Len(log[p])
SnapshotConverges ==
    Consumed /\ failures = 0 =>
        \A e \in Entity \ deleted : stored[e] = version[e]

\* Once the embed tasks have run as well, every live playbook has the embedding of
\* its latest version, unless a handler raised or the consumer restarted
\* (a restart between the transaction and the enqueue loses the task: the
\* repeated event is stale).
EmbeddingConverges ==
    Consumed /\ tasks = {} /\ failures = 0 /\ restarts = 0 =>
        \A e \in Playbook \ deleted : embedded[e] = version[e]

\* Both tables arrive at what Django stored, however rules, playbooks and embed tasks
\* interleave.
Converges == SnapshotConverges /\ EmbeddingConverges
=============================================================================
