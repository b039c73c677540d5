---------------------------- MODULE SnapshotSync ----------------------------
(***************************************************************************)
(* The read model of incidents in DB-1: Debezium copies the outbox of DB-2 *)
(* to one Kafka topic per kind of event, and Django's consume_incidents    *)
(* command (analytics/management/commands/consume_incidents.py) applies    *)
(* the topics it subscribes to to incident_snapshots, with one             *)
(* processed_events row per event in the same transaction and the Kafka    *)
(* offset committed afterwards.                                            *)
(*                                                                         *)
(* The source of the events is IncidentLedger, the specification that      *)
(* IncidentPipeline implements: a writer changes the table and appends to  *)
(* the outbox in one transaction.  incidents.analyzed, whose handler does  *)
(* nothing, is left out.                                                   *)
(***************************************************************************)
EXTENDS IncidentLedger, FiniteSets

CONSTANTS MaxEvents,    \* bound: outbox rows
          MaxDbErrors,  \* bound: events whose collaboration or notification writes fail in DB-1
          MaxRewinds,   \* bound: restarts of the Debezium connector
          MaxRestarts   \* bound: restarts and failed transactions of the consumer

ASSUME SnapshotAssumption ==
    {MaxEvents, MaxDbErrors, MaxRewinds, MaxRestarts} \subseteq Nat

VARIABLES
    outbox,      \* outbox rows of DB-2 in commit order; an event id is an index
    published,   \* how far Debezium has read the outbox
    log,         \* Kafka: per topic, the event ids in it
    committed,   \* Kafka: committed offset of the consumer group, per topic
    position,    \* next offset the running consumer polls, per topic
    inHand,      \* topic of the message handled and not yet committed, or "none"
    processed,   \* processed_events, in insertion order
    snapshot,    \* incident_snapshots
    history,     \* incident_status_transitions, in insertion order
    lost,        \* events whose transaction a caught error rolled back
    rewinds, restarts

sourceVars == <<table, outbox>>
kafkaVars  == <<published, log>>
storeVars  == <<processed, snapshot, history, lost>>
vars == <<sourceVars, kafkaVars, committed, position, inHand, storeVars,
          rewinds, restarts>>

\* Topics the writers use, and TOPICS of the command (without analyzed).
Written == {"created", "duplicate_recorded", "updated"}
TOPICS  == {"created", "duplicate_detected", "updated"}
Topic   == Written \cup TOPICS

\* names: nobody that exists; an actor that exists, who assigns users that exist or none; or
\* an actor that exists, who assigns a user without a row in DB-1 (PATCH takes any UUID).
Names == {"nobody", "users", "stranger"}
Event == [topic : Written, id : IncidentId, count : Nat,
          from : Status \cup {"none"}, to : Status \cup {"none"}, names : Names]

NoSnapshot == [status |-> "missing"]
Snapshot == [status : Status, count : Nat]

Init ==
    /\ LedgerInit
    /\ outbox = << >>
    /\ published = 0
    /\ log = [p \in Topic |-> << >>]
    /\ committed = [p \in Topic |-> 0]
    /\ position = [p \in Topic |-> 0]
    /\ inHand = "none"
    /\ processed = << >>
    /\ snapshot = [i \in IncidentId |-> NoSnapshot]
    /\ history = << >>
    /\ lost = {}
    /\ rewinds = 0
    /\ restarts = 0

-----------------------------------------------------------------------------
(* The writers of DB-2 *)

Emit(topic, i, n, s1, s2, names) ==
    /\ Len(outbox) < MaxEvents
    /\ outbox' = Append(outbox, [topic |-> topic, id |-> i, count |-> n,
                                 from |-> s1, to |-> s2, names |-> names])
    /\ UNCHANGED <<kafkaVars, committed, position, inHand, storeVars, rewinds, restarts>>

CreateIncident(i) ==
    /\ \E f \in Fingerprint, key \in Log : Open(i, f, key)
    /\ Emit("created", i, 1, "none", "open", "nobody")

RecordOccurrence(i) ==
    /\ \E key \in Log : Absorb(i, key)
    /\ Emit("duplicate_recorded", i, table[i].count + 1, "none", "none", "nobody")

\* PATCH /incidents/{id}; a request that only assigns repeats the status.
UpdateIncident(i) ==
    \E s \in Status, names \in Names :
        /\ SetStatus(i, s)
        /\ s \in AllowedTransitions[table[i].status] \cup {table[i].status}
        /\ Emit("updated", i, 0, table[i].status, s, names)

-----------------------------------------------------------------------------
(* Debezium: rows in commit order, each to its topic; after a restart it reads *)
(* again from an earlier position.                                             *)

Publish ==
    /\ published < Len(outbox)
    /\ published' = published + 1
    /\ log' = [log EXCEPT ![outbox[published + 1].topic] = Append(@, published + 1)]
    /\ UNCHANGED <<sourceVars, committed, position, inHand, storeVars, rewinds, restarts>>

ConnectorRestart ==
    /\ rewinds < MaxRewinds
    /\ rewinds' = rewinds + 1
    /\ published' \in 0..(published - 1)
    /\ UNCHANGED <<sourceVars, log, committed, position, inHand, storeVars, restarts>>

-----------------------------------------------------------------------------
(* _handle_message *)

IsProcessed(n) == \E k \in DOMAIN processed : processed[k] = n

\* _handle_created: update_or_create.
Created(e) ==
    /\ snapshot' = [snapshot EXCEPT ![e.id] =
                       [status |-> e.to, count |-> e.count]]
    /\ UNCHANGED history

\* _handle_duplicate: UPDATE with the absolute count; no row, no effect.
Duplicate(e) ==
    /\ snapshot' = IF snapshot[e.id] = NoSnapshot THEN snapshot
                   ELSE [snapshot EXCEPT ![e.id].count = e.count]
    /\ UNCHANGED history

\* _handle_updated: UPDATE of the status (no row, no effect), then a transition row
\* when the status moved and the actor is found; the thread gets its system
\* message only when the snapshot exists.
MovesStatus(e) == e.from # e.to /\ e.names # "nobody"
Updated(e, n) ==
    /\ snapshot' = IF snapshot[e.id] = NoSnapshot THEN snapshot
                   ELSE [snapshot EXCEPT ![e.id].status = e.to]
    /\ history' = IF MovesStatus(e)
                  THEN Append(history, [event |-> n,
                                        posted |-> snapshot[e.id] # NoSnapshot])
                  ELSE history

Handler(n) ==
    LET e == outbox[n] IN
    CASE e.topic = "created" -> Created(e)
      [] e.topic = "duplicate_recorded" -> Duplicate(e)
      [] e.topic = "updated" -> Updated(e, n)

\* Mutant: the handler runs without the check of processed_events.
StoreUnchecked(n) == processed' = Append(processed, n) /\ Handler(n) /\ UNCHANGED lost

\* The transaction: the processed_events row and the handler, or nothing when the event was
\* processed before.  The notification of a stranger breaks a deferred foreign key: the
\* transaction fails when it commits, at every delivery (which is a Restart here).  A database
\* error inside the collaboration or the notification writes is caught in the handler, and
\* leaving the atomic block then rolls everything back without an exception.
Store(n) ==
    \/ IsProcessed(n) /\ UNCHANGED storeVars
    \/ /\ ~IsProcessed(n)
       /\ outbox[n].names # "stranger"
       /\ processed' = Append(processed, n)
       /\ Handler(n)
       /\ UNCHANGED lost
    \/ /\ Cardinality(lost) < MaxDbErrors
       /\ ~IsProcessed(n)
       /\ outbox[n].names # "nobody"
       /\ lost' = lost \cup {n}
       /\ UNCHANGED <<processed, snapshot, history>>

NextMessage(p) ==
    /\ inHand = "none"
    /\ position[p] < Len(log[p])

\* Mutant: an exception of the handler is logged and not raised again.
ConsumeSwallowsErrors(p) ==
    /\ NextMessage(p)
    /\ position' = [position EXCEPT ![p] = @ + 1]
    /\ inHand' = p
    /\ Store(log[p][position[p] + 1]) \/ UNCHANGED storeVars
    /\ UNCHANGED <<sourceVars, kafkaVars, committed, rewinds, restarts>>

\* Mutant: the IntegrityError of a redelivered event is raised.
ConsumeRaisesOnDuplicate(p) ==
    /\ NextMessage(p)
    /\ IF IsProcessed(log[p][position[p] + 1])
       THEN position' = committed /\ UNCHANGED <<inHand, storeVars>>
       ELSE /\ position' = [position EXCEPT ![p] = @ + 1]
            /\ inHand' = p
            /\ Store(log[p][position[p] + 1])
    /\ UNCHANGED <<sourceVars, kafkaVars, committed, rewinds, restarts>>

Consume(p) ==
    /\ NextMessage(p)
    /\ position' = [position EXCEPT ![p] = @ + 1]
    /\ inHand' = p
    /\ Store(log[p][position[p] + 1])
    /\ UNCHANGED <<sourceVars, kafkaVars, committed, rewinds, restarts>>

\* consumer.commit(message=msg), after the transaction.
CommitOffset ==
    /\ inHand # "none"
    /\ committed' = [committed EXCEPT ![inHand] = position[inHand]]
    /\ inHand' = "none"
    /\ UNCHANGED <<sourceVars, kafkaVars, position, storeVars, rewinds, restarts>>

\* The loop ends (a transaction or the commit of an offset raised, the process was
\* stopped or lost) and begins again at the committed offsets.
Restart ==
    /\ restarts < MaxRestarts
    /\ restarts' = restarts + 1
    /\ position' = committed
    /\ inHand' = "none"
    /\ UNCHANGED <<sourceVars, kafkaVars, committed, storeVars, rewinds>>

-----------------------------------------------------------------------------
Next ==
    \/ \E i \in IncidentId : CreateIncident(i) \/ RecordOccurrence(i) \/ UpdateIncident(i)
    \/ Publish \/ ConnectorRestart
    \/ \E p \in TOPICS : Consume(p)
    \/ CommitOffset
    \/ Restart

Spec == Init /\ [][Next]_vars

\* Debezium and the consumer keep running (both reconnect in a loop), and the
\* consumer polls every topic that has messages.
Fairness == /\ WF_vars(Publish)
            /\ \A p \in TOPICS : WF_vars(Consume(p))
            /\ WF_vars(CommitOffset)
FairSpec == Spec /\ Fairness

-----------------------------------------------------------------------------
(* Properties *)

\* Every variable has its type, offsets lie within their topic, and the position
\* is at most one message ahead of what is committed.
TypeOK ==
    /\ table \in Table
    /\ outbox \in Seq(Event)
    /\ published \in 0..Len(outbox)
    /\ \A p \in Topic : log[p] \in Seq(1..Len(outbox))
    /\ \A p \in Topic : committed[p] \in 0..Len(log[p])
    /\ \A p \in Topic :
           position[p] = committed[p] + (IF inHand = p THEN 1 ELSE 0)
    /\ inHand \in TOPICS \cup {"none"}
    /\ processed \in Seq(1..Len(outbox))
    /\ snapshot \in [IncidentId -> Snapshot \cup {NoSnapshot}]
    /\ history \in Seq([event : 1..Len(outbox), posted : BOOLEAN])
    /\ lost \subseteq 1..Len(outbox)
    /\ rewinds \in 0..MaxRewinds
    /\ restarts \in 0..MaxRestarts

\* However often Debezium, Kafka or the consumer repeat an event, a status change
\* leaves one row in the history once it is processed, and none before.
HistoryOnce ==
    \A n \in DOMAIN outbox :
        outbox[n].topic = "updated" /\ MovesStatus(outbox[n]) =>
            Cardinality({k \in DOMAIN history : history[k].event = n}) =
                (IF IsProcessed(n) THEN 1 ELSE 0)

\* An event below the committed offset, which the group will not see again, has been
\* processed; the only other way past it is an error caught inside its transaction.
CommittedIsProcessed ==
    \A p \in Topic : \A k \in 1..committed[p] :
        IsProcessed(log[p][k]) \/ log[p][k] \in lost

\* Offsets, processed_events and the rows derived from them agree through every
\* repetition, restart and caught error of the command.
ProcessedOnce == TypeOK /\ HistoryOnce /\ CommittedIsProcessed

\* When the consumer has caught up, the snapshot of an incident whose created
\* event was processed before its updates, and none of whose events were lost, has
\* the status of the incident.
Drained ==
    /\ published = Len(outbox)
    /\ inHand = "none"
    /\ \A p \in TOPICS : committed[p] = Len(log[p])
CreatedFirst(i) ==
    \E k \in DOMAIN processed :
        /\ outbox[processed[k]].id = i
        /\ outbox[processed[k]].topic = "created"
        /\ \A m \in 1..(k - 1) : outbox[processed[m]].id # i
MirrorsInOrder ==
    Drained => \A i \in IncidentId :
        Live(table, i) /\ CreatedFirst(i) /\ (\A n \in lost : outbox[n].id # i)
            => snapshot[i].status = table[i].status

\* Every event of a subscribed topic is processed in the end, whatever is
\* redelivered before it, unless a caught error rolled it back or an event that can never be
\* stored keeps the consumer from going on.
Stuck == \E m \in DOMAIN outbox : outbox[m].names = "stranger"
EveryEventProcessed ==
    \A n \in 1..MaxEvents :
        n \in DOMAIN outbox /\ outbox[n].topic \in TOPICS
            ~> IsProcessed(n) \/ n \in lost \/ Stuck
=============================================================================
