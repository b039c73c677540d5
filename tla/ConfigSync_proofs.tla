-------------------------- MODULE ConfigSync_proofs --------------------------
(***************************************************************************)
(* Theorems about ConfigSync, for every set of rules and playbooks and     *)
(* every value of the bounds: what the ConfigSyncConsumer stores has its   *)
(* type, follows Django, and never goes back.                              *)
(*                                                                         *)
(* They come from three invariants.  Sound says where every version that   *)
(* is on its way comes from.  Followed says which events a snapshot row    *)
(* already reflects, and Owed what the consumer and the embed tasks still  *)
(* owe to an embedding; the tables converge because of these two.          *)
(***************************************************************************)
EXTENDS ConfigSync, TLAPS

\* Offsets are functions, and every event sent, in hand or queued names a
\* version its entity has reached; the event of a deletion names a deleted
\* entity, and each event is in the topic of its entity.
SentBy(ev, ver, del) ==
    /\ ev.version <= ver[ev.entity]
    /\ ev.deleted => ev.entity \in del
Sent(ev) == SentBy(ev, version, deleted)

Sound ==
    /\ TypeOK
    /\ position \in [Topic -> Nat]
    /\ \A p \in Topic : \A k \in 1..Len(log[p]) :
           Sent(log[p][k]) /\ TopicOf(log[p][k].entity) = p
    /\ handling.at = "enqueue" => Sent(handling.event) /\ handling.event.entity \in Playbook
    /\ \A k \in tasks : Sent(k.event) /\ k.event.entity \in Playbook

-----------------------------------------------------------------------------
\* The events of a topic, and what is polled from it.
LEMMA EventInTopic ==
    ASSUME Sound, NEW p \in Topic, CanPoll(p)
    PROVE  /\ position[p] + 1 \in 1..Len(log[p])
           /\ NextEvent(p) \in Event
           /\ Sent(NextEvent(p))
           /\ TopicOf(NextEvent(p).entity) = p
<1>1. log[p] \in Seq(Event) /\ position[p] \in 0..Len(log[p])
  BY DEF Sound, TypeOK
<1>2. position[p] + 1 \in 1..Len(log[p])
  BY <1>1 DEF CanPoll
<1>3. log[p][position[p] + 1] \in Event
  BY <1>1, <1>2
<1>. QED
  BY <1>2, <1>3 DEF Sound, NextEvent

\* Every entity has its topic.
LEMMA TopicOfIsTopic == \A e \in Entity : TopicOf(e) \in Topic
BY DEF TopicOf, Topic

\* A new event at the end of its topic leaves the others where they are.
LEMMA SendAppends ==
    ASSUME log \in [Topic -> Seq(Event)], NEW e \in Entity, NEW v \in 1..MaxVersion,
           NEW gone \in BOOLEAN, Send(e, v, gone)
    PROVE  LET new == [entity |-> e, version |-> v, deleted |-> gone]
               q == TopicOf(e)
           IN  /\ new \in Event
               /\ log' \in [Topic -> Seq(Event)]
               /\ Len(log'[q]) = Len(log[q]) + 1
               /\ log'[q][Len(log[q]) + 1] = new
               /\ \A k \in 1..Len(log[q]) : log'[q][k] = log[q][k]
               /\ \A p \in Topic \ {q} : log'[p] = log[p]
<1>. DEFINE new == [entity |-> e, version |-> v, deleted |-> gone]
            q == TopicOf(e)
<1>1. new \in Event /\ q \in Topic
  BY TopicOfIsTopic DEF Event
<1>2. log' = [log EXCEPT ![q] = Append(@, new)]
  BY DEF Send
<1>. HIDE DEF new, q
<1>3. log'[q] = Append(log[q], new) /\ log[q] \in Seq(Event)
  BY <1>1, <1>2
<1>. QED
  BY <1>1, <1>2, <1>3 DEF new, q

\* A view of Django that raises no version but its own, deletes no entity but
\* its own and sends what it wrote keeps Sound.
LEMMA SentAfterSend ==
    ASSUME Sound, NEW e \in Entity, NEW v \in 1..MaxVersion, NEW gone \in BOOLEAN,
           Send(e, v, gone),
           version' \in [Entity -> 0..MaxVersion], v <= version'[e],
           \A u \in Entity : version'[u] >= version[u] /\ version[u] \in Nat,
           deleted \subseteq deleted', deleted' \subseteq Entity,
           gone => e \in deleted',
           UNCHANGED <<consumerVars, stored, embedVars, bounds>>
    PROVE  Sound'
<1>. DEFINE new == [entity |-> e, version |-> v, deleted |-> gone]
            q == TopicOf(e)
<1>1. /\ log' \in [Topic -> Seq(Event)] /\ new \in Event
      /\ Len(log'[q]) = Len(log[q]) + 1
      /\ log'[q][Len(log[q]) + 1] = new
      /\ \A k \in 1..Len(log[q]) : log'[q][k] = log[q][k]
      /\ \A p \in Topic \ {q} : log'[p] = log[p]
  BY SendAppends DEF Sound, TypeOK
<1>2. SentBy(new, version', deleted') /\ TopicOf(new.entity) = q
  BY DEF SentBy
<1>. HIDE DEF new, q
<1>3. ASSUME NEW p \in Topic PROVE Len(log[p]) \in Nat /\ Len(log'[p]) >= Len(log[p])
  <2>1. log[p] \in Seq(Event) /\ Len(log[p]) \in Nat
    BY DEF Sound, TypeOK
  <2>2. CASE p = q
    BY <2>1, <2>2, <1>1
  <2>3. CASE p # q
    BY <2>1, <2>3, <1>1
  <2>. QED
    BY <2>2, <2>3
<1>4. ASSUME NEW ev \in Event, Sent(ev) PROVE SentBy(ev, version', deleted')
  <2>1. ev.entity \in Entity /\ ev.version \in Nat
    BY DEF Event
  <2>2. version[ev.entity] \in Nat /\ version'[ev.entity] \in Nat
    BY <2>1
  <2>. QED
    BY <2>1, <2>2, <1>4 DEF Sent, SentBy
<1>5. ASSUME NEW p \in Topic, NEW k \in 1..Len(log'[p])
      PROVE  SentBy(log'[p][k], version', deleted') /\ TopicOf(log'[p][k].entity) = p
  <2>1. CASE k \in 1..Len(log[p])
    <3>1. log'[p][k] = log[p][k]
      BY <2>1, <1>1
    <3>2. log[p][k] \in Event
      BY <2>1 DEF Sound, TypeOK
    <3>3. Sent(log[p][k]) /\ TopicOf(log[p][k].entity) = p
      BY <2>1 DEF Sound
    <3>. QED
      BY <3>1, <3>2, <3>3, <1>4
  <2>2. CASE k \notin 1..Len(log[p])
    <3>1. p = q
      BY <2>2, <1>1
    <3>2. k = Len(log[q]) + 1
      BY <2>2, <3>1, <1>1, <1>3
    <3>. QED
      BY <3>1, <3>2, <1>1, <1>2
  <2>. QED
    BY <2>1, <2>2
<1>6. handling.at = "enqueue" => /\ SentBy(handling.event, version', deleted')
                                 /\ handling.event.entity \in Playbook
  <2>1. handling.at = "enqueue" => handling.event \in Event
    BY DEF Sound, TypeOK, Idle
  <2>. QED
    BY <2>1, <1>4 DEF Sound
<1>7. \A k \in tasks : SentBy(k.event, version', deleted') /\ k.event.entity \in Playbook
  <2>1. \A k \in tasks : k.event \in Event
    BY DEF Sound, TypeOK, EmbedTask
  <2>. QED
    BY <2>1, <1>4 DEF Sound
<1>8. \A u \in Entity : stored[u] <= version'[u]
  BY DEF Sound, TypeOK
<1>9. \A u \in Playbook : embedded[u] <= version'[u]
  BY DEF Sound, TypeOK, Entity
<1>10. \A p \in Topic : committed[p] <= position[p] /\ position[p] \in 0..Len(log'[p])
  BY <1>1, <1>3 DEF Sound, TypeOK
<1>11. UNCHANGED <<committed, position, handling, stored, tasks, embedded, doneKey,
                   failures, restarts, taskFaults>>
  BY DEF consumerVars, embedVars, bounds
<1>12. TypeOK'
  BY <1>1, <1>8, <1>9, <1>10, <1>11 DEF Sound, TypeOK
<1>. QED
  BY <1>5, <1>6, <1>7, <1>11, <1>12 DEF Sound, Sent, SentBy

-----------------------------------------------------------------------------
LEMMA InitSound == Init => Sound
<1>. SUFFICES ASSUME Init PROVE Sound
  OBVIOUS
<1>1. log \in [Topic -> Seq(Event)] /\ \A p \in Topic : Len(log[p]) = 0
  BY DEF Init
<1>2. handling = Idle /\ handling.at # "enqueue" /\ tasks = {}
  BY DEF Init, Idle
<1>3. /\ position \in [Topic -> Nat] /\ committed \in [Topic -> Nat]
      /\ \A p \in Topic : committed[p] = 0 /\ position[p] = 0
  BY DEF Init
<1>4. /\ version \in [Entity -> 0..MaxVersion] /\ deleted \subseteq Entity
      /\ stored \in [Entity -> Nat] /\ embedded \in [Playbook -> Nat]
      /\ doneKey \in [Playbook -> Nat]
      /\ \A e \in Entity : stored[e] <= version[e]
      /\ \A e \in Playbook : embedded[e] <= version[e]
  BY ConfigAssumption DEF Init, Entity
<1>5. /\ failures \in 0..MaxFailures /\ restarts \in 0..MaxRestarts
      /\ taskFaults \in 0..MaxTaskFaults
  BY ConfigAssumption DEF Init
<1>. QED
  BY <1>1, <1>2, <1>3, <1>4, <1>5 DEF Sound, TypeOK

\* Every step of Django, of the consumer and of an embed task keeps Sound.
LEMMA NextSound == Sound /\ [Next]_vars => Sound'
<1>. SUFFICES ASSUME Sound, [Next]_vars PROVE Sound'
  OBVIOUS
<1>. USE ConfigAssumption
<1>1. ASSUME NEW e \in Entity, SaveEntity(e) PROVE Sound'
  <2>1. version[e] + 1 \in 1..MaxVersion /\ version' \in [Entity -> 0..MaxVersion]
    BY <1>1 DEF SaveEntity, Sound, TypeOK
  <2>2. \A u \in Entity : version'[u] >= version[u] /\ version[u] \in Nat
    BY <1>1 DEF SaveEntity, Sound, TypeOK
  <2>3. UNCHANGED <<consumerVars, stored, embedVars, bounds>>
    BY <1>1 DEF SaveEntity
  <2>4. deleted \subseteq deleted' /\ deleted' \subseteq Entity
    BY <1>1 DEF SaveEntity, Sound, TypeOK
  <2>. DEFINE v == version[e] + 1
  <2>5. v \in 1..MaxVersion /\ v <= version'[e]
    BY <1>1, <2>1 DEF SaveEntity, Sound, TypeOK
  <2>6. Send(e, v, FALSE)
    BY <1>1 DEF SaveEntity
  <2>. HIDE DEF v
  <2>. QED
    BY <2>1, <2>2, <2>3, <2>4, <2>5, <2>6, SentAfterSend, Zenon
<1>2. ASSUME NEW e \in Entity, DeleteEntity(e) PROVE Sound'
  <2>1. version[e] \in 1..MaxVersion
    BY <1>2 DEF DeleteEntity, Sound, TypeOK
  <2>2. /\ deleted' = deleted \cup {e}
        /\ UNCHANGED <<version, consumerVars, stored, embedVars, bounds>>
        /\ Send(e, version[e], TRUE)
    BY <1>2 DEF DeleteEntity
  <2>3. \A u \in Entity : version'[u] >= version[u] /\ version[u] \in Nat
    BY <2>2 DEF Sound, TypeOK
  <2>4. version' \in [Entity -> 0..MaxVersion] /\ version[e] <= version'[e]
    BY <2>2 DEF Sound, TypeOK
  <2>5. deleted \subseteq deleted' /\ deleted' \subseteq Entity /\ e \in deleted'
    BY <2>2 DEF Sound, TypeOK
  <2>6. UNCHANGED <<consumerVars, stored, embedVars, bounds>>
    BY <2>2
  <2>. QED
    BY <2>1, <2>2, <2>3, <2>4, <2>5, <2>6, SentAfterSend, Zenon
<1>3. ASSUME NEW p \in Topic, Apply(p) PROVE Sound'
  <2>. DEFINE ev == NextEvent(p)
  <2>1. /\ CanPoll(p) /\ Advance(p)
        /\ UNCHANGED <<sourceVars, log, committed, embedVars, bounds>>
    BY <1>3 DEF Apply
  <2>2. ev \in Event /\ Sent(ev) /\ position[p] + 1 \in 1..Len(log[p])
    BY <2>1, EventInTopic
  <2>3. /\ position' \in [Topic -> Nat]
        /\ \A q \in Topic : committed[q] <= position'[q] /\ position'[q] \in 0..Len(log[q])
    BY <2>1, <2>2 DEF Advance, Sound, TypeOK
  <2>4. \/ handling' = [at |-> "commit"]
        \/ handling' = [at |-> "enqueue", event |-> ev] /\ ev.entity \in Playbook
    BY <1>3 DEF Apply
  <2>5. /\ stored' \in [Entity -> Nat]
        /\ \A e \in Entity : stored'[e] <= version[e]
    <3>1. ev.entity \in Entity /\ ev.version \in Nat /\ ev.version <= version[ev.entity]
      BY <2>2 DEF Event, Sent, SentBy
    <3>. DEFINE new == IF ev.deleted THEN 0 ELSE ev.version
    <3>2. new \in Nat /\ new <= version[ev.entity]
      BY <3>1 DEF Sound, TypeOK
    <3>3. stored' = stored \/ stored' = [stored EXCEPT ![ev.entity] = new]
      BY <1>3 DEF Apply
    <3>4. /\ stored \in [Entity -> Nat]
          /\ \A e \in Entity : stored[e] <= version[e]
      BY DEF Sound, TypeOK
    <3>. HIDE DEF ev, new
    <3>5. stored' \in [Entity -> Nat]
      BY <3>1, <3>2, <3>3, <3>4
    <3>6. ASSUME NEW e \in Entity PROVE stored'[e] <= version[e]
      <4>1. stored'[e] = stored[e] \/ (e = ev.entity /\ stored'[e] = new)
        BY <3>1, <3>3, <3>4
      <4>. QED
        BY <3>2, <3>4, <4>1
    <3>. QED
      BY <3>5, <3>6
  <2>6. /\ handling' \in {Idle, [at |-> "commit"]} \cup [at : {"enqueue"}, event : Event]
        /\ handling'.at = "enqueue" => Sent(handling'.event) /\ handling'.event.entity \in Playbook
    BY <2>2, <2>4
  <2>. QED
    BY <2>1, <2>3, <2>5, <2>6 DEF Sound, TypeOK, Sent, SentBy, sourceVars, embedVars, bounds
<1>s. ASSUME TypeOK', position' \in [Topic -> Nat], UNCHANGED <<version, deleted, log>>,
             handling'.at # "enqueue",
             \A k \in tasks' : Sent(k.event) /\ k.event.entity \in Playbook
      PROVE  Sound'
  <2>2. ASSUME NEW p \in Topic, NEW k \in 1..Len(log[p])
        PROVE  Sent(log[p][k])' /\ TopicOf(log[p][k].entity) = p
    <3>1. Sent(log[p][k]) /\ TopicOf(log[p][k].entity) = p
      BY DEF Sound
    <3>. QED
      BY <1>s, <3>1 DEF Sent, SentBy
  <2>3. \A k \in tasks' : Sent(k.event)' /\ k.event.entity \in Playbook
    BY <1>s DEF Sent, SentBy
  <2>. QED
    BY <1>s, <2>2, <2>3 DEF Sound
<1>4. ASSUME NEW p \in Topic, ApplyFails(p) PROVE Sound'
  <2>1. /\ CanPoll(p) /\ Advance(p) /\ failures' \in 0..MaxFailures
        /\ UNCHANGED <<sourceVars, log, committed, handling, stored, embedVars,
                       restarts, taskFaults>>
    BY <1>4 DEF ApplyFails, Sound, TypeOK
  <2>2. position[p] + 1 \in 1..Len(log[p])
    BY <2>1, EventInTopic
  <2>3. /\ position' \in [Topic -> Nat]
        /\ \A q \in Topic : committed[q] <= position'[q] /\ position'[q] \in 0..Len(log[q])
    BY <2>1, <2>2 DEF Advance, Sound, TypeOK
  <2>. QED
    BY <2>1, <2>3 DEF Sound, TypeOK, Sent, SentBy, sourceVars, embedVars
<1>5. CASE Enqueue
  <2>. DEFINE new == [event |-> handling.event, at |-> "queued"]
  <2>1. /\ handling.event \in Event /\ Sent(handling.event)
        /\ handling.event.entity \in Playbook
    BY <1>5 DEF Enqueue, Sound, TypeOK, Idle
  <2>2. new \in EmbedTask /\ new.event = handling.event
    BY <2>1 DEF EmbedTask, EmbedStep
  <2>3. /\ tasks' = tasks \cup {new} /\ handling' = [at |-> "commit"]
        /\ UNCHANGED <<sourceVars, log, committed, position, stored, embedded, doneKey, bounds>>
    BY <1>5 DEF Enqueue
  <2>. HIDE DEF new
  <2>4. tasks' \subseteq EmbedTask /\ \A k \in tasks' : k \in tasks \/ k.event = handling.event
    BY <2>2, <2>3 DEF Sound, TypeOK
  <2>5. TypeOK'
    BY <2>3, <2>4 DEF Sound, TypeOK, sourceVars, bounds
  <2>6. UNCHANGED <<version, deleted, log>> /\ position' \in [Topic -> Nat] /\ handling'.at # "enqueue"
    BY <2>3 DEF Sound, sourceVars
  <2>7. \A k \in tasks' : Sent(k.event) /\ k.event.entity \in Playbook
    BY <2>1, <2>4 DEF Sound
  <2>. QED
    BY <1>s, <2>5, <2>6, <2>7
<1>6. CASE EnqueueFails
  <2>1. /\ UNCHANGED <<version, deleted, log, committed, position, stored, tasks, embedded, doneKey,
                       restarts, taskFaults>>
        /\ handling' = Idle /\ failures' \in 0..MaxFailures
    BY <1>6 DEF EnqueueFails, Sound, TypeOK, sourceVars, embedVars
  <2>2. TypeOK'
    BY <2>1 DEF Sound, TypeOK
  <2>3. position' \in [Topic -> Nat] /\ handling'.at # "enqueue"
    BY <2>1 DEF Sound, Idle
  <2>4. \A k \in tasks' : Sent(k.event) /\ k.event.entity \in Playbook
    BY <2>1 DEF Sound
  <2>. QED
    BY <1>s, <2>1, <2>2, <2>3, <2>4
<1>7. CASE Commit
  BY <1>7 DEF Commit, Sound, TypeOK, Sent, SentBy, sourceVars, embedVars, bounds, Idle
<1>8. CASE Restart
  <2>1. /\ UNCHANGED <<version, deleted, log, committed, stored, tasks, embedded, doneKey,
                       failures, taskFaults>>
        /\ position' = committed /\ handling' = Idle /\ restarts' \in 0..MaxRestarts
    BY <1>8 DEF Restart, Sound, TypeOK, sourceVars, embedVars
  <2>2. \A p \in Topic : committed[p] \in 0..Len(log[p])
    <3>1. \A p \in Topic : Len(log[p]) \in Nat /\ committed[p] \in Nat
      BY DEF Sound, TypeOK
    <3>2. \A p \in Topic : committed[p] <= position[p] /\ position[p] \in 0..Len(log[p])
      BY DEF Sound, TypeOK
    <3>. QED
      BY <3>1, <3>2
  <2>3. TypeOK'
    BY <2>1, <2>2 DEF Sound, TypeOK
  <2>4. position' \in [Topic -> Nat] /\ handling'.at # "enqueue"
    BY <2>1 DEF Sound, TypeOK, Idle
  <2>5. \A k \in tasks' : Sent(k.event) /\ k.event.entity \in Playbook
    BY <2>1 DEF Sound
  <2>. QED
    BY <1>s, <2>1, <2>3, <2>4, <2>5
<1>9. ASSUME NEW k \in tasks,
             \/ DeleteEmbedding(k) \/ ForgetVersion(k)
             \/ CheckVersion(k) \/ UpsertEmbedding(k) \/ RecordVersion(k)
             \/ TaskFails(k)
      PROVE  Sound'
  <2>. USE DEF MoveTask, Finish, taskFrame, sourceVars, consumerVars, bounds
  <2>1. /\ k \in EmbedTask /\ k.event \in Event /\ Sent(k.event)
        /\ k.event.entity \in Playbook /\ k.event.entity \in Entity
        /\ k.event.version \in 1..MaxVersion
    BY DEF Sound, TypeOK, EmbedTask, Event, Entity
  <2>2. \A s \in EmbedStep :
            [k EXCEPT !.at = s] \in EmbedTask /\ [k EXCEPT !.at = s].event = k.event
    BY <2>1 DEF EmbedTask
  <2>3. UNCHANGED <<sourceVars, log, consumerVars, stored, failures, restarts>>
    BY <1>9 DEF DeleteEmbedding, ForgetVersion, CheckVersion, UpsertEmbedding, RecordVersion,
                TaskFails
  <2>4. taskFaults' \in 0..MaxTaskFaults
    BY <1>9 DEF DeleteEmbedding, ForgetVersion, CheckVersion, UpsertEmbedding, RecordVersion,
                TaskFails, Sound, TypeOK
  <2>5. \A m \in tasks' : m \in EmbedTask /\ (m \in tasks \/ m.event = k.event)
    <3>1. Finish(k) \/ \E s \in EmbedStep : MoveTask(k, s)
      BY <1>9 DEF DeleteEmbedding, ForgetVersion, CheckVersion, UpsertEmbedding, RecordVersion,
                  TaskFails, EmbedStep
    <3>. QED
      BY <3>1, <2>2 DEF Sound, TypeOK
  <2>6. \/ embedded' = embedded
        \/ embedded' = [embedded EXCEPT ![k.event.entity] = 0]
        \/ embedded' = [embedded EXCEPT ![k.event.entity] = k.event.version]
    BY <1>9, <2>1
       DEF DeleteEmbedding, ForgetVersion, CheckVersion, UpsertEmbedding, RecordVersion,
           TaskFails, Sound, TypeOK
  <2>7. \/ doneKey' = doneKey
        \/ doneKey' = [doneKey EXCEPT ![k.event.entity] = 0]
        \/ doneKey' = [doneKey EXCEPT ![k.event.entity] = k.event.version]
    BY <1>9
       DEF DeleteEmbedding, ForgetVersion, CheckVersion, UpsertEmbedding, RecordVersion,
           TaskFails
  <2>8. k.event.version \in Nat /\ k.event.version <= version[k.event.entity]
    BY <2>1 DEF Sent, SentBy
  <2>9. /\ embedded' \in [Playbook -> Nat] /\ doneKey' \in [Playbook -> Nat]
        /\ \A e \in Playbook : embedded'[e] <= version[e]
    <3>1. version \in [Entity -> 0..MaxVersion] /\ embedded \in [Playbook -> Nat]
          /\ doneKey \in [Playbook -> Nat] /\ \A e \in Playbook : embedded[e] <= version[e]
      BY DEF Sound, TypeOK
    <3>2. \A e \in Playbook : version[e] \in Nat
      BY <3>1 DEF Entity
    <3>. DEFINE b == k.event.entity
                v == k.event.version
    <3>3. b \in Playbook /\ v \in Nat /\ v <= version[b]
      BY <2>1, <2>8
    <3>4. embedded' = embedded \/ \E w \in {0, v} : embedded' = [embedded EXCEPT ![b] = w]
      BY <2>6
    <3>5. doneKey' = doneKey \/ \E w \in {0, v} : doneKey' = [doneKey EXCEPT ![b] = w]
      BY <2>7
    <3>. HIDE DEF b, v
    <3>. QED
      BY <3>1, <3>2, <3>3, <3>4, <3>5
  <2>. QED
    BY <2>1, <2>3, <2>4, <2>5, <2>9 DEF Sound, TypeOK, Sent, SentBy
<1>10. CASE UNCHANGED vars
  BY <1>10 DEF vars, sourceVars, consumerVars, embedVars, bounds, Sound, TypeOK, Sent, SentBy
<1>. QED
  BY <1>1, <1>2, <1>3, <1>4, <1>5, <1>6, <1>7, <1>8, <1>9, <1>10 DEF Next
-----------------------------------------------------------------------------
\* The invariants hold in every reachable state.
LEMMA AlwaysSound == Spec => []Sound
BY InitSound, NextSound, PTL DEF Spec

\* Every variable of the way from Django to DB-2 keeps its type, and no snapshot
\* row and no embedding is ahead of the source_version Django has given out.
THEOREM ConfigSyncTypeCorrect == Spec => []TypeOK
<1>1. Sound => TypeOK
  BY DEF Sound
<1>. QED
  BY <1>1, AlwaysSound, PTL

\* What the handler's staleness check (config_sync.py) means for a snapshot row.
LEMMA StoredOnlyGrows ==
    Sound /\ [Next]_vars => \A e \in Entity : stored'[e] # 0 => stored'[e] >= stored[e]
<1>. SUFFICES ASSUME Sound, [Next]_vars
              PROVE  \A e \in Entity : stored'[e] # 0 => stored'[e] >= stored[e]
  OBVIOUS
<1>1. \A e \in Entity : stored[e] \in Nat
  BY DEF Sound, TypeOK
<1>2. ASSUME NEW p \in Topic, Apply(p), NEW e \in Entity, stored'[e] # 0
      PROVE  stored'[e] >= stored[e]
  <2>. DEFINE ev == NextEvent(p)
  <2>1. CanPoll(p)
    BY <1>2 DEF Apply
  <2>2. ev.entity \in Entity /\ ev.version \in Nat
    BY <2>1, EventInTopic DEF Event
  <2>. DEFINE w == IF ev.deleted THEN 0 ELSE ev.version
  <2>3. stored' = stored \/ (~IsStale(ev) /\ stored' = [stored EXCEPT ![ev.entity] = w])
    BY <1>2 DEF Apply
  <2>4. w \in {0, ev.version} /\ stored \in [Entity -> Nat]
    BY DEF Sound, TypeOK
  <2>. DEFINE b == ev.entity
              v == ev.version
  <2>5. ~IsStale(ev) => stored[b] = 0 \/ stored[b] < v
    BY <2>2, <2>4 DEF IsStale
  <2>6. b \in Entity /\ v \in Nat /\ w \in {0, v}
    BY <2>2, <2>4
  <2>7. stored' = stored
        \/ ((stored[b] = 0 \/ stored[b] < v) /\ stored' = [stored EXCEPT ![b] = w])
    BY <2>3, <2>5
  <2>. HIDE DEF b, v, w
  <2>. QED
    BY <1>1, <1>2, <2>4, <2>6, <2>7
<1>3. stored' = stored \/ \E p \in Topic : Apply(p)
  BY DEF Next, vars, SaveEntity, DeleteEntity, ApplyFails, Enqueue, EnqueueFails, Commit,
         Restart, DeleteEmbedding, ForgetVersion, CheckVersion, UpsertEmbedding,
         RecordVersion, TaskFails, taskFrame
<1>. QED
  BY <1>1, <1>2, <1>3

\* What the WHERE of the upsert (embed_playbook.py) means for an embedding row.
LEMMA EmbeddedOnlyGrows ==
    Sound /\ [Next]_vars => \A e \in Playbook : embedded'[e] # 0 => embedded'[e] >= embedded[e]
<1>. SUFFICES ASSUME Sound, [Next]_vars
              PROVE  \A e \in Playbook : embedded'[e] # 0 => embedded'[e] >= embedded[e]
  OBVIOUS
<1>1. \A e \in Playbook : embedded[e] \in Nat
  BY DEF Sound, TypeOK
<1>2. ASSUME NEW k \in tasks, DeleteEmbedding(k) \/ UpsertEmbedding(k),
             NEW e \in Playbook, embedded'[e] # 0
      PROVE  embedded'[e] >= embedded[e]
  <2>1. k.event.entity \in Playbook /\ k.event.version \in Nat
    BY DEF Sound, TypeOK, EmbedTask, Event
  <2>. DEFINE b == k.event.entity
              v == k.event.version
              w == IF embedded[b] < v THEN v ELSE embedded[b]
  <2>2. embedded' = [embedded EXCEPT ![b] = 0] \/ embedded' = [embedded EXCEPT ![b] = w]
    BY <1>2 DEF DeleteEmbedding, UpsertEmbedding
  <2>3. b \in Playbook /\ v \in Nat /\ embedded \in [Playbook -> Nat]
    BY <2>1 DEF Sound, TypeOK
  <2>. HIDE DEF b, v
  <2>. QED
    BY <1>1, <1>2, <2>2, <2>3
<1>3. embedded' = embedded \/ \E k \in tasks : DeleteEmbedding(k) \/ UpsertEmbedding(k)
  BY DEF Next, vars, embedVars, SaveEntity, DeleteEntity, Apply, ApplyFails, Enqueue,
         EnqueueFails, Commit, Restart, ForgetVersion, CheckVersion, RecordVersion, TaskFails
<1>. QED
  BY <1>1, <1>2, <1>3

\* However restarts repeat events and workers reorder embed tasks, neither a
\* snapshot row nor an embedding is ever replaced by an older one.
THEOREM ConfigNeverGoesBack == Spec => NeverGoesBack
<1>1. Sound /\ [Next]_vars =>
          [\A e \in Entity : stored'[e] # 0 => stored'[e] >= stored[e]]_vars
  BY StoredOnlyGrows
<1>2. Sound /\ [Next]_vars =>
          [\A e \in Playbook : embedded'[e] # 0 => embedded'[e] >= embedded[e]]_vars
  BY EmbeddedOnlyGrows
<1>. QED
  BY <1>1, <1>2, AlwaysSound, PTL
     DEF Spec, NeverGoesBack, SnapshotNeverGoesBack, EmbeddingNeverGoesBack

-----------------------------------------------------------------------------
\* While no handler has raised: every event up to the position of the consumer is
\* reflected in the snapshot row of a live entity, and the latest version of a
\* live entity is in its topic.
Reflected(e) ==
    \A k \in 1..position[TopicOf(e)] :
        log[TopicOf(e)][k].entity = e => stored[e] >= log[TopicOf(e)][k].version
Logged(e) ==
    version[e] > 0 => \E k \in 1..Len(log[TopicOf(e)]) :
                          /\ log[TopicOf(e)][k].entity = e
                          /\ log[TopicOf(e)][k].version = version[e]
Followed == failures = 0 => \A e \in Entity \ deleted : Reflected(e) /\ Logged(e)

\* A view of Django that sends the version it wrote keeps Followed.
LEMMA FollowedAfterSend ==
    ASSUME Sound, Followed, NEW u \in Entity, NEW v \in 1..MaxVersion, NEW gone \in BOOLEAN,
           Send(u, v, gone), deleted \subseteq deleted',
           \A e \in Entity \ {u} : version'[e] = version[e],
           u \in deleted' \/ version'[u] = v,
           UNCHANGED <<position, stored, failures>>
    PROVE  Followed'
<1>. SUFFICES ASSUME failures = 0, NEW e \in Entity, e \notin deleted'
              PROVE  Reflected(e)' /\ Logged(e)'
  BY DEF Followed
<1>. DEFINE new == [entity |-> u, version |-> v, deleted |-> gone]
            q == TopicOf(u)
            p == TopicOf(e)
<1>1. /\ log' \in [Topic -> Seq(Event)] /\ new \in Event
      /\ Len(log'[q]) = Len(log[q]) + 1
      /\ log'[q][Len(log[q]) + 1] = new
      /\ \A k \in 1..Len(log[q]) : log'[q][k] = log[q][k]
      /\ \A r \in Topic \ {q} : log'[r] = log[r]
  <2>1. log \in [Topic -> Seq(Event)]
    BY DEF Sound, TypeOK
  <2>. QED
    BY <2>1, SendAppends
<1>2. Reflected(e) /\ Logged(e)
  BY DEF Followed
<1>3. p \in Topic /\ Len(log[p]) \in Nat /\ position[p] \in 0..Len(log[p])
  BY TopicOfIsTopic DEF Sound, TypeOK
<1>4. new.entity = u /\ new.version = v /\ (e = u => p = q)
  OBVIOUS
<1>5. \A k \in 1..Len(log[p]) : log'[p][k] = log[p][k]
  BY <1>1, <1>3
<1>6. \A k \in 1..position[p] : log[p][k].entity = e => stored[e] >= log[p][k].version
  BY <1>2 DEF Reflected
<1>7. version[e] > 0 => \E k \in 1..Len(log[p]) : log[p][k].entity = e /\ log[p][k].version = version[e]
  BY <1>2 DEF Logged
<1>8. Len(log'[p]) >= Len(log[p]) /\ Len(log'[p]) \in Nat
  BY <1>1, <1>3
<1>9. q \in Topic /\ Len(log[q]) \in Nat
  BY TopicOfIsTopic DEF Sound, TypeOK
<1>. HIDE DEF new, p, q
<1>10. \A k \in 1..position[p] : log'[p][k].entity = e => stored[e] >= log'[p][k].version
  BY <1>3, <1>5, <1>6
<1>11. version'[e] > 0 =>
           \E k \in 1..Len(log'[p]) : log'[p][k].entity = e /\ log'[p][k].version = version'[e]
  <2>1. CASE e = u
    <3>1. version'[e] = v /\ p = q
      BY <2>1, <1>4
    <3>2. Len(log[q]) + 1 \in 1..Len(log'[q])
      BY <1>1, <1>9
    <3>. QED
      BY <2>1, <3>1, <3>2, <1>1, <1>4
  <2>2. CASE e # u
    BY <2>2, <1>3, <1>5, <1>7, <1>8
  <2>. QED
    BY <2>1, <2>2
<1>. QED
  BY <1>10, <1>11 DEF p, Reflected, Logged

LEMMA InitFollowed == Init => Followed
BY TopicOfIsTopic DEF Init, Followed, Reflected, Logged

\* The handler's transaction reflects the event it polled; a raise ends the claim.
LEMMA NextFollowed == Sound /\ Followed /\ [Next]_vars => Followed'
<1>. SUFFICES ASSUME Sound, Followed, [Next]_vars PROVE Followed'
  OBVIOUS
<1>1. ASSUME NEW u \in Entity, SaveEntity(u) PROVE Followed'
  <2>. DEFINE v == version[u] + 1
  <2>1. /\ v \in 1..MaxVersion /\ version'[u] = v
        /\ \A e \in Entity \ {u} : version'[e] = version[e]
    BY <1>1, ConfigAssumption DEF SaveEntity, Sound, TypeOK
  <2>2. Send(u, v, FALSE) /\ deleted \subseteq deleted'
        /\ UNCHANGED <<position, stored, failures>>
    BY <1>1, Zenon DEF SaveEntity, consumerVars, bounds
  <2>. HIDE DEF v
  <2>. QED
    BY <2>1, <2>2, FollowedAfterSend, Zenon
<1>2. ASSUME NEW u \in Entity, DeleteEntity(u) PROVE Followed'
  <2>1. /\ version[u] \in 1..MaxVersion
        /\ \A e \in Entity \ {u} : version'[e] = version[e]
    BY <1>2 DEF DeleteEntity, Sound, TypeOK
  <2>2. Send(u, version[u], TRUE) /\ deleted \subseteq deleted' /\ u \in deleted'
        /\ UNCHANGED <<position, stored, failures>>
    BY <1>2, Zenon DEF DeleteEntity, consumerVars, bounds
  <2>. QED
    BY <2>1, <2>2, FollowedAfterSend, Zenon
<1>3. ASSUME NEW p \in Topic, Apply(p) PROVE Followed'
  <2>. SUFFICES ASSUME failures = 0, NEW e \in Entity \ deleted
                PROVE  Reflected(e)' /\ Logged(e)'
    BY <1>3 DEF Apply, Followed, bounds, sourceVars
  <2>. DEFINE ev == NextEvent(p)
              w == IF ev.deleted THEN 0 ELSE ev.version
              q == TopicOf(e)
  <2>1. /\ CanPoll(p) /\ Advance(p) /\ UNCHANGED <<version, deleted, log>>
        /\ \/ stored' = stored /\ (IsStale(ev) \/ (ev.deleted /\ stored[ev.entity] = 0))
           \/ stored' = [stored EXCEPT ![ev.entity] = w] /\ ~IsStale(ev)
    BY <1>3 DEF Apply, sourceVars
  <2>2. ev \in Event /\ Sent(ev) /\ TopicOf(ev.entity) = p
    BY <2>1, EventInTopic
  <2>3. ev.entity \in Entity /\ ev.version \in Nat /\ (ev.entity = e => ~ev.deleted)
    BY <2>2 DEF Event, Sent, SentBy
  <2>4. Reflected(e) /\ Logged(e) /\ stored[e] \in Nat
    BY DEF Followed, Sound, TypeOK
  <2>5. /\ q \in Topic /\ position[q] \in Nat /\ ev = log[p][position[p] + 1]
        /\ position'[q] = IF q = p THEN position[q] + 1 ELSE position[q]
    BY <2>1, TopicOfIsTopic DEF Advance, Sound, NextEvent
  <2>6. stored'[e] \in Nat /\ stored'[e] >= stored[e]
        /\ (ev.entity = e => stored'[e] >= ev.version)
    <3>1. stored \in [Entity -> Nat]
      BY DEF Sound, TypeOK
    <3>2. CASE ev.entity # e
      BY <2>1, <2>3, <2>4, <3>1, <3>2
    <3>3. CASE ev.entity = e
      <4>1. w = ev.version
        BY <2>3, <3>3
      <4>2. CASE stored' = stored /\ IsStale(ev)
        BY <4>2, <2>3, <2>4, <3>3 DEF IsStale
      <4>3. CASE stored' = [stored EXCEPT ![ev.entity] = w] /\ ~IsStale(ev)
        BY <4>1, <4>3, <2>3, <2>4, <3>1, <3>3 DEF IsStale
      <4>. QED
        BY <4>2, <4>3, <2>1, <2>3, <3>3
    <3>. QED
      BY <3>2, <3>3
  <2>7. \A k \in 1..position[q] : log[q][k].entity = e => stored[e] >= log[q][k].version
    BY <2>4 DEF Reflected
  <2>8. \A k \in 1..Len(log[q]) : log[q][k] \in Event
    BY <2>5 DEF Sound, TypeOK
  <2>9. position[q] \in 0..Len(log[q])
    BY <2>5 DEF Sound, TypeOK
  <2>10. \A k \in 1..Len(log[q]) : log[q][k].version \in Nat
    BY <2>8 DEF Event
  <2>11. p = q => position[p] + 1 \in 1..Len(log[q])
    BY <2>1, EventInTopic
  <2>. HIDE DEF ev, w, q
  <2>12. \A k \in 1..position'[q] : log[q][k].entity = e => stored'[e] >= log[q][k].version
    <3>. SUFFICES ASSUME NEW k \in 1..position'[q], log[q][k].entity = e
                  PROVE  stored'[e] >= log[q][k].version
      OBVIOUS
    <3>1. CASE k \in 1..position[q]
      BY <3>1, <2>4, <2>6, <2>7, <2>9, <2>10
    <3>2. CASE k \notin 1..position[q]
      <4>1. p = q /\ k = position[p] + 1
        BY <3>2, <2>5
      <4>. QED
        BY <4>1, <2>5, <2>6
    <3>. QED
      BY <3>1, <3>2
  <2>. QED
    BY <2>1, <2>4, <2>12 DEF q, Reflected, Logged
<1>4. ASSUME NEW p \in Topic, ApplyFails(p) PROVE Followed'
  BY <1>4 DEF ApplyFails, Followed, Sound, TypeOK
<1>5. CASE EnqueueFails
  BY <1>5 DEF EnqueueFails, Followed, Sound, TypeOK
<1>6. CASE Restart
  <2>. SUFFICES ASSUME failures = 0, NEW e \in Entity \ deleted
                PROVE  Reflected(e)' /\ Logged(e)'
    BY <1>6 DEF Restart, Followed, sourceVars
  <2>1. Reflected(e) /\ Logged(e) /\ TopicOf(e) \in Topic
    BY TopicOfIsTopic DEF Followed
  <2>2. /\ position' = committed /\ UNCHANGED <<version, log, stored>>
    BY <1>6 DEF Restart, sourceVars
  <2>3. \A p \in Topic : committed[p] \in Nat /\ position[p] \in Nat /\ committed[p] <= position[p]
    BY DEF Sound, TypeOK
  <2>. QED
    BY <2>1, <2>2, <2>3 DEF Reflected, Logged
<1>7. CASE UNCHANGED <<version, deleted, log, position, stored, failures>>
  BY <1>7 DEF Followed, Reflected, Logged
<1>8. \/ \E u \in Entity : SaveEntity(u) \/ DeleteEntity(u)
      \/ \E p \in Topic : Apply(p) \/ ApplyFails(p)
      \/ EnqueueFails \/ Restart \/ UNCHANGED <<version, deleted, log, position, stored, failures>>
  BY DEF Next, vars, sourceVars, consumerVars, bounds, Enqueue, Commit, DeleteEmbedding,
         ForgetVersion, CheckVersion, UpsertEmbedding, RecordVersion, TaskFails, taskFrame
<1>. QED
  BY <1>1, <1>2, <1>3, <1>4, <1>5, <1>6, <1>7, <1>8

-----------------------------------------------------------------------------
\* A snapshot version of a live playbook that has no embedding yet is still in the
\* hands of the consumer or of a task that has not written its row.
Carried(e) ==
    \/ /\ handling.at = "enqueue"
       /\ handling.event.entity = e /\ handling.event.version = stored[e]
    \/ \E k \in tasks : /\ k.event.entity = e /\ k.event.version = stored[e]
                        /\ k.at \in {"queued", "upsert"}

\* The version key is never ahead of the embedding of a live playbook.
KeyBehind(e) ==
    /\ doneKey[e] <= embedded[e]
    /\ \A k \in tasks : k.event.entity = e /\ k.at = "record" => embedded[e] >= k.event.version

Owed ==
    /\ \A k \in tasks : k.at = "forget" => k.event.deleted
    /\ \A e \in Playbook \ deleted :
           /\ KeyBehind(e)
           /\ failures = 0 /\ restarts = 0 => embedded[e] >= stored[e] \/ Carried(e)

LEMMA InitOwed == Init => Owed
BY DEF Init, Owed, KeyBehind, Entity

\* A step of one embed task keeps Owed: it gives up the task only when the
\* embedding has the version of the task or a later one.
LEMMA TaskKeepsOwed ==
    ASSUME Sound, Owed, NEW k \in tasks,
           \/ DeleteEmbedding(k) \/ ForgetVersion(k)
           \/ CheckVersion(k) \/ UpsertEmbedding(k) \/ RecordVersion(k)
           \/ TaskFails(k)
    PROVE  Owed'
<1>. DEFINE b == k.event.entity
            v == k.event.version
            Moved(s) == [k EXCEPT !.at = s]
<1>1. /\ k \in EmbedTask /\ k.event \in Event /\ Sent(k.event)
      /\ b \in Playbook /\ b \in Entity /\ v \in 1..MaxVersion
      /\ (k.event.deleted => b \in deleted)
  BY DEF Sound, TypeOK, EmbedTask, Event, Entity, Sent, SentBy
<1>2. \A s \in EmbedStep : Moved(s).event = k.event /\ Moved(s).at = s
  BY <1>1 DEF EmbedTask
<1>3. UNCHANGED <<version, deleted, handling, stored, failures, restarts>>
  BY DEF DeleteEmbedding, ForgetVersion, CheckVersion, UpsertEmbedding, RecordVersion,
         TaskFails, taskFrame, sourceVars, consumerVars, bounds
<1>4. /\ embedded \in [Playbook -> Nat] /\ doneKey \in [Playbook -> Nat]
      /\ \A e \in Playbook : stored[e] \in Nat
      /\ \A m \in tasks : m.event.version \in Nat
  BY DEF Sound, TypeOK, EmbedTask, Event, Entity
<1>5. \A m \in tasks : m.at = "forget" => m.event.deleted
  BY DEF Owed
<1>6. \A e \in Playbook \ deleted :
          /\ KeyBehind(e)
          /\ failures = 0 /\ restarts = 0 => embedded[e] >= stored[e] \/ Carried(e)
  BY DEF Owed
\* An embedding and a key of another entity do not change, and a step that is not
\* about a deletion only raises the embedding.
<1>7. SUFFICES ASSUME NEW s \in EmbedStep,
                      tasks' = tasks \ {k} \/ tasks' = (tasks \ {k}) \cup {Moved(s)},
                      s = "forget" => k.event.deleted,
                      embedded' \in [Playbook -> Nat], doneKey' \in [Playbook -> Nat],
                      \A e \in Playbook \ {b} : embedded'[e] = embedded[e] /\ doneKey'[e] = doneKey[e],
                      b \notin deleted =>
                          /\ embedded'[b] >= embedded[b]
                          /\ doneKey'[b] <= embedded'[b]
                          /\ s = "record" => embedded'[b] >= v
                          /\ \/ embedded'[b] >= v
                             \/ s \in {"queued", "upsert"} /\ tasks' = (tasks \ {k}) \cup {Moved(s)}
               PROVE  Owed'
  <2>. HIDE DEF b, v, Moved
  <2>1. CASE DeleteEmbedding(k)
    <3>1. /\ tasks' = (tasks \ {k}) \cup {Moved("forget")}
          /\ embedded' = [embedded EXCEPT ![b] = 0] /\ doneKey' = doneKey /\ k.event.deleted
      BY <2>1 DEF DeleteEmbedding, MoveTask, b, Moved
    <3>2. "forget" \in EmbedStep /\ b \in deleted
      BY <1>1, <3>1 DEF EmbedStep
    <3>. QED
      BY <1>1, <1>4, <1>7, <3>1, <3>2
  <2>2. CASE ForgetVersion(k)
    <3>1. /\ tasks' = tasks \ {k} /\ embedded' = embedded
          /\ doneKey' = [doneKey EXCEPT ![b] = 0] /\ k.at = "forget"
      BY <2>2 DEF ForgetVersion, Finish, b
    <3>2. "forget" \in EmbedStep /\ k.event.deleted /\ b \in deleted
      BY <1>1, <1>5, <3>1 DEF EmbedStep
    <3>. QED
      BY <1>1, <1>4, <1>7, <3>1, <3>2
  <2>3. CASE CheckVersion(k)
    <3>1. /\ embedded' = embedded /\ doneKey' = doneKey
          /\ IF doneKey[b] >= v THEN tasks' = tasks \ {k}
                                ELSE tasks' = (tasks \ {k}) \cup {Moved("upsert")}
      BY <2>3 DEF CheckVersion, MoveTask, Finish, b, v, Moved
    <3>2. b \notin deleted => doneKey[b] <= embedded[b]
      BY <1>1, <1>6 DEF KeyBehind
    <3>3. "upsert" \in EmbedStep
      BY DEF EmbedStep
    <3>. QED
      BY <1>1, <1>4, <1>7, <3>1, <3>2, <3>3
  <2>4. CASE UpsertEmbedding(k)
    <3>. DEFINE w == IF embedded[b] < v THEN v ELSE embedded[b]
    <3>1. /\ tasks' = (tasks \ {k}) \cup {Moved("record")}
          /\ embedded' = [embedded EXCEPT ![b] = w] /\ doneKey' = doneKey
      BY <2>4 DEF UpsertEmbedding, MoveTask, b, v, Moved
    <3>2. b \notin deleted => doneKey[b] <= embedded[b]
      BY <1>1, <1>6 DEF KeyBehind
    <3>3. "record" \in EmbedStep /\ w \in Nat /\ w >= v /\ w >= embedded[b]
      BY <1>1, <1>4 DEF EmbedStep
    <3>. HIDE DEF w
    <3>. QED
      BY <1>1, <1>4, <1>7, <3>1, <3>2, <3>3
  <2>5. CASE RecordVersion(k)
    <3>1. /\ tasks' = tasks \ {k} /\ embedded' = embedded
          /\ doneKey' = [doneKey EXCEPT ![b] = v] /\ k.at = "record"
      BY <2>5 DEF RecordVersion, Finish, b, v
    <3>2. b \notin deleted => embedded[b] >= v
      BY <1>1, <1>6, <3>1 DEF KeyBehind, b, v
    <3>3. "record" \in EmbedStep
      BY DEF EmbedStep
    <3>. QED
      BY <1>1, <1>4, <1>7, <3>1, <3>2, <3>3
  <2>6. CASE TaskFails(k)
    <3>1. /\ tasks' = (tasks \ {k}) \cup {Moved("queued")}
          /\ embedded' = embedded /\ doneKey' = doneKey
      BY <2>6 DEF TaskFails, MoveTask, Moved
    <3>2. b \notin deleted => doneKey[b] <= embedded[b]
      BY <1>1, <1>6 DEF KeyBehind
    <3>3. "queued" \in EmbedStep
      BY DEF EmbedStep
    <3>. QED
      BY <1>1, <1>4, <1>7, <3>1, <3>2, <3>3
  <2>. QED
    BY <2>1, <2>2, <2>3, <2>4, <2>5, <2>6
<1>8. Moved(s).event = k.event /\ Moved(s).at = s
  BY <1>2
<1>. HIDE DEF Moved
<1>9. \A m \in tasks' : m \in tasks \/ (m = Moved(s) /\ m.event = k.event /\ m.at = s)
  BY <1>7, <1>8
<1>10. \A m \in tasks' : m.at = "forget" => m.event.deleted
  BY <1>5, <1>7, <1>9
<1>11. ASSUME NEW e \in Playbook \ deleted
       PROVE  KeyBehind(e)'
  <2>1. embedded'[e] >= embedded[e] /\ doneKey'[e] <= embedded'[e]
    BY <1>4, <1>6, <1>7 DEF KeyBehind
  <2>2. ASSUME NEW m \in tasks', m.event.entity = e, m.at = "record"
        PROVE  embedded'[e] >= m.event.version
    <3>1. CASE m \in tasks
      BY <3>1, <2>1, <2>2, <1>4, <1>6, <1>7 DEF KeyBehind
    <3>2. CASE m \notin tasks
      <4>1. m.event = k.event /\ s = "record" /\ e = b
        BY <3>2, <2>2, <1>9
      <4>. QED
        BY <4>1, <1>7
    <3>. QED
      BY <3>1, <3>2
  <2>. QED
    BY <2>1, <2>2 DEF KeyBehind
<1>12. ASSUME NEW e \in Playbook \ deleted, failures = 0, restarts = 0, ~(embedded'[e] >= stored[e])
       PROVE  Carried(e)'
  <2>1. embedded'[e] >= embedded[e]
    BY <1>4, <1>7
  <2>2. Carried(e)
    BY <1>4, <1>6, <1>7, <1>12, <2>1
  <2>3. CASE handling.at = "enqueue" /\ handling.event.entity = e /\ handling.event.version = stored[e]
    BY <2>3, <1>3 DEF Carried
  <2>4. ASSUME NEW m \in tasks, m.event.entity = e, m.event.version = stored[e],
               m.at \in {"queued", "upsert"}
        PROVE  Carried(e)'
    <3>1. CASE m # k
      BY <3>1, <2>4, <1>3, <1>7 DEF Carried
    <3>2. CASE m = k
      <4>1. e = b /\ v = stored[e]
        BY <3>2, <2>4
      <4>2. s \in {"queued", "upsert"} /\ Moved(s) \in tasks'
        BY <4>1, <1>7, <1>12
      <4>. QED
        BY <4>1, <4>2, <1>3, <1>8 DEF Carried
    <3>. QED
      BY <3>1, <3>2
  <2>. QED
    BY <2>2, <2>3, <2>4 DEF Carried
<1>. QED
  BY <1>3, <1>10, <1>11, <1>12 DEF Owed

\* The staleness check hands every new version of a playbook to a task, and only
\* a raise or a restart between the transaction and the enqueue loses it.
LEMMA NextOwed == Sound /\ Owed /\ [Next]_vars => Owed'
<1>. SUFFICES ASSUME Sound, Owed, [Next]_vars PROVE Owed'
  OBVIOUS
<1>1. CASE \E k \in tasks : \/ DeleteEmbedding(k) \/ ForgetVersion(k)
                            \/ CheckVersion(k) \/ UpsertEmbedding(k) \/ RecordVersion(k)
                            \/ TaskFails(k)
  BY <1>1, TaskKeepsOwed
<1>2. ASSUME NEW p \in Topic, Apply(p) PROVE Owed'
  <2>. DEFINE ev == NextEvent(p)
              w == IF ev.deleted THEN 0 ELSE ev.version
  <2>1. /\ CanPoll(p) /\ UNCHANGED <<deleted, tasks, embedded, doneKey, failures, restarts>>
        /\ \/ stored' = stored
           \/ /\ stored' = [stored EXCEPT ![ev.entity] = w]
              /\ ev.entity \in Playbook => handling' = [at |-> "enqueue", event |-> ev]
    BY <1>2 DEF Apply, sourceVars, embedVars, bounds
  <2>2. ev \in Event /\ Sent(ev)
    BY <2>1, EventInTopic
  <2>3. ev.deleted => ev.entity \in deleted
    BY <2>2 DEF Sent, SentBy
  <2>4. handling.at # "enqueue"
    BY <2>1 DEF CanPoll, Idle
  <2>. SUFFICES ASSUME NEW e \in Playbook \ deleted, failures = 0, restarts = 0,
                       embedded[e] >= stored[e] \/ Carried(e)
                PROVE  embedded[e] >= stored'[e] \/ Carried(e)'
    BY <2>1 DEF Owed, KeyBehind
  <2>5. CASE stored'[e] = stored[e]
    BY <2>1, <2>4, <2>5 DEF Carried
  <2>6. CASE stored'[e] # stored[e]
    <3>1. stored \in [Entity -> Nat] /\ e \in Entity
      BY DEF Sound, TypeOK, Entity
    <3>2. stored' = [stored EXCEPT ![ev.entity] = w] /\ ev.entity = e
      BY <2>1, <2>6, <3>1
    <3>3. stored'[e] = ev.version /\ handling' = [at |-> "enqueue", event |-> ev]
      BY <2>1, <2>3, <2>6, <3>1, <3>2
    <3>. HIDE DEF ev
    <3>. QED
      BY <3>2, <3>3 DEF Carried
  <2>. QED
    BY <2>5, <2>6
<1>3. CASE Enqueue
  <2>. DEFINE new == [event |-> handling.event, at |-> "queued"]
  <2>1. /\ tasks' = tasks \cup {new} /\ handling' = [at |-> "commit"]
        /\ UNCHANGED <<deleted, stored, embedded, doneKey, failures, restarts>>
    BY <1>3 DEF Enqueue, sourceVars, bounds
  <2>2. new.event = handling.event /\ new.at = "queued"
    OBVIOUS
  <2>. HIDE DEF new
  <2>3. \A e \in Playbook : Carried(e) => Carried(e)'
    BY <2>1, <2>2 DEF Carried
  <2>4. \A e \in Playbook : KeyBehind(e) => KeyBehind(e)'
    BY <2>1, <2>2 DEF KeyBehind
  <2>5. \A m \in tasks' : m.at = "forget" => m.event.deleted
    BY <2>1, <2>2 DEF Owed
  <2>. QED
    BY <2>1, <2>3, <2>4, <2>5 DEF Owed
<1>4. CASE EnqueueFails \/ Restart
  <2>1. UNCHANGED <<deleted, tasks, embedded, doneKey>> /\ ~(failures' = 0 /\ restarts' = 0)
    BY <1>4 DEF EnqueueFails, Restart, sourceVars, embedVars, Sound, TypeOK
  <2>. QED
    BY <2>1 DEF Owed, KeyBehind
<1>5. CASE /\ UNCHANGED <<stored, tasks, embedded, doneKey, restarts>>
           /\ deleted \subseteq deleted' /\ (failures' = failures \/ failures' # 0)
           /\ handling' = handling \/ handling.at # "enqueue"
  BY <1>5 DEF Owed, KeyBehind, Carried
<1>6. ASSUME NEW e \in Entity, SaveEntity(e) \/ DeleteEntity(e) PROVE Owed'
  BY <1>5, <1>6 DEF SaveEntity, DeleteEntity, consumerVars, embedVars, bounds
<1>7. ASSUME NEW p \in Topic, ApplyFails(p) PROVE Owed'
  BY <1>5, <1>7 DEF ApplyFails, sourceVars, embedVars, Sound, TypeOK
<1>8. CASE Commit
  BY <1>5, <1>8 DEF Commit, sourceVars, embedVars, bounds
<1>9. CASE UNCHANGED vars
  BY <1>5, <1>9 DEF vars, sourceVars, consumerVars, embedVars, bounds
<1>. QED
  BY <1>1, <1>2, <1>3, <1>4, <1>6, <1>7, <1>8, <1>9 DEF Next

\* Once everything sent is consumed, and the embed tasks have run, every live rule
\* and playbook has in DB-2 what Django stored last, unless a handler raised or,
\* for the embedding, the consumer restarted.
THEOREM ConfigConverges == Spec => []Converges
<1>1. Sound /\ Followed => SnapshotConverges
  <2>. SUFFICES ASSUME Sound, Followed, Consumed, failures = 0, NEW e \in Entity \ deleted
                PROVE  stored[e] = version[e]
    BY DEF SnapshotConverges
  <2>. DEFINE p == TopicOf(e)
  <2>1. Reflected(e) /\ Logged(e)
    BY DEF Followed
  <2>2. /\ stored[e] \in Nat /\ version[e] \in Nat /\ stored[e] <= version[e]
        /\ p \in Topic
    BY TopicOfIsTopic DEF Sound, TypeOK
  <2>3. position[p] = Len(log[p])
    BY <2>2 DEF Consumed, Sound, TypeOK
  <2>. QED
    BY <2>1, <2>2, <2>3 DEF Reflected, Logged
<1>2. Sound /\ Owed /\ SnapshotConverges => EmbeddingConverges
  <2>. SUFFICES ASSUME Sound, Owed, SnapshotConverges, Consumed, tasks = {},
                       failures = 0, restarts = 0, NEW e \in Playbook \ deleted
                PROVE  embedded[e] = version[e]
    BY DEF EmbeddingConverges
  <2>1. e \in Entity /\ stored[e] = version[e]
    BY DEF SnapshotConverges, Entity
  <2>2. ~Carried(e)
    BY DEF Consumed, Idle, Carried
  <2>3. embedded[e] >= stored[e]
    BY <2>2 DEF Owed
  <2>4. embedded[e] <= version[e] /\ embedded[e] \in Nat /\ version[e] \in Nat
    BY <2>1 DEF Sound, TypeOK
  <2>. QED
    BY <2>1, <2>3, <2>4
<1>3. Sound /\ Followed /\ Owed => Converges
  BY <1>1, <1>2 DEF Converges
<1>. QED
  BY <1>3, InitSound, NextSound, InitFollowed, NextFollowed, InitOwed, NextOwed, PTL DEF Spec
=============================================================================
