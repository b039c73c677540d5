------------------------- MODULE SnapshotSync_proofs -------------------------
(***************************************************************************)
(* Theorems about SnapshotSync, for every set of incidents and every value *)
(* of the bounds: whatever Debezium, Kafka and restarts repeat, an event   *)
(* leaves its mark once, nothing below a committed offset is missing, and  *)
(* a snapshot that saw its created event first mirrors its incident.       *)
(*                                                                         *)
(* The invariants follow the events on their way: Typed and SourceTold are *)
(* about the outbox and the table it tells of, LogInOrder about the topics *)
(* (repetitions, but never a gap), Handled and ProcessedInOrder about the  *)
(* consumer, HistoryTold and SnapshotTold about what it stores.            *)
(***************************************************************************)
EXTENDS SnapshotSync, IncidentTable_proofs, FiniteSetTheorems

Typed ==
    /\ TypeOK
    /\ log \in [Topic -> Seq(1..Len(outbox))]
    /\ committed \in [Topic -> Nat]
    /\ position \in [Topic -> Nat]
    /\ \A p \in Topic : position[p] <= Len(log[p])
    /\ \A n \in 1..Len(outbox) :
           /\ outbox[n].topic = "created" => outbox[n].to = "open"
           /\ outbox[n].topic = "updated" => outbox[n].to \in Status

\* A sequence over a set is a sequence over every larger one.
LEMMA SeqWidens ==
    ASSUME NEW S, NEW T, S \subseteq T, NEW s \in Seq(S)
    PROVE  s \in Seq(T)
OBVIOUS

\* A sequence with one more element: the others stay where they are.
LEMMA AppendFacts ==
    ASSUME NEW S, NEW s \in Seq(S), NEW x \in S
    PROVE  /\ Append(s, x) \in Seq(S)
           /\ Len(s) \in Nat /\ Len(Append(s, x)) = Len(s) + 1
           /\ Append(s, x)[Len(s) + 1] = x
           /\ \A k \in 1..Len(s) : Append(s, x)[k] = s[k] /\ s[k] \in S
OBVIOUS

\* Types of the pieces an argument about one message needs.
LEMMA EventFacts ==
    ASSUME Typed, NEW n \in 1..Len(outbox)
    PROVE  /\ outbox[n] \in Event
           /\ outbox[n].id \in IncidentId
           /\ outbox[n].topic \in Written
           /\ outbox[n].count \in Nat
<1>1. outbox[n] \in Event
  BY DEF Typed, TypeOK
<1>. QED
  BY <1>1 DEF Event

\* One transaction of a writer: an event about the incident it wrote, at the end
\* of the outbox, and nothing downstream.
LEMMA WriterStep ==
    ASSUME Typed, NEW i \in IncidentId,
           CreateIncident(i) \/ RecordOccurrence(i) \/ UpdateIncident(i)
    PROVE  /\ table' \in Table /\ Live(table', i)
           /\ \A j \in IncidentId \ {i} : table'[j] = table[j]
           /\ UNCHANGED <<published, log, committed, position, inHand, processed, snapshot,
                          history, lost, rewinds, restarts>>
           /\ \E ev \in Event :
                  /\ outbox' = Append(outbox, ev) /\ ev.id = i
                  /\ \/ /\ ev.topic = "created" /\ ev.to = "open"
                        /\ table[i] = Unissued /\ table'[i].status = "open"
                     \/ /\ ev.topic = "duplicate_recorded"
                        /\ Live(table, i) /\ table'[i].status = table[i].status
                     \/ /\ ev.topic = "updated" /\ ev.to \in Status
                        /\ Live(table, i) /\ table'[i].status = ev.to
<1>1. table \in Table
  BY DEF Typed, TypeOK
<1>2. CASE CreateIncident(i)
  <2>1. PICK f \in Fingerprint, key \in Log : Open(i, f, key)
    BY <1>2 DEF CreateIncident
  <2>2. table' = [table EXCEPT ![i] = NewIncident(f, key)] /\ table[i] = Unissued
    BY <2>1 DEF Open
  <2>3. NewIncident(f, key) \in Row /\ NewIncident(f, key).status = "open"
    BY NewIncidentIsRow
  <2>4. /\ table' \in Table /\ table'[i] = NewIncident(f, key)
        /\ \A j \in IncidentId \ {i} : table'[j] = table[j]
    BY <1>1, <2>2, <2>3 DEF Table
  <2>5. Live(table', i) /\ table'[i].status = "open"
    BY <2>3, <2>4 DEF Live, Status
  <2>. DEFINE ev == [topic |-> "created", id |-> i, count |-> 1,
                     from |-> "none", to |-> "open", names |-> "nobody"]
  <2>6. outbox' = Append(outbox, ev)
        /\ UNCHANGED <<published, log, committed, position, inHand, processed, snapshot,
                       history, lost, rewinds, restarts>>
    BY <1>2 DEF CreateIncident, Emit, kafkaVars, storeVars
  <2>7. ev \in Event /\ ev.id = i /\ ev.topic = "created" /\ ev.to = "open"
    BY DEF Event, Names, Written, Status
  <2>. HIDE DEF ev
  <2>. QED
    BY <2>2, <2>4, <2>5, <2>6, <2>7
<1>3. CASE RecordOccurrence(i)
  <2>1. PICK key \in Log : Absorb(i, key)
    BY <1>3 DEF RecordOccurrence
  <2>2. table' = [table EXCEPT ![i] = WithOccurrence(table[i], key)] /\ Live(table, i)
    BY <2>1 DEF Absorb
  <2>3. table[i] \in Row
    BY <1>1, <2>2, LiveIsRow
  <2>4. /\ WithOccurrence(table[i], key) \in Row
        /\ WithOccurrence(table[i], key).status = table[i].status
    BY <2>3, WithOccurrenceIsRow
  <2>5. /\ table' \in Table /\ table'[i] = WithOccurrence(table[i], key)
        /\ \A j \in IncidentId \ {i} : table'[j] = table[j]
    BY <1>1, <2>2, <2>4 DEF Table
  <2>6. Live(table', i) /\ table'[i].status = table[i].status
    BY <2>2, <2>4, <2>5 DEF Live
  <2>. DEFINE ev == [topic |-> "duplicate_recorded", id |-> i, count |-> table[i].count + 1,
                     from |-> "none", to |-> "none", names |-> "nobody"]
  <2>7. outbox' = Append(outbox, ev)
        /\ UNCHANGED <<published, log, committed, position, inHand, processed, snapshot,
                       history, lost, rewinds, restarts>>
    BY <1>3 DEF RecordOccurrence, Emit, kafkaVars, storeVars
  <2>8. ev \in Event /\ ev.id = i /\ ev.topic = "duplicate_recorded"
    BY <2>3 DEF Event, Names, Written, Status, Row
  <2>. HIDE DEF ev
  <2>. QED
    BY <2>2, <2>5, <2>6, <2>7, <2>8
<1>4. CASE UpdateIncident(i)
  <2>1. PICK s \in Status, names \in Names :
            /\ SetStatus(i, s)
            /\ Emit("updated", i, 0, table[i].status, s, names)
    BY <1>4 DEF UpdateIncident
  <2>2. table' = [table EXCEPT ![i] = WithStatus(table[i], s)] /\ Live(table, i)
    BY <2>1 DEF SetStatus
  <2>3. table[i] \in Row
    BY <1>1, <2>2, LiveIsRow
  <2>4. WithStatus(table[i], s) \in Row /\ WithStatus(table[i], s).status = s
    BY <2>3, WithStatusIsRow
  <2>5. /\ table' \in Table /\ table'[i] = WithStatus(table[i], s)
        /\ \A j \in IncidentId \ {i} : table'[j] = table[j]
    BY <1>1, <2>2, <2>4 DEF Table
  <2>6. Live(table', i) /\ table'[i].status = s
    BY <2>4, <2>5 DEF Live
  <2>. DEFINE ev == [topic |-> "updated", id |-> i, count |-> 0,
                     from |-> table[i].status, to |-> s, names |-> names]
  <2>7. outbox' = Append(outbox, ev)
        /\ UNCHANGED <<published, log, committed, position, inHand, processed, snapshot,
                       history, lost, rewinds, restarts>>
    BY <2>1 DEF Emit, kafkaVars, storeVars
  <2>8. ev \in Event /\ ev.id = i /\ ev.topic = "updated" /\ ev.to = s
    BY <2>2 DEF Event, Written, Live
  <2>. HIDE DEF ev
  <2>. QED
    BY <2>2, <2>5, <2>6, <2>7, <2>8
<1>. QED
  BY <1>2, <1>3, <1>4

\* One message handled: a repetition, the whole transaction, or a transaction that
\* a caught error rolled back.
LEMMA ConsumeStep ==
    ASSUME Typed, NEW p \in TOPICS, Consume(p)
    PROVE  LET n == log[p][position[p] + 1]
           IN  /\ p \in Topic /\ inHand = "none" /\ inHand' = p
               /\ position[p] + 1 \in 1..Len(log[p]) /\ n \in 1..Len(outbox)
               /\ position' = [position EXCEPT ![p] = position[p] + 1]
               /\ UNCHANGED <<table, outbox, published, log, committed, rewinds, restarts>>
               /\ \/ IsProcessed(n) /\ UNCHANGED <<processed, snapshot, history, lost>>
                  \/ /\ ~IsProcessed(n) /\ processed' = Append(processed, n)
                     /\ Handler(n) /\ lost' = lost
                  \/ /\ ~IsProcessed(n) /\ lost' = lost \cup {n}
                     /\ UNCHANGED <<processed, snapshot, history>>
<1>. DEFINE n == log[p][position[p] + 1]
<1>1. p \in Topic /\ log[p] \in Seq(1..Len(outbox)) /\ position[p] \in Nat
  BY DEF Topic, Typed
<1>2. position[p] + 1 \in 1..Len(log[p])
  BY <1>1 DEF Consume, NextMessage
<1>3. n \in 1..Len(outbox)
  BY <1>1, <1>2
<1>4. /\ inHand = "none" /\ inHand' = p /\ Store(n)
      /\ position' = [position EXCEPT ![p] = position[p] + 1]
      /\ UNCHANGED <<table, outbox, published, log, committed, rewinds, restarts>>
  BY DEF Consume, NextMessage, sourceVars, kafkaVars
<1>5. \/ IsProcessed(n) /\ UNCHANGED <<processed, snapshot, history, lost>>
      \/ ~IsProcessed(n) /\ processed' = Append(processed, n) /\ Handler(n) /\ lost' = lost
      \/ /\ ~IsProcessed(n) /\ lost' = lost \cup {n}
         /\ UNCHANGED <<processed, snapshot, history>>
  BY <1>4 DEF Store, storeVars
<1>. QED
  BY <1>1, <1>2, <1>3, <1>4, <1>5

-----------------------------------------------------------------------------
\* What a handler writes has the type of its table, and which rows it touches.
LEMMA HandlerWrites ==
    ASSUME Typed, NEW n \in 1..Len(outbox), Handler(n)
    PROVE  LET e == outbox[n]
           IN  /\ snapshot' \in [IncidentId -> Snapshot \cup {NoSnapshot}]
               /\ \A i \in IncidentId \ {e.id} : snapshot'[i] = snapshot[i]
               /\ e.topic = "created" => snapshot'[e.id] # NoSnapshot /\ snapshot'[e.id].status = "open"
               /\ e.topic = "updated" /\ snapshot[e.id] # NoSnapshot =>
                      snapshot'[e.id] # NoSnapshot /\ snapshot'[e.id].status = e.to
               /\ \/ history' = history /\ ~(e.topic = "updated" /\ MovesStatus(e))
                  \/ /\ e.topic = "updated" /\ MovesStatus(e)
                     /\ \E h \in [event : 1..Len(outbox), posted : BOOLEAN] :
                            h.event = n /\ history' = Append(history, h)
<1>. DEFINE e == outbox[n]
            i == e.id
<1>1. /\ e \in Event /\ i \in IncidentId /\ e.topic \in Written /\ e.count \in Nat
      /\ e.topic = "created" => e.to = "open"
      /\ e.topic = "updated" => e.to \in Status
  BY EventFacts DEF Typed
<1>2. snapshot \in [IncidentId -> Snapshot \cup {NoSnapshot}]
  BY DEF Typed, TypeOK
<1>3. \A r \in Snapshot : r # NoSnapshot
  BY DEF Snapshot, NoSnapshot, Status
<1>4. CASE e.topic = "created"
  <2>. DEFINE r == [status |-> e.to, count |-> e.count]
  <2>1. snapshot' = [snapshot EXCEPT ![i] = r] /\ history' = history
    BY <1>4 DEF Handler, Created
  <2>2. r \in Snapshot /\ r.status = "open"
    BY <1>1, <1>4 DEF Snapshot, Status
  <2>. HIDE DEF r
  <2>. QED
    BY <1>1, <1>2, <1>3, <1>4, <2>1, <2>2
<1>5. CASE e.topic = "duplicate_recorded"
  <2>. DEFINE r == [snapshot[i] EXCEPT !.count = e.count]
  <2>1. /\ snapshot' = IF snapshot[i] = NoSnapshot THEN snapshot
                       ELSE [snapshot EXCEPT ![i] = r]
        /\ history' = history
    BY <1>5 DEF Handler, Duplicate
  <2>2. snapshot[i] # NoSnapshot => r \in Snapshot
    BY <1>1, <1>2 DEF Snapshot
  <2>. HIDE DEF r
  <2>. QED
    BY <1>1, <1>2, <1>5, <2>1, <2>2
<1>6. CASE e.topic = "updated"
  <2>. DEFINE r == [snapshot[i] EXCEPT !.status = e.to]
              h == [event |-> n, posted |-> snapshot[i] # NoSnapshot]
  <2>1. /\ snapshot' = IF snapshot[i] = NoSnapshot THEN snapshot
                       ELSE [snapshot EXCEPT ![i] = r]
        /\ history' = IF MovesStatus(e) THEN Append(history, h) ELSE history
    BY <1>6 DEF Handler, Updated
  <2>2. snapshot[i] # NoSnapshot => r \in Snapshot /\ r.status = e.to
    BY <1>1, <1>2, <1>6 DEF Snapshot
  <2>3. h \in [event : 1..Len(outbox), posted : BOOLEAN] /\ h.event = n
    OBVIOUS
  <2>. HIDE DEF r, h
  <2>. QED
    BY <1>1, <1>2, <1>3, <1>6, <2>1, <2>2, <2>3
<1>. QED
  BY <1>1, <1>4, <1>5, <1>6 DEF Written

LEMMA InitTyped == Init => Typed
<1>. SUFFICES ASSUME Init PROVE Typed
  OBVIOUS
<1>1. table \in Table
  BY DEF Init, LedgerInit, EmptyTable, Table
<1>2. /\ outbox = << >> /\ Len(outbox) = 0 /\ processed = << >> /\ history = << >>
      /\ log = [p \in Topic |-> << >>]
  BY DEF Init
<1>3. log \in [Topic -> Seq(1..Len(outbox))] /\ \A p \in Topic : Len(log[p]) = 0
  BY <1>2
<1>4. snapshot \in [IncidentId -> Snapshot \cup {NoSnapshot}]
  BY DEF Init
<1>5. /\ committed \in [Topic -> Nat] /\ position \in [Topic -> Nat]
      /\ \A p \in Topic : committed[p] = 0 /\ position[p] = 0
  BY DEF Init
<1>6. inHand = "none" /\ \A p \in Topic : p # "none"
  BY DEF Init, Topic, TOPICS, Written
<1>7. /\ published \in 0..Len(outbox) /\ lost = {} /\ rewinds \in 0..MaxRewinds
      /\ restarts \in 0..MaxRestarts
  BY <1>2, SnapshotAssumption DEF Init
<1>8. outbox \in Seq(Event) /\ processed \in Seq(1..Len(outbox))
      /\ history \in Seq([event : 1..Len(outbox), posted : BOOLEAN])
  BY <1>2
<1>. QED
  BY <1>1, <1>2, <1>3, <1>4, <1>5, <1>6, <1>7, <1>8 DEF Typed, TypeOK

LEMMA NextTyped == Typed /\ [Next]_vars => Typed'
<1>. SUFFICES ASSUME Typed, [Next]_vars PROVE Typed'
  OBVIOUS
<1>. USE SnapshotAssumption
<1>. DEFINE N == 1..Len(outbox)
            H == [event : N, posted : BOOLEAN]
<1>t. /\ outbox \in Seq(Event) /\ Len(outbox) \in Nat /\ published \in 0..Len(outbox)
      /\ log \in [Topic -> Seq(N)] /\ committed \in [Topic -> Nat]
      /\ position \in [Topic -> Nat] /\ processed \in Seq(N) /\ history \in Seq(H)
      /\ lost \subseteq N /\ inHand \in TOPICS \cup {"none"}
      /\ \A p \in Topic : /\ committed[p] \in 0..Len(log[p])
                          /\ position[p] = committed[p] + (IF inHand = p THEN 1 ELSE 0)
                          /\ Len(log[p]) \in Nat /\ position[p] <= Len(log[p])
  BY DEF Typed, TypeOK
<1>p. /\ committed \in [Topic -> Nat] /\ position \in [Topic -> Nat]
      /\ \A p \in Topic : /\ committed[p] \in 0..Len(log[p])
                          /\ position[p] = committed[p] + (IF inHand = p THEN 1 ELSE 0)
                          /\ Len(log[p]) \in Nat /\ position[p] <= Len(log[p])
  BY <1>t
<1>u. ASSUME UNCHANGED <<table, outbox, log, processed, snapshot, history, lost>>,
             published' \in 0..Len(outbox), rewinds' \in 0..MaxRewinds,
             restarts' \in 0..MaxRestarts,
             inHand' \in TOPICS \cup {"none"},
             committed' \in [Topic -> Nat], position' \in [Topic -> Nat],
             \A q \in Topic :
                 /\ committed'[q] \in 0..Len(log[q]) /\ position'[q] <= Len(log[q])
                 /\ position'[q] = committed'[q] + (IF inHand' = q THEN 1 ELSE 0)
      PROVE  Typed'
  <2>1. TypeOK'
    BY <1>u DEF Typed, TypeOK
  <2>. QED
    BY <1>u, <2>1 DEF Typed
<1>1. ASSUME NEW i \in IncidentId,
             CreateIncident(i) \/ RecordOccurrence(i) \/ UpdateIncident(i)
      PROVE  Typed'
  <2>1. PICK ev \in Event :
            /\ outbox' = Append(outbox, ev)
            /\ ev.topic = "created" => ev.to = "open"
            /\ ev.topic = "updated" => ev.to \in Status
    BY <1>1, WriterStep
  <2>2. /\ table' \in Table
        /\ UNCHANGED <<published, log, committed, position, inHand, processed, snapshot,
                       history, lost, rewinds, restarts>>
    BY <1>1, WriterStep
  <2>3. /\ outbox' \in Seq(Event) /\ Len(outbox') = Len(outbox) + 1
        /\ outbox'[Len(outbox) + 1] = ev
        /\ \A k \in N : outbox'[k] = outbox[k]
    BY <1>t, <2>1, AppendFacts
  <2>. DEFINE N2 == 1..Len(outbox')
  <2>4. N \subseteq N2
    BY <1>t, <2>3
  <2>5. \A p \in Topic : log[p] \in Seq(N2)
    BY <1>t, <2>4, SeqWidens
  <2>6. H \subseteq [event : N2, posted : BOOLEAN]
    BY <2>4
  <2>7. processed \in Seq(N2) /\ history \in Seq([event : N2, posted : BOOLEAN])
    BY <1>t, <2>4, <2>6, SeqWidens
  <2>8. \A n \in N2 : /\ outbox'[n].topic = "created" => outbox'[n].to = "open"
                      /\ outbox'[n].topic = "updated" => outbox'[n].to \in Status
    <3>1. \A n \in N2 : n \in N \/ n = Len(outbox) + 1
      BY <1>t, <2>3
    <3>. QED
      BY <3>1, <2>1, <2>3 DEF Typed
  <2>9. published' \in 0..Len(outbox') /\ lost' \subseteq N2
    BY <1>t, <2>2, <2>3
  <2>10. log' \in [Topic -> Seq(N2)]
    BY <1>t, <2>2, <2>5
  <2>. QED
    BY <2>2, <2>3, <2>5, <2>7, <2>8, <2>9, <2>10 DEF Typed, TypeOK
<1>2. CASE Publish
  <2>. DEFINE q == outbox[published + 1].topic
  <2>1. /\ published + 1 \in N /\ published' = published + 1
        /\ log' = [log EXCEPT ![q] = Append(log[q], published + 1)]
        /\ UNCHANGED <<table, outbox, committed, position, inHand, processed, snapshot,
                       history, lost, rewinds, restarts>>
    BY <1>2, <1>t DEF Publish, sourceVars, storeVars
  <2>2. q \in Topic
    BY <2>1, EventFacts DEF Topic
  <2>. HIDE DEF q
  <2>3. /\ Append(log[q], published + 1) \in Seq(N)
        /\ Len(Append(log[q], published + 1)) = Len(log[q]) + 1
    BY <1>t, <2>1, <2>2, AppendFacts
  <2>4. log' \in [Topic -> Seq(N)] /\ \A p \in Topic : Len(log'[p]) >= Len(log[p]) /\ Len(log'[p]) \in Nat
    BY <1>t, <2>1, <2>2, <2>3
  <2>5. \A p \in Topic : committed[p] \in 0..Len(log'[p]) /\ position[p] <= Len(log'[p])
    BY <1>t, <2>4
  <2>6. \A p \in Topic : log'[p] \in Seq(N)
    BY <2>4
  <2>7. published' \in 0..Len(outbox)
    BY <1>t, <2>1
  <2>. QED
    BY <2>1, <2>4, <2>5, <2>6, <2>7 DEF Typed, TypeOK
<1>3. CASE ConnectorRestart
  <2>1. /\ UNCHANGED <<table, outbox, log, committed, position, inHand, processed, snapshot,
                       history, lost, restarts>>
        /\ rewinds < MaxRewinds /\ rewinds' = rewinds + 1 /\ published' \in 0..(published - 1)
    BY <1>3 DEF ConnectorRestart, sourceVars, storeVars
  <2>2. rewinds \in 0..MaxRewinds /\ restarts \in 0..MaxRestarts
    BY DEF Typed, TypeOK
  <2>3. published' \in 0..Len(outbox)
    <3>1. published \in 0..Len(outbox) /\ Len(outbox) \in Nat
      BY <1>t, Zenon
    <3>. QED
      BY <2>1, <3>1
  <2>4. rewinds' \in 0..MaxRewinds /\ restarts' \in 0..MaxRestarts
    BY <2>1, <2>2
  <2>5. \A q \in Topic :
            /\ committed'[q] \in 0..Len(log[q]) /\ position'[q] <= Len(log[q])
            /\ position'[q] = committed'[q] + (IF inHand' = q THEN 1 ELSE 0)
    BY <1>p, <2>1
  <2>. QED
    BY <1>t, <1>u, <2>1, <2>3, <2>4, <2>5, Zenon
<1>4. ASSUME NEW p \in TOPICS, Consume(p) PROVE Typed'
  <2>. DEFINE n == log[p][position[p] + 1]
  <2>1. /\ p \in Topic /\ inHand = "none" /\ inHand' = p
        /\ position[p] + 1 \in 1..Len(log[p]) /\ n \in N
        /\ position' = [position EXCEPT ![p] = position[p] + 1]
        /\ UNCHANGED <<table, outbox, published, log, committed, rewinds, restarts>>
        /\ \/ IsProcessed(n) /\ UNCHANGED <<processed, snapshot, history, lost>>
           \/ /\ ~IsProcessed(n) /\ processed' = Append(processed, n)
              /\ Handler(n) /\ lost' = lost
           \/ /\ ~IsProcessed(n) /\ lost' = lost \cup {n}
              /\ UNCHANGED <<processed, snapshot, history>>
    BY <1>4, ConsumeStep
  <2>. HIDE DEF n
  <2>2. p # "none" /\ \A q \in Topic : q # "none"
    BY DEF TOPICS, Topic, Written
  <2>3. /\ position' \in [Topic -> Nat]
        /\ \A q \in Topic : /\ position'[q] = committed[q] + (IF p = q THEN 1 ELSE 0)
                            /\ position'[q] <= Len(log[q])
    <3>a. /\ p \in Topic /\ position' = [position EXCEPT ![p] = position[p] + 1]
          /\ position[p] + 1 \in 1..Len(log[p])
      BY <2>1, Zenon
    <3>b. inHand = "none"
      BY <2>1, Zenon
    <3>1. position' \in [Topic -> Nat]
      BY <1>p, <3>a
    <3>2. ASSUME NEW q \in Topic
          PROVE  /\ position'[q] = committed[q] + (IF p = q THEN 1 ELSE 0)
                 /\ position'[q] <= Len(log[q])
      <4>1. committed[q] \in Nat /\ position[q] = committed[q] /\ position[q] <= Len(log[q])
        BY <1>p, <2>2, <3>b
      <4>2. position'[q] = IF p = q THEN position[q] + 1 ELSE position[q]
        BY <1>p, <3>a
      <4>3. p = q => position[q] + 1 <= Len(log[q])
        BY <3>a
      <4>4. Len(log[q]) \in Nat
        BY <1>p
      <4>. QED
        BY <4>1, <4>2, <4>3, <4>4
    <3>. QED
      BY <3>1, <3>2
  <2>4. Handler(n) => /\ snapshot' \in [IncidentId -> Snapshot \cup {NoSnapshot}]
                      /\ history' \in Seq(H)
    <3>1. Handler(n) => /\ snapshot' \in [IncidentId -> Snapshot \cup {NoSnapshot}]
                        /\ history' = history \/ \E h \in H : history' = Append(history, h)
      BY <2>1, HandlerWrites
    <3>. HIDE DEF H
    <3>2. \A h \in H : Append(history, h) \in Seq(H)
      BY <1>t, AppendFacts
    <3>. QED
      BY <1>t, <3>1, <3>2
  <2>5. Append(processed, n) \in Seq(N)
    BY <1>t, <2>1, AppendFacts
  <2>6. /\ snapshot \in [IncidentId -> Snapshot \cup {NoSnapshot}]
    BY DEF Typed, TypeOK
  <2>7. /\ processed' \in Seq(N) /\ history' \in Seq(H) /\ lost' \subseteq N
        /\ snapshot' \in [IncidentId -> Snapshot \cup {NoSnapshot}]
    BY <1>t, <2>1, <2>4, <2>5, <2>6
  <2>. QED
    BY <1>t, <2>1, <2>3, <2>7 DEF Typed, TypeOK
<1>5. CASE CommitOffset
  <2>1. /\ inHand \in TOPICS /\ inHand \in Topic /\ inHand' = "none"
        /\ committed' = [committed EXCEPT ![inHand] = position[inHand]]
        /\ UNCHANGED <<table, outbox, published, log, position, processed, snapshot,
                       history, lost, rewinds, restarts>>
    BY <1>5, <1>t DEF CommitOffset, sourceVars, kafkaVars, storeVars, Topic
  <2>2. \A q \in Topic : q # "none"
    BY DEF TOPICS, Topic, Written
  <2>3. position[inHand] \in 0..Len(log[inHand])
    BY <2>1, <1>t
  <2>4. ASSUME NEW q \in Topic
        PROVE  /\ committed'[q] \in 0..Len(log[q]) /\ position[q] <= Len(log[q])
               /\ position[q] = committed'[q] + (IF inHand' = q THEN 1 ELSE 0)
    <3>a. committed' = [committed EXCEPT ![inHand] = position[inHand]] /\ inHand' = "none"
      BY <2>1, Zenon
    <3>1. CASE q = inHand
      BY <1>p, <2>2, <2>3, <3>1, <3>a
    <3>2. CASE q # inHand
      <4>1. committed'[q] = committed[q] /\ position[q] = committed[q]
        BY <1>p, <3>2, <3>a
      <4>. QED
        BY <1>p, <2>2, <3>a, <4>1
    <3>. QED
      BY <3>1, <3>2
  <2>5. committed' \in [Topic -> Nat] /\ position' \in [Topic -> Nat]
    BY <1>t, <2>1, <2>3
  <2>6. published' \in 0..Len(outbox) /\ rewinds' \in 0..MaxRewinds /\ restarts' \in 0..MaxRestarts
    BY <1>t, <2>1 DEF Typed, TypeOK
  <2>. QED
    BY <1>u, <2>1, <2>4, <2>5, <2>6
<1>6. CASE Restart
  <2>1. \A q \in Topic : q # "none"
    BY DEF TOPICS, Topic, Written
  <2>2. /\ UNCHANGED <<table, outbox, log, processed, snapshot, history, lost, published, committed, rewinds>>
        /\ inHand' = "none" /\ position' = committed
    BY <1>6 DEF Restart, sourceVars, kafkaVars, storeVars
  <2>3. published' \in 0..Len(outbox) /\ rewinds' \in 0..MaxRewinds /\ restarts' \in 0..MaxRestarts
    BY <1>6, <2>2 DEF Restart, Typed, TypeOK
  <2>4. \A q \in Topic :
            /\ committed'[q] \in 0..Len(log[q]) /\ position'[q] <= Len(log[q])
            /\ position'[q] = committed'[q] + (IF inHand' = q THEN 1 ELSE 0)
    BY <1>p, <2>1, <2>2
  <2>5. committed' \in [Topic -> Nat] /\ position' \in [Topic -> Nat] /\ inHand' \in TOPICS \cup {"none"}
    BY <1>p, <2>2
  <2>. QED
    BY <1>u, <2>2, <2>3, <2>4, <2>5, Zenon
<1>7. CASE UNCHANGED vars
  BY <1>7 DEF vars, sourceVars, kafkaVars, storeVars, Typed, TypeOK
<1>. QED
  BY <1>1, <1>2, <1>3, <1>4, <1>5, <1>6, <1>7 DEF Next

\* The type invariant holds in every reachable state.
LEMMA AlwaysTyped == Spec => []Typed
BY InitTyped, NextTyped, PTL DEF Spec

-----------------------------------------------------------------------------
(* The outbox tells of the table *)

SetsStatus(e, i) == e.id = i /\ e.topic \in {"created", "updated"}

\* The created event of an incident is its first, and the last event that sets its
\* status has the status of its row.
SourceTold ==
    /\ \A n \in 1..Len(outbox) : Live(table, outbox[n].id)
    /\ \A m, n \in 1..Len(outbox) :
           outbox[n].topic = "created" /\ outbox[m].id = outbox[n].id => n <= m
    /\ \A i \in IncidentId : Live(table, i) =>
           \E n \in 1..Len(outbox) :
               /\ SetsStatus(outbox[n], i) /\ outbox[n].to = table[i].status
               /\ \A m \in 1..Len(outbox) : SetsStatus(outbox[m], i) => m <= n

LEMMA InitSourceTold == Init => SourceTold
BY DEF Init, LedgerInit, EmptyTable, SourceTold, Live, Unissued, Status

\* A writer's transaction leaves the earlier rows of the outbox alone.
LEMMA WriterKeeps ==
    ASSUME Typed, NEW i \in IncidentId,
           CreateIncident(i) \/ RecordOccurrence(i) \/ UpdateIncident(i)
    PROVE  /\ Len(outbox) \in Nat /\ Len(outbox') = Len(outbox) + 1
           /\ \A n \in 1..Len(outbox) : outbox'[n] = outbox[n]
           /\ UNCHANGED <<published, log, committed, position, inHand, processed, snapshot,
                          history, lost, rewinds, restarts>>
<1>1. PICK ev \in Event : outbox' = Append(outbox, ev)
  BY WriterStep
<1>2. outbox \in Seq(Event)
  BY DEF Typed, TypeOK
<1>3. /\ Len(outbox) \in Nat /\ Len(outbox') = Len(outbox) + 1
      /\ \A n \in 1..Len(outbox) : outbox'[n] = outbox[n]
  BY <1>1, <1>2, AppendFacts
<1>. QED
  BY <1>3, WriterStep

LEMMA NextSourceTold == Typed /\ SourceTold /\ [Next]_vars => SourceTold'
<1>. SUFFICES ASSUME Typed, SourceTold, [Next]_vars PROVE SourceTold'
  OBVIOUS
<1>1. ASSUME NEW i \in IncidentId,
             CreateIncident(i) \/ RecordOccurrence(i) \/ UpdateIncident(i)
      PROVE  SourceTold'
  <2>. DEFINE last == Len(outbox) + 1
  <2>1. PICK ev \in Event :
            /\ outbox' = Append(outbox, ev) /\ ev.id = i
            /\ \/ /\ ev.topic = "created" /\ ev.to = "open"
                  /\ table[i] = Unissued /\ table'[i].status = "open"
               \/ /\ ev.topic = "duplicate_recorded"
                  /\ Live(table, i) /\ table'[i].status = table[i].status
               \/ /\ ev.topic = "updated" /\ ev.to \in Status
                  /\ Live(table, i) /\ table'[i].status = ev.to
    BY <1>1, WriterStep
  <2>2. /\ Live(table', i)
        /\ \A j \in IncidentId \ {i} : table'[j] = table[j]
    BY <1>1, WriterStep
  <2>3. /\ Len(outbox) \in Nat /\ Len(outbox') = last
        /\ \A n \in 1..Len(outbox) : outbox'[n] = outbox[n]
        /\ outbox'[last] = ev
    <3>1. outbox \in Seq(Event)
      BY DEF Typed, TypeOK
    <3>. QED
      BY <2>1, <3>1, AppendFacts
  <2>4. \A n \in 1..Len(outbox) : outbox[n].id \in IncidentId /\ Live(table, outbox[n].id)
    BY EventFacts DEF SourceTold
  <2>5. \A n \in 1..Len(outbox') : n \in 1..Len(outbox) \/ n = last
    BY <2>3
  <2>. HIDE DEF last
  <2>6. \A n \in 1..Len(outbox') : Live(table', outbox'[n].id)
    BY <2>1, <2>2, <2>3, <2>4, <2>5 DEF Live
  <2>7. ASSUME NEW m \in 1..Len(outbox'), NEW n \in 1..Len(outbox'),
               outbox'[n].topic = "created", outbox'[m].id = outbox'[n].id
        PROVE  n <= m
    <3>1. CASE n \in 1..Len(outbox)
      <4>1. m \in 1..Len(outbox) => n <= m
        BY <3>1, <2>3, <2>7 DEF SourceTold
      <4>. QED
        BY <4>1, <3>1, <2>3, <2>5 DEF last
    <3>2. CASE n = last
      <4>1. table[i] = Unissued /\ outbox'[m].id = i
        BY <3>2, <2>1, <2>3, <2>7
      <4>2. ~Live(table, i)
        BY <4>1 DEF Live, Unissued, Status
      <4>3. m \notin 1..Len(outbox)
        BY <4>1, <4>2, <2>3, <2>4
      <4>. QED
        BY <4>3, <3>2, <2>5
    <3>. QED
      BY <3>1, <3>2, <2>5
  <2>8. ASSUME NEW j \in IncidentId, Live(table', j)
        PROVE  \E n \in 1..Len(outbox') :
                   /\ SetsStatus(outbox'[n], j) /\ outbox'[n].to = table'[j].status
                   /\ \A m \in 1..Len(outbox') : SetsStatus(outbox'[m], j) => m <= n
    <3>0. \A m \in 1..Len(outbox) : SetsStatus(outbox'[m], j) <=> SetsStatus(outbox[m], j)
      BY <2>3 DEF SetsStatus
    <3>1. CASE j = i /\ ev.topic # "duplicate_recorded"
      <4>1. SetsStatus(outbox'[last], j) /\ outbox'[last].to = table'[j].status /\ last \in 1..Len(outbox')
        BY <3>1, <2>1, <2>3 DEF SetsStatus, last
      <4>2. \A m \in 1..Len(outbox') : m <= last
        BY <2>3 DEF last
      <4>. QED
        BY <4>1, <4>2
    <3>2. CASE j # i \/ ev.topic = "duplicate_recorded"
      <4>1. ~SetsStatus(outbox'[last], j)
        BY <3>2, <2>1, <2>3 DEF SetsStatus
      <4>2. Live(table, j) /\ table'[j].status = table[j].status
        BY <3>2, <2>1, <2>2, <2>8 DEF Live
      <4>3. PICK n \in 1..Len(outbox) :
                /\ SetsStatus(outbox[n], j) /\ outbox[n].to = table[j].status
                /\ \A m \in 1..Len(outbox) : SetsStatus(outbox[m], j) => m <= n
        BY <4>2 DEF SourceTold
      <4>4. n \in 1..Len(outbox') /\ SetsStatus(outbox'[n], j) /\ outbox'[n].to = table'[j].status
        BY <4>2, <4>3, <3>0, <2>3 DEF last
      <4>5. \A m \in 1..Len(outbox') : SetsStatus(outbox'[m], j) => m <= n
        BY <4>1, <4>3, <3>0, <2>5
      <4>. QED
        BY <4>4, <4>5
    <3>. QED
      BY <3>1, <3>2
  <2>. QED
    BY <2>6, <2>7, <2>8 DEF SourceTold
<1>2. CASE UNCHANGED <<table, outbox>>
  BY <1>2 DEF SourceTold, SetsStatus
<1>3. UNCHANGED <<table, outbox>>
      \/ \E i \in IncidentId : CreateIncident(i) \/ RecordOccurrence(i) \/ UpdateIncident(i)
  BY DEF Next, vars, sourceVars, Publish, ConnectorRestart, Consume, CommitOffset, Restart
<1>. QED
  BY <1>1, <1>2, <1>3

-----------------------------------------------------------------------------
(* Debezium repeats events but leaves no gap *)

\* The events of a topic are of that topic, and before an event the topic has every
\* earlier event of the kind; what Debezium has passed is in its topic.
LogInOrder ==
    /\ \A p \in Topic : \A k \in 1..Len(log[p]) :
           /\ outbox[log[p][k]].topic = p
           /\ \A n \in 1..(log[p][k] - 1) :
                  outbox[n].topic = p => \E j \in 1..(k - 1) : log[p][j] = n
    /\ \A n \in 1..published : \E k \in 1..Len(log[outbox[n].topic]) : log[outbox[n].topic][k] = n

LEMMA InitLogInOrder == Init => LogInOrder
<1>. SUFFICES ASSUME Init PROVE LogInOrder
  OBVIOUS
<1>1. published = 0 /\ \A p \in Topic : Len(log[p]) = 0
  BY DEF Init
<1>. QED
  BY <1>1 DEF LogInOrder

LEMMA NextLogInOrder == Typed /\ LogInOrder /\ [Next]_vars => LogInOrder'
<1>. SUFFICES ASSUME Typed, LogInOrder, [Next]_vars PROVE LogInOrder'
  OBVIOUS
<1>t. /\ Len(outbox) \in Nat /\ published \in 0..Len(outbox)
      /\ log \in [Topic -> Seq(1..Len(outbox))]
      /\ \A n \in 1..Len(outbox) : outbox[n].topic \in Topic
  <2>1. outbox \in Seq(Event) /\ published \in 0..Len(outbox)
    BY DEF Typed, TypeOK
  <2>2. log \in [Topic -> Seq(1..Len(outbox))]
    BY DEF Typed
  <2>3. \A n \in 1..Len(outbox) : outbox[n].topic \in Topic
    BY EventFacts DEF Topic
  <2>. QED
    BY <2>1, <2>2, <2>3
<1>e. \A p \in Topic : /\ Len(log[p]) \in Nat
                      /\ \A k \in 1..Len(log[p]) : log[p][k] \in 1..Len(outbox)
  BY <1>t
<1>1. ASSUME NEW i \in IncidentId,
             CreateIncident(i) \/ RecordOccurrence(i) \/ UpdateIncident(i)
      PROVE  LogInOrder'
  <2>1. /\ \A n \in 1..Len(outbox) : outbox'[n] = outbox[n]
        /\ UNCHANGED <<published, log>>
    BY <1>1, WriterKeeps
  <2>2. ASSUME NEW p \in Topic, NEW k \in 1..Len(log[p])
        PROVE  /\ outbox'[log[p][k]].topic = p
               /\ \A n \in 1..(log[p][k] - 1) :
                      outbox'[n].topic = p => \E j \in 1..(k - 1) : log[p][j] = n
    <3>1. log[p][k] \in 1..Len(outbox)
      BY <1>e
    <3>2. \A n \in 1..(log[p][k] - 1) : n \in 1..Len(outbox)
      BY <3>1, <1>t
    <3>. QED
      BY <2>1, <3>1, <3>2 DEF LogInOrder
  <2>3. \A n \in 1..published : n \in 1..Len(outbox)
    BY <1>t
  <2>4. \A n \in 1..published :
            \E k \in 1..Len(log[outbox'[n].topic]) : log[outbox'[n].topic][k] = n
    <3>1. \A n \in 1..published : outbox'[n] = outbox[n]
      BY <2>1, <2>3
    <3>2. \A n \in 1..published : \E k \in 1..Len(log[outbox[n].topic]) : log[outbox[n].topic][k] = n
      BY DEF LogInOrder
    <3>. QED
      BY <3>1, <3>2
  <2>. QED
    BY <2>1, <2>2, <2>4 DEF LogInOrder
<1>2. CASE Publish
  <2>. DEFINE new == published + 1
              q == outbox[new].topic
  <2>1. /\ new \in 1..Len(outbox) /\ published' = new /\ outbox' = outbox
        /\ log' = [log EXCEPT ![q] = Append(log[q], new)]
    <3>1. /\ published < Len(outbox) /\ published' = new /\ outbox' = outbox
          /\ log' = [log EXCEPT ![q] = Append(log[q], new)]
      BY <1>2, Zenon DEF Publish, sourceVars
    <3>2. Len(outbox) \in Nat /\ published \in 0..Len(outbox)
      BY <1>t, Zenon
    <3>. QED
      BY <3>1, <3>2
  <2>2. q \in Topic
    BY <1>t, <2>1
  <2>3. /\ Len(log'[q]) = Len(log[q]) + 1 /\ log'[q][Len(log[q]) + 1] = new
        /\ \A k \in 1..Len(log[q]) : log'[q][k] = log[q][k]
        /\ \A p \in Topic \ {q} : log'[p] = log[p]
    <3>1. log'[q] = Append(log[q], new) /\ log[q] \in Seq(1..Len(outbox))
      BY <1>t, <2>1, <2>2
    <3>2. \A p \in Topic \ {q} : log'[p] = log[p]
      BY <1>t, <2>1, <2>2
    <3>. HIDE DEF new, q
    <3>. QED
      BY <2>1, <3>1, <3>2, AppendFacts
  <2>4. \A n \in 1..published : \E k \in 1..Len(log[outbox[n].topic]) : log[outbox[n].topic][k] = n
    BY DEF LogInOrder
  <2>5. ASSUME NEW n \in 1..(new - 1), outbox[n].topic = q
        PROVE  \E j \in 1..Len(log[q]) : log[q][j] = n
    <3>1. n \in 1..published
      BY <1>t
    <3>. HIDE DEF new, q
    <3>. QED
      BY <3>1, <2>4, <2>5
  <2>6. \A p \in Topic : \A k \in 1..Len(log[p]) :
            /\ outbox[log[p][k]].topic = p
            /\ \A n \in 1..(log[p][k] - 1) :
                   outbox[n].topic = p => \E j \in 1..(k - 1) : log[p][j] = n
    BY DEF LogInOrder
  <2>7. \A p \in Topic : /\ Len(log'[p]) >= Len(log[p])
                        /\ \A k \in 1..Len(log[p]) : k \in 1..Len(log'[p]) /\ log'[p][k] = log[p][k]
    <3>. SUFFICES ASSUME NEW p \in Topic
                  PROVE  /\ Len(log'[p]) >= Len(log[p])
                         /\ \A k \in 1..Len(log[p]) :
                                k \in 1..Len(log'[p]) /\ log'[p][k] = log[p][k]
      OBVIOUS
    <3>0. Len(log[p]) \in Nat
      BY <1>e
    <3>. HIDE DEF new, q
    <3>1. CASE p = q
      BY <2>3, <3>0, <3>1
    <3>2. CASE p # q
      BY <2>3, <3>0, <3>2
    <3>. QED
      BY <3>1, <3>2
  <2>8. \A n \in 1..new : n = new \/ n \in 1..published
    BY <1>t
  <2>9. outbox[new].topic = q
    OBVIOUS
  <2>. HIDE DEF new, q
  <2>10. ASSUME NEW p \in Topic, NEW k \in 1..Len(log'[p])
         PROVE  /\ outbox[log'[p][k]].topic = p
                /\ \A n \in 1..(log'[p][k] - 1) :
                       outbox[n].topic = p => \E j \in 1..(k - 1) : log'[p][j] = n
    <3>1. CASE k \in 1..Len(log[p])
      <4>1. \A j \in 1..(k - 1) : j \in 1..Len(log[p])
        BY <3>1, <1>e
      <4>. QED
        BY <3>1, <4>1, <2>6, <2>7
    <3>2. CASE k \notin 1..Len(log[p])
      <4>1. p = q /\ k = Len(log[q]) + 1
        BY <3>2, <1>e, <2>3
      <4>2. k - 1 = Len(log[q]) /\ log'[p][k] = new
        BY <4>1, <1>e, <2>2, <2>3
      <4>. QED
        BY <4>1, <4>2, <2>3, <2>5, <2>9
    <3>. QED
      BY <3>1, <3>2
  <2>11. ASSUME NEW n \in 1..new
         PROVE  \E k \in 1..Len(log'[outbox[n].topic]) : log'[outbox[n].topic][k] = n
    <3>1. CASE n = new
      <4>1. Len(log[q]) + 1 \in 1..Len(log'[q])
        BY <1>e, <2>2, <2>3
      <4>. QED
        BY <3>1, <4>1, <2>3, <2>9
    <3>2. CASE n \in 1..published
      <4>1. n \in 1..Len(outbox) /\ outbox[n].topic \in Topic
        BY <3>2, <1>t
      <4>. QED
        BY <3>2, <4>1, <2>4, <2>7
    <3>. QED
      BY <3>1, <3>2, <2>8
  <2>12. outbox' = outbox /\ published' = new
    BY <2>1
  <2>. QED
    BY <2>10, <2>11, <2>12 DEF LogInOrder
<1>3. CASE ConnectorRestart
  <2>1. UNCHANGED <<outbox, log>> /\ published' \in 0..(published - 1)
    BY <1>3 DEF ConnectorRestart, sourceVars
  <2>2. \A n \in 1..published' : n \in 1..published
    BY <2>1, <1>t
  <2>3. \A p \in Topic : \A k \in 1..Len(log'[p]) :
           /\ outbox'[log'[p][k]].topic = p
           /\ \A n \in 1..(log'[p][k] - 1) :
                 outbox'[n].topic = p => \E j \in 1..(k - 1) : log'[p][j] = n
    <3>1. log' = log /\ outbox' = outbox
      BY <2>1
    <3>. QED
      BY <3>1 DEF LogInOrder
  <2>4. \A n \in 1..published' :
           \E k \in 1..Len(log'[outbox'[n].topic]) : log'[outbox'[n].topic][k] = n
    <3>1. log' = log /\ outbox' = outbox
      BY <2>1
    <3>. QED
      BY <2>2, <3>1, Zenon DEF LogInOrder
  <2>. QED
    BY <2>3, <2>4, Zenon DEF LogInOrder
<1>4. CASE UNCHANGED <<outbox, published, log>>
  BY <1>4 DEF LogInOrder
<1>5. \/ \E i \in IncidentId : CreateIncident(i) \/ RecordOccurrence(i) \/ UpdateIncident(i)
      \/ Publish \/ ConnectorRestart \/ UNCHANGED <<outbox, published, log>>
  BY DEF Next, vars, sourceVars, kafkaVars, Consume, CommitOffset, Restart
<1>. QED
  BY <1>1, <1>2, <1>3, <1>4, <1>5

-----------------------------------------------------------------------------
(* The consumer handles everything up to its position, in order *)

In(n, seq) == \E k \in 1..Len(seq) : seq[k] = n

\* An event is processed when the sequence has it.
LEMMA ProcessedIsIn ==
    ASSUME Typed, NEW n
    PROVE  IsProcessed(n) <=> In(n, processed)
<1>1. DOMAIN processed = 1..Len(processed)
  BY DEF Typed, TypeOK
<1>. QED
  BY <1>1 DEF IsProcessed, In

\* One event more is processed.
LEMMA ProcessedAppend ==
    ASSUME Typed, NEW x \in 1..Len(outbox), NEW n
    PROVE  In(n, Append(processed, x)) <=> In(n, processed) \/ n = x
<1>1. processed \in Seq(1..Len(outbox))
  BY DEF Typed, TypeOK
<1>. DEFINE longer == Append(processed, x)
<1>2. /\ Len(processed) \in Nat /\ Len(longer) = Len(processed) + 1
      /\ longer[Len(processed) + 1] = x
      /\ \A k \in 1..Len(processed) : longer[k] = processed[k]
  BY <1>1, AppendFacts
<1>. HIDE DEF longer
<1>3. \A k : k \in 1..Len(longer) <=> k \in 1..Len(processed) \/ k = Len(processed) + 1
  BY <1>2
<1>4. In(n, longer) <=> In(n, processed) \/ n = x
  BY <1>2, <1>3 DEF In
<1>. QED
  BY <1>4 DEF longer

\* Of the message of a step: where it is from, and what came before it.
LEMMA MessageFacts ==
    ASSUME Typed, LogInOrder, NEW p \in TOPICS, Consume(p)
    PROVE  LET n == log[p][position[p] + 1]
           IN  /\ n \in 1..Len(outbox) /\ outbox[n].topic = p
               /\ p \in {"created", "updated"}
               /\ \A m \in 1..(n - 1) :
                      outbox[m].topic = p => \E j \in 1..position[p] : log[p][j] = m
<1>. DEFINE n == log[p][position[p] + 1]
<1>1. p \in Topic /\ position[p] + 1 \in 1..Len(log[p]) /\ n \in 1..Len(outbox)
  BY ConsumeStep
<1>2. \A k \in 1..Len(log[p]) :
          /\ outbox[log[p][k]].topic = p
          /\ \A m \in 1..(log[p][k] - 1) :
                 outbox[m].topic = p => \E j \in 1..(k - 1) : log[p][j] = m
  BY <1>1 DEF LogInOrder
<1>3. position[p] \in Nat
  BY <1>1 DEF Typed
<1>4. /\ outbox[n].topic = p
      /\ \A m \in 1..(n - 1) :
             outbox[m].topic = p => \E j \in 1..position[p] : log[p][j] = m
  <2>. DEFINE k == position[p] + 1
  <2>1. k \in 1..Len(log[p]) /\ k - 1 = position[p] /\ n = log[p][k]
    BY <1>1, <1>3
  <2>. HIDE DEF k, n
  <2>. QED
    BY <1>2, <2>1
<1>6. p \in Written
  BY <1>1, <1>4, EventFacts
<1>5. p \in {"created", "updated"}
  BY <1>6 DEF TOPICS, Written
<1>. QED
  BY <1>1, <1>4, <1>5

\* What is processed or lost stays so.
LEMMA StoreGrows ==
    Typed /\ [Next]_vars =>
        /\ lost \subseteq lost'
        /\ \A n : In(n, processed) => In(n, processed')
<1>. SUFFICES ASSUME Typed, [Next]_vars
              PROVE  lost \subseteq lost' /\ \A n : In(n, processed) => In(n, processed')
  OBVIOUS
<1>1. ASSUME NEW p \in TOPICS, Consume(p)
      PROVE  lost \subseteq lost' /\ \A n : In(n, processed) => In(n, processed')
  <2>2. \/ UNCHANGED processed
        \/ \E x \in 1..Len(outbox) : processed' = Append(processed, x)
    BY <1>1, ConsumeStep
  <2>3. lost \subseteq lost'
    BY <1>1, ConsumeStep
  <2>. QED
    BY <2>2, <2>3, ProcessedAppend
<1>2. CASE UNCHANGED <<processed, lost>>
  BY <1>2
<1>3. ASSUME NEW i \in IncidentId,
             CreateIncident(i) \/ RecordOccurrence(i) \/ UpdateIncident(i)
      PROVE  UNCHANGED <<processed, lost>>
  BY <1>3, WriterKeeps
<1>4. UNCHANGED <<processed, lost>> \/ \E p \in TOPICS : Consume(p)
  BY <1>3 DEF Next, vars, storeVars, Publish, ConnectorRestart, CommitOffset, Restart
<1>. QED
  BY <1>1, <1>2, <1>4

Handled ==
    \A p \in Topic : \A k \in 1..position[p] :
        In(log[p][k], processed) \/ log[p][k] \in lost

LEMMA InitHandled == Init => Handled
BY DEF Init, Handled

LEMMA NextHandled == Typed /\ Handled /\ [Next]_vars => Handled'
<1>. SUFFICES ASSUME Typed, Handled, [Next]_vars PROVE Handled'
  OBVIOUS
<1>t. \A p \in Topic : /\ Len(log[p]) \in Nat /\ position[p] \in 0..Len(log[p])
                      /\ committed[p] \in 0..Len(log[p]) /\ committed[p] <= position[p]
  <2>. SUFFICES ASSUME NEW p \in Topic
                PROVE  /\ Len(log[p]) \in Nat /\ position[p] \in 0..Len(log[p])
                       /\ committed[p] \in 0..Len(log[p]) /\ committed[p] <= position[p]
    OBVIOUS
  <2>1. /\ log[p] \in Seq(1..Len(outbox)) /\ position[p] \in Nat /\ position[p] <= Len(log[p])
        /\ committed[p] \in 0..Len(log[p])
        /\ position[p] = committed[p] \/ position[p] = committed[p] + 1
    BY DEF Typed, TypeOK
  <2>. QED
    BY <2>1
<1>g. lost \subseteq lost' /\ \A n : In(n, processed) => In(n, processed')
  BY StoreGrows
<1>1. ASSUME NEW p \in TOPICS, Consume(p) PROVE Handled'
  <2>. DEFINE n == log[p][position[p] + 1]
  <2>1. /\ p \in Topic /\ position' = [position EXCEPT ![p] = position[p] + 1]
        /\ log' = log /\ n \in 1..Len(outbox)
        /\ \/ IsProcessed(n)
           \/ processed' = Append(processed, n)
           \/ lost' = lost \cup {n}
    BY <1>1, ConsumeStep
  <2>2. In(n, processed') \/ n \in lost'
    <3>1. IsProcessed(n) => In(n, processed)
      BY ProcessedIsIn
    <3>2. In(n, Append(processed, n))
      BY <2>1, ProcessedAppend
    <3>. HIDE DEF n
    <3>. QED
      BY <2>1, <3>1, <3>2, <1>g
  <2>3. ASSUME NEW q \in Topic, NEW k \in 1..position'[q]
        PROVE  In(log[q][k], processed') \/ log[q][k] \in lost'
    <3>1. CASE k \in 1..position[q]
      BY <3>1, <1>g DEF Handled
    <3>2. CASE k \notin 1..position[q]
      <4>1. q = p /\ k = position[p] + 1
        BY <3>2, <2>1, <1>t DEF Typed
      <4>. QED
        BY <4>1, <2>2
    <3>. QED
      BY <3>1, <3>2
  <2>. QED
    BY <2>1, <2>3 DEF Handled
<1>2. CASE Publish
  <2>1. UNCHANGED <<position, processed, lost>>
    BY <1>2 DEF Publish, storeVars
  <2>2. ASSUME NEW p \in Topic, NEW k \in 1..position[p]
        PROVE  log'[p][k] = log[p][k]
    <3>1. log[p] \in Seq(1..Len(outbox)) /\ k \in 1..Len(log[p]) /\ published + 1 \in 1..Len(outbox)
      <4>1. log[p] \in Seq(1..Len(outbox)) /\ position[p] \in Nat /\ position[p] <= Len(log[p])
        BY DEF Typed
      <4>2. published \in 0..Len(outbox) /\ outbox \in Seq(Event)
        BY DEF Typed, TypeOK
      <4>3. published < Len(outbox)
        BY <1>2 DEF Publish
      <4>. QED
        BY <4>1, <4>2, <4>3
    <3>2. log'[p] = log[p] \/ log'[p] = Append(log[p], published + 1)
      BY <1>2 DEF Publish, Typed
    <3>. DEFINE new == published + 1
                N == 1..Len(outbox)
                longer == Append(log[p], new)
    <3>3. \A j \in 1..Len(log[p]) : longer[j] = log[p][j]
      <4>1. log[p] \in Seq(N) /\ new \in N
        BY <3>1
      <4>. HIDE DEF new, N
      <4>. QED
        BY <4>1, AppendFacts
    <3>4. log'[p] = log[p] \/ log'[p] = longer
      BY <3>2
    <3>. HIDE DEF longer
    <3>. QED
      BY <3>1, <3>3, <3>4
  <2>. QED
    BY <2>1, <2>2 DEF Handled
<1>3. CASE Restart
  <2>1. position' = committed /\ UNCHANGED <<log, processed, lost>>
    BY <1>3 DEF Restart, kafkaVars, storeVars
  <2>2. \A p \in Topic : \A k \in 1..position'[p] : k \in 1..position[p]
    BY <2>1, <1>t
  <2>. QED
    BY <2>1, <2>2 DEF Handled
<1>4. CASE UNCHANGED <<log, position, processed, lost>>
  BY <1>4 DEF Handled
<1>5. ASSUME NEW i \in IncidentId,
             CreateIncident(i) \/ RecordOccurrence(i) \/ UpdateIncident(i)
      PROVE  UNCHANGED <<log, position, processed, lost>>
  BY <1>5, WriterKeeps
<1>6. \/ \E p \in TOPICS : Consume(p)
      \/ Publish \/ Restart \/ UNCHANGED <<log, position, processed, lost>>
  BY <1>5 DEF Next, vars, kafkaVars, storeVars, ConnectorRestart, CommitOffset
<1>. QED
  BY <1>1, <1>2, <1>3, <1>4, <1>6

\* An event is processed once, and after every earlier event of its topic that no
\* caught error rolled back.
ProcessedInOrder ==
    /\ \A a, b \in 1..Len(processed) : processed[a] = processed[b] => a = b
    /\ \A n \in 1..Len(outbox) : In(n, processed) =>
           \A m \in 1..(n - 1) :
               outbox[m].topic = outbox[n].topic => In(m, processed) \/ m \in lost

LEMMA InitProcessedInOrder == Init => ProcessedInOrder
BY DEF Init, ProcessedInOrder

LEMMA NextProcessedInOrder ==
    Typed /\ LogInOrder /\ Handled /\ ProcessedInOrder /\ [Next]_vars => ProcessedInOrder'
<1>. SUFFICES ASSUME Typed, LogInOrder, Handled, ProcessedInOrder, [Next]_vars
              PROVE  ProcessedInOrder'
  OBVIOUS
<1>t. processed \in Seq(1..Len(outbox)) /\ Len(processed) \in Nat /\ Len(outbox) \in Nat
  BY DEF Typed, TypeOK
<1>g. lost \subseteq lost' /\ \A n : In(n, processed) => In(n, processed')
  BY StoreGrows
<1>1. ASSUME NEW p \in TOPICS, Consume(p) PROVE ProcessedInOrder'
  <2>. DEFINE n == log[p][position[p] + 1]
  <2>1. /\ p \in Topic /\ n \in 1..Len(outbox) /\ outbox' = outbox
        /\ \/ processed' = processed
           \/ ~In(n, processed) /\ processed' = Append(processed, n)
    BY <1>1, ConsumeStep, ProcessedIsIn
  <2>2. /\ outbox[n].topic = p
        /\ \A m \in 1..(n - 1) :
               outbox[m].topic = p => \E j \in 1..position[p] : log[p][j] = m
    BY <1>1, MessageFacts
  <2>3. \A m \in 1..(n - 1) : outbox[m].topic = p => In(m, processed) \/ m \in lost
    BY <2>1, <2>2 DEF Handled
  <2>. HIDE DEF n
  <2>4. \A a, b \in 1..Len(processed') : processed'[a] = processed'[b] => a = b
    <3>1. CASE processed' = processed
      BY <3>1 DEF ProcessedInOrder
    <3>2. CASE ~In(n, processed) /\ processed' = Append(processed, n)
      <4>1. /\ Len(processed') = Len(processed) + 1 /\ processed'[Len(processed) + 1] = n
            /\ \A k \in 1..Len(processed) : processed'[k] = processed[k]
        BY <3>2, <1>t, <2>1, AppendFacts
      <4>2. \A k \in 1..Len(processed) : processed[k] # n
        BY <3>2 DEF In
      <4>3. \A k \in 1..Len(processed') : k \in 1..Len(processed) \/ k = Len(processed) + 1
        BY <1>t, <4>1
      <4>. QED
        BY <4>1, <4>2, <4>3 DEF ProcessedInOrder
    <3>. QED
      BY <3>1, <3>2, <2>1
  <2>5. \A x : In(x, processed') => In(x, processed) \/ x = n
    BY <2>1, ProcessedAppend
  <2>6. ASSUME NEW x \in 1..Len(outbox), In(x, processed'),
               NEW m \in 1..(x - 1), outbox[m].topic = outbox[x].topic
        PROVE  In(m, processed') \/ m \in lost'
    <3>1. CASE In(x, processed)
      BY <3>1, <2>6, <1>g DEF ProcessedInOrder
    <3>2. CASE x = n
      BY <3>2, <2>2, <2>3, <2>6, <1>g
    <3>. QED
      BY <3>1, <3>2, <2>5, <2>6
  <2>. QED
    BY <2>1, <2>4, <2>6 DEF ProcessedInOrder
<1>2. ASSUME NEW i \in IncidentId,
             CreateIncident(i) \/ RecordOccurrence(i) \/ UpdateIncident(i)
      PROVE  ProcessedInOrder'
  <2>1. /\ \A n \in 1..Len(outbox) : outbox'[n] = outbox[n]
        /\ UNCHANGED <<processed, lost>>
    BY <1>2, WriterKeeps
  <2>2. \A n : In(n, processed) => n \in 1..Len(outbox)
    BY <1>t DEF In
  <2>3. ASSUME NEW n, In(n, processed), NEW m \in 1..(n - 1), outbox'[m].topic = outbox'[n].topic
        PROVE  In(m, processed) \/ m \in lost
    <3>1. n \in 1..Len(outbox)
      BY <2>2, <2>3
    <3>2. m \in 1..Len(outbox)
      BY <3>1, <1>t
    <3>3. outbox[m].topic = outbox[n].topic
      BY <3>1, <3>2, <2>1, <2>3
    <3>. QED
      BY <3>1, <3>3, <2>3 DEF ProcessedInOrder
  <2>. QED
    BY <2>1, <2>3 DEF ProcessedInOrder
<1>3. CASE UNCHANGED <<outbox, processed, lost>>
  BY <1>3 DEF ProcessedInOrder
<1>4. \/ \E p \in TOPICS : Consume(p)
      \/ \E i \in IncidentId : CreateIncident(i) \/ RecordOccurrence(i) \/ UpdateIncident(i)
      \/ UNCHANGED <<outbox, processed, lost>>
  BY DEF Next, vars, sourceVars, storeVars, Publish, ConnectorRestart, CommitOffset, Restart
<1>. QED
  BY <1>1, <1>2, <1>3, <1>4

-----------------------------------------------------------------------------
(* What the consumer stores *)

Moves(e) == e.topic = "updated" /\ MovesStatus(e)

\* The history has one row per processed status change and none of any other event.
HistoryTold ==
    /\ \A k \in 1..Len(history) : In(history[k].event, processed)
    /\ \A j, k \in 1..Len(history) : history[j].event = history[k].event => j = k
    /\ \A n \in 1..Len(outbox) : Moves(outbox[n]) /\ In(n, processed) =>
           \E k \in 1..Len(history) : history[k].event = n

LEMMA InitHistoryTold == Init => HistoryTold
BY DEF Init, HistoryTold

\* Of an event stored now: the sequences it extends, and that it was not there.
LEMMA StoredNow ==
    ASSUME Typed, NEW p \in TOPICS, Consume(p), processed' # processed
    PROVE  LET n == log[p][position[p] + 1]
           IN  /\ n \in 1..Len(outbox) /\ ~In(n, processed) /\ Handler(n)
               /\ processed' = Append(processed, n) /\ lost' = lost
               /\ \A x : In(x, processed') <=> In(x, processed) \/ x = n
<1>. DEFINE n == log[p][position[p] + 1]
<1>1. /\ n \in 1..Len(outbox) /\ ~IsProcessed(n) /\ Handler(n)
      /\ processed' = Append(processed, n) /\ lost' = lost
  BY ConsumeStep
<1>2. ~In(n, processed)
  BY <1>1, ProcessedIsIn
<1>. HIDE DEF n
<1>3. \A x : In(x, processed') <=> In(x, processed) \/ x = n
  BY <1>1, ProcessedAppend
<1>. QED
  BY <1>1, <1>2, <1>3 DEF n

\* A message that is not processed changes no snapshot.
LEMMA NotStoredNow ==
    ASSUME Typed, NEW p \in TOPICS, Consume(p), processed' = processed
    PROVE  UNCHANGED <<snapshot, history, processed>>
<1>. DEFINE n == log[p][position[p] + 1]
<1>1. /\ n \in 1..Len(outbox)
      /\ UNCHANGED <<snapshot, history>> \/ processed' = Append(processed, n)
  BY ConsumeStep
<1>2. processed \in Seq(1..Len(outbox))
  BY DEF Typed, TypeOK
<1>. HIDE DEF n
<1>3. Len(Append(processed, n)) = Len(processed) + 1 /\ Len(processed) \in Nat
  BY <1>1, <1>2, AppendFacts
<1>4. processed' # Append(processed, n)
  BY <1>3
<1>. QED
  BY <1>1, <1>4

LEMMA NextHistoryTold == Typed /\ HistoryTold /\ [Next]_vars => HistoryTold'
<1>. SUFFICES ASSUME Typed, HistoryTold, [Next]_vars PROVE HistoryTold'
  OBVIOUS
<1>. DEFINE H == [event : 1..Len(outbox), posted : BOOLEAN]
<1>t. /\ history \in Seq(H) /\ Len(history) \in Nat /\ processed \in Seq(1..Len(outbox))
      /\ Len(outbox) \in Nat
  BY DEF Typed, TypeOK
<1>. HIDE DEF H
<1>1. ASSUME NEW p \in TOPICS, Consume(p), processed' # processed PROVE HistoryTold'
  <2>. DEFINE n == log[p][position[p] + 1]
  <2>1. /\ n \in 1..Len(outbox) /\ ~In(n, processed) /\ Handler(n)
        /\ \A x : In(x, processed') <=> In(x, processed) \/ x = n
    BY <1>1, StoredNow
  <2>2. outbox' = outbox
    BY <1>1, ConsumeStep
  <2>. HIDE DEF n
  <2>3. \/ history' = history /\ ~Moves(outbox[n])
        \/ \E h \in H : h.event = n /\ history' = Append(history, h)
    BY <2>1, HandlerWrites DEF Moves, H
  <2>4. CASE history' = history /\ ~Moves(outbox[n])
    BY <2>1, <2>2, <2>4 DEF HistoryTold
  <2>5. ASSUME NEW h \in H, h.event = n, history' = Append(history, h)
        PROVE  HistoryTold'
    <3>1. /\ Len(history') = Len(history) + 1 /\ history'[Len(history) + 1] = h
          /\ \A k \in 1..Len(history) : history'[k] = history[k]
      BY <1>t, <2>5, AppendFacts
    <3>2. \A k \in 1..Len(history') : k \in 1..Len(history) \/ k = Len(history) + 1
      BY <1>t, <3>1
    <3>3. \A k \in 1..Len(history) : k \in 1..Len(history') /\ history[k].event # n
      BY <1>t, <2>1, <3>1 DEF HistoryTold
    <3>4. \A k \in 1..Len(history') : In(history'[k].event, processed')
      BY <2>1, <2>5, <3>1, <3>2 DEF HistoryTold
    <3>5. \A j, k \in 1..Len(history') : history'[j].event = history'[k].event => j = k
      BY <2>5, <3>1, <3>2, <3>3 DEF HistoryTold
    <3>6. Len(history) + 1 \in 1..Len(history')
      BY <1>t, <3>1
    <3>7. \A m \in 1..Len(outbox) : Moves(outbox[m]) /\ In(m, processed') =>
              \E k \in 1..Len(history') : history'[k].event = m
      BY <2>1, <2>5, <3>1, <3>3, <3>6 DEF HistoryTold
    <3>. QED
      BY <2>2, <3>4, <3>5, <3>7 DEF HistoryTold
  <2>. QED
    BY <2>3, <2>4, <2>5
<1>2. ASSUME NEW i \in IncidentId,
             CreateIncident(i) \/ RecordOccurrence(i) \/ UpdateIncident(i)
      PROVE  HistoryTold'
  <2>1. /\ \A n \in 1..Len(outbox) : outbox'[n] = outbox[n]
        /\ UNCHANGED <<processed, history>>
    BY <1>2, WriterKeeps
  <2>2. \A n : In(n, processed) => n \in 1..Len(outbox)
    BY <1>t DEF In
  <2>. QED
    BY <2>1, <2>2 DEF HistoryTold
<1>3. CASE UNCHANGED <<outbox, processed, history>>
  BY <1>3 DEF HistoryTold
<1>4. \/ \E p \in TOPICS : Consume(p)
      \/ \E i \in IncidentId : CreateIncident(i) \/ RecordOccurrence(i) \/ UpdateIncident(i)
      \/ UNCHANGED <<outbox, processed, history>>
  BY DEF Next, vars, sourceVars, storeVars, Publish, ConnectorRestart, CommitOffset, Restart
<1>5. ASSUME NEW p \in TOPICS, Consume(p), processed' = processed PROVE HistoryTold'
  <2>1. outbox' = outbox /\ UNCHANGED <<processed, history>>
    BY <1>5, NotStoredNow, ConsumeStep
  <2>. QED
    BY <2>1, <1>3
<1>. QED
  BY <1>1, <1>2, <1>3, <1>4, <1>5

\* The snapshot of an incident whose created event came first and of which nothing
\* was lost has the status of the last event processed for it.
NoneLost(i) == \A n \in lost : outbox[n].id # i

SnapshotTold ==
    \A i \in IncidentId : CreatedFirst(i) /\ NoneLost(i) =>
        /\ snapshot[i] # NoSnapshot
        /\ \E g \in 1..Len(outbox) :
               /\ SetsStatus(outbox[g], i) /\ snapshot[i].status = outbox[g].to
               /\ In(g, processed)
               /\ \A m \in 1..Len(outbox) :
                      SetsStatus(outbox[m], i) /\ In(m, processed) => m <= g

LEMMA InitSnapshotTold == Init => SnapshotTold
BY DEF Init, SnapshotTold, CreatedFirst

\* CreatedFirst over the indexes of the sequence.
LEMMA CreatedFirstIs ==
    ASSUME Typed, NEW i
    PROVE  CreatedFirst(i) <=>
               \E k \in 1..Len(processed) :
                   /\ outbox[processed[k]].id = i
                   /\ outbox[processed[k]].topic = "created"
                   /\ \A m \in 1..(k - 1) : outbox[processed[m]].id # i
<1>1. DOMAIN processed = 1..Len(processed)
  BY DEF Typed, TypeOK
<1>. QED
  BY <1>1 DEF CreatedFirst

\* Storing one more event lets CreatedFirst become true only for its own incident,
\* when it is a created event and no other of that incident was processed.
LEMMA CreatedFirstAppend ==
    ASSUME Typed, Typed', NEW n \in 1..Len(outbox), NEW i, outbox' = outbox,
           processed' = Append(processed, n), CreatedFirst(i)'
    PROVE  \/ CreatedFirst(i)
           \/ /\ outbox[n].id = i /\ outbox[n].topic = "created"
              /\ \A x : In(x, processed) => outbox[x].id # i
<1>1. processed \in Seq(1..Len(outbox))
  BY DEF Typed, TypeOK
<1>2. /\ Len(processed) \in Nat /\ Len(processed') = Len(processed) + 1
      /\ processed'[Len(processed) + 1] = n
      /\ \A k \in 1..Len(processed) : processed'[k] = processed[k]
  BY <1>1, AppendFacts
<1>3. DOMAIN processed' = 1..Len(processed')
  BY DEF Typed, TypeOK
<1>4. PICK k \in 1..Len(processed') :
          /\ outbox[processed'[k]].id = i
          /\ outbox[processed'[k]].topic = "created"
          /\ \A m \in 1..(k - 1) : outbox[processed'[m]].id # i
  BY <1>3 DEF CreatedFirst
<1>5. CASE k \in 1..Len(processed)
  <2>1. \A m \in 1..(k - 1) : m \in 1..Len(processed)
    BY <1>2, <1>5
  <2>2. \E l \in 1..Len(processed) :
            /\ outbox[processed[l]].id = i
            /\ outbox[processed[l]].topic = "created"
            /\ \A m \in 1..(l - 1) : outbox[processed[m]].id # i
    BY <1>2, <1>4, <1>5, <2>1
  <2>. QED
    BY <2>2, CreatedFirstIs
<1>6. CASE k = Len(processed) + 1
  <2>1. \A m \in 1..Len(processed) : m \in 1..(k - 1)
    BY <1>2, <1>6
  <2>2. \A m \in 1..Len(processed) : outbox[processed[m]].id # i
    BY <1>2, <1>4, <2>1
  <2>. QED
    BY <1>2, <1>4, <1>6, <2>2 DEF In
<1>. QED
  BY <1>2, <1>4, <1>5, <1>6

\* An incident whose created event came first has that event processed.
LEMMA CreatedFirstProcessed ==
    ASSUME Typed, NEW i, CreatedFirst(i)
    PROVE  \E c \in 1..Len(outbox) :
               In(c, processed) /\ outbox[c].id = i /\ outbox[c].topic = "created"
<1>1. PICK k \in 1..Len(processed) :
          outbox[processed[k]].id = i /\ outbox[processed[k]].topic = "created"
  BY CreatedFirstIs
<1>2. processed[k] \in 1..Len(outbox)
  BY DEF Typed, TypeOK
<1>. QED
  BY <1>1, <1>2 DEF In

\* The greatest event decides: per topic events are processed in order, and the
\* created event is the first of all.
LEMMA NextSnapshotTold ==
    /\ Typed /\ SourceTold /\ LogInOrder /\ ProcessedInOrder /\ SnapshotTold
    /\ [Next]_vars
    => SnapshotTold'
<1>. SUFFICES ASSUME Typed, SourceTold, LogInOrder, ProcessedInOrder, SnapshotTold, [Next]_vars
              PROVE  SnapshotTold'
  OBVIOUS
<1>t. /\ processed \in Seq(1..Len(outbox)) /\ Len(outbox) \in Nat /\ lost \subseteq 1..Len(outbox)
      /\ Typed'
  <2>1. Typed'
    BY NextTyped, Zenon
  <2>2. /\ processed \in Seq(1..Len(outbox)) /\ outbox \in Seq(Event)
        /\ lost \subseteq 1..Len(outbox)
    BY DEF Typed, TypeOK
  <2>. QED
    BY <2>1, <2>2
<1>1. ASSUME NEW p \in TOPICS, Consume(p), processed' # processed PROVE SnapshotTold'
  <2>. DEFINE n == log[p][position[p] + 1]
              e == outbox[n]
  <2>1. /\ n \in 1..Len(outbox) /\ ~In(n, processed) /\ Handler(n)
        /\ processed' = Append(processed, n) /\ lost' = lost
        /\ \A x : In(x, processed') <=> In(x, processed) \/ x = n
    BY <1>1, StoredNow
  <2>2. outbox' = outbox
    BY <1>1, ConsumeStep
  <2>3. e.topic = p /\ p \in {"created", "updated"}
    BY <1>1, MessageFacts
  <2>4. /\ \A i \in IncidentId \ {e.id} : snapshot'[i] = snapshot[i]
        /\ e.topic = "created" => snapshot'[e.id] # NoSnapshot /\ snapshot'[e.id].status = "open"
        /\ e.topic = "updated" /\ snapshot[e.id] # NoSnapshot =>
               snapshot'[e.id] # NoSnapshot /\ snapshot'[e.id].status = e.to
    BY <2>1, HandlerWrites
  <2>5. e.topic = "created" => e.to = "open"
    BY <2>1 DEF Typed
  <2>e. e = outbox[n]
    OBVIOUS
  <2>. HIDE DEF n, e
  <2>. SUFFICES ASSUME NEW i \in IncidentId, CreatedFirst(i)', NoneLost(i)'
                PROVE  /\ snapshot'[i] # NoSnapshot
                       /\ \E g \in 1..Len(outbox) :
                              /\ SetsStatus(outbox[g], i) /\ snapshot'[i].status = outbox[g].to
                              /\ In(g, processed')
                              /\ \A m \in 1..Len(outbox) :
                                     SetsStatus(outbox[m], i) /\ In(m, processed') => m <= g
    BY <2>2 DEF SnapshotTold
  <2>6. NoneLost(i)
    BY <2>1, <2>2 DEF NoneLost
  <2>7. \/ CreatedFirst(i)
        \/ /\ e.id = i /\ e.topic = "created"
           /\ \A x : In(x, processed) => outbox[x].id # i
    BY <1>t, <2>1, <2>2, <2>e, CreatedFirstAppend
  <2>8. CASE e.id # i
    <3>1. snapshot'[i] = snapshot[i] /\ ~SetsStatus(e, i)
      BY <2>4, <2>8 DEF SetsStatus
    <3>2. PICK g \in 1..Len(outbox) :
              /\ SetsStatus(outbox[g], i) /\ snapshot[i].status = outbox[g].to
              /\ In(g, processed)
              /\ \A m \in 1..Len(outbox) :
                     SetsStatus(outbox[m], i) /\ In(m, processed) => m <= g
      BY <2>6, <2>7, <2>8 DEF SnapshotTold
    <3>3. snapshot[i] # NoSnapshot
      BY <2>6, <2>7, <2>8 DEF SnapshotTold
    <3>. QED
      BY <2>1, <2>e, <3>1, <3>2, <3>3
  <2>9. CASE e.id = i /\ CreatedFirst(i)
    <3>1. PICK c \in 1..Len(outbox) :
              In(c, processed) /\ outbox[c].id = i /\ outbox[c].topic = "created"
      BY <2>9, CreatedFirstProcessed
    <3>2. e.topic # "created"
      <4>1. SUFFICES ASSUME e.topic = "created" PROVE FALSE
        OBVIOUS
      <4>2. n <= c /\ c <= n
        BY <2>1, <2>9, <2>e, <3>1, <4>1 DEF SourceTold
      <4>3. n = c
        BY <2>1, <4>2
      <4>. QED
        BY <2>1, <3>1, <4>3
    <3>3. e.topic = "updated" /\ snapshot[i] # NoSnapshot
      BY <2>3, <2>6, <2>9, <3>2 DEF SnapshotTold
    <3>4. snapshot'[i] # NoSnapshot /\ snapshot'[i].status = e.to
      BY <2>4, <2>9, <3>3
    <3>5. SetsStatus(e, i) /\ In(n, processed')
      BY <2>1, <2>9, <3>3 DEF SetsStatus
    <3>6. ASSUME NEW m \in 1..Len(outbox), SetsStatus(outbox[m], i), In(m, processed')
          PROVE  m <= n
      <4>1. CASE m = n
        BY <2>1, <4>1
      <4>2. CASE outbox[m].topic = "created"
        BY <2>1, <2>9, <2>e, <3>6, <4>2 DEF SourceTold, SetsStatus
      <4>3. CASE m # n /\ outbox[m].topic = "updated"
        <5>1. In(m, processed) /\ outbox[n].topic = outbox[m].topic
          BY <2>1, <2>e, <3>3, <3>6, <4>3
        <5>2. n \notin lost
          BY <2>6, <2>9, <2>e DEF NoneLost
        <5>3. n \notin 1..(m - 1)
          BY <2>1, <5>1, <5>2 DEF ProcessedInOrder
        <5>. QED
          BY <2>1, <5>3
      <4>. QED
        BY <3>6, <4>1, <4>2, <4>3 DEF SetsStatus
    <3>. QED
      BY <2>1, <2>e, <3>4, <3>5, <3>6
  <2>10. CASE /\ e.id = i /\ e.topic = "created"
              /\ \A x : In(x, processed) => outbox[x].id # i
    <3>1. snapshot'[i] # NoSnapshot /\ snapshot'[i].status = e.to
      BY <2>4, <2>5, <2>10
    <3>2. SetsStatus(e, i) /\ In(n, processed')
      BY <2>1, <2>10 DEF SetsStatus
    <3>3. \A m \in 1..Len(outbox) : SetsStatus(outbox[m], i) /\ In(m, processed') => m <= n
      BY <2>1, <2>10 DEF SetsStatus
    <3>. QED
      BY <2>1, <2>e, <3>1, <3>2, <3>3
  <2>. QED
    BY <2>7, <2>8, <2>9, <2>10
<1>2. CASE UNCHANGED <<outbox, processed, snapshot>> /\ lost \subseteq lost'
  BY <1>2 DEF SnapshotTold, CreatedFirst, NoneLost
<1>3. ASSUME NEW p \in TOPICS, Consume(p), processed' = processed PROVE SnapshotTold'
  BY <1>2, <1>3, ConsumeStep, NotStoredNow, StoreGrows
<1>4. ASSUME NEW i \in IncidentId,
             CreateIncident(i) \/ RecordOccurrence(i) \/ UpdateIncident(i)
      PROVE  SnapshotTold'
  <2>1. /\ Len(outbox') = Len(outbox) + 1
        /\ \A n \in 1..Len(outbox) : outbox'[n] = outbox[n]
        /\ UNCHANGED <<processed, snapshot, lost>>
    BY <1>4, WriterKeeps
  <2>2. \A n : In(n, processed) => n \in 1..Len(outbox)
    BY <1>t DEF In
  <2>3. ASSUME NEW j \in IncidentId, CreatedFirst(j)', NoneLost(j)'
        PROVE  CreatedFirst(j) /\ NoneLost(j)
    <3>1. DOMAIN processed = 1..Len(processed) /\ Len(processed) \in Nat
      BY <1>t
    <3>2. \A k \in 1..Len(processed) : outbox'[processed[k]] = outbox[processed[k]]
      <4>1. \A k \in 1..Len(processed) : processed[k] \in 1..Len(outbox)
        BY <1>t
      <4>. QED
        BY <2>1, <4>1
    <3>3. \A k \in 1..Len(processed) : \A m \in 1..(k - 1) : m \in 1..Len(processed)
      BY <3>1
    <3>4. CreatedFirst(j)
      <4>0. processed' = processed
        BY <2>1
      <4>1. PICK k \in DOMAIN processed :
                /\ outbox'[processed[k]].id = j /\ outbox'[processed[k]].topic = "created"
                /\ \A m \in 1..(k - 1) : outbox'[processed[m]].id # j
        BY <2>3, <4>0, Zenon DEF CreatedFirst
      <4>2. /\ outbox[processed[k]].id = j /\ outbox[processed[k]].topic = "created"
            /\ \A m \in 1..(k - 1) : outbox[processed[m]].id # j
        BY <3>1, <3>2, <3>3, <4>1, Zenon
      <4>. QED
        BY <4>2, Zenon DEF CreatedFirst
    <3>5. NoneLost(j)
      BY <1>t, <2>1, <2>3 DEF NoneLost
    <3>. QED
      BY <3>4, <3>5
  <2>4. ASSUME NEW j \in IncidentId, CreatedFirst(j)', NoneLost(j)'
        PROVE  /\ snapshot[j] # NoSnapshot
               /\ \E g \in 1..Len(outbox') :
                      /\ SetsStatus(outbox'[g], j) /\ snapshot[j].status = outbox'[g].to
                      /\ In(g, processed)
                      /\ \A m \in 1..Len(outbox') :
                             SetsStatus(outbox'[m], j) /\ In(m, processed) => m <= g
    <3>1. CreatedFirst(j) /\ NoneLost(j)
      BY <2>3, <2>4
    <3>2. PICK g \in 1..Len(outbox) :
              /\ SetsStatus(outbox[g], j) /\ snapshot[j].status = outbox[g].to
              /\ In(g, processed)
              /\ \A m \in 1..Len(outbox) :
                     SetsStatus(outbox[m], j) /\ In(m, processed) => m <= g
      BY <3>1 DEF SnapshotTold
    <3>3. snapshot[j] # NoSnapshot
      BY <3>1 DEF SnapshotTold
    <3>4. g \in 1..Len(outbox')
      BY <1>t, <2>1
    <3>. QED
      BY <2>1, <2>2, <3>2, <3>3, <3>4
  <2>. QED
    BY <2>1, <2>4 DEF SnapshotTold
<1>5. \/ \E p \in TOPICS : Consume(p)
      \/ \E i \in IncidentId : CreateIncident(i) \/ RecordOccurrence(i) \/ UpdateIncident(i)
      \/ UNCHANGED <<outbox, processed, snapshot, lost>>
  BY DEF Next, vars, sourceVars, storeVars, Publish, ConnectorRestart, CommitOffset, Restart
<1>. QED
  BY <1>1, <1>2, <1>3, <1>4, <1>5

-----------------------------------------------------------------------------
\* However often Debezium, Kafka or the consumer repeat an event, its status change
\* is in the history once, and nothing below a committed offset was skipped.
THEOREM EventsProcessedOnce == Spec => []ProcessedOnce
<1>1. Typed /\ HistoryTold => HistoryOnce
  <2>. SUFFICES ASSUME Typed, HistoryTold, NEW n \in DOMAIN outbox, Moves(outbox[n])
                PROVE  Cardinality({k \in DOMAIN history : history[k].event = n}) =
                           (IF IsProcessed(n) THEN 1 ELSE 0)
    BY Zenon DEF HistoryOnce, Moves
  <2>0. n \in 1..Len(outbox)
    BY DEF Typed, TypeOK
  <2>. DEFINE rows == {k \in DOMAIN history : history[k].event = n}
  <2>1. DOMAIN history = 1..Len(history) /\ (IsProcessed(n) <=> In(n, processed))
    BY ProcessedIsIn DEF Typed, TypeOK
  <2>2. CASE IsProcessed(n)
    <3>1. PICK k \in 1..Len(history) : history[k].event = n
      BY <2>0, <2>1, <2>2 DEF HistoryTold
    <3>2. rows = {k}
      BY <2>1, <3>1 DEF HistoryTold
    <3>. QED
      BY <2>2, <3>2, FS_Singleton
  <2>3. CASE ~IsProcessed(n)
    <3>1. rows = {}
      BY <2>1, <2>3 DEF HistoryTold
    <3>. QED
      BY <2>3, <3>1, FS_EmptySet
  <2>. QED
    BY <2>2, <2>3
<1>2. Typed /\ Handled => CommittedIsProcessed
  <2>. SUFFICES ASSUME Typed, Handled, NEW p \in Topic, NEW k \in 1..committed[p]
                PROVE  IsProcessed(log[p][k]) \/ log[p][k] \in lost
    BY DEF CommittedIsProcessed
  <2>1. k \in 1..position[p]
    <3>1. /\ committed[p] \in Nat /\ position[p] \in Nat
          /\ position[p] = committed[p] \/ position[p] = committed[p] + 1
      BY DEF Typed, TypeOK
    <3>. QED
      BY <3>1
  <2>. QED
    BY <2>1, ProcessedIsIn DEF Handled
<1>3. Typed /\ HistoryTold /\ Handled => ProcessedOnce
  BY <1>1, <1>2 DEF ProcessedOnce, Typed
<1>. QED
  BY <1>3, InitTyped, NextTyped, InitHistoryTold, NextHistoryTold, InitHandled, NextHandled,
     PTL DEF Spec

\* A consumer that has caught up shows for every incident, whose created event came
\* first and of which nothing was lost, the status it has in DB-2.
THEOREM SnapshotMirrorsTable == Spec => []MirrorsInOrder
<1>1. Typed /\ SourceTold /\ LogInOrder /\ Handled /\ SnapshotTold => MirrorsInOrder
  <2>. SUFFICES ASSUME Typed, SourceTold, LogInOrder, Handled, SnapshotTold, Drained,
                       NEW i \in IncidentId, Live(table, i), CreatedFirst(i), NoneLost(i)
                PROVE  snapshot[i].status = table[i].status
    BY DEF MirrorsInOrder, NoneLost
  <2>1. PICK n \in 1..Len(outbox) :
            /\ SetsStatus(outbox[n], i) /\ outbox[n].to = table[i].status
            /\ \A m \in 1..Len(outbox) : SetsStatus(outbox[m], i) => m <= n
    BY DEF SourceTold
  <2>2. PICK g \in 1..Len(outbox) :
            /\ SetsStatus(outbox[g], i) /\ snapshot[i].status = outbox[g].to
            /\ In(g, processed)
            /\ \A m \in 1..Len(outbox) :
                   SetsStatus(outbox[m], i) /\ In(m, processed) => m <= g
    BY DEF SnapshotTold
  <2>. DEFINE p == outbox[n].topic
  <2>3. p \in TOPICS /\ p \in Topic
    BY <2>1 DEF SetsStatus, TOPICS, Topic
  <2>4. PICK k \in 1..Len(log[p]) : log[p][k] = n
    BY DEF Drained, LogInOrder
  <2>5. position[p] = Len(log[p])
    <3>1. committed[p] = Len(log[p]) /\ inHand = "none" /\ p # "none" /\ position[p] \in Nat
      BY <2>3 DEF Drained, TOPICS, Typed
    <3>. QED
      BY <2>3, <3>1 DEF Typed, TypeOK
  <2>6. In(n, processed)
    BY <2>1, <2>3, <2>4, <2>5 DEF Handled, NoneLost, SetsStatus
  <2>7. n = g
    BY <2>1, <2>2, <2>6
  <2>. QED
    BY <2>1, <2>2, <2>7
<1>. QED
  BY <1>1, InitTyped, NextTyped, InitSourceTold, NextSourceTold, InitLogInOrder, NextLogInOrder,
     InitHandled, NextHandled, InitProcessedInOrder, NextProcessedInOrder,
     InitSnapshotTold, NextSnapshotTold, PTL DEF Spec
=============================================================================
