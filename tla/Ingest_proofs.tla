---------------------------- MODULE Ingest_proofs ----------------------------
(***************************************************************************)
(* Theorems about Ingest, for every number of requests, logs, incidents    *)
(* and faults: what the SDK was told was accepted is there and counted     *)
(* once, a stored log is recorded in the end, and the search page shows    *)
(* what DB-2 has.                                                          *)
(*                                                                         *)
(* A log goes from the request to the row, the topic, the queue of         *)
(* parse_log, the queue of run_agent and the incident; most invariants say *)
(* what a log that is at one place of this way has left at the others.     *)
(***************************************************************************)
EXTENDS Ingest, IncidentTable_proofs

RequestState ==
    {Unsent} \cup
    [log : Log, pc : {"arrived", "uploaded", "stored", "202", "429", "4xx", "5xx", "lost"}]
RunState ==
    {NoRun} \cup [pc : {"fields", "find", "analyse"}, log : Log] \cup
    [pc : {"record", "link"}, log : Log, incident : IncidentId, status : Status]
DocState ==
    {NoDoc} \cup [incident : Log \cup IncidentId, status : Status,
                  late : BOOLEAN, clean : BOOLEAN]
PatchState ==
    {NoPatch} \cup [pc : {"search", "commit"}, incident : IncidentId, status : Status]

ApiTyped ==
    /\ bucket \in [tokens : 0..Capacity, at : -1..MaxClock]
    /\ requests \in [Request -> RequestState]
    /\ objects \subseteq Log
StoreTyped == rows \subseteq Log /\ topic \in Seq(Log) /\ offset \in 0..Len(topic)
QueueTyped ==
    /\ parses \in [Log -> Nat] /\ agents \in [Log -> Nat] /\ repeats \in [Log -> Nat]
    /\ dropped \subseteq Log /\ done \subseteq Log
RunTyped ==
    /\ run \in RunState /\ incidents \in Table
    /\ run.pc \in {"record", "link"} => Live(incidents, run.incident)
DocsTyped == docs \in [Request -> DocState]
PatchTyped ==
    /\ patch \in PatchState /\ patches \in 0..MaxPatches /\ astray \subseteq IncidentId \cup Log
    /\ patch # NoPatch => Live(incidents, patch.incident)
FaultsTyped == faults \in 0..MaxFaults

\* The type invariant, with what makes an update of a row an update of a row.
Typed ==
    ApiTyped /\ StoreTyped /\ QueueTyped /\ RunTyped /\ DocsTyped /\ PatchTyped /\ FaultsTyped

-----------------------------------------------------------------------------
(* The steps, by what they change *)

\* What a request, a run and a document hold, by their place.
LEMMA RequestHolds ==
    ASSUME NEW s \in RequestState
    PROVE  s # Unsent =>
               /\ s.log \in Log
               /\ \A to \in {"arrived", "uploaded", "stored", "202", "4xx", "5xx", "lost"} :
                      /\ [s EXCEPT !.pc = to] \in RequestState \ {Unsent}
                      /\ [s EXCEPT !.pc = to].pc = to /\ [s EXCEPT !.pc = to].log = s.log
<1>. SUFFICES ASSUME s # Unsent
              PROVE  /\ s.log \in Log
                     /\ \A to \in {"arrived", "uploaded", "stored", "202", "4xx", "5xx", "lost"} :
                            /\ [s EXCEPT !.pc = to] \in RequestState \ {Unsent}
                            /\ [s EXCEPT !.pc = to].pc = to /\ [s EXCEPT !.pc = to].log = s.log
  OBVIOUS
<1>1. s \in [log : Log, pc : {"arrived", "uploaded", "stored", "202", "429", "4xx", "5xx", "lost"}]
  BY DEF RequestState
<1>2. s.log \in Log
  BY <1>1
<1>3. ASSUME NEW to \in {"arrived", "uploaded", "stored", "202", "4xx", "5xx", "lost"}
      PROVE  /\ [s EXCEPT !.pc = to] \in RequestState
             /\ [s EXCEPT !.pc = to].pc = to /\ [s EXCEPT !.pc = to].log = s.log
  BY <1>1 DEF RequestState
<1>4. Unsent.pc = "unsent"
  BY DEF Unsent
<1>. QED
  BY <1>2, <1>3, <1>4

\* A request that arrives.
LEMMA NewRequest ==
    ASSUME NEW l \in Log, NEW pc \in {"arrived", "429"}
    PROVE  /\ [log |-> l, pc |-> pc] \in RequestState \ {Unsent}
           /\ [log |-> l, pc |-> pc].pc = pc /\ [log |-> l, pc |-> pc].log = l
<1>1. [log |-> l, pc |-> pc] \in RequestState
  BY DEF RequestState
<1>2. [log |-> l, pc |-> pc].pc = pc /\ Unsent.pc = "unsent"
  BY DEF Unsent
<1>. QED
  BY <1>1, <1>2

\* One request moves; the others stay.
Moves(r, s) == requests'[r] = s /\ \A q \in Request \ {r} : requests'[q] = requests[q]

\* A request goes from one place to the next.
LEMMA GotoStep ==
    ASSUME ApiTyped, NEW r \in Request, NEW from,
           NEW to \in {"arrived", "uploaded", "stored", "202", "4xx", "5xx", "lost"},
           Goto(r, from, to)
    PROVE  /\ requests[r] # Unsent /\ requests[r].pc = from /\ requests[r].log \in Log
           /\ requests' \in [Request -> RequestState]
           /\ requests'[r] # Unsent
           /\ requests'[r].pc = to /\ requests'[r].log = requests[r].log
           /\ \A q \in Request \ {r} : requests'[q] = requests[q]
<1>. DEFINE s == [requests[r] EXCEPT !.pc = to]
<1>1. /\ requests[r] # Unsent /\ requests[r].pc = from /\ requests[r] \in RequestState
      /\ requests' = [requests EXCEPT ![r] = s] /\ requests \in [Request -> RequestState]
  BY DEF Goto, ApiTyped
<1>2. /\ requests[r].log \in Log /\ s \in RequestState \ {Unsent}
      /\ s.pc = to /\ s.log = requests[r].log
  <2>. DEFINE old == requests[r]
  <2>1. old \in RequestState /\ old # Unsent
    BY <1>1
  <2>. HIDE DEF old
  <2>2. /\ old.log \in Log /\ [old EXCEPT !.pc = to] \in RequestState \ {Unsent}
        /\ [old EXCEPT !.pc = to].pc = to /\ [old EXCEPT !.pc = to].log = old.log
    BY <2>1, RequestHolds
  <2>. QED
    BY <2>2 DEF old
<1>. HIDE DEF s
<1>3. requests'[r] = s /\ \A q \in Request \ {r} : requests'[q] = requests[q]
  BY <1>1
<1>4. requests' \in [Request -> RequestState]
  BY <1>1, <1>2
<1>. QED
  BY <1>1, <1>2, <1>3, <1>4

\* A request arrives.
LEMMA SendsStep ==
    ASSUME ApiTyped, NEW r \in Request, NEW l \in Log, NEW pc \in {"arrived", "429"},
           Sends(r, l, pc)
    PROVE  /\ requests[r] = Unsent /\ requests' \in [Request -> RequestState]
           /\ requests'[r] # Unsent /\ requests'[r].pc = pc /\ requests'[r].log = l
           /\ \A q \in Request \ {r} : requests'[q] = requests[q]
<1>. DEFINE s == [log |-> l, pc |-> pc]
<1>1. /\ requests[r] = Unsent /\ requests' = [requests EXCEPT ![r] = s]
      /\ requests \in [Request -> RequestState]
  BY DEF Sends, ApiTyped
<1>2. s \in RequestState \ {Unsent} /\ s.pc = pc /\ s.log = l
  BY NewRequest
<1>. HIDE DEF s
<1>. QED
  BY <1>1, <1>2

\* The bucket never holds more than its capacity nor less than nothing.
LEMMA TakenTyped ==
    ASSUME bucket \in [tokens : 0..Capacity, at : -1..MaxClock], NEW c \in 0..MaxClock,
           Tokens(Capacity, bucket, c) >= 1
    PROVE  Taken(Capacity, bucket, c) \in [tokens : 0..Capacity, at : -1..MaxClock]
<1>. DEFINE n == Tokens(Capacity, bucket, c)
<1>1. Capacity \in Nat /\ MaxClock \in Nat /\ bucket.tokens \in 0..Capacity /\ bucket.at \in -1..MaxClock
  BY IngestAssumption
<1>2. n \in Int /\ n <= Capacity /\ n >= 1
  BY <1>1 DEF Tokens
<1>. HIDE DEF n
<1>3. n - 1 \in 0..Capacity /\ c \in -1..MaxClock
  BY <1>1, <1>2
<1>. QED
  BY <1>3 DEF Taken, n

\* A step counted as a fault stays within the bound.
LEMMA FaultStep ==
    ASSUME FaultsTyped, Fault PROVE FaultsTyped'
BY IngestAssumption DEF FaultsTyped, Fault

\* What the API leaves alone.
Behind == UNCHANGED <<queueVars, agentVars, patchVars, history>>

\* A request that neither stores nor indexes its log: it is new, or goes on to a place it may
\* reach without, and its log is uploaded when it says so.
ApiQuiet(r, l, c) ==
    FailOpen(r, l) \/ Arrive(r, l, c) \/ TooMany(r, l, c)
ApiGoes(r) ==
    Refuse(r) \/ Upload(r) \/ UploadFails(r) \/ StoreConflicts(r) \/ IndexFails(r) \/ ServerLost(r)

\* A new request changes nothing behind the API.
LEMMA ApiQuietStep ==
    ASSUME ApiTyped, FaultsTyped, NEW r \in Request, NEW l \in Log, NEW c \in 0..MaxClock,
           ApiQuiet(r, l, c)
    PROVE  /\ requests[r] = Unsent /\ requests'[r] # Unsent
           /\ requests'[r].log = l /\ requests'[r].pc \in {"arrived", "429"}
           /\ \A q \in Request \ {r} : requests'[q] = requests[q]
           /\ UNCHANGED <<objects, storeVars, docs>> /\ Behind
           /\ ApiTyped' /\ FaultsTyped'
<1>1. CASE FailOpen(r, l)
  <2>1. Sends(r, l, "arrived") /\ UNCHANGED <<bucket, objects, storeVars, docs>> /\ Behind /\ Fault
    BY <1>1 DEF FailOpen, Behind
  <2>. QED
    BY <2>1, SendsStep, FaultStep DEF ApiTyped
<1>2. CASE Arrive(r, l, c)
  <2>1. /\ Sends(r, l, "arrived") /\ UNCHANGED <<objects, storeVars, docs, faults>> /\ Behind
        /\ bucket' = Taken(Capacity, bucket, c) /\ Tokens(Capacity, bucket, c) >= 1
    BY <1>2 DEF Arrive, Behind
  <2>2. bucket' \in [tokens : 0..Capacity, at : -1..MaxClock]
    BY <2>1, TakenTyped DEF ApiTyped
  <2>. QED
    BY <2>1, <2>2, SendsStep DEF ApiTyped, FaultsTyped
<1>3. CASE TooMany(r, l, c)
  <2>1. /\ Sends(r, l, "429") /\ UNCHANGED <<bucket, objects, storeVars, docs, faults>> /\ Behind
    BY <1>3 DEF TooMany, Behind
  <2>. QED
    BY <2>1, SendsStep DEF ApiTyped, FaultsTyped
<1>. QED
  BY <1>1, <1>2, <1>3 DEF ApiQuiet

\* Nor does one that goes on without storing its log.
LEMMA ApiGoesStep ==
    ASSUME ApiTyped, FaultsTyped, NEW r \in Request, ApiGoes(r)
    PROVE  /\ requests[r] # Unsent /\ requests[r].pc \in {"arrived", "uploaded", "stored"}
           /\ requests'[r] # Unsent /\ requests'[r].log = requests[r].log
           /\ requests'[r].pc \notin {"arrived", "stored"}
           /\ requests'[r].pc = "uploaded" => requests[r].log \in objects'
           /\ requests'[r].pc = "202" => requests[r].pc = "stored"
           /\ requests[r].pc = "arrived" \/ UNCHANGED objects
           /\ \A q \in Request \ {r} : requests'[q] = requests[q]
           /\ objects \subseteq objects' /\ UNCHANGED <<storeVars, docs>> /\ Behind
           /\ ApiTyped' /\ FaultsTyped'
<1>. USE DEF ApiTyped
<1>1. CASE Refuse(r)
  <2>1. Goto(r, "arrived", "4xx") /\ UNCHANGED <<bucket, objects, storeVars, docs, faults>> /\ Behind
    BY <1>1 DEF Refuse, Behind
  <2>. QED
    BY <2>1, GotoStep DEF FaultsTyped
<1>2. CASE Upload(r)
  <2>1. /\ Goto(r, "arrived", "uploaded") /\ UNCHANGED <<bucket, storeVars, docs, faults>> /\ Behind
        /\ objects' = objects \cup {requests[r].log}
    BY <1>2 DEF Upload, Behind
  <2>. QED
    BY <2>1, GotoStep DEF FaultsTyped
<1>3. CASE UploadFails(r)
  <2>1. /\ Goto(r, "arrived", "5xx") /\ UNCHANGED <<bucket, storeVars, docs>> /\ Behind /\ Fault
        /\ objects' \in {objects, objects \cup {requests[r].log}}
    BY <1>3 DEF UploadFails, Behind
  <2>2. requests[r].log \in Log
    BY <2>1, GotoStep
  <2>3. objects' \subseteq Log /\ objects \subseteq objects'
    BY <2>1, <2>2
  <2>. QED
    BY <2>1, <2>3, GotoStep, FaultStep
<1>4. CASE StoreConflicts(r)
  <2>1. Goto(r, "uploaded", "5xx") /\ UNCHANGED <<bucket, objects, storeVars, docs, faults>> /\ Behind
    BY <1>4 DEF StoreConflicts, Behind
  <2>. QED
    BY <2>1, GotoStep DEF FaultsTyped
<1>5. CASE IndexFails(r)
  <2>1. Goto(r, "stored", "202") /\ UNCHANGED <<bucket, objects, storeVars, docs>> /\ Behind /\ Fault
    BY <1>5 DEF IndexFails, Behind
  <2>. QED
    BY <2>1, GotoStep, FaultStep
<1>6. CASE ServerLost(r)
  <2>1. /\ UNCHANGED <<bucket, objects, storeVars, docs>> /\ Behind /\ Fault
        /\ \E pc \in {"arrived", "uploaded", "stored"} : Goto(r, pc, "lost")
    BY <1>6 DEF ServerLost, Behind
  <2>2. PICK pc \in {"arrived", "uploaded", "stored"} : Goto(r, pc, "lost")
    BY <2>1
  <2>. QED
    BY <2>1, <2>2, GotoStep, FaultStep
<1>. QED
  BY <1>1, <1>2, <1>3, <1>4, <1>5, <1>6 DEF ApiGoes

\* A log reaches the topic.
Appends(l) == topic' = Append(topic, l)

\* The topic with one event more.
LEMMA AppendStep ==
    ASSUME StoreTyped, NEW l \in Log, Appends(l)
    PROVE  /\ topic' \in Seq(Log) /\ Len(topic) \in Nat /\ Len(topic') = Len(topic) + 1
           /\ \A k \in 1..Len(topic) : topic'[k] = topic[k]
           /\ topic'[Len(topic) + 1] = l
           /\ UNCHANGED offset => offset' \in 0..Len(topic')
<1>1. topic \in Seq(Log) /\ offset \in 0..Len(topic)
  BY DEF StoreTyped
<1>. QED
  BY <1>1 DEF Appends

\* A log is stored with its event, or not at all; the client may not hear of it.
LEMMA StoreStep ==
    ASSUME ApiTyped, FaultsTyped, StoreTyped, NEW r \in Request, Store(r) \/ StoreFails(r)
    PROVE  /\ requests[r] # Unsent /\ requests[r].pc = "uploaded" /\ requests[r].log \in Log
           /\ requests[r].log \notin rows
           /\ requests'[r] # Unsent /\ requests'[r].log = requests[r].log
           /\ requests'[r].pc \in {"stored", "5xx"}
           /\ \A q \in Request \ {r} : requests'[q] = requests[q]
           /\ \/ requests'[r].pc = "5xx" /\ UNCHANGED storeVars
              \/ rows' = rows \cup {requests[r].log} /\ Appends(requests[r].log)
           /\ UNCHANGED <<objects, docs>> /\ Behind
           /\ ApiTyped' /\ StoreTyped' /\ FaultsTyped'
<1>. DEFINE l == requests[r].log
<1>1. CASE Store(r)
  <2>1. /\ Goto(r, "uploaded", "stored") /\ UNCHANGED <<bucket, objects, docs, faults>> /\ Behind
        /\ rows' = rows \cup {l} /\ Appends(l) /\ l \notin rows
    BY <1>1 DEF Store, Behind, Appends
  <2>2. l \in Log
    BY <2>1, GotoStep
  <2>3. StoreTyped'
    BY <2>1, <2>2, AppendStep DEF StoreTyped, Behind, queueVars
  <2>. QED
    BY <2>1, <2>2, <2>3, GotoStep DEF FaultsTyped, ApiTyped
<1>2. CASE StoreFails(r)
  <2>1. /\ Goto(r, "uploaded", "5xx") /\ UNCHANGED <<bucket, objects, docs>> /\ Behind /\ Fault
        /\ l \notin rows
        /\ UNCHANGED storeVars \/ (rows' = rows \cup {l} /\ Appends(l))
    BY <1>2 DEF StoreFails, Behind, Appends
  <2>2. l \in Log
    BY <2>1, GotoStep
  <2>3. StoreTyped'
    BY <2>1, <2>2, AppendStep DEF StoreTyped, Behind, queueVars, storeVars
  <2>. QED
    BY <2>1, <2>2, <2>3, GotoStep, FaultStep DEF ApiTyped
<1>. QED
  BY <1>1, <1>2

\* The document of a new log names the log.
LEMMA IndexStep ==
    ASSUME ApiTyped, DocsTyped, FaultsTyped, NEW r \in Request, IndexDocument(r)
    PROVE  /\ requests[r] # Unsent /\ requests[r].pc = "stored" /\ requests[r].log \in Log
           /\ requests'[r] # Unsent /\ requests'[r].log = requests[r].log
           /\ requests'[r].pc = "202"
           /\ \A q \in Request \ {r} : requests'[q] = requests[q] /\ docs'[q] = docs[q]
           /\ docs'[r].incident = requests[r].log
           /\ docs'[r].late <=> requests[r].log \in done
           /\ UNCHANGED <<objects, storeVars>> /\ Behind
           /\ ApiTyped' /\ DocsTyped' /\ FaultsTyped'
<1>. DEFINE l == requests[r].log
            doc == NewDoc(l)
<1>1. /\ Goto(r, "stored", "202") /\ UNCHANGED <<bucket, objects, storeVars, faults>> /\ Behind
      /\ docs' = [docs EXCEPT ![r] = doc] /\ docs \in [Request -> DocState]
  BY DEF IndexDocument, Behind, DocsTyped
<1>2. l \in Log
  BY <1>1, GotoStep
<1>3. doc \in DocState /\ doc.incident = l /\ (doc.late <=> l \in done)
  <2>. DEFINE late == l \in done
  <2>1. doc = [incident |-> l, status |-> "open", late |-> late, clean |-> FALSE]
    BY DEF NewDoc
  <2>2. late \in BOOLEAN
    OBVIOUS
  <2>. HIDE DEF doc, late, l
  <2>3. doc \in DocState /\ doc.incident = l /\ doc.late = late
    BY <1>2, <2>1, <2>2 DEF DocState, Status
  <2>. QED
    BY Zenon, <2>3 DEF late
<1>. HIDE DEF doc
<1>4. /\ docs'[r] = doc /\ docs' \in [Request -> DocState]
      /\ \A q \in Request \ {r} : docs'[q] = docs[q]
  BY <1>1, <1>3
<1>. QED
  BY <1>1, <1>3, <1>4, GotoStep DEF ApiTyped, DocsTyped, FaultsTyped

\* A counter of one log goes up or down.
Raised(new, old, l) == new[l] = old[l] + 1 /\ \A m \in Log \ {l} : new[m] = old[m]
Lowered(new, old, l) == new[l] = old[l] - 1 /\ \A m \in Log \ {l} : new[m] = old[m]

\* A counter goes up or down by one and stays a number.
LEMMA Counts ==
    ASSUME NEW old \in [Log -> Nat], NEW l \in Log
    PROVE  /\ \A new : new = [old EXCEPT ![l] = @ + 1] =>
                 new \in [Log -> Nat] /\ Raised(new, old, l)
           /\ \A new : new = [old EXCEPT ![l] = @ - 1] /\ old[l] > 0 =>
                 new \in [Log -> Nat] /\ Lowered(new, old, l)
<1>1. old[l] \in Nat
  OBVIOUS
<1>2. ASSUME NEW new, new = [old EXCEPT ![l] = @ + 1]
      PROVE  new \in [Log -> Nat] /\ Raised(new, old, l)
  BY <1>1, <1>2 DEF Raised
<1>3. ASSUME NEW new, new = [old EXCEPT ![l] = @ - 1], old[l] > 0
      PROVE  new \in [Log -> Nat] /\ Lowered(new, old, l)
  <2>1. old[l] - 1 \in Nat
    BY <1>1, <1>3
  <2>. QED
    BY <1>3, <2>1 DEF Lowered
<1>. QED
  BY <1>2, <1>3

\* What the queues leave alone.
Beside == UNCHANGED <<apiVars, docs, patchVars, astray>>

\* The consumer sends parse_log, and commits the offset or will send it again.
LEMMA DeliverStep ==
    ASSUME StoreTyped, QueueTyped, FaultsTyped, Deliver \/ DeliverRepeated
    PROVE  LET l == topic[offset + 1]
           IN  /\ l \in Log /\ offset \in Nat /\ offset + 1 \in 1..Len(topic)
               /\ Raised(parses', parses, l)
               /\ \/ offset' = offset + 1 /\ UNCHANGED repeats
                  \/ offset' = offset /\ Raised(repeats', repeats, l)
               /\ UNCHANGED <<storeVars, agents, agentVars, dropped>> /\ Beside
               /\ StoreTyped' /\ QueueTyped' /\ FaultsTyped'
<1>. DEFINE l == topic[offset + 1]
<1>0. topic \in Seq(Log) /\ offset \in 0..Len(topic) /\ Len(topic) \in Nat
  BY DEF StoreTyped
<1>1. /\ offset < Len(topic) /\ parses' = [parses EXCEPT ![l] = @ + 1]
      /\ UNCHANGED <<storeVars, agents, agentVars, dropped>> /\ Beside
      /\ \/ offset' = offset + 1 /\ UNCHANGED <<repeats, faults>>
         \/ offset' = offset /\ repeats' = [repeats EXCEPT ![l] = @ + 1] /\ Fault
  BY DEF Deliver, DeliverRepeated, Beside, history
<1>2. offset + 1 \in 1..Len(topic) /\ offset \in Nat
  BY <1>0, <1>1
<1>3. l \in Log
  BY <1>0, <1>2
<1>. HIDE DEF l
<1>4. parses' \in [Log -> Nat] /\ Raised(parses', parses, l)
  BY <1>1, <1>3, Counts DEF QueueTyped
<1>5. CASE offset' = offset + 1 /\ UNCHANGED <<repeats, faults>>
  <2>1. StoreTyped'
    <3>1. rows' = rows /\ topic' = topic
      BY <1>1 DEF storeVars
    <3>2. offset' \in 0..Len(topic)
      BY <1>2, <1>5
    <3>. QED
      BY <3>1, <3>2 DEF StoreTyped
  <2>2. QueueTyped' /\ FaultsTyped'
    BY <1>1, <1>4, <1>5 DEF QueueTyped, FaultsTyped, agentVars
  <2>. QED
    BY <1>1, <1>2, <1>3, <1>4, <1>5, <2>1, <2>2 DEF l
<1>6. CASE offset' = offset /\ repeats' = [repeats EXCEPT ![l] = @ + 1] /\ Fault
  <2>1. repeats' \in [Log -> Nat] /\ Raised(repeats', repeats, l)
    BY <1>3, <1>6, Counts DEF QueueTyped
  <2>. QED
    BY <1>0, <1>1, <1>2, <1>3, <1>4, <1>6, <2>1, FaultStep DEF l, StoreTyped, QueueTyped, storeVars, agentVars
<1>. QED
  BY <1>1, <1>5, <1>6

\* A log of a row comes once more.
LEMMA RedeliverStep ==
    ASSUME StoreTyped, QueueTyped, FaultsTyped, NEW l \in Log, Redeliver(l)
    PROVE  /\ l \in rows /\ Appends(l) /\ UNCHANGED rows
           /\ Raised(repeats', repeats, l)
           /\ UNCHANGED <<queueVars, agentVars, dropped>> /\ Beside
           /\ StoreTyped' /\ QueueTyped' /\ FaultsTyped'
<1>1. /\ l \in rows /\ Appends(l) /\ UNCHANGED rows /\ Fault
      /\ repeats' = [repeats EXCEPT ![l] = @ + 1]
      /\ UNCHANGED <<queueVars, agentVars, dropped>> /\ Beside
  BY DEF Redeliver, Appends, Beside
<1>2. repeats' \in [Log -> Nat] /\ Raised(repeats', repeats, l)
  BY <1>1, Counts DEF QueueTyped
<1>3. StoreTyped'
  BY <1>1, AppendStep DEF StoreTyped, queueVars
<1>4. QueueTyped'
  BY <1>1, <1>2 DEF QueueTyped, queueVars, agentVars
<1>. QED
  BY <1>1, <1>2, <1>3, <1>4, FaultStep

\* parse_log sends run_agent, or ends without it.
LEMMA ParseStep ==
    ASSUME QueueTyped, FaultsTyped, NEW l \in Log, Parse(l) \/ ParseRepeated(l) \/ ParseFails(l)
    PROVE  /\ parses[l] > 0
           /\ \/ /\ Lowered(parses', parses, l) /\ Raised(agents', agents, l)
                 /\ UNCHANGED <<repeats, dropped>>
              \/ /\ UNCHANGED <<parses, dropped>> /\ Raised(agents', agents, l)
                 /\ Raised(repeats', repeats, l)
              \/ /\ Lowered(parses', parses, l) /\ UNCHANGED <<agents, repeats>>
                 /\ dropped' = dropped \cup {l}
           /\ UNCHANGED <<offset, storeVars, agentVars>> /\ Beside
           /\ QueueTyped' /\ FaultsTyped'
<1>1. CASE Parse(l)
  <2>1. /\ parses[l] > 0 /\ parses' = [parses EXCEPT ![l] = @ - 1]
        /\ agents' = [agents EXCEPT ![l] = @ + 1]
        /\ UNCHANGED <<offset, storeVars, agentVars, repeats, dropped, faults>> /\ Beside
    BY <1>1 DEF Parse, Beside, history
  <2>2. /\ parses' \in [Log -> Nat] /\ Lowered(parses', parses, l)
        /\ agents' \in [Log -> Nat] /\ Raised(agents', agents, l)
    BY <2>1, Counts DEF QueueTyped
  <2>. QED
    BY <2>1, <2>2 DEF QueueTyped, FaultsTyped, agentVars
<1>2. CASE ParseRepeated(l)
  <2>1. /\ parses[l] > 0 /\ UNCHANGED parses /\ agents' = [agents EXCEPT ![l] = @ + 1]
        /\ repeats' = [repeats EXCEPT ![l] = @ + 1] /\ Fault
        /\ UNCHANGED <<offset, storeVars, agentVars, dropped>> /\ Beside
    BY <1>2 DEF ParseRepeated, Beside
  <2>2. /\ agents' \in [Log -> Nat] /\ Raised(agents', agents, l)
        /\ repeats' \in [Log -> Nat] /\ Raised(repeats', repeats, l)
    BY <2>1, Counts DEF QueueTyped
  <2>. QED
    BY <2>1, <2>2, FaultStep DEF QueueTyped, agentVars
<1>3. CASE ParseFails(l)
  <2>1. /\ parses[l] > 0 /\ UNCHANGED <<agents, repeats>> /\ Fault
        /\ parses' = [parses EXCEPT ![l] = @ - 1] /\ dropped' = dropped \cup {l}
        /\ UNCHANGED <<offset, storeVars, agentVars>> /\ Beside
    BY <1>3 DEF ParseFails, Beside
  <2>2. parses' \in [Log -> Nat] /\ Lowered(parses', parses, l)
    BY <2>1, Counts DEF QueueTyped
  <2>. QED
    BY <2>1, <2>2, FaultStep DEF QueueTyped, agentVars
<1>. QED
  BY <1>1, <1>2, <1>3

\* run_agent starts with the lock, or meets it.
LEMMA StartStep ==
    ASSUME QueueTyped, RunTyped, FaultsTyped, NEW l \in Log, StartAgent(l) \/ Contention(l)
    PROVE  /\ agents[l] > 0 /\ Lowered(agents', agents, l)
           /\ \/ /\ run = NoRun /\ run' = [pc |-> "fields", log |-> l] /\ UNCHANGED dropped
              \/ /\ run # NoRun /\ UNCHANGED run /\ dropped' = dropped \cup {l}
           /\ UNCHANGED <<offset, parses, storeVars, incidents, done, repeats>> /\ Beside
           /\ QueueTyped' /\ RunTyped' /\ FaultsTyped'
<1>1. /\ agents[l] > 0 /\ agents' = [agents EXCEPT ![l] = @ - 1]
      /\ \/ /\ run = NoRun /\ run' = [pc |-> "fields", log |-> l] /\ UNCHANGED dropped
         \/ /\ run # NoRun /\ UNCHANGED run /\ dropped' = dropped \cup {l}
      /\ UNCHANGED <<offset, parses, storeVars, incidents, done, repeats, faults>> /\ Beside
  BY DEF StartAgent, Contention, Beside, history, agentVars
<1>2. agents' \in [Log -> Nat] /\ Lowered(agents', agents, l)
  BY <1>1, Counts DEF QueueTyped
<1>3. RunTyped'
  <2>1. [pc |-> "fields", log |-> l] \in RunState /\ [pc |-> "fields", log |-> l].pc = "fields"
    BY DEF RunState
  <2>. QED
    BY <1>1, <2>1 DEF RunTyped
<1>. QED
  BY <1>1, <1>2, <1>3 DEF QueueTyped, FaultsTyped

-----------------------------------------------------------------------------
(* The steps of run_agent *)

\* What a run holds, by its place.
LEMMA RunHolds ==
    ASSUME RunTyped
    PROVE  /\ run = NoRun <=> run.pc = "none"
           /\ run # NoRun => run.log \in Log /\ run.pc \in {"fields", "find", "analyse", "record", "link"}
           /\ run.pc \in {"record", "link"} =>
                  run.incident \in IncidentId /\ run.status \in Status
<1>1. run \in RunState /\ NoRun.pc = "none"
  BY DEF RunTyped, NoRun
<1>2. CASE run = NoRun
  BY <1>1, <1>2
<1>3. CASE run \in [pc : {"fields", "find", "analyse"}, log : Log]
  <2>1. run.pc \in {"fields", "find", "analyse"} /\ run.log \in Log
    BY <1>3
  <2>. QED
    BY <1>1, <2>1
<1>4. CASE run \in [pc : {"record", "link"}, log : Log, incident : IncidentId, status : Status]
  <2>1. /\ run.pc \in {"record", "link"} /\ run.log \in Log
        /\ run.incident \in IncidentId /\ run.status \in Status
    BY <1>4
  <2>. QED
    BY <1>1, <2>1
<1>. QED
  BY <1>1, <1>2, <1>3, <1>4 DEF RunState

\* The states a run can go to.
LEMMA NewRun ==
    ASSUME NEW l \in Log
    PROVE  /\ \A to \in {"fields", "find", "analyse"} :
                  /\ [pc |-> to, log |-> l] \in RunState
                  /\ [pc |-> to, log |-> l].pc = to /\ [pc |-> to, log |-> l].log = l
           /\ \A to \in {"record", "link"}, i \in IncidentId, s \in Status :
                  LET new == [pc |-> to, log |-> l, incident |-> i, status |-> s]
                  IN  /\ new \in RunState
                      /\ new.pc = to /\ new.log = l /\ new.incident = i /\ new.status = s
BY DEF RunState

\* The index as another refresh shows it.
Alike(index) ==
    \A r \in Request :
        /\ index[r] = NoDoc <=> docs[r] = NoDoc
        /\ docs[r] # NoDoc => /\ index[r].incident = docs[r].incident
                              /\ index[r].status = docs[r].status
                              /\ index[r].late = docs[r].late

\* A refresh makes documents visible and changes nothing in them.
LEMMA RefreshIsAlike ==
    ASSUME NEW index \in [Request -> DocState]
    PROVE  /\ Refreshed(index) \in [Request -> DocState]
           /\ \A r \in Request :
                  /\ Refreshed(index)[r] = NoDoc <=> index[r] = NoDoc
                  /\ index[r] # NoDoc => /\ Refreshed(index)[r].incident = index[r].incident
                                         /\ Refreshed(index)[r].status = index[r].status
                                         /\ Refreshed(index)[r].late = index[r].late
<1>1. ASSUME NEW d \in DocState
      PROVE  /\ [d EXCEPT !.clean = TRUE] \in DocState
             /\ [d EXCEPT !.clean = TRUE] = NoDoc <=> d = NoDoc
             /\ d # NoDoc => /\ [d EXCEPT !.clean = TRUE].incident = d.incident
                             /\ [d EXCEPT !.clean = TRUE].status = d.status
                             /\ [d EXCEPT !.clean = TRUE].late = d.late
  <2>1. CASE d = NoDoc
    <3>1. [d EXCEPT !.clean = TRUE] = NoDoc
      <4>1. NoDoc \in [clean : BOOLEAN] /\ NoDoc.clean = TRUE
        BY DEF NoDoc
      <4>2. \A f \in [clean : BOOLEAN] : f.clean = TRUE => [f EXCEPT !.clean = TRUE] = f
        OBVIOUS
      <4>. QED
        BY <2>1, <4>1, <4>2
    <3>. QED
      BY <2>1, <3>1
  <2>2. CASE d # NoDoc
    <3>1. d \in [incident : Log \cup IncidentId, status : Status, late : BOOLEAN, clean : BOOLEAN]
      BY <2>2 DEF DocState
    <3>2. /\ [d EXCEPT !.clean = TRUE] \in [incident : Log \cup IncidentId, status : Status,
                                            late : BOOLEAN, clean : BOOLEAN]
          /\ [d EXCEPT !.clean = TRUE].incident = d.incident
          /\ [d EXCEPT !.clean = TRUE].status = d.status
          /\ [d EXCEPT !.clean = TRUE].late = d.late
      BY <3>1
    <3>3. [d EXCEPT !.clean = TRUE] # NoDoc
      <4>1. DOMAIN [d EXCEPT !.clean = TRUE] = {"incident", "status", "late", "clean"}
        BY <3>2
      <4>2. DOMAIN NoDoc = {"clean"}
        BY DEF NoDoc
      <4>. QED
        BY <4>1, <4>2
    <3>. QED
      BY <2>2, <3>2, <3>3 DEF DocState
  <2>. QED
    BY <2>1, <2>2
<1>2. \A r \in Request : Refreshed(index)[r] = [index[r] EXCEPT !.clean = TRUE] /\ index[r] \in DocState
  <2>1. ASSUME NEW r \in Request PROVE Refreshed(index)[r] = [index[r] EXCEPT !.clean = TRUE]
    BY Zenon DEF Refreshed
  <2>2. \A r \in Request : index[r] \in DocState
    OBVIOUS
  <2>. QED
    BY <2>1, <2>2
<1>3. Refreshed(index) = [r \in Request |-> Refreshed(index)[r]]
  BY Zenon DEF Refreshed
<1>4. ASSUME NEW r \in Request
      PROVE  /\ Refreshed(index)[r] \in DocState
             /\ Refreshed(index)[r] = NoDoc <=> index[r] = NoDoc
             /\ index[r] # NoDoc => /\ Refreshed(index)[r].incident = index[r].incident
                                    /\ Refreshed(index)[r].status = index[r].status
                                    /\ Refreshed(index)[r].late = index[r].late
  <2>. DEFINE d == index[r]
  <2>1. d \in DocState /\ Refreshed(index)[r] = [d EXCEPT !.clean = TRUE]
    BY <1>2
  <2>. HIDE DEF d
  <2>2. /\ [d EXCEPT !.clean = TRUE] \in DocState
        /\ [d EXCEPT !.clean = TRUE] = NoDoc <=> d = NoDoc
        /\ d # NoDoc => /\ [d EXCEPT !.clean = TRUE].incident = d.incident
                        /\ [d EXCEPT !.clean = TRUE].status = d.status
                        /\ [d EXCEPT !.clean = TRUE].late = d.late
    BY <1>1, <2>1, Zenon
  <2>. QED
    BY <2>1, <2>2, Zenon DEF d
<1>5. Refreshed(index) \in [Request -> DocState]
  BY <1>3, <1>4, Zenon
<1>. QED
  BY <1>4, <1>5, Zenon

\* What run_agent leaves alone.
Aside == UNCHANGED <<apiVars, storeVars, offset, parses, patchVars, astray>>

\* update_parsed_fields only refreshes the documents.
LEMMA UpdateFieldsStep ==
    ASSUME RunTyped, DocsTyped, FaultsTyped, UpdateFields \/ UpdateFieldsFails
    PROVE  /\ run.pc = "fields" /\ run.log \in Log /\ run' = [pc |-> "find", log |-> run.log]
           /\ Alike(docs')
           /\ UNCHANGED <<incidents, done, agents, repeats, dropped>> /\ Aside
           /\ RunTyped' /\ DocsTyped' /\ FaultsTyped'
<1>1. /\ run.pc = "fields" /\ run' = [run EXCEPT !.pc = "find"]
      /\ docs' = Refreshed(docs) \/ docs' = docs
      /\ UNCHANGED <<incidents, done, agents, repeats, dropped>> /\ Aside
      /\ UNCHANGED faults \/ Fault
  BY DEF UpdateFields, UpdateFieldsFails, Aside, queueVars, history
<1>2. run \in [pc : {"fields", "find", "analyse"}, log : Log]
  BY <1>1 DEF RunTyped, RunState, NoRun
<1>3. run.log \in Log /\ run' = [pc |-> "find", log |-> run.log]
  BY <1>1, <1>2
<1>4. RunTyped'
  <2>1. run' \in RunState /\ run'.pc = "find"
    BY <1>3 DEF RunState
  <2>. QED
    BY <1>1, <2>1 DEF RunTyped
<1>5. Alike(docs') /\ DocsTyped'
  BY <1>1, RefreshIsAlike DEF Alike, DocsTyped
<1>. QED
  BY <1>1, <1>3, <1>4, <1>5, FaultStep DEF FaultsTyped

\* The periodic refresh changes no document.
LEMMA RefreshStep ==
    ASSUME DocsTyped, FaultsTyped, Refresh
    PROVE  /\ Alike(docs')
           /\ UNCHANGED <<agentVars, agents, repeats, dropped>> /\ Aside
           /\ DocsTyped' /\ FaultsTyped'
<1>1. /\ docs' = Refreshed(docs) /\ docs \in [Request -> DocState]
      /\ UNCHANGED <<agentVars, agents, repeats, dropped, faults>> /\ Aside
  BY DEF Refresh, DocsTyped, Aside, queueVars, history
<1>2. Alike(docs') /\ DocsTyped'
  BY <1>1, RefreshIsAlike DEF Alike, DocsTyped
<1>. QED
  BY <1>1, <1>2 DEF FaultsTyped

\* A run goes on with the status it has read.
LEMMA FindStep ==
    ASSUME RunTyped, FaultsTyped, FindActive
    PROVE  /\ run.pc = "find" /\ run.log \in Log
           /\ \E i \in IncidentId :
                  /\ Live(incidents, i)
                  /\ run' = [pc |-> "record", log |-> run.log, incident |-> i,
                             status |-> incidents[i].status]
           /\ UNCHANGED <<docs, incidents, done, agents, repeats, dropped>> /\ Aside
           /\ RunTyped' /\ FaultsTyped'
<1>1. /\ run.pc = "find"
      /\ UNCHANGED <<docs, incidents, done, agents, repeats, dropped, faults>> /\ Aside
  BY DEF FindActive, Aside, queueVars, history
<1>2. PICK i \in IncidentId :
          /\ IsActive(incidents, i, TheFingerprint)
          /\ run' = [pc |-> "record", log |-> run.log, incident |-> i,
                     status |-> incidents[i].status]
  BY DEF FindActive
<1>3. run.log \in Log
  BY <1>1, RunHolds
<1>4. Live(incidents, i) /\ incidents[i].status \in Status
  BY <1>2 DEF IsActive, Live
<1>5. RunTyped'
  <2>1. run' \in RunState /\ run'.incident = i
    BY <1>2, <1>3, <1>4, NewRun
  <2>. QED
    BY <1>1, <1>4, <2>1 DEF RunTyped
<1>. QED
  BY <1>1, <1>2, <1>3, <1>4, <1>5 DEF FaultsTyped

\* A run that has found no incident keeps its log.
LEMMA FindNoneStep ==
    ASSUME RunTyped, FaultsTyped, FindNone
    PROVE  /\ run.pc = "find" /\ run.log \in Log /\ run' = [pc |-> "analyse", log |-> run.log]
           /\ UNCHANGED <<docs, incidents, done, agents, repeats, dropped>> /\ Aside
           /\ RunTyped' /\ FaultsTyped'
<1>1. /\ run.pc = "find" /\ run' = [run EXCEPT !.pc = "analyse"]
      /\ UNCHANGED <<docs, incidents, done, agents, repeats, dropped, faults>> /\ Aside
  BY DEF FindNone, Aside, queueVars, history
<1>2. run \in [pc : {"fields", "find", "analyse"}, log : Log]
  BY <1>1 DEF RunTyped, RunState, NoRun
<1>3. run.log \in Log /\ run' = [pc |-> "analyse", log |-> run.log]
  BY <1>1, <1>2
<1>4. run' \in RunState /\ run'.pc = "analyse"
  BY <1>3, NewRun
<1>. QED
  BY <1>1, <1>3, <1>4 DEF RunTyped, FaultsTyped

\* The run has written incident i: an occurrence of its log more, or a new row.
Writes(i) ==
    /\ run.pc \in {"analyse", "record"} /\ run.log \in Log
    /\ incidents' \in Table /\ incidents'[i] \in Row
    /\ \A j \in IncidentId \ {i} : incidents'[j] = incidents[j]
    /\ \/ /\ run.pc = "record" /\ i = run.incident /\ Live(incidents, i)
          /\ ~(patch # NoPatch /\ patch.incident = i)
          /\ incidents'[i].status = incidents[i].status
          /\ incidents'[i].occurrences = Append(incidents[i].occurrences, run.log)
          /\ run' = [pc |-> "link", log |-> run.log, incident |-> i, status |-> run.status]
       \/ /\ run.pc = "analyse" /\ ~Live(incidents, i)
          /\ incidents'[i].status = "open"
          /\ incidents'[i].occurrences = <<run.log>>
          /\ run' = [pc |-> "link", log |-> run.log, incident |-> i, status |-> "open"]

\* The run writes one row.
LEMMA WriteStep ==
    ASSUME RunTyped, FaultsTyped, PatchTyped, RecordDuplicate \/ Create
    PROVE  /\ \E i \in IncidentId : Writes(i)
           /\ UNCHANGED <<docs, done, agents, repeats, dropped>> /\ Aside
           /\ RunTyped' /\ FaultsTyped' /\ PatchTyped'
<1>1. /\ run.pc \in {"analyse", "record"}
      /\ UNCHANGED <<docs, done, agents, repeats, dropped, faults>> /\ Aside
  BY DEF RecordDuplicate, Create, Aside, queueVars, history
<1>2. run.log \in Log /\ incidents \in Table
  BY <1>1, RunHolds DEF RunTyped, NoRun
<1>3. \E i \in IncidentId : Writes(i)
  <2>1. CASE RecordDuplicate
    <3>. DEFINE i == run.incident
                row == WithOccurrence(incidents[i], run.log)
    <3>1. /\ run.pc = "record" /\ run' = [run EXCEPT !.pc = "link"]
          /\ incidents' = [incidents EXCEPT ![i] = row]
          /\ ~(patch # NoPatch /\ patch.incident = i)
      BY <2>1 DEF RecordDuplicate
    <3>2. i \in IncidentId /\ Live(incidents, i) /\ incidents[i] \in Row
      BY <1>2, <3>1, RunHolds, LiveIsRow DEF RunTyped
    <3>3. /\ row \in Row /\ row.status = incidents[i].status
          /\ row.occurrences = Append(incidents[i].occurrences, run.log)
      BY <1>2, <3>2, WithOccurrenceIsRow
    <3>4. run \in [pc : {"record", "link"}, log : Log, incident : IncidentId, status : Status]
      BY <3>1 DEF RunTyped, RunState, NoRun
    <3>5. run' = [pc |-> "link", log |-> run.log, incident |-> i, status |-> run.status]
      BY <3>1, <3>4
    <3>. HIDE DEF row
    <3>6. /\ incidents' \in Table /\ incidents'[i] = row
          /\ \A j \in IncidentId \ {i} : incidents'[j] = incidents[j]
      BY <1>2, <3>1, <3>2, <3>3 DEF Table
    <3>. QED
      BY <1>2, <3>1, <3>2, <3>3, <3>5, <3>6 DEF Writes
  <2>2. CASE Create
    <3>. DEFINE row == NewIncident(TheFingerprint, run.log)
    <3>1. PICK i \in IncidentId :
              /\ incidents[i] = Unissued
              /\ incidents' = [incidents EXCEPT ![i] = row]
              /\ run' = [pc |-> "link", log |-> run.log, incident |-> i, status |-> "open"]
      BY <2>2 DEF Create
    <3>2. run.pc = "analyse" /\ ~Live(incidents, i)
      BY <2>2, <3>1 DEF Create, Live, Unissued, Status
    <3>3. TheFingerprint \in Fingerprint
      BY IngestAssumption DEF TheFingerprint
    <3>4. row \in Row /\ row.status = "open" /\ row.occurrences = <<run.log>>
      BY <1>2, <3>3, NewIncidentIsRow DEF NewIncident
    <3>. HIDE DEF row
    <3>5. /\ incidents' \in Table /\ incidents'[i] = row
          /\ \A j \in IncidentId \ {i} : incidents'[j] = incidents[j]
      BY <1>2, <3>1, <3>4 DEF Table
    <3>. QED
      BY <1>2, <3>1, <3>2, <3>4, <3>5 DEF Writes
  <2>. QED
    BY <2>1, <2>2
<1>4. PICK i \in IncidentId : Writes(i)
  BY <1>3
<1>5. \A j \in IncidentId : Live(incidents, j) => Live(incidents', j)
  BY <1>4 DEF Writes, Live, Row
<1>6. incidents' \in Table
  BY <1>4 DEF Writes
<1>7. RunTyped'
  <2>1. run' \in RunState /\ run'.incident = i /\ Live(incidents', i)
    <3>1. Live(incidents', i)
      BY <1>4 DEF Writes, Live, Row
    <3>2. run.pc = "record" => run.status \in Status
      BY RunHolds
    <3>3. "open" \in Status
      BY DEF Status
    <3>4. \E s \in Status :
              run' = [pc |-> "link", log |-> run.log, incident |-> i, status |-> s]
      BY <1>4, <3>2, <3>3 DEF Writes
    <3>. QED
      BY <1>2, <3>1, <3>4 DEF RunState
  <2>. QED
    BY <1>6, <2>1 DEF RunTyped
<1>8. PatchTyped'
  <2>1. patch # NoPatch => patch.incident \in IncidentId
    BY DEF PatchTyped, PatchState
  <2>. QED
    BY <1>1, <1>5, <2>1 DEF PatchTyped, Aside, patchVars
<1>. QED
  BY <1>1, <1>3, <1>7, <1>8 DEF FaultsTyped

Document == [incident : Log \cup IncidentId, status : Status, late : BOOLEAN, clean : BOOLEAN]

\* A document is not the place without one.
LEMMA DocHolds ==
    /\ NoDoc \notin Document
    /\ \A d \in DocState : d # NoDoc <=> d \in Document
<1>1. NoDoc \notin Document
  <2>1. DOMAIN NoDoc = {"clean"}
    BY DEF NoDoc
  <2>2. \A e \in Document : DOMAIN e = {"incident", "status", "late", "clean"}
    BY DEF Document
  <2>. QED
    BY <2>1, <2>2
<1>. QED
  BY <1>1 DEF DocState, Document

\* A document that names another incident, or another status, is a document.
\* A document that names another incident, or another status, is a document.
LinkedAs(d, i, s) == [d EXCEPT !.incident = i, !.status = s]

\* It is one after link_log_to_incident.
LEMMA LinkedDoc ==
    ASSUME NEW d \in DocState, d # NoDoc, NEW i \in IncidentId, NEW s \in Status
    PROVE  LET new == LinkedAs(d, i, s)
           IN  /\ new \in DocState /\ new # NoDoc
               /\ new.incident = i /\ new.status = s /\ new.late = d.late
<1>. DEFINE new == LinkedAs(d, i, s)
<1>1. d \in Document
  BY DocHolds
<1>2. new \in Document /\ new.incident = i /\ new.status = s /\ new.late = d.late
  BY <1>1 DEF Document, LinkedAs
<1>. HIDE DEF new
<1>3. new \in DocState
  BY <1>2 DEF DocState, Document
<1>. QED
  BY <1>2, <1>3, DocHolds DEF new

PatchedAs(d, s) == [d EXCEPT !.status = s, !.clean = FALSE]

\* And after update_incident_status.
LEMMA PatchedDoc ==
    ASSUME NEW d \in DocState, d # NoDoc, NEW s \in Status
    PROVE  LET new == PatchedAs(d, s)
           IN  /\ new \in DocState /\ new # NoDoc
               /\ new.incident = d.incident /\ new.status = s /\ new.late = d.late
<1>. DEFINE new == PatchedAs(d, s)
<1>1. d \in Document
  BY DocHolds
<1>2. new \in Document /\ new.incident = d.incident /\ new.status = s /\ new.late = d.late
  BY <1>1 DEF Document, PatchedAs
<1>. HIDE DEF new
<1>3. new \in DocState
  BY <1>2 DEF DocState, Document
<1>. QED
  BY <1>2, <1>3, DocHolds DEF new

\* A run ends without a word to Elasticsearch.
LEMMA EndStep ==
    ASSUME QueueTyped, RunTyped, FaultsTyped, LateDuplicate \/ NotActionable \/ LinkNothing \/ AgentLost
    PROVE  /\ run # NoRun /\ run.log \in Log /\ run' = NoRun
           /\ \/ /\ dropped' = dropped \cup {run.log} /\ UNCHANGED <<done, agents, repeats>>
              \/ /\ done' = done \cup {run.log} /\ UNCHANGED <<dropped, agents, repeats>>
                 /\ Stored(run.log) = {}
              \/ /\ Raised(agents', agents, run.log) /\ Raised(repeats', repeats, run.log)
                 /\ UNCHANGED <<dropped, done>>
           /\ UNCHANGED <<docs, incidents>> /\ Aside
           /\ QueueTyped' /\ RunTyped' /\ FaultsTyped'
<1>1. /\ run # NoRun /\ run' = NoRun /\ UNCHANGED <<docs, incidents>> /\ Aside
      /\ \/ /\ dropped' = dropped \cup {run.log} /\ UNCHANGED <<done, agents, repeats, faults>>
         \/ /\ done' = done \cup {run.log} /\ UNCHANGED <<dropped, agents, repeats, faults>>
            /\ Stored(run.log) = {}
         \/ /\ agents' = [agents EXCEPT ![run.log] = @ + 1]
            /\ repeats' = [repeats EXCEPT ![run.log] = @ + 1]
            /\ UNCHANGED <<dropped, done>> /\ Fault
  <2>1. CASE LateDuplicate \/ NotActionable
    BY <2>1 DEF LateDuplicate, NotActionable, Drop, NoRun, Aside, queueVars, history
  <2>2. CASE LinkNothing
    BY <2>2 DEF LinkNothing, Finish, NoRun, Aside, queueVars, history
  <2>3. CASE AgentLost
    BY <2>3 DEF AgentLost, Aside
  <2>. QED
    BY <2>1, <2>2, <2>3
<1>2. run.log \in Log
  BY <1>1, RunHolds
<1>3. RunTyped'
  BY <1>1 DEF RunTyped, RunState, NoRun
<1>4. CASE UNCHANGED <<agents, repeats, faults>>
  BY <1>1, <1>2, <1>3, <1>4 DEF QueueTyped, FaultsTyped, Aside
<1>5. CASE /\ agents' = [agents EXCEPT ![run.log] = @ + 1]
           /\ repeats' = [repeats EXCEPT ![run.log] = @ + 1]
           /\ UNCHANGED <<dropped, done>> /\ Fault
  <2>. DEFINE l == run.log
  <2>1. l \in Log /\ agents' = [agents EXCEPT ![l] = @ + 1] /\ repeats' = [repeats EXCEPT ![l] = @ + 1]
    BY <1>2, <1>5
  <2>. HIDE DEF l
  <2>2. /\ agents' \in [Log -> Nat] /\ Raised(agents', agents, l)
        /\ repeats' \in [Log -> Nat] /\ Raised(repeats', repeats, l)
    BY <2>1, Counts DEF QueueTyped
  <2>3. QueueTyped'
    BY <1>1, <1>5, <2>2 DEF QueueTyped, Aside
  <2>. QED
    BY <1>1, <1>2, <1>3, <1>5, <2>2, <2>3, FaultStep DEF l
<1>. QED
  BY <1>1, <1>4, <1>5

\* A run that ends leaves the pipeline alone, and may leave its log astray.
Ended ==
    /\ UNCHANGED <<apiVars, storeVars, offset, parses, patchVars>>
    /\ astray \subseteq astray' /\ astray' \subseteq astray \cup {run.log}

\* The documents ids of the log are linked, the others stay; some are, or the log is astray.
Links(ids) ==
    /\ ids \subseteq Matching(run.log) /\ (ids # {} \/ run.log \in astray')
    /\ \A r \in Request :
           /\ docs'[r] = NoDoc <=> docs[r] = NoDoc
           /\ docs[r] # NoDoc =>
                  /\ docs'[r].late = docs[r].late
                  /\ docs'[r].incident = IF r \in ids THEN run.incident ELSE docs[r].incident
                  /\ docs'[r].status = IF r \in ids THEN run.status ELSE docs[r].status

\* The documents of the log that can be searched are linked, or the log is astray.
LEMMA LinkStep ==
    ASSUME QueueTyped, RunTyped, DocsTyped, FaultsTyped, Link \/ LinkFails
    PROVE  /\ run.pc = "link" /\ run.log \in Log
           /\ run.incident \in IncidentId /\ run.status \in Status
           /\ run' = NoRun /\ done' = done \cup {run.log}
           /\ \E ids : Links(ids)
           /\ UNCHANGED <<incidents, agents, repeats, dropped>> /\ Ended
           /\ QueueTyped' /\ RunTyped' /\ DocsTyped' /\ FaultsTyped'
<1>. DEFINE ids == Matching(run.log)
            i == run.incident
            s == run.status
            index == [r \in Request |->
                         IF r \in ids THEN [docs[r] EXCEPT !.incident = i, !.status = s]
                         ELSE docs[r]]
<1>1. /\ run.pc = "link" /\ run' = NoRun /\ done' = done \cup {run.log}
      /\ docs' = Refreshed(index) \/ docs' = docs
      /\ (docs' = Refreshed(index) /\ ids # {}) \/ run.log \in astray'
      /\ UNCHANGED <<incidents, agents, repeats, dropped>> /\ Ended
      /\ UNCHANGED faults \/ Fault
  BY DEF Link, LinkFails, Linked, Finish, Ended, queueVars, history
<1>2. run.log \in Log /\ i \in IncidentId /\ s \in Status
  BY <1>1, RunHolds, Zenon DEF NoRun
<1>m. ids \subseteq Matching(run.log)
  OBVIOUS
<1>3. ids \subseteq {r \in Request : docs[r] # NoDoc}
  BY DEF Matching, Stored
<1>. HIDE DEF ids, i, s
<1>4. docs \in [Request -> DocState]
  BY DEF DocsTyped
<1>5. ASSUME NEW r \in Request
      PROVE  /\ index[r] \in DocState
             /\ index[r] = NoDoc <=> docs[r] = NoDoc
             /\ docs[r] # NoDoc =>
                    /\ index[r].late = docs[r].late
                    /\ index[r].incident = IF r \in ids THEN i ELSE docs[r].incident
                    /\ index[r].status = IF r \in ids THEN s ELSE docs[r].status
  <2>1. CASE r \in ids
    <3>1. docs[r] \in DocState /\ docs[r] # NoDoc
      BY <1>3, <1>4, <2>1
    <3>2. index[r] = LinkedAs(docs[r], i, s)
      BY <2>1 DEF LinkedAs
    <3>. HIDE DEF index
    <3>. QED
      BY <1>2, <2>1, <3>1, <3>2, LinkedDoc
  <2>2. CASE r \notin ids
    BY <1>4, <2>2
  <2>. QED
    BY <2>1, <2>2
<1>6. index \in [Request -> DocState]
  BY <1>5
<1>. HIDE DEF index
<1>7. DocsTyped'
  BY <1>1, <1>4, <1>6, RefreshIsAlike DEF DocsTyped
<1>8. docs' = Refreshed(index) => \A r \in Request :
          /\ docs'[r] = NoDoc <=> docs[r] = NoDoc
          /\ docs[r] # NoDoc =>
                 /\ docs'[r].late = docs[r].late
                 /\ docs'[r].incident = IF r \in ids THEN i ELSE docs[r].incident
                 /\ docs'[r].status = IF r \in ids THEN s ELSE docs[r].status
  <2>. HAVE docs' = Refreshed(index)
  <2>1. \A r \in Request :
            /\ docs'[r] = NoDoc <=> index[r] = NoDoc
            /\ index[r] # NoDoc => /\ docs'[r].incident = index[r].incident
                                   /\ docs'[r].status = index[r].status
                                   /\ docs'[r].late = index[r].late
    BY <1>6, RefreshIsAlike
  <2>. QED
    BY <1>5, <2>1
<1>9. QueueTyped' /\ RunTyped'
  BY <1>1, <1>2 DEF QueueTyped, RunTyped, RunState, NoRun, Ended
<1>10. \E ids0 : Links(ids0)
  <2>1. CASE docs' = Refreshed(index)
    <3>1. Links(ids)
      BY <1>1, <1>8, <1>m, <2>1 DEF Links, i, s
    <3>. QED
      BY <3>1
  <2>2. CASE docs' = docs /\ run.log \in astray'
    <3>1. Links({})
      BY <2>2 DEF Links
    <3>. QED
      BY <3>1
  <2>. QED
    BY <1>1, <2>1, <2>2
<1>. QED
  BY <1>1, <1>2, <1>7, <1>9, <1>10, FaultStep DEF FaultsTyped, i, s

-----------------------------------------------------------------------------
(* The steps of PATCH /incidents/{id} *)

\* What PATCH leaves alone.
Apart == UNCHANGED <<apiVars, storeVars, queueVars, run, done, repeats, dropped>>

\* What a PATCH holds, by its place.
LEMMA PatchHolds ==
    ASSUME PatchTyped
    PROVE  /\ patch = NoPatch <=> patch.pc = "none"
           /\ patch # NoPatch => /\ patch.incident \in IncidentId /\ patch.status \in Status
                                 /\ patch.pc \in {"search", "commit"}
                                 /\ Live(incidents, patch.incident)
<1>1. patch \in PatchState /\ NoPatch.pc = "none"
  BY DEF PatchTyped, NoPatch
<1>2. CASE patch = NoPatch
  BY <1>1, <1>2
<1>3. CASE patch \in [pc : {"search", "commit"}, incident : IncidentId, status : Status]
  <2>1. patch.incident \in IncidentId /\ patch.status \in Status /\ patch.pc \in {"search", "commit"}
    BY <1>3
  <2>. QED
    BY <1>1, <2>1 DEF PatchTyped
<1>. QED
  BY <1>1, <1>2, <1>3 DEF PatchState

\* A PATCH begins on a row that is there.
LEMMA PatchUpdateStep ==
    ASSUME RunTyped, PatchTyped, FaultsTyped, NEW i \in IncidentId, NEW s \in Status,
           PatchUpdate(i, s)
    PROVE  /\ patch = NoPatch /\ patch'.pc = "search" /\ patch'.incident = i /\ patch' # NoPatch
           /\ UNCHANGED <<docs, incidents, astray>> /\ Apart
           /\ PatchTyped' /\ FaultsTyped'
<1>1. /\ patch = NoPatch /\ patch' = [pc |-> "search", incident |-> i, status |-> s]
      /\ Live(incidents, i) /\ patches < MaxPatches /\ patches' = patches + 1
      /\ UNCHANGED <<docs, incidents, astray, faults>> /\ Apart
  BY DEF PatchUpdate, Apart, agentVars, history
<1>2. /\ patch' \in PatchState /\ patch'.pc = "search" /\ patch'.incident = i /\ patch' # NoPatch
  BY <1>1 DEF PatchState, NoPatch
<1>3. patches' \in 0..MaxPatches
  BY <1>1, IngestAssumption DEF PatchTyped
<1>. QED
  BY <1>1, <1>2, <1>3 DEF PatchTyped, FaultsTyped

\* The documents of the patched incident get its status, or the incident is astray: not all
\* of them could be searched, or a run has read the old status.
Tells(i, s) ==
    /\ \A r \in Request :
           /\ docs'[r] = NoDoc <=> docs[r] = NoDoc
           /\ docs[r] # NoDoc =>
                  /\ docs'[r].late = docs[r].late /\ docs'[r].incident = docs[r].incident
                  /\ docs[r].incident # i => docs'[r].status = docs[r].status
                  /\ docs[r].incident = i => docs'[r].status = s \/ i \in astray'
    /\ astray \subseteq astray' /\ astray' \subseteq astray \cup {i}
    /\ i \in astray' \/ ~(run.pc \in {"record", "link"} /\ run.incident = i)

\* Elasticsearch is told of the status, or the incident is astray.
LEMMA PatchDocumentsStep ==
    ASSUME DocsTyped, RunTyped, PatchTyped, FaultsTyped, PatchDocuments \/ PatchDocumentsFails
    PROVE  /\ patch # NoPatch /\ patch.pc = "search" /\ patch'.pc = "commit" /\ patch' # NoPatch
           /\ patch'.incident = patch.incident /\ patch'.status = patch.status
           /\ Tells(patch.incident, patch.status)
           /\ UNCHANGED incidents /\ Apart
           /\ DocsTyped' /\ PatchTyped' /\ FaultsTyped'
<1>. DEFINE i == patch.incident
            s == patch.status
            ids == Matching(i)
<1>1. /\ patch.pc = "search" /\ patch' = [patch EXCEPT !.pc = "commit"] /\ UNCHANGED patches
      /\ UNCHANGED incidents /\ Apart
  BY DEF PatchDocuments, PatchDocumentsFails, Apart, agentVars
<1>2. i \in IncidentId /\ s \in Status /\ patch # NoPatch
  BY <1>1, PatchHolds DEF NoPatch
<1>3. patch \in [pc : {"search", "commit"}, incident : IncidentId, status : Status]
  BY <1>2 DEF PatchTyped, PatchState
<1>4. /\ patch' \in PatchState /\ patch'.pc = "commit" /\ patch' # NoPatch
      /\ patch'.incident = i /\ patch'.status = s
  <2>1. patch' \in [pc : {"search", "commit"}, incident : IncidentId, status : Status]
    BY <1>1, <1>3
  <2>2. patch'.pc = "commit" /\ patch'.incident = i /\ patch'.status = s
    BY <1>1, <1>3
  <2>. QED
    BY <2>1, <2>2 DEF PatchState, NoPatch
<1>5. FaultsTyped'
  BY FaultStep DEF PatchDocuments, PatchDocumentsFails, FaultsTyped
<1>6. DocsTyped' /\ Tells(i, s)
  <2>1. CASE PatchDocumentsFails
    BY <2>1 DEF PatchDocumentsFails, DocsTyped, Tells
  <2>2. CASE PatchDocuments
    <3>1. /\ docs' = [r \in Request |-> IF r \in ids
                         THEN [docs[r] EXCEPT !.status = s, !.clean = FALSE] ELSE docs[r]]
          /\ astray' = IF Overlapped \/ ids # Stored(i) THEN astray \cup {i} ELSE astray
      BY <2>2 DEF PatchDocuments
    <3>2. \A r \in Request : r \in ids => docs[r] # NoDoc /\ docs[r].incident = i
      BY DEF Matching, Stored
    <3>3. docs \in [Request -> DocState]
      BY DEF DocsTyped
    <3>4. ids = Stored(i) => \A r \in Request : docs[r] # NoDoc /\ docs[r].incident = i => r \in ids
      BY DEF Stored
    <3>. HIDE DEF ids, i, s
    <3>5. ASSUME NEW r \in Request
          PROVE  /\ docs'[r] \in DocState
                 /\ docs'[r] = NoDoc <=> docs[r] = NoDoc
                 /\ docs[r] # NoDoc =>
                        /\ docs'[r].late = docs[r].late /\ docs'[r].incident = docs[r].incident
                        /\ docs'[r].status = IF r \in ids THEN s ELSE docs[r].status
      <4>1. CASE r \in ids
        <5>1. docs[r] \in DocState /\ docs[r] # NoDoc
          BY <3>2, <3>3, <4>1
        <5>2. docs'[r] = PatchedAs(docs[r], s)
          BY <3>1, <4>1 DEF PatchedAs
        <5>. QED
          BY <1>2, <4>1, <5>1, <5>2, PatchedDoc
      <4>2. CASE r \notin ids
        BY <3>1, <3>3, <4>2
      <4>. QED
        BY <4>1, <4>2
    <3>6. DocsTyped'
      <4>1. docs' = [r \in Request |-> docs'[r]]
        BY <3>1
      <4>2. \A r \in Request : docs'[r] \in DocState
        BY <3>5
      <4>. QED
        BY <4>1, <4>2, Zenon DEF DocsTyped
    <3>7. i \notin astray' => ids = Stored(i) /\ ~Overlapped
      BY <3>1
    <3>8. i \in astray' \/ ~(run.pc \in {"record", "link"} /\ run.incident = i)
      BY <3>7 DEF Overlapped, i
    <3>9. astray \subseteq astray' /\ astray' \subseteq astray \cup {i}
      BY <3>1
    <3>. QED
      BY <3>2, <3>4, <3>5, <3>6, <3>7, <3>8, <3>9 DEF Tells
  <2>. QED
    BY <2>1, <2>2
<1>7. astray' \subseteq IncidentId \cup Log
  BY <1>2, <1>6 DEF Tells, PatchTyped
<1>8. PatchTyped'
  BY <1>1, <1>2, <1>4, <1>7, PatchHolds DEF PatchTyped
<1>. QED
  BY <1>1, <1>2, <1>4, <1>5, <1>6, <1>8

\* The status is committed, or the incident is astray.
LEMMA PatchEndStep ==
    ASSUME RunTyped, PatchTyped, FaultsTyped, PatchCommit \/ PatchRollback
    PROVE  /\ patch # NoPatch /\ patch' = NoPatch
           /\ patch.incident \in IncidentId /\ patch.status \in Status
           /\ astray \subseteq astray'
           /\ \/ patch.incident \in astray'
              \/ /\ patch.pc = "commit" /\ incidents'[patch.incident].status = patch.status
                 /\ ~(run.pc \in {"record", "link"} /\ run.incident = patch.incident)
           /\ \A j \in IncidentId : Live(incidents, j) <=> Live(incidents', j)
           /\ \A j \in IncidentId : Live(incidents, j) =>
                  incidents'[j].occurrences = incidents[j].occurrences
           /\ \A j \in IncidentId \ {patch.incident} : incidents'[j] = incidents[j]
           /\ UNCHANGED docs /\ Apart
           /\ RunTyped' /\ PatchTyped' /\ FaultsTyped'
<1>. DEFINE i == patch.incident
            s == patch.status
<1>1. /\ patch # NoPatch /\ patch' = NoPatch /\ UNCHANGED <<docs, patches>> /\ Apart
      /\ \/ UNCHANGED incidents /\ astray' = astray \cup {i}
         \/ /\ patch.pc = "commit"
            /\ incidents' = [incidents EXCEPT ![i] = WithStatus(incidents[i], s)]
            /\ astray' = IF Overlapped THEN astray \cup {i} ELSE astray
  BY DEF PatchCommit, PatchRollback, Apart, agentVars, NoPatch
<1>2. FaultsTyped'
  BY FaultStep DEF PatchCommit, PatchRollback, FaultsTyped
<1>3. i \in IncidentId /\ s \in Status /\ Live(incidents, i) /\ incidents \in Table
  BY <1>1, PatchHolds DEF RunTyped
<1>4. /\ incidents[i] \in Row /\ WithStatus(incidents[i], s) \in Row
      /\ WithStatus(incidents[i], s).status = s
      /\ WithStatus(incidents[i], s).occurrences = incidents[i].occurrences
  BY <1>3, LiveIsRow, WithStatusIsRow
<1>5. /\ incidents' \in Table
      /\ \A j \in IncidentId \ {i} : incidents'[j] = incidents[j]
      /\ UNCHANGED incidents \/ incidents'[i] = WithStatus(incidents[i], s)
  <2>. DEFINE row == WithStatus(incidents[i], s)
  <2>1. row \in Row /\ (UNCHANGED incidents \/ incidents' = [incidents EXCEPT ![i] = row])
    BY <1>1, <1>4
  <2>. HIDE DEF row
  <2>2. /\ incidents' \in Table /\ \A j \in IncidentId \ {i} : incidents'[j] = incidents[j]
        /\ UNCHANGED incidents \/ incidents'[i] = row
    BY <1>3, <2>1 DEF Table
  <2>. QED
    BY <2>2 DEF row
<1>6. \A j \in IncidentId : Live(incidents, j) <=> Live(incidents', j)
  BY <1>3, <1>4, <1>5 DEF Live, Row
<1>7. \A j \in IncidentId : Live(incidents, j) => incidents'[j].occurrences = incidents[j].occurrences
  BY <1>4, <1>5
<1>8. \/ i \in astray'
      \/ /\ patch.pc = "commit" /\ incidents'[i].status = s
         /\ ~(run.pc \in {"record", "link"} /\ run.incident = i)
  <2>1. CASE astray' = astray \cup {i}
    BY <2>1
  <2>2. CASE /\ patch.pc = "commit" /\ ~Overlapped
             /\ incidents' = [incidents EXCEPT ![i] = WithStatus(incidents[i], s)]
    <3>1. incidents'[i] = WithStatus(incidents[i], s)
      BY <1>3, <2>2 DEF Table
    <3>. QED
      BY <1>4, <2>2, <3>1 DEF Overlapped
  <2>. QED
    BY <1>1, <2>1, <2>2
<1>9. RunTyped'
  <2>1. run.pc \in {"record", "link"} => run.incident \in IncidentId
    BY RunHolds
  <2>. QED
    BY <1>1, <1>5, <1>6, <2>1 DEF RunTyped, Apart
<1>10. astray \subseteq astray' /\ astray' \subseteq IncidentId \cup Log
  BY <1>1, <1>3 DEF PatchTyped
<1>11. PatchTyped'
  BY <1>1, <1>10 DEF PatchTyped, PatchState
<1>. QED
  BY <1>1, <1>2, <1>3, <1>5, <1>6, <1>7, <1>8, <1>9, <1>10, <1>11

-----------------------------------------------------------------------------
(* Every step is one of these *)

\* The actions, grouped as the lemmas above describe them.
LEMMA Steps ==
    ASSUME [Next]_vars
    PROVE  \/ \E r \in Request, l \in Log, c \in 0..MaxClock : ApiQuiet(r, l, c)
           \/ \E r \in Request : ApiGoes(r)
           \/ \E r \in Request : Store(r) \/ StoreFails(r)
           \/ \E r \in Request : IndexDocument(r)
           \/ Deliver \/ DeliverRepeated
           \/ \E l \in Log : Redeliver(l)
           \/ \E l \in Log : Parse(l) \/ ParseRepeated(l) \/ ParseFails(l)
           \/ \E l \in Log : StartAgent(l) \/ Contention(l)
           \/ UpdateFields \/ UpdateFieldsFails \/ Refresh \/ FindActive \/ FindNone
           \/ RecordDuplicate \/ Create
           \/ LateDuplicate \/ NotActionable \/ LinkNothing \/ AgentLost
           \/ Link \/ LinkFails
           \/ \E i \in IncidentId, s \in Status : PatchUpdate(i, s)
           \/ PatchDocuments \/ PatchDocumentsFails
           \/ PatchCommit \/ PatchRollback
           \/ UNCHANGED vars
<1>1. 0 \in 0..MaxClock
  BY IngestAssumption
<1>2. ASSUME NEW r \in Request, NEW l \in Log,
             FailOpen(r, l) \/ \E c \in 0..MaxClock : Arrive(r, l, c) \/ TooMany(r, l, c)
      PROVE  \E c \in 0..MaxClock : ApiQuiet(r, l, c)
  BY <1>1, <1>2 DEF ApiQuiet
<1>3. ASSUME NEW r \in Request,
             \/ Refuse(r) \/ Upload(r) \/ UploadFails(r)
             \/ Store(r) \/ StoreConflicts(r) \/ StoreFails(r)
             \/ IndexDocument(r) \/ IndexFails(r) \/ ServerLost(r)
      PROVE  ApiGoes(r) \/ Store(r) \/ StoreFails(r) \/ IndexDocument(r)
  BY <1>3 DEF ApiGoes
<1>. QED
  BY <1>2, <1>3, Zenon DEF Next

LEMMA InitTyped == Init => Typed
<1>. SUFFICES ASSUME Init PROVE Typed
  OBVIOUS
<1>. USE IngestAssumption DEF Init
<1>1. bucket \in [tokens : 0..Capacity, at : -1..MaxClock]
  BY DEF NoBucket
<1>2. requests \in [Request -> RequestState] /\ objects \subseteq Log
  BY DEF RequestState
<1>3. StoreTyped
  BY DEF StoreTyped
<1>4. QueueTyped
  BY DEF QueueTyped
<1>5. RunTyped
  BY DEF RunTyped, RunState, NoRun, Table, EmptyTable
<1>6. docs \in [Request -> DocState]
  BY DEF DocState
<1>7. PatchTyped
  BY DEF PatchTyped, PatchState
<1>. QED
  BY <1>1, <1>2, <1>3, <1>4, <1>5, <1>6, <1>7 DEF Typed, ApiTyped, DocsTyped, FaultsTyped

\* What a part of the state has, it keeps when a step leaves it alone.
LEMMA Untouched ==
    ASSUME Typed
    PROVE  /\ UNCHANGED apiVars => ApiTyped'
           /\ UNCHANGED <<storeVars, offset>> => StoreTyped'
           /\ UNCHANGED <<parses, agents, repeats, dropped, done>> => QueueTyped'
           /\ UNCHANGED <<run, incidents>> => RunTyped'
           /\ UNCHANGED docs => DocsTyped'
           /\ UNCHANGED <<patchVars, astray, incidents>> => PatchTyped'
BY DEF Typed, ApiTyped, StoreTyped, QueueTyped, RunTyped, DocsTyped, PatchTyped,
       apiVars, storeVars, patchVars

LEMMA NextTyped == Typed /\ [Next]_vars => Typed'
<1>. SUFFICES ASSUME Typed, [Next]_vars PROVE Typed'
  OBVIOUS
<1>t. /\ ApiTyped /\ StoreTyped /\ QueueTyped /\ RunTyped /\ DocsTyped /\ PatchTyped
      /\ FaultsTyped
  BY DEF Typed
<1>1. CASE \E r \in Request, l \in Log, c \in 0..MaxClock : ApiQuiet(r, l, c)
  <2>1. UNCHANGED <<storeVars, docs>> /\ Behind /\ ApiTyped' /\ FaultsTyped'
    BY <1>t, <1>1, ApiQuietStep
  <2>. QED
    BY <2>1, Untouched DEF Behind, queueVars, agentVars, history, Typed
<1>2. CASE \E r \in Request : ApiGoes(r)
  <2>1. UNCHANGED <<storeVars, docs>> /\ Behind /\ ApiTyped' /\ FaultsTyped'
    BY <1>t, <1>2, ApiGoesStep
  <2>. QED
    BY <2>1, Untouched DEF Behind, queueVars, agentVars, history, Typed
<1>3. CASE \E r \in Request : Store(r) \/ StoreFails(r)
  <2>1. UNCHANGED docs /\ Behind /\ ApiTyped' /\ StoreTyped' /\ FaultsTyped'
    BY <1>t, <1>3, StoreStep
  <2>. QED
    BY <2>1, Untouched DEF Behind, queueVars, agentVars, history, Typed
<1>4. CASE \E r \in Request : IndexDocument(r)
  <2>1. UNCHANGED storeVars /\ Behind /\ ApiTyped' /\ DocsTyped' /\ FaultsTyped'
    BY <1>t, <1>4, IndexStep
  <2>. QED
    BY <2>1, Untouched DEF Behind, queueVars, agentVars, history, Typed
<1>5. CASE Deliver \/ DeliverRepeated
  <2>1. UNCHANGED agentVars /\ Beside /\ StoreTyped' /\ QueueTyped' /\ FaultsTyped'
    BY <1>t, <1>5, DeliverStep
  <2>. QED
    BY <2>1, Untouched DEF Beside, agentVars, Typed
<1>6. CASE \E l \in Log : Redeliver(l)
  <2>1. UNCHANGED agentVars /\ Beside /\ StoreTyped' /\ QueueTyped' /\ FaultsTyped'
    BY <1>t, <1>6, RedeliverStep
  <2>. QED
    BY <2>1, Untouched DEF Beside, agentVars, Typed
<1>7. CASE \E l \in Log : Parse(l) \/ ParseRepeated(l) \/ ParseFails(l)
  <2>1. UNCHANGED <<offset, storeVars, agentVars>> /\ Beside /\ QueueTyped' /\ FaultsTyped'
    BY <1>t, <1>7, ParseStep
  <2>. QED
    BY <2>1, Untouched DEF Beside, agentVars, Typed
<1>8. CASE \E l \in Log : StartAgent(l) \/ Contention(l)
  <2>1. /\ UNCHANGED <<offset, storeVars, incidents>> /\ Beside
        /\ QueueTyped' /\ RunTyped' /\ FaultsTyped'
    BY <1>t, <1>8, StartStep
  <2>. QED
    BY <2>1, Untouched DEF Beside, Typed
<1>9. CASE UpdateFields \/ UpdateFieldsFails
  <2>1. /\ UNCHANGED <<incidents, done, agents, repeats, dropped>> /\ Aside
        /\ RunTyped' /\ DocsTyped' /\ FaultsTyped'
    BY <1>t, <1>9, UpdateFieldsStep
  <2>. QED
    BY <2>1, Untouched DEF Aside, Typed
<1>10. CASE Refresh
  <2>1. /\ UNCHANGED <<agentVars, agents, repeats, dropped>> /\ Aside /\ DocsTyped' /\ FaultsTyped'
    BY <1>t, <1>10, RefreshStep
  <2>. QED
    BY <2>1, Untouched DEF Aside, agentVars, Typed
<1>11. CASE FindActive
  <2>1. /\ UNCHANGED <<docs, incidents, done, agents, repeats, dropped>> /\ Aside
        /\ RunTyped' /\ FaultsTyped'
    BY <1>t, <1>11, FindStep
  <2>. QED
    BY <2>1, Untouched DEF Aside, Typed
<1>19. CASE FindNone
  <2>1. /\ UNCHANGED <<docs, incidents, done, agents, repeats, dropped>> /\ Aside
        /\ RunTyped' /\ FaultsTyped'
    BY <1>t, <1>19, FindNoneStep
  <2>. QED
    BY <2>1, Untouched DEF Aside, Typed
<1>12. CASE RecordDuplicate \/ Create
  <2>1. /\ UNCHANGED <<docs, done, agents, repeats, dropped>> /\ Aside
        /\ RunTyped' /\ FaultsTyped' /\ PatchTyped'
    BY <1>t, <1>12, WriteStep
  <2>. QED
    BY <2>1, Untouched DEF Aside, Typed
<1>13. CASE LateDuplicate \/ NotActionable \/ LinkNothing \/ AgentLost
  <2>1. UNCHANGED <<docs, incidents>> /\ Aside /\ QueueTyped' /\ RunTyped' /\ FaultsTyped'
    BY <1>t, <1>13, EndStep
  <2>. QED
    BY <2>1, Untouched DEF Aside, Typed
<1>14. CASE Link \/ LinkFails
  <2>1. /\ UNCHANGED incidents /\ Ended /\ run.log \in Log
        /\ QueueTyped' /\ RunTyped' /\ DocsTyped' /\ FaultsTyped'
    BY <1>t, <1>14, LinkStep
  <2>2. PatchTyped'
    BY <1>t, <2>1 DEF PatchTyped, Ended, patchVars
  <2>. QED
    BY <2>1, <2>2, Untouched DEF Ended, Typed
<1>15. CASE \E i \in IncidentId, s \in Status : PatchUpdate(i, s)
  <2>1. UNCHANGED <<docs, incidents>> /\ Apart /\ PatchTyped' /\ FaultsTyped'
    BY <1>t, <1>15, PatchUpdateStep
  <2>. QED
    BY <2>1, Untouched DEF Apart, queueVars, Typed
<1>16. CASE PatchDocuments \/ PatchDocumentsFails
  <2>1. UNCHANGED incidents /\ Apart /\ DocsTyped' /\ PatchTyped' /\ FaultsTyped'
    BY <1>t, <1>16, PatchDocumentsStep
  <2>. QED
    BY <2>1, Untouched DEF Apart, queueVars, Typed
<1>17. CASE PatchCommit \/ PatchRollback
  <2>1. UNCHANGED docs /\ Apart /\ RunTyped' /\ PatchTyped' /\ FaultsTyped'
    BY <1>t, <1>17, PatchEndStep
  <2>. QED
    BY <2>1, Untouched DEF Apart, queueVars, Typed
<1>18. CASE UNCHANGED vars
  <2>1. UNCHANGED <<apiVars, storeVars, queueVars, agentVars, docs, patchVars, faults, history>>
    BY <1>18 DEF vars
  <2>. QED
    BY <1>t, <2>1, Untouched DEF queueVars, agentVars, history, Typed, FaultsTyped
<1>. QED
  BY <1>1, <1>2, <1>3, <1>4, <1>5, <1>6, <1>7, <1>8, <1>9, <1>10, <1>11, <1>12, <1>13,
     <1>14, <1>15, <1>16, <1>17, <1>18, <1>19, Steps, Zenon

-----------------------------------------------------------------------------
(* What the API accepted *)

Past(r, places) == requests[r] # Unsent /\ requests[r].pc \in places

\* A request that says so has uploaded its log, and stored it; of the requests of a log one
\* at most has stored it, because the others find its row.
RequestsKept ==
    /\ \A r \in Request :
           /\ Past(r, {"uploaded", "stored", "202"}) => requests[r].log \in objects
           /\ Past(r, {"stored", "202"}) => requests[r].log \in rows
    /\ \A q, r \in Request :
           /\ Past(q, {"stored", "202"}) /\ Past(r, {"stored", "202"})
           /\ requests[q].log = requests[r].log
           => q = r

\* A row is written after its object and with its event; a task is sent for an event.
RowsKept ==
    /\ rows \subseteq objects
    /\ \A k \in 1..Len(topic) : topic[k] \in rows
    /\ \A l \in rows : \E k \in 1..Len(topic) : topic[k] = l
    /\ \A l \in Log : parses[l] > 0 => l \in rows

\* A document is written by the request that is then answered 202.
DocsKept == \A r \in Request : docs[r] # NoDoc => Past(r, {"202"})

Kept == RequestsKept /\ RowsKept /\ DocsKept

\* What the queue of run_agent and everything after it leave alone.
Later ==
    /\ UNCHANGED <<apiVars, storeVars>>
    /\ \A l \in Log : parses'[l] > 0 => parses[l] > 0
    /\ \A r \in Request : docs'[r] = NoDoc <=> docs[r] = NoDoc

\* The steps up to parse_log, and the rest.
LEMMA EarlyOrLater ==
    ASSUME Typed, [Next]_vars
    PROVE  \/ \E r \in Request, l \in Log, c \in 0..MaxClock : ApiQuiet(r, l, c)
           \/ \E r \in Request : ApiGoes(r)
           \/ \E r \in Request : Store(r) \/ StoreFails(r)
           \/ \E r \in Request : IndexDocument(r)
           \/ Deliver \/ DeliverRepeated
           \/ \E l \in Log : Redeliver(l)
           \/ Later
<1>t. QueueTyped /\ RunTyped /\ DocsTyped /\ PatchTyped /\ FaultsTyped
  BY DEF Typed
<1>1. ASSUME NEW l \in Log, Parse(l) \/ ParseRepeated(l) \/ ParseFails(l) PROVE Later
  <2>1. /\ UNCHANGED storeVars /\ Beside
        /\ Lowered(parses', parses, l) \/ UNCHANGED parses
    BY <1>t, <1>1, ParseStep
  <2>2. parses[l] \in Nat
    BY <1>t DEF QueueTyped
  <2>3. \A m \in Log : parses'[m] > 0 => parses[m] > 0
    BY <2>1, <2>2 DEF Lowered
  <2>. QED
    BY <2>1, <2>3 DEF Later, Beside
<1>2. ASSUME NEW l \in Log, StartAgent(l) \/ Contention(l) PROVE Later
  BY <1>t, <1>2, StartStep DEF Later, Beside
<1>3. ASSUME UpdateFields \/ UpdateFieldsFails \/ Refresh PROVE Later
  BY <1>t, <1>3, UpdateFieldsStep, RefreshStep DEF Later, Aside, Alike
<1>4. ASSUME FindActive \/ FindNone PROVE Later
  BY <1>t, <1>4, FindStep, FindNoneStep DEF Later, Aside
<1>5. ASSUME RecordDuplicate \/ Create PROVE Later
  BY <1>t, <1>5, WriteStep DEF Later, Aside
<1>6. ASSUME LateDuplicate \/ NotActionable \/ LinkNothing \/ AgentLost PROVE Later
  BY <1>t, <1>6, EndStep DEF Later, Aside
<1>7. ASSUME Link \/ LinkFails PROVE Later
  BY <1>t, <1>7, LinkStep DEF Later, Ended, Links
<1>8. ASSUME NEW i \in IncidentId, NEW s \in Status, PatchUpdate(i, s) PROVE Later
  BY <1>t, <1>8, PatchUpdateStep DEF Later, Apart, queueVars
<1>9. ASSUME PatchDocuments \/ PatchDocumentsFails PROVE Later
  BY <1>t, <1>9, PatchDocumentsStep DEF Later, Apart, queueVars, Tells
<1>10. ASSUME PatchCommit \/ PatchRollback PROVE Later
  BY <1>t, <1>10, PatchEndStep DEF Later, Apart, queueVars
<1>11. ASSUME UNCHANGED vars PROVE Later
  BY <1>11 DEF Later, vars, queueVars
<1>. QED
  BY <1>1, <1>2, <1>3, <1>4, <1>5, <1>6, <1>7, <1>8, <1>9, <1>10, <1>11, Steps, Zenon

LEMMA NextKept == Typed /\ Kept /\ [Next]_vars => Kept'
<1>. SUFFICES ASSUME Typed, Kept, [Next]_vars PROVE Kept'
  OBVIOUS
<1>t. ApiTyped /\ StoreTyped /\ QueueTyped /\ DocsTyped /\ FaultsTyped
  BY DEF Typed
<1>k. RequestsKept /\ RowsKept /\ DocsKept
  BY DEF Kept
<1>l. Len(topic) \in Nat /\ topic \in Seq(Log)
  BY <1>t DEF StoreTyped
<1>1. ASSUME NEW r \in Request, NEW l \in Log, NEW c \in 0..MaxClock, ApiQuiet(r, l, c)
      PROVE  Kept'
  <2>1. /\ requests[r] = Unsent /\ requests'[r].pc \in {"arrived", "429"}
        /\ \A q \in Request \ {r} : requests'[q] = requests[q]
        /\ UNCHANGED <<objects, rows, topic, docs, parses>>
    BY <1>t, <1>1, ApiQuietStep DEF Behind, storeVars, queueVars
  <2>2. \A q \in Request : Past(q, {"uploaded", "stored", "202"})' =>
            q # r /\ requests'[q] = requests[q]
    BY <2>1 DEF Past
  <2>3. RequestsKept'
    BY <1>k, <2>1, <2>2 DEF RequestsKept, Past
  <2>4. DocsKept'
    BY <1>k, <2>1 DEF DocsKept, Past
  <2>. QED
    BY <1>k, <2>1, <2>3, <2>4 DEF Kept, RowsKept
<1>2. ASSUME NEW r \in Request, ApiGoes(r) PROVE Kept'
  <2>1. /\ requests[r] # Unsent /\ requests[r].pc \in {"arrived", "uploaded", "stored"}
        /\ requests'[r] # Unsent /\ requests'[r].log = requests[r].log
        /\ requests'[r].pc \notin {"arrived", "stored"}
        /\ requests'[r].pc = "uploaded" => requests[r].log \in objects'
        /\ requests'[r].pc = "202" => requests[r].pc = "stored"
        /\ \A q \in Request \ {r} : requests'[q] = requests[q]
        /\ objects \subseteq objects' /\ UNCHANGED <<rows, topic, docs, parses>>
    BY <1>t, <1>2, ApiGoesStep DEF Behind, storeVars, queueVars
  <2>2. \A q \in Request :
            /\ Past(q, {"stored", "202"})' =>
                   Past(q, {"stored", "202"}) /\ requests'[q].log = requests[q].log
            /\ Past(q, {"uploaded", "stored", "202"})' =>
                   /\ requests'[q].log = requests[q].log
                   /\ requests[q].log \in objects' \/ Past(q, {"uploaded", "stored", "202"})
    BY <2>1 DEF Past
  <2>3. RequestsKept'
    BY <1>k, <2>1, <2>2 DEF RequestsKept
  <2>4. DocsKept'
    BY <1>k, <2>1 DEF DocsKept, Past
  <2>. QED
    BY <1>k, <2>1, <2>3, <2>4 DEF Kept, RowsKept
<1>3. ASSUME NEW r \in Request, Store(r) \/ StoreFails(r) PROVE Kept'
  <2>. DEFINE l == requests[r].log
  <2>1. /\ requests[r] # Unsent /\ requests[r].pc = "uploaded" /\ l \in Log /\ l \notin rows
        /\ requests'[r] # Unsent /\ requests'[r].log = l
        /\ requests'[r].pc \in {"stored", "5xx"}
        /\ \A q \in Request \ {r} : requests'[q] = requests[q]
        /\ \/ requests'[r].pc = "5xx" /\ UNCHANGED <<rows, topic>>
           \/ rows' = rows \cup {l} /\ Appends(l)
        /\ UNCHANGED <<objects, docs, parses>>
    BY <1>t, <1>3, StoreStep DEF Behind, storeVars, queueVars
  <2>2. l \in objects
    BY <1>k, <2>1 DEF RequestsKept, Past
  <2>3. \A q \in Request : Past(q, {"stored", "202"}) => requests[q].log # l
    BY <1>k, <2>1 DEF RequestsKept
  <2>. HIDE DEF l
  <2>4. RequestsKept'
    <3>1. \A q \in Request :
              /\ Past(q, {"uploaded", "stored", "202"})' => requests'[q].log \in objects'
              /\ Past(q, {"stored", "202"})' =>
                     /\ requests'[q].log \in rows'
                     /\ \/ q = r /\ requests'[q].log = l
                        \/ /\ q # r /\ requests'[q] = requests[q]
                           /\ Past(q, {"stored", "202"}) /\ requests'[q].log # l
      BY <1>k, <2>1, <2>2, <2>3 DEF RequestsKept, Past
    <3>. QED
      BY <1>k, <3>1 DEF RequestsKept
  <2>5. DocsKept'
    BY <1>k, <2>1 DEF DocsKept, Past
  <2>6. RowsKept'
    <3>1. CASE UNCHANGED <<rows, topic>>
      BY <1>k, <2>1, <3>1 DEF RowsKept
    <3>2. CASE rows' = rows \cup {l} /\ Appends(l)
      <4>1. /\ Len(topic') = Len(topic) + 1
            /\ \A k \in 1..Len(topic) : topic'[k] = topic[k]
            /\ topic'[Len(topic) + 1] = l
        BY <1>t, <2>1, <3>2, AppendStep
      <4>2. \A k \in 1..Len(topic') : topic'[k] \in rows'
        BY <1>k, <1>l, <3>2, <4>1 DEF RowsKept
      <4>3. \A m \in rows' : \E k \in 1..Len(topic') : topic'[k] = m
        BY <1>k, <1>l, <3>2, <4>1 DEF RowsKept
      <4>. QED
        BY <1>k, <2>1, <2>2, <3>2, <4>2, <4>3 DEF RowsKept
    <3>. QED
      BY <2>1, <3>1, <3>2
  <2>. QED
    BY <2>4, <2>5, <2>6 DEF Kept
<1>4. ASSUME NEW r \in Request, IndexDocument(r) PROVE Kept'
  <2>1. /\ requests[r] # Unsent /\ requests[r].pc = "stored"
        /\ requests'[r] # Unsent /\ requests'[r].log = requests[r].log
        /\ requests'[r].pc = "202"
        /\ \A q \in Request \ {r} : requests'[q] = requests[q] /\ docs'[q] = docs[q]
        /\ UNCHANGED <<objects, rows, topic, parses>>
    BY <1>t, <1>4, IndexStep DEF Behind, storeVars, queueVars
  <2>2. \A q \in Request :
            /\ Past(q, {"stored", "202"})' =>
                   Past(q, {"stored", "202"}) /\ requests'[q].log = requests[q].log
            /\ Past(q, {"uploaded", "stored", "202"})' =>
                   /\ requests'[q].log = requests[q].log
                   /\ Past(q, {"uploaded", "stored", "202"})
    BY <2>1 DEF Past
  <2>3. RequestsKept'
    BY <1>k, <2>1, <2>2 DEF RequestsKept
  <2>4. DocsKept'
    BY <1>k, <2>1 DEF DocsKept, Past
  <2>. QED
    BY <1>k, <2>1, <2>3, <2>4 DEF Kept, RowsKept
<1>5. ASSUME Deliver \/ DeliverRepeated PROVE Kept'
  <2>. DEFINE l == topic[offset + 1]
  <2>1. /\ l \in Log /\ offset + 1 \in 1..Len(topic) /\ Raised(parses', parses, l)
        /\ UNCHANGED <<apiVars, storeVars, docs>>
    BY <1>t, <1>5, DeliverStep DEF Beside
  <2>2. l \in rows
    BY <1>k, <2>1 DEF RowsKept
  <2>. HIDE DEF l
  <2>3. \A m \in Log : parses'[m] > 0 => m \in rows
    BY <1>k, <2>1, <2>2 DEF RowsKept, Raised
  <2>. QED
    BY <1>k, <2>1, <2>3 DEF Kept, RequestsKept, RowsKept, DocsKept, Past, apiVars, storeVars
<1>6. ASSUME NEW l \in Log, Redeliver(l) PROVE Kept'
  <2>1. l \in rows /\ Appends(l) /\ UNCHANGED <<rows, apiVars, docs, parses>>
    BY <1>t, <1>6, RedeliverStep DEF Beside, queueVars
  <2>2. /\ Len(topic') = Len(topic) + 1
        /\ \A k \in 1..Len(topic) : topic'[k] = topic[k]
        /\ topic'[Len(topic) + 1] = l
    BY <1>t, <2>1, AppendStep
  <2>3. \A k \in 1..Len(topic') : topic'[k] \in rows'
    BY <1>k, <1>l, <2>1, <2>2 DEF RowsKept
  <2>4. \A m \in rows' : \E k \in 1..Len(topic') : topic'[k] = m
    BY <1>k, <1>l, <2>1, <2>2 DEF RowsKept
  <2>. QED
    BY <1>k, <2>1, <2>3, <2>4 DEF Kept, RequestsKept, RowsKept, DocsKept, Past, apiVars
<1>7. CASE Later
  BY <1>k, <1>7 DEF Later, Kept, RequestsKept, RowsKept, DocsKept, Past, apiVars, storeVars
<1>. QED
  BY <1>1, <1>2, <1>3, <1>4, <1>5, <1>6, <1>7, EarlyOrLater, Zenon

-----------------------------------------------------------------------------
(* How often a log is recorded *)

\* The events of a log after position o of topic t.
Slots(t, o, l) == {k \in (o + 1)..Len(t) : t[k] = l}

\* They are finitely many.
LEMMA SlotsFinite ==
    ASSUME NEW t \in Seq(Log), NEW o \in Nat, NEW l
    PROVE  IsFiniteSet(Slots(t, o, l)) /\ Cardinality(Slots(t, o, l)) \in Nat
<1>1. IsFiniteSet((o + 1)..Len(t))
  BY FS_Interval
<1>2. Slots(t, o, l) \subseteq (o + 1)..Len(t)
  BY DEF Slots
<1>. QED
  BY <1>1, <1>2, FS_Subset, FS_CardinalityType

\* An event at the end is one more of its log.
LEMMA SlotsAppend ==
    ASSUME NEW t \in Seq(Log), NEW o \in 0..Len(t), NEW new \in Log, NEW l
    PROVE  Cardinality(Slots(Append(t, new), o, l))
               <= Cardinality(Slots(t, o, l)) + (IF l = new THEN 1 ELSE 0)
<1>. DEFINE longer == Append(t, new)
            A == Slots(t, o, l)
            B == Slots(longer, o, l)
<1>1. /\ longer \in Seq(Log) /\ Len(longer) = Len(t) + 1 /\ Len(t) \in Nat /\ o \in Nat
      /\ longer[Len(t) + 1] = new /\ \A k \in 1..Len(t) : longer[k] = t[k]
  OBVIOUS
<1>2. /\ IsFiniteSet(A) /\ Cardinality(A) \in Nat
      /\ IsFiniteSet(B) /\ Cardinality(B) \in Nat
  BY <1>1, SlotsFinite
<1>. HIDE DEF longer
<1>3. B \subseteq A \cup {Len(t) + 1} /\ (l # new => B \subseteq A)
  BY <1>1 DEF Slots
<1>. HIDE DEF A, B
<1>4. CASE l # new
  <2>1. Cardinality(B) <= Cardinality(A)
    BY <1>2, <1>3, <1>4, FS_Subset
  <2>. QED
    BY <1>2, <1>4, <2>1 DEF A, B, longer
<1>5. CASE l = new
  <2>1. /\ IsFiniteSet(A \cup {Len(t) + 1})
        /\ \/ Cardinality(A \cup {Len(t) + 1}) = Cardinality(A) + 1
           \/ Cardinality(A \cup {Len(t) + 1}) = Cardinality(A)
    BY <1>2, FS_AddElement
  <2>2. Cardinality(B) <= Cardinality(A \cup {Len(t) + 1})
    BY <1>3, <2>1, FS_Subset
  <2>3. Cardinality(B) <= Cardinality(A) + 1
    BY <1>2, <2>1, <2>2
  <2>. QED
    BY <1>5, <2>3 DEF A, B, longer
<1>. QED
  BY <1>4, <1>5

\* The next event is one less of its log.
LEMMA SlotsTake ==
    ASSUME NEW t \in Seq(Log), NEW o \in Nat, o + 1 \in 1..Len(t), NEW l
    PROVE  Cardinality(Slots(t, o + 1, l))
               = Cardinality(Slots(t, o, l)) - (IF t[o + 1] = l THEN 1 ELSE 0)
<1>. DEFINE A == Slots(t, o, l)
            B == Slots(t, o + 1, l)
<1>1. IsFiniteSet(A) /\ Cardinality(A) \in Nat
  BY SlotsFinite
<1>2. B = A \ {o + 1} /\ (t[o + 1] = l <=> o + 1 \in A)
  BY DEF Slots
<1>. HIDE DEF A, B
<1>3. Cardinality(A \ {o + 1}) = IF o + 1 \in A THEN Cardinality(A) - 1 ELSE Cardinality(A)
  BY <1>1, FS_RemoveElement
<1>4. Cardinality(B) = Cardinality(A) - (IF t[o + 1] = l THEN 1 ELSE 0)
  BY <1>1, <1>2, <1>3
<1>. QED
  BY <1>4 DEF A, B

\* A log may be recorded once for its row and once for every repetition; each event, each
\* message and the run that holds the log use up one of them.
Due(l)     == (IF l \in rows THEN 1 ELSE 0) + repeats[l]
Waiting(l) == Cardinality(Slots(topic, offset, l))
Held(l)    == IF run.pc \in {"fields", "find", "analyse", "record"} /\ run.log = l THEN 1 ELSE 0
Spare(l)   == Due(l) - Waiting(l) - parses[l] - agents[l] - Held(l)

Counted == \A l \in Log : AtMost(Places(incidents, l), Spare(l))

\* What Spare is computed from are numbers.
LEMMA SpareTyped ==
    ASSUME StoreTyped, QueueTyped, NEW l \in Log
    PROVE  /\ repeats[l] \in Nat /\ parses[l] \in Nat /\ agents[l] \in Nat
           /\ Waiting(l) \in Nat /\ Held(l) \in {0, 1} /\ Spare(l) \in Int
<1>1. topic \in Seq(Log) /\ offset \in Nat
  BY DEF StoreTyped
<1>2. Waiting(l) \in Nat
  BY <1>1, SlotsFinite DEF Waiting
<1>3. repeats[l] \in Nat /\ parses[l] \in Nat /\ agents[l] \in Nat
  BY DEF QueueTyped
<1>4. Held(l) \in {0, 1} /\ Due(l) \in Int
  BY <1>3 DEF Held, Due
<1>. QED
  BY <1>2, <1>3, <1>4 DEF Spare

LEMMA InitCounted == Init => Counted
<1>. SUFFICES ASSUME Init, NEW l \in Log PROVE AtMost(Places(incidents, l), Spare(l))
  BY DEF Counted
<1>1. \A i \in IncidentId : ~Live(incidents, i)
  BY DEF Init, EmptyTable, Live, Unissued, Status
<1>2. Places(incidents, l) = {}
  BY <1>1 DEF Places
<1>3. Slots(topic, offset, l) = {}
  BY DEF Init, Slots
<1>4. Waiting(l) = 0
  BY <1>3, FS_EmptySet DEF Waiting
<1>5. Held(l) = 0 /\ Due(l) = 0 /\ parses[l] = 0 /\ agents[l] = 0
  BY DEF Init, Held, Due, NoRun
<1>6. Spare(l) = 0
  BY <1>4, <1>5 DEF Spare
<1>. QED
  BY <1>2, <1>6, FS_EmptySet DEF AtMost

\* A log that is not recorded keeps its count while nothing is used up; recording it uses
\* up one.
LEMMA CountedFrom ==
    ASSUME StoreTyped, QueueTyped, StoreTyped', QueueTyped', Counted, NEW l \in Log
    PROVE  /\ Places(incidents', l) \subseteq Places(incidents, l) /\ Spare(l)' >= Spare(l)
                  => AtMost(Places(incidents', l), Spare(l)')
           /\ \A p : /\ Places(incidents', l) \subseteq Places(incidents, l) \cup {p}
                     /\ Spare(l)' >= Spare(l) + 1
                     => AtMost(Places(incidents', l), Spare(l)')
<1>. DEFINE S == Places(incidents, l)
            T == Places(incidents', l)
            n == Spare(l)
            m == Spare(l)'
<1>1. AtMost(S, n) /\ n \in Int
  BY SpareTyped DEF Counted
<1>2. topic' \in Seq(Log) /\ offset' \in Nat
  BY DEF StoreTyped
<1>3. Waiting(l)' \in Nat
  BY <1>2, SlotsFinite DEF Waiting
<1>4. repeats'[l] \in Nat /\ parses'[l] \in Nat /\ agents'[l] \in Nat
  BY DEF QueueTyped
<1>5. Held(l)' \in {0, 1} /\ Due(l)' \in Int
  BY <1>4 DEF Held, Due
<1>6. m \in Int
  BY <1>3, <1>4, <1>5 DEF Spare
<1>. HIDE DEF S, T, n, m
<1>7. IsFiniteSet(S) /\ Cardinality(S) \in Nat /\ n \in Nat
  <2>1. IsFiniteSet(S) /\ Cardinality(S) <= n
    BY <1>1 DEF AtMost
  <2>2. Cardinality(S) \in Nat
    BY <2>1, FS_CardinalityType
  <2>. QED
    BY <1>1, <2>1, <2>2
<1>8. ASSUME T \subseteq S, m >= n PROVE AtMost(T, m)
  <2>1. AtMost(T, n) /\ m \in Nat
    BY <1>1, <1>6, <1>7, <1>8, AtMostGrows
  <2>. QED
    BY <1>7, <1>8, <2>1, AtMostGrows
<1>9. ASSUME NEW p, T \subseteq S \cup {p}, m >= n + 1 PROVE AtMost(T, m)
  <2>1. AtMost(T, n + 1) /\ m \in Nat /\ n + 1 \in Nat
    BY <1>1, <1>6, <1>7, <1>9, AtMostGrows
  <2>. QED
    BY <1>9, <2>1, AtMostGrows
<1>. QED
  BY <1>8, <1>9 DEF S, T, n, m

LEMMA NextCounted == Typed /\ Typed' /\ Counted /\ [Next]_vars => Counted'
<1>. SUFFICES ASSUME Typed, Typed', Counted, [Next]_vars PROVE Counted'
  OBVIOUS
<1>t. /\ ApiTyped /\ StoreTyped /\ QueueTyped /\ RunTyped /\ DocsTyped /\ PatchTyped
      /\ FaultsTyped /\ StoreTyped' /\ QueueTyped'
  BY DEF Typed
<1>n. \A l \in Log : /\ repeats[l] \in Nat /\ parses[l] \in Nat /\ agents[l] \in Nat
                     /\ Waiting(l) \in Nat /\ Held(l) \in {0, 1}
  BY <1>t, SpareTyped
<1>s. topic \in Seq(Log) /\ offset \in 0..Len(topic) /\ offset \in Nat /\ Len(topic) \in Nat
  BY <1>t DEF StoreTyped
<1>a. ASSUME \A l \in Log : /\ Places(incidents', l) \subseteq Places(incidents, l)
                            /\ Spare(l)' >= Spare(l)
      PROVE  Counted'
  BY <1>t, <1>a, CountedFrom DEF Counted
<1>b. ASSUME UNCHANGED <<rows, topic, offset, parses, agents, repeats>>,
             \A l \in Log : /\ Places(incidents', l) \subseteq Places(incidents, l)
                            /\ Held(l)' <= Held(l)
      PROVE  Counted'
  <2>1. ASSUME NEW l \in Log PROVE Spare(l)' >= Spare(l)
    <3>1. Waiting(l)' = Waiting(l) /\ Due(l)' = Due(l)
      BY <1>b DEF Waiting, Due
    <3>2. Held(l)' <= Held(l) /\ Held(l)' \in {0, 1} /\ Held(l) \in {0, 1}
      BY <1>b DEF Held
    <3>3. Due(l) \in Nat
      BY <1>n DEF Due
    <3>. QED
      BY <1>b, <1>n, <3>1, <3>2, <3>3 DEF Spare
  <2>. QED
    BY <1>a, <1>b, <2>1
<1>c. ASSUME UNCHANGED <<rows, topic, offset, parses, agents, repeats, run, incidents>>
      PROVE  Counted'
  <2>1. \A l \in Log : /\ Places(incidents', l) \subseteq Places(incidents, l)
                       /\ Held(l)' <= Held(l)
    BY <1>c, <1>n DEF Held
  <2>. QED
    BY <1>b, <1>c, <2>1
<1>1. ASSUME NEW r \in Request, NEW l \in Log, NEW c \in 0..MaxClock, ApiQuiet(r, l, c)
      PROVE  Counted'
  BY <1>t, <1>1, <1>c, ApiQuietStep DEF Behind, storeVars, queueVars, agentVars, history
<1>2. ASSUME NEW r \in Request, ApiGoes(r) PROVE Counted'
  BY <1>t, <1>2, <1>c, ApiGoesStep DEF Behind, storeVars, queueVars, agentVars, history
<1>3. ASSUME NEW r \in Request, Store(r) \/ StoreFails(r) PROVE Counted'
  <2>. DEFINE x == requests[r].log
  <2>1. /\ x \in Log /\ x \notin rows
        /\ UNCHANGED <<rows, topic>> \/ (rows' = rows \cup {x} /\ Appends(x))
        /\ UNCHANGED <<offset, parses, agents, repeats, run, incidents>>
    BY <1>t, <1>3, StoreStep DEF Behind, storeVars, queueVars, agentVars, history
  <2>. HIDE DEF x
  <2>2. CASE UNCHANGED <<rows, topic>>
    BY <1>c, <2>1, <2>2
  <2>3. CASE rows' = rows \cup {x} /\ Appends(x)
    <3>1. ASSUME NEW l \in Log PROVE Spare(l)' >= Spare(l)
      <4>1. Waiting(l)' <= Waiting(l) + (IF l = x THEN 1 ELSE 0) /\ Waiting(l)' \in Nat
        <5>1. Cardinality(Slots(Append(topic, x), offset, l)) <=
                  Cardinality(Slots(topic, offset, l)) + (IF l = x THEN 1 ELSE 0)
          BY <1>s, <2>1, SlotsAppend
        <5>2. Append(topic, x) \in Seq(Log)
          BY <1>s, <2>1
        <5>3. Cardinality(Slots(Append(topic, x), offset, l)) \in Nat
          BY <1>s, <5>2, SlotsFinite
        <5>4. topic' = Append(topic, x) /\ offset' = offset
          BY <2>1, <2>3 DEF Appends
        <5>. QED
          BY <5>1, <5>3, <5>4 DEF Waiting
      <4>2. Due(l)' = Due(l) + (IF l = x THEN 1 ELSE 0) /\ Due(l) \in Nat
        BY <1>n, <2>1, <2>3 DEF Due
      <4>3. Held(l)' = Held(l)
        BY <2>1 DEF Held
      <4>. QED
        BY <1>n, <2>1, <4>1, <4>2, <4>3 DEF Spare
    <3>2. incidents' = incidents
      BY <2>1
    <3>. QED
      BY <1>a, <3>1, <3>2
  <2>. QED
    BY <2>1, <2>2, <2>3
<1>4. ASSUME NEW r \in Request, IndexDocument(r) PROVE Counted'
  BY <1>t, <1>4, <1>c, IndexStep DEF Behind, storeVars, queueVars, agentVars, history
<1>5. ASSUME Deliver \/ DeliverRepeated PROVE Counted'
  <2>. DEFINE x == topic[offset + 1]
  <2>1. /\ x \in Log /\ offset + 1 \in 1..Len(topic) /\ Raised(parses', parses, x)
        /\ \/ offset' = offset + 1 /\ UNCHANGED repeats
           \/ offset' = offset /\ Raised(repeats', repeats, x)
        /\ UNCHANGED <<rows, topic, agents, run, incidents>>
    BY <1>t, <1>5, DeliverStep DEF storeVars, agentVars
  <2>2. \A l : Cardinality(Slots(topic, offset + 1, l)) =
                   Cardinality(Slots(topic, offset, l)) - (IF x = l THEN 1 ELSE 0)
    BY <1>s, <2>1, SlotsTake
  <2>. HIDE DEF x
  <2>3. ASSUME NEW l \in Log PROVE Spare(l)' >= Spare(l)
    <3>. DEFINE one == IF l = x THEN 1 ELSE 0
    <3>1. parses'[l] = parses[l] + one
      BY <1>n, <2>1 DEF Raised
    <3>2. agents'[l] = agents[l] /\ Held(l)' = Held(l)
      BY <2>1 DEF Held
    <3>3. /\ Due(l) \in Nat /\ Waiting(l) \in Nat /\ Held(l) \in Int /\ one \in Nat
          /\ parses[l] \in Nat /\ agents[l] \in Nat
      BY <1>n DEF Due
    <3>4. \/ Waiting(l)' = Waiting(l) - one /\ Due(l)' = Due(l)
          \/ Waiting(l)' = Waiting(l) /\ Due(l)' = Due(l) + one
      <4>1. CASE offset' = offset + 1 /\ UNCHANGED repeats
        <5>1. Waiting(l)' = Waiting(l) - one
          BY <2>1, <2>2, <4>1 DEF Waiting
        <5>. QED
          BY <2>1, <4>1, <5>1 DEF Due
      <4>2. CASE offset' = offset /\ Raised(repeats', repeats, x)
        <5>1. Waiting(l)' = Waiting(l)
          BY <2>1, <4>2 DEF Waiting
        <5>2. Due(l)' = Due(l) + one
          BY <1>n, <2>1, <4>2 DEF Due, Raised
        <5>. QED
          BY <5>1, <5>2
      <4>. QED
        BY <2>1, <4>1, <4>2
    <3>. HIDE DEF one
    <3>. QED
      BY <3>1, <3>2, <3>3, <3>4 DEF Spare
  <2>4. incidents' = incidents
    BY <2>1
  <2>. QED
    BY <1>a, <2>3, <2>4
<1>6. ASSUME NEW x \in Log, Redeliver(x) PROVE Counted'
  <2>1. /\ Appends(x) /\ Raised(repeats', repeats, x)
        /\ UNCHANGED <<rows, offset, parses, agents, run, incidents>>
    BY <1>t, <1>6, RedeliverStep DEF queueVars, agentVars
  <2>2. ASSUME NEW l \in Log PROVE Spare(l)' >= Spare(l)
    <3>1. Waiting(l)' <= Waiting(l) + (IF l = x THEN 1 ELSE 0) /\ Waiting(l)' \in Nat
      <4>1. Cardinality(Slots(Append(topic, x), offset, l)) <=
                Cardinality(Slots(topic, offset, l)) + (IF l = x THEN 1 ELSE 0)
        BY <1>s, SlotsAppend
      <4>2. Append(topic, x) \in Seq(Log)
        BY <1>s
      <4>3. Cardinality(Slots(Append(topic, x), offset, l)) \in Nat
        BY <1>s, <4>2, SlotsFinite
      <4>4. topic' = Append(topic, x) /\ offset' = offset
        BY <2>1 DEF Appends
      <4>. QED
        BY <4>1, <4>3, <4>4 DEF Waiting
    <3>2. Due(l)' = Due(l) + (IF l = x THEN 1 ELSE 0) /\ Due(l) \in Nat
      BY <1>n, <2>1 DEF Due, Raised
    <3>3. Held(l)' = Held(l)
      BY <2>1 DEF Held
    <3>. QED
      BY <1>n, <2>1, <3>1, <3>2, <3>3 DEF Spare
  <2>3. incidents' = incidents
    BY <2>1
  <2>. QED
    BY <1>a, <2>2, <2>3
<1>7. ASSUME NEW x \in Log, Parse(x) \/ ParseRepeated(x) \/ ParseFails(x) PROVE Counted'
  <2>1. /\ \/ Lowered(parses', parses, x) /\ Raised(agents', agents, x) /\ UNCHANGED repeats
           \/ UNCHANGED parses /\ Raised(agents', agents, x) /\ Raised(repeats', repeats, x)
           \/ Lowered(parses', parses, x) /\ UNCHANGED <<agents, repeats>>
        /\ UNCHANGED <<rows, topic, offset, run, incidents>>
    BY <1>t, <1>7, ParseStep DEF storeVars, agentVars
  <2>2. ASSUME NEW l \in Log PROVE Spare(l)' >= Spare(l)
    <3>1. Waiting(l)' = Waiting(l) /\ Held(l)' = Held(l)
      BY <2>1 DEF Waiting, Held
    <3>2. parses'[l] + agents'[l] <= parses[l] + agents[l] + (repeats'[l] - repeats[l])
          /\ parses'[l] \in Int /\ agents'[l] \in Int /\ repeats'[l] \in Int
      BY <1>n, <2>1 DEF Raised, Lowered
    <3>3. Due(l)' = Due(l) + (repeats'[l] - repeats[l]) /\ Due(l) \in Nat
      BY <1>n, <2>1, <3>2 DEF Due
    <3>. QED
      BY <1>n, <3>1, <3>2, <3>3 DEF Spare
  <2>3. incidents' = incidents
    BY <2>1
  <2>. QED
    BY <1>a, <2>2, <2>3
<1>8. ASSUME NEW x \in Log, StartAgent(x) \/ Contention(x) PROVE Counted'
  <2>1. /\ Lowered(agents', agents, x)
        /\ (run = NoRun /\ run' = [pc |-> "fields", log |-> x]) \/ UNCHANGED run
        /\ UNCHANGED <<rows, topic, offset, parses, repeats, incidents>>
    BY <1>t, <1>8, StartStep DEF storeVars
  <2>2. ASSUME NEW l \in Log PROVE Spare(l)' >= Spare(l)
    <3>1. Waiting(l)' = Waiting(l) /\ Due(l)' = Due(l) /\ Due(l) \in Nat
      BY <1>n, <2>1 DEF Waiting, Due
    <3>2. Held(l)' <= Held(l) + (IF l = x THEN 1 ELSE 0) /\ Held(l)' \in {0, 1}
      BY <2>1 DEF Held, NoRun
    <3>3. agents'[l] = agents[l] - (IF l = x THEN 1 ELSE 0)
      BY <1>n, <2>1 DEF Lowered
    <3>. QED
      BY <1>n, <2>1, <3>1, <3>2, <3>3 DEF Spare
  <2>3. incidents' = incidents
    BY <2>1
  <2>. QED
    BY <1>a, <2>2, <2>3
<1>9. ASSUME UpdateFields \/ UpdateFieldsFails PROVE Counted'
  <2>1. /\ run.pc = "fields" /\ run' = [pc |-> "find", log |-> run.log]
        /\ UNCHANGED <<rows, topic, offset, parses, agents, repeats, incidents>>
    BY <1>t, <1>9, UpdateFieldsStep DEF Aside, storeVars
  <2>2. \A l \in Log : Held(l)' <= Held(l)
    BY <2>1 DEF Held
  <2>. QED
    BY <1>b, <2>1, <2>2
<1>10. ASSUME Refresh PROVE Counted'
  BY <1>t, <1>10, <1>c, RefreshStep DEF Aside, storeVars, agentVars
<1>11. ASSUME FindActive PROVE Counted'
  <2>1. /\ run.pc = "find"
        /\ UNCHANGED <<rows, topic, offset, parses, agents, repeats, incidents>>
        /\ \E i \in IncidentId : run' = [pc |-> "record", log |-> run.log, incident |-> i,
                                         status |-> incidents[i].status]
    BY <1>t, <1>11, FindStep DEF Aside, storeVars
  <2>2. \A l \in Log : Held(l)' <= Held(l)
    BY <2>1 DEF Held
  <2>. QED
    BY <1>b, <2>1, <2>2
<1>19. ASSUME FindNone PROVE Counted'
  <2>1. /\ run.pc = "find" /\ run' = [pc |-> "analyse", log |-> run.log]
        /\ UNCHANGED <<rows, topic, offset, parses, agents, repeats, incidents>>
    BY <1>t, <1>19, FindNoneStep DEF Aside, storeVars
  <2>2. \A l \in Log : Held(l)' <= Held(l)
    BY <2>1 DEF Held
  <2>. QED
    BY <1>b, <2>1, <2>2
<1>12. ASSUME RecordDuplicate \/ Create PROVE Counted'
  <2>1. UNCHANGED <<rows, topic, offset, parses, agents, repeats>>
    BY <1>t, <1>12, WriteStep DEF Aside, storeVars
  <2>2. PICK i \in IncidentId : Writes(i)
    BY <1>t, <1>12, WriteStep
  <2>. DEFINE seq == IF Live(incidents, i) THEN incidents[i].occurrences ELSE << >>
  <2>3. seq \in Seq(Log)
    BY <1>t, LiveIsRow DEF RunTyped, Row
  <2>4. /\ incidents'[i].occurrences = Append(seq, run.log) /\ run.log \in Log
        /\ \A j \in IncidentId \ {i} : incidents'[j] = incidents[j]
        /\ run.pc \in {"analyse", "record"} /\ run'.pc = "link"
    <3>1. Append(<< >>, run.log) = <<run.log>>
      OBVIOUS
    <3>2. \/ seq = incidents[i].occurrences /\ Live(incidents, i)
          \/ seq = << >> /\ ~Live(incidents, i)
      OBVIOUS
    <3>. HIDE DEF seq
    <3>3. \E s : run' = [pc |-> "link", log |-> run.log, incident |-> i, status |-> s]
      BY <2>2 DEF Writes
    <3>4. incidents'[i].occurrences = Append(seq, run.log)
      BY <2>2, <3>1, <3>2, Zenon DEF Writes
    <3>. QED
      BY <2>2, <3>3, <3>4 DEF Writes
  <2>5. (Live(incidents, i) => incidents[i].occurrences = seq) /\ (~Live(incidents, i) => seq = << >>)
    OBVIOUS
  <2>. DEFINE place == <<i, Len(seq) + 1>>
  <2>. HIDE DEF seq
  <2>6. \A l : Places(incidents', l) \subseteq
                   Places(incidents, l) \cup (IF l = run.log THEN {place} ELSE {})
    BY <2>3, <2>4, <2>5, OneNewPlace
  <2>. HIDE DEF place
  <2>7. ASSUME NEW l \in Log
        PROVE  Spare(l)' = Spare(l) + (IF l = run.log THEN 1 ELSE 0)
    <3>1. Waiting(l)' = Waiting(l) /\ Due(l)' = Due(l) /\ Due(l) \in Nat
      BY <1>n, <2>1 DEF Waiting, Due
    <3>2. Held(l)' = Held(l) - (IF l = run.log THEN 1 ELSE 0) /\ Held(l)' = 0
      BY <2>4 DEF Held
    <3>. QED
      BY <1>n, <2>1, <3>1, <3>2 DEF Spare
  <2>8. ASSUME NEW l \in Log PROVE AtMost(Places(incidents', l), Spare(l)')
    <3>1. Spare(l) \in Int
      BY <1>t, SpareTyped
    <3>2. CASE l = run.log
      <4>1. Places(incidents', l) \subseteq Places(incidents, l) \cup {place}
        BY <2>6, <3>2
      <4>2. Spare(l)' >= Spare(l) + 1
        BY <2>7, <3>1, <3>2
      <4>. QED
        BY <1>t, <4>1, <4>2, CountedFrom
    <3>3. CASE l # run.log
      <4>1. Places(incidents', l) \subseteq Places(incidents, l)
        BY <2>6, <3>3
      <4>2. Spare(l)' >= Spare(l)
        BY <2>7, <3>1, <3>3
      <4>. QED
        BY <1>t, <4>1, <4>2, CountedFrom
    <3>. QED
      BY <3>2, <3>3
  <2>. QED
    BY <2>8 DEF Counted
<1>13. ASSUME LateDuplicate \/ NotActionable \/ LinkNothing \/ AgentLost PROVE Counted'
  <2>. DEFINE x == run.log
  <2>1. /\ x \in Log /\ run' = NoRun
        /\ \/ UNCHANGED <<agents, repeats>>
           \/ Raised(agents', agents, x) /\ Raised(repeats', repeats, x)
        /\ UNCHANGED <<rows, topic, offset, parses, incidents>>
    BY <1>t, <1>13, EndStep DEF Aside, storeVars
  <2>2. ASSUME NEW l \in Log PROVE Spare(l)' >= Spare(l)
    <3>1. Waiting(l)' = Waiting(l) /\ Held(l)' = 0
      BY <2>1 DEF Waiting, Held, NoRun
    <3>2. agents'[l] - agents[l] = repeats'[l] - repeats[l]
          /\ agents'[l] \in Int /\ repeats'[l] \in Int
      BY <1>n, <2>1 DEF Raised
    <3>3. Due(l)' = Due(l) + (repeats'[l] - repeats[l]) /\ Due(l) \in Nat
      BY <1>n, <2>1, <3>2 DEF Due
    <3>. QED
      BY <1>n, <2>1, <3>1, <3>2, <3>3 DEF Spare
  <2>3. incidents' = incidents
    BY <2>1
  <2>. QED
    BY <1>a, <2>2, <2>3
<1>14. ASSUME Link \/ LinkFails PROVE Counted'
  <2>1. run' = NoRun /\ UNCHANGED <<rows, topic, offset, parses, agents, repeats, incidents>>
    BY <1>t, <1>14, LinkStep DEF Ended, storeVars
  <2>2. \A l \in Log : Held(l)' <= Held(l)
    BY <2>1, <1>n DEF Held, NoRun
  <2>. QED
    BY <1>b, <2>1, <2>2
<1>15. ASSUME NEW i \in IncidentId, NEW s \in Status, PatchUpdate(i, s) PROVE Counted'
  BY <1>t, <1>15, <1>c, PatchUpdateStep DEF Apart, storeVars, queueVars
<1>16. ASSUME PatchDocuments \/ PatchDocumentsFails PROVE Counted'
  BY <1>t, <1>16, <1>c, PatchDocumentsStep DEF Apart, storeVars, queueVars
<1>17. ASSUME PatchCommit \/ PatchRollback PROVE Counted'
  <2>1. /\ UNCHANGED <<rows, topic, offset, parses, agents, repeats, run>>
        /\ \A j \in IncidentId : Live(incidents', j) =>
               Live(incidents, j) /\ incidents'[j].occurrences = incidents[j].occurrences
    BY <1>t, <1>17, PatchEndStep DEF Apart, storeVars, queueVars
  <2>2. \A l \in Log : Places(incidents', l) \subseteq Places(incidents, l)
    BY <2>1, NoNewPlace
  <2>3. \A l \in Log : Held(l)' <= Held(l)
    BY <1>n, <2>1 DEF Held
  <2>. QED
    BY <1>b, <2>1, <2>2, <2>3
<1>18. ASSUME UNCHANGED vars PROVE Counted'
  BY <1>18, <1>c DEF vars, storeVars, queueVars, agentVars, history
<1>. QED
  BY <1>1, <1>2, <1>3, <1>4, <1>5, <1>6, <1>7, <1>8, <1>9, <1>10, <1>11, <1>12, <1>13,
     <1>14, <1>15, <1>16, <1>17, <1>18, <1>19, Steps, Zenon

\* The type invariant holds in every reachable state.
LEMMA TypedSpec == Spec => []Typed
BY InitTyped, NextTyped, PTL DEF Spec

\* What was accepted is kept in every reachable state.
LEMMA KeptSpec == Spec => []Kept
<1>1. Init => Kept
  BY DEF Init, Kept, RequestsKept, RowsKept, DocsKept, Past
<1>. QED
  BY <1>1, NextKept, TypedSpec, PTL DEF Spec

\* No log is recorded more often than it may be, in every reachable state.
LEMMA CountedSpec == Spec => []Counted
BY InitCounted, NextCounted, TypedSpec, PTL DEF Spec

\* What the SDK was told was accepted is there, its object before its task, and it is
\* counted once, whatever requests of the same log are running and however often they are
\* repeated: ingest_logs answers 202 only after it has committed the row and the event, and
\* the primary key of the row refuses a second one.
THEOREM AcceptedIsThere == Spec => []AcceptedOnce
<1>. SUFFICES ASSUME Typed, Kept, Counted PROVE AcceptedOnce
  BY TypedSpec, KeptSpec, CountedSpec, PTL
<1>t. ApiTyped /\ StoreTyped /\ QueueTyped
  BY DEF Typed
<1>k. RequestsKept /\ RowsKept /\ DocsKept
  BY DEF Kept
<1>1. TypeOK
  BY DEF Typed, ApiTyped, StoreTyped, QueueTyped, RunTyped, DocsTyped, PatchTyped,
         FaultsTyped, RequestState, RunState, DocState, PatchState, TypeOK
<1>2. AcceptedIsKept
  <2>1. topic \in Seq(Log)
    BY <1>t DEF StoreTyped
  <2>2. ASSUME NEW r \in Request, Past(r, {"202"})
        PROVE  requests[r].log \in objects /\ requests[r].log \in rows
    BY <1>k, <2>2 DEF RequestsKept, Past
  <2>. QED
    BY <1>k, <2>1, <2>2 DEF AcceptedIsKept, RowsKept, Past
<1>3. ObjectBeforeTask
  BY <1>k DEF ObjectBeforeTask, RowsKept
<1>4. ASSUME NEW l \in Log
      PROVE  Cardinality({r \in Request : docs[r] # NoDoc /\ requests[r].log = l}) <= 1
  <2>. DEFINE R == {r \in Request : docs[r] # NoDoc /\ requests[r].log = l}
  <2>1. \A q, r \in R : q = r
    BY <1>k DEF RequestsKept, DocsKept, Past
  <2>. HIDE DEF R
  <2>2. R = {} \/ \E r : R = {r}
    BY <2>1
  <2>3. Cardinality(R) = 0 \/ Cardinality(R) = 1
    BY <2>2, FS_EmptySet, FS_Singleton
  <2>4. Cardinality(R) <= 1
    BY <2>3
  <2>. QED
    BY <2>4 DEF R
<1>5. ASSUME NEW l \in Log PROVE Occurrences(l) <= 1 + repeats[l]
  <2>1. /\ repeats[l] \in Nat /\ parses[l] \in Nat /\ agents[l] \in Nat
        /\ Waiting(l) \in Nat /\ Held(l) \in {0, 1}
    BY <1>t, SpareTyped
  <2>2. Spare(l) \in Int /\ Spare(l) <= 1 + repeats[l]
    BY <2>1 DEF Spare, Due
  <2>3. /\ IsFiniteSet(Places(incidents, l))
        /\ Cardinality(Places(incidents, l)) <= Spare(l)
    BY DEF Counted, AtMost
  <2>4. Cardinality(Places(incidents, l)) \in Nat
    BY <2>3, FS_CardinalityType
  <2>. QED
    BY <2>1, <2>2, <2>3, <2>4 DEF Occurrences
<1>. QED
  BY <1>1, <1>2, <1>3, <1>4, <1>5 DEF AcceptedOnce, CountedOnce

-----------------------------------------------------------------------------
(* Every stored log is recorded in the end *)

\* A stored log is recorded or dropped, or is on its way: in the topic, in one of the two
\* queues, or with the run.
OnTheWay(l) ==
    \/ \E k \in (offset + 1)..Len(topic) : topic[k] = l
    \/ parses[l] > 0 \/ agents[l] > 0
    \/ run # NoRun /\ run.log = l
Pending == \A l \in rows : l \in done \cup dropped \/ OnTheWay(l)

LEMMA NextPending == Typed /\ Pending /\ [Next]_vars => Pending'
<1>. SUFFICES ASSUME Typed, Pending, [Next]_vars PROVE Pending'
  OBVIOUS
<1>t. /\ ApiTyped /\ StoreTyped /\ QueueTyped /\ RunTyped /\ DocsTyped /\ PatchTyped
      /\ FaultsTyped /\ rows \subseteq Log
  BY DEF Typed, StoreTyped
<1>n. \A l \in Log : parses[l] \in Nat /\ agents[l] \in Nat
  BY <1>t DEF QueueTyped
<1>s. topic \in Seq(Log) /\ offset \in 0..Len(topic) /\ offset \in Nat /\ Len(topic) \in Nat
  BY <1>t DEF StoreTyped
<1>a. ASSUME UNCHANGED <<rows, topic, offset>>, done \cup dropped \subseteq done' \cup dropped',
             \A l \in Log : parses[l] > 0 \/ agents[l] > 0 \/ (run # NoRun /\ run.log = l) =>
                 OnTheWay(l)' \/ l \in done' \cup dropped'
      PROVE  Pending'
  BY <1>t, <1>a DEF Pending, OnTheWay
<1>b. ASSUME UNCHANGED <<rows, topic, offset, parses, agents, run, done, dropped>>
      PROVE  Pending'
  BY <1>b DEF Pending, OnTheWay
<1>c. ASSUME UNCHANGED <<rows, topic, offset, parses, agents, done, dropped>>,
             run # NoRun => run' # NoRun /\ run'.log = run.log
      PROVE  Pending'
  BY <1>c DEF Pending, OnTheWay
<1>d. ASSUME NEW l \in Log, Appends(l), rows' \subseteq rows \cup {l},
             UNCHANGED <<offset, parses, agents, run, done, dropped>>
      PROVE  Pending'
  <2>1. /\ Len(topic') = Len(topic) + 1 /\ topic'[Len(topic) + 1] = l
        /\ \A k \in 1..Len(topic) : topic'[k] = topic[k]
    BY <1>t, <1>d, AppendStep
  <2>2. OnTheWay(l)'
    <3>1. Len(topic) + 1 \in (offset' + 1)..Len(topic')
      BY <1>s, <1>d, <2>1
    <3>. QED
      BY <2>1, <3>1 DEF OnTheWay
  <2>3. ASSUME NEW m \in rows, OnTheWay(m) PROVE OnTheWay(m)'
    <3>1. CASE \E k \in (offset + 1)..Len(topic) : topic[k] = m
      <4>1. PICK k \in (offset + 1)..Len(topic) : topic[k] = m
        BY <3>1
      <4>2. k \in (offset' + 1)..Len(topic') /\ topic'[k] = m
        BY <1>s, <1>d, <2>1, <4>1
      <4>. QED
        BY <4>2 DEF OnTheWay
    <3>2. CASE parses[m] > 0 \/ agents[m] > 0 \/ (run # NoRun /\ run.log = m)
      BY <1>d, <3>2 DEF OnTheWay
    <3>. QED
      BY <2>3, <3>1, <3>2 DEF OnTheWay
  <2>. QED
    BY <1>d, <2>2, <2>3 DEF Pending
<1>1. ASSUME NEW r \in Request, NEW l \in Log, NEW c \in 0..MaxClock, ApiQuiet(r, l, c)
      PROVE  Pending'
  BY <1>t, <1>1, <1>b, ApiQuietStep DEF Behind, storeVars, queueVars, agentVars, history
<1>2. ASSUME NEW r \in Request, ApiGoes(r) PROVE Pending'
  BY <1>t, <1>2, <1>b, ApiGoesStep DEF Behind, storeVars, queueVars, agentVars, history
<1>3. ASSUME NEW r \in Request, Store(r) \/ StoreFails(r) PROVE Pending'
  <2>. DEFINE x == requests[r].log
  <2>1. /\ x \in Log
        /\ UNCHANGED <<rows, topic>> \/ (rows' = rows \cup {x} /\ Appends(x))
        /\ UNCHANGED <<offset, parses, agents, run, done, dropped>>
    BY <1>t, <1>3, StoreStep DEF Behind, storeVars, queueVars, agentVars, history
  <2>. HIDE DEF x
  <2>. QED
    BY <1>b, <1>d, <2>1
<1>4. ASSUME NEW r \in Request, IndexDocument(r) PROVE Pending'
  BY <1>t, <1>4, <1>b, IndexStep DEF Behind, storeVars, queueVars, agentVars, history
<1>5. ASSUME Deliver \/ DeliverRepeated PROVE Pending'
  <2>. DEFINE x == topic[offset + 1]
  <2>1. /\ x \in Log /\ Raised(parses', parses, x)
        /\ offset' = offset + 1 \/ offset' = offset
        /\ UNCHANGED <<rows, topic, agents, run, done, dropped>>
    BY <1>t, <1>5, DeliverStep DEF storeVars, agentVars
  <2>2. \A k \in (offset + 1)..Len(topic) : topic[k] # x => k \in (offset' + 1)..Len(topic)
    BY <1>s, <2>1
  <2>. HIDE DEF x
  <2>3. ASSUME NEW l \in rows, OnTheWay(l) PROVE OnTheWay(l)'
    <3>1. CASE l = x
      <4>1. parses'[l] > 0
        BY <1>n, <2>1, <3>1 DEF Raised
      <4>. QED
        BY <4>1 DEF OnTheWay
    <3>2. CASE l # x
      <4>1. parses'[l] = parses[l]
        BY <1>t, <2>1, <3>2 DEF Raised
      <4>2. (\E k \in (offset + 1)..Len(topic) : topic[k] = l) =>
                \E k \in (offset' + 1)..Len(topic') : topic'[k] = l
        BY <2>1, <2>2, <3>2
      <4>. QED
        BY <2>1, <2>3, <4>1, <4>2 DEF OnTheWay
    <3>. QED
      BY <3>1, <3>2
  <2>. QED
    BY <2>1, <2>3 DEF Pending
<1>6. ASSUME NEW l \in Log, Redeliver(l) PROVE Pending'
  BY <1>t, <1>6, <1>d, RedeliverStep DEF queueVars, agentVars
<1>7. ASSUME NEW x \in Log, Parse(x) \/ ParseRepeated(x) \/ ParseFails(x) PROVE Pending'
  <2>1. /\ \/ Lowered(parses', parses, x) /\ Raised(agents', agents, x) /\ UNCHANGED dropped
           \/ UNCHANGED <<parses, dropped>> /\ Raised(agents', agents, x)
           \/ Lowered(parses', parses, x) /\ UNCHANGED agents /\ dropped' = dropped \cup {x}
        /\ UNCHANGED <<rows, topic, offset, run, incidents, done>>
    BY <1>t, <1>7, ParseStep DEF storeVars, agentVars
  <2>2. ASSUME NEW l \in Log, parses[l] > 0 \/ agents[l] > 0 \/ (run # NoRun /\ run.log = l)
        PROVE  OnTheWay(l)' \/ l \in done' \cup dropped'
    <3>1. CASE l = x
      <4>1. agents'[l] > 0 \/ l \in dropped'
        BY <1>n, <2>1, <3>1 DEF Raised
      <4>. QED
        BY <4>1 DEF OnTheWay
    <3>2. CASE l # x
      <4>1. parses'[l] = parses[l] /\ agents'[l] = agents[l]
        BY <2>1, <3>2 DEF Raised, Lowered
      <4>. QED
        BY <2>1, <2>2, <4>1 DEF OnTheWay
    <3>. QED
      BY <3>1, <3>2
  <2>. QED
    BY <1>a, <2>1, <2>2
<1>8. ASSUME NEW x \in Log, StartAgent(x) \/ Contention(x) PROVE Pending'
  <2>1. /\ Lowered(agents', agents, x)
        /\ \/ run = NoRun /\ run' = [pc |-> "fields", log |-> x] /\ UNCHANGED dropped
           \/ run # NoRun /\ UNCHANGED run /\ dropped' = dropped \cup {x}
        /\ UNCHANGED <<rows, topic, offset, parses, done>>
    BY <1>t, <1>8, StartStep DEF storeVars
  <2>2. [pc |-> "fields", log |-> x] # NoRun /\ [pc |-> "fields", log |-> x].log = x
    BY DEF NoRun
  <2>3. ASSUME NEW l \in Log, parses[l] > 0 \/ agents[l] > 0 \/ (run # NoRun /\ run.log = l)
        PROVE  OnTheWay(l)' \/ l \in done' \cup dropped'
    <3>1. CASE l = x
      BY <2>1, <2>2, <3>1 DEF OnTheWay
    <3>2. CASE l # x
      <4>1. agents'[l] = agents[l]
        BY <2>1, <3>2 DEF Lowered
      <4>. QED
        BY <2>1, <2>2, <2>3, <4>1 DEF OnTheWay
    <3>. QED
      BY <3>1, <3>2
  <2>. QED
    BY <1>a, <2>1, <2>3
<1>9. ASSUME UpdateFields \/ UpdateFieldsFails PROVE Pending'
  <2>1. /\ run' = [pc |-> "find", log |-> run.log]
        /\ UNCHANGED <<rows, topic, offset, parses, agents, done, dropped>>
    BY <1>t, <1>9, UpdateFieldsStep DEF Aside, storeVars
  <2>2. run' # NoRun /\ run'.log = run.log
    BY <2>1 DEF NoRun
  <2>. QED
    BY <1>c, <2>1, <2>2
<1>10. ASSUME Refresh PROVE Pending'
  BY <1>t, <1>10, <1>b, RefreshStep DEF Aside, storeVars, agentVars
<1>11. ASSUME FindActive PROVE Pending'
  <2>1. /\ UNCHANGED <<rows, topic, offset, parses, agents, done, dropped>>
        /\ \E i \in IncidentId : run' = [pc |-> "record", log |-> run.log, incident |-> i,
                                         status |-> incidents[i].status]
    BY <1>t, <1>11, FindStep DEF Aside, storeVars
  <2>2. run' # NoRun /\ run'.log = run.log
    BY <2>1 DEF NoRun
  <2>. QED
    BY <1>c, <2>1, <2>2
<1>19. ASSUME FindNone PROVE Pending'
  <2>1. /\ run' = [pc |-> "analyse", log |-> run.log]
        /\ UNCHANGED <<rows, topic, offset, parses, agents, done, dropped>>
    BY <1>t, <1>19, FindNoneStep DEF Aside, storeVars
  <2>2. run' # NoRun /\ run'.log = run.log
    BY <2>1 DEF NoRun
  <2>. QED
    BY <1>c, <2>1, <2>2
<1>12. ASSUME RecordDuplicate \/ Create PROVE Pending'
  <2>1. UNCHANGED <<rows, topic, offset, parses, agents, done, dropped>>
    BY <1>t, <1>12, WriteStep DEF Aside, storeVars
  <2>2. PICK i \in IncidentId : Writes(i)
    BY <1>t, <1>12, WriteStep
  <2>3. \E s : run' = [pc |-> "link", log |-> run.log, incident |-> i, status |-> s]
    BY <2>2 DEF Writes
  <2>4. run' # NoRun /\ run'.log = run.log
    BY <2>3 DEF NoRun
  <2>. QED
    BY <1>c, <2>1, <2>4
<1>13. ASSUME LateDuplicate \/ NotActionable \/ LinkNothing \/ AgentLost PROVE Pending'
  <2>. DEFINE x == run.log
  <2>1. /\ x \in Log /\ run' = NoRun
        /\ \/ dropped' = dropped \cup {x} /\ UNCHANGED <<done, agents>>
           \/ done' = done \cup {x} /\ UNCHANGED <<dropped, agents>>
           \/ Raised(agents', agents, x) /\ UNCHANGED <<dropped, done>>
        /\ UNCHANGED <<rows, topic, offset, parses>>
    BY <1>t, <1>13, EndStep DEF Aside, storeVars
  <2>2. ASSUME NEW l \in Log, parses[l] > 0 \/ agents[l] > 0 \/ l = x
        PROVE  OnTheWay(l)' \/ l \in done' \cup dropped'
    <3>1. parses[l] > 0 => parses'[l] > 0
      BY <2>1
    <3>2. agents[l] > 0 => agents'[l] > 0
      BY <1>n, <2>1 DEF Raised
    <3>3. l = x => agents'[l] > 0 \/ l \in done' \cup dropped'
      BY <1>n, <2>1 DEF Raised
    <3>. QED
      BY <2>2, <3>1, <3>2, <3>3 DEF OnTheWay
  <2>. QED
    BY <1>a, <2>1, <2>2
<1>14. ASSUME Link \/ LinkFails PROVE Pending'
  <2>1. /\ done' = done \cup {run.log} /\ run' = NoRun
        /\ UNCHANGED <<rows, topic, offset, parses, agents, dropped>>
    BY <1>t, <1>14, LinkStep DEF Ended, storeVars
  <2>2. ASSUME NEW l \in Log, parses[l] > 0 \/ agents[l] > 0 \/ (run # NoRun /\ run.log = l)
        PROVE  OnTheWay(l)' \/ l \in done' \cup dropped'
    BY <2>1, <2>2 DEF OnTheWay
  <2>. QED
    BY <1>a, <2>1, <2>2
<1>15. ASSUME NEW i \in IncidentId, NEW s \in Status, PatchUpdate(i, s) PROVE Pending'
  BY <1>t, <1>15, <1>b, PatchUpdateStep DEF Apart, storeVars, queueVars
<1>16. ASSUME PatchDocuments \/ PatchDocumentsFails PROVE Pending'
  BY <1>t, <1>16, <1>b, PatchDocumentsStep DEF Apart, storeVars, queueVars
<1>17. ASSUME PatchCommit \/ PatchRollback PROVE Pending'
  BY <1>t, <1>17, <1>b, PatchEndStep DEF Apart, storeVars, queueVars
<1>18. ASSUME UNCHANGED vars PROVE Pending'
  BY <1>18, <1>b DEF vars, storeVars, queueVars, agentVars, history
<1>. QED
  BY <1>1, <1>2, <1>3, <1>4, <1>5, <1>6, <1>7, <1>8, <1>9, <1>10, <1>11, <1>12, <1>13,
     <1>14, <1>15, <1>16, <1>17, <1>18, <1>19, Steps, Zenon

\* No stored log is lost, in every reachable state.
LEMMA PendingSpec == Spec => []Pending
<1>1. Init => Pending
  BY DEF Init, Pending
<1>. QED
  BY <1>1, NextPending, TypedSpec, PTL DEF Spec

\* When nothing is on the way any more, every stored log has been recorded or dropped: no
\* event, message or run is lost between the topic and the incident, because the offset and
\* each message are acknowledged only after the next one was sent.
THEOREM StoredGetsRecorded == Spec => []StoredIsRecorded
<1>1. Typed /\ Pending => StoredIsRecorded
  <2>. SUFFICES ASSUME Typed, Pending, Quiet, NEW l \in rows PROVE l \in done \cup dropped
    BY DEF StoredIsRecorded
  <2>1. l \in Log /\ Len(topic) \in Nat
    BY DEF Typed, StoreTyped
  <2>2. ~OnTheWay(l)
    BY <2>1 DEF Quiet, OnTheWay
  <2>. QED
    BY <2>2 DEF Pending
<1>. QED
  BY <1>1, TypedSpec, PendingSpec, PTL

-----------------------------------------------------------------------------
(* The search page *)

\* A document names its log until a run links it, and a run that ends links it, unless the
\* document is written after that or Elasticsearch fails.
DocsLinked ==
    \A r \in Request : docs[r] # NoDoc =>
        \/ docs[r].incident \in IncidentId
        \/ /\ docs[r].incident = requests[r].log
           /\ docs[r].late \/ requests[r].log \notin done \/ requests[r].log \in astray

\* The status the documents of an incident show: the one of the PATCH that has told
\* Elasticsearch, and until then the one of the row.
Shown(i) ==
    IF patch # NoPatch /\ patch.pc = "commit" /\ patch.incident = i
    THEN patch.status ELSE incidents[i].status

DocsShow ==
    \A r \in Request : docs[r] # NoDoc /\ docs[r].incident \in IncidentId =>
        /\ Live(incidents, docs[r].incident)
        /\ docs[r].incident \in astray \/ docs[r].status = Shown(docs[r].incident)

\* A run that has read an incident will link its document with the status of the row, and
\* no PATCH of the incident waits to be committed once the run has the row lock behind it.
RunShows ==
    run.pc \in {"record", "link"} /\ run.incident \notin astray =>
        /\ run.status = incidents[run.incident].status
        /\ patch # NoPatch /\ patch.pc = "commit" /\ patch.incident = run.incident
               => run.pc = "record"

PageTold == DocsLinked /\ DocsShow /\ RunShows

LEMMA NextPageTold ==
    ASSUME Log \cap IncidentId = {}
    PROVE  Typed /\ Kept /\ PageTold /\ [Next]_vars => PageTold'
<1>. SUFFICES ASSUME Typed, Kept, PageTold, [Next]_vars PROVE PageTold'
  OBVIOUS
<1>t. /\ ApiTyped /\ StoreTyped /\ QueueTyped /\ RunTyped /\ DocsTyped /\ PatchTyped
      /\ FaultsTyped /\ docs \in [Request -> DocState]
  BY DEF Typed, DocsTyped
<1>k. RequestsKept /\ DocsKept
  BY DEF Kept
<1>p. DocsLinked /\ DocsShow /\ RunShows
  BY DEF PageTold
\* The API moves requests and leaves the documents alone.
<1>a. ASSUME \A r \in Request : docs[r] # NoDoc => requests'[r].log = requests[r].log,
             UNCHANGED <<docs, done, incidents, astray, run, patch>>
      PROVE  PageTold'
  <2>1. DocsLinked'
    BY <1>a, <1>p DEF DocsLinked
  <2>2. DocsShow' /\ RunShows'
    BY <1>a, <1>p DEF DocsShow, RunShows, Shown, Live
  <2>. QED
    BY <2>1, <2>2 DEF PageTold
\* The documents are alike, and neither rows nor requests have changed.
<1>b. ASSUME Alike(docs'), UNCHANGED <<requests, incidents, astray, patch>>,
             \A l \in Log : l \in done' /\ l \notin done => Stored(l) = {},
             RunShows'
      PROVE  PageTold'
  <2>1. DocsLinked'
    <3>. SUFFICES ASSUME NEW r \in Request, docs'[r] # NoDoc, docs'[r].incident \notin IncidentId
                  PROVE  /\ docs'[r].incident = requests'[r].log
                         /\ \/ docs'[r].late \/ requests'[r].log \notin done'
                            \/ requests'[r].log \in astray'
      BY DEF DocsLinked
    <3>1. /\ docs[r] # NoDoc /\ docs'[r].incident = docs[r].incident
          /\ docs'[r].late = docs[r].late /\ requests' = requests
      BY <1>b DEF Alike
    <3>2. /\ docs[r].incident = requests[r].log
          /\ docs[r].late \/ requests[r].log \notin done \/ requests[r].log \in astray
      BY <1>p, <3>1 DEF DocsLinked
    <3>3. requests[r].log \in Log
      BY <1>k, <1>t, <3>1, RequestHolds DEF DocsKept, Past, ApiTyped
    <3>4. r \in Stored(requests[r].log)
      BY <3>1, <3>2 DEF Stored
    <3>. QED
      BY <1>b, <3>1, <3>2, <3>3, <3>4
  <2>2. DocsShow'
    <3>. SUFFICES ASSUME NEW r \in Request, docs'[r] # NoDoc, docs'[r].incident \in IncidentId
                  PROVE  /\ Live(incidents', docs'[r].incident)
                         /\ docs'[r].incident \in astray' \/ docs'[r].status = Shown(docs[r].incident)'
      BY DEF DocsShow
    <3>1. /\ docs[r] # NoDoc /\ docs'[r].incident = docs[r].incident
          /\ docs'[r].status = docs[r].status
      BY <1>b DEF Alike
    <3>2. Shown(docs[r].incident)' = Shown(docs[r].incident)
      BY <1>b, <3>1 DEF Shown
    <3>. QED
      BY <1>b, <1>p, <3>1, <3>2 DEF DocsShow
  <2>. QED
    BY <1>b, <2>1, <2>2 DEF PageTold
<1>s. Alike(docs) /\ (UNCHANGED docs => Alike(docs'))
  BY DEF Alike
<1>1. ASSUME NEW r \in Request, NEW l \in Log, NEW c \in 0..MaxClock, ApiQuiet(r, l, c)
      PROVE  PageTold'
  <2>1. /\ requests[r] = Unsent /\ \A q \in Request \ {r} : requests'[q] = requests[q]
        /\ UNCHANGED <<docs, done, incidents, astray, run, patch>>
    BY <1>t, <1>1, ApiQuietStep DEF Behind, agentVars, patchVars, history
  <2>2. docs[r] = NoDoc
    BY <1>k, <2>1 DEF DocsKept, Past
  <2>. QED
    BY <1>a, <2>1, <2>2
<1>2. ASSUME NEW r \in Request, ApiGoes(r) PROVE PageTold'
  <2>1. /\ requests'[r].log = requests[r].log
        /\ \A q \in Request \ {r} : requests'[q] = requests[q]
        /\ UNCHANGED <<docs, done, incidents, astray, run, patch>>
    BY <1>t, <1>2, ApiGoesStep DEF Behind, agentVars, patchVars, history
  <2>. QED
    BY <1>a, <2>1
<1>3. ASSUME NEW r \in Request, Store(r) \/ StoreFails(r) PROVE PageTold'
  <2>1. /\ requests'[r].log = requests[r].log
        /\ \A q \in Request \ {r} : requests'[q] = requests[q]
        /\ UNCHANGED <<docs, done, incidents, astray, run, patch>>
    BY <1>t, <1>3, StoreStep DEF Behind, agentVars, patchVars, history
  <2>. QED
    BY <1>a, <2>1
<1>4. ASSUME NEW r \in Request, IndexDocument(r) PROVE PageTold'
  <2>1. /\ requests'[r].log = requests[r].log /\ requests[r].log \in Log
        /\ \A q \in Request \ {r} : requests'[q] = requests[q] /\ docs'[q] = docs[q]
        /\ docs'[r].incident = requests[r].log
        /\ docs'[r].late <=> requests[r].log \in done
        /\ UNCHANGED <<done, incidents, astray, run, patch>>
    BY <1>t, <1>4, IndexStep DEF Behind, agentVars, patchVars, history
  <2>2. requests[r].log \notin IncidentId
    BY <2>1
  <2>3. DocsLinked'
    BY <1>p, <2>1 DEF DocsLinked
  <2>4. DocsShow'
    BY <1>p, <2>1, <2>2 DEF DocsShow, Shown, Live
  <2>5. RunShows'
    BY <1>p, <2>1 DEF RunShows
  <2>. QED
    BY <2>3, <2>4, <2>5 DEF PageTold
<1>5. ASSUME \/ Deliver \/ DeliverRepeated
             \/ \E l \in Log : Redeliver(l) \/ Parse(l) \/ ParseRepeated(l) \/ ParseFails(l)
      PROVE  PageTold'
  <2>1. UNCHANGED <<requests, docs, done, incidents, astray, run, patch>>
    BY <1>t, <1>5, DeliverStep, RedeliverStep, ParseStep
    DEF Beside, agentVars, patchVars, apiVars
  <2>. QED
    BY <1>a, <2>1
<1>6. ASSUME NEW x \in Log, StartAgent(x) \/ Contention(x) PROVE PageTold'
  <2>1. /\ run' = [pc |-> "fields", log |-> x] \/ UNCHANGED run
        /\ UNCHANGED <<requests, docs, done, incidents, astray, patch>>
    BY <1>t, <1>6, StartStep DEF Beside, patchVars, apiVars
  <2>2. RunShows'
    BY <1>p, <2>1 DEF RunShows
  <2>. QED
    BY <1>b, <1>s, <2>1, <2>2
<1>7. ASSUME UpdateFields \/ UpdateFieldsFails PROVE PageTold'
  <2>1. /\ run' = [pc |-> "find", log |-> run.log] /\ Alike(docs')
        /\ UNCHANGED <<requests, done, incidents, astray, patch>>
    BY <1>t, <1>7, UpdateFieldsStep DEF Aside, patchVars, apiVars
  <2>2. RunShows'
    BY <2>1 DEF RunShows
  <2>. QED
    BY <1>b, <2>1, <2>2
<1>8. ASSUME Refresh PROVE PageTold'
  <2>1. Alike(docs') /\ UNCHANGED <<run, requests, done, incidents, astray, patch>>
    BY <1>t, <1>8, RefreshStep DEF Aside, agentVars, patchVars, apiVars
  <2>2. RunShows'
    BY <1>p, <2>1 DEF RunShows
  <2>. QED
    BY <1>b, <2>1, <2>2
<1>9. ASSUME FindActive PROVE PageTold'
  <2>1. /\ UNCHANGED <<docs, requests, done, incidents, astray, patch>>
        /\ \E i \in IncidentId : run' = [pc |-> "record", log |-> run.log, incident |-> i,
                                         status |-> incidents[i].status]
    BY <1>t, <1>9, FindStep DEF Aside, patchVars, apiVars
  <2>2. RunShows'
    BY <2>1 DEF RunShows
  <2>. QED
    BY <1>b, <1>s, <2>1, <2>2
<1>17. ASSUME FindNone PROVE PageTold'
  <2>1. /\ run' = [pc |-> "analyse", log |-> run.log]
        /\ UNCHANGED <<docs, requests, done, incidents, astray, patch>>
    BY <1>t, <1>17, FindNoneStep DEF Aside, patchVars, apiVars
  <2>2. RunShows'
    BY <2>1 DEF RunShows
  <2>. QED
    BY <1>b, <1>s, <2>1, <2>2
<1>10. ASSUME LateDuplicate \/ NotActionable \/ LinkNothing \/ AgentLost PROVE PageTold'
  <2>1. /\ run' = NoRun /\ UNCHANGED <<docs, requests, incidents, astray, patch>>
        /\ \A l \in Log : l \in done' /\ l \notin done => Stored(l) = {}
    BY <1>t, <1>10, EndStep DEF Aside, patchVars, apiVars
  <2>2. RunShows'
    BY <2>1 DEF RunShows, NoRun
  <2>. QED
    BY <1>b, <1>s, <2>1, <2>2
<1>11. ASSUME RecordDuplicate \/ Create PROVE PageTold'
  <2>1. UNCHANGED <<docs, requests, done, astray, patch>>
    BY <1>t, <1>11, WriteStep DEF Aside, patchVars, apiVars
  <2>2. PICK i \in IncidentId : Writes(i)
    BY <1>t, <1>11, WriteStep
  <2>3. /\ \A j \in IncidentId \ {i} : incidents'[j] = incidents[j]
        /\ Live(incidents', i)
        /\ Live(incidents, i) => incidents'[i].status = incidents[i].status
    BY <2>2 DEF Writes, Live, Row
  <2>4. DocsLinked'
    BY <1>p, <2>1 DEF DocsLinked
  <2>5. ASSUME NEW j \in IncidentId, Live(incidents, j)
        PROVE  Live(incidents', j) /\ Shown(j)' = Shown(j)
    BY <2>1, <2>3, <2>5 DEF Shown, Live
  <2>6. DocsShow'
    BY <1>p, <2>1, <2>5 DEF DocsShow
  <2>7. RunShows'
    <3>1. CASE run.pc = "record"
      <4>1. /\ i = run.incident /\ ~(patch # NoPatch /\ patch.incident = i)
            /\ incidents'[i].status = incidents[i].status
            /\ run' = [pc |-> "link", log |-> run.log, incident |-> i, status |-> run.status]
        BY <2>2, <3>1 DEF Writes
      <4>2. run'.incident = i /\ run'.status = run.status
        BY <4>1
      <4>. QED
        BY <1>p, <2>1, <3>1, <4>1, <4>2 DEF RunShows
    <3>2. CASE run.pc = "analyse"
      <4>1. /\ ~Live(incidents, i) /\ incidents'[i].status = "open"
            /\ run' = [pc |-> "link", log |-> run.log, incident |-> i, status |-> "open"]
        BY <2>2, <3>2 DEF Writes
      <4>2. run'.incident = i /\ run'.status = "open"
        BY <4>1
      <4>3. patch # NoPatch => patch.incident # i
        BY <1>t, <4>1 DEF PatchTyped
      <4>. QED
        BY <2>1, <4>1, <4>2, <4>3 DEF RunShows
    <3>. QED
      BY <2>2, <3>1, <3>2 DEF Writes
  <2>. QED
    BY <2>4, <2>6, <2>7 DEF PageTold
<1>12. ASSUME Link \/ LinkFails PROVE PageTold'
  <2>0. PICK ids : Links(ids)
    BY <1>t, <1>12, LinkStep
  <2>1. /\ run.pc = "link" /\ run.log \in Log /\ run.incident \in IncidentId
        /\ run' = NoRun /\ done' = done \cup {run.log} /\ (ids # {} \/ run.log \in astray')
        /\ \A r \in Request :
               /\ docs'[r] = NoDoc <=> docs[r] = NoDoc
               /\ docs[r] # NoDoc =>
                      /\ docs'[r].late = docs[r].late
                      /\ docs'[r].incident = IF r \in ids THEN run.incident ELSE docs[r].incident
                      /\ docs'[r].status = IF r \in ids THEN run.status ELSE docs[r].status
        /\ UNCHANGED <<requests, incidents, patch>>
        /\ astray \subseteq astray'
    BY <1>t, <1>12, <2>0, LinkStep DEF Links, Ended, patchVars, apiVars
  <2>2. \A r \in ids : r \in Request /\ docs[r] # NoDoc /\ docs[r].incident = run.log
    BY <2>0 DEF Links, Matching, Stored
  <2>3. ASSUME NEW r \in Request, docs[r] # NoDoc, docs[r].incident \notin IncidentId,
               requests[r].log = run.log, run.log \notin astray'
        PROVE  r \in ids
    <3>1. PICK q \in ids : TRUE
      BY <2>1, <2>3
    <3>2. q \in Request /\ docs[q] # NoDoc /\ docs[q].incident = run.log /\ run.log \notin IncidentId
      BY <2>1, <2>2
    <3>3. requests[q].log = run.log
      BY <1>p, <3>2 DEF DocsLinked
    <3>4. Past(q, {"stored", "202"}) /\ Past(r, {"stored", "202"})
      BY <1>k, <2>3, <3>2 DEF DocsKept, Past
    <3>. QED
      BY <1>k, <2>3, <3>2, <3>3, <3>4 DEF RequestsKept
  <2>4. DocsLinked'
    BY <1>p, <2>1, <2>3 DEF DocsLinked
  <2>5. \A j : Shown(j)' = Shown(j)
    BY <2>1 DEF Shown
  <2>6. Live(incidents, run.incident)
    BY <1>t, <2>1 DEF RunTyped
  <2>7. run.incident \in astray \/ run.status = Shown(run.incident)
    BY <1>p, <2>1 DEF RunShows, Shown
  <2>8. DocsShow'
    <3>. SUFFICES ASSUME NEW r \in Request, docs'[r] # NoDoc, docs'[r].incident \in IncidentId
                  PROVE  /\ Live(incidents', docs'[r].incident)
                         /\ docs'[r].incident \in astray' \/ docs'[r].status = Shown(docs[r].incident)'
      BY DEF DocsShow
    <3>1. Shown(docs[r].incident)' = Shown(docs'[r].incident)
      BY <2>1 DEF Shown
    <3>2. Live(incidents', docs'[r].incident) <=> Live(incidents, docs'[r].incident)
      BY <2>1
    <3>3. CASE r \in ids
      BY <2>1, <2>6, <2>7, <3>1, <3>2, <3>3
    <3>4. CASE r \notin ids
      BY <1>p, <2>1, <3>1, <3>2, <3>4 DEF DocsShow
    <3>. QED
      BY <3>3, <3>4
  <2>9. RunShows'
    BY <2>1 DEF RunShows, NoRun
  <2>. QED
    BY <2>4, <2>8, <2>9 DEF PageTold
<1>13. ASSUME NEW i \in IncidentId, NEW s \in Status, PatchUpdate(i, s) PROVE PageTold'
  <2>1. /\ patch = NoPatch /\ patch'.pc = "search"
        /\ UNCHANGED <<docs, requests, done, incidents, astray, run>>
    BY <1>t, <1>13, PatchUpdateStep DEF Apart, apiVars
  <2>2. \A j : Shown(j)' = Shown(j)
    BY <2>1 DEF Shown
  <2>3. DocsLinked'
    BY <1>p, <2>1 DEF DocsLinked
  <2>4. DocsShow'
    BY <1>p, <2>1 DEF DocsShow, Shown, Live
  <2>5. RunShows'
    BY <1>p, <2>1 DEF RunShows
  <2>. QED
    BY <2>3, <2>4, <2>5 DEF PageTold
<1>14. ASSUME PatchDocuments \/ PatchDocumentsFails PROVE PageTold'
  <2>. DEFINE i == patch.incident
              s == patch.status
  <2>1. /\ patch # NoPatch /\ patch.pc = "search" /\ patch'.pc = "commit" /\ patch' # NoPatch
        /\ patch'.incident = i /\ patch'.status = s /\ Tells(i, s)
        /\ UNCHANGED <<requests, done, incidents, run>>
    BY <1>t, <1>14, PatchDocumentsStep DEF Apart, apiVars
  <2>. HIDE DEF i, s
  <2>2. \A j : Shown(j)' = IF j = i THEN s ELSE Shown(j)
    BY <2>1 DEF Shown, i
  <2>3. DocsLinked'
    BY <1>p, <2>1 DEF DocsLinked, Tells
  <2>4. DocsShow'
    <3>. SUFFICES ASSUME NEW r \in Request, docs'[r] # NoDoc, docs'[r].incident \in IncidentId,
                         docs'[r].incident \notin astray'
                  PROVE  docs'[r].status = Shown(docs[r].incident)'
      BY <1>p, <2>1 DEF DocsShow, Tells
    <3>1. docs[r] # NoDoc /\ docs'[r].incident = docs[r].incident /\ docs[r].incident \notin astray
      BY <2>1 DEF Tells
    <3>2. Shown(docs[r].incident)' = IF docs'[r].incident = i THEN s ELSE Shown(docs'[r].incident)
      BY <2>1 DEF Shown, i
    <3>. QED
      BY <1>p, <2>1, <3>1, <3>2 DEF DocsShow, Tells
  <2>5. RunShows'
    BY <1>p, <2>1 DEF RunShows, Tells
  <2>. QED
    BY <2>3, <2>4, <2>5 DEF PageTold
<1>15. ASSUME PatchCommit \/ PatchRollback PROVE PageTold'
  <2>. DEFINE i == patch.incident
              s == patch.status
  <2>1. /\ patch # NoPatch /\ patch' = NoPatch /\ astray \subseteq astray'
        /\ \/ i \in astray'
           \/ /\ patch.pc = "commit" /\ incidents'[i].status = s
              /\ ~(run.pc \in {"record", "link"} /\ run.incident = i)
        /\ \A j \in IncidentId : Live(incidents, j) <=> Live(incidents', j)
        /\ \A j \in IncidentId \ {i} : incidents'[j] = incidents[j]
        /\ UNCHANGED <<docs, requests, done, run>>
    BY <1>t, <1>15, PatchEndStep DEF Apart, apiVars
  <2>2. DocsLinked'
    BY <1>p, <2>1 DEF DocsLinked
  <2>3. \A j \in IncidentId : j \in astray' \/ Shown(j)' = Shown(j)
    BY <2>1 DEF Shown
  <2>4. DocsShow'
    <3>. SUFFICES ASSUME NEW r \in Request, docs[r] # NoDoc, docs[r].incident \in IncidentId
                  PROVE  /\ Live(incidents', docs[r].incident)
                         /\ docs[r].incident \in astray' \/ docs[r].status = Shown(docs[r].incident)'
      BY <2>1 DEF DocsShow
    <3>1. docs[r].incident \in astray' \/ Shown(docs[r].incident)' = Shown(docs[r].incident)
      BY <2>1 DEF Shown
    <3>. QED
      BY <1>p, <2>1, <3>1 DEF DocsShow
  <2>5. RunShows'
    <3>1. run.pc \in {"record", "link"} => run.incident \in IncidentId
      BY <1>t, RunHolds
    <3>. QED
      BY <1>p, <2>1, <3>1 DEF RunShows
  <2>. QED
    BY <2>2, <2>4, <2>5 DEF PageTold
<1>16. ASSUME UNCHANGED vars PROVE PageTold'
  BY <1>16, <1>a DEF vars, apiVars, agentVars, patchVars, history
<1>. QED
  BY <1>1, <1>2, <1>3, <1>4, <1>5, <1>6, <1>7, <1>8, <1>9, <1>10, <1>11, <1>12, <1>13,
     <1>14, <1>15, <1>16, <1>17, Steps, Zenon

\* When nothing is on the way any more, the search page is a true picture of DB-2: the
\* document of a recorded log belongs to an incident, although link_log_to_incident meets it
\* before it is written or can be searched, and shows the status of the row, although PATCH
\* writes Elasticsearch before it commits; with the exceptions SearchIsTrue names.  Ids of
\* logs and of incidents are uuid4, and never the same.
THEOREM SearchPageIsTrue ==
    ASSUME Log \cap IncidentId = {}
    PROVE  Spec => []SearchIsTrue
<1>1. Init => PageTold
  BY DEF Init, PageTold, DocsLinked, DocsShow, RunShows, NoRun
<1>2. Typed /\ Kept /\ PageTold /\ [Next]_vars => PageTold'
  BY NextPageTold
<1>3. ASSUME Typed, Kept, Pending, PageTold PROVE SearchIsTrue
  <2>1. ASSUME Quiet, NEW r \in Request, docs[r] # NoDoc, ~docs[r].late,
               requests[r].log \notin dropped \cup astray
        PROVE  docs[r].incident \in IncidentId
    <3>. DEFINE l == requests[r].log
    <3>1. l \in rows
      BY <1>3, <2>1 DEF Kept, DocsKept, RequestsKept, Past
    <3>2. l \in Log /\ Len(topic) \in Nat
      BY <1>3, <3>1 DEF Typed, StoreTyped
    <3>3. ~OnTheWay(l)
      BY <2>1, <3>2 DEF Quiet, OnTheWay
    <3>4. l \in done
      BY <1>3, <2>1, <3>1, <3>3 DEF Pending
    <3>. QED
      BY <1>3, <2>1, <3>4 DEF PageTold, DocsLinked
  <2>2. ASSUME Quiet, NEW r \in Request, docs[r] # NoDoc,
               docs[r].incident \in IncidentId \ astray
        PROVE  docs[r].status = incidents[docs[r].incident].status
    BY <1>3, <2>2 DEF Quiet, PageTold, DocsShow, Shown
  <2>. QED
    BY <2>1, <2>2 DEF SearchIsTrue, EventsAreLinked, SearchShowsStatus
<1>. QED
  BY <1>1, <1>2, <1>3, TypedSpec, KeptSpec, PendingSpec, PTL DEF Spec
=============================================================================
