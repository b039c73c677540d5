---------------------- MODULE IncidentPipeline_proofs ----------------------
(***************************************************************************)
(* Theorems about IncidentPipeline, for every set of tasks, incidents,     *)
(* fingerprints, logs and editors and every value of the bounds.           *)
(*                                                                         *)
(* Type correctness comes first; every other invariant is proved relative  *)
(* to it.  The facts about rows and tables are in IncidentTable_proofs.    *)
(***************************************************************************)
EXTENDS IncidentPipeline, IncidentTable_proofs, FiniteSetTheorems

-----------------------------------------------------------------------------
\* The initial state has its types.
LEMMA InitTypeOK == Init => TypeOK
BY PipelineAssumption
   DEF Init, TypeOK, TaskPC, Finished, InFlight, InLockedSection, Outcomes, Table,
       EmptyTable, Message, PatchState, IdlePatch

\* Every action of a task and of its environment keeps the types.
LEMMA NextTypeOK == TypeOK /\ [Next]_vars => TypeOK'
<1>. SUFFICES ASSUME TypeOK, [Next]_vars PROVE TypeOK'
  OBVIOUS
<1>. USE PipelineAssumption
<1>. USE DEF TypeOK, TaskPC, Finished, InFlight, InLockedSection, Outcomes
<1>1. ASSUME NEW t \in Task, AcquireLock(t) PROVE TypeOK'
  BY <1>1 DEF AcquireLock, Goto, tableVars
<1>2. ASSUME NEW t \in Task, LockContention(t) PROVE TypeOK'
  BY <1>2 DEF LockContention, Goto, Return, tableVars
<1>3. ASSUME NEW t \in Task, AcquireFailOpen(t) PROVE TypeOK'
  BY <1>3 DEF AcquireFailOpen, Goto, tableVars
<1>4. ASSUME NEW t \in Task, FindActive(t) PROVE TypeOK'
  <2>1. CASE Goto(t, "find", "analyse")
             /\ UNCHANGED <<outcome, target, seenCount, retries, lock, tableVars,
                            messages, patch, crashes, edits, wipes>>
    BY <2>1 DEF Goto, tableVars
  <2>2. ASSUME Goto(t, "find", "record"),
               NEW i \in IncidentId, IsActive(incidents, i, FpOf[t]),
               target' = [target EXCEPT ![t] = i],
               seenCount' = [seenCount EXCEPT ![t] = incidents[i].count],
               UNCHANGED <<outcome, retries, lock, tableVars, messages,
                           patch, crashes, edits, wipes>>
        PROVE  TypeOK'
    <3>1. incidents[i].count \in Nat
      <4>1. incidents[i] \in Row
        BY <2>2, LiveIsRow DEF IsActive
      <4>. QED
        BY <4>1 DEF Row
    <3>2. target' \in [Task -> IncidentId \cup {NoIncident}] /\ target'[t] # NoIncident
      BY <2>2
    <3>3. seenCount' \in [Task -> Nat]
      BY <2>2, <3>1
    <3>. QED
      BY <2>2, <3>2, <3>3 DEF Goto, tableVars
  <2>. QED
    BY <1>4, <2>1, <2>2 DEF FindActive
<1>5. ASSUME NEW t \in Task, RecordDuplicate(t) PROVE TypeOK'
  <2>. DEFINE i == target[t]
              newCount == IF Live(incidents, i) THEN incidents[i].count + 1 ELSE seenCount[t]
  <2>1. i \in IncidentId /\ pc[t] = "record"
    BY <1>5 DEF RecordDuplicate, Goto
  <2>2. newCount \in Nat
    <3>1. Live(incidents, i) => incidents[i] \in Row
      BY <2>1, LiveIsRow
    <3>. QED
      BY <3>1 DEF Row
  <2>3. incidents' \in Table
    <3>1. CASE Live(incidents, i)
      <4>1. WithOccurrence(incidents[i], LogOf[t]) \in Row
        BY <2>1, <3>1, LiveIsRow, WithOccurrenceIsRow
      <4>. QED
        BY <1>5, <2>1, <3>1, <4>1 DEF RecordDuplicate, RecordOn, Table
    <3>2. CASE ~Live(incidents, i)
      BY <1>5, <3>2 DEF RecordDuplicate, RecordOn
    <3>. QED
      BY <3>1, <3>2
  <2>4. outbox' \in Seq(Event)
    <3>1. DuplicateEvent(i, newCount) \in Event
      BY <2>1, <2>2 DEF DuplicateEvent, Event, Topics
    <3>2. outbox' = Append(outbox, DuplicateEvent(i, newCount))
      BY <1>5 DEF RecordDuplicate, RecordOn
    <3>. QED
      BY <3>1, <3>2
  <2>5. outcome' \in [Task -> Outcomes] /\ pc' \in [Task -> TaskPC]
    BY <1>5 DEF RecordDuplicate, Return, Goto
  <2>. QED
    <3>1. UNCHANGED <<target, seenCount, retries, lock, delivery, messages,
                      patch, crashes, edits, wipes>>
      BY <1>5 DEF RecordDuplicate
    <3>2. \A u \in Task :
              pc'[u] \in {"record", "publish", "dispatch"} \/ outcome'[u] = "created" =>
                  target'[u] # NoIncident
      BY <1>5, <3>1 DEF RecordDuplicate, Return, Goto
    <3>. QED
      BY <2>3, <2>4, <2>5, <3>1, <3>2
<1>6. ASSUME NEW t \in Task, Analyse(t) PROVE TypeOK'
  <2>1. CASE Goto(t, "analyse", "persist") /\ UNCHANGED outcome
    BY <1>6, <2>1 DEF Analyse, Goto, tableVars
  <2>2. CASE Goto(t, "analyse", "release") /\ Return(t, "not_actionable")
    BY <1>6, <2>2 DEF Analyse, Goto, Return, tableVars
  <2>. QED
    BY <1>6, <2>1, <2>2 DEF Analyse
<1>7. ASSUME NEW t \in Task, Persist(t) PROVE TypeOK'
  <2>1. CASE Goto(t, "persist", "release") /\ Return(t, "late_duplicate")
             /\ UNCHANGED <<target, seenCount, retries, lock, tableVars, messages,
                            patch, crashes, edits, wipes>>
    BY <2>1 DEF Goto, Return, tableVars
  <2>2. ASSUME NEW i \in IncidentId, NEW o \in {"created", "retry", "error"},
               Goto(t, "persist", IF o = "created" THEN "publish" ELSE "release"),
               Insert(t, i), Return(t, o),
               UNCHANGED <<seenCount, retries, lock, messages, patch, crashes, edits, wipes>>
        PROVE  TypeOK'
    <3>1. incidents' \in Table
      <4>1. NewIncident(FpOf[t], LogOf[t]) \in Row
        BY NewIncidentIsRow
      <4>. QED
        BY <2>2, <4>1 DEF Insert, Table
    <3>2. outbox' \in Seq(Event)
      <4>1. CreatedEvents(i) \in Seq(Event)
        BY DEF CreatedEvents, Event, Topics, Status
      <4>. QED
        BY <2>2, <4>1 DEF Insert
    <3>3. delivery' \subseteq IncidentId
      BY <2>2 DEF Insert
    <3>4. target' \in [Task -> IncidentId \cup {NoIncident}] /\ target'[t] # NoIncident
      BY <2>2 DEF Insert
    <3>5. /\ pc' \in [Task -> TaskPC]
          /\ outcome' \in [Task -> Outcomes]
          /\ \A u \in Task \ {t} : pc'[u] = pc[u] /\ target'[u] = target[u]
      BY <2>2 DEF Insert, Goto, Return
    <3>6. \A u \in Task :
              pc'[u] \in {"record", "publish", "dispatch"} \/ outcome'[u] = "created" =>
                  target'[u] # NoIncident
      BY <2>2, <3>4, <3>5 DEF Return
    <3>. QED
      BY <2>2, <3>1, <3>2, <3>3, <3>4, <3>5, <3>6
  <2>. QED
    BY <1>7, <2>1, <2>2 DEF Persist
<1>8. ASSUME NEW t \in Task, PublishPush(t) PROVE TypeOK'
  BY <1>8 DEF PublishPush, Goto, tableVars, Msg, Message
<1>9. ASSUME NEW t \in Task, Release(t) PROVE TypeOK'
  <2>1. AfterRelease(t) \in {"queued", "failed", "dispatch", "done"}
    BY DEF AfterRelease
  <2>2. AfterRelease(t) = "dispatch" => outcome[t] = "created"
    BY DEF AfterRelease
  <2>3. pc' \in [Task -> TaskPC] /\ lock' \in [Fingerprint -> Task \cup {NoTask}]
    BY <1>9, <2>1 DEF Release, Goto
  <2>4. CASE Retries(t) /\ ForgetLocals(t)
    <3>1. AfterRelease(t) = "queued"
      BY <2>4 DEF AfterRelease, Retries
    <3>2. retries' \in [Task -> 0..MaxRetries]
      BY <1>9, <2>4 DEF Release, Retries
    <3>. QED
      BY <1>9, <2>3, <2>4, <3>1, <3>2 DEF Release, Goto, ForgetLocals, tableVars
  <2>5. CASE UNCHANGED <<outcome, target, seenCount, retries>>
    BY <1>9, <2>1, <2>2, <2>3, <2>5 DEF Release, tableVars, Goto
  <2>. QED
    BY <1>9, <2>4, <2>5 DEF Release
<1>10. ASSUME NEW t \in Task, Dispatch(t) PROVE TypeOK'
  <2>1. target[t] \in IncidentId
    BY <1>10 DEF Dispatch, Goto
  <2>2. messages' \subseteq Message
    BY <1>10, <2>1 DEF Dispatch, Msg, Message
  <2>. QED
    BY <1>10, <2>2 DEF Dispatch, Goto, tableVars
<1>11. ASSUME NEW t \in Task, RaiseError(t) PROVE TypeOK'
  BY <1>11 DEF RaiseError, Return, tableVars
<1>12. ASSUME NEW t \in Task, WorkerLost(t) PROVE TypeOK'
  BY <1>12 DEF WorkerLost, ForgetLocals, tableVars
<1>13. ASSUME NEW t \in Task, HardTimeLimit(t) PROVE TypeOK'
  BY <1>13 DEF HardTimeLimit, tableVars
<1>14. ASSUME NEW f \in Fingerprint, LockExpires(f) PROVE TypeOK'
  BY <1>14 DEF LockExpires, taskVars, tableVars
<1>15. ASSUME NEW e \in Editor, PatchRead(e) PROVE TypeOK'
  <2>1. PICK i \in IncidentId, s \in Status \cup {NoStatus} :
            /\ Live(incidents, i)
            /\ Requested(e, i, s)
    BY <1>15 DEF PatchRead
  <2>2. incidents[i].status \in Status
    BY <2>1 DEF Live
  <2>3. patch' \in [Editor -> PatchState]
        /\ patch'[e].id # NoIncident /\ patch'[e].from # NoStatus
    BY <2>1, <2>2 DEF Requested, PatchState, Status, NoStatus
  <2>4. \A d \in Editor \ {e} : patch'[d] = patch[d]
    BY <2>1 DEF Requested
  <2>. QED
    <3>1. edits' \in 0..MaxEdits
      BY <1>15 DEF PatchRead
    <3>2. UNCHANGED <<pc, outcome, target, seenCount, retries, lock, incidents, outbox,
                      delivery, messages, crashes, wipes>>
      BY <1>15 DEF PatchRead, taskVars, tableVars
    <3>. QED
      BY <2>3, <2>4, <3>1, <3>2
<1>16. ASSUME NEW e \in Editor, PatchWrite(e) PROVE TypeOK'
  <2>1. /\ patch' \in [Editor -> PatchState]
        /\ patch'[e].pc = "idle"
        /\ \A d \in Editor \ {e} : patch'[d] = patch[d]
    BY <1>16 DEF PatchWrite, IdlePatch, PatchState
  <2>2. /\ patch[e].id \in IncidentId
        /\ patch[e].from \in Status
        /\ patch[e].to \in Status \cup {NoStatus}
    BY <1>16 DEF PatchWrite, PatchState
  <2>3. CASE WriteStatus(e, NewStatus(e))
    <3>. DEFINE i == patch[e].id
    <3>1. incidents' \in Table
      <4>1. CASE Live(incidents, i) /\ patch[e].to # NoStatus
        <5>1. WithStatus(incidents[i], patch[e].to) \in Row
          BY <2>2, <4>1, LiveIsRow, WithStatusIsRow
        <5>. QED
          BY <2>2, <2>3, <4>1, <5>1 DEF WriteStatus, Table
      <4>2. CASE ~(Live(incidents, i) /\ patch[e].to # NoStatus)
        BY <2>3, <4>2 DEF WriteStatus
      <4>. QED
        BY <4>1, <4>2
    <3>2. outbox' \in Seq(Event)
      <4>1. NewStatus(e) \in Status
        BY <2>2 DEF NewStatus
      <4>2. UpdatedEvent(i, patch[e].from, NewStatus(e)) \in Event
        BY <2>2, <4>1 DEF UpdatedEvent, Event, Topics
      <4>. QED
        BY <2>3, <4>2 DEF WriteStatus
    <3>. QED
      BY <1>16, <2>1, <3>1, <3>2 DEF PatchWrite, taskVars
  <2>4. CASE UNCHANGED <<incidents, outbox>>
    BY <1>16, <2>1, <2>4 DEF PatchWrite, taskVars
  <2>. QED
    BY <1>16, <2>3, <2>4 DEF PatchWrite
<1>17. ASSUME WipeTenant PROVE TypeOK'
  BY <1>17 DEF WipeTenant, taskVars, Table, Live
<1>18. ASSUME UNCHANGED vars PROVE TypeOK'
  BY <1>18 DEF vars, taskVars, tableVars
<1>. QED
  BY <1>1, <1>2, <1>3, <1>4, <1>5, <1>6, <1>7, <1>8, <1>9, <1>10, <1>11, <1>12,
     <1>13, <1>14, <1>15, <1>16, <1>17, <1>18 DEF Next, TaskStep

\* Every variable keeps its type, and a task past the duplicate query or the INSERT
\* names an incident, in every execution of the pipeline.
THEOREM TypeCorrect == Spec => []TypeOK
BY InitTypeOK, NextTypeOK, PTL DEF Spec

-----------------------------------------------------------------------------
\* The ledger's actions, read in the vocabulary of the pipeline's table.
LEMMA LedgerActions ==
    /\ Ledger!LedgerInit <=> incidents = EmptyTable
    /\ \A i \in IncidentId, f \in Fingerprint, key \in Log :
           Ledger!Open(i, f, key) <=>
               /\ incidents[i] = Unissued
               /\ ~IndexConflict(incidents, i, f, "open")
               /\ incidents' = [incidents EXCEPT ![i] = NewIncident(f, key)]
    /\ \A i \in IncidentId, key \in Log :
           Ledger!Absorb(i, key) <=>
               /\ Live(incidents, i)
               /\ incidents' = [incidents EXCEPT ![i] = WithOccurrence(@, key)]
    /\ \A i \in IncidentId, s \in Status :
           Ledger!SetStatus(i, s) <=>
               /\ Live(incidents, i)
               /\ ~IndexConflict(incidents, i, incidents[i].fp, s)
               /\ incidents' = [incidents EXCEPT ![i] = WithStatus(@, s)]
    /\ Ledger!Wipe <=>
           incidents' = [i \in IncidentId |->
                            IF Live(incidents, i) THEN Deleted ELSE incidents[i]]
    /\ Ledger!Status = Status
<1>1. Ledger!LedgerInit <=> incidents = EmptyTable
  BY DEF Ledger!LedgerInit, Ledger!EmptyTable, Ledger!Unissued, EmptyTable, Unissued
<1>2. \A i \in IncidentId : Ledger!Live(incidents, i) <=> Live(incidents, i)
  BY DEF Ledger!Live, Ledger!Status, Live, Status
<1>3. \A i \in IncidentId : \A f, s :
          Ledger!IndexConflict(incidents, i, f, s) <=> IndexConflict(incidents, i, f, s)
  BY <1>2 DEF Ledger!IndexConflict, Ledger!IsActive, IndexConflict, IsActive
<1>4. \A f, key : Ledger!NewIncident(f, key) = NewIncident(f, key)
  BY DEF Ledger!NewIncident, NewIncident
<1>5. \A row, key : Ledger!WithOccurrence(row, key) = WithOccurrence(row, key)
  BY DEF Ledger!WithOccurrence, WithOccurrence
<1>6. \A row, s : Ledger!WithStatus(row, s) = WithStatus(row, s)
  BY DEF Ledger!WithStatus, WithStatus
<1>7. Ledger!Status = Status /\ Ledger!Unissued = Unissued /\ Ledger!Deleted = Deleted
  BY DEF Ledger!Status, Status, Ledger!Unissued, Unissued, Ledger!Deleted, Deleted
<1>8. \A i \in IncidentId, f \in Fingerprint, key \in Log :
           Ledger!Open(i, f, key) <=>
               /\ incidents[i] = Unissued
               /\ ~IndexConflict(incidents, i, f, "open")
               /\ incidents' = [incidents EXCEPT ![i] = NewIncident(f, key)]
  BY <1>3, <1>4, <1>7 DEF Ledger!Open
<1>9. \A i \in IncidentId, key \in Log :
           Ledger!Absorb(i, key) <=>
               /\ Live(incidents, i)
               /\ incidents' = [incidents EXCEPT ![i] = WithOccurrence(@, key)]
  BY <1>2, <1>5 DEF Ledger!Absorb
<1>10. \A i \in IncidentId, s \in Status :
           Ledger!SetStatus(i, s) <=>
               /\ Live(incidents, i)
               /\ ~IndexConflict(incidents, i, incidents[i].fp, s)
               /\ incidents' = [incidents EXCEPT ![i] = WithStatus(@, s)]
  BY <1>2, <1>3, <1>6 DEF Ledger!SetStatus
<1>11. Ledger!Wipe <=>
           incidents' = [i \in IncidentId |->
                            IF Live(incidents, i) THEN Deleted ELSE incidents[i]]
  BY <1>2, <1>7 DEF Ledger!Wipe
<1>. QED
  BY <1>1, <1>7, <1>8, <1>9, <1>10, <1>11

\* Whatever a task, an editor or a wipe does, the table takes a step of the ledger or
\* stays as it is.
LEMMA StepSimulation == TypeOK /\ [Next]_vars => [Ledger!LedgerNext]_incidents
<1>. SUFFICES ASSUME TypeOK, [Next]_vars, incidents' # incidents
              PROVE  Ledger!LedgerNext
  OBVIOUS
<1>. USE PipelineAssumption
<1>1. ASSUME NEW t \in Task, RecordDuplicate(t) PROVE Ledger!LedgerNext
  <2>1. target[t] \in IncidentId
    BY <1>1 DEF RecordDuplicate, Goto, TypeOK
  <2>2. /\ Live(incidents, target[t])
        /\ incidents' = [incidents EXCEPT ![target[t]] = WithOccurrence(@, LogOf[t])]
    BY <1>1 DEF RecordDuplicate, RecordOn
  <2>3. Ledger!Absorb(target[t], LogOf[t])
    BY <2>1, <2>2, LedgerActions
  <2>. QED
    BY <2>1, <2>3 DEF Ledger!LedgerNext
<1>2. ASSUME NEW t \in Task, Persist(t) PROVE Ledger!LedgerNext
  <2>1. PICK i \in IncidentId :
            /\ ~IndexConflict(incidents, i, FpOf[t], "open")
            /\ Insert(t, i)
    BY <1>2 DEF Persist, tableVars
  <2>2. Ledger!Open(i, FpOf[t], LogOf[t])
    BY <2>1, LedgerActions DEF Insert
  <2>. QED
    BY <2>2 DEF Ledger!LedgerNext
<1>3. ASSUME NEW e \in Editor, PatchWrite(e) PROVE Ledger!LedgerNext
  <2>. DEFINE i == patch[e].id
  <2>1. i \in IncidentId /\ patch[e].to \in Status \cup {NoStatus}
    BY <1>3 DEF PatchWrite, TypeOK, PatchState
  <2>2. /\ Live(incidents, i)
        /\ patch[e].to # NoStatus
        /\ ~IndexConflict(incidents, i, incidents[i].fp, patch[e].to)
        /\ incidents' = [incidents EXCEPT ![i] = WithStatus(@, patch[e].to)]
    BY <1>3 DEF PatchWrite, WriteStatus
  <2>3. Ledger!SetStatus(i, patch[e].to)
    BY <2>1, <2>2, LedgerActions
  <2>. QED
    BY <2>1, <2>2, <2>3, LedgerActions DEF Ledger!LedgerNext
<1>4. CASE WipeTenant
  BY <1>4, LedgerActions DEF WipeTenant, Ledger!LedgerNext
<1>5. ASSUME NEW t \in Task,
             \/ AcquireLock(t) \/ LockContention(t) \/ AcquireFailOpen(t)
             \/ FindActive(t) \/ Analyse(t) \/ PublishPush(t)
             \/ Release(t) \/ Dispatch(t)
             \/ RaiseError(t) \/ WorkerLost(t) \/ HardTimeLimit(t)
      PROVE  FALSE
  BY <1>5 DEF AcquireLock, LockContention, AcquireFailOpen, FindActive, Analyse,
     PublishPush, Release, Dispatch, RaiseError, WorkerLost, HardTimeLimit, tableVars
<1>6. ASSUME NEW f \in Fingerprint, LockExpires(f) PROVE FALSE
  BY <1>6 DEF LockExpires, tableVars
<1>7. ASSUME NEW e \in Editor, PatchRead(e) PROVE FALSE
  BY <1>7 DEF PatchRead, tableVars
<1>8. CASE UNCHANGED vars
  BY <1>8 DEF vars, tableVars
<1>. QED
  BY <1>1, <1>2, <1>3, <1>4, <1>5, <1>6, <1>7, <1>8 DEF Next, TaskStep

\* However locks expire, tasks are redelivered and operators move statuses, the
\* incidents table behaves as the ledger says.
THEOREM PipelineImplementsLedger == Spec => ImplementsLedger
<1>1. Init => Ledger!LedgerInit
  BY LedgerActions DEF Init
<1>. QED
  BY <1>1, StepSimulation, TypeCorrect, PTL DEF Spec, ImplementsLedger, Ledger!LedgerSpec

-----------------------------------------------------------------------------
\* No step of the ledger gives a fingerprint a second active incident.
LEMMA LedgerKeepsUnique ==
    ASSUME incidents \in Table, UniqueActive, [Ledger!LedgerNext]_incidents
    PROVE  UniqueActive'
<1>1. ASSUME NEW i \in IncidentId, NEW f \in Fingerprint, NEW key \in Log,
             Ledger!Open(i, f, key)
      PROVE  UniqueActive'
  BY <1>1, LedgerActions, NewIncidentIsRow, WriteKeepsUnique DEF UniqueActive
<1>2. ASSUME NEW i \in IncidentId, NEW key \in Log, Ledger!Absorb(i, key)
      PROVE  UniqueActive'
  <2>1. Live(incidents, i) /\ incidents[i] \in Row
    BY <1>2, LedgerActions, LiveIsRow
  <2>. DEFINE row == WithOccurrence(incidents[i], key)
  <2>2. row \in Row /\ row.fp = incidents[i].fp /\ row.status = incidents[i].status
    BY <2>1, WithOccurrenceIsRow
  <2>3. ~IndexConflict(incidents, i, row.fp, row.status)
    BY <2>1, <2>2, SameEntryNoConflict DEF UniqueActive
  <2>4. incidents' = [incidents EXCEPT ![i] = row]
    BY <1>2, LedgerActions
  <2>. QED
    BY <2>2, <2>3, <2>4, WriteKeepsUnique DEF UniqueActive
<1>3. ASSUME NEW i \in IncidentId, NEW s \in Status, Ledger!SetStatus(i, s)
      PROVE  UniqueActive'
  <2>1. Live(incidents, i) /\ incidents[i] \in Row
    BY <1>3, LedgerActions, LiveIsRow
  <2>. DEFINE row == WithStatus(incidents[i], s)
  <2>2. row \in Row /\ row.fp = incidents[i].fp /\ row.status = s
    BY <2>1, WithStatusIsRow
  <2>3. /\ ~IndexConflict(incidents, i, row.fp, row.status)
        /\ incidents' = [incidents EXCEPT ![i] = row]
    BY <1>3, <2>2, LedgerActions
  <2>. QED
    BY <2>2, <2>3, WriteKeepsUnique DEF UniqueActive
<1>4. CASE Ledger!Wipe
  BY <1>4, LedgerActions, DeleteKeepsUnique DEF UniqueActive
<1>5. CASE UNCHANGED incidents
  BY <1>5 DEF UniqueActive
<1>. QED
  BY <1>1, <1>2, <1>3, <1>4, <1>5, LedgerActions DEF Ledger!LedgerNext

\* A fingerprint never has two active incidents.
THEOREM AtMostOneActive == Spec => []UniqueActive
<1>1. Init => UniqueActive
  BY DEF Init, UniqueActive, UniqueActiveIn, IsActive, Live, EmptyTable, Unissued, Status
<1>2. TypeOK /\ UniqueActive /\ [Next]_vars => UniqueActive'
  BY StepSimulation, LedgerKeepsUnique DEF TypeOK
<1>. QED
  BY <1>1, <1>2, TypeCorrect, PTL DEF Spec

-----------------------------------------------------------------------------
\* The invariant behind the lock: a task in the locked section owns the key.
HolderOwnsKey == \A t \in Task : pc[t] \in InLockedSection => lock[FpOf[t]] = t

\* Two tasks of one fingerprint cannot both own its key.
LEMMA OwnersAreExclusive == HolderOwnsKey => LockExclusive
BY DEF HolderOwnsKey, LockExclusive

\* Every step keeps the owners in place as long as Redis answers and no run outlives
\* the TTL: only the holder deletes the key, and it leaves the section as it does.
LEMMA NextHolderOwnsKey ==
    ASSUME ~RedisFaults, ~TtlTooShort, TypeOK, HolderOwnsKey, [Next]_vars
    PROVE  HolderOwnsKey'
<1>. USE PipelineAssumption DEF HolderOwnsKey, TypeOK, InLockedSection
<1>1. ASSUME NEW t \in Task, AcquireLock(t) PROVE HolderOwnsKey'
  BY <1>1 DEF AcquireLock, Goto
<1>2. ASSUME NEW t \in Task, LockContention(t) PROVE HolderOwnsKey'
  BY <1>2 DEF LockContention, Goto
<1>3. ASSUME NEW t \in Task, AcquireFailOpen(t) PROVE FALSE
  BY <1>3 DEF AcquireFailOpen
<1>4. ASSUME NEW t \in Task, Release(t) PROVE HolderOwnsKey'
  <2>1. pc'[t] \notin InLockedSection
    BY <1>4 DEF Release, Goto, AfterRelease
  <2>2. ASSUME NEW u \in Task \ {t}, pc'[u] \in InLockedSection
        PROVE  lock'[FpOf[u]] = u
    <3>1. pc[u] \in InLockedSection /\ lock[FpOf[u]] = u
      BY <1>4, <2>2 DEF Release, Goto
    <3>2. lock[FpOf[t]] = t
      BY <1>4 DEF Release, Goto
    <3>. QED
      BY <1>4, <3>1, <3>2 DEF Release
  <2>. QED
    BY <2>1, <2>2
<1>5. ASSUME NEW t \in Task,
             \/ FindActive(t) \/ RecordDuplicate(t) \/ Analyse(t) \/ Persist(t)
             \/ PublishPush(t) \/ RaiseError(t)
      PROVE  HolderOwnsKey'
  <2>1. /\ UNCHANGED lock
        /\ pc[t] \in InLockedSection
        /\ \A u \in Task \ {t} : pc'[u] = pc[u]
    BY <1>5 DEF FindActive, RecordDuplicate, Analyse, Persist, PublishPush, RaiseError, Goto
  <2>. QED
    BY <2>1
<1>6. ASSUME NEW t \in Task, Dispatch(t) \/ WorkerLost(t) \/ HardTimeLimit(t)
      PROVE  HolderOwnsKey'
  BY <1>6 DEF Dispatch, WorkerLost, HardTimeLimit, Goto
<1>7. ASSUME NEW f \in Fingerprint, LockExpires(f) PROVE HolderOwnsKey'
  BY <1>7 DEF LockExpires, taskVars
<1>8. ASSUME NEW e \in Editor, PatchRead(e) \/ PatchWrite(e) PROVE HolderOwnsKey'
  BY <1>8 DEF PatchRead, PatchWrite, taskVars
<1>9. CASE WipeTenant \/ UNCHANGED vars
  BY <1>9 DEF WipeTenant, vars, taskVars
<1>. QED
  BY <1>1, <1>2, <1>3, <1>4, <1>5, <1>6, <1>7, <1>8, <1>9 DEF Next, TaskStep

\* Under the assumptions dedup_lock documents (Redis answers, and the TTL is longer
\* than any run) the locked section of a fingerprint has one task at a time.
THEOREM LockIsExclusive ==
    ASSUME ~RedisFaults, ~TtlTooShort
    PROVE  Spec => []LockExclusive
<1>1. Init => HolderOwnsKey
  BY DEF Init, HolderOwnsKey, InLockedSection
<1>2. TypeOK /\ HolderOwnsKey /\ [Next]_vars => HolderOwnsKey'
  BY NextHolderOwnsKey
<1>. QED
  BY <1>1, <1>2, OwnersAreExclusive, TypeCorrect, PTL DEF Spec

-----------------------------------------------------------------------------
\* A task between the duplicate query and the INSERT has found no active incident,
\* and there is still none.
QueryStillHolds ==
    \A t \in Task : pc[t] \in {"analyse", "persist"} =>
        \A i \in IncidentId : ~IsActive(incidents, i, FpOf[t])

\* A step keeps what the query found when nobody edits incidents: only the task that
\* owns the fingerprint's key can insert a row of it.
LEMMA NextQueryStillHolds ==
    ASSUME ~RedisFaults, ~TtlTooShort, Editor = {},
           TypeOK, HolderOwnsKey, QueryStillHolds, NoLateDuplicate, [Next]_vars
    PROVE  QueryStillHolds' /\ NoLateDuplicate'
<1>. USE PipelineAssumption
<1>1. ASSUME NEW t \in Task, Persist(t) PROVE QueryStillHolds' /\ NoLateDuplicate'
  <2>0. pc[t] = "persist"
    BY <1>1 DEF Persist, Goto
  <2>1. PICK i \in IncidentId, o \in {"created", "retry", "error"} :
            /\ Goto(t, "persist", IF o = "created" THEN "publish" ELSE "release")
            /\ Insert(t, i)
            /\ Return(t, o)
    BY <1>1, <2>0 DEF Persist, QueryStillHolds, IndexConflict
  <2>2. NoLateDuplicate'
    BY <2>1 DEF NoLateDuplicate, Return, TypeOK
  <2>3. ASSUME NEW u \in Task, pc'[u] \in {"analyse", "persist"},
               NEW j \in IncidentId
        PROVE  ~IsActive(incidents, j, FpOf[u])'
    <3>1. u # t /\ pc[u] = pc'[u]
      BY <2>1, <2>3 DEF Goto, TypeOK
    <3>2. FpOf[u] # FpOf[t]
      BY <2>0, <2>3, <3>1 DEF HolderOwnsKey, InLockedSection
    <3>3. CASE j = i
      <4>1. incidents'[j].fp = FpOf[t]
        BY <2>1, <3>3, NewIncidentIsRow DEF Insert, TypeOK, Table
      <4>. QED
        BY <3>2, <4>1 DEF IsActive
    <3>4. CASE j # i
      BY <2>1, <2>3, <3>1, <3>4 DEF Insert, TypeOK, Table, QueryStillHolds, IsActive, Live
    <3>. QED
      BY <3>3, <3>4
  <2>. QED
    BY <2>2, <2>3 DEF QueryStillHolds
<1>2. ASSUME NEW t \in Task, RecordDuplicate(t) PROVE QueryStillHolds' /\ NoLateDuplicate'
  <2>1. target[t] \in IncidentId
    BY <1>2 DEF RecordDuplicate, Goto, TypeOK
  <2>2. ASSUME NEW j \in IncidentId, NEW f \in Fingerprint, IsActive(incidents, j, f)'
        PROVE  IsActive(incidents, j, f)
    <3>1. CASE j = target[t] /\ Live(incidents, j)
      <4>1. incidents'[j] = WithOccurrence(incidents[j], LogOf[t])
        BY <1>2, <2>1, <3>1 DEF RecordDuplicate, RecordOn, TypeOK, Table
      <4>2. /\ incidents'[j].fp = incidents[j].fp
            /\ incidents'[j].status = incidents[j].status
        BY <3>1, <4>1, LiveIsRow, WithOccurrenceIsRow DEF TypeOK
      <4>. QED
        BY <2>2, <3>1, <4>2 DEF IsActive
    <3>2. CASE ~(j = target[t] /\ Live(incidents, j))
      <4>1. incidents'[j] = incidents[j]
        BY <1>2, <2>1, <3>2 DEF RecordDuplicate, RecordOn, TypeOK, Table
      <4>. QED
        BY <2>2, <4>1 DEF IsActive, Live
    <3>. QED
      BY <3>1, <3>2
  <2>3. \A u \in Task : pc'[u] \in {"analyse", "persist"} => pc[u] = pc'[u]
    BY <1>2 DEF RecordDuplicate, Goto, TypeOK
  <2>4. NoLateDuplicate'
    BY <1>2 DEF RecordDuplicate, Return, NoLateDuplicate, TypeOK
  <2>. QED
    BY <2>2, <2>3, <2>4 DEF QueryStillHolds
<1>3. ASSUME NEW t \in Task, FindActive(t) PROVE QueryStillHolds' /\ NoLateDuplicate'
  <2>1. CASE /\ \A i \in IncidentId : ~IsActive(incidents, i, FpOf[t])
             /\ \A u \in Task \ {t} : pc'[u] = pc[u]
             /\ UNCHANGED <<outcome, incidents>>
    BY <2>1 DEF QueryStillHolds, NoLateDuplicate, IsActive, Live
  <2>2. CASE Goto(t, "find", "record") /\ UNCHANGED <<outcome, incidents>>
    BY <2>2 DEF QueryStillHolds, NoLateDuplicate, IsActive, Live, Goto, TypeOK
  <2>. QED
    BY <1>3, <2>1, <2>2 DEF FindActive, Goto, tableVars, TypeOK
<1>4. ASSUME NEW t \in Task,
             \/ AcquireLock(t) \/ LockContention(t) \/ AcquireFailOpen(t) \/ Analyse(t)
             \/ PublishPush(t) \/ Release(t) \/ Dispatch(t) \/ RaiseError(t)
             \/ WorkerLost(t) \/ HardTimeLimit(t)
      PROVE  QueryStillHolds' /\ NoLateDuplicate'
  <2>1. UNCHANGED incidents
    BY <1>4 DEF AcquireLock, LockContention, AcquireFailOpen, Analyse, PublishPush, Release,
       Dispatch, RaiseError, WorkerLost, HardTimeLimit, tableVars
  <2>2. \A u \in Task :
            pc'[u] \in {"analyse", "persist"} => pc[u] \in {"analyse", "persist"}
    BY <1>4 DEF AcquireLock, LockContention, AcquireFailOpen, Analyse, PublishPush, Release,
       Dispatch, RaiseError, WorkerLost, HardTimeLimit, Goto, AfterRelease, TypeOK
  <2>3. \A u \in Task : outcome'[u] = "late_duplicate" => outcome[u] = "late_duplicate"
    BY <1>4 DEF AcquireLock, LockContention, AcquireFailOpen, Analyse, PublishPush, Release,
       Dispatch, RaiseError, WorkerLost, HardTimeLimit, Return, ForgetLocals, TypeOK
  <2>. QED
    BY <2>1, <2>2, <2>3 DEF QueryStillHolds, NoLateDuplicate, IsActive, Live
<1>5. CASE WipeTenant
  <2>1. \A j \in IncidentId : ~Live(incidents, j)'
    BY <1>5 DEF WipeTenant, Live, Deleted, Status
  <2>. QED
    BY <1>5, <2>1 DEF WipeTenant, taskVars, QueryStillHolds, NoLateDuplicate, IsActive
<1>6. ASSUME NEW f \in Fingerprint, LockExpires(f) PROVE QueryStillHolds' /\ NoLateDuplicate'
  BY <1>6 DEF LockExpires, taskVars, tableVars, QueryStillHolds, NoLateDuplicate, IsActive, Live
<1>7. CASE UNCHANGED vars
  BY <1>7 DEF vars, taskVars, tableVars, QueryStillHolds, NoLateDuplicate, IsActive, Live
<1>. QED
  BY <1>1, <1>2, <1>3, <1>4, <1>5, <1>6, <1>7 DEF Next, TaskStep

\* Under the same assumptions, and while nobody edits incidents, the unique index never
\* has to refuse an INSERT.
THEOREM IndexNeverRefuses ==
    ASSUME ~RedisFaults, ~TtlTooShort, Editor = {}
    PROVE  Spec => []NoLateDuplicate
<1>. DEFINE IInv == HolderOwnsKey /\ QueryStillHolds /\ NoLateDuplicate
<1>1. Init => IInv
  BY DEF Init, HolderOwnsKey, InLockedSection, QueryStillHolds, NoLateDuplicate
<1>2. TypeOK /\ IInv /\ [Next]_vars => IInv'
  BY NextHolderOwnsKey, NextQueryStillHolds
<1>. QED
  BY <1>1, <1>2, TypeCorrect, PTL DEF Spec

-----------------------------------------------------------------------------
\* What a row tells about its occurrences, and what a task that named an incident
\* can rely on: the id was issued, and a success it reported is in the row.
CountIsLength ==
    \A i \in IncidentId :
        Live(incidents, i) => Len(incidents[i].occurrences) = incidents[i].count
TargetIssued ==
    \A t \in Task : target[t] # NoIncident => incidents[target[t]] # Unissued
Contains(i, key) ==
    \E k \in 1..incidents[i].count : incidents[i].occurrences[k] = key
ReportIsTrue ==
    \A t \in Task : outcome[t] \in {"created", "duplicate_recorded"} =>
        /\ target[t] # NoIncident
        /\ Live(incidents, target[t]) => Contains(target[t], LogOf[t])

\* An incident a step of the ledger finds is live with at least its occurrences
\* afterwards, or deleted.
LEMMA LedgerKeepsOccurrences ==
    ASSUME incidents \in Table, incidents' \in Table, CountIsLength,
           [Ledger!LedgerNext]_incidents
    PROVE  /\ CountIsLength'
           /\ \A i \in IncidentId : incidents[i] # Unissued => incidents'[i] # Unissued
           /\ \A i \in IncidentId, key \in Log :
                  /\ incidents[i] # Unissued
                  /\ Live(incidents, i) => Contains(i, key)
                  /\ Live(incidents, i)'
                  => Contains(i, key)'
<1>. DEFINE Kept(i) ==
         /\ incidents'[i].count = incidents[i].count
         /\ incidents'[i].occurrences = incidents[i].occurrences
<1>1. ASSUME NEW i \in IncidentId, NEW f \in Fingerprint, NEW key \in Log,
             Ledger!Open(i, f, key)
      PROVE  /\ incidents[i] = Unissued
             /\ incidents'[i] \in Row
             /\ Len(incidents'[i].occurrences) = incidents'[i].count
             /\ \A j \in IncidentId \ {i} : incidents'[j] = incidents[j]
  <2>1. /\ incidents[i] = Unissued
        /\ incidents' = [incidents EXCEPT ![i] = NewIncident(f, key)]
    BY <1>1, LedgerActions
  <2>2. incidents'[i] = NewIncident(f, key)
    BY <2>1 DEF Table
  <2>. QED
    BY <2>1, <2>2, NewIncidentIsRow DEF NewIncident, Table
<1>2. ASSUME NEW i \in IncidentId, NEW key \in Log, Ledger!Absorb(i, key)
      PROVE  /\ Live(incidents, i) /\ incidents[i] \in Row
             /\ incidents'[i] \in Row
             /\ incidents'[i].count = incidents[i].count + 1
             /\ incidents'[i].occurrences = Append(incidents[i].occurrences, key)
             /\ \A j \in IncidentId \ {i} : incidents'[j] = incidents[j]
  <2>1. /\ Live(incidents, i)
        /\ incidents' = [incidents EXCEPT ![i] = WithOccurrence(incidents[i], key)]
    BY <1>2, LedgerActions
  <2>2. incidents'[i] = WithOccurrence(incidents[i], key)
    BY <2>1 DEF Table
  <2>. QED
    BY <2>1, <2>2, LiveIsRow, WithOccurrenceIsRow DEF Table
<1>3. ASSUME NEW i \in IncidentId, NEW s \in Status, Ledger!SetStatus(i, s)
      PROVE  /\ Live(incidents, i) /\ incidents[i] \in Row
             /\ incidents'[i] \in Row
             /\ Kept(i)
             /\ \A j \in IncidentId \ {i} : incidents'[j] = incidents[j]
  <2>1. /\ Live(incidents, i)
        /\ incidents' = [incidents EXCEPT ![i] = WithStatus(incidents[i], s)]
    BY <1>3, LedgerActions
  <2>2. incidents'[i] = WithStatus(incidents[i], s)
    BY <2>1 DEF Table
  <2>. QED
    BY <2>1, <2>2, LiveIsRow, WithStatusIsRow DEF Table
<1>4. ASSUME NEW i \in IncidentId, NEW key \in Log, Ledger!Absorb(i, key)
      PROVE  /\ Len(incidents[i].occurrences) = incidents[i].count
             /\ Len(incidents'[i].occurrences) = incidents'[i].count
             /\ \A k \in 1..incidents[i].count :
                    incidents'[i].occurrences[k] = incidents[i].occurrences[k]
  <2>. DEFINE seq == incidents[i].occurrences
              n == incidents[i].count
  <2>1. seq \in Seq(Log) /\ n \in Nat /\ Len(seq) = n
    BY <1>2, <1>4 DEF Row, CountIsLength
  <2>2. /\ Len(Append(seq, key)) = n + 1
        /\ \A k \in 1..n : Append(seq, key)[k] = seq[k]
    BY <2>1
  <2>. QED
    BY <1>2, <1>4, <2>1, <2>2
<1>5. ASSUME Ledger!Wipe
      PROVE  \A j \in IncidentId :
                 /\ ~Live(incidents, j)'
                 /\ incidents[j] # Unissued => incidents'[j] # Unissued
  <2>1. /\ Deleted.status \notin Status
        /\ Deleted # Unissued
    BY DEF Deleted, Unissued, Status
  <2>2. \A j \in IncidentId :
            \/ incidents'[j] = Deleted
            \/ incidents'[j] = incidents[j] /\ ~Live(incidents, j)
    BY <1>5, LedgerActions
  <2>. QED
    BY <2>1, <2>2 DEF Live
<1>6. CountIsLength'
  <2>1. ASSUME NEW i \in IncidentId, NEW f \in Fingerprint, NEW key \in Log,
               Ledger!Open(i, f, key)
        PROVE  CountIsLength'
    BY <1>1, <2>1 DEF CountIsLength, Live
  <2>2. ASSUME NEW i \in IncidentId, NEW key \in Log, Ledger!Absorb(i, key)
        PROVE  CountIsLength'
    BY <1>2, <1>4, <2>2 DEF CountIsLength, Live
  <2>3. ASSUME NEW i \in IncidentId, NEW s \in Status, Ledger!SetStatus(i, s)
        PROVE  CountIsLength'
    BY <1>3, <2>3 DEF CountIsLength, Live
  <2>4. CASE Ledger!Wipe
    BY <1>5, <2>4 DEF CountIsLength, Live
  <2>5. CASE UNCHANGED incidents
    BY <2>5 DEF CountIsLength, Live
  <2>. QED
    BY <2>1, <2>2, <2>3, <2>4, <2>5, LedgerActions DEF Ledger!LedgerNext
<1>7. ASSUME NEW i \in IncidentId, incidents[i] # Unissued
      PROVE  incidents'[i] # Unissued
  <2>1. \A row \in Row : row # Unissued
    BY DEF Row, Unissued, Status
  <2>. QED
    BY <1>1, <1>2, <1>3, <1>5, <1>7, <2>1, LedgerActions DEF Ledger!LedgerNext
<1>8. ASSUME NEW i \in IncidentId, NEW key \in Log,
             incidents[i] # Unissued, Live(incidents, i) => Contains(i, key),
             Live(incidents, i)'
      PROVE  Contains(i, key)'
  <2>1. ASSUME NEW j \in IncidentId, NEW f \in Fingerprint, NEW k \in Log,
               Ledger!Open(j, f, k)
        PROVE  Contains(i, key)'
    <3>1. incidents'[i] = incidents[i]
      BY <1>1, <1>8, <2>1
    <3>. QED
      BY <1>8, <3>1 DEF Contains, Live
  <2>2. ASSUME NEW j \in IncidentId, NEW l \in Log, Ledger!Absorb(j, l)
        PROVE  Contains(i, key)'
    <3>1. CASE i = j
      <4>1. PICK k \in 1..incidents[i].count : incidents[i].occurrences[k] = key
        BY <1>2, <1>8, <2>2, <3>1 DEF Contains
      <4>2. incidents[i].count \in Nat /\ incidents'[i].count = incidents[i].count + 1
        BY <1>2, <2>2, <3>1 DEF Row
      <4>3. k \in 1..incidents'[i].count /\ incidents'[i].occurrences[k] = key
        BY <1>4, <2>2, <3>1, <4>1, <4>2
      <4>. QED
        BY <4>3 DEF Contains
    <3>2. CASE i # j
      BY <1>2, <1>8, <2>2, <3>2 DEF Contains, Live
    <3>. QED
      BY <3>1, <3>2
  <2>3. ASSUME NEW j \in IncidentId, NEW s \in Status, Ledger!SetStatus(j, s)
        PROVE  Contains(i, key)'
    <3>1. Kept(i) /\ Live(incidents, i)
      BY <1>3, <1>8, <2>3 DEF Live
    <3>. QED
      BY <1>8, <3>1 DEF Contains
  <2>4. CASE Ledger!Wipe
    BY <1>5, <1>8, <2>4 DEF Live
  <2>5. CASE incidents' = incidents
    BY <1>8, <2>5 DEF Contains, Live
  <2>. QED
    BY <2>1, <2>2, <2>3, <2>4, <2>5, LedgerActions DEF Ledger!LedgerNext
<1>. QED
  BY <1>6, <1>7, <1>8


\* Until its transaction a task has reported nothing.
NoReportYet ==
    \A t \in Task :
        pc[t] \in {"queued", "find", "record", "analyse", "persist"} => outcome[t] = "none"

LEMMA NextNoReportYet == TypeOK /\ NoReportYet /\ [Next]_vars => NoReportYet'
<1>. SUFFICES ASSUME TypeOK, NoReportYet, [Next]_vars PROVE NoReportYet'
  OBVIOUS
<1>1. ASSUME NEW t \in Task,
             TaskStep(t) \/ RaiseError(t) \/ WorkerLost(t) \/ HardTimeLimit(t)
      PROVE  NoReportYet'
  <2>1. \A u \in Task \ {t} : pc'[u] = pc[u] /\ outcome'[u] = outcome[u]
    BY <1>1 DEF TaskStep, AcquireLock, LockContention, AcquireFailOpen, FindActive,
       RecordDuplicate, Analyse, Persist, PublishPush, Release, Dispatch, RaiseError,
       WorkerLost, HardTimeLimit, Goto, Return, ForgetLocals, TypeOK
  <2>2. CASE Release(t)
    BY <1>1, <2>1, <2>2 DEF Release, Goto, AfterRelease, Retries, ForgetLocals, NoReportYet, TypeOK
  <2>3. CASE WorkerLost(t) \/ HardTimeLimit(t)
    BY <2>1, <2>3 DEF WorkerLost, HardTimeLimit, ForgetLocals, NoReportYet, TypeOK
  <2>4. CASE ~Release(t) /\ ~WorkerLost(t) /\ ~HardTimeLimit(t)
    <3>1. \/ pc'[t] \in {"find", "record", "analyse", "persist"} /\ outcome'[t] = outcome[t]
             /\ pc[t] \in {"queued", "find", "analyse"}
          \/ pc'[t] \in {"publish", "release", "done"}
      BY <1>1, <2>4 DEF TaskStep, AcquireLock, LockContention, AcquireFailOpen, FindActive,
         RecordDuplicate, Analyse, Persist, PublishPush, Dispatch, RaiseError, Goto, TypeOK
    <3>. QED
      BY <2>1, <3>1 DEF NoReportYet
  <2>. QED
    BY <2>2, <2>3, <2>4
<1>2. CASE UNCHANGED <<pc, outcome>>
  BY <1>2 DEF NoReportYet
<1>. QED
  BY <1>1, <1>2 DEF Next, LockExpires, PatchRead, PatchWrite, WipeTenant, vars, taskVars

\* A step keeps every report true: the transaction that makes one writes the row it
\* speaks of, and rows only grow or go away.
LEMMA NextReportIsTrue ==
    ASSUME TypeOK, TypeOK', NoReportYet, CountIsLength, TargetIssued, ReportIsTrue, [Next]_vars
    PROVE  CountIsLength' /\ TargetIssued' /\ ReportIsTrue'
<1>. USE PipelineAssumption
<1>1. /\ CountIsLength'
      /\ \A i \in IncidentId : incidents[i] # Unissued => incidents'[i] # Unissued
      /\ \A i \in IncidentId, key \in Log :
             /\ incidents[i] # Unissued
             /\ Live(incidents, i) => Contains(i, key)
             /\ Live(incidents, i)'
             => Contains(i, key)'
  BY StepSimulation, LedgerKeepsOccurrences DEF TypeOK
<1>. DEFINE Issued(t) == target'[t] # NoIncident => incidents'[target'[t]] # Unissued
            True(t) == outcome'[t] \in {"created", "duplicate_recorded"} =>
                           /\ target'[t] # NoIncident
                           /\ Live(incidents, target[t])' => Contains(target[t], LogOf[t])'
\* A task that keeps its target and makes no new report.
<1>2. ASSUME NEW t \in Task,
             target'[t] \in {target[t], NoIncident},
             outcome'[t] \in {"created", "duplicate_recorded"} =>
                 outcome'[t] = outcome[t] /\ target'[t] = target[t]
      PROVE  Issued(t) /\ True(t)
  <2>1. target[t] # NoIncident => target[t] \in IncidentId
    BY DEF TypeOK
  <2>2. Issued(t)
    BY <1>1, <1>2, <2>1 DEF TargetIssued
  <2>3. ASSUME outcome'[t] \in {"created", "duplicate_recorded"} PROVE True(t)
    <3>1. /\ outcome[t] \in {"created", "duplicate_recorded"} /\ target'[t] = target[t]
          /\ target[t] \in IncidentId
          /\ incidents[target[t]] # Unissued
          /\ Live(incidents, target[t]) => Contains(target[t], LogOf[t])
      BY <1>2, <2>1, <2>3 DEF TargetIssued, ReportIsTrue
    <3>2. Live(incidents, target[t])' => Contains(target[t], LogOf[t])'
      BY <1>1, <3>1 DEF Contains, Live
    <3>. QED
      BY <3>1, <3>2
  <2>. QED
    BY <2>2, <2>3
<1>. HIDE DEF Issued, True
<1>3. ASSUME NEW t \in Task, FindActive(t)
      PROVE  \A u \in Task : Issued(u) /\ True(u)
  <2>1. /\ UNCHANGED <<outcome, incidents>>
        /\ \A u \in Task \ {t} : target'[u] = target[u]
        /\ target'[t] \in {target[t]} \cup {i \in IncidentId : Live(incidents, i)}
        /\ outcome[t] = "none"
    BY <1>3 DEF FindActive, tableVars, IsActive, Goto, NoReportYet, TypeOK
  <2>2. Issued(t)
    BY <2>1 DEF Issued, TargetIssued, Live, Unissued, Status
  <2>3. True(t)
    BY <2>1 DEF True
  <2>. QED
    BY <1>2, <2>1, <2>2, <2>3
<1>4. ASSUME NEW t \in Task, RecordDuplicate(t)
      PROVE  \A u \in Task : Issued(u) /\ True(u)
  <2>. DEFINE i == target[t]
  <2>1. /\ i \in IncidentId
        /\ UNCHANGED target
        /\ \A u \in Task \ {t} : outcome'[u] = outcome[u]
    BY <1>4 DEF RecordDuplicate, Goto, Return, TypeOK
  <2>2. Issued(t)
    BY <1>1, <2>1 DEF Issued, TargetIssued
  <2>3. ASSUME Live(incidents, i) PROVE True(t)
    <3>1. incidents[i] \in Row
      BY <2>1, <2>3, LiveIsRow DEF TypeOK
    <3>. DEFINE seq == incidents[i].occurrences
                n == incidents[i].count
    <3>2. /\ incidents'[i].count = n + 1
          /\ incidents'[i].occurrences = Append(seq, LogOf[t])
      BY <1>4, <2>1, <2>3, <3>1, WithOccurrenceIsRow DEF RecordDuplicate, RecordOn, TypeOK, Table
    <3>3. seq \in Seq(Log) /\ n \in Nat /\ Len(seq) = n
      BY <2>1, <2>3, <3>1 DEF Row, CountIsLength
    <3>. HIDE DEF seq, n
    <3>4. n + 1 \in 1..n + 1 /\ Append(seq, LogOf[t])[n + 1] = LogOf[t]
      <4>1. LogOf[t] \in Log
        OBVIOUS
      <4>. QED
        BY <3>3, <4>1
    <3>5. Contains(i, LogOf[t])'
      BY <2>1, <3>2, <3>4 DEF Contains
    <3>. QED
      BY <2>1, <3>5 DEF True, Contains
  <2>4. ASSUME ~Live(incidents, i) PROVE True(t)
    BY <1>4, <2>1, <2>4 DEF True, RecordDuplicate, RecordOn, Live
  <2>. QED
    BY <1>2, <2>1, <2>2, <2>3, <2>4
<1>5. ASSUME NEW t \in Task, Persist(t)
      PROVE  \A u \in Task : Issued(u) /\ True(u)
  <2>1. CASE UNCHANGED <<target, incidents>> /\ Return(t, "late_duplicate")
    BY <1>2, <2>1 DEF Return, TypeOK
  <2>2. ASSUME NEW i \in IncidentId, Insert(t, i),
               \A u \in Task \ {t} : outcome'[u] = outcome[u]
        PROVE  \A u \in Task : Issued(u) /\ True(u)
    <3>1. /\ target'[t] = i
          /\ \A u \in Task \ {t} : target'[u] = target[u]
          /\ incidents'[i] = NewIncident(FpOf[t], LogOf[t])
      BY <2>2 DEF Insert, TypeOK, Table
    <3>2. /\ incidents'[i] # Unissued
          /\ 1 \in 1..incidents'[i].count
          /\ incidents'[i].occurrences[1] = LogOf[t]
      BY <3>1 DEF NewIncident, Unissued
    <3>3. Issued(t) /\ True(t)
      BY <3>1, <3>2 DEF Issued, True, Contains
    <3>. QED
      BY <1>2, <2>2, <3>1, <3>3
  <2>. QED
    BY <1>5, <2>1, <2>2 DEF Persist, tableVars, Return, TypeOK
<1>6. ASSUME NEW t \in Task,
             \/ AcquireLock(t) \/ LockContention(t) \/ AcquireFailOpen(t) \/ Analyse(t)
             \/ PublishPush(t) \/ Release(t) \/ Dispatch(t) \/ RaiseError(t)
             \/ WorkerLost(t) \/ HardTimeLimit(t)
      PROVE  \A u \in Task : Issued(u) /\ True(u)
  <2>1. \A u \in Task :
            /\ target'[u] \in {target[u], NoIncident}
            /\ outcome'[u] \in {"created", "duplicate_recorded"} =>
                   outcome'[u] = outcome[u] /\ target'[u] = target[u]
    <3>1. CASE AcquireLock(t) \/ AcquireFailOpen(t) \/ PublishPush(t) \/ Dispatch(t)
      BY <3>1 DEF AcquireLock, AcquireFailOpen, PublishPush, Dispatch
    <3>2. ASSUME UNCHANGED target,
                 \E o \in Outcomes \ {"created", "duplicate_recorded"} :
                     outcome' = [outcome EXCEPT ![t] = o]
          PROVE  <2>1
      BY <3>2 DEF TypeOK
    <3>3. CASE LockContention(t) \/ HardTimeLimit(t)
      BY <3>2, <3>3 DEF LockContention, HardTimeLimit, Return, Outcomes
    <3>4. CASE Analyse(t)
      BY <3>2, <3>4 DEF Analyse, Return, Outcomes
    <3>5. CASE RaiseError(t)
      BY <3>2, <3>5 DEF RaiseError, Return, Outcomes
    <3>6. ASSUME ForgetLocals(t) PROVE <2>1
      BY <3>6 DEF ForgetLocals, TypeOK
    <3>7. CASE WorkerLost(t) \/ Release(t)
      BY <3>6, <3>7 DEF WorkerLost, Release
    <3>. QED
      BY <1>6, <3>1, <3>3, <3>4, <3>5, <3>7
  <2>. QED
    BY <1>2, <2>1
<1>7. ASSUME UNCHANGED <<target, outcome>>
      PROVE  \A u \in Task : Issued(u) /\ True(u)
  BY <1>2, <1>7
<1>8. \A u \in Task : Issued(u) /\ True(u)
  BY <1>3, <1>4, <1>5, <1>6, <1>7
     DEF Next, TaskStep, LockExpires, PatchRead, PatchWrite, WipeTenant, vars, taskVars
<1>9. TargetIssued'
  BY <1>8 DEF Issued, TargetIssued
<1>10. ReportIsTrue'
  BY <1>8 DEF True, ReportIsTrue
<1>. QED
  BY <1>1, <1>9, <1>10

\* A task that reports "created" or "duplicate_recorded" has its log among the
\* occurrences of the incident it names, unless the tenant was wiped meanwhile,
\* whatever fails and whoever else writes the row.
THEOREM OutcomesAreTrue == Spec => []OutcomeIsTrue
<1>. DEFINE IInv == NoReportYet /\ CountIsLength /\ TargetIssued /\ ReportIsTrue
<1>1. Init => IInv
  BY DEF Init, NoReportYet, CountIsLength, TargetIssued, ReportIsTrue, Live, EmptyTable,
     Unissued, Status
<1>2. TypeOK /\ TypeOK' /\ IInv /\ [Next]_vars => IInv'
  BY NextNoReportYet, NextReportIsTrue
<1>3. TypeOK /\ IInv => OutcomeIsTrue
  <2>. SUFFICES ASSUME TypeOK, IInv, NEW t \in Task,
                       outcome[t] \in {"created", "duplicate_recorded"},
                       incidents[target[t]] # Deleted
                PROVE  \E k \in 1..incidents[target[t]].count :
                           incidents[target[t]].occurrences[k] = LogOf[t]
    BY DEF OutcomeIsTrue
  <2>1. target[t] \in IncidentId /\ incidents[target[t]] # Unissued
    BY DEF TargetIssued, ReportIsTrue, TypeOK
  <2>2. Live(incidents, target[t])
    BY <2>1, RowIsLive DEF TypeOK, Table
  <2>. QED
    BY <2>2 DEF ReportIsTrue, Contains
<1>. QED
  BY <1>1, <1>2, <1>3, TypeCorrect, PTL DEF Spec

-----------------------------------------------------------------------------
(* The transactional outbox.  The n-th row of box is the latest of incident i   *)
(* among the topics T; what it tells of the counter and of the status.          *)

Counting == {"created", "duplicate_recorded"}
Stating  == {"created", "updated"}

About(ev, i, T) == ev.id = i /\ ev.topic \in T
IsLatest(box, i, T, n) ==
    /\ About(box[n], i, T)
    /\ \A m \in 1..Len(box) : About(box[m], i, T) => m <= n
CountTold(box, i, c) == \E n \in 1..Len(box) : IsLatest(box, i, Counting, n) /\ box[n].count = c
StatusTold(box, i, s) == \E n \in 1..Len(box) : IsLatest(box, i, Stating, n) /\ box[n].to = s

\* A row committed after the others is the latest of what it is about, and leaves the
\* latest rows of everything else where they are.
LEMMA LatestAfterAppend ==
    ASSUME NEW box \in Seq(Event), NEW ev \in Event, NEW i, NEW T
    PROVE  /\ Append(box, ev) \in Seq(Event)
           /\ Len(box) + 1 \in 1..Len(Append(box, ev))
           /\ Append(box, ev)[Len(box) + 1] = ev
           /\ About(ev, i, T) => IsLatest(Append(box, ev), i, T, Len(box) + 1)
           /\ \A n \in 1..Len(box) :
                  /\ n \in 1..Len(Append(box, ev))
                  /\ Append(box, ev)[n] = box[n]
                  /\ ~About(ev, i, T) /\ IsLatest(box, i, T, n)
                     => IsLatest(Append(box, ev), i, T, n)
<1>. DEFINE longer == Append(box, ev)
            len == Len(box)
<1>1. /\ longer \in Seq(Event) /\ len \in Nat /\ Len(longer) = len + 1
      /\ longer[len + 1] = ev
      /\ \A n \in 1..len : longer[n] = box[n]
  OBVIOUS
<1>. HIDE DEF longer
<1>2. About(ev, i, T) => IsLatest(longer, i, T, len + 1)
  BY <1>1 DEF IsLatest
<1>3. ASSUME NEW n \in 1..len, ~About(ev, i, T), IsLatest(box, i, T, n)
      PROVE  IsLatest(longer, i, T, n)
  <2>1. ASSUME NEW m \in 1..len + 1, About(longer[m], i, T) PROVE m <= n
    <3>1. m # len + 1
      BY <1>1, <1>3, <2>1
    <3>2. m \in 1..len
      BY <1>1, <3>1
    <3>. QED
      BY <1>1, <1>3, <2>1, <3>2 DEF IsLatest
  <2>. QED
    BY <1>1, <1>3, <2>1 DEF IsLatest
<1>4. len + 1 \in 1..Len(longer) /\ \A n \in 1..len : n \in 1..Len(longer)
  BY <1>1
<1>. QED
  BY <1>1, <1>2, <1>3, <1>4 DEF longer, len

\* The same for what is told of the counter and of the status.
LEMMA ToldAfterAppend ==
    ASSUME NEW box \in Seq(Event), NEW ev \in Event, NEW i
    PROVE  /\ About(ev, i, Counting) => CountTold(Append(box, ev), i, ev.count)
           /\ About(ev, i, Stating) => StatusTold(Append(box, ev), i, ev.to)
           /\ \A c : ~About(ev, i, Counting) /\ CountTold(box, i, c)
                     => CountTold(Append(box, ev), i, c)
           /\ \A s : ~About(ev, i, Stating) /\ StatusTold(box, i, s)
                     => StatusTold(Append(box, ev), i, s)
<1>1. About(ev, i, Counting) => CountTold(Append(box, ev), i, ev.count)
  BY LatestAfterAppend DEF CountTold
<1>2. About(ev, i, Stating) => StatusTold(Append(box, ev), i, ev.to)
  BY LatestAfterAppend DEF StatusTold
<1>3. ASSUME NEW c, ~About(ev, i, Counting), CountTold(box, i, c)
      PROVE  CountTold(Append(box, ev), i, c)
  <2>1. PICK n \in 1..Len(box) : IsLatest(box, i, Counting, n) /\ box[n].count = c
    BY <1>3 DEF CountTold
  <2>2. /\ n \in 1..Len(Append(box, ev)) /\ Append(box, ev)[n] = box[n]
        /\ IsLatest(Append(box, ev), i, Counting, n)
    BY <1>3, <2>1, LatestAfterAppend
  <2>. QED
    BY <2>1, <2>2 DEF CountTold
<1>4. ASSUME NEW s, ~About(ev, i, Stating), StatusTold(box, i, s)
      PROVE  StatusTold(Append(box, ev), i, s)
  <2>1. PICK n \in 1..Len(box) : IsLatest(box, i, Stating, n) /\ box[n].to = s
    BY <1>4 DEF StatusTold
  <2>2. /\ n \in 1..Len(Append(box, ev)) /\ Append(box, ev)[n] = box[n]
        /\ IsLatest(Append(box, ev), i, Stating, n)
    BY <1>4, <2>1, LatestAfterAppend
  <2>. QED
    BY <2>1, <2>2 DEF StatusTold
<1>. QED
  BY <1>1, <1>2, <1>3, <1>4

\* What one step does to the table and the outbox: nothing that is told (rows only go
\* away), or one transaction that writes one row and the events that tell it.
Quiet ==
    /\ UNCHANGED outbox
    /\ \A j \in IncidentId : Live(incidents', j) => incidents'[j] = incidents[j]
Others(i) == \A j \in IncidentId \ {i} : incidents'[j] = incidents[j]
Inserts(i) ==
    /\ incidents[i] = Unissued
    /\ incidents'[i].count = 1 /\ incidents'[i].status = "open"
    /\ outbox' = outbox \o CreatedEvents(i)
    /\ Others(i)
Absorbs(i, n) ==
    /\ outbox' = Append(outbox, DuplicateEvent(i, n))
    /\ Live(incidents', i) => /\ Live(incidents, i)
                              /\ incidents'[i].count = n
                              /\ incidents'[i].status = incidents[i].status
    /\ Others(i)
Updates(e) ==
    LET i == patch[e].id IN
    /\ patch[e].pc = "write"
    /\ outbox' = Append(outbox, UpdatedEvent(i, patch[e].from, NewStatus(e)))
    /\ Live(incidents', i) =>
           /\ Live(incidents, i)
           /\ incidents'[i].count = incidents[i].count
           /\ incidents'[i].status =
                  IF patch[e].to = NoStatus THEN incidents[i].status ELSE patch[e].to
    /\ patch'[e].pc = "idle"
    /\ Others(i)

\* A PATCH about to write read its row in this step, or was about to write before.
Reads(e) ==
    patch'[e].pc = "write" =>
        \/ patch'[e] = patch[e]
        \/ /\ incidents' = incidents
           /\ Live(incidents, patch'[e].id)
           /\ patch'[e].from = incidents[patch'[e].id].status

\* What a step writes to a row and what it tells in the outbox.
LEMMA WhatAStepTells ==
    ASSUME TypeOK, [Next]_vars
    PROVE  /\ \/ Quiet
              \/ \E i \in IncidentId : Inserts(i)
              \/ \E i \in IncidentId, n \in Nat : Absorbs(i, n)
              \/ \E e \in Editor : Updates(e)
           /\ \A e \in Editor : Reads(e)
<1>. USE PipelineAssumption
<1>1. /\ incidents \in Table
      /\ target \in [Task -> IncidentId \cup {NoIncident}]
      /\ patch \in [Editor -> PatchState]
  BY DEF TypeOK
<1>2. ASSUME NEW t \in Task, Persist(t)
      PROVE  Quiet \/ \E i \in IncidentId : Inserts(i)
  <2>1. CASE UNCHANGED <<incidents, outbox>>
    BY <2>1 DEF Quiet
  <2>2. ASSUME NEW i \in IncidentId, Insert(t, i) PROVE Inserts(i)
    <3>1. /\ incidents[i] = Unissued /\ outbox' = outbox \o CreatedEvents(i)
          /\ incidents' = [incidents EXCEPT ![i] = NewIncident(FpOf[t], LogOf[t])]
      BY <2>2 DEF Insert
    <3>2. incidents'[i] = NewIncident(FpOf[t], LogOf[t]) /\ Others(i)
      BY <1>1, <3>1 DEF Table, Others
    <3>. QED
      BY <3>1, <3>2 DEF Inserts, NewIncident
  <2>. QED
    BY <1>2, <2>1, <2>2 DEF Persist, tableVars
<1>3. ASSUME NEW t \in Task, RecordDuplicate(t)
      PROVE  \E i \in IncidentId, n \in Nat : Absorbs(i, n)
  <2>. DEFINE i == target[t]
              n == IF Live(incidents, i) THEN incidents[i].count + 1 ELSE seenCount[t]
  <2>1. i \in IncidentId
    BY <1>3 DEF RecordDuplicate, Goto, TypeOK
  <2>2. outbox' = Append(outbox, DuplicateEvent(i, n))
    BY <1>3 DEF RecordDuplicate, RecordOn
  <2>3. CASE Live(incidents, i)
    <3>1. incidents[i] \in Row
      BY <1>1, <2>1, <2>3, LiveIsRow
    <3>2. n \in Nat /\ n = incidents[i].count + 1
      BY <2>3, <3>1 DEF Row
    <3>3. incidents' = [incidents EXCEPT ![i] = WithOccurrence(incidents[i], LogOf[t])]
      BY <1>3, <2>3 DEF RecordDuplicate, RecordOn
    <3>4. incidents'[i] = WithOccurrence(incidents[i], LogOf[t]) /\ Others(i)
      BY <1>1, <2>1, <3>3 DEF Table, Others
    <3>5. incidents'[i].count = n /\ incidents'[i].status = incidents[i].status
      BY <3>1, <3>2, <3>4, WithOccurrenceIsRow
    <3>. HIDE DEF i, n
    <3>. QED
      BY <2>1, <2>2, <2>3, <3>2, <3>4, <3>5 DEF Absorbs
  <2>4. CASE ~Live(incidents, i)
    <3>1. n \in Nat /\ n = seenCount[t]
      BY <2>4 DEF TypeOK
    <3>2. incidents' = incidents
      BY <1>3, <2>4 DEF RecordDuplicate, RecordOn
    <3>3. ~Live(incidents', i) /\ Others(i)
      BY <2>4, <3>2 DEF Live, Others
    <3>. HIDE DEF i, n
    <3>. QED
      BY <2>1, <2>2, <3>1, <3>3 DEF Absorbs
  <2>. QED
    BY <2>3, <2>4
<1>4. ASSUME NEW e \in Editor, PatchWrite(e) PROVE Quiet \/ Updates(e)
  <2>. DEFINE i == patch[e].id
  <2>1. /\ i \in IncidentId /\ patch[e].pc = "write"
        /\ patch[e].to \in Status \cup {NoStatus}
    BY <1>4 DEF PatchWrite, TypeOK, PatchState
  <2>2. patch'[e].pc = "idle"
    BY <1>1, <1>4 DEF PatchWrite, IdlePatch
  <2>3. CASE WriteStatus(e, NewStatus(e))
    <3>1. outbox' = Append(outbox, UpdatedEvent(i, patch[e].from, NewStatus(e)))
      BY <2>3 DEF WriteStatus
    <3>2. CASE Live(incidents, i) /\ patch[e].to # NoStatus
      <4>1. incidents' = [incidents EXCEPT ![i] = WithStatus(incidents[i], patch[e].to)]
        BY <2>3, <3>2 DEF WriteStatus
      <4>2. incidents'[i] = WithStatus(incidents[i], patch[e].to) /\ Others(i)
        BY <1>1, <2>1, <4>1 DEF Table, Others
      <4>3. incidents[i] \in Row /\ patch[e].to \in Status
        BY <1>1, <2>1, <3>2, LiveIsRow
      <4>4. /\ incidents'[i].count = incidents[i].count
            /\ incidents'[i].status = patch[e].to
        BY <4>2, <4>3, WithStatusIsRow
      <4>. QED
        BY <2>1, <2>2, <3>1, <3>2, <4>2, <4>4 DEF Updates
    <3>3. CASE ~(Live(incidents, i) /\ patch[e].to # NoStatus)
      <4>1. incidents' = incidents
        BY <2>3, <3>3 DEF WriteStatus
      <4>2. Live(incidents', i) => Live(incidents, i) /\ patch[e].to = NoStatus
        BY <3>3, <4>1 DEF Live
      <4>. QED
        BY <2>1, <2>2, <3>1, <4>1, <4>2 DEF Updates, Others
    <3>. QED
      BY <3>2, <3>3
  <2>4. CASE UNCHANGED <<incidents, outbox>>
    BY <2>4 DEF Quiet
  <2>. QED
    BY <1>4, <2>3, <2>4 DEF PatchWrite
<1>5. WipeTenant => Quiet
  BY DEF WipeTenant, Quiet, Live, Deleted, Status
<1>6. UNCHANGED <<incidents, outbox>> => Quiet
  BY DEF Quiet
<1>7. Quiet \/ (\E i \in IncidentId : Inserts(i))
      \/ (\E i \in IncidentId, n \in Nat : Absorbs(i, n)) \/ (\E e \in Editor : Updates(e))
  <2>1. ASSUME NEW t \in Task,
               \/ AcquireLock(t) \/ LockContention(t) \/ AcquireFailOpen(t) \/ FindActive(t)
               \/ Analyse(t) \/ PublishPush(t) \/ Release(t) \/ Dispatch(t) \/ RaiseError(t)
               \/ WorkerLost(t) \/ HardTimeLimit(t)
        PROVE  Quiet
    BY <1>6, <2>1 DEF AcquireLock, LockContention, AcquireFailOpen, FindActive, Analyse,
       PublishPush, Release, Dispatch, RaiseError, WorkerLost, HardTimeLimit, tableVars
  <2>2. ASSUME NEW f \in Fingerprint, LockExpires(f) PROVE Quiet
    BY <1>6, <2>2 DEF LockExpires, tableVars
  <2>3. ASSUME NEW e \in Editor, PatchRead(e) PROVE Quiet
    BY <1>6, <2>3 DEF PatchRead, tableVars
  <2>4. CASE UNCHANGED vars
    BY <1>6, <2>4 DEF vars, tableVars
  <2>. QED
    BY <1>2, <1>3, <1>4, <1>5, <2>1, <2>2, <2>3, <2>4 DEF Next, TaskStep
<1>8. ASSUME NEW d \in Editor PROVE Reads(d)
  <2>1. CASE UNCHANGED patch
    BY <2>1 DEF Reads
  <2>2. ASSUME NEW e \in Editor, PatchRead(e) PROVE Reads(d)
    <3>1. PICK i \in IncidentId, s \in Status \cup {NoStatus} :
              Live(incidents, i) /\ Requested(e, i, s)
      BY <2>2 DEF PatchRead
    <3>2. /\ patch'[e].id = i /\ patch'[e].from = incidents[i].status
          /\ d # e => patch'[d] = patch[d]
      BY <1>1, <3>1 DEF Requested
    <3>3. incidents' = incidents
      BY <2>2 DEF PatchRead, tableVars
    <3>. QED
      BY <3>1, <3>2, <3>3 DEF Reads
  <2>3. ASSUME NEW e \in Editor, PatchWrite(e) PROVE Reads(d)
    BY <1>1, <2>3 DEF PatchWrite, IdlePatch, Reads
  <2>4. ASSUME NEW t \in Task,
               TaskStep(t) \/ RaiseError(t) \/ WorkerLost(t) \/ HardTimeLimit(t)
        PROVE  UNCHANGED patch
    BY <2>4 DEF TaskStep, AcquireLock, LockContention, AcquireFailOpen, FindActive,
       RecordDuplicate, Analyse, Persist, PublishPush, Release, Dispatch, RaiseError,
       WorkerLost, HardTimeLimit
  <2>. QED
    BY <2>1, <2>2, <2>3, <2>4 DEF Next, LockExpires, WipeTenant, vars
<1>. QED
  BY <1>7, <1>8

\* A PATCH about to write still sees the status it read, unless the row is gone: with one
\* request at a time nobody else moves a status.
EditorSees ==
    \A e \in Editor : patch[e].pc = "write" =>
        /\ incidents[patch[e].id] # Unissued
        /\ Live(incidents, patch[e].id) => incidents[patch[e].id].status = patch[e].from

\* The outbox tells every row's counter and status.
OutboxTold ==
    \A i \in IncidentId : Live(incidents, i) =>
        /\ CountTold(outbox, i, incidents[i].count)
        /\ StatusTold(outbox, i, incidents[i].status)

LEMMA NextEditorSees ==
    ASSUME \A d, e \in Editor : d = e, TypeOK, TypeOK', CountIsLength, EditorSees, [Next]_vars
    PROVE  EditorSees'
<1>. SUFFICES ASSUME NEW e \in Editor, patch'[e].pc = "write"
              PROVE  /\ incidents'[patch'[e].id] # Unissued
                     /\ Live(incidents', patch'[e].id) =>
                            incidents'[patch'[e].id].status = patch'[e].from
  BY DEF EditorSees, Live
<1>. DEFINE i == patch'[e].id
<1>1. i \in IncidentId
  BY DEF TypeOK, PatchState
<1>2. Reads(e)
  BY WhatAStepTells
<1>3. CASE incidents' = incidents /\ Live(incidents, i) /\ patch'[e].from = incidents[i].status
  <2>1. incidents[i] # Unissued
    BY <1>3 DEF Live, Unissued, Status
  <2>. QED
    BY <1>3, <2>1
<1>4. CASE patch'[e] = patch[e]
  <2>1. /\ patch[e].pc = "write" /\ i = patch[e].id
        /\ incidents[i] # Unissued
        /\ Live(incidents, i) => incidents[i].status = patch[e].from
    BY <1>4 DEF EditorSees
  <2>2. incidents'[i] # Unissued
    BY <1>1, <2>1, StepSimulation, LedgerKeepsOccurrences DEF TypeOK
  <2>3. Live(incidents', i) => Live(incidents, i) /\ incidents'[i].status = incidents[i].status
    <3>1. CASE Quiet
      BY <1>1, <3>1 DEF Quiet, Live
    <3>2. ASSUME NEW j \in IncidentId, Inserts(j) PROVE <2>3
      <4>1. j # i
        BY <2>1, <3>2 DEF Inserts
      <4>. QED
        BY <1>1, <3>2, <4>1 DEF Inserts, Others, Live
    <3>3. ASSUME NEW j \in IncidentId, NEW n \in Nat, Absorbs(j, n) PROVE <2>3
      BY <1>1, <3>3 DEF Absorbs, Others, Live
    <3>4. ASSUME NEW d \in Editor, Updates(d) PROVE FALSE
      BY <2>1, <3>4, <1>4 DEF Updates
    <3>. QED
      BY <3>1, <3>2, <3>3, <3>4, WhatAStepTells
  <2>. QED
    BY <1>4, <2>1, <2>2, <2>3
<1>. QED
  BY <1>2, <1>3, <1>4 DEF Reads

LEMMA NextOutboxTold ==
    ASSUME TypeOK, EditorSees, OutboxTold, [Next]_vars
    PROVE  OutboxTold'
<1>. SUFFICES ASSUME NEW i \in IncidentId, Live(incidents', i)
              PROVE  /\ CountTold(outbox', i, incidents'[i].count)
                     /\ StatusTold(outbox', i, incidents'[i].status)
  BY DEF OutboxTold, Live, CountTold, StatusTold, IsLatest
<1>1. outbox \in Seq(Event)
  BY DEF TypeOK
<1>2. CASE Quiet
  BY <1>2 DEF Quiet, OutboxTold, Live
<1>3. ASSUME NEW j \in IncidentId, Inserts(j)
      PROVE  /\ CountTold(outbox', i, incidents'[i].count)
             /\ StatusTold(outbox', i, incidents'[i].status)
  <2>. DEFINE a == [topic |-> "created",  id |-> j, count |-> 1, from |-> NoStatus,
                    to |-> "open"]
              b == [topic |-> "analyzed", id |-> j, count |-> 0, from |-> NoStatus,
                    to |-> NoStatus]
              half == Append(outbox, a)
  <2>1. /\ a \in Event /\ b \in Event
        /\ a.id = j /\ a.topic = "created" /\ a.count = 1 /\ a.to = "open"
        /\ b.topic = "analyzed"
    BY DEF Event, Topics, Status
  <2>2. outbox' = outbox \o <<a, b>>
    BY <1>3 DEF Inserts, CreatedEvents
  <2>. HIDE DEF a, b
  <2>3. half \in Seq(Event)
    BY <1>1, <2>1
  <2>4. outbox' = Append(half, b)
    BY <1>1, <2>1, <2>2
  <2>. HIDE DEF half
  <2>5. ASSUME NEW c, CountTold(half, i, c) PROVE CountTold(outbox', i, c)
    BY <2>1, <2>3, <2>4, <2>5, ToldAfterAppend DEF About, Counting
  <2>6. ASSUME NEW s, StatusTold(half, i, s) PROVE StatusTold(outbox', i, s)
    BY <2>1, <2>3, <2>4, <2>6, ToldAfterAppend DEF About, Stating
  <2>7. CASE i = j
    <3>1. About(a, i, Counting) /\ About(a, i, Stating)
      BY <2>1, <2>7 DEF About, Counting, Stating
    <3>2. CountTold(half, i, 1) /\ StatusTold(half, i, "open")
      BY <1>1, <2>1, <3>1, ToldAfterAppend DEF half
    <3>3. incidents'[i].count = 1 /\ incidents'[i].status = "open"
      BY <1>3, <2>7 DEF Inserts
    <3>. QED
      BY <2>5, <2>6, <3>2, <3>3
  <2>8. CASE i # j
    <3>1. incidents'[i] = incidents[i] /\ Live(incidents, i)
      BY <1>3, <2>8 DEF Inserts, Others, Live
    <3>2. CountTold(outbox, i, incidents[i].count) /\ StatusTold(outbox, i, incidents[i].status)
      BY <3>1 DEF OutboxTold
    <3>3. ~About(a, i, Counting) /\ ~About(a, i, Stating)
      BY <2>1, <2>8 DEF About
    <3>4. CountTold(half, i, incidents[i].count) /\ StatusTold(half, i, incidents[i].status)
      BY <1>1, <2>1, <3>2, <3>3, ToldAfterAppend DEF half
    <3>. QED
      BY <2>5, <2>6, <3>1, <3>4
  <2>. QED
    BY <2>7, <2>8
<1>4. ASSUME NEW j \in IncidentId, NEW n \in Nat, Absorbs(j, n)
      PROVE  /\ CountTold(outbox', i, incidents'[i].count)
             /\ StatusTold(outbox', i, incidents'[i].status)
  <2>. DEFINE ev == DuplicateEvent(j, n)
  <2>1. ev \in Event /\ ev.id = j /\ ev.topic = "duplicate_recorded" /\ ev.count = n
    BY DEF DuplicateEvent, Event, Topics, Status
  <2>2. outbox' = Append(outbox, ev)
    BY <1>4 DEF Absorbs
  <2>. HIDE DEF ev
  <2>3. /\ Live(incidents, i) /\ incidents'[i].status = incidents[i].status
        /\ IF i = j THEN incidents'[i].count = n
                    ELSE incidents'[i].count = incidents[i].count
    BY <1>4 DEF Absorbs, Others, Live
  <2>4. CountTold(outbox, i, incidents[i].count) /\ StatusTold(outbox, i, incidents[i].status)
    BY <2>3 DEF OutboxTold
  <2>5. ~About(ev, i, Stating) /\ (About(ev, i, Counting) <=> i = j)
    BY <2>1 DEF About, Stating, Counting
  <2>. QED
    BY <1>1, <2>1, <2>2, <2>3, <2>4, <2>5, ToldAfterAppend
<1>5. ASSUME NEW e \in Editor, Updates(e)
      PROVE  /\ CountTold(outbox', i, incidents'[i].count)
             /\ StatusTold(outbox', i, incidents'[i].status)
  <2>. DEFINE j == patch[e].id
              ev == UpdatedEvent(j, patch[e].from, NewStatus(e))
  <2>1. /\ patch[e].pc = "write" /\ j \in IncidentId
        /\ patch[e].from \in Status /\ patch[e].to \in Status \cup {NoStatus}
    BY <1>5 DEF Updates, TypeOK, PatchState
  <2>2. /\ ev \in Event /\ ev.id = j /\ ev.topic = "updated"
        /\ ev.to = IF patch[e].to = NoStatus THEN patch[e].from ELSE patch[e].to
    BY <2>1 DEF UpdatedEvent, NewStatus, Event, Topics
  <2>3. outbox' = Append(outbox, ev)
    BY <1>5 DEF Updates
  <2>. HIDE DEF ev
  <2>4. /\ Live(incidents, i) /\ incidents'[i].count = incidents[i].count
        /\ i # j => incidents'[i].status = incidents[i].status
        /\ i = j => incidents'[i].status =
                       IF patch[e].to = NoStatus THEN incidents[i].status ELSE patch[e].to
    BY <1>5 DEF Updates, Others, Live
  <2>5. i = j => incidents'[i].status = ev.to
    BY <2>1, <2>2, <2>4 DEF EditorSees
  <2>6. CountTold(outbox, i, incidents[i].count) /\ StatusTold(outbox, i, incidents[i].status)
    BY <2>4 DEF OutboxTold
  <2>7. ~About(ev, i, Counting) /\ (About(ev, i, Stating) <=> i = j)
    BY <2>2 DEF About, Stating, Counting
  <2>. QED
    BY <1>1, <2>2, <2>3, <2>4, <2>5, <2>6, <2>7, ToldAfterAppend
<1>. QED
  BY <1>2, <1>3, <1>4, <1>5, WhatAStepTells

\* The transactional outbox tells the table: for every row that exists the latest
\* counting event carries its counter, which is its number of stored occurrences, and the
\* latest status event its status, when PATCH requests do not overlap.
THEOREM OutboxIsTrue ==
    ASSUME \A d, e \in Editor : d = e
    PROVE  Spec => []OutboxTellsTable
<1>. DEFINE IInv == CountIsLength /\ EditorSees /\ OutboxTold
<1>1. Init => IInv
  BY DEF Init, CountIsLength, EditorSees, OutboxTold, Live, EmptyTable, Unissued, Status,
     IdlePatch
<1>2. TypeOK /\ TypeOK' /\ IInv /\ [Next]_vars => IInv'
  <2>1. TypeOK /\ TypeOK' /\ CountIsLength /\ [Next]_vars => CountIsLength'
    BY StepSimulation, LedgerKeepsOccurrences DEF TypeOK
  <2>. QED
    BY <2>1, NextEditorSees, NextOutboxTold
<1>3. TypeOK /\ IInv => OutboxTellsTable
  <2>. SUFFICES ASSUME TypeOK, IInv, NEW i \in IncidentId, Live(incidents, i)
                PROVE  /\ LatestEvent(i, Counting).count = incidents[i].count
                       /\ Len(incidents[i].occurrences) = incidents[i].count
                       /\ LatestEvent(i, Stating).to = incidents[i].status
    BY DEF OutboxTellsTable, Counting, Stating
  <2>1. ASSUME NEW T, NEW n \in 1..Len(outbox), IsLatest(outbox, i, T, n)
        PROVE  LatestEvent(i, T) = outbox[n]
    <3>. DEFINE at == {k \in DOMAIN outbox : outbox[k].id = i /\ outbox[k].topic \in T}
                top == CHOOSE k \in at : \A m \in at : m <= k
    <3>1. DOMAIN outbox = 1..Len(outbox) /\ Len(outbox) \in Nat
      BY DEF TypeOK
    <3>2. n \in at /\ \A m \in at : m <= n
      BY <2>1, <3>1 DEF IsLatest, About
    <3>3. top \in at /\ \A m \in at : m <= top
      BY <3>2
    <3>4. top = n
      <4>1. top <= n /\ n <= top
        BY <3>2, <3>3
      <4>2. \A k \in at : k \in Nat
        BY <3>1
      <4>3. top \in Nat /\ n \in Nat
        BY <3>2, <3>3, <4>2
      <4>. HIDE DEF at, top
      <4>. QED
        BY <4>1, <4>3
    <3>. QED
      BY <3>4 DEF LatestEvent
  <2>. QED
    BY <2>1 DEF CountIsLength, OutboxTold, CountTold, StatusTold
<1>. QED
  BY <1>1, <1>2, <1>3, TypeCorrect, PTL DEF Spec

-----------------------------------------------------------------------------
(* How often a log is recorded *)

\* How often an execution of a task may have recorded its log by now: once in this one if
\* it is past its transaction, once in every earlier one.
BeforeCommit == {"queued", "find", "record", "analyse", "persist"}
Written(t) == IF pc[t] \in BeforeCommit THEN 0 ELSE 1
Budget(t) == Written(t) + retries[t] + crashes

RecordedSoFar == \A t \in Task : AtMost(Recorded(LogOf[t]), Budget(t))

\* A step that stores no log.
StoresNothing == \A key : Recorded(key)' \subseteq Recorded(key)

\* The transaction of t stores its log, and moves t past it.
Commits(t) ==
    /\ \E p : Recorded(LogOf[t])' \subseteq Recorded(LogOf[t]) \cup {p}
    /\ \A key : key # LogOf[t] => Recorded(key)' \subseteq Recorded(key)
    /\ pc[t] \in BeforeCommit /\ pc'[t] \notin BeforeCommit
    /\ \A u \in Task \ {t} : pc'[u] = pc[u]
    /\ UNCHANGED <<retries, crashes>>

\* A step stores no log, or it is the commit of a task.
LEMMA StoresOrCommits ==
    ASSUME TypeOK, [Next]_vars
    PROVE  \/ StoresNothing
           \/ \E t \in Task : Commits(t)
<1>. USE PipelineAssumption
<1>1. /\ incidents \in Table /\ pc \in [Task -> TaskPC]
      /\ target \in [Task -> IncidentId \cup {NoIncident}]
      /\ patch \in [Editor -> PatchState]
  BY DEF TypeOK
<1>2. \A key : /\ Recorded(key) = Places(incidents, key)
               /\ Recorded(key)' = Places(incidents', key)
  BY DEF Recorded, Places, Live
<1>3. ASSUME \A i \in IncidentId : Live(incidents', i) =>
                 Live(incidents, i) /\ incidents'[i].occurrences = incidents[i].occurrences
      PROVE  StoresNothing
  BY <1>2, <1>3, NoNewPlace DEF StoresNothing
<1>4. ASSUME NEW t \in Task, NEW i \in IncidentId, NEW seq \in Seq(Log),
             Live(incidents, i) => incidents[i].occurrences = seq,
             ~Live(incidents, i) => seq = << >>,
             incidents'[i].occurrences = Append(seq, LogOf[t]),
             \A j \in IncidentId \ {i} : incidents'[j] = incidents[j],
             pc[t] \in BeforeCommit, pc'[t] \notin BeforeCommit,
             \A u \in Task \ {t} : pc'[u] = pc[u],
             UNCHANGED <<retries, crashes>>
      PROVE  Commits(t)
  <2>. DEFINE key == LogOf[t]
              place == <<i, Len(seq) + 1>>
  <2>1. \A k : Places(incidents', k) \subseteq
                   Places(incidents, k) \cup (IF k = key THEN {place} ELSE {})
    <3>1. key \in Log
      OBVIOUS
    <3>2. /\ Live(incidents, i) => incidents[i].occurrences = seq
          /\ ~Live(incidents, i) => seq = << >>
          /\ incidents'[i].occurrences = Append(seq, key)
          /\ \A j \in IncidentId \ {i} : incidents'[j] = incidents[j]
      BY <1>4, Zenon
    <3>. HIDE DEF key
    <3>. QED
      BY <3>1, <3>2, OneNewPlace
  <2>2. Recorded(key)' \subseteq Recorded(key) \cup {place}
    <3>. HIDE DEF place
    <3>. QED
      BY <1>2, <2>1
  <2>3. \A k : k # key => Recorded(k)' \subseteq Recorded(k)
    BY <1>2, <2>1
  <2>. HIDE DEF place
  <2>. QED
    BY <1>4, <2>2, <2>3 DEF Commits
<1>5. ASSUME UNCHANGED incidents PROVE StoresNothing
  BY <1>3, <1>5 DEF Live
<1>6. ASSUME NEW t \in Task, RecordDuplicate(t) PROVE StoresNothing \/ Commits(t)
  <2>. DEFINE i == target[t]
  <2>1. i \in IncidentId
    BY <1>6 DEF RecordDuplicate, Goto, TypeOK
  <2>2. CASE Live(incidents, i)
    <3>1. incidents[i] \in Row
      BY <1>1, <2>1, <2>2, LiveIsRow
    <3>2. incidents' = [incidents EXCEPT ![i] = WithOccurrence(incidents[i], LogOf[t])]
      BY <1>6, <2>2 DEF RecordDuplicate, RecordOn
    <3>3. /\ incidents'[i] = WithOccurrence(incidents[i], LogOf[t])
          /\ \A j \in IncidentId \ {i} : incidents'[j] = incidents[j]
      BY <1>1, <2>1, <3>2 DEF Table
    <3>4. /\ incidents'[i].occurrences = Append(incidents[i].occurrences, LogOf[t])
          /\ incidents[i].occurrences \in Seq(Log)
      <4>1. LogOf[t] \in Log
        OBVIOUS
      <4>2. incidents[i].occurrences \in Seq(Log)
        BY <3>1 DEF Row
      <4>. DEFINE row == incidents[i]
                  key == LogOf[t]
      <4>3. row \in Row /\ key \in Log
        BY <3>1, <4>1
      <4>. HIDE DEF row, key
      <4>4. WithOccurrence(row, key).occurrences = Append(row.occurrences, key)
        BY <4>3, WithOccurrenceIsRow
      <4>. QED
        BY <3>3, <4>2, <4>4 DEF row, key
    <3>5. /\ pc[t] \in BeforeCommit /\ pc'[t] \notin BeforeCommit
          /\ \A u \in Task \ {t} : pc'[u] = pc[u]
          /\ UNCHANGED <<retries, crashes>>
      BY <1>1, <1>6 DEF RecordDuplicate, Goto, BeforeCommit
    <3>. DEFINE seq == incidents[i].occurrences
    <3>6. /\ seq \in Seq(Log) /\ incidents'[i].occurrences = Append(seq, LogOf[t])
          /\ Live(incidents, i) => incidents[i].occurrences = seq
          /\ ~Live(incidents, i) => seq = << >>
      BY <2>2, <3>4
    <3>. HIDE DEF seq, i
    <3>. QED
      BY <1>4, <2>1, <3>3, <3>5, <3>6
  <2>3. CASE ~Live(incidents, i)
    BY <1>5, <1>6, <2>3 DEF RecordDuplicate, RecordOn
  <2>. QED
    BY <2>2, <2>3
<1>7. ASSUME NEW t \in Task, Persist(t) PROVE StoresNothing \/ Commits(t)
  <2>1. CASE UNCHANGED incidents
    BY <1>5, <2>1
  <2>2. ASSUME NEW i \in IncidentId, Insert(t, i),
               NEW o \in {"created", "retry", "error"},
               Goto(t, "persist", IF o = "created" THEN "publish" ELSE "release"),
               UNCHANGED <<retries, crashes>>
        PROVE  Commits(t)
    <3>1. /\ incidents[i] = Unissued
          /\ incidents' = [incidents EXCEPT ![i] = NewIncident(FpOf[t], LogOf[t])]
      BY <2>2 DEF Insert
    <3>2. /\ incidents'[i] = NewIncident(FpOf[t], LogOf[t])
          /\ \A j \in IncidentId \ {i} : incidents'[j] = incidents[j]
      BY <1>1, <3>1 DEF Table
    <3>3. ~Live(incidents, i)
      BY <3>1 DEF Live, Unissued, Status
    <3>4. << >> \in Seq(Log) /\ incidents'[i].occurrences = Append(<< >>, LogOf[t])
      BY <3>2 DEF NewIncident
    <3>5. /\ pc[t] \in BeforeCommit /\ pc'[t] \notin BeforeCommit
          /\ \A u \in Task \ {t} : pc'[u] = pc[u]
      BY <1>1, <2>2 DEF Goto, BeforeCommit
    <3>. QED
      BY <1>4, <2>2, <3>2, <3>3, <3>4, <3>5
  <2>. QED
    BY <1>7, <2>1, <2>2 DEF Persist, tableVars
<1>8. ASSUME NEW e \in Editor, PatchWrite(e) PROVE StoresNothing
  <2>. DEFINE i == patch[e].id
  <2>1. i \in IncidentId /\ patch[e].to \in Status \cup {NoStatus}
    BY <1>8 DEF PatchWrite, TypeOK, PatchState
  <2>2. CASE WriteStatus(e, NewStatus(e)) /\ Live(incidents, i) /\ patch[e].to # NoStatus
    <3>1. incidents' = [incidents EXCEPT ![i] = WithStatus(incidents[i], patch[e].to)]
      BY <2>2 DEF WriteStatus
    <3>2. /\ incidents'[i] = WithStatus(incidents[i], patch[e].to)
          /\ \A j \in IncidentId \ {i} : incidents'[j] = incidents[j]
      BY <1>1, <2>1, <3>1 DEF Table
    <3>3. incidents[i] \in Row /\ patch[e].to \in Status
      BY <1>1, <2>1, <2>2, LiveIsRow
    <3>4. incidents'[i].occurrences = incidents[i].occurrences
      BY <3>2, <3>3, WithStatusIsRow
    <3>. QED
      BY <1>3, <2>2, <3>2, <3>4 DEF Live
  <2>3. CASE UNCHANGED incidents
    BY <1>5, <2>3
  <2>. QED
    BY <1>8, <2>2, <2>3 DEF PatchWrite, WriteStatus
<1>9. WipeTenant => StoresNothing
  BY <1>3 DEF WipeTenant, Live, Deleted, Status
<1>10. ASSUME NEW t \in Task,
              \/ AcquireLock(t) \/ LockContention(t) \/ AcquireFailOpen(t) \/ FindActive(t)
              \/ Analyse(t) \/ PublishPush(t) \/ Release(t) \/ Dispatch(t) \/ RaiseError(t)
              \/ WorkerLost(t) \/ HardTimeLimit(t)
       PROVE  StoresNothing
  BY <1>5, <1>10 DEF AcquireLock, LockContention, AcquireFailOpen, FindActive, Analyse,
     PublishPush, Release, Dispatch, RaiseError, WorkerLost, HardTimeLimit, tableVars
<1>11. ASSUME NEW e \in Editor, PatchRead(e) PROVE StoresNothing
  BY <1>5, <1>11 DEF PatchRead, tableVars
<1>12. ASSUME NEW f \in Fingerprint, LockExpires(f) PROVE StoresNothing
  BY <1>5, <1>12 DEF LockExpires, tableVars
<1>13. CASE UNCHANGED vars
  BY <1>5, <1>13 DEF vars, tableVars
<1>. QED
  BY <1>6, <1>7, <1>8, <1>9, <1>10, <1>11, <1>12, <1>13 DEF Next, TaskStep

\* No step takes from a task's budget: what a redelivery or a retry forgets of this
\* execution it adds as an earlier one.
LEMMA BudgetNeverShrinks ==
    ASSUME TypeOK, [Next]_vars, NEW u \in Task
    PROVE  Budget(u)' >= Budget(u)
<1>. USE PipelineAssumption
<1>1. /\ pc \in [Task -> TaskPC] /\ retries \in [Task -> 0..MaxRetries] /\ crashes \in Nat
      /\ retries[u] \in Nat
  BY DEF TypeOK
<1>2. ASSUME NEW t \in Task,
             \/ AcquireLock(t) \/ LockContention(t) \/ AcquireFailOpen(t) \/ FindActive(t)
             \/ RecordDuplicate(t) \/ Analyse(t) \/ Persist(t) \/ PublishPush(t)
             \/ Dispatch(t) \/ RaiseError(t)
      PROVE  Budget(u)' >= Budget(u)
  <2>1. UNCHANGED <<retries, crashes>>
    BY <1>2 DEF AcquireLock, LockContention, AcquireFailOpen, FindActive, RecordDuplicate,
       Analyse, Persist, PublishPush, Dispatch, RaiseError
  <2>2. pc[u] \notin BeforeCommit => pc'[u] \notin BeforeCommit
    BY <1>1, <1>2 DEF AcquireLock, LockContention, AcquireFailOpen, FindActive, RecordDuplicate,
       Analyse, Persist, PublishPush, Dispatch, RaiseError, Goto, BeforeCommit
  <2>. QED
    BY <1>1, <2>1, <2>2 DEF Budget, Written, BeforeCommit
<1>3. ASSUME NEW t \in Task, Release(t) PROVE Budget(u)' >= Budget(u)
  <2>1. CASE Retries(t) /\ retries' = [retries EXCEPT ![t] = @ + 1]
    <3>1. /\ UNCHANGED crashes
          /\ u # t => pc'[u] = pc[u] /\ retries'[u] = retries[u]
          /\ u = t => retries'[u] = retries[u] + 1
      BY <1>1, <1>3, <2>1 DEF Release, Goto
    <3>. QED
      BY <1>1, <3>1 DEF Budget, Written, BeforeCommit
  <2>2. CASE ~Retries(t) /\ UNCHANGED retries
    <3>1. AfterRelease(t) \notin BeforeCommit
      BY <2>2 DEF AfterRelease, BeforeCommit
    <3>2. UNCHANGED crashes /\ (pc[u] \notin BeforeCommit => pc'[u] \notin BeforeCommit)
      BY <1>1, <1>3, <3>1 DEF Release, Goto
    <3>. QED
      BY <1>1, <2>2, <3>2 DEF Budget, Written, BeforeCommit
  <2>. QED
    BY <1>3, <2>1, <2>2 DEF Release
<1>4. ASSUME NEW t \in Task, WorkerLost(t) \/ HardTimeLimit(t) PROVE Budget(u)' >= Budget(u)
  <2>1. crashes' = crashes + 1 /\ UNCHANGED retries
    BY <1>4 DEF WorkerLost, HardTimeLimit
  <2>. QED
    BY <1>1, <2>1 DEF Budget, Written, BeforeCommit
<1>5. ASSUME UNCHANGED <<pc, retries, crashes>> PROVE Budget(u)' >= Budget(u)
  BY <1>1, <1>5 DEF Budget, Written, BeforeCommit
<1>. QED
  BY <1>2, <1>3, <1>4, <1>5
     DEF Next, TaskStep, LockExpires, PatchRead, PatchWrite, WipeTenant, vars, taskVars

LEMMA NextRecordedSoFar ==
    ASSUME \A t, u \in Task : LogOf[t] = LogOf[u] => t = u,
           TypeOK, TypeOK', RecordedSoFar, [Next]_vars
    PROVE  RecordedSoFar'
<1>. USE PipelineAssumption
<1>. SUFFICES ASSUME NEW u \in Task PROVE AtMost(Recorded(LogOf[u])', Budget(u)')
  BY DEF RecordedSoFar, AtMost
<1>. DEFINE S == Recorded(LogOf[u])
<1>1. /\ Budget(u) \in Nat /\ Budget(u)' \in Nat /\ Budget(u)' >= Budget(u)
      /\ AtMost(S, Budget(u))
  <2>1. /\ retries[u] \in Nat /\ crashes \in Nat
        /\ retries'[u] \in Nat /\ crashes' \in Nat
    BY DEF TypeOK
  <2>2. Budget(u) \in Nat /\ Budget(u)' \in Nat
    BY <2>1 DEF Budget, Written, BeforeCommit
  <2>3. Budget(u)' >= Budget(u)
    BY BudgetNeverShrinks
  <2>4. AtMost(S, Budget(u))
    BY DEF RecordedSoFar
  <2>. QED
    BY <2>2, <2>3, <2>4
<1>. HIDE DEF S
<1>2. ASSUME Recorded(LogOf[u])' \subseteq S PROVE AtMost(Recorded(LogOf[u])', Budget(u)')
  <2>1. AtMost(Recorded(LogOf[u])', Budget(u))
    BY <1>1, <1>2, AtMostGrows
  <2>. QED
    BY <1>1, <2>1, AtMostGrows
<1>3. ASSUME NEW t \in Task, Commits(t) PROVE AtMost(Recorded(LogOf[u])', Budget(u)')
  <2>1. CASE t = u
    <3>1. Budget(u)' = Budget(u) + 1
      BY <1>3, <2>1 DEF Commits, Budget, Written, TypeOK
    <3>2. PICK p : Recorded(LogOf[u])' \subseteq S \cup {p}
      BY <1>3, <2>1 DEF Commits, S
    <3>3. AtMost(Recorded(LogOf[u])', Budget(u) + 1)
      <4>. DEFINE T == Recorded(LogOf[u])'
                  n == Budget(u)
      <4>1. AtMost(S, n) /\ n \in Nat /\ T \subseteq S \cup {p}
        BY <1>1, <3>2
      <4>. HIDE DEF T, n
      <4>2. AtMost(T, n + 1)
        BY <4>1, AtMostGrows
      <4>. QED
        BY <4>2 DEF T, n
    <3>. QED
      BY <3>1, <3>3
  <2>2. CASE t # u
    BY <1>2, <1>3, <2>2 DEF Commits, S
  <2>. QED
    BY <2>1, <2>2
<1>. QED
  BY <1>2, <1>3, StoresOrCommits DEF StoresNothing, S

\* A log is recorded at most once per execution of its task, when every task carries its
\* own: redelivery after a lost worker and a retry after a lost commit reply may record it
\* again, nothing else does.
THEOREM RecordedOnce ==
    ASSUME \A t, u \in Task : LogOf[t] = LogOf[u] => t = u
    PROVE  Spec => []RecordedOncePerExecution
<1>1. Init => RecordedSoFar
  <2>. SUFFICES ASSUME Init, NEW t \in Task PROVE AtMost(Recorded(LogOf[t]), Budget(t))
    BY DEF RecordedSoFar
  <2>1. \A i \in IncidentId : ~Live(incidents, i)
    BY DEF Init, EmptyTable, Live, Unissued, Status
  <2>2. Recorded(LogOf[t]) = {}
    BY <2>1 DEF Recorded, Places
  <2>3. Budget(t) = 0
    BY DEF Init, Budget, Written, BeforeCommit
  <2>. QED
    BY <2>2, <2>3, FS_EmptySet DEF AtMost
<1>2. TypeOK /\ TypeOK' /\ RecordedSoFar /\ [Next]_vars => RecordedSoFar'
  BY NextRecordedSoFar
<1>3. TypeOK /\ RecordedSoFar => RecordedOncePerExecution
  <2>. SUFFICES ASSUME TypeOK, RecordedSoFar, NEW t \in Task
                PROVE  Cardinality(Recorded(LogOf[t])) <= 1 + retries[t] + crashes
    BY DEF RecordedOncePerExecution
  <2>1. /\ IsFiniteSet(Recorded(LogOf[t])) /\ Cardinality(Recorded(LogOf[t])) <= Budget(t)
        /\ Cardinality(Recorded(LogOf[t])) \in Nat
    BY FS_CardinalityType DEF RecordedSoFar, AtMost
  <2>2. Budget(t) \in Nat /\ Budget(t) <= 1 + retries[t] + crashes
    BY PipelineAssumption DEF Budget, Written, BeforeCommit, TypeOK
  <2>3. retries[t] \in Nat /\ crashes \in Nat
    BY PipelineAssumption DEF TypeOK
  <2>. QED
    BY <2>1, <2>2, <2>3
<1>. QED
  BY <1>1, <1>2, <1>3, TypeCorrect, PTL DEF Spec
=============================================================================
