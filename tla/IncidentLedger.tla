--------------------------- MODULE IncidentLedger ---------------------------
(***************************************************************************)
(* What the incident store promises, whoever writes to it and in whatever  *)
(* order: a fingerprint has at most one active incident; a new incident    *)
(* starts open with exactly one occurrence; occurrences are appended one   *)
(* at a time, by the log that caused them, and are never dropped or        *)
(* reordered; a status change never touches the occurrences and never      *)
(* gives a second active incident; rows go away only all together.         *)
(* IncidentPipeline implements this specification.                         *)
(***************************************************************************)
EXTENDS IncidentTable

VARIABLE table

LedgerInit == table = EmptyTable

Open(i, f, key) ==
    /\ table[i] = Unissued
    /\ ~IndexConflict(table, i, f, "open")
    /\ table' = [table EXCEPT ![i] = NewIncident(f, key)]

Absorb(i, key) ==
    /\ Live(table, i)
    /\ table' = [table EXCEPT ![i] = WithOccurrence(@, key)]

SetStatus(i, s) ==
    /\ Live(table, i)
    /\ ~IndexConflict(table, i, table[i].fp, s)
    /\ table' = [table EXCEPT ![i] = WithStatus(@, s)]

Wipe ==
    table' = [i \in IncidentId |-> IF Live(table, i) THEN Deleted ELSE table[i]]

LedgerNext ==
    \/ \E i \in IncidentId, f \in Fingerprint, key \in Log : Open(i, f, key)
    \/ \E i \in IncidentId, key \in Log : Absorb(i, key)
    \/ \E i \in IncidentId, s \in Status : SetStatus(i, s)
    \/ Wipe

LedgerSpec == LedgerInit /\ [][LedgerNext]_table
=============================================================================
