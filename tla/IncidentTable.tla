--------------------------- MODULE IncidentTable ---------------------------
(***************************************************************************)
(* The incidents table of DB-2 (fastapi/app/models/incidents.py) as a      *)
(* value, and the pure operations the writers apply to a row of it.        *)
(* A table is a function from incident ids to rows.  An id nobody has      *)
(* drawn yet is Unissued; a row removed by wipe_tenant_data is Deleted and *)
(* its id is never drawn again (ids are uuid4).                            *)
(*                                                                         *)
(* Only the columns the properties tell apart are kept: the fingerprint,   *)
(* the status, the occurrence counter and the array of S3 keys of the      *)
(* occurrences.                                                            *)
(***************************************************************************)
EXTENDS Integers, Sequences

CONSTANTS IncidentId,   \* primary keys of the incidents table
          Fingerprint,  \* values of compute_fingerprint
          Log           \* S3 keys of ingested log contexts

\* The statuses a row can hold.  "draft" is a label of the column too, but
\* persist_new_incident resets is_draft and always stores "open".
Status == {"open", "investigating", "resolved", "closed"}

Unissued == [status |-> "unissued"]
Deleted  == [status |-> "deleted"]

Row == [fp : Fingerprint, status : Status, count : Nat \ {0},
        occurrences : Seq(Log)]

Table == [IncidentId -> Row \cup {Unissued, Deleted}]

EmptyTable == [i \in IncidentId |-> Unissued]

Live(table, i) == table[i].status \in Status

\* The predicate of the partial unique index
\* uq_incidents_tenant_fingerprint_active, and of find_active_by_fingerprint.
IsActive(table, i, f) ==
    /\ Live(table, i)
    /\ table[i].status # "resolved"
    /\ table[i].fp = f

\* The database refuses an INSERT or UPDATE that would give i a row of
\* fingerprint f and status s while another row occupies the index entry.
IndexConflict(table, i, f, s) ==
    /\ s # "resolved"
    /\ \E j \in IncidentId \ {i} : IsActive(table, j, f)

\* The row persist_new_incident inserts.
NewIncident(f, key) ==
    [fp |-> f, status |-> "open", count |-> 1,
     occurrences |-> <<key>>]

\* SET occurrence_count = occurrence_count + 1, occurrences = occurrences || key
WithOccurrence(row, key) ==
    [row EXCEPT !.count = @ + 1, !.occurrences = Append(@, key)]

\* The status PATCH /incidents/{id} writes.
WithStatus(row, s) == [row EXCEPT !.status = s]

\* allowed_transitions of update_incident.
AllowedTransitions ==
    [open          |-> {"investigating"},
     investigating |-> {"resolved"},
     resolved      |-> {"closed"},
     closed        |-> {"open", "investigating", "resolved"}]

-----------------------------------------------------------------------------
\* At most one row of a fingerprint is active.
UniqueActiveIn(table) ==
    \A i, j \in IncidentId, f \in Fingerprint :
        IsActive(table, i, f) /\ IsActive(table, j, f) => i = j

\* Where the key of a log is stored: the rows, and the index in the array of each.
Places(table, key) ==
    UNION {{<<i, k>> : k \in {n \in DOMAIN table[i].occurrences :
                                 table[i].occurrences[n] = key}} :
              i \in {j \in IncidentId : Live(table, j)}}
=============================================================================
