------------------------ MODULE IncidentTable_proofs ------------------------
(***************************************************************************)
(* Facts about the operations on the incidents table, for every set of     *)
(* ids, fingerprints and log keys.  The proofs about the pipeline cite     *)
(* them by name instead of expanding rows.                                 *)
(***************************************************************************)
EXTENDS IncidentTable, FiniteSetTheorems, TLAPS

\* A live id holds a row: the status of an id without one is not a status of
\* the column.
LEMMA LiveIsRow ==
    ASSUME NEW table \in Table, NEW i \in IncidentId, Live(table, i)
    PROVE  table[i] \in Row
BY DEF Table, Live, Status, Unissued, Deleted

\* A row's id is live, and neither of the two ids without a row is.
LEMMA RowIsLive ==
    ASSUME NEW table, NEW i \in IncidentId, table[i] \in Row
    PROVE  Live(table, i)
BY DEF Live, Row

\* What persist_new_incident inserts is a row of the fingerprint, open.
LEMMA NewIncidentIsRow ==
    ASSUME NEW f \in Fingerprint, NEW key \in Log
    PROVE  /\ NewIncident(f, key) \in Row
           /\ NewIncident(f, key).fp = f
           /\ NewIncident(f, key).status = "open"
BY DEF NewIncident, Row, Status

\* Recording an occurrence keeps a row a row and moves neither its fingerprint
\* nor its status.
LEMMA WithOccurrenceIsRow ==
    ASSUME NEW row \in Row, NEW key \in Log
    PROVE  /\ WithOccurrence(row, key) \in Row
           /\ WithOccurrence(row, key).fp = row.fp
           /\ WithOccurrence(row, key).status = row.status
           /\ WithOccurrence(row, key).count = row.count + 1
           /\ WithOccurrence(row, key).occurrences = Append(row.occurrences, key)
<1>. DEFINE longer == Append(row.occurrences, key)
            more == row.count + 1
<1>1. row.occurrences \in Seq(Log) /\ row.count \in Nat \ {0}
  BY DEF Row
<1>2. longer \in Seq(Log) /\ more \in Nat \ {0}
  BY <1>1
<1>3. WithOccurrence(row, key) = [row EXCEPT !.count = more, !.occurrences = longer]
  BY DEF WithOccurrence
<1>. HIDE DEF longer, more
<1>4. /\ WithOccurrence(row, key) \in Row
      /\ WithOccurrence(row, key).fp = row.fp
      /\ WithOccurrence(row, key).status = row.status
      /\ WithOccurrence(row, key).count = more
      /\ WithOccurrence(row, key).occurrences = longer
  BY <1>2, <1>3 DEF Row
<1>. QED
  BY <1>4 DEF longer, more

\* A status change keeps a row a row and moves neither its fingerprint nor its
\* occurrences.
LEMMA WithStatusIsRow ==
    ASSUME NEW row \in Row, NEW s \in Status
    PROVE  /\ WithStatus(row, s) \in Row
           /\ WithStatus(row, s).fp = row.fp
           /\ WithStatus(row, s).status = s
           /\ WithStatus(row, s).count = row.count
           /\ WithStatus(row, s).occurrences = row.occurrences
BY DEF WithStatus, Row

\* A transition the API allows leads to a status of the column.
LEMMA AllowedIsStatus ==
    ASSUME NEW s \in Status, NEW r \in AllowedTransitions[s]
    PROVE  r \in Status
BY DEF AllowedTransitions, Status

\* Writing a row whose index entry nobody else occupies keeps at most one
\* active row of a fingerprint.
LEMMA WriteKeepsUnique ==
    ASSUME NEW table \in Table, UniqueActiveIn(table),
           NEW i \in IncidentId, NEW row \in Row,
           ~IndexConflict(table, i, row.fp, row.status)
    PROVE  UniqueActiveIn([table EXCEPT ![i] = row])
<1>. DEFINE after == [table EXCEPT ![i] = row]
<1>1. /\ after[i] = row
      /\ \A j \in IncidentId \ {i} : after[j] = table[j]
  BY DEF Table
<1>2. ASSUME NEW j \in IncidentId, NEW k \in IncidentId, NEW f \in Fingerprint,
             IsActive(after, j, f), IsActive(after, k, f)
      PROVE  j = k
  <2>1. CASE j # i /\ k # i
    BY <2>1, <1>1, <1>2 DEF UniqueActiveIn, IsActive, Live
  <2>2. CASE j = i /\ k # i
    <3>1. row.fp = f /\ row.status # "resolved" /\ IsActive(table, k, f)
      BY <2>2, <1>1, <1>2 DEF IsActive, Live
    <3>. QED
      BY <3>1, <2>2 DEF IndexConflict
  <2>3. CASE j # i /\ k = i
    <3>1. row.fp = f /\ row.status # "resolved" /\ IsActive(table, j, f)
      BY <2>3, <1>1, <1>2 DEF IsActive, Live
    <3>. QED
      BY <3>1, <2>3 DEF IndexConflict
  <2>. QED
    BY <2>1, <2>2, <2>3
<1>. QED
  BY <1>2 DEF UniqueActiveIn

\* Under uniqueness a row does not conflict with itself: writing a row of the
\* same fingerprint and the same status is never refused.
LEMMA SameEntryNoConflict ==
    ASSUME NEW table \in Table, UniqueActiveIn(table),
           NEW i \in IncidentId, Live(table, i)
    PROVE  ~IndexConflict(table, i, table[i].fp, table[i].status)
<1>1. table[i] \in Row
  BY LiveIsRow
<1>2. table[i].fp \in Fingerprint
  BY <1>1 DEF Row
<1>. QED
  BY <1>2 DEF IndexConflict, UniqueActiveIn, IsActive

\* Deleting rows keeps at most one active row of a fingerprint.
LEMMA DeleteKeepsUnique ==
    ASSUME NEW table \in Table, UniqueActiveIn(table)
    PROVE  UniqueActiveIn([i \in IncidentId |->
                              IF Live(table, i) THEN Deleted ELSE table[i]])
<1>. DEFINE after == [i \in IncidentId |-> IF Live(table, i) THEN Deleted ELSE table[i]]
<1>1. \A i \in IncidentId : ~Live(after, i)
  BY DEF Live, Deleted, Status
<1>. QED
  BY <1>1 DEF UniqueActiveIn, IsActive

-----------------------------------------------------------------------------
(* Where a key is stored, and how often *)

\* A finite set of at most n elements.
AtMost(S, n) == IsFiniteSet(S) /\ Cardinality(S) <= n

\* A bound on the size of a set, of its subsets and of it with one element more.
LEMMA AtMostGrows ==
    ASSUME NEW S, NEW n \in Nat, AtMost(S, n)
    PROVE  /\ \A T : T \subseteq S => AtMost(T, n)
           /\ \A T, p : T \subseteq S \cup {p} => AtMost(T, n + 1)
           /\ \A m \in Nat : n <= m => AtMost(S, m)
<1>1. IsFiniteSet(S) /\ Cardinality(S) \in Nat /\ Cardinality(S) <= n
  BY FS_CardinalityType DEF AtMost
<1>2. ASSUME NEW T, T \subseteq S PROVE AtMost(T, n)
  <2>1. IsFiniteSet(T) /\ Cardinality(T) <= Cardinality(S) /\ Cardinality(T) \in Nat
    BY <1>1, <1>2, FS_Subset, FS_CardinalityType
  <2>. QED
    BY <1>1, <2>1 DEF AtMost
<1>3. ASSUME NEW T, NEW p, T \subseteq S \cup {p} PROVE AtMost(T, n + 1)
  <2>1. /\ IsFiniteSet(S \cup {p})
        /\ Cardinality(S \cup {p}) = Cardinality(S) \/ Cardinality(S \cup {p}) = Cardinality(S) + 1
    BY <1>1, FS_AddElement
  <2>2. /\ IsFiniteSet(T) /\ Cardinality(T) <= Cardinality(S \cup {p})
        /\ Cardinality(T) \in Nat /\ Cardinality(S \cup {p}) \in Nat
    BY <1>3, <2>1, FS_Subset, FS_CardinalityType
  <2>. QED
    BY <1>1, <2>1, <2>2 DEF AtMost
<1>4. ASSUME NEW m \in Nat, n <= m PROVE AtMost(S, m)
  BY <1>1, <1>4 DEF AtMost
<1>. QED
  BY <1>2, <1>3, <1>4

\* Where a key is stored.
LEMMA InPlaces ==
    ASSUME NEW tab, NEW key, NEW p
    PROVE  p \in Places(tab, key) <=>
               \E i \in IncidentId : \E k \in DOMAIN tab[i].occurrences :
                   Live(tab, i) /\ tab[i].occurrences[k] = key /\ p = <<i, k>>
BY DEF Places

\* Rows that go away or keep their occurrences give no new place.
LEMMA NoNewPlace ==
    ASSUME NEW tab, NEW after, NEW key,
           \A i \in IncidentId : Live(after, i) =>
               Live(tab, i) /\ after[i].occurrences = tab[i].occurrences
    PROVE  Places(after, key) \subseteq Places(tab, key)
<1>. SUFFICES ASSUME NEW p \in Places(after, key) PROVE p \in Places(tab, key)
  OBVIOUS
<1>1. PICK i \in IncidentId : \E k \in DOMAIN after[i].occurrences :
               Live(after, i) /\ after[i].occurrences[k] = key /\ p = <<i, k>>
  BY InPlaces
<1>. QED
  BY <1>1, InPlaces

\* One occurrence stored at the end of one row's array gives one new place of its key and
\* none of any other.
LEMMA OneNewPlace ==
    ASSUME NEW tab, NEW after, NEW i \in IncidentId, NEW seq \in Seq(Log), NEW new \in Log,
           Live(tab, i) => tab[i].occurrences = seq,
           ~Live(tab, i) => seq = << >>,
           after[i].occurrences = Append(seq, new),
           \A j \in IncidentId \ {i} : after[j] = tab[j]
    PROVE  \A key : Places(after, key) \subseteq
               Places(tab, key) \cup (IF key = new THEN {<<i, Len(seq) + 1>>} ELSE {})
<1>. DEFINE longer == Append(seq, new)
<1>1. /\ DOMAIN longer = 1..(Len(seq) + 1) /\ Len(seq) \in Nat
      /\ DOMAIN seq = 1..Len(seq)
      /\ longer[Len(seq) + 1] = new
      /\ \A k \in 1..Len(seq) : longer[k] = seq[k]
  OBVIOUS
<1>2. seq = << >> => 1..Len(seq) = {}
  OBVIOUS
<1>. HIDE DEF longer
<1>. SUFFICES ASSUME NEW key, NEW p \in Places(after, key)
              PROVE  p \in Places(tab, key) \/ (key = new /\ p = <<i, Len(seq) + 1>>)
  OBVIOUS
<1>3. PICK j \in IncidentId : \E k \in DOMAIN after[j].occurrences :
               Live(after, j) /\ after[j].occurrences[k] = key /\ p = <<j, k>>
  BY InPlaces
<1>4. PICK k \in DOMAIN after[j].occurrences :
               Live(after, j) /\ after[j].occurrences[k] = key /\ p = <<j, k>>
  BY <1>3
<1>5. CASE j # i
  <2>1. after[j] = tab[j] /\ Live(tab, j)
    BY <1>4, <1>5 DEF Live
  <2>. QED
    BY <1>4, <2>1, InPlaces
<1>6. CASE j = i
  <2>1. k \in 1..(Len(seq) + 1) /\ longer[k] = key
    BY <1>1, <1>4, <1>6 DEF longer
  <2>2. CASE k = Len(seq) + 1
    BY <1>1, <1>4, <1>6, <2>1, <2>2
  <2>3. CASE k # Len(seq) + 1
    <3>1. k \in 1..Len(seq) /\ seq[k] = key
      BY <1>1, <2>1, <2>3
    <3>2. Live(tab, i) /\ tab[i].occurrences = seq
      BY <1>2, <3>1
    <3>. QED
      BY <1>1, <1>4, <1>6, <3>1, <3>2, InPlaces
  <2>. QED
    BY <2>2, <2>3
<1>. QED
  BY <1>5, <1>6
=============================================================================
