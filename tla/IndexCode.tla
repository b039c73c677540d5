------------------------------ MODULE IndexCode ------------------------------
(***************************************************************************)
(* One repository of one tenant: connecting, changing and disconnecting it *)
(* in Django (django/apps/integrations/views.py), the config.tenants       *)
(* events that carry the integration to FastAPI and dispatch its first     *)
(* index (config_sync.py), the push webhook (api/v1/webhooks.py), the      *)
(* index_code and cleanup_code_index tasks (worker/tasks/index_code.py),   *)
(* and the indexing.status events that carry the progress back to Django   *)
(* (consume_indexing_status.py).                                           *)
(*                                                                         *)
(* A commit is its number in the order of the pushes; the content of a     *)
(* file is the commit that last changed it, 0 when the file does not       *)
(* exist.  An S3 key holds the commit and the path, so objects are indexed *)
(* by both.  The Redis copies of the objects, keyed alike, are left out.   *)
(* Only the work on this repository is modelled: a row that names another  *)
(* one counts as pointing elsewhere, and a PATCH that moves it gives owner,*)
(* name and URL together.                                                  *)
(***************************************************************************)
EXTENDS Integers, Sequences, FiniteSets

CONSTANTS File,          \* paths with a supported extension
          MaxConnects,   \* bound: GitHubIntegration rows this repository ever has
          Workers,       \* tasks the Celery workers run at the same time
          MaxCommits,    \* bound: commits of the repository
          MaxTrouble     \* bound: new connections of a disconnected repository, PATCH
                         \* requests, pushes to other branches, failures, lost workers and
                         \* ties, together; below max_retries = 10

ASSUME IndexAssumption ==
    /\ Workers \in Nat \ {0} /\ MaxCommits \in Nat \ {0}
    /\ MaxConnects \in Nat \ {0} /\ MaxTrouble \in Nat

\* Primary keys of GitHubIntegration rows, in the order of their creation.
Integration == 1..MaxConnects

\* Branches of the repository, and what default_branch, repo_url and repo_name of a row name.
Branch == {"default", "other"}
Target == Branch \cup {"elsewhere"}

VARIABLES
    trees,      \* GitHub: the content of every file at every commit
    heads,      \* GitHub: the commit each branch is at
    connected,  \* DB-1: GitHubIntegration rows, with status, last_indexed_commit and target
    removed,    \* DB-1: primary keys that were deleted
    patching,   \* the running PATCH request with the row it loaded
    clock,      \* milliseconds
    events,     \* Kafka: config.tenants, what the ConfigSyncConsumer has not handled yet
    dispatch,   \* the event whose transaction is done and whose dispatch is not
    version,    \* DB-2: source_version of the tenant row
    snapshot,   \* DB-2: GitHubIntegrationSnapshot rows
    statuses,   \* Kafka: indexing.status, what is not in ProcessedEvent yet
    tasks,      \* Celery: every task that was sent, with its progress
    rows,       \* DB-2: code_index, the key each file's rows point at and their content
    objects,    \* S3: the content under each key
    patches, trouble,   \* counters of the bounds
    gaps        \* history: why the index may differ from the branch

gitVars    == <<trees, heads>>
djangoVars == <<connected, removed, patching, clock>>
syncVars   == <<events, dispatch, version>>
indexVars  == <<tasks, rows, objects>>
bounds     == <<patches, trouble>>
indexCodeVars == <<gitVars, djangoVars, syncVars, snapshot, statuses, indexVars, bounds, gaps>>

Absent == [status |-> "absent", commit |-> 0, branch |-> "elsewhere"]
NoRows == [commit |-> 0, content |-> 0]
Idle == [pc |-> "idle"]
Gap == {"overlap", "order", "skipped", "unreported", "undispatched", "lost", "cleanup", "patch",
        "repointed", "tie", "reconnect", "branch"}

IndexInit ==
    /\ trees = <<[f \in File |-> 1]>> /\ heads = [b \in Branch |-> 1]
    /\ connected = [i \in Integration |-> Absent] /\ removed = {} /\ patching = Idle
    /\ clock = 1
    /\ events = << >> /\ dispatch = Idle /\ version = 1
    /\ snapshot = [i \in Integration |-> Absent]
    /\ statuses = << >>
    /\ tasks = << >>
    /\ rows = [f \in File |-> NoRows]
    /\ objects = [f \in File |-> [c \in 1..MaxCommits |-> 0]]
    /\ patches = 0 /\ trouble = 0
    /\ gaps = {}

Trouble == patches + trouble < MaxTrouble /\ trouble' = trouble + 1
Note(reasons) == gaps' = gaps \cup reasons

-----------------------------------------------------------------------------
(* GitHubIntegrationListCreateView, GitHubIntegrationDetailView *)

\* The row and its event in one transaction; the event is stamped with the wall clock, now
\* and then in the millisecond of the event before it.
Publish(i, action, row, reasons) ==
    \E tick \in 0..1 :
        /\ clock' = clock + tick
        /\ IF tick = 0 \/ "reconnect" \in reasons THEN Trouble ELSE UNCHANGED trouble
        /\ Note(reasons \cup IF tick = 0 THEN {"tie"} ELSE {})
        /\ events' = Append(events, [id |-> i, action |-> action, row |-> row,
                                     version |-> clock + tick])

\* unique_together of tenant and repo_url.
Unclaimed(i) == \A j \in Integration \ {i} : connected[j].branch \notin Branch

\* post: one integration per repository; the branch the first one names is called "default".
Connect(i, branch) ==
    /\ i = 1 => branch = "default"
    /\ removed \cup {j \in Integration : connected[j] # Absent} = 1..(i - 1)
    /\ Unclaimed(i)
    /\ LET row == [status |-> "pending", commit |-> 0, branch |-> branch]
       IN  /\ connected' = [connected EXCEPT ![i] = row]
           /\ Publish(i, "created", row, IF i > 1 THEN {"reconnect"} ELSE {})
    /\ UNCHANGED <<gitVars, removed, patching, dispatch, version, snapshot, statuses,
                   indexVars, patches>>

\* patch: the row is loaded first, and the request may give another branch or repository ...
LoadPatch(i, target) ==
    /\ patches + trouble < MaxTrouble
    /\ patches' = patches + 1
    /\ patching = Idle /\ connected[i] # Absent
    /\ patching' = [pc |-> "save", id |-> i, row |-> [connected[i] EXCEPT !.branch = target]]
    /\ UNCHANGED <<gitVars, connected, removed, clock, syncVars, snapshot, statuses,
                   indexVars, trouble, gaps>>

\* ... and serializer.save() writes every column of it, the status included, unless the row is
\* gone or the repository is connected by another one.  Nothing is indexed again.
SavePatch ==
    /\ patching.pc = "save"
    /\ patching' = Idle
    /\ LET i == patching.id
           row == patching.row
       IN  IF connected[i] # Absent /\ (row.branch \in Branch => Unclaimed(i))
           THEN /\ connected' = [connected EXCEPT ![i] = row]
                /\ Publish(i, "updated", row,
                           IF row.branch # connected[i].branch THEN {"repointed"} ELSE {})
           ELSE UNCHANGED <<connected, clock, events, gaps, trouble>>
    /\ UNCHANGED <<gitVars, removed, dispatch, version, snapshot, statuses,
                   indexVars, patches>>

\* delete
Disconnect(i) ==
    /\ connected[i] # Absent
    /\ Publish(i, "deleted", connected[i], {})
    /\ connected' = [connected EXCEPT ![i] = Absent]
    /\ removed' = removed \cup {i}
    /\ UNCHANGED <<gitVars, patching, dispatch, version, snapshot, statuses,
                   indexVars, patches>>

-----------------------------------------------------------------------------
(* The Celery queue *)

\* branch: the branch the loaded row names; base: the commit whose tree is indexed; todo: files
\* left; at: the file between its upload and its rows.
Task(kind, commit, changed) ==
    [kind |-> kind, commit |-> commit, changed |-> changed, pc |-> "queued",
     branch |-> "elsewhere", base |-> commit, todo |-> {}, at |-> {}]
Send(t) == tasks' = Append(tasks, t)
Running == {t \in 1..Len(tasks) : tasks[t].pc \notin {"queued", "done"}}
Put(t, new) == tasks' = [tasks EXCEPT ![t] = new]
Again(t) == Task(tasks[t].kind, tasks[t].commit, tasks[t].changed)
End(t) == [Task(tasks[t].kind, tasks[t].commit, {}) EXCEPT !.pc = "done"]

-----------------------------------------------------------------------------
(* ConfigSyncConsumer._handle_tenant_event, the integration block *)

Stale(ev) == version >= ev.version
Here(i) == snapshot[i].branch \in Branch
Cleans(ev) == ev.action = "deleted" /\ Here(ev.id)

\* The transaction.  A deletion sends the cleanup before it commits; a stale event loses
\* the integration it carries; one whose row was loaded before an index takes
\* last_indexed_commit back.
HandleEvent ==
    /\ dispatch = Idle /\ events # << >>
    /\ events' = Tail(events)
    /\ LET ev == Head(events)
       IN  \/ /\ Stale(ev)
              /\ UNCHANGED <<version, snapshot, tasks, dispatch, gaps>>
           \/ /\ ~Stale(ev)
              /\ version' = ev.version
              /\ IF Cleans(ev) THEN Send(Task("cleanup", 0, {})) ELSE UNCHANGED tasks
              /\ IF ev.action = "deleted"
                 THEN /\ snapshot' = [snapshot EXCEPT ![ev.id] = Absent]
                      /\ UNCHANGED <<dispatch, gaps>>
                 ELSE /\ snapshot' = [snapshot EXCEPT ![ev.id] = ev.row]
                      /\ dispatch' = [pc |-> "dispatch", row |-> ev.row,
                                      previous |-> snapshot[ev.id].status]
                      /\ Note(IF snapshot[ev.id] # Absent /\ ev.row.commit # snapshot[ev.id].commit
                              THEN {"patch"} ELSE {})
    /\ UNCHANGED <<gitVars, djangoVars, statuses, rows, objects, bounds>>

\* The handler raises: its transaction is undone, the cleanup of a deletion may be sent all the
\* same, and the loop goes on without a commit.  The next event's commit passes this one over,
\* unless the consumer restarts before it.
HandleFails ==
    /\ Trouble
    /\ dispatch = Idle /\ events # << >> /\ ~Stale(Head(events))
    /\ \/ UNCHANGED tasks
       \/ Cleans(Head(events)) /\ Send(Task("cleanup", 0, {}))
    /\ \/ events' = Tail(events) /\ Note({"lost"})
       \/ UNCHANGED <<events, gaps>>
    /\ UNCHANGED <<gitVars, djangoVars, dispatch, version, snapshot, statuses, rows, objects,
                   patches>>

\* _maybe_dispatch_initial_index: only a pending row that was not indexed before.
DispatchInitial ==
    /\ dispatch.pc = "dispatch"
    /\ dispatch' = Idle
    /\ IF /\ dispatch.row.status = "pending" /\ dispatch.previous \notin {"indexing", "indexed"}
          /\ dispatch.row.branch \in Branch
       THEN Send(Task("initial", heads[dispatch.row.branch], {}))
       ELSE UNCHANGED tasks
    /\ UNCHANGED <<gitVars, djangoVars, events, version, snapshot, statuses,
                   rows, objects, bounds, gaps>>

\* The branch's commit cannot be resolved, or the consumer stops here: the repeated event is
\* stale.
DispatchFails ==
    /\ Trouble
    /\ dispatch.pc = "dispatch"
    /\ dispatch' = Idle
    /\ Note({"undispatched"})
    /\ UNCHANGED <<gitVars, djangoVars, events, version, snapshot, statuses,
                   indexVars, patches>>

-----------------------------------------------------------------------------
(* receive_github_webhook *)

\* _find_tenant_and_integration_by_repo_url
Known == \E i \in Integration : Here(i)

\* A push to a branch changes or removes some files; the webhook finds the integration by its
\* URL, or answers 404.  A merge commit lists no files.  The webhook does not look at the
\* branch that was pushed to.
Push(branch, changes, gone, listed) ==
    /\ Len(trees) < MaxCommits
    /\ changes \cap gone = {} /\ changes \cup gone # {}
    /\ LET new == Len(trees) + 1
           old == trees[heads[branch]]
       IN  /\ \A f \in gone : old[f] # 0
           /\ trees' = Append(trees, [f \in File |-> IF f \in changes THEN new
                                                     ELSE IF f \in gone THEN 0 ELSE old[f]])
           /\ heads' = [heads EXCEPT ![branch] = new]
           /\ IF \E i \in Integration : connected[i].branch \in Branch \ {branch}
              THEN Trouble /\ Note({"branch"})
              ELSE UNCHANGED <<trouble, gaps>>
           /\ IF Known
              THEN Send(Task("incremental", new, IF listed THEN changes \cup gone ELSE {}))
              ELSE UNCHANGED tasks
    /\ UNCHANGED <<djangoVars, syncVars, snapshot, statuses, rows, objects, patches>>

-----------------------------------------------------------------------------
(* index_code *)

\* What a status and a commit make of a row that names the repository.
Reported(row, status, commit) ==
    IF row.branch \notin Branch THEN row
    ELSE [row EXCEPT !.status = status, !.commit = IF commit = 0 THEN @ ELSE commit]

\* _update_indexing_status: the rows of the URL and the event in one transaction.
Report(status, commit) ==
    /\ snapshot' = [i \in Integration |-> Reported(snapshot[i], status, commit)]
    /\ statuses' = Append(statuses, [status |-> status, commit |-> commit])

\* Why a task that starts now may leave the index behind the branch.
StartGaps(t) ==
    (IF Running # {} THEN {"overlap"} ELSE {})
    \cup (IF \E u \in 1..Len(tasks) : u # t /\ tasks[u].pc = "done" /\ tasks[t].kind # "cleanup"
                                      /\ tasks[u].commit > tasks[t].commit
          THEN {"order"} ELSE {})
    \cup (IF \E u \in t+1..Len(tasks) : tasks[u].kind = "cleanup" /\ tasks[u].pc # "queued"
          THEN {"order"} ELSE {})
    \cup (IF tasks[t].kind = "cleanup" /\ \E u \in t+1..Len(tasks) : tasks[u].pc # "queued"
          THEN {"cleanup"} ELSE {})

\* _run_index: without the snapshot row the task raises and is retried.
StartInitial(t) ==
    /\ tasks[t].pc = "queued" /\ tasks[t].kind = "initial"
    /\ Cardinality(Running) < Workers
    /\ Report("indexing", 0)
    /\ \E i \in Integration :
          /\ Here(i)
          /\ Put(t, [tasks[t] EXCEPT !.pc = "download", !.branch = snapshot[i].branch])
    /\ Note(StartGaps(t))
    /\ UNCHANGED <<gitVars, djangoVars, syncVars, rows, objects, bounds>>

\* The tarball is the branch's head, whatever commit the task was sent for.
Download(t) ==
    /\ tasks[t].pc = "download"
    /\ LET head == heads[tasks[t].branch]
       IN  Put(t, [tasks[t] EXCEPT !.pc = "files", !.base = head,
                                   !.todo = {f \in File : trees[head][f] # 0}])
    /\ UNCHANGED <<gitVars, djangoVars, syncVars, snapshot, statuses, rows, objects,
                   bounds, gaps>>

\* _fetch_changed_files_from_compare: what differs between the last indexed commit and this.
Compared(last, commit) ==
    IF last \in {0, commit} THEN {} ELSE {f \in File : trees[last][f] # trees[commit][f]}

\* The files of the push or, without any, those the comparison with last_indexed_commit of a
\* row finds.
StartIncremental(t) ==
    /\ tasks[t].pc = "queued" /\ tasks[t].kind = "incremental"
    /\ Cardinality(Running) < Workers
    /\ \E i \in Integration :
          LET last == snapshot[i].commit
          IN  /\ Here(i)
              /\ Put(t, [tasks[t] EXCEPT !.pc = "files",
                            !.todo = IF tasks[t].changed # {} THEN tasks[t].changed
                                     ELSE Compared(last, tasks[t].commit)])
              /\ Note(StartGaps(t) \cup
                      (IF tasks[t].changed = {} /\ last \in {0, tasks[t].commit}
                       THEN {"order"} ELSE {}))
    /\ UNCHANGED <<gitVars, djangoVars, syncVars, snapshot, statuses, rows, objects, bounds>>

\* The task of a repository that is gone is retried until its retries run out.
GiveUp(t) ==
    /\ tasks[t].pc = "queued" /\ tasks[t].kind # "cleanup"
    /\ ~Known
    /\ Put(t, End(t))
    /\ UNCHANGED <<gitVars, djangoVars, syncVars, snapshot, statuses, rows, objects,
                   bounds, gaps>>

Content(t, f) == trees[tasks[t].base][f]
Cursor(t, f) == tasks[t].pc = "files" /\ tasks[t].at = {} /\ f \in tasks[t].todo

Finished(t, f) == [tasks[t] EXCEPT !.todo = @ \ {f}, !.at = {}]

\* A file: first the object under the commit's key ...
Upload(t, f) ==
    /\ Cursor(t, f)
    /\ Content(t, f) # 0
    /\ objects' = [objects EXCEPT ![f][tasks[t].commit] = Content(t, f)]
    /\ Put(t, [tasks[t] EXCEPT !.at = {f}])
    /\ UNCHANGED <<gitVars, djangoVars, syncVars, snapshot, statuses, rows, bounds, gaps>>

\* ... then the rows, the old ones deleted in the same transaction.
InsertRows(t, f) ==
    /\ tasks[t].pc = "files" /\ tasks[t].at = {f}
    /\ rows' = [rows EXCEPT ![f] = [commit |-> tasks[t].commit, content |-> Content(t, f)]]
    /\ Put(t, Finished(t, f))
    /\ UNCHANGED <<gitVars, djangoVars, syncVars, snapshot, statuses, objects, bounds, gaps>>

\* Mutant: removed files keep their rows.
KeepRows(t, f) ==
    /\ Cursor(t, f)
    /\ Content(t, f) = 0
    /\ Put(t, Finished(t, f))
    /\ UNCHANGED <<gitVars, djangoVars, syncVars, snapshot, statuses, rows, objects,
                   bounds, gaps>>

\* A removed file, or one that is not found at the commit, loses its rows.
DeleteRows(t, f) ==
    /\ Cursor(t, f)
    /\ Content(t, f) = 0
    /\ rows' = [rows EXCEPT ![f] = NoRows]
    /\ Put(t, Finished(t, f))
    /\ UNCHANGED <<gitVars, djangoVars, syncVars, snapshot, statuses, objects, bounds, gaps>>

\* A file that cannot be fetched, stored or parsed is logged and skipped.
SkipFile(t, f) ==
    /\ Trouble
    /\ tasks[t].pc = "files" /\ f \in tasks[t].todo
    /\ Put(t, Finished(t, f))
    /\ Note({"skipped"})
    /\ UNCHANGED <<gitVars, djangoVars, syncVars, snapshot, statuses, rows, objects, patches>>

\* The last step, whatever was skipped: indexed, at the task's commit.  The worker may be lost
\* before the acknowledgement, and the task is delivered again.
Complete(t) ==
    /\ tasks[t].pc = "files" /\ tasks[t].todo = {}
    /\ Report("indexed", tasks[t].commit)
    /\ \/ Put(t, End(t)) /\ UNCHANGED trouble
       \/ Put(t, Again(t)) /\ Trouble
    /\ UNCHANGED <<gitVars, djangoVars, syncVars, rows, objects, patches, gaps>>

\* Mutant: a failed initial index does not report it.
FailSilently(t) ==
    /\ Trouble
    /\ tasks[t].kind = "initial" /\ tasks[t].pc \in {"download", "files"}
    /\ \/ Put(t, Again(t)) /\ UNCHANGED gaps
       \/ Put(t, End(t)) /\ Note({"skipped"})
    /\ UNCHANGED <<gitVars, djangoVars, syncVars, snapshot, statuses, rows, objects, patches>>

\* The initial index raises an Exception: failed is reported, then the task is retried, or not
\* when SoftTimeLimitExceeded ended it, which is not in autoretry_for.
FailInitial(t) ==
    /\ Trouble
    /\ tasks[t].kind = "initial" /\ tasks[t].pc \in {"download", "files"}
    /\ Report("failed", 0)
    /\ \/ Put(t, Again(t)) /\ UNCHANGED gaps
       \/ Put(t, End(t)) /\ Note({"skipped"})
    /\ UNCHANGED <<gitVars, djangoVars, syncVars, rows, objects, patches>>

\* A task ends and nothing is reported: the hard time limit, whose message is acknowledged, a
\* soft limit that arrives as CancelledError, an error before the except block, or in its own
\* report, that is not retried, or the last retry.
StopsUnreported(t) ==
    /\ Trouble
    /\ tasks[t].kind # "cleanup" /\ tasks[t].pc # "done"
    /\ Put(t, End(t))
    /\ Note({"skipped"} \cup IF tasks[t].kind = "initial" THEN {"unreported"} ELSE {})
    /\ UNCHANGED <<gitVars, djangoVars, syncVars, snapshot, statuses, rows, objects, patches>>

\* An error that is retried before anything is reported, and task_acks_late with
\* task_reject_on_worker_lost: the message of a lost worker is delivered again.
LoseWorker(t) ==
    /\ Trouble
    /\ t \in Running
    /\ Put(t, Again(t))
    /\ UNCHANGED <<gitVars, djangoVars, syncVars, snapshot, statuses, rows, objects,
                   patches, gaps>>

-----------------------------------------------------------------------------
(* cleanup_code_index *)

\* Mutant: the objects go before the rows.
CleanObjectsFirst(t) ==
    /\ tasks[t].kind = "cleanup" /\ tasks[t].pc = "queued"
    /\ Cardinality(Running) < Workers
    /\ objects' = [f \in File |-> [c \in 1..MaxCommits |-> 0]]
    /\ Put(t, [tasks[t] EXCEPT !.pc = "objects"])
    /\ Note(StartGaps(t))
    /\ UNCHANGED <<gitVars, djangoVars, syncVars, snapshot, statuses, rows, bounds>>

CleanRows(t) ==
    /\ tasks[t].kind = "cleanup" /\ tasks[t].pc = "queued"
    /\ Cardinality(Running) < Workers
    /\ rows' = [f \in File |-> NoRows]
    /\ Put(t, [tasks[t] EXCEPT !.pc = "objects"])
    /\ Note(StartGaps(t))
    /\ UNCHANGED <<gitVars, djangoVars, syncVars, snapshot, statuses, objects, bounds>>

CleanObjects(t) ==
    /\ tasks[t].kind = "cleanup" /\ tasks[t].pc = "objects"
    /\ objects' = [f \in File |-> [c \in 1..MaxCommits |-> 0]]
    /\ Put(t, End(t))
    /\ UNCHANGED <<gitVars, djangoVars, syncVars, snapshot, statuses, rows, bounds, gaps>>

\* A step of the cleanup that fails is logged and the next one runs, but a time limit ends it.
CleanFails(t) ==
    /\ Trouble
    /\ tasks[t].kind = "cleanup"
    /\ tasks[t].pc # "done"
    /\ \/ tasks[t].pc = "queued" /\ Put(t, [tasks[t] EXCEPT !.pc = "objects"])
       \/ Put(t, End(t))
    /\ Note({"cleanup"})
    /\ UNCHANGED <<gitVars, djangoVars, syncVars, snapshot, statuses, rows, objects, patches>>

-----------------------------------------------------------------------------
(* consume_indexing_status *)

\* The row of ProcessedEvent and the update are one transaction, so a redelivered event
\* does nothing and the offset need not be modelled.
ApplyStatus ==
    /\ statuses # << >>
    /\ statuses' = Tail(statuses)
    /\ LET ev == Head(statuses)
       IN  connected' = [i \in Integration |-> Reported(connected[i], ev.status, ev.commit)]
    /\ UNCHANGED <<gitVars, removed, patching, clock, syncVars, snapshot, indexVars, bounds,
                   gaps>>

-----------------------------------------------------------------------------
TaskIds == 1..Len(tasks)
Work(t) ==
    \/ StartInitial(t) \/ Download(t) \/ StartIncremental(t) \/ GiveUp(t)
    \/ \E f \in File : Upload(t, f) \/ InsertRows(t, f) \/ DeleteRows(t, f)
    \/ Complete(t) \/ CleanRows(t) \/ CleanObjects(t)

IndexNext ==
    \/ \E i \in Integration :
          \/ Disconnect(i)
          \/ \E branch \in Branch : Connect(i, branch)
          \/ \E target \in Target : LoadPatch(i, target)
    \/ SavePatch \/ HandleEvent \/ HandleFails \/ DispatchInitial \/ DispatchFails
    \/ \E branch \in Branch, changes, gone \in SUBSET File, listed \in BOOLEAN :
          Push(branch, changes, gone, listed)
    \/ \E t \in TaskIds :
          \/ Work(t) \/ CleanFails(t) \/ FailInitial(t) \/ StopsUnreported(t) \/ LoseWorker(t)
          \/ \E f \in File : SkipFile(t, f)
    \/ ApplyStatus

\* There are at most MaxTasks tasks.
MaxTasks == MaxCommits + 2 * MaxConnects + MaxTrouble

IndexSpec == IndexInit /\ [][IndexNext]_indexCodeVars

-----------------------------------------------------------------------------
(* Rows, objects, tasks and cursors have the values the code gives them. *)
Row == [status : {"absent", "pending", "indexing", "indexed", "failed"}, commit : 0..MaxCommits,
        branch : Target]
IndexTypeOK ==
    /\ connected \in [Integration -> Row] /\ snapshot \in [Integration -> Row]
    /\ rows \in [File -> [commit : 0..MaxCommits, content : 0..MaxCommits]]
    /\ objects \in [File -> [1..MaxCommits -> 0..MaxCommits]]
    /\ Len(tasks) <= MaxTasks
    /\ \A t \in TaskIds : tasks[t].at \subseteq tasks[t].todo
    /\ gaps \subseteq Gap

AllDone == \A t \in TaskIds : tasks[t].pc = "done"
Drained == events = << >> /\ dispatch = Idle /\ AllDone

(* The rows of a file always point at an object that exists, unless tasks of the repository *)
(* overlapped: the upload precedes the rows, the cleanup deletes the rows first.              *)
RowsHaveObjects ==
    gaps \cap {"overlap", "cleanup"} = {} =>
        \A f \in File : rows[f] # NoRows => objects[f][rows[f].commit] # 0

(* The index can always be read: every row leads to code that is stored. *)
IndexReadable == IndexTypeOK /\ RowsHaveObjects

(* Between tasks the object is the file the rows were parsed from, unless a file was skipped *)
(* half way or a task ran after a later one.  (Not during a task: a retried first index       *)
(* stores a newer tarball under the same key.)                                                *)
ObjectsAreParsed ==
    AllDone /\ gaps \cap {"overlap", "cleanup", "skipped", "order"} = {} =>
        \A f \in File : rows[f] # NoRows => objects[f][rows[f].commit] = rows[f].content

(* With every task done, a connected repository is indexed as the branch its row names is,   *)
(* commit by commit and through retries and lost workers, unless one of the named gaps        *)
(* happened: tasks of one repository overlapped or ran out of order, a file was skipped or a  *)
(* task stopped, the first index was not dispatched, an event was lost by its handler or to   *)
(* its millisecond, a cleanup was late or failed, another branch was pushed to, a PATCH took  *)
(* last_indexed_commit back or named another branch or repository, which is not indexed anew. *)
BranchIsIndexed ==
    Drained /\ gaps \subseteq {"reconnect"} =>
        \A i \in Integration : connected[i].branch \in Branch =>
            \A f \in File : rows[f].content = trees[heads[connected[i].branch]][f]

(* What is indexed and what is stored are the branch's code. *)
IndexMatchesBranch == BranchIsIndexed /\ ObjectsAreParsed

(* Once both topics are drained Django shows the status and commit FastAPI recorded, unless *)
(* a PATCH wrote back the status it had loaded, an event was lost by its handler or to its   *)
(* millisecond, or the repository was connected again, when statuses of its former           *)
(* integration still count.                                                                  *)
StatusAgrees ==
    Drained /\ statuses = << >> /\ patches = 0 /\ gaps \cap {"lost", "tie", "reconnect"} = {}
    => connected = snapshot

(* No repository is left "indexing": whatever failed or was lost, once no task is left it is *)
(* indexed or failed, unless a PATCH wrote the old status back or a first index was ended    *)
(* without its report.                                                                       *)
NoneLeftIndexing ==
    Drained /\ patches = 0 /\ "unreported" \notin gaps =>
        \A i \in Integration : snapshot[i].status # "indexing"

(* The status a user sees settles: Django agrees with FastAPI, and on an outcome. *)
StatusSettles == StatusAgrees /\ NoneLeftIndexing

=============================================================================
