---------------------------- MODULE AlertDelivery ----------------------------
(***************************************************************************)
(* What run_agent sets going for an incident once its transaction is       *)
(* committed: the push event (services/incidents.py, the router and        *)
(* dispatch lambdas, django/apps/push), the pull request                   *)
(* (worker/tasks/github_pr.py) and the notifications                       *)
(* (worker/tasks/send_notification.py).  Celery delivers a task again when *)
(* its worker is lost, SQS a message whose handler failed or died, and SQS *)
(* may deliver a message twice.                                            *)
(*                                                                         *)
(* A device token is its generation: registering a device again replaces   *)
(* the token.  The branch of the pull request points at nothing (0), at    *)
(* the base (1) or at the commit of an execution.                          *)
(***************************************************************************)
EXTENDS Integers, FiniteSets

CONSTANTS Delivery,    \* NotificationDelivery rows of the incident
          Device,      \* devices of the tenant's engineers, admins and owners
          BatchSize,   \* entries of one send_message_batch (10 in the code)
          MaxRetries,  \* max_retries of both tasks (3 in the code)
          MaxTokens,   \* bound: tokens a device ever has
          MaxFaults    \* bound: lost workers, errors, duplicated messages, wipes and devices
                       \* that are removed

ASSUME DeliveryAssumption ==
    /\ IsFiniteSet(Delivery) /\ IsFiniteSet(Device)
    /\ BatchSize \in Nat \ {0} /\ MaxTokens \in Nat \ {0}
    /\ MaxRetries \in Nat /\ MaxFaults \in Nat

VARIABLES
    agent,     \* run_agent after its commit: the next dispatch, or "done"
    incident,  \* DB-2: the incident and its delivery rows exist
    status,    \* DB-2: NotificationDelivery.status
    notify,    \* Celery: the send_notification task of each delivery
    posts,     \* requests each channel accepted
    pr,        \* Celery: the create_github_pr task
    branch,    \* GitHub: the branch of the fix
    pull,      \* GitHub: the commit the pull request was opened with, 0 without one
    prFields,  \* DB-2: pr_status of the incident
    router,    \* the push event and its handler in the router lambda
    messages,  \* SQS: dispatch messages with their handlers
    tokens,    \* DynamoDB: the token of every device and whether it is active
    dead,      \* the provider: tokens that are no longer registered
    pushLog,   \* DynamoDB: status of the event for every device
    sends,     \* pushes the provider accepted
    faults,
    gaps       \* history: why an outcome may not be known

notifyVars == <<status, notify, posts>>
prVars     == <<pr, branch, pull, prFields>>
pushVars   == <<router, messages, tokens, dead, pushLog, sends>>
vars == <<agent, incident, notifyVars, prVars, pushVars, faults, gaps>>

NoTask == [pc |-> "none", retries |-> 0, outcome |-> "pending"]
Gap == {"lost post", "gave up", "lost pull", "lost push", "unqueued", "dispatch", "reregistered",
        "unregistered"}

Init ==
    /\ agent = "push" /\ incident = TRUE
    /\ status = [d \in Delivery |-> "pending"] /\ notify = [d \in Delivery |-> NoTask]
    /\ posts = [d \in Delivery |-> 0]
    /\ pr = [NoTask EXCEPT !.outcome = "none"] /\ branch = 0 /\ pull = 0 /\ prFields = "none"
    /\ router = [pc |-> "none", todo |-> {}] /\ messages = {}
    /\ tokens = [k \in Device |-> [active |-> TRUE, token |-> 1]]
    /\ dead = {} /\ pushLog = [k \in Device |-> "none"] /\ sends = [k \in Device |-> 0]
    /\ faults = 0 /\ gaps = {}

Fault == faults < MaxFaults /\ faults' = faults + 1
Note(reason) == gaps' = gaps \cup {reason}

-----------------------------------------------------------------------------
(* run_agent, after the commit: _publish_to_sqs, create_github_pr.delay, and one *)
(* send_notification.delay for every delivery.  Errors are logged.                *)

SendPush ==
    /\ agent = "push" /\ agent' = "pr"
    /\ router' = [router EXCEPT !.pc = "queued"]
    /\ UNCHANGED <<incident, notifyVars, prVars, messages, tokens, dead, pushLog, sends, faults, gaps>>

SendPullRequest ==
    /\ agent = "pr" /\ agent' = "notify"
    /\ pr' = [pr EXCEPT !.pc = "queued"]
    /\ UNCHANGED <<incident, notifyVars, branch, pull, prFields, pushVars, faults, gaps>>

SendNotifications ==
    /\ agent = "notify" /\ agent' = "done"
    /\ notify' = [d \in Delivery |-> [NoTask EXCEPT !.pc = "queued"]]
    /\ UNCHANGED <<incident, status, posts, prVars, pushVars, faults, gaps>>

\* The queue refuses, or the worker is lost: run_agent runs again, as another incident.
DispatchFails ==
    /\ Fault
    /\ agent # "done"
    /\ \E next \in {"done"} \cup (IF agent = "push" THEN {"pr"} ELSE {})
                            \cup (IF agent = "pr" THEN {"notify"} ELSE {}) : agent' = next
    /\ Note("dispatch")
    /\ UNCHANGED <<incident, notifyVars, prVars, pushVars>>

\* wipe_data: the incident goes with its rows.
Wipe ==
    /\ Fault
    /\ incident /\ incident' = FALSE
    /\ UNCHANGED <<agent, notifyVars, prVars, pushVars, gaps>>

-----------------------------------------------------------------------------
(* _execute_send_notification *)

Notify(d, from, to) ==
    /\ notify[d].pc = from
    /\ notify' = [notify EXCEPT ![d].pc = to]

\* A row that is gone or already has an outcome ends the task.
LoadDelivery(d) ==
    /\ Notify(d, "queued", IF incident /\ status[d] = "pending" THEN "post" ELSE "done")
    /\ UNCHANGED <<agent, incident, status, posts, prVars, pushVars, faults, gaps>>

\* A destination of no supported type, or without a safe address, is failed at once.
RefuseDelivery(d) ==
    /\ incident /\ status[d] = "pending"
    /\ Notify(d, "queued", "commit")
    /\ status' = [status EXCEPT ![d] = "failed"]
    /\ UNCHANGED <<agent, incident, posts, prVars, pushVars, faults, gaps>>

\* The request: answered, refused, or accepted with an answer that never came.
Post(d) ==
    /\ notify[d].pc = "post"
    /\ \E accepted, answered \in BOOLEAN :
          /\ posts' = IF accepted THEN [posts EXCEPT ![d] = @ + 1] ELSE posts
          /\ notify' = [notify EXCEPT ![d].pc = "commit", ![d].outcome =
                            IF accepted /\ answered THEN "delivered" ELSE "failed"]
          /\ IF accepted /\ answered THEN UNCHANGED faults ELSE Fault
    /\ UNCHANGED <<agent, incident, status, prVars, pushVars, gaps>>

SaveDelivery(d) ==
    /\ incident
    /\ Notify(d, "commit", "ack")
    /\ status' = IF notify[d].outcome = "pending" THEN status
                 ELSE [status EXCEPT ![d] = notify[d].outcome]
    /\ UNCHANGED <<agent, incident, posts, prVars, pushVars, faults, gaps>>

\* The session fails: the task is retried, until it gives up.  Deleted rows fail it as well.
RetryDelivery(d) ==
    /\ notify[d].pc \in {"queued", "commit"}
    /\ IF notify[d].pc = "commit" /\ ~incident THEN UNCHANGED faults ELSE Fault
    /\ gaps' = gaps \cup (IF notify[d].pc = "commit" THEN {"lost post"} ELSE {})
                    \cup (IF notify[d].retries = MaxRetries THEN {"gave up"} ELSE {})
    /\ notify' = [notify EXCEPT ![d] =
           IF @.retries = MaxRetries THEN [@ EXCEPT !.pc = "done"]
           ELSE [NoTask EXCEPT !.pc = "queued", !.retries = notify[d].retries + 1]]
    /\ UNCHANGED <<agent, incident, status, posts, prVars, pushVars>>

AckDelivery(d) ==
    /\ Notify(d, "ack", "done")
    /\ UNCHANGED <<agent, incident, status, posts, prVars, pushVars, faults, gaps>>

\* task_acks_late, task_reject_on_worker_lost: delivered again.
LoseNotifier(d) ==
    /\ Fault
    /\ notify[d].pc \in {"post", "commit", "ack"}
    /\ IF notify[d].pc = "commit" THEN Note("lost post") ELSE UNCHANGED gaps
    /\ notify' = [notify EXCEPT ![d].pc = "queued", ![d].outcome = "pending"]
    /\ UNCHANGED <<agent, incident, status, posts, prVars, pushVars>>

-----------------------------------------------------------------------------
(* _execute_create_github_pr *)

PrStep(from, to) == pr.pc = from /\ pr' = [pr EXCEPT !.pc = to]
Decide(outcome) == pr' = [pr EXCEPT !.pc = "save", !.outcome = outcome]

\* No file to patch, no place to patch in it; or a patched file that does not compile.
PatchFailure == {"no_patch", "syntax_error"}

\* The mapping, the integration, the token and the patches: without a repository the pull
\* request is skipped; patches that do not apply or do not compile end it.
Prepare ==
    /\ pr.pc = "queued"
    /\ \/ PrStep("queued", "branch")
       \/ \E outcome \in {"skipped", "failed"} \cup PatchFailure : Decide(outcome)
    /\ UNCHANGED <<agent, incident, notifyVars, branch, pull, prFields, pushVars, faults, gaps>>

\* The base of the default branch, and a branch at it; an answer 422, it exists, is fine.
CreateBranch ==
    /\ PrStep("branch", "update")
    /\ branch' = IF branch = 0 THEN 1 ELSE branch
    /\ UNCHANGED <<agent, incident, notifyVars, pull, prFields, pushVars, faults, gaps>>

\* A commit on the base, and the branch moved to it unless it is somewhere else already.
UpdateBranch ==
    /\ \/ branch = 1 /\ PrStep("update", "open") /\ branch' = 2
       \/ branch # 1 /\ pr.pc = "update" /\ Decide("failed") /\ UNCHANGED branch
    /\ UNCHANGED <<agent, incident, notifyVars, pull, prFields, pushVars, faults, gaps>>

\* GitHub refuses a second pull request for the branch.
OpenPullRequest ==
    /\ pr.pc = "open"
    /\ \/ pull = 0 /\ pull' = branch /\ \E draft \in {"open", "draft"} : Decide(draft)
       \/ pull # 0 /\ Decide("failed") /\ UNCHANGED pull
    /\ UNCHANGED <<agent, incident, notifyVars, branch, prFields, pushVars, faults, gaps>>

\* An answer of an error code ends the task.
PrError ==
    /\ Fault
    /\ pr.pc \in {"branch", "update", "open"}
    /\ Decide("failed")
    /\ UNCHANGED <<agent, incident, notifyVars, branch, pull, prFields, pushVars, gaps>>

\* Mutant: only a pull request that was opened is recorded.
SaveOpened ==
    /\ PrStep("save", "ack")
    /\ prFields' = IF incident /\ pr.outcome \in {"open", "draft"} THEN pr.outcome ELSE prFields
    /\ UNCHANGED <<agent, incident, notifyVars, branch, pull, pushVars, faults, gaps>>

\* _save_pr_fields: every column is written, whatever it held.
SavePrFields ==
    /\ PrStep("save", "ack")
    /\ prFields' = IF incident THEN pr.outcome ELSE prFields
    /\ UNCHANGED <<agent, incident, notifyVars, branch, pull, pushVars, faults, gaps>>

\* Its own errors are swallowed.
SaveFails ==
    /\ Fault
    /\ PrStep("save", "ack")
    /\ Note("lost pull")
    /\ UNCHANGED <<agent, incident, notifyVars, branch, pull, prFields, pushVars>>

AckPr ==
    /\ PrStep("ack", "done")
    /\ UNCHANGED <<agent, incident, notifyVars, branch, pull, prFields, pushVars, faults, gaps>>

\* A network error, with or without effect, is retried; the last one is recorded.
RetryPr ==
    /\ Fault
    /\ pr.pc \in {"branch", "update", "open"}
    /\ IF pr.retries = MaxRetries THEN Decide("failed")
       ELSE pr' = [pr EXCEPT !.pc = "queued", !.retries = @ + 1]
    /\ branch' \in {branch} \cup (IF pr.pc = "update" /\ branch = 1 THEN {2} ELSE {})
    /\ pull' \in {pull} \cup (IF pr.pc = "open" /\ pull = 0 THEN {branch} ELSE {})
    /\ IF branch' = 2 THEN Note("lost pull") ELSE UNCHANGED gaps
    /\ UNCHANGED <<agent, incident, notifyVars, prFields, pushVars>>

\* Any other exception ends the task and is not recorded, as retries are left.
PrCrash ==
    /\ Fault
    /\ PrStep("branch", "done") \/ PrStep("update", "done") \/ PrStep("open", "done")
    /\ Note("lost pull")
    /\ UNCHANGED <<agent, incident, notifyVars, branch, pull, prFields, pushVars>>

LosePrWorker ==
    /\ Fault
    /\ pr.pc \in {"branch", "update", "open", "save", "ack"}
    /\ pr' = [pr EXCEPT !.pc = "queued", !.outcome = "none"]
    /\ IF branch = 2 THEN Note("lost pull") ELSE UNCHANGED gaps
    /\ UNCHANGED <<agent, incident, notifyVars, branch, pull, prFields, pushVars>>

-----------------------------------------------------------------------------
(* DeviceTokenView *)

\* post: the item is put, with a token the provider has just issued.
Register(k) ==
    /\ tokens[k].token < MaxTokens
    /\ tokens' = [tokens EXCEPT ![k] = [active |-> TRUE, token |-> @.token + 1]]
    /\ IF <<k, tokens[k].token>> \in router.todo \/ \E m \in messages : m.device = k
       THEN Note("reregistered") ELSE UNCHANGED gaps
    /\ UNCHANGED <<agent, incident, notifyVars, prVars, router, messages, dead, pushLog, sends,
                   faults>>

\* delete: the item stays, inactive.
Unregister(k) ==
    /\ Fault
    /\ tokens[k].active
    /\ tokens' = [tokens EXCEPT ![k].active = FALSE]
    /\ Note("unregistered")
    /\ UNCHANGED <<agent, incident, notifyVars, prVars, router, messages, dead, pushLog, sends>>

\* The application is removed: the provider no longer knows the token.
Uninstall(k) ==
    /\ <<k, tokens[k].token>> \notin dead
    /\ Fault
    /\ dead' = dead \cup {<<k, tokens[k].token>>}
    /\ UNCHANGED <<agent, incident, notifyVars, prVars, router, messages, tokens, pushLog, sends,
                   gaps>>

-----------------------------------------------------------------------------
(* lambda-push-router *)

\* get_active_tokens_for_tenant
Route ==
    /\ router.pc = "queued"
    /\ LET active == {k \in Device : tokens[k].active}
       IN  router' = [pc |-> IF active = {} THEN "done" ELSE "running",
                      todo |-> {<<k, tokens[k].token>> : k \in active}]
    /\ UNCHANGED <<agent, incident, notifyVars, prVars, messages, tokens, dead, pushLog, sends,
                   faults, gaps>>

\* copy tells the messages of a repeated fan-out and duplicates from the first ones.
Message(target, copy) ==
    [device |-> target[1], token |-> target[2], copy |-> copy, pc |-> "queued", outcome |-> "none"]

\* One send_message_batch.  The entries that SQS refuses are in the Failed list of its answer,
\* which the router does not read.
SendBatch ==
    /\ router.pc = "running"
    /\ \E batch, queued \in SUBSET router.todo :
          /\ batch = router.todo \/ Cardinality(batch) = BatchSize
          /\ Cardinality(batch) <= BatchSize
          /\ queued \subseteq batch
          /\ messages' = messages \cup {Message(target, faults) : target \in queued}
          /\ IF queued = batch THEN UNCHANGED <<faults, gaps>> ELSE Fault /\ Note("unqueued")
          /\ router' = IF batch = router.todo THEN [pc |-> "done", todo |-> {}]
                       ELSE [router EXCEPT !.todo = @ \ batch]
    /\ UNCHANGED <<agent, incident, notifyVars, prVars, tokens, dead, pushLog, sends>>

\* An error between two batches: the push event is delivered again and fanned out anew.
RouterFails ==
    /\ Fault
    /\ router.pc = "running"
    /\ router' = [pc |-> "queued", todo |-> {}]
    /\ UNCHANGED <<agent, incident, notifyVars, prVars, messages, tokens, dead, pushLog, sends,
                   gaps>>

-----------------------------------------------------------------------------
(* lambda-push-dispatch *)

Move(m, new) == messages' = (messages \ {m}) \cup new
Handled(m, from, to) == m.pc = from /\ Move(m, {[m EXCEPT !.pc = to]})

\* Mutant: the reservation is never refused.
ReserveAlways(m) ==
    /\ Handled(m, "queued", "send")
    /\ pushLog' = [pushLog EXCEPT ![m.device] = "pending"]
    /\ UNCHANGED <<agent, incident, notifyVars, prVars, router, tokens, dead, sends, faults, gaps>>

\* check_and_reserve_delivery: one conditional write; a message whose reservation exists is
\* skipped.
Reserve(m) ==
    /\ m.pc = "queued"
    /\ IF pushLog[m.device] = "none"
       THEN /\ pushLog' = [pushLog EXCEPT ![m.device] = "pending"]
            /\ Handled(m, "queued", "send")
       ELSE Move(m, {}) /\ UNCHANGED pushLog
    /\ UNCHANGED <<agent, incident, notifyVars, prVars, router, tokens, dead, sends, faults, gaps>>

\* send_fcm: sent, the token is unknown, or it failed - perhaps after the provider took it.
SendFcm(m) ==
    /\ m.pc = "send"
    /\ IF <<m.device, m.token>> \in dead
       THEN Move(m, {[m EXCEPT !.pc = "finalize", !.outcome = "token_invalid"]})
            /\ UNCHANGED <<sends, faults>>
       ELSE \E accepted, answered \in BOOLEAN :
               /\ sends' = IF accepted THEN [sends EXCEPT ![m.device] = @ + 1] ELSE sends
               /\ Move(m, {[m EXCEPT !.pc = "finalize", !.outcome =
                               IF accepted /\ answered THEN "sent" ELSE "failed"]})
               /\ IF accepted /\ answered THEN UNCHANGED faults ELSE Fault
    /\ UNCHANGED <<agent, incident, notifyVars, prVars, router, tokens, dead, pushLog, gaps>>

\* Mutant: a token is dropped after any failure.
FinalizeDropsFailed(m) ==
    /\ m.pc = "finalize"
    /\ pushLog' = [pushLog EXCEPT ![m.device] = m.outcome]
    /\ Move(m, IF m.outcome = "sent" THEN {} ELSE {[m EXCEPT !.pc = "drop"]})
    /\ UNCHANGED <<agent, incident, notifyVars, prVars, router, tokens, dead, sends, faults, gaps>>

\* finalize_delivery; a failed push raises, so that its message is delivered again.
Finalize(m) ==
    /\ m.pc = "finalize"
    /\ pushLog' = [pushLog EXCEPT ![m.device] = m.outcome]
    /\ Move(m, CASE m.outcome = "token_invalid" -> {[m EXCEPT !.pc = "drop"]}
                 [] m.outcome = "failed" -> {[m EXCEPT !.pc = "queued", !.outcome = "none"]}
                 [] OTHER -> {})
    /\ UNCHANGED <<agent, incident, notifyVars, prVars, router, tokens, dead, sends, faults, gaps>>

\* mark_token_invalid: by the key of the device, whatever its token is now.
DropToken(m) ==
    /\ m.pc = "drop"
    /\ tokens' = [tokens EXCEPT ![m.device].active = FALSE]
    /\ Move(m, {})
    /\ UNCHANGED <<agent, incident, notifyVars, prVars, router, dead, pushLog, sends, faults, gaps>>

\* The lambda dies or a write fails: the message is delivered again.
LoseHandler(m) ==
    /\ Fault
    /\ m.pc \in {"send", "finalize", "drop"}
    /\ Move(m, {[m EXCEPT !.pc = "queued", !.outcome = "none"]})
    /\ Note("lost push")
    /\ UNCHANGED <<agent, incident, notifyVars, prVars, router, tokens, dead, pushLog, sends>>

\* SQS delivers a message twice.
Duplicate(m) ==
    /\ Fault
    /\ messages' = messages \cup {Message(<<m.device, m.token>>, faults + 1)}
    /\ UNCHANGED <<agent, incident, notifyVars, prVars, router, tokens, dead, pushLog, sends,
                   gaps>>

-----------------------------------------------------------------------------
NotifyNext ==
    \E d \in Delivery :
        \/ LoadDelivery(d) \/ RefuseDelivery(d) \/ Post(d) \/ SaveDelivery(d) \/ AckDelivery(d)
        \/ RetryDelivery(d) \/ LoseNotifier(d)
PrNext ==
    \/ Prepare \/ CreateBranch \/ UpdateBranch \/ OpenPullRequest \/ SavePrFields \/ AckPr
    \/ PrError \/ SaveFails \/ RetryPr \/ PrCrash \/ LosePrWorker
PushNext ==
    \/ \E k \in Device : Register(k) \/ Unregister(k) \/ Uninstall(k)
    \/ Route \/ SendBatch \/ RouterFails
    \/ \E m \in messages :
          \/ Reserve(m) \/ SendFcm(m) \/ Finalize(m) \/ DropToken(m)
          \/ LoseHandler(m) \/ Duplicate(m)
Next ==
    \/ SendPush \/ SendPullRequest \/ SendNotifications \/ DispatchFails \/ Wipe
    \/ NotifyNext \/ PrNext \/ PushNext

Spec == Init /\ [][Next]_vars

-----------------------------------------------------------------------------
(* Rows, items and tasks have the values the code gives them. *)
TypeOK ==
    /\ agent \in {"push", "pr", "notify", "done"}
    /\ status \in [Delivery -> {"pending", "delivered", "failed"}]
    /\ \A d \in Delivery : notify[d].retries <= MaxRetries /\ posts[d] <= 1 + MaxFaults
    /\ pr.retries <= MaxRetries /\ branch \in 0..2 /\ pull \in {0, 2}
    /\ prFields \in {"none", "open", "draft", "failed", "skipped", "no_patch", "syntax_error"}
    /\ pushLog \in [Device -> {"none", "pending", "sent", "token_invalid", "failed"}]
    /\ gaps \subseteq Gap

(* A channel gets the alert once, whatever is retried or delivered again, unless an execution *)
(* ended between the request and the commit of its outcome; and a delivery shown as delivered *)
(* reached its channel.                                                                       *)
PostedOnce ==
    \A d \in Delivery :
        /\ "lost post" \notin gaps => posts[d] <= 1
        /\ status[d] = "delivered" => posts[d] > 0

(* A delivery whose task is over shows an outcome, unless its incident is gone, or the task   *)
(* gave up.                                                                                   *)
DeliveryDecided ==
    \A d \in Delivery :
        notify[d].pc = "done" /\ incident /\ "gave up" \notin gaps
        => status[d] # "pending"

(* When the task is over, the incident shows a pull request exactly if one is open, and an    *)
(* outcome in any case, unless an execution ended between its push of the branch and its      *)
(* record - then the next one fails on the branch and hides the pull request - or ended with   *)
(* an exception nobody records.                                                                *)
PullRequestKnown ==
    pr.pc = "done" /\ incident /\ "lost pull" \notin gaps =>
        /\ prFields # "none"
        /\ prFields \in {"open", "draft"} <=> pull # 0

(* A device gets the push of an incident at most once, through duplicated messages, repeated  *)
(* fan-outs and lost handlers.                                                                *)
PushedOnce == \A k \in Device : sends[k] <= 1

(* Nobody is alerted twice. *)
AlertedOnce == TypeOK /\ PostedOnce /\ PushedOnce

(* With no message left, every device that was registered throughout has an outcome in the    *)
(* log, unless a handler was lost after its reservation or SQS refused a message, and a token  *)
(* the provider refused is no longer active.                                                  *)
PushAccounted ==
    router.pc = "done" /\ messages = {} /\ gaps \cap {"lost push", "unqueued", "unregistered"} = {} =>
        \A k \in Device :
            /\ pushLog[k] \notin {"none", "pending"}
            /\ pushLog[k] = "token_invalid" /\ tokens[k].token = 1 => ~tokens[k].active

(* Nothing that was to be sent is left without an outcome on the pages that show it. *)
OutcomesKnown == DeliveryDecided /\ PullRequestKnown /\ PushAccounted

(* A token the user did not remove is deactivated only when the provider refused it, unless   *)
(* the device was registered again while its message was on the way.                          *)
OnlyDeadTokensDropped ==
    gaps \cap {"reregistered", "unregistered"} = {} =>
        \A k \in Device : ~tokens[k].active => <<k, tokens[k].token>> \in dead
=============================================================================
