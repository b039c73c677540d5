------------------------ MODULE AlertDelivery_proofs ------------------------
(***************************************************************************)
(* Theorems about AlertDelivery, for every set of deliveries and devices   *)
(* and every value of the bounds: nobody is alerted twice, everything that *)
(* was to be sent shows an outcome, and only tokens the provider refused   *)
(* are dropped.                                                            *)
(*                                                                         *)
(* The three paths of an incident - notifications, pull request, push -    *)
(* share nothing but the incident, the count of faults and the history of  *)
(* gaps, so each has an invariant of its own: NotifierSound,               *)
(* PullRequestSound, and for the push ReservedOnce, EveryDeviceServed and  *)
(* TokensKnown.                                                            *)
(***************************************************************************)
EXTENDS AlertDelivery, TLAPS

NotifyTask == [pc : {"none", "queued", "post", "commit", "ack", "done"},
               retries : 0..MaxRetries, outcome : {"pending", "delivered", "failed"}]
PrOutcome == {"none", "open", "draft", "failed", "skipped", "no_patch", "syntax_error"}
PrTask == [pc : {"none", "queued", "branch", "update", "open", "save", "ack", "done"},
           retries : 0..MaxRetries, outcome : PrOutcome]
Router == [pc : {"none", "queued", "running", "done"},
           todo : SUBSET (Device \X (1..MaxTokens))]
PushMessage == [device : Device, token : 1..MaxTokens, copy : Nat,
                pc : {"queued", "send", "finalize", "drop"},
                outcome : {"none", "sent", "failed", "token_invalid"}]

NotifierTyped ==
    /\ status \in [Delivery -> {"pending", "delivered", "failed"}]
    /\ notify \in [Delivery -> NotifyTask]
    /\ posts \in [Delivery -> Nat]
PrTyped == pr \in PrTask /\ branch \in 0..2 /\ pull \in {0, 2} /\ prFields \in PrOutcome
PushTyped ==
    /\ router \in Router
    /\ messages \subseteq PushMessage
    /\ tokens \in [Device -> [active : BOOLEAN, token : 1..MaxTokens]]
    /\ pushLog \in [Device -> {"none", "pending", "sent", "token_invalid", "failed"}]
    /\ sends \in [Device -> Nat]
SharedTyped ==
    /\ agent \in {"push", "pr", "notify", "done"} /\ incident \in BOOLEAN
    /\ faults \in 0..MaxFaults /\ gaps \subseteq Gap
Typed == NotifierTyped /\ PrTyped /\ PushTyped /\ SharedTyped

\* The bounds are numbers.
LEMMA Bounds == MaxRetries \in Nat /\ MaxFaults \in Nat /\ MaxTokens \in Nat \ {0}
BY Zenon, DeliveryAssumption

\* Each of the three paths leaves the others alone.
LEMMA NotifyStays == NotifyNext => UNCHANGED <<agent, incident, prVars, pushVars>>
BY DEF NotifyNext, LoadDelivery, RefuseDelivery, Post, SaveDelivery, AckDelivery,
       RetryDelivery, LoseNotifier

\* Pull requests leave the notifications and the push alone.
LEMMA PrStays == PrNext => UNCHANGED <<agent, incident, notifyVars, pushVars>>
BY DEF PrNext, Prepare, CreateBranch, UpdateBranch, OpenPullRequest, SavePrFields, AckPr,
       PrError, SaveFails, RetryPr, PrCrash, LosePrWorker

\* The push leaves the notifications and the pull requests alone.
LEMMA PushStays == PushNext => UNCHANGED <<agent, incident, notifyVars, prVars>>
BY DEF PushNext, Register, Unregister, Uninstall, Route, SendBatch, RouterFails, Reserve,
       SendFcm, Finalize, DropToken, LoseHandler, Duplicate

\* What happened is never forgotten, and faults are counted up to their bound.
LEMMA HistoryGrows ==
    ASSUME SharedTyped, [Next]_vars
    PROVE  gaps \subseteq gaps' /\ gaps' \subseteq Gap /\ faults <= faults'
           /\ faults' \in 0..MaxFaults
<1>. USE Bounds
<1>1. /\ gaps \subseteq Gap
      /\ "lost post" \in Gap /\ "gave up" \in Gap /\ "lost pull" \in Gap /\ "lost push" \in Gap
      /\ "unqueued" \in Gap
      /\ "dispatch" \in Gap /\ "reregistered" \in Gap /\ "unregistered" \in Gap
  BY DEF SharedTyped, Gap
<1>2. gaps \subseteq gaps' /\ gaps' \subseteq Gap
  <2>1. ASSUME NEW r \in Gap, Note(r) \/ UNCHANGED gaps PROVE <1>2
    BY <1>1, <2>1 DEF Note
  <2>2. CASE NotifyNext
    BY <1>1, <2>1, <2>2 DEF NotifyNext, LoadDelivery, RefuseDelivery, Post, SaveDelivery,
       AckDelivery, RetryDelivery, LoseNotifier
  <2>3. CASE PrNext
    BY <1>1, <2>1, <2>3 DEF PrNext, Prepare, CreateBranch, UpdateBranch, OpenPullRequest,
       SavePrFields, AckPr, PrError, SaveFails, RetryPr, PrCrash, LosePrWorker
  <2>4. CASE PushNext
    BY <1>1, <2>1, <2>4 DEF PushNext, Register, Unregister, Uninstall, Route, SendBatch,
       RouterFails, Reserve, SendFcm, Finalize, DropToken, LoseHandler, Duplicate
  <2>. QED
    BY <1>1, <2>1, <2>2, <2>3, <2>4 DEF Next, SendPush, SendPullRequest, SendNotifications,
       DispatchFails, Wipe, vars
<1>3. faults' = faults \/ Fault
  <2>1. CASE NotifyNext
    BY <2>1 DEF NotifyNext, LoadDelivery, RefuseDelivery, Post, SaveDelivery, AckDelivery,
       RetryDelivery, LoseNotifier
  <2>2. CASE PrNext
    BY <2>2 DEF PrNext, Prepare, CreateBranch, UpdateBranch, OpenPullRequest, SavePrFields,
       AckPr, PrError, SaveFails, RetryPr, PrCrash, LosePrWorker
  <2>3. CASE PushNext
    BY <2>3 DEF PushNext, Register, Unregister, Uninstall, Route, SendBatch, RouterFails,
       Reserve, SendFcm, Finalize, DropToken, LoseHandler, Duplicate
  <2>. QED
    BY <2>1, <2>2, <2>3 DEF Next, SendPush, SendPullRequest, SendNotifications,
       DispatchFails, Wipe, vars
<1>4. faults <= faults' /\ faults' \in 0..MaxFaults
  BY <1>3 DEF Fault, SharedTyped
<1>. QED
  BY <1>2, <1>4

-----------------------------------------------------------------------------
(* Notifications *)

\* One step of the task of a delivery; the tasks of the others stay as they are.
OnlyMoves(d) ==
    /\ notify[d] \in NotifyTask /\ notify[d].pc # "none"
    /\ notify'[d] \in NotifyTask /\ notify'[d].pc # "none"
    /\ status'[d] \in {"pending", "delivered", "failed"} /\ posts'[d] \in Nat
    /\ \A e \in Delivery \ {d} :
           notify'[e] = notify[e] /\ status'[e] = status[e] /\ posts'[e] = posts[e]
    /\ NotifierTyped'

\* Every step of notify_webhook moves one delivery.
LEMMA NotifierStep ==
    ASSUME NotifierTyped, NEW d \in Delivery,
           \/ LoadDelivery(d) \/ RefuseDelivery(d) \/ Post(d) \/ SaveDelivery(d)
           \/ AckDelivery(d) \/ RetryDelivery(d) \/ LoseNotifier(d)
    PROVE  OnlyMoves(d)
<1>. USE Bounds
<1>1. /\ notify \in [Delivery -> NotifyTask] /\ notify[d] \in NotifyTask
      /\ status \in [Delivery -> {"pending", "delivered", "failed"}]
      /\ posts \in [Delivery -> Nat]
  BY DEF NotifierTyped
<1>2. ASSUME NEW task \in NotifyTask, notify' = [notify EXCEPT ![d] = task], task.pc # "none",
             notify[d].pc # "none",
             \/ UNCHANGED status
             \/ \E s \in {"pending", "delivered", "failed"} : status' = [status EXCEPT ![d] = s],
             UNCHANGED posts \/ posts' = [posts EXCEPT ![d] = posts[d] + 1]
      PROVE  OnlyMoves(d)
  <2>1. /\ notify' \in [Delivery -> NotifyTask] /\ notify'[d] = task
        /\ \A e \in Delivery \ {d} : notify'[e] = notify[e]
    BY <1>1, <1>2
  <2>2. /\ status' \in [Delivery -> {"pending", "delivered", "failed"}]
        /\ \A e \in Delivery \ {d} : status'[e] = status[e]
    BY <1>1, <1>2
  <2>3. /\ posts' \in [Delivery -> Nat]
        /\ \A e \in Delivery \ {d} : posts'[e] = posts[e]
    BY <1>1, <1>2
  <2>. QED
    BY <1>1, <1>2, <2>1, <2>2, <2>3 DEF OnlyMoves, NotifierTyped
<1>3. ASSUME NEW to \in {"queued", "post", "commit", "ack", "done"},
             NEW outcome \in {"pending", "delivered", "failed"},
             notify' = [notify EXCEPT ![d].pc = to, ![d].outcome = outcome]
      PROVE  \E task \in NotifyTask : notify' = [notify EXCEPT ![d] = task] /\ task.pc # "none"
  <2>. DEFINE task == [notify[d] EXCEPT !.pc = to, !.outcome = outcome]
  <2>1. task \in NotifyTask /\ task.pc # "none"
    BY <1>1 DEF NotifyTask
  <2>2. notify' = [notify EXCEPT ![d] = task]
    BY <1>1, <1>3
  <2>. QED
    BY <2>1, <2>2
<1>4. ASSUME NEW to \in {"queued", "post", "commit", "ack", "done"},
             notify' = [notify EXCEPT ![d].pc = to]
      PROVE  \E task \in NotifyTask : notify' = [notify EXCEPT ![d] = task] /\ task.pc # "none"
  <2>. DEFINE task == [notify[d] EXCEPT !.pc = to]
  <2>1. task \in NotifyTask /\ task.pc # "none"
    BY <1>1 DEF NotifyTask
  <2>2. notify' = [notify EXCEPT ![d] = task]
    BY <1>1, <1>4
  <2>. QED
    BY <2>1, <2>2
<1>5. CASE LoadDelivery(d) \/ AckDelivery(d) \/ RefuseDelivery(d)
  BY <1>2, <1>4, <1>5 DEF LoadDelivery, AckDelivery, RefuseDelivery, Notify
<1>6. CASE SaveDelivery(d)
  <2>1. notify[d].outcome \in {"pending", "delivered", "failed"}
    BY <1>1 DEF NotifyTask
  <2>. QED
    BY <1>2, <1>4, <1>6, <2>1 DEF SaveDelivery, Notify
<1>7. CASE Post(d)
  <2>1. PICK accepted \in BOOLEAN, answered \in BOOLEAN :
          /\ posts' = IF accepted THEN [posts EXCEPT ![d] = @ + 1] ELSE posts
          /\ notify' = [notify EXCEPT ![d].pc = "commit", ![d].outcome =
                            IF accepted /\ answered THEN "delivered" ELSE "failed"]
    BY <1>7 DEF Post
  <2>2. \E task \in NotifyTask : notify' = [notify EXCEPT ![d] = task] /\ task.pc # "none"
    <3>. DEFINE o == IF accepted /\ answered THEN "delivered" ELSE "failed"
    <3>1. o \in {"pending", "delivered", "failed"}
      OBVIOUS
    <3>2. notify' = [notify EXCEPT ![d].pc = "commit", ![d].outcome = o]
      BY <2>1
    <3>. HIDE DEF o
    <3>. QED
      BY <1>3, <3>1, <3>2
  <2>3. notify[d].pc # "none" /\ UNCHANGED status
    BY <1>7 DEF Post
  <2>4. UNCHANGED posts \/ posts' = [posts EXCEPT ![d] = posts[d] + 1]
    BY <2>1
  <2>. QED
    BY <1>2, <2>2, <2>3, <2>4
<1>8. CASE RetryDelivery(d)
  <2>. DEFINE task == IF notify[d].retries = MaxRetries THEN [notify[d] EXCEPT !.pc = "done"]
                      ELSE [NoTask EXCEPT !.pc = "queued", !.retries = notify[d].retries + 1]
  <2>1. notify' = [notify EXCEPT ![d] = task] /\ notify[d].pc # "none"
        /\ UNCHANGED <<status, posts>>
    BY <1>1, <1>8 DEF RetryDelivery
  <2>2. CASE notify[d].retries = MaxRetries
    <3>1. task = [notify[d] EXCEPT !.pc = "done"]
      BY <2>2
    <3>2. task \in NotifyTask /\ task.pc # "none"
      BY <1>1, <3>1 DEF NotifyTask
    <3>. HIDE DEF task
    <3>. QED
      BY <1>2, <2>1, <3>2
  <2>3. CASE notify[d].retries # MaxRetries
    <3>1. task = [pc |-> "queued", retries |-> notify[d].retries + 1, outcome |-> "pending"]
      BY <2>3 DEF NoTask
    <3>2. notify[d].retries + 1 \in 0..MaxRetries
      <4>1. notify[d].retries \in 0..MaxRetries
        BY <1>1 DEF NotifyTask
      <4>. QED
        BY <2>3, <4>1
    <3>3. task \in NotifyTask /\ task.pc # "none"
      BY <3>1, <3>2 DEF NotifyTask
    <3>. HIDE DEF task
    <3>. QED
      BY <1>2, <2>1, <3>3
  <2>. QED
    BY <2>2, <2>3
<1>9. CASE LoseNotifier(d)
  BY <1>2, <1>3, <1>9 DEF LoseNotifier
<1>. QED
  BY <1>5, <1>6, <1>7, <1>8, <1>9

\* The fault budget of a delivery: a task that may still post has been paid for.
Fresh(d) == notify[d].pc = "post" \/ (incident /\ notify[d].pc \in {"none", "queued"})

\* What a task knows agrees with what happened: before a request nothing was posted, unless
\* an outcome was lost; after it the outcome it holds or the row tells of it.
DeliverySound(d) ==
    /\ notify[d].pc \in {"queued", "post"} => notify[d].outcome = "pending"
    /\ posts[d] <= faults + 1
    /\ Fresh(d) => posts[d] <= faults
    /\ "lost post" \notin gaps =>
           /\ notify[d].pc \in {"none", "post"} => posts[d] = 0
           /\ notify[d].pc = "queued" /\ status[d] = "pending" => posts[d] = 0
           /\ posts[d] <= 1
    /\ status[d] = "delivered" \/ notify[d].outcome = "delivered" => posts[d] > 0
    /\ notify[d].pc = "commit" => notify[d].outcome # "pending" \/ status[d] # "pending"
    /\ notify[d].pc = "ack" => status[d] # "pending"
    /\ notify[d].pc = "done" /\ incident /\ "gave up" \notin gaps => status[d] # "pending"

NotifierSound ==
    /\ agent # "done" => notify = [d \in Delivery |-> NoTask]
    /\ \A d \in Delivery : DeliverySound(d)

LEMMA InitNotifierSound == Init => NotifierTyped /\ NotifierSound
BY Bounds DEF Init, NotifierTyped, NotifierSound, DeliverySound, Fresh, NotifyTask, NoTask

\* Whatever happens elsewhere - a fault, a gap, the wipe - leaves a delivery sound.
LEMMA SoundElsewhere ==
    ASSUME SharedTyped, NotifierTyped, NEW d \in Delivery, DeliverySound(d), [Next]_vars,
           notify'[d] = notify[d], status'[d] = status[d], posts'[d] = posts[d],
           incident' = incident \/ (incident' = FALSE /\ faults' = faults + 1)
    PROVE  DeliverySound(d)'
<1>1. /\ gaps \subseteq gaps' /\ faults <= faults'
      /\ faults \in Nat /\ faults' \in Nat /\ posts[d] \in Nat
  BY HistoryGrows, Bounds DEF SharedTyped, NotifierTyped
<1>2. posts'[d] <= faults' + 1 /\ (Fresh(d)' => posts'[d] <= faults')
  <2>1. posts[d] <= faults + 1
    BY DEF DeliverySound
  <2>2. CASE incident' = incident
    <3>1. Fresh(d)' => posts[d] <= faults
      BY <2>2 DEF DeliverySound, Fresh
    <3>. QED
      BY <1>1, <2>1, <3>1
  <2>3. CASE faults' = faults + 1
    BY <1>1, <2>1, <2>3
  <2>. QED
    BY <2>2, <2>3
<1>3. incident' => incident
  BY Zenon
<1>4. /\ "lost post" \notin gaps' => "lost post" \notin gaps
      /\ "gave up" \notin gaps' => "gave up" \notin gaps
  BY <1>1
<1>5. /\ notify'[d].pc \in {"queued", "post"} => notify'[d].outcome = "pending"
      /\ "lost post" \notin gaps' =>
             /\ notify'[d].pc \in {"none", "post"} => posts'[d] = 0
             /\ notify'[d].pc = "queued" /\ status'[d] = "pending" => posts'[d] = 0
             /\ posts'[d] <= 1
      /\ status'[d] = "delivered" \/ notify'[d].outcome = "delivered" => posts'[d] > 0
      /\ notify'[d].pc = "commit" => notify'[d].outcome # "pending" \/ status'[d] # "pending"
      /\ notify'[d].pc = "ack" => status'[d] # "pending"
      /\ notify'[d].pc = "done" /\ incident' /\ "gave up" \notin gaps' => status'[d] # "pending"
  BY <1>3, <1>4 DEF DeliverySound
<1>. QED
  BY <1>2, <1>5 DEF DeliverySound

\* One step of the task of d keeps d sound.
LEMMA SoundStep ==
    ASSUME SharedTyped, NotifierTyped, NEW d \in Delivery, DeliverySound(d),
           \/ LoadDelivery(d) \/ RefuseDelivery(d) \/ Post(d) \/ SaveDelivery(d)
           \/ AckDelivery(d) \/ RetryDelivery(d) \/ LoseNotifier(d)
    PROVE  DeliverySound(d)'
<1>1. /\ notify \in [Delivery -> NotifyTask] /\ notify[d] \in NotifyTask
      /\ status \in [Delivery -> {"pending", "delivered", "failed"}]
      /\ posts \in [Delivery -> Nat] /\ posts[d] \in Nat
      /\ notify'[d] \in NotifyTask /\ faults \in Nat /\ gaps \subseteq Gap
  BY NotifierStep, Bounds DEF NotifierTyped, SharedTyped, OnlyMoves
<1>2. DOMAIN notify[d] = {"pc", "retries", "outcome"}
  BY <1>1 DEF NotifyTask
<1>3. CASE LoadDelivery(d)
  <2>1. /\ notify[d].pc = "queued"
        /\ notify'[d].pc = IF incident /\ status[d] = "pending" THEN "post" ELSE "done"
        /\ notify'[d].outcome = notify[d].outcome
        /\ UNCHANGED <<incident, status, posts, faults, gaps>>
    BY <1>1, <1>2, <1>3 DEF LoadDelivery, Notify
  <2>. QED
    BY <1>1, <2>1 DEF DeliverySound, Fresh
<1>4. CASE RefuseDelivery(d)
  <2>1. /\ notify[d].pc = "queued" /\ incident /\ status[d] = "pending"
        /\ notify'[d].pc = "commit" /\ notify'[d].outcome = notify[d].outcome
        /\ status'[d] = "failed"
        /\ UNCHANGED <<incident, posts, faults, gaps>>
    BY <1>1, <1>2, <1>4 DEF RefuseDelivery, Notify
  <2>. QED
    BY <1>1, <2>1 DEF DeliverySound, Fresh
<1>5. CASE Post(d)
  <2>1. PICK accepted \in BOOLEAN, answered \in BOOLEAN :
          /\ posts' = IF accepted THEN [posts EXCEPT ![d] = @ + 1] ELSE posts
          /\ notify' = [notify EXCEPT ![d].pc = "commit", ![d].outcome =
                            IF accepted /\ answered THEN "delivered" ELSE "failed"]
          /\ IF accepted /\ answered THEN UNCHANGED faults ELSE Fault
    BY <1>5 DEF Post
  <2>2. /\ notify[d].pc = "post" /\ notify'[d].pc = "commit"
        /\ notify'[d].outcome \in {"delivered", "failed"}
        /\ notify'[d].outcome = "delivered" => posts'[d] = posts[d] + 1
        /\ posts'[d] \in {posts[d], posts[d] + 1}
        /\ UNCHANGED <<status, gaps>> /\ faults' \in {faults, faults + 1}
    BY <1>1, <1>2, <1>5, <2>1 DEF Post, Fault
  <2>3. /\ posts[d] <= faults
        /\ "lost post" \notin gaps => posts[d] = 0
        /\ status[d] = "delivered" => posts[d] > 0
    BY <2>2 DEF DeliverySound, Fresh
  <2>4. /\ posts[d] \in Nat /\ faults \in Nat
        /\ posts'[d] = posts[d] \/ posts'[d] = posts[d] + 1
        /\ faults' = faults \/ faults' = faults + 1
    BY <1>1, <2>2
  <2>5. /\ posts[d] <= faults => posts'[d] <= faults' + 1
        /\ posts[d] = 0 => posts'[d] <= 1
        /\ posts[d] > 0 => posts'[d] > 0
        /\ posts'[d] = posts[d] + 1 => posts'[d] > 0
    BY <2>4
  <2>6. "lost post" \notin gaps' => posts'[d] <= 1
    BY <2>2, <2>3, <2>5
  <2>7. status'[d] = "delivered" \/ notify'[d].outcome = "delivered" => posts'[d] > 0
    BY <2>2, <2>3, <2>5
  <2>8. ~Fresh(d)'
    BY <2>2 DEF Fresh
  <2>. QED
    BY <2>2, <2>3, <2>5, <2>6, <2>7, <2>8 DEF DeliverySound
<1>6. CASE SaveDelivery(d)
  <2>1. /\ notify[d].pc = "commit" /\ notify'[d].pc = "ack"
        /\ notify'[d].outcome = notify[d].outcome
        /\ status'[d] = IF notify[d].outcome = "pending" THEN status[d] ELSE notify[d].outcome
        /\ UNCHANGED <<incident, posts, faults, gaps>>
    BY <1>1, <1>2, <1>6 DEF SaveDelivery, Notify
  <2>. QED
    BY <1>1, <2>1 DEF DeliverySound, Fresh
<1>7. CASE AckDelivery(d)
  <2>1. /\ notify[d].pc = "ack" /\ notify'[d].pc = "done"
        /\ notify'[d].outcome = notify[d].outcome
        /\ UNCHANGED <<incident, status, posts, faults, gaps>>
    BY <1>1, <1>2, <1>7 DEF AckDelivery, Notify
  <2>. QED
    BY <1>1, <2>1 DEF DeliverySound, Fresh
<1>8. CASE RetryDelivery(d)
  <2>1. /\ notify[d].pc \in {"queued", "commit"} /\ UNCHANGED <<incident, status, posts>>
        /\ (notify[d].pc = "commit" /\ ~incident /\ UNCHANGED faults) \/ faults' = faults + 1
        /\ gaps \subseteq gaps' /\ (notify[d].pc = "commit" => "lost post" \in gaps')
    BY <1>8 DEF RetryDelivery, Fault
  <2>2. \/ notify'[d].pc = "done" /\ notify'[d].outcome = notify[d].outcome
           /\ "gave up" \in gaps'
        \/ notify'[d].pc = "queued" /\ notify'[d].outcome = "pending"
    <3>1. CASE notify[d].retries = MaxRetries
      <4>1. notify'[d] = [notify[d] EXCEPT !.pc = "done"]
        BY <1>1, <1>8, <3>1 DEF RetryDelivery
      <4>. QED
        BY <1>2, <1>8, <3>1, <4>1 DEF RetryDelivery
    <3>2. CASE notify[d].retries # MaxRetries
      <4>1. notify'[d] = [NoTask EXCEPT !.pc = "queued", !.retries = notify[d].retries + 1]
        BY <1>1, <1>8, <3>2 DEF RetryDelivery
      <4>. QED
        BY <4>1 DEF NoTask
    <3>. QED
      BY <3>1, <3>2
  <2>3. posts'[d] <= faults' + 1 /\ (Fresh(d)' => posts'[d] <= faults')
    <3>1. posts[d] <= faults + 1
      BY DEF DeliverySound
    <3>2. CASE faults' = faults + 1
      <4>1. posts'[d] <= faults' + 1 /\ posts'[d] <= faults'
        <5>1. posts[d] \in Nat /\ faults \in Nat /\ posts'[d] = posts[d]
          BY <1>1, <2>1
        <5>. QED
          BY <3>1, <3>2, <5>1
      <4>. QED
        BY <4>1
    <3>3. CASE ~incident /\ UNCHANGED faults
      <4>1. ~Fresh(d)'
        BY <2>1, <2>2, <3>3 DEF Fresh
      <4>. QED
        BY <2>1, <3>1, <3>3, <4>1
    <3>. QED
      BY <2>1, <3>2, <3>3
  <2>4. "lost post" \notin gaps' => "lost post" \notin gaps /\ notify[d].pc = "queued"
    BY <2>1
  <2>. QED
    BY <1>1, <2>1, <2>2, <2>3, <2>4 DEF DeliverySound
<1>9. CASE LoseNotifier(d)
  <2>1. /\ notify[d].pc \in {"post", "commit", "ack"} /\ UNCHANGED <<incident, status, posts>>
        /\ notify'[d].pc = "queued" /\ notify'[d].outcome = "pending"
        /\ faults' = faults + 1
        /\ gaps \subseteq gaps' /\ (notify[d].pc = "commit" => "lost post" \in gaps')
    BY <1>1, <1>2, <1>9 DEF LoseNotifier, Fault, Note
  <2>2. "lost post" \notin gaps' => "lost post" \notin gaps /\ notify[d].pc # "commit"
    BY <2>1
  <2>3. posts[d] <= faults + 1
    BY DEF DeliverySound
  <2>4. posts'[d] <= faults' + 1 /\ posts'[d] <= faults'
    <3>1. posts[d] \in Nat /\ faults \in Nat /\ posts'[d] = posts[d] /\ faults' = faults + 1
      BY <1>1, <2>1
    <3>. QED
      BY <2>3, <3>1
  <2>. QED
    BY <2>1, <2>2, <2>4 DEF DeliverySound
<1>. QED
  BY <1>3, <1>4, <1>5, <1>6, <1>7, <1>8, <1>9

LEMMA NextNotifierSound ==
    ASSUME SharedTyped, NotifierTyped, NotifierSound, [Next]_vars
    PROVE  NotifierTyped' /\ NotifierSound'
<1>1. CASE NotifyNext
  <2>1. PICK d \in Delivery :
            \/ LoadDelivery(d) \/ RefuseDelivery(d) \/ Post(d) \/ SaveDelivery(d)
            \/ AckDelivery(d) \/ RetryDelivery(d) \/ LoseNotifier(d)
    BY <1>1 DEF NotifyNext
  <2>2. OnlyMoves(d)
    BY <2>1, NotifierStep
  <2>3. UNCHANGED <<agent, incident>>
    BY <1>1, NotifyStays
  <2>4. agent = "done"
    BY <2>2 DEF OnlyMoves, NotifierSound, NoTask
  <2>5. DeliverySound(d)'
    BY <2>1, SoundStep DEF NotifierSound
  <2>6. ASSUME NEW e \in Delivery \ {d} PROVE DeliverySound(e)'
    BY <2>2, <2>3, SoundElsewhere DEF OnlyMoves, NotifierSound
  <2>. QED
    BY <2>2, <2>3, <2>4, <2>5, <2>6 DEF OnlyMoves, NotifierSound
<1>2. ASSUME UNCHANGED <<status, notify, posts>>, agent' # "done" => agent # "done",
             incident' = incident \/ (incident' = FALSE /\ faults' = faults + 1)
      PROVE  NotifierTyped' /\ NotifierSound'
  <2>1. \A d \in Delivery : DeliverySound(d)'
    BY <1>2, SoundElsewhere DEF NotifierSound
  <2>. QED
    BY <1>2, <2>1 DEF NotifierTyped, NotifierSound
<1>3. CASE PrNext
  BY <1>2, <1>3, PrStays DEF notifyVars
<1>4. CASE PushNext
  BY <1>2, <1>4, PushStays DEF notifyVars
<1>5. CASE SendPush \/ SendPullRequest \/ DispatchFails
  BY <1>2, <1>5 DEF SendPush, SendPullRequest, DispatchFails, notifyVars
<1>6. CASE Wipe
  BY <1>2, <1>6 DEF Wipe, Fault, notifyVars
<1>7. CASE SendNotifications
  <2>. DEFINE sent == [NoTask EXCEPT !.pc = "queued"]
  <2>1. /\ sent \in NotifyTask /\ sent.pc = "queued" /\ sent.outcome = "pending"
        /\ NoTask.pc = "none"
    BY Bounds DEF NoTask, NotifyTask
  <2>2. /\ \A d \in Delivery : notify[d] = NoTask /\ notify'[d] = sent
        /\ notify' = [d \in Delivery |-> sent] /\ agent' = "done"
        /\ UNCHANGED <<incident, status, posts, faults, gaps>>
    BY <1>7 DEF SendNotifications, NotifierSound
  <2>. HIDE DEF sent
  <2>3. NotifierTyped'
    BY <2>1, <2>2 DEF NotifierTyped
  <2>4. ASSUME NEW d \in Delivery PROVE DeliverySound(d)'
    BY <2>1, <2>2 DEF NotifierSound, DeliverySound, Fresh
  <2>. QED
    BY <2>2, <2>3, <2>4 DEF NotifierSound
<1>8. CASE UNCHANGED vars
  BY <1>2, <1>8 DEF vars, notifyVars
<1>. QED
  BY <1>1, <1>3, <1>4, <1>5, <1>6, <1>7, <1>8 DEF Next

-----------------------------------------------------------------------------
(* The pull request *)

\* A record that tells whether a pull request is open.
Shows(outcome) == outcome # "none" /\ (outcome \in {"open", "draft"} <=> pull # 0)

\* While no execution ended between its push of the branch and its record: the branch is
\* free until the task moves it, the pull request is opened once, and the outcome the task
\* holds, then the incident, tells of it.
PrAgrees ==
    /\ pr.pc \in {"none", "queued", "branch"} => branch # 2
    /\ pr.pc = "update" => branch = 1
    /\ pr.pc = "open" => branch = 2 /\ pull = 0
    /\ pr.pc = "save" => Shows(pr.outcome)
    /\ pr.pc \in {"ack", "done"} /\ incident => Shows(prFields)

PullRequestSound ==
    /\ agent \in {"push", "pr"} => pr.pc = "none"
    /\ pull # 0 => branch = 2
    /\ pr.pc = "open" => branch = 2
    /\ "lost pull" \notin gaps => PrAgrees

LEMMA InitPullRequestSound == Init => PrTyped /\ PullRequestSound
BY Bounds DEF Init, PrTyped, PrTask, PrOutcome, PullRequestSound, PrAgrees, NoTask

\* A step of the task: where it goes and what it decides.
LEMMA PrMoves ==
    ASSUME PrTyped, NEW to \in {"queued", "branch", "update", "open", "save", "ack", "done"}
    PROVE  /\ pr' = [pr EXCEPT !.pc = to] =>
                  pr' \in PrTask /\ pr'.pc = to /\ pr'.outcome = pr.outcome
           /\ \A o \in PrOutcome : pr' = [pr EXCEPT !.pc = to, !.outcome = o] =>
                  pr' \in PrTask /\ pr'.pc = to /\ pr'.outcome = o
BY DEF PrTyped, PrTask

\* create_pr is retried from the start.
LEMMA PrMovesAgain ==
    ASSUME PrTyped, pr.retries # MaxRetries, pr' = [pr EXCEPT !.pc = "queued", !.retries = @ + 1]
    PROVE  pr' \in PrTask /\ pr'.pc = "queued" /\ pr'.outcome = pr.outcome
<1>1. pr.retries + 1 \in 0..MaxRetries
  BY Bounds DEF PrTyped, PrTask
<1>2. pr' = [pr EXCEPT !.pc = "queued", !.retries = pr.retries + 1]
  OBVIOUS
<1>. QED
  BY <1>1, <1>2 DEF PrTyped, PrTask

LEMMA NextPullRequestSound ==
    ASSUME SharedTyped, PrTyped, PullRequestSound, [Next]_vars
    PROVE  PrTyped' /\ PullRequestSound'
<1>1. pr \in PrTask /\ pr.outcome \in PrOutcome /\ prFields \in PrOutcome
  BY DEF PrTyped, PrTask
<1>12. /\ branch \in {0, 1, 2} /\ (pull = 0 \/ pull = 2) /\ (pull # 0 => branch = 2)
       /\ pr.pc = "open" => branch = 2
  <2>1. branch \in 0..2 => branch \in {0, 1, 2}
    OBVIOUS
  <2>. QED
    BY <2>1 DEF PrTyped, PullRequestSound
<1>13. /\ "none" \in PrOutcome /\ "failed" \in PrOutcome /\ "skipped" \in PrOutcome
       /\ "no_patch" \in PrOutcome /\ "syntax_error" \in PrOutcome
       /\ "open" \in PrOutcome /\ "draft" \in PrOutcome
  BY DEF PrOutcome
<1>11. "lost pull" \notin gaps' =>
          /\ pr.pc \in {"none", "queued", "branch"} => branch # 2
          /\ pr.pc = "update" => branch = 1
          /\ pr.pc = "open" => branch = 2 /\ pull = 0
          /\ pr.pc = "save" => Shows(pr.outcome)
          /\ pr.pc \in {"ack", "done"} /\ incident => Shows(prFields)
  BY HistoryGrows DEF PullRequestSound, PrAgrees
\* Steps of the task; none is taken before the task was sent.
<1>2. ASSUME PrNext, agent' = agent, incident' = incident,
             pr' \in PrTask, prFields' \in PrOutcome,
             branch' \in {0, 1, 2}, pull' = 0 \/ pull' = 2,
             pr.pc # "none",
             pull' # 0 => branch' = 2, pr'.pc = "open" => branch' = 2,
             "lost pull" \notin gaps' => PrAgrees'
      PROVE  PrTyped' /\ PullRequestSound'
  <2>1. branch' \in 0..2
    <3>1. branch' \in {0, 1, 2}
      BY <1>2
    <3>. QED
      BY <3>1
  <2>4. pull' \in {0, 2}
    BY <1>2
  <2>2. PrTyped'
    BY <1>2, <2>1, <2>4 DEF PrTyped
  <2>3. agent' \in {"push", "pr"} => pr'.pc = "none"
    BY <1>2 DEF PullRequestSound
  <2>. QED
    BY Zenon, <1>2, <2>2, <2>3 DEF PullRequestSound
<1>3. CASE PrNext
  <2>1. agent' = agent /\ incident' = incident
    BY <1>3, PrStays
  <2>2. CASE Prepare
    <3>1. \/ pr'.pc = "branch" /\ pr' \in PrTask
          \/ /\ pr'.pc = "save" /\ pr' \in PrTask
             /\ pr'.outcome \notin {"none", "open", "draft"}
      BY <2>2, <1>13, PrMoves DEF Prepare, PrStep, Decide, PatchFailure
    <3>2. pr.pc = "queued" /\ UNCHANGED <<branch, pull, prFields, gaps>>
      BY <2>2 DEF Prepare
    <3>3. /\ branch' \in {0, 1, 2} /\ (pull' = 0 \/ pull' = 2) /\ (pull' # 0 => branch' = 2)
          /\ pr'.pc = "open" => branch' = 2
      BY <1>12, <3>1, <3>2
    <3>4. "lost pull" \notin gaps' => PrAgrees'
      BY <1>11, <1>12, <2>1, <3>1, <3>2 DEF PrAgrees, Shows
    <3>. QED
      BY <1>1, <1>2, <1>3, <2>1, <3>1, <3>2, <3>3, <3>4
  <2>3. CASE CreateBranch
    <3>1. /\ pr.pc = "branch" /\ pr'.pc = "update" /\ pr' \in PrTask
          /\ branch' = (IF branch = 0 THEN 1 ELSE branch)
          /\ UNCHANGED <<pull, prFields, gaps>>
      BY <2>3, <1>13, PrMoves DEF CreateBranch, PrStep
    <3>2. /\ branch' \in {0, 1, 2} /\ (pull' = 0 \/ pull' = 2) /\ (pull' # 0 => branch' = 2)
          /\ pr'.pc = "open" => branch' = 2
      BY <1>12, <3>1
    <3>3. "lost pull" \notin gaps' => PrAgrees'
      BY <1>11, <1>12, <2>1, <3>1 DEF PrAgrees, Shows
    <3>. QED
      BY <1>1, <1>2, <1>3, <2>1, <3>1, <3>2, <3>3
  <2>4. CASE UpdateBranch
    <3>1. /\ pr.pc = "update" /\ pr' \in PrTask /\ UNCHANGED <<pull, prFields, gaps>>
          /\ \/ branch = 1 /\ pr'.pc = "open" /\ branch' = 2
             \/ /\ branch # 1 /\ pr'.pc = "save" /\ pr'.outcome = "failed"
                /\ UNCHANGED branch
      BY <2>4, <1>13, PrMoves DEF UpdateBranch, PrStep, Decide
    <3>2. /\ branch' \in {0, 1, 2} /\ (pull' = 0 \/ pull' = 2) /\ (pull' # 0 => branch' = 2)
          /\ pr'.pc = "open" => branch' = 2
      BY <1>12, <3>1
    <3>3. ASSUME "lost pull" \notin gaps' PROVE PrAgrees'
      <4>1. branch = 1
        BY <1>11, <3>1, <3>3
      <4>2. pull = 0
        BY <1>12, <4>1
      <4>3. pr'.pc = "open" /\ branch' = 2 /\ pull' = 0
        BY <3>1, <4>1, <4>2
      <4>. QED
        BY <4>3 DEF PrAgrees
    <3>. QED
      BY <1>1, <1>2, <1>3, <2>1, <3>1, <3>2, <3>3
  <2>5. CASE OpenPullRequest
    <3>1. /\ pr.pc = "open" /\ pr' \in PrTask /\ pr'.pc = "save"
          /\ UNCHANGED <<branch, prFields, gaps>>
          /\ \/ pull = 0 /\ pull' = branch /\ pr'.outcome \in {"open", "draft"}
             \/ pull # 0 /\ UNCHANGED pull /\ pr'.outcome = "failed"
      BY <2>5, <1>13, PrMoves DEF OpenPullRequest, Decide
    <3>2. /\ branch' \in {0, 1, 2} /\ (pull' = 0 \/ pull' = 2) /\ (pull' # 0 => branch' = 2)
          /\ pr'.pc = "open" => branch' = 2
      BY <1>12, <3>1
    <3>3. ASSUME "lost pull" \notin gaps' PROVE Shows(pr.outcome)'
      <4>1. pull = 0 /\ branch = 2
        BY <1>11, <3>1, <3>3
      <4>2. pull' = 2 /\ pr'.outcome \in {"open", "draft"}
        BY <3>1, <4>1
      <4>. QED
        BY <4>2 DEF Shows
    <3>4. ASSUME "lost pull" \notin gaps' PROVE PrAgrees'
      BY <3>1, <3>3, <3>4 DEF PrAgrees
    <3>. QED
      BY <1>1, <1>2, <1>3, <2>1, <3>1, <3>2, <3>4
  <2>6. CASE SavePrFields
    <3>1. /\ pr.pc = "save" /\ pr' \in PrTask /\ pr'.pc = "ack"
          /\ UNCHANGED <<branch, pull, gaps>>
          /\ prFields' = IF incident THEN pr.outcome ELSE prFields
      BY <2>6, <1>13, PrMoves DEF SavePrFields, PrStep
    <3>2. /\ branch' \in {0, 1, 2} /\ (pull' = 0 \/ pull' = 2) /\ (pull' # 0 => branch' = 2)
          /\ pr'.pc = "open" => branch' = 2
      BY <1>12, <3>1
    <3>3. "lost pull" \notin gaps' => PrAgrees'
      BY <1>11, <1>12, <2>1, <3>1 DEF PrAgrees, Shows
    <3>. QED
      BY <1>1, <1>2, <1>3, <2>1, <3>1, <3>2, <3>3
  <2>7. CASE AckPr
    <3>1. /\ pr.pc = "ack" /\ pr' \in PrTask /\ pr'.pc = "done"
          /\ UNCHANGED <<branch, pull, prFields, gaps>>
      BY <2>7, <1>13, PrMoves DEF AckPr, PrStep
    <3>2. /\ branch' \in {0, 1, 2} /\ (pull' = 0 \/ pull' = 2) /\ (pull' # 0 => branch' = 2)
          /\ pr'.pc = "open" => branch' = 2
      BY <1>12, <3>1
    <3>3. "lost pull" \notin gaps' => PrAgrees'
      BY <1>11, <1>12, <2>1, <3>1 DEF PrAgrees, Shows
    <3>. QED
      BY <1>1, <1>2, <1>3, <2>1, <3>1, <3>2, <3>3
  <2>8. CASE PrError
    <3>1. /\ pr.pc \in {"branch", "update", "open"} /\ pr' \in PrTask /\ pr'.pc = "save"
          /\ pr'.outcome = "failed"
          /\ UNCHANGED <<branch, pull, prFields, gaps>>
      BY <2>8, <1>13, PrMoves DEF PrError, Decide
    <3>2. /\ branch' \in {0, 1, 2} /\ (pull' = 0 \/ pull' = 2) /\ (pull' # 0 => branch' = 2)
          /\ pr'.pc = "open" => branch' = 2
      BY <1>12, <3>1
    <3>3. ASSUME "lost pull" \notin gaps' PROVE PrAgrees'
      <4>2. branch # 2 \/ pull = 0
        <5>1. CASE pr.pc = "branch"
          BY <1>11, <3>3, <5>1
        <5>2. CASE pr.pc = "update"
          <6>1. branch = 1
            BY <1>11, <3>3, <5>2
          <6>. QED
            BY <6>1
        <5>3. CASE pr.pc = "open"
          BY <1>11, <3>3, <5>3
        <5>. QED
          BY <3>1, <5>1, <5>2, <5>3
      <4>3. pull = 0
        BY <1>12, <4>2
      <4>1. pull' = 0
        BY <3>1, <4>3
      <4>. QED
        BY <3>1, <4>1 DEF PrAgrees, Shows
    <3>. QED
      BY <1>1, <1>2, <1>3, <2>1, <3>1, <3>2, <3>3
  <2>9. CASE SaveFails \/ PrCrash
    <3>1. /\ pr.pc # "none" /\ pr' \in PrTask
          /\ UNCHANGED <<branch, pull, prFields>> /\ "lost pull" \in gaps' /\ pr'.pc # "open"
      BY <2>9, <1>13, PrMoves DEF SaveFails, PrCrash, PrStep, Note
    <3>2. "lost pull" \notin gaps' => PrAgrees'
      BY <1>11, <3>1 DEF PrAgrees
    <3>. QED
      BY <1>1, <1>2, <1>3, <1>12, <2>1, <3>1, <3>2
  <2>10. CASE RetryPr
    <3>1. /\ pr.pc \in {"branch", "update", "open"} /\ UNCHANGED prFields
          /\ branch' \in {branch} \cup (IF pr.pc = "update" /\ branch = 1 THEN {2} ELSE {})
          /\ pull' \in {pull} \cup (IF pr.pc = "open" /\ pull = 0 THEN {branch} ELSE {})
          /\ IF branch' = 2 THEN Note("lost pull") ELSE UNCHANGED gaps
      BY <2>10 DEF RetryPr
    <3>2. pr' \in PrTask /\ (pr'.pc = "queued" \/ (pr'.pc = "save" /\ pr'.outcome = "failed"))
      <4>1. CASE pr.retries = MaxRetries
        BY <2>10, <4>1, <1>13, PrMoves DEF RetryPr, Decide
      <4>2. CASE pr.retries # MaxRetries
        BY <2>10, <4>2, PrMovesAgain DEF RetryPr
      <4>. QED
        BY <4>1, <4>2
    <3>6. branch' = branch \/ (pr.pc = "update" /\ branch' = 2)
      BY <3>1
    <3>7. pull' = pull \/ (pr.pc = "open" /\ pull' = branch)
      BY <3>1
    <3>8. pr.pc = "open" => branch = 2 /\ branch' = 2
      BY <1>12, <3>6
    <3>9. pull' = pull \/ (pull' = 2 /\ branch' = 2)
      BY <3>7, <3>8
    <3>3. /\ branch' \in {0, 1, 2} /\ (pull' = 0 \/ pull' = 2) /\ (pull' # 0 => branch' = 2)
          /\ pr'.pc = "open" => branch' = 2
      BY <1>12, <3>2, <3>6, <3>9
    <3>4. "lost pull" \notin gaps' => branch' # 2 /\ pull' = 0
      BY <3>1, <3>3 DEF Note
    <3>5. "lost pull" \notin gaps' => PrAgrees'
      BY <3>2, <3>4 DEF PrAgrees, Shows
    <3>. QED
      BY <1>1, <1>2, <1>3, <2>1, <3>1, <3>2, <3>3, <3>5
  <2>11. CASE LosePrWorker
    <3>1. /\ pr.pc # "none" /\ pr' \in PrTask /\ pr'.pc = "queued"
          /\ UNCHANGED <<branch, pull, prFields>>
          /\ branch = 2 => "lost pull" \in gaps'
      BY <2>11, <1>13, PrMoves DEF LosePrWorker, Note
    <3>2. "lost pull" \notin gaps' => PrAgrees'
      BY <1>11, <3>1 DEF PrAgrees
    <3>. QED
      BY <1>1, <1>2, <1>3, <1>12, <2>1, <3>1, <3>2
  <2>. QED
    BY <1>3, <2>2, <2>3, <2>4, <2>5, <2>6, <2>7, <2>8, <2>9, <2>10, <2>11 DEF PrNext
<1>4. ASSUME UNCHANGED <<pr, branch, pull, prFields>>,
             agent' \in {"push", "pr"} => agent \in {"push", "pr"},
             incident' => incident
      PROVE  PrTyped' /\ PullRequestSound'
  <2>1. "lost pull" \notin gaps' => PrAgrees'
    BY <1>4, <1>11 DEF PrAgrees, Shows
  <2>. QED
    BY <1>4, <2>1 DEF PrTyped, PullRequestSound
<1>5. CASE NotifyNext
  BY <1>4, <1>5, NotifyStays DEF prVars
<1>6. CASE PushNext
  BY <1>4, <1>6, PushStays DEF prVars
<1>7. CASE SendPush \/ SendNotifications \/ DispatchFails
  BY <1>4, <1>7 DEF SendPush, SendNotifications, DispatchFails, prVars
<1>8. CASE Wipe
  BY <1>4, <1>8 DEF Wipe, prVars
<1>9. CASE SendPullRequest
  <2>1. /\ pr.pc = "none" /\ agent' = "notify" /\ UNCHANGED <<branch, pull, prFields, gaps>>
        /\ pr' \in PrTask /\ pr'.pc = "queued"
    BY <1>9, <1>13, PrMoves DEF SendPullRequest, PullRequestSound
  <2>. QED
    BY <1>1, <2>1 DEF PrTyped, PullRequestSound, PrAgrees
<1>10. CASE UNCHANGED vars
  BY <1>4, <1>10 DEF vars, prVars
<1>. QED
  BY <1>3, <1>5, <1>6, <1>7, <1>8, <1>9, <1>10 DEF Next

-----------------------------------------------------------------------------
(* Pushes *)

\* What a handler does with its message: it moves it on, or deletes it.
Becomes(m, n) ==
    /\ messages' = (messages \ {m}) \cup {n}
    /\ n \in PushMessage /\ n.device = m.device /\ n.token = m.token
Leaves(m) == messages' = messages \ {m}
Logs(k, entry) ==
    /\ pushLog'[k] = entry
    /\ \A j \in Device \ {k} : pushLog'[j] = pushLog[j]

\* A message that moves on keeps its device and token.
LEMMA MessageMoves ==
    ASSUME NEW m \in PushMessage, NEW to \in {"queued", "send", "finalize", "drop"}
    PROVE  /\ [m EXCEPT !.pc = to] \in PushMessage
           /\ [m EXCEPT !.pc = to].device = m.device /\ [m EXCEPT !.pc = to].token = m.token
           /\ [m EXCEPT !.pc = to].pc = to /\ [m EXCEPT !.pc = to].outcome = m.outcome
BY DEF PushMessage

\* The write of a reservation, or of an outcome.
LEMMA LogWritten ==
    ASSUME PushTyped, NEW k \in Device,
           NEW entry \in {"none", "pending", "sent", "token_invalid", "failed"},
           pushLog' = [pushLog EXCEPT ![k] = entry]
    PROVE  Logs(k, entry)
           /\ pushLog' \in [Device -> {"none", "pending", "sent", "token_invalid", "failed"}]
BY DEF PushTyped, Logs

\* A reservation is made once; a message that comes later is deleted.
LEMMA ReserveStep ==
    ASSUME PushTyped, NEW m \in messages, Reserve(m)
    PROVE  /\ m.pc = "queued" /\ UNCHANGED <<router, tokens, dead, sends, gaps>>
           /\ \/ /\ pushLog[m.device] = "none" /\ Logs(m.device, "pending")
                 /\ \E n : Becomes(m, n) /\ n.pc = "send" /\ n.outcome = m.outcome
              \/ pushLog[m.device] # "none" /\ Leaves(m) /\ UNCHANGED pushLog
           /\ PushTyped'
<1>. DEFINE n == [m EXCEPT !.pc = "send"]
<1>1. m \in PushMessage /\ m.device \in Device
  BY DEF PushTyped, PushMessage
<1>2. /\ m.pc = "queued" /\ UNCHANGED <<router, tokens, dead, sends, gaps>>
      /\ \/ /\ pushLog[m.device] = "none"
            /\ pushLog' = [pushLog EXCEPT ![m.device] = "pending"]
            /\ messages' = (messages \ {m}) \cup {n}
         \/ pushLog[m.device] # "none" /\ Leaves(m) /\ UNCHANGED pushLog
  BY DEF Reserve, Handled, Move, Leaves
<1>3. n \in PushMessage /\ n.device = m.device /\ n.token = m.token /\ n.pc = "send"
      /\ n.outcome = m.outcome
  BY <1>1, MessageMoves
<1>. HIDE DEF n
<1>4. CASE /\ pushLog[m.device] = "none"
           /\ pushLog' = [pushLog EXCEPT ![m.device] = "pending"]
           /\ messages' = (messages \ {m}) \cup {n}
  <2>1. Becomes(m, n)
    BY <1>3, <1>4 DEF Becomes
  <2>2. Logs(m.device, "pending")
        /\ pushLog' \in [Device -> {"none", "pending", "sent", "token_invalid", "failed"}]
    BY <1>1, <1>4, LogWritten
  <2>3. messages' \subseteq PushMessage
    BY <1>3, <1>4 DEF PushTyped
  <2>. QED
    BY <1>2, <1>3, <1>4, <2>1, <2>2, <2>3 DEF PushTyped
<1>5. CASE pushLog[m.device] # "none" /\ Leaves(m) /\ UNCHANGED pushLog
  <2>1. messages' \subseteq PushMessage
    BY <1>5 DEF PushTyped, Leaves
  <2>. QED
    BY <1>2, <1>5, <2>1 DEF PushTyped
<1>. QED
  BY <1>2, <1>4, <1>5

\* The provider takes a push once, from the handler that holds the reservation.
LEMMA SendFcmStep ==
    ASSUME PushTyped, NEW m \in messages, SendFcm(m)
    PROVE  /\ m.pc = "send" /\ UNCHANGED <<router, tokens, dead, pushLog, gaps>>
           /\ \E n : /\ Becomes(m, n) /\ n.pc = "finalize" /\ n.outcome # "none"
                     /\ n.outcome = "token_invalid" => <<m.device, m.token>> \in dead
           /\ UNCHANGED sends \/ sends' = [sends EXCEPT ![m.device] = sends[m.device] + 1]
           /\ PushTyped'
<1>1. m \in PushMessage /\ m.device \in Device
  BY DEF PushTyped, PushMessage
<1>2. /\ m.pc = "send" /\ UNCHANGED <<router, tokens, dead, pushLog, gaps>>
      /\ \E o \in {"sent", "failed", "token_invalid"} :
            /\ messages' = (messages \ {m}) \cup {[m EXCEPT !.pc = "finalize", !.outcome = o]}
            /\ o = "token_invalid" => <<m.device, m.token>> \in dead
      /\ UNCHANGED sends \/ sends' = [sends EXCEPT ![m.device] = sends[m.device] + 1]
  BY DEF SendFcm, Move
<1>3. PICK o \in {"sent", "failed", "token_invalid"} :
            /\ messages' = (messages \ {m}) \cup {[m EXCEPT !.pc = "finalize", !.outcome = o]}
            /\ o = "token_invalid" => <<m.device, m.token>> \in dead
  BY <1>2
<1>. DEFINE n == [m EXCEPT !.pc = "finalize", !.outcome = o]
<1>4. n \in PushMessage /\ n.device = m.device /\ n.token = m.token
      /\ n.pc = "finalize" /\ n.outcome = o
  BY <1>1 DEF PushMessage
<1>8. messages' = (messages \ {m}) \cup {n}
  BY <1>3
<1>. HIDE DEF n
<1>5. Becomes(m, n) /\ messages' \subseteq PushMessage
  BY <1>8, <1>4 DEF Becomes, PushTyped
<1>6. sends' \in [Device -> Nat]
  <2>1. sends \in [Device -> Nat] /\ sends[m.device] + 1 \in Nat
    BY <1>1 DEF PushTyped
  <2>. QED
    BY <1>2, <2>1
<1>7. PushTyped'
  BY <1>2, <1>5, <1>6 DEF PushTyped
<1>. QED
  BY <1>2, <1>3, <1>4, <1>5, <1>7

\* An outcome is logged; the message stays with a refused token, and comes again after a failure.
LEMMA FinalizeStep ==
    ASSUME PushTyped, NEW m \in messages, Finalize(m)
    PROVE  /\ m.pc = "finalize" /\ UNCHANGED <<router, tokens, dead, sends, gaps>>
           /\ Logs(m.device, m.outcome)
           /\ \/ /\ m.outcome = "token_invalid"
                 /\ \E n : Becomes(m, n) /\ n.pc = "drop" /\ n.outcome = m.outcome
              \/ /\ m.outcome = "failed"
                 /\ \E n : Becomes(m, n) /\ n.pc = "queued" /\ n.outcome = "none"
              \/ m.outcome \in {"none", "sent"} /\ Leaves(m)
           /\ PushTyped'
<1>. DEFINE drop == [m EXCEPT !.pc = "drop"]
            back == [m EXCEPT !.pc = "queued", !.outcome = "none"]
<1>1. /\ m \in PushMessage /\ m.device \in Device
      /\ m.outcome \in {"none", "sent", "failed", "token_invalid"}
  BY DEF PushTyped, PushMessage
<1>2. /\ m.pc = "finalize" /\ UNCHANGED <<router, tokens, dead, sends, gaps>>
      /\ pushLog' = [pushLog EXCEPT ![m.device] = m.outcome]
      /\ \/ m.outcome = "token_invalid" /\ messages' = (messages \ {m}) \cup {drop}
         \/ m.outcome = "failed" /\ messages' = (messages \ {m}) \cup {back}
         \/ m.outcome \in {"none", "sent"} /\ Leaves(m)
  <2>1. CASE m.outcome = "token_invalid"
    BY <2>1 DEF Finalize, Move
  <2>2. CASE m.outcome = "failed"
    BY <2>2 DEF Finalize, Move
  <2>3. CASE m.outcome \in {"none", "sent"}
    <3>1. messages' = (messages \ {m}) \cup {}
      BY <2>3 DEF Finalize, Move
    <3>. QED
      BY <2>3, <3>1 DEF Finalize, Leaves
  <2>. QED
    BY <1>1, <2>1, <2>2, <2>3
<1>3. /\ drop \in PushMessage /\ drop.device = m.device /\ drop.token = m.token
      /\ drop.pc = "drop" /\ drop.outcome = m.outcome
  BY <1>1, MessageMoves
<1>7. /\ back \in PushMessage /\ back.device = m.device /\ back.token = m.token
      /\ back.pc = "queued" /\ back.outcome = "none"
  BY <1>1 DEF PushMessage
<1>. HIDE DEF drop, back
<1>4. Logs(m.device, m.outcome)
      /\ pushLog' \in [Device -> {"none", "pending", "sent", "token_invalid", "failed"}]
  BY <1>1, <1>2, LogWritten
<1>5. messages' \subseteq PushMessage
  BY <1>2, <1>3, <1>7 DEF PushTyped, Leaves
<1>6. PushTyped'
  BY <1>2, <1>4, <1>5 DEF PushTyped
<1>. QED
  BY <1>2, <1>3, <1>4, <1>6, <1>7 DEF Becomes

\* A refused token is deactivated.
LEMMA DropTokenStep ==
    ASSUME PushTyped, NEW m \in messages, DropToken(m)
    PROVE  /\ m.pc = "drop" /\ UNCHANGED <<router, dead, pushLog, sends, gaps>>
           /\ Leaves(m)
           /\ \A k \in Device : tokens'[k].token = tokens[k].token
           /\ \A k \in Device \ {m.device} : tokens'[k] = tokens[k]
           /\ ~tokens'[m.device].active
           /\ PushTyped'
<1>1. m \in PushMessage /\ m.device \in Device
  BY DEF PushTyped, PushMessage
<1>2. /\ m.pc = "drop" /\ UNCHANGED <<router, dead, pushLog, sends, gaps>> /\ Leaves(m)
      /\ tokens' = [tokens EXCEPT ![m.device].active = FALSE]
  BY DEF DropToken, Move, Leaves
<1>3. /\ \A k \in Device : tokens'[k].token = tokens[k].token
      /\ \A k \in Device \ {m.device} : tokens'[k] = tokens[k]
      /\ ~tokens'[m.device].active
      /\ tokens' \in [Device -> [active : BOOLEAN, token : 1..MaxTokens]]
  <2>1. /\ tokens \in [Device -> [active : BOOLEAN, token : 1..MaxTokens]]
        /\ tokens[m.device] \in [active : BOOLEAN, token : 1..MaxTokens]
    BY <1>1 DEF PushTyped
  <2>. DEFINE item == [tokens[m.device] EXCEPT !.active = FALSE]
  <2>2. /\ item \in [active : BOOLEAN, token : 1..MaxTokens]
        /\ item.token = tokens[m.device].token /\ ~item.active
    BY <2>1
  <2>3. tokens' = [tokens EXCEPT ![m.device] = item]
    BY <1>2
  <2>. HIDE DEF item
  <2>. QED
    BY <1>1, <2>1, <2>2, <2>3
<1>4. messages' \subseteq PushMessage
  BY <1>2 DEF PushTyped, Leaves
<1>. QED
  BY <1>2, <1>3, <1>4 DEF PushTyped

\* A handler that is lost leaves its message to be delivered again.
LEMMA LoseHandlerStep ==
    ASSUME PushTyped, NEW m \in messages, LoseHandler(m)
    PROVE  /\ m.pc \in {"send", "finalize", "drop"} /\ "lost push" \in gaps'
           /\ UNCHANGED <<router, tokens, dead, pushLog, sends>>
           /\ \E n : Becomes(m, n) /\ n.pc = "queued" /\ n.outcome = "none"
           /\ PushTyped'
<1>. DEFINE n == [m EXCEPT !.pc = "queued", !.outcome = "none"]
<1>1. m \in PushMessage
  BY DEF PushTyped
<1>2. /\ m.pc \in {"send", "finalize", "drop"} /\ "lost push" \in gaps'
      /\ UNCHANGED <<router, tokens, dead, pushLog, sends>>
      /\ messages' = (messages \ {m}) \cup {n}
  BY DEF LoseHandler, Move, Note
<1>3. n \in PushMessage /\ n.device = m.device /\ n.token = m.token
      /\ n.pc = "queued" /\ n.outcome = "none"
  BY <1>1 DEF PushMessage
<1>. HIDE DEF n
<1>4. Becomes(m, n) /\ messages' \subseteq PushMessage
  BY <1>2, <1>3 DEF Becomes, PushTyped
<1>. QED
  BY <1>2, <1>3, <1>4 DEF PushTyped

\* Messages that were just sent.
Arrive(sent) ==
    /\ messages' = messages \cup sent
    /\ \A n \in sent : n \in PushMessage /\ n.pc = "queued" /\ n.outcome = "none"

\* The message of a device is for its token.
LEMMA MessageSent ==
    ASSUME SharedTyped, NEW target \in Device \X (1..MaxTokens), NEW copy \in Nat
    PROVE  /\ Message(target, copy) \in PushMessage
           /\ Message(target, copy).pc = "queued" /\ Message(target, copy).outcome = "none"
           /\ Message(target, copy).device = target[1]
           /\ Message(target, copy).token = target[2]
BY DEF Message, PushMessage

\* A duplicated message is for the same device and token.
LEMMA DuplicateStep ==
    ASSUME SharedTyped, PushTyped, NEW m \in messages, Duplicate(m)
    PROVE  /\ UNCHANGED <<router, tokens, dead, pushLog, sends, gaps>>
           /\ \E n : Arrive({n}) /\ n.device = m.device /\ n.token = m.token
           /\ PushTyped'
<1>. DEFINE target == <<m.device, m.token>>
            n == Message(target, faults + 1)
<1>1. target \in Device \X (1..MaxTokens) /\ target[1] = m.device /\ target[2] = m.token
  BY DEF PushTyped, PushMessage
<1>2. faults + 1 \in Nat
  BY Bounds DEF SharedTyped
<1>. HIDE DEF target
<1>3. n \in PushMessage /\ n.pc = "queued" /\ n.outcome = "none" /\ n.device = m.device
      /\ n.token = m.token
  BY <1>1, <1>2, MessageSent
<1>4. /\ UNCHANGED <<router, tokens, dead, pushLog, sends, gaps>>
      /\ messages' = messages \cup {n}
  BY DEF Duplicate, target
<1>. HIDE DEF n
<1>. QED
  BY <1>3, <1>4 DEF Arrive, PushTyped

\* A batch has a message for each of its targets; those of the targets left remain.
LEMMA SendBatchStep ==
    ASSUME SharedTyped, PushTyped, SendBatch
    PROVE  /\ router.pc = "running" /\ UNCHANGED <<tokens, dead, pushLog, sends>>
           /\ \E sent, batch :
                 /\ Arrive(sent) /\ batch \subseteq router.todo
                 /\ \A n \in sent : <<n.device, n.token>> \in batch
                 /\ "unqueued" \notin gaps' =>
                       \A target \in batch : \E n \in sent : n.device = target[1]
                 /\ router'.todo = router.todo \ batch
                 /\ router'.pc = "running" \/ (router'.pc = "done" /\ router'.todo = {})
           /\ PushTyped'
<1>1. router.pc = "running" /\ UNCHANGED <<tokens, dead, pushLog, sends>>
  BY DEF SendBatch
<1>2. PICK batch \in SUBSET router.todo, queued \in SUBSET router.todo :
          /\ queued \subseteq batch /\ ("unqueued" \in gaps' \/ queued = batch)
          /\ messages' = messages \cup {Message(target, faults) : target \in queued}
          /\ router' = IF batch = router.todo THEN [pc |-> "done", todo |-> {}]
                       ELSE [router EXCEPT !.todo = @ \ batch]
  BY DEF SendBatch, Note
<1>. DEFINE sent == {Message(target, faults) : target \in queued}
<1>3. faults \in Nat /\ router.todo \subseteq Device \X (1..MaxTokens) /\ router \in Router
  BY Bounds DEF SharedTyped, PushTyped, Router
<1>4. ASSUME NEW target \in queued
      PROVE  /\ Message(target, faults) \in PushMessage
             /\ Message(target, faults).pc = "queued"
             /\ Message(target, faults).outcome = "none"
             /\ Message(target, faults).device = target[1]
             /\ Message(target, faults).token = target[2]
             /\ target = <<target[1], target[2]>>
  BY <1>2, <1>3, <1>4, MessageSent
<1>5. Arrive(sent)
  BY <1>2, <1>4 DEF Arrive
<1>6. /\ \A n \in sent : <<n.device, n.token>> \in batch
      /\ \A target \in queued : \E n \in sent : n.device = target[1]
  BY <1>2, <1>4
<1>7. /\ router' \in Router /\ router'.todo = router.todo \ batch
      /\ router'.pc = "running" \/ (router'.pc = "done" /\ router'.todo = {})
  BY <1>1, <1>2, <1>3 DEF Router
<1>. HIDE DEF sent
<1>8. PushTyped'
  BY <1>1, <1>5, <1>7 DEF PushTyped, Arrive
<1>. QED
  BY <1>1, <1>2, <1>5, <1>6, <1>7, <1>8

\* The router takes the active devices, with their tokens.
LEMMA RouteStep ==
    ASSUME PushTyped, Route
    PROVE  /\ UNCHANGED <<messages, tokens, dead, pushLog, sends, gaps>>
           /\ \A target \in router'.todo :
                 target[1] \in Device /\ target[2] = tokens[target[1]].token
           /\ router'.pc = "running" \/ (router'.pc = "done" /\ \A k \in Device : ~tokens[k].active)
           /\ \A k \in Device : tokens[k].active => \E target \in router'.todo : target[1] = k
           /\ PushTyped'
<1>. DEFINE active == {k \in Device : tokens[k].active}
            todo == {<<k, tokens[k].token>> : k \in active}
<1>1. /\ UNCHANGED <<messages, tokens, dead, pushLog, sends, gaps>>
      /\ router' = [pc |-> IF active = {} THEN "done" ELSE "running", todo |-> todo]
  BY DEF Route
<1>2. \A k \in Device : tokens[k].token \in 1..MaxTokens
  BY DEF PushTyped
<1>3. /\ \A target \in todo : target[1] \in Device /\ target[2] = tokens[target[1]].token
      /\ \A k \in Device : tokens[k].active => \E target \in todo : target[1] = k
  <2>1. ASSUME NEW target \in todo
        PROVE  target[1] \in Device /\ target[2] = tokens[target[1]].token
    <3>1. PICK k \in active : target = <<k, tokens[k].token>>
      OBVIOUS
    <3>. QED
      BY <3>1
  <2>2. ASSUME NEW k \in Device, tokens[k].active PROVE \E target \in todo : target[1] = k
    <3>1. <<k, tokens[k].token>> \in todo
      BY <2>2
    <3>. QED
      BY <3>1
  <2>. QED
    BY <2>1, <2>2
<1>4. todo \subseteq Device \X (1..MaxTokens)
  BY <1>2
<1>5. active = {} => \A k \in Device : ~tokens[k].active
  OBVIOUS
<1>. HIDE DEF active, todo
<1>6. router'.todo = todo /\ router' \in Router
      /\ (router'.pc = "running" \/ (router'.pc = "done" /\ active = {}))
  BY <1>1, <1>4 DEF Router
<1>. QED
  BY <1>1, <1>3, <1>5, <1>6 DEF PushTyped

\* The paths that are not the push leave it alone, but for its start.
LEMMA PushRests ==
    ASSUME PushTyped, [Next]_vars, ~PushNext
    PROVE  /\ UNCHANGED <<messages, tokens, dead, pushLog, sends>>
           /\ UNCHANGED router \/ (router'.pc = "queued" /\ router'.todo = router.todo)
           /\ PushTyped'
<1>1. CASE SendPush
  <2>1. /\ router' = [router EXCEPT !.pc = "queued"]
        /\ UNCHANGED <<messages, tokens, dead, pushLog, sends>>
    BY <1>1 DEF SendPush
  <2>2. router' \in Router /\ router'.pc = "queued" /\ router'.todo = router.todo
    BY <2>1 DEF PushTyped, Router
  <2>. QED
    BY <2>1, <2>2 DEF PushTyped
<1>2. CASE UNCHANGED pushVars
  BY <1>2 DEF pushVars, PushTyped
<1>. QED
  BY <1>1, <1>2, NotifyStays, PrStays DEF Next, SendPullRequest, SendNotifications,
     DispatchFails, Wipe, vars

\* A step of the service of the devices' tokens, or of the router: the other steps of a push
\* are those of the handlers.
LEMMA DeviceStep ==
    ASSUME PushTyped, NEW k \in Device, Register(k) \/ Unregister(k) \/ Uninstall(k)
    PROVE  /\ UNCHANGED <<router, messages, pushLog, sends>> /\ dead \subseteq dead'
           /\ \A j \in Device \ {k} : tokens'[j] = tokens[j]
           /\ \/ /\ Register(k) /\ tokens'[k].active /\ tokens'[k].token # 1
                 /\ \/ "reregistered" \in gaps'
                    \/ /\ <<k, tokens[k].token>> \notin router.todo
                       /\ \A m \in messages : m.device # k
              \/ "unregistered" \in gaps'
              \/ UNCHANGED tokens
           /\ PushTyped'
<1>1. /\ tokens \in [Device -> [active : BOOLEAN, token : 1..MaxTokens]]
      /\ tokens[k] \in [active : BOOLEAN, token : 1..MaxTokens]
  BY DEF PushTyped
<1>2. CASE Register(k)
  <2>. DEFINE item == [active |-> TRUE, token |-> tokens[k].token + 1]
  <2>1. /\ tokens' = [tokens EXCEPT ![k] = item] /\ tokens[k].token < MaxTokens
        /\ UNCHANGED <<router, messages, dead, pushLog, sends>>
        /\ \/ "reregistered" \in gaps'
           \/ /\ <<k, tokens[k].token>> \notin router.todo
              /\ \A m \in messages : m.device # k
    BY <1>2 DEF Register, Note
  <2>2. tokens[k].token + 1 \in 1..MaxTokens /\ tokens[k].token + 1 # 1
    <3>1. tokens[k].token \in 1..MaxTokens
      BY <1>1
    <3>. QED
      BY <2>1, <3>1, Bounds
  <2>3. /\ item \in [active : BOOLEAN, token : 1..MaxTokens]
        /\ item.active /\ item.token # 1
    BY <2>2
  <2>. HIDE DEF item
  <2>4. /\ tokens'[k] = item /\ \A j \in Device \ {k} : tokens'[j] = tokens[j]
        /\ tokens' \in [Device -> [active : BOOLEAN, token : 1..MaxTokens]]
    BY <1>1, <2>1, <2>3
  <2>. QED
    BY <1>2, <2>1, <2>3, <2>4 DEF PushTyped
<1>3. CASE Unregister(k)
  <2>. DEFINE item == [tokens[k] EXCEPT !.active = FALSE]
  <2>1. /\ tokens' = [tokens EXCEPT ![k] = item] /\ "unregistered" \in gaps'
        /\ UNCHANGED <<router, messages, dead, pushLog, sends>>
    BY <1>3 DEF Unregister, Note
  <2>2. item \in [active : BOOLEAN, token : 1..MaxTokens]
    BY <1>1
  <2>. HIDE DEF item
  <2>. QED
    BY <1>1, <2>1, <2>2 DEF PushTyped
<1>4. CASE Uninstall(k)
  BY <1>4 DEF Uninstall, PushTyped
<1>. QED
  BY <1>2, <1>3, <1>4

\* A router that fails starts again and leaves the devices alone.
LEMMA RouterFailsStep ==
    ASSUME PushTyped, RouterFails
    PROVE  /\ UNCHANGED <<messages, tokens, dead, pushLog, sends, gaps>>
           /\ router'.pc = "queued" /\ router'.todo = {}
           /\ PushTyped'
<1>1. /\ UNCHANGED <<messages, tokens, dead, pushLog, sends, gaps>>
      /\ router' = [pc |-> "queued", todo |-> {}]
  BY DEF RouterFails
<1>2. router' \in Router /\ router'.pc = "queued" /\ router'.todo = {}
  BY <1>1 DEF Router
<1>. QED
  BY <1>1, <1>2 DEF PushTyped

-----------------------------------------------------------------------------
(* One push for a device *)

\* A handler works only with the reservation of its device, holds it alone until it sends, and
\* nothing was sent before.
ReservedOnce ==
    /\ \A k \in Device : sends[k] <= 1 /\ (pushLog[k] = "none" => sends[k] = 0)
    /\ \A m \in messages :
          /\ m.pc # "queued" => pushLog[m.device] # "none"
          /\ m.pc = "send" => sends[m.device] = 0
          /\ m.pc = "finalize" => m.outcome # "none"
    /\ \A m, n \in messages : m.pc = "send" /\ n.pc = "send" /\ m.device = n.device => m = n

LEMMA InitPush == Init => PushTyped /\ ReservedOnce
<1>. SUFFICES ASSUME Init PROVE PushTyped /\ ReservedOnce
  OBVIOUS
<1>1. /\ router = [pc |-> "none", todo |-> {}] /\ messages = {}
      /\ tokens = [k \in Device |-> [active |-> TRUE, token |-> 1]]
      /\ pushLog = [k \in Device |-> "none"] /\ sends = [k \in Device |-> 0]
  BY DEF Init
<1>2. router \in Router
  BY <1>1 DEF Router
<1>3. 1 \in 1..MaxTokens
  BY Bounds
<1>4. [active |-> TRUE, token |-> 1] \in [active : BOOLEAN, token : 1..MaxTokens]
  BY <1>3
<1>5. tokens \in [Device -> [active : BOOLEAN, token : 1..MaxTokens]]
  BY <1>1, <1>4
<1>. QED
  BY <1>1, <1>2, <1>5 DEF PushTyped, ReservedOnce

LEMMA NextReservedOnce ==
    ASSUME SharedTyped, PushTyped, ReservedOnce, [Next]_vars
    PROVE  PushTyped' /\ ReservedOnce'
<1>0. /\ \A m \in messages : m \in PushMessage /\ m.device \in Device
      /\ \A k \in Device : sends[k] \in Nat
      /\ pushLog \in [Device -> {"none", "pending", "sent", "token_invalid", "failed"}]
      /\ sends \in [Device -> Nat]
  BY DEF PushTyped, PushMessage
<1>1. ASSUME UNCHANGED <<messages, pushLog, sends>> PROVE ReservedOnce'
  BY <1>1 DEF ReservedOnce
<1>2. ASSUME NEW sent, Arrive(sent), UNCHANGED <<pushLog, sends>> PROVE ReservedOnce'
  BY <1>2 DEF ReservedOnce, Arrive
<1>3. ASSUME NEW m \in messages, Reserve(m) PROVE PushTyped' /\ ReservedOnce'
  <2>1. /\ m.pc = "queued" /\ UNCHANGED sends /\ PushTyped'
        /\ \/ /\ pushLog[m.device] = "none" /\ Logs(m.device, "pending")
              /\ \E n : Becomes(m, n) /\ n.pc = "send" /\ n.outcome = m.outcome
           \/ pushLog[m.device] # "none" /\ Leaves(m) /\ UNCHANGED pushLog
    BY <1>3, ReserveStep
  <2>2. CASE pushLog[m.device] # "none" /\ Leaves(m) /\ UNCHANGED pushLog
    BY <2>1, <2>2 DEF ReservedOnce, Leaves
  <2>3. ASSUME pushLog[m.device] = "none", Logs(m.device, "pending"),
               NEW n, Becomes(m, n), n.pc = "send"
        PROVE  ReservedOnce'
    <3>1. /\ n.device = m.device /\ messages' = (messages \ {m}) \cup {n}
          /\ m.device \in Device /\ sends[m.device] = 0
      BY <1>0, <2>3 DEF Becomes, ReservedOnce
    <3>2. \A x \in messages : x.pc = "send" => x.device # m.device
      BY <2>3 DEF ReservedOnce
    <3>3. \A k \in Device : pushLog'[k] = "none" => pushLog[k] = "none"
      BY <2>3 DEF Logs
    <3>4. \A k \in Device : pushLog[k] # "none" => pushLog'[k] # "none"
      BY <2>3 DEF Logs
    <3>5. pushLog'[m.device] # "none"
      BY <2>3 DEF Logs
    <3>6. \A k \in Device : sends'[k] <= 1 /\ (pushLog'[k] = "none" => sends'[k] = 0)
      BY <2>1, <3>3 DEF ReservedOnce
    <3>7. \A x \in messages' :
             /\ x.pc # "queued" => pushLog'[x.device] # "none"
             /\ x.pc = "send" => sends'[x.device] = 0
             /\ x.pc = "finalize" => x.outcome # "none"
      BY <1>0, <2>1, <2>3, <3>1, <3>4, <3>5 DEF ReservedOnce
    <3>8. \A x, y \in messages' :
             x.pc = "send" /\ y.pc = "send" /\ x.device = y.device => x = y
      BY <3>1, <3>2 DEF ReservedOnce
    <3>. QED
      BY <3>6, <3>7, <3>8 DEF ReservedOnce
  <2>. QED
    BY <2>1, <2>2, <2>3
<1>4. ASSUME NEW m \in messages, SendFcm(m) PROVE PushTyped' /\ ReservedOnce'
  <2>1. /\ m.pc = "send" /\ UNCHANGED pushLog /\ PushTyped'
        /\ \E n : Becomes(m, n) /\ n.pc = "finalize" /\ n.outcome # "none"
        /\ UNCHANGED sends \/ sends' = [sends EXCEPT ![m.device] = sends[m.device] + 1]
    BY <1>4, SendFcmStep
  <2>2. PICK n : Becomes(m, n) /\ n.pc = "finalize" /\ n.outcome # "none"
    BY <2>1
  <2>3. /\ n.device = m.device /\ messages' = (messages \ {m}) \cup {n}
        /\ m.device \in Device /\ sends[m.device] = 0 /\ pushLog[m.device] # "none"
    BY <1>0, <2>1, <2>2 DEF Becomes, ReservedOnce
  <2>4. /\ sends'[m.device] = 0 \/ sends'[m.device] = 1
        /\ \A k \in Device \ {m.device} : sends'[k] = sends[k]
    BY <1>0, <2>1, <2>3
  <2>5. \A x \in messages \ {m} : x.pc = "send" => x.device # m.device
    BY <2>1 DEF ReservedOnce
  <2>6. \A k \in Device : sends'[k] <= 1
    BY <2>4 DEF ReservedOnce
  <2>7. \A k \in Device : pushLog'[k] = "none" => sends'[k] = 0
    BY <2>1, <2>3, <2>4 DEF ReservedOnce
  <2>8. \A x \in messages' :
             /\ x.pc # "queued" => pushLog'[x.device] # "none"
             /\ x.pc = "send" => sends'[x.device] = 0
             /\ x.pc = "finalize" => x.outcome # "none"
    BY <1>0, <2>1, <2>2, <2>3, <2>4, <2>5 DEF ReservedOnce
  <2>9. \A x, y \in messages' :
             x.pc = "send" /\ y.pc = "send" /\ x.device = y.device => x = y
    BY <2>2, <2>3 DEF ReservedOnce
  <2>. QED
    BY <2>1, <2>6, <2>7, <2>8, <2>9 DEF ReservedOnce
<1>5. ASSUME NEW m \in messages, Finalize(m) PROVE PushTyped' /\ ReservedOnce'
  <2>1. /\ m.pc = "finalize" /\ UNCHANGED sends /\ PushTyped' /\ Logs(m.device, m.outcome)
        /\ Leaves(m) \/ \E n : /\ Becomes(m, n)
                               /\ n.pc = "drop" \/ (n.pc = "queued" /\ n.outcome = "none")
    BY <1>5, FinalizeStep
  <2>2. m.outcome # "none" /\ pushLog[m.device] # "none" /\ m.device \in Device
    BY <1>0, <2>1 DEF ReservedOnce
  <2>3. \A k \in Device : pushLog'[k] = "none" <=> pushLog[k] = "none"
    BY <2>1, <2>2 DEF Logs
  <2>4. CASE Leaves(m)
    BY <1>0, <2>1, <2>3, <2>4 DEF ReservedOnce, Leaves
  <2>5. ASSUME NEW n, Becomes(m, n), n.pc = "drop" \/ (n.pc = "queued" /\ n.outcome = "none")
        PROVE  ReservedOnce'
    BY <1>0, <2>1, <2>2, <2>3, <2>5 DEF ReservedOnce, Becomes
  <2>. QED
    BY <2>1, <2>4, <2>5
<1>6. ASSUME NEW m \in messages, DropToken(m) PROVE PushTyped' /\ ReservedOnce'
  BY <1>6, DropTokenStep DEF ReservedOnce, Leaves
<1>7. ASSUME NEW m \in messages, LoseHandler(m) PROVE PushTyped' /\ ReservedOnce'
  <2>1. PushTyped' /\ UNCHANGED <<pushLog, sends>>
        /\ \E n : Becomes(m, n) /\ n.pc = "queued"
    BY <1>7, LoseHandlerStep
  <2>. QED
    BY <2>1 DEF ReservedOnce, Becomes
<1>8. ASSUME NEW m \in messages, Duplicate(m) PROVE PushTyped' /\ ReservedOnce'
  BY <1>2, <1>8, DuplicateStep
<1>9. CASE SendBatch
  BY <1>2, <1>9, SendBatchStep
<1>10. CASE Route
  BY <1>1, <1>10, RouteStep
<1>11. CASE RouterFails
  BY <1>1, <1>11, RouterFailsStep
<1>12. ASSUME NEW k \in Device, Register(k) \/ Unregister(k) \/ Uninstall(k)
       PROVE  PushTyped' /\ ReservedOnce'
  BY <1>1, <1>12, DeviceStep
<1>13. CASE PushNext
  BY <1>13, <1>3, <1>4, <1>5, <1>6, <1>7, <1>8, <1>9, <1>10, <1>11, <1>12 DEF PushNext
<1>14. CASE ~PushNext
  BY <1>1, <1>14, PushRests
<1>. QED
  BY <1>13, <1>14

-----------------------------------------------------------------------------
(* Every device is served *)

\* A message of a device at one of these places of its handler.
OnItsWay(k, at) == \E m \in messages : m.device = k /\ m.pc \in at

\* A device without a reservation is still to be sent to; a reservation is held by a handler; a
\* first token that was refused is dropped, or about to be.
Served(k) ==
    /\ pushLog[k] = "none" =>
          /\ tokens[k].active
          /\ router.pc = "running" =>
                OnItsWay(k, {"queued"}) \/ \E target \in router.todo : target[1] = k
          /\ router.pc = "done" => OnItsWay(k, {"queued"})
    /\ pushLog[k] = "pending" => OnItsWay(k, {"send", "finalize"})
    /\ pushLog[k] = "token_invalid" /\ tokens[k].token = 1 =>
          ~tokens[k].active \/ OnItsWay(k, {"drop"})

EveryDeviceServed ==
    gaps \cap {"lost push", "unqueued", "unregistered"} = {} => \A k \in Device : Served(k)

LEMMA InitEveryDeviceServed == Init => EveryDeviceServed
<1>. SUFFICES ASSUME Init, NEW k \in Device PROVE Served(k)
  BY DEF EveryDeviceServed
<1>1. pushLog[k] = "none" /\ tokens[k].active /\ router.pc = "none"
  BY DEF Init
<1>. QED
  BY <1>1 DEF Served

LEMMA NextEveryDeviceServed ==
    ASSUME SharedTyped, PushTyped, ReservedOnce, EveryDeviceServed, [Next]_vars
    PROVE  EveryDeviceServed'
<1>. SUFFICES ASSUME gaps' \cap {"lost push", "unqueued", "unregistered"} = {}, NEW k \in Device
              PROVE  Served(k)'
  BY DEF EveryDeviceServed
<1>0. /\ Served(k) /\ "lost push" \notin gaps' /\ "unqueued" \notin gaps'
      /\ "unregistered" \notin gaps'
  BY HistoryGrows DEF EveryDeviceServed
<1>1. \A m \in messages : m.device \in Device
  BY DEF PushTyped, PushMessage
\* Before the router starts, a device needs no message.
<1>2. ASSUME UNCHANGED <<pushLog, tokens>>, router'.pc \in {"none", "queued"},
             \A at : OnItsWay(k, at) => OnItsWay(k, at)'
      PROVE  Served(k)'
  BY <1>0, <1>2 DEF Served
<1>3. ASSUME UNCHANGED <<router, messages, pushLog>>, tokens'[k] = tokens[k] PROVE Served(k)'
  <2>1. \A at : OnItsWay(k, at)' <=> OnItsWay(k, at)
    BY <1>3 DEF OnItsWay
  <2>. QED
    BY <1>0, <1>3, <2>1 DEF Served
<1>4. ASSUME NEW m \in messages, Reserve(m) PROVE Served(k)'
  <2>1. /\ m.pc = "queued" /\ UNCHANGED <<router, tokens>>
        /\ \/ /\ pushLog[m.device] = "none" /\ Logs(m.device, "pending")
              /\ \E n : Becomes(m, n) /\ n.pc = "send"
           \/ pushLog[m.device] # "none" /\ Leaves(m) /\ UNCHANGED pushLog
    BY <1>4, ReserveStep
  <2>2. messages \ {m} \subseteq messages'
    BY <2>1 DEF Becomes, Leaves
  <2>3. /\ OnItsWay(k, {"send", "finalize"}) => OnItsWay(k, {"send", "finalize"})'
        /\ OnItsWay(k, {"drop"}) => OnItsWay(k, {"drop"})'
        /\ m.device # k /\ OnItsWay(k, {"queued"}) => OnItsWay(k, {"queued"})'
    BY <2>1, <2>2 DEF OnItsWay
  <2>4. CASE m.device # k
    <3>1. pushLog'[k] = pushLog[k]
      BY <2>1, <2>4 DEF Logs
    <3>. QED
      BY <1>0, <2>1, <2>3, <2>4, <3>1 DEF Served
  <2>5. CASE m.device = k /\ pushLog[k] # "none"
    BY <1>0, <2>1, <2>3, <2>5 DEF Served
  <2>6. CASE m.device = k /\ pushLog[k] = "none"
    <3>1. pushLog'[k] = "pending" /\ OnItsWay(k, {"send", "finalize"})'
      BY <2>1, <2>6 DEF Logs, Becomes, OnItsWay
    <3>. QED
      BY <3>1 DEF Served
  <2>. QED
    BY <2>4, <2>5, <2>6
<1>5. ASSUME NEW m \in messages, SendFcm(m) PROVE Served(k)'
  <2>1. /\ m.pc = "send" /\ UNCHANGED <<router, tokens, pushLog>>
        /\ \E n : Becomes(m, n) /\ n.pc = "finalize"
    BY <1>5, SendFcmStep
  <2>2. /\ OnItsWay(k, {"send", "finalize"}) => OnItsWay(k, {"send", "finalize"})'
        /\ OnItsWay(k, {"drop"}) => OnItsWay(k, {"drop"})'
        /\ OnItsWay(k, {"queued"}) => OnItsWay(k, {"queued"})'
    BY <2>1 DEF Becomes, OnItsWay
  <2>. QED
    BY <1>0, <2>1, <2>2 DEF Served
<1>6. ASSUME NEW m \in messages, Finalize(m) PROVE Served(k)'
  <2>1. /\ m.pc = "finalize" /\ UNCHANGED <<router, tokens>> /\ Logs(m.device, m.outcome)
        /\ \/ m.outcome = "token_invalid" /\ \E n : Becomes(m, n) /\ n.pc = "drop"
           \/ m.outcome = "failed" /\ \E n : Becomes(m, n) /\ n.pc = "queued"
           \/ m.outcome \in {"none", "sent"} /\ Leaves(m)
    BY <1>6, FinalizeStep
  <2>2. messages \ {m} \subseteq messages'
    BY <2>1 DEF Becomes, Leaves
  <2>3. CASE m.device # k
    <3>1. pushLog'[k] = pushLog[k]
      BY <2>1, <2>3 DEF Logs
    <3>2. /\ OnItsWay(k, {"send", "finalize"}) => OnItsWay(k, {"send", "finalize"})'
          /\ OnItsWay(k, {"drop"}) => OnItsWay(k, {"drop"})'
          /\ OnItsWay(k, {"queued"}) => OnItsWay(k, {"queued"})'
      BY <2>2, <2>3 DEF OnItsWay
    <3>. QED
      BY <1>0, <2>1, <3>1, <3>2 DEF Served
  <2>4. CASE m.device = k
    <3>1. pushLog'[k] = m.outcome /\ m.outcome # "none"
      BY <2>1, <2>4 DEF Logs, ReservedOnce
    <3>2. m.outcome = "token_invalid" => OnItsWay(k, {"drop"})'
      BY <2>1, <2>4 DEF Becomes, OnItsWay
    <3>3. m.outcome # "pending"
      BY <2>1
    <3>. QED
      BY <3>1, <3>2, <3>3 DEF Served
  <2>. QED
    BY <2>3, <2>4
<1>7. ASSUME NEW m \in messages, DropToken(m) PROVE Served(k)'
  <2>1. /\ m.pc = "drop" /\ UNCHANGED <<router, pushLog>> /\ Leaves(m)
        /\ \A j \in Device \ {m.device} : tokens'[j] = tokens[j]
        /\ ~tokens'[m.device].active
    BY <1>7, DropTokenStep
  <2>2. pushLog[m.device] # "none"
    BY <2>1 DEF ReservedOnce
  <2>3. /\ OnItsWay(k, {"send", "finalize"}) => OnItsWay(k, {"send", "finalize"})'
        /\ m.device # k /\ OnItsWay(k, {"drop"}) => OnItsWay(k, {"drop"})'
        /\ OnItsWay(k, {"queued"}) => OnItsWay(k, {"queued"})'
    BY <2>1 DEF Leaves, OnItsWay
  <2>4. CASE m.device = k
    BY <1>0, <2>1, <2>2, <2>3, <2>4 DEF Served
  <2>5. CASE m.device # k
    <3>1. tokens'[k] = tokens[k]
      BY <2>1, <2>5
    <3>. QED
      BY <1>0, <2>1, <2>3, <2>5, <3>1 DEF Served
  <2>. QED
    BY <2>4, <2>5
<1>8. ASSUME NEW m \in messages, LoseHandler(m) PROVE Served(k)'
  BY <1>0, <1>8, LoseHandlerStep
<1>9. ASSUME NEW m \in messages, Duplicate(m) PROVE Served(k)'
  <2>1. UNCHANGED <<router, tokens, pushLog>> /\ messages \subseteq messages'
    BY <1>9, DuplicateStep DEF Arrive
  <2>2. \A at : OnItsWay(k, at) => OnItsWay(k, at)'
    BY <2>1 DEF OnItsWay
  <2>. QED
    BY <1>0, <2>1, <2>2 DEF Served
<1>10. CASE SendBatch
  <2>1. /\ router.pc = "running" /\ UNCHANGED <<tokens, pushLog>>
        /\ \E sent, batch :
              /\ Arrive(sent)
              /\ \A target \in batch : \E n \in sent : n.device = target[1]
              /\ router'.todo = router.todo \ batch
              /\ router'.pc = "running" \/ (router'.pc = "done" /\ router'.todo = {})
    BY <1>0, <1>10, SendBatchStep
  <2>2. PICK sent, batch :
              /\ Arrive(sent)
              /\ \A target \in batch : \E n \in sent : n.device = target[1]
              /\ router'.todo = router.todo \ batch
              /\ router'.pc = "running" \/ (router'.pc = "done" /\ router'.todo = {})
    BY <2>1
  <2>3. /\ OnItsWay(k, {"send", "finalize"}) => OnItsWay(k, {"send", "finalize"})'
        /\ OnItsWay(k, {"drop"}) => OnItsWay(k, {"drop"})'
        /\ OnItsWay(k, {"queued"}) => OnItsWay(k, {"queued"})'
    BY <2>2 DEF Arrive, OnItsWay
  <2>4. ASSUME NEW target \in router.todo, target[1] = k, target \in batch
        PROVE  OnItsWay(k, {"queued"})'
    <3>1. PICK n \in sent : n.device = k
      BY <2>2, <2>4
    <3>2. n \in messages' /\ n.pc = "queued"
      BY <2>2, <3>1 DEF Arrive
    <3>. QED
      BY <3>1, <3>2 DEF OnItsWay
  <2>5. ASSUME pushLog[k] = "none"
        PROVE  OnItsWay(k, {"queued"})' \/ \E target \in router'.todo : target[1] = k
    BY <1>0, <2>1, <2>2, <2>3, <2>4, <2>5 DEF Served
  <2>. QED
    BY <1>0, <2>1, <2>2, <2>3, <2>5 DEF Served
<1>11. CASE Route
  <2>1. /\ UNCHANGED <<messages, tokens, pushLog>>
        /\ router'.pc = "running" \/ (router'.pc = "done" /\ \A j \in Device : ~tokens[j].active)
        /\ \A j \in Device : tokens[j].active => \E target \in router'.todo : target[1] = j
    BY <1>11, RouteStep
  <2>2. \A at : OnItsWay(k, at)' <=> OnItsWay(k, at)
    BY <2>1 DEF OnItsWay
  <2>. QED
    BY <1>0, <2>1, <2>2 DEF Served
<1>12. CASE RouterFails
  <2>1. UNCHANGED <<messages, tokens, pushLog>> /\ router'.pc = "queued"
    BY <1>12, RouterFailsStep
  <2>. QED
    BY <1>2, <2>1 DEF OnItsWay
<1>13. ASSUME NEW j \in Device, Register(j) \/ Unregister(j) \/ Uninstall(j) PROVE Served(k)'
  <2>1. /\ UNCHANGED <<router, messages, pushLog>>
        /\ \A i \in Device \ {j} : tokens'[i] = tokens[i]
        /\ \/ tokens'[j].active /\ tokens'[j].token # 1
           \/ UNCHANGED tokens
    BY <1>0, <1>13, DeviceStep
  <2>2. CASE tokens'[k] = tokens[k]
    BY <1>3, <2>1, <2>2
  <2>3. CASE tokens'[k].active /\ tokens'[k].token # 1
    <3>1. \A at : OnItsWay(k, at)' <=> OnItsWay(k, at)
      BY <2>1 DEF OnItsWay
    <3>. QED
      BY <1>0, <2>1, <2>3, <3>1 DEF Served
  <2>. QED
    BY <2>1, <2>2, <2>3
<1>14. CASE PushNext
  BY <1>14, <1>4, <1>5, <1>6, <1>7, <1>8, <1>9, <1>10, <1>11, <1>12, <1>13 DEF PushNext
<1>15. CASE ~PushNext
  <2>1. /\ UNCHANGED <<messages, tokens, pushLog>>
        /\ UNCHANGED router \/ router'.pc = "queued"
    BY <1>15, PushRests
  <2>2. CASE UNCHANGED router
    BY <1>3, <2>1, <2>2
  <2>3. CASE router'.pc = "queued"
    BY <1>2, <2>1, <2>3 DEF OnItsWay
  <2>. QED
    BY <2>1, <2>2, <2>3
<1>. QED
  BY <1>14, <1>15

-----------------------------------------------------------------------------
(* Only refused tokens are dropped *)

\* Messages and targets have the token of their device, and a handler that drops it, as the
\* outcome it holds, comes from a refusal.
TokensKnown ==
    gaps \cap {"reregistered", "unregistered"} = {} =>
        /\ \A m \in messages :
              /\ m.token = tokens[m.device].token
              /\ m.pc = "drop" \/ m.outcome = "token_invalid" => <<m.device, m.token>> \in dead
        /\ \A target \in router.todo : target[2] = tokens[target[1]].token
        /\ \A k \in Device : ~tokens[k].active => <<k, tokens[k].token>> \in dead

LEMMA InitTokensKnown == Init => TokensKnown
<1>. SUFFICES ASSUME Init PROVE TokensKnown
  OBVIOUS
<1>1. messages = {} /\ router.todo = {} /\ \A k \in Device : tokens[k].active
  BY DEF Init
<1>. QED
  BY <1>1 DEF TokensKnown

LEMMA NextTokensKnown ==
    ASSUME SharedTyped, PushTyped, TokensKnown, [Next]_vars
    PROVE  TokensKnown'
<1>. SUFFICES ASSUME gaps' \cap {"reregistered", "unregistered"} = {}
              PROVE  TokensKnown'
  BY DEF TokensKnown
<1>0. /\ \A m \in messages :
            /\ m.token = tokens[m.device].token
            /\ m.pc = "drop" \/ m.outcome = "token_invalid" => <<m.device, m.token>> \in dead
      /\ \A target \in router.todo : target[2] = tokens[target[1]].token
      /\ \A k \in Device : ~tokens[k].active => <<k, tokens[k].token>> \in dead
      /\ "reregistered" \notin gaps' /\ "unregistered" \notin gaps'
      /\ \A m \in messages : m.device \in Device
  BY HistoryGrows DEF TokensKnown, PushTyped, PushMessage
<1>1. ASSUME UNCHANGED <<tokens, dead>>, router'.todo \subseteq router.todo,
             \A m \in messages' \ messages :
                /\ m.token = tokens[m.device].token
                /\ m.pc = "drop" \/ m.outcome = "token_invalid" => <<m.device, m.token>> \in dead
      PROVE  TokensKnown'
  BY <1>0, <1>1 DEF TokensKnown
<1>2. ASSUME NEW m \in messages, NEW n, Becomes(m, n), UNCHANGED <<router, tokens, dead>>,
             n.pc = "drop" \/ n.outcome = "token_invalid" => <<m.device, m.token>> \in dead
      PROVE  TokensKnown'
  <2>1. \A x \in messages' \ messages : x = n
    BY <1>2 DEF Becomes
  <2>2. n.device = m.device /\ n.token = m.token
    BY <1>2 DEF Becomes
  <2>. QED
    BY <1>0, <1>1, <1>2, <2>1, <2>2
<1>3. ASSUME messages' \subseteq messages, UNCHANGED <<router, tokens, dead>> PROVE TokensKnown'
  BY <1>1, <1>3
<1>4. ASSUME NEW m \in messages, Reserve(m) PROVE TokensKnown'
  <2>1. /\ m.pc = "queued" /\ UNCHANGED <<router, tokens, dead>>
        /\ (\E n : Becomes(m, n) /\ n.pc = "send" /\ n.outcome = m.outcome) \/ Leaves(m)
    BY <1>4, ReserveStep
  <2>2. CASE Leaves(m)
    BY <1>3, <2>1, <2>2 DEF Leaves
  <2>3. ASSUME NEW n, Becomes(m, n), n.pc = "send", n.outcome = m.outcome PROVE TokensKnown'
    BY <1>0, <1>2, <2>1, <2>3
  <2>. QED
    BY <2>1, <2>2, <2>3
<1>5. ASSUME NEW m \in messages, SendFcm(m) PROVE TokensKnown'
  <2>1. PICK n : /\ Becomes(m, n) /\ n.pc = "finalize"
                 /\ n.outcome = "token_invalid" => <<m.device, m.token>> \in dead
    BY <1>5, SendFcmStep
  <2>2. UNCHANGED <<router, tokens, dead>>
    BY <1>5, SendFcmStep
  <2>. QED
    BY <1>2, <2>1, <2>2
<1>6. ASSUME NEW m \in messages, Finalize(m) PROVE TokensKnown'
  <2>1. /\ UNCHANGED <<router, tokens, dead>>
        /\ \/ /\ m.outcome = "token_invalid"
              /\ \E n : Becomes(m, n) /\ n.pc = "drop" /\ n.outcome = m.outcome
           \/ \E n : Becomes(m, n) /\ n.pc = "queued" /\ n.outcome = "none"
           \/ Leaves(m)
    BY <1>6, FinalizeStep
  <2>2. CASE Leaves(m)
    BY <1>3, <2>1, <2>2 DEF Leaves
  <2>3. ASSUME NEW n, Becomes(m, n), m.outcome = "token_invalid" \/
                      (n.pc = "queued" /\ n.outcome = "none")
        PROVE  TokensKnown'
    BY <1>0, <1>2, <2>1, <2>3
  <2>. QED
    BY <2>1, <2>2, <2>3
<1>7. ASSUME NEW m \in messages, DropToken(m) PROVE TokensKnown'
  <2>1. /\ m.pc = "drop" /\ UNCHANGED <<router, dead>> /\ messages' = messages \ {m}
        /\ \A k \in Device : tokens'[k].token = tokens[k].token
        /\ \A k \in Device \ {m.device} : tokens'[k] = tokens[k]
    BY <1>7, DropTokenStep DEF Leaves
  <2>2. \A target \in router.todo : target[1] \in Device
    BY DEF PushTyped, Router
  <2>3. <<m.device, tokens[m.device].token>> \in dead
    BY <1>0, <2>1
  <2>4. \A k \in Device : ~tokens'[k].active => <<k, tokens'[k].token>> \in dead'
    BY <1>0, <2>1, <2>3
  <2>. QED
    BY <1>0, <2>1, <2>2, <2>4 DEF TokensKnown
<1>8. ASSUME NEW m \in messages, LoseHandler(m) PROVE TokensKnown'
  <2>1. PICK n : Becomes(m, n) /\ n.pc = "queued" /\ n.outcome = "none"
    BY <1>8, LoseHandlerStep
  <2>2. UNCHANGED <<router, tokens, dead>>
    BY <1>8, LoseHandlerStep
  <2>. QED
    BY <1>2, <2>1, <2>2
<1>9. ASSUME NEW m \in messages, Duplicate(m) PROVE TokensKnown'
  <2>1. PICK n : Arrive({n}) /\ n.device = m.device /\ n.token = m.token
    BY <1>9, DuplicateStep
  <2>2. UNCHANGED <<router, tokens, dead>>
    BY <1>9, DuplicateStep
  <2>3. \A x \in messages' \ messages : x = n
    BY <2>1 DEF Arrive
  <2>4. n.pc = "queued" /\ n.outcome = "none"
    BY <2>1 DEF Arrive
  <2>. QED
    BY <1>0, <1>1, <2>1, <2>2, <2>3, <2>4
<1>10. CASE SendBatch
  <2>1. PICK sent, batch :
                 /\ Arrive(sent) /\ batch \subseteq router.todo
                 /\ \A n \in sent : <<n.device, n.token>> \in batch
                 /\ router'.todo = router.todo \ batch
    BY <1>10, SendBatchStep
  <2>2. UNCHANGED <<tokens, dead>>
    BY <1>10, SendBatchStep
  <2>3. ASSUME NEW n \in messages' \ messages
        PROVE  n.token = tokens[n.device].token /\ n.pc = "queued" /\ n.outcome = "none"
    <3>1. n \in sent /\ n.pc = "queued" /\ n.outcome = "none"
      BY <2>1, <2>3 DEF Arrive
    <3>2. <<n.device, n.token>> \in router.todo
      BY <2>1, <3>1
    <3>3. \A a, b : <<a, b>> \in router.todo => b = tokens[a].token
      BY <1>0
    <3>. QED
      BY <3>1, <3>2, <3>3
  <2>. QED
    BY <1>1, <2>1, <2>2, <2>3
<1>11. CASE Route
  BY <1>0, <1>11, RouteStep DEF TokensKnown
<1>12. CASE RouterFails
  BY <1>1, <1>12, RouterFailsStep
<1>13. ASSUME NEW k \in Device, Register(k) \/ Unregister(k) \/ Uninstall(k) PROVE TokensKnown'
  <2>1. /\ UNCHANGED <<router, messages>> /\ dead \subseteq dead'
        /\ \A j \in Device \ {k} : tokens'[j] = tokens[j]
        /\ \/ /\ tokens'[k].active /\ <<k, tokens[k].token>> \notin router.todo
              /\ \A m \in messages : m.device # k
           \/ UNCHANGED tokens
    BY <1>0, <1>13, DeviceStep
  <2>2. CASE UNCHANGED tokens
    BY <1>0, <2>1, <2>2 DEF TokensKnown
  <2>3. CASE /\ tokens'[k].active /\ <<k, tokens[k].token>> \notin router.todo
             /\ \A m \in messages : m.device # k
    <3>1. ASSUME NEW target \in router.todo PROVE target[2] = tokens'[target[1]].token
      <4>1. target[1] \in Device /\ target = <<target[1], target[2]>>
        BY DEF PushTyped, Router
      <4>2. target[1] # k
        BY <1>0, <2>3, <4>1
      <4>. QED
        BY <1>0, <2>1, <4>1, <4>2
    <3>. QED
      BY <1>0, <2>1, <2>3, <3>1 DEF TokensKnown
  <2>. QED
    BY <2>1, <2>2, <2>3
<1>14. CASE PushNext
  BY <1>14, <1>4, <1>5, <1>6, <1>7, <1>8, <1>9, <1>10, <1>11, <1>12, <1>13 DEF PushNext
<1>15. CASE ~PushNext
  BY <1>1, <1>15, PushRests
<1>. QED
  BY <1>14, <1>15

-----------------------------------------------------------------------------
(* The theorems *)

\* The invariant of the three paths together.
Sound ==
    /\ SharedTyped /\ NotifierTyped /\ PrTyped /\ PushTyped
    /\ NotifierSound /\ PullRequestSound
    /\ ReservedOnce /\ EveryDeviceServed /\ TokensKnown

\* The invariants hold in every reachable state.
LEMMA SoundInvariant == Spec => []Sound
<1>1. Init => Sound
  <2>1. Init => SharedTyped
    BY Bounds DEF Init, SharedTyped, Gap
  <2>. QED
    BY <2>1, InitNotifierSound, InitPullRequestSound, InitPush, InitEveryDeviceServed,
       InitTokensKnown DEF Sound
<1>2. Sound /\ [Next]_vars => Sound'
  <2>. SUFFICES ASSUME Sound, [Next]_vars PROVE Sound'
    OBVIOUS
  <2>. USE DEF Sound
  <2>1. SharedTyped'
    <3>1. faults' \in 0..MaxFaults /\ gaps' \subseteq Gap
      BY HistoryGrows
    <3>2. agent' \in {"push", "pr", "notify", "done"} /\ incident' \in BOOLEAN
      BY NotifyStays, PrStays, PushStays DEF Next, SharedTyped, SendPush, SendPullRequest,
         SendNotifications, DispatchFails, Wipe, vars
    <3>. QED
      BY <3>1, <3>2 DEF SharedTyped
  <2>2. NotifierTyped' /\ NotifierSound'
    BY NextNotifierSound
  <2>3. PrTyped' /\ PullRequestSound'
    BY NextPullRequestSound
  <2>4. PushTyped' /\ ReservedOnce'
    BY NextReservedOnce
  <2>5. EveryDeviceServed' /\ TokensKnown'
    BY NextEveryDeviceServed, NextTokensKnown
  <2>. QED
    BY <2>1, <2>2, <2>3, <2>4, <2>5
<1>. QED
  BY <1>1, <1>2, PTL DEF Spec

\* Nobody is alerted twice: a channel accepts one request for a delivery unless an execution
\* ended between the request and the commit of its outcome, and a device gets one push,
\* whatever is retried, delivered again, duplicated, fanned out anew or lost.
THEOREM NobodyAlertedTwice == Spec => []AlertedOnce
<1>1. Sound => AlertedOnce
  <2>. SUFFICES ASSUME Sound PROVE AlertedOnce
    OBVIOUS
  <2>1. \A d \in Delivery : notify[d].retries <= MaxRetries /\ posts[d] <= 1 + MaxFaults
    <3>. SUFFICES ASSUME NEW d \in Delivery
                  PROVE  notify[d].retries <= MaxRetries /\ posts[d] <= 1 + MaxFaults
      OBVIOUS
    <3>1. notify[d].retries <= MaxRetries
      BY Bounds DEF Sound, NotifierTyped, NotifyTask
    <3>2. posts[d] <= faults + 1 /\ posts[d] \in Nat
      BY DEF Sound, NotifierSound, DeliverySound, NotifierTyped
    <3>3. faults <= MaxFaults /\ faults \in Nat /\ MaxFaults \in Nat
      BY Bounds DEF Sound, SharedTyped
    <3>. QED
      BY <3>1, <3>2, <3>3
  <2>2. pr.retries <= MaxRetries
    BY Bounds DEF Sound, PrTyped, PrTask
  <2>3. TypeOK
    BY <2>1, <2>2 DEF TypeOK, Sound, SharedTyped, NotifierTyped, PrTyped, PushTyped, PrOutcome
  <2>4. PostedOnce
    BY DEF PostedOnce, Sound, NotifierSound, DeliverySound
  <2>5. PushedOnce
    BY DEF PushedOnce, Sound, ReservedOnce
  <2>. QED
    BY <2>3, <2>4, <2>5 DEF AlertedOnce
<1>. QED
  BY <1>1, SoundInvariant, PTL

\* Nothing that was to be sent is left without an outcome on the pages that show it: the
\* delivery, the pull request and the push to every device, unless an execution ended at one of
\* the points the code does not recover from, or SQS refused one entry of a batch.
THEOREM OutcomesAreKnown == Spec => []OutcomesKnown
<1>1. Sound => OutcomesKnown
  <2>. SUFFICES ASSUME Sound PROVE OutcomesKnown
    OBVIOUS
  <2>1. DeliveryDecided
    BY DEF DeliveryDecided, Sound, NotifierSound, DeliverySound
  <2>2. PullRequestKnown
    BY DEF PullRequestKnown, Sound, PullRequestSound, PrAgrees, Shows
  <2>3. PushAccounted
    <3>. SUFFICES ASSUME router.pc = "done", messages = {},
                         gaps \cap {"lost push", "unqueued", "unregistered"} = {}, NEW k \in Device
                  PROVE  /\ pushLog[k] \notin {"none", "pending"}
                         /\ pushLog[k] = "token_invalid" /\ tokens[k].token = 1
                            => ~tokens[k].active
      BY DEF PushAccounted
    <3>1. Served(k) /\ \A at : ~OnItsWay(k, at)
      BY DEF Sound, EveryDeviceServed, OnItsWay
    <3>. QED
      BY <3>1 DEF Served
  <2>. QED
    BY <2>1, <2>2, <2>3 DEF OutcomesKnown
<1>. QED
  BY <1>1, SoundInvariant, PTL

\* A token the user did not remove is deactivated only when the provider refused it, unless the
\* device was registered again while its message was on the way.
THEOREM OnlyDeadDropped == Spec => []OnlyDeadTokensDropped
<1>1. Sound => OnlyDeadTokensDropped
  BY DEF Sound, TokensKnown, OnlyDeadTokensDropped
<1>. QED
  BY <1>1, SoundInvariant, PTL
=============================================================================
