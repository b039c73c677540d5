------------------------ MODULE TenantConfig_proofs ------------------------
(***************************************************************************)
(* Theorems about TenantConfig and Accounts, for every set of billing      *)
(* events, webhook requests, keys, e-mails, invitations, sessions and      *)
(* workers.                                                                *)
(*                                                                         *)
(* TenantConfig: a billing event takes effect at most once, the suspension *)
(* flag says what the status column says, and the plan of DB-2 is the plan *)
(* of DB-1 once the topic is drained.  Every requirement of an open window *)
(* in the code is part of a premise - a writer that overlapped another, a  *)
(* request that ended half way - so the invariants first say what such a   *)
(* history excludes (Alone), and then what each step of the only writer    *)
(* owes.                                                                   *)
(*                                                                         *)
(* Accounts: the team, its invitations, its sessions and its counters stay *)
(* consistent with each other and with what users were told.  A request    *)
(* is a stale copy of the rows it loaded; HeldAlone says that on a row     *)
(* without a recorded race it is the only copy, and the other parts of     *)
(* AccountsKept say what that copy is then worth.                          *)
(***************************************************************************)
EXTENDS TenantConfig, Accounts, FiniteSetTheorems, TLAPS

Row == [plan : Plan, status : Status]
KeyEvent == [key : Key, active : BOOLEAN]
Partition == {"tenants", "keys"}

HookState ==
    {IdleHook}
    \cup [pc : {"log", "load"}, event : Event] \cup [pc : {"after"}, event : Cause]
    \cup [pc : {"save", "payload"}, event : Cause, row : Row]
    \cup [pc : {"send"}, event : Cause, payload : Config]

ReaderState ==
    [pc : {"idle", "flag", "row"}] \cup [pc : {"keyRow", "keyFill"}, key : Key]
    \cup [pc : {"fill"}, row : Config]

DjangoTyped ==
    /\ tenant \in Row
    /\ logged \subseteq Event
    /\ hook \in [Hook -> HookState]
    /\ sync = IdleHook \/ (sync.pc = "fetch" /\ sync.row \in Row)
    /\ activeKeys \subseteq Key /\ created \in Seq(Key) /\ revoking \subseteq Key
    /\ flag \in BOOLEAN /\ clock \in Nat
    /\ topic \in [tenants : Seq(Config), keys : Seq(KeyEvent)]
    /\ effects \in [Event -> Nat]
    /\ overlapped \in BOOLEAN /\ tied \in BOOLEAN
BoundsTyped ==
    /\ syncs \in Nat /\ payments \in Nat /\ crashes \in Nat
    /\ failures \in Nat /\ restarts \in Nat
ConsumerTyped ==
    /\ committed \in [Partition -> Nat] /\ position \in [Partition -> Nat]
    /\ handling.pc = "cacheKey" => handling.event \in KeyEvent
    /\ snapshot \in Config \cup {NoConfig}
    /\ keyRow \in [Key -> {"none", "active", "inactive"}]
    /\ \A p \in Partition : committed[p] <= position[p] /\ position[p] <= Len(topic[p])
ReaderTyped ==
    /\ config \in Config \cup {NoConfig} /\ keyCache \subseteq Key
    /\ reader \in [Reader -> ReaderState]
Typed == DjangoTyped /\ BoundsTyped /\ ConsumerTyped /\ ReaderTyped

\* What a webhook request holds, by its next step.
LEMMA HookHolds ==
    ASSUME NEW s \in HookState
    PROVE  /\ s.pc \in {"idle", "log", "load", "after", "save", "payload", "send"}
           /\ s.pc = "idle" => s = IdleHook
           /\ s.pc \in {"log", "load"} =>
                 s.event \in Event /\ s \in [pc : {"log", "load"}, event : Event]
           /\ s.pc = "after" => s.event \in Cause
           /\ s.pc \in {"save", "payload"} => s.event \in Cause /\ s.row \in Row
           /\ s.pc = "send" => s.event \in Cause /\ s.payload \in Config
BY DEF HookState, IdleHook

\* The places of a webhook.
LEMMA HookStates ==
    /\ IdleHook \in HookState /\ IdleHook.pc = "idle"
    /\ \A e \in Event, to \in {"log", "load"} :
          /\ [pc |-> to, event |-> e] \in HookState
          /\ [pc |-> to, event |-> e].pc = to /\ [pc |-> to, event |-> e].event = e
    /\ \A e \in Cause :
          /\ [pc |-> "after", event |-> e] \in HookState
          /\ [pc |-> "after", event |-> e].pc = "after" /\ [pc |-> "after", event |-> e].event = e
    /\ \A e \in Cause, row \in Row, to \in {"save", "payload"} :
          /\ [pc |-> to, event |-> e, row |-> row] \in HookState
          /\ [pc |-> to, event |-> e, row |-> row].pc = to
          /\ [pc |-> to, event |-> e, row |-> row].event = e
          /\ [pc |-> to, event |-> e, row |-> row].row = row
    /\ \A e \in Cause, ev \in Config :
          /\ [pc |-> "send", event |-> e, payload |-> ev] \in HookState
          /\ [pc |-> "send", event |-> e, payload |-> ev].pc = "send"
          /\ [pc |-> "send", event |-> e, payload |-> ev].event = e
          /\ [pc |-> "send", event |-> e, payload |-> ev].payload = ev
BY DEF HookState, IdleHook

\* A step of one webhook request leaves the others where they are.
Goes(h, s) == hook'[h] = s /\ \A g \in Hook \ {h} : hook'[g] = hook[g]

\* A webhook goes from one place to the next.
LEMMA HookGoes ==
    ASSUME DjangoTyped, NEW h \in Hook, NEW s \in HookState, Step(h, s)
    PROVE  Goes(h, s) /\ hook' \in [Hook -> HookState] /\ hook[h] \in HookState
BY DEF DjangoTyped, Step, Goes

\* The values a billing event or a payment gives the row of the tenant.
LEMMA RowWritten ==
    ASSUME DjangoTyped, NEW e \in Cause, NEW row \in Row
    PROVE  Applied(e, row) \in Row /\ Written(e, Applied(e, row)) \in Row
<1>1. e \in Restores \/ e \in Halts \/ e \in Cancels \/ e = "payment"
  BY DEF Cause, Event
<1>2. tenant \in Row
  BY DEF DjangoTyped
<1>3. \A s : s \in Row => /\ [s EXCEPT !.status = "suspended"] \in Row
                          /\ [s EXCEPT !.plan = "free"] \in Row
                          /\ [s EXCEPT !.plan = "pro"] \in Row
  BY DEF Row, Plan, Status
<1>4. [plan |-> "pro", status |-> "active"] \in Row
  BY DEF Row, Plan, Status
<1>5. Applied(e, row) \in Row
  BY <1>1, <1>3, <1>4 DEF Applied
<1>6. \A s : s \in Row => /\ [tenant EXCEPT !.status = s.status] \in Row
                          /\ [tenant EXCEPT !.plan = s.plan] \in Row
  BY <1>2 DEF Row
<1>. QED
  BY <1>1, <1>5, <1>6 DEF Written

\* An event carries the plan and the suspension of its row.
LEMMA Stamped ==
    ASSUME NEW row \in Row, NEW tick \in 0..1, clock \in Nat
    PROVE  /\ Stamp(row, tick) \in Config
           /\ Stamp(row, tick).plan = row.plan /\ Stamp(row, tick).version = clock + tick
BY DEF Stamp, Config, Row

-----------------------------------------------------------------------------
(* The steps of Django *)

\* An event reaches a partition of the topic.
Sends(p, ev) ==
    /\ topic'[p] = Append(topic[p], ev)
    /\ \A q \in Partition \ {p} : topic'[q] = topic[q]

\* The topic with one message more.
LEMMA TopicSends ==
    ASSUME DjangoTyped
    PROVE  /\ \A ev \in Config :
                 topic' = [topic EXCEPT !.tenants = Append(@, ev)] =>
                    Sends("tenants", ev) /\ topic' \in [tenants : Seq(Config), keys : Seq(KeyEvent)]
           /\ \A ev \in KeyEvent :
                 topic' = [topic EXCEPT !.keys = Append(@, ev)] =>
                    Sends("keys", ev) /\ topic' \in [tenants : Seq(Config), keys : Seq(KeyEvent)]
<1>1. /\ topic \in [tenants : Seq(Config), keys : Seq(KeyEvent)]
      /\ topic.tenants \in Seq(Config) /\ topic.keys \in Seq(KeyEvent)
  BY DEF DjangoTyped
<1>2. ASSUME NEW ev \in Config, topic' = [topic EXCEPT !.tenants = Append(@, ev)]
      PROVE  Sends("tenants", ev) /\ topic' \in [tenants : Seq(Config), keys : Seq(KeyEvent)]
  <2>. DEFINE log == Append(topic.tenants, ev)
  <2>1. log \in Seq(Config)
    BY <1>1
  <2>2. topic' = [topic EXCEPT !.tenants = log]
    BY <1>2
  <2>. HIDE DEF log
  <2>3. topic'.tenants = log /\ topic'.keys = topic.keys
        /\ topic' \in [tenants : Seq(Config), keys : Seq(KeyEvent)]
    BY <1>1, <2>1, <2>2
  <2>. QED
    BY <2>3 DEF Sends, Partition, log
<1>3. ASSUME NEW ev \in KeyEvent, topic' = [topic EXCEPT !.keys = Append(@, ev)]
      PROVE  Sends("keys", ev) /\ topic' \in [tenants : Seq(Config), keys : Seq(KeyEvent)]
  <2>. DEFINE log == Append(topic.keys, ev)
  <2>1. log \in Seq(KeyEvent)
    BY <1>1
  <2>2. topic' = [topic EXCEPT !.keys = log]
    BY <1>3
  <2>. HIDE DEF log
  <2>3. topic'.keys = log /\ topic'.tenants = topic.tenants
        /\ topic' \in [tenants : Seq(Config), keys : Seq(KeyEvent)]
    BY <1>1, <2>1, <2>2
  <2>. QED
    BY <2>3 DEF Sends, Partition, log
<1>. QED
  BY <1>2, <1>3

\* What the steps of the webhooks leave alone.
KeysRest == UNCHANGED <<activeKeys, created, revoking>>
BoundsRest == UNCHANGED <<syncs, payments, crashes, failures, restarts>>

\* A webhook takes an event.
LEMMA ReceiveStep ==
    ASSUME DjangoTyped, NEW h \in Hook, NEW e \in Event, ReceiveEvent(h, e)
    PROVE  /\ hook[h].pc = "idle" /\ hook'[h].pc = "log" /\ hook'[h].event = e
           /\ \A g \in Hook \ {h} : hook'[g] = hook[g]
           /\ overlapped' = (overlapped \/ Writers # {})
           /\ UNCHANGED <<tenant, logged, sync, flag, clock, topic, effects, tied>>
           /\ BoundsRest /\ DjangoTyped'
<1>. DEFINE s == [pc |-> "log", event |-> e]
<1>1. s \in HookState /\ s.pc = "log" /\ s.event = e
  BY HookStates
<1>2. /\ ~Busy(h) /\ Step(h, s) /\ NoteOverlap /\ KeysRest /\ BoundsRest
      /\ UNCHANGED <<tenant, logged, sync, flag, clock, topic, effects, tied>>
  BY DEF ReceiveEvent, KeysRest, BoundsRest, bounds
<1>. HIDE DEF s
<1>3. Goes(h, s) /\ hook' \in [Hook -> HookState]
  BY <1>1, <1>2, HookGoes
<1>. QED
  BY <1>1, <1>2, <1>3 DEF DjangoTyped, Goes, KeysRest, NoteOverlap, Busy

\* It goes on with an event it has not logged before.
LEMMA LogStep ==
    ASSUME DjangoTyped, NEW h \in Hook, LogEvent(h)
    PROVE  /\ hook[h].pc = "log" /\ hook[h].event \in Event
           /\ logged' = logged \cup {hook[h].event}
           /\ \/ hook[h].event \in logged /\ hook'[h].pc = "idle"
              \/ /\ hook[h].event \notin logged
                 /\ hook'[h].pc = "load" /\ hook'[h].event = hook[h].event
           /\ \A g \in Hook \ {h} : hook'[g] = hook[g]
           /\ UNCHANGED <<tenant, sync, flag, clock, topic, effects, overlapped, tied>>
           /\ BoundsRest /\ DjangoTyped'
<1>. DEFINE e == hook[h].event
            s == [hook[h] EXCEPT !.pc = "load"]
<1>1. /\ hook[h].pc = "log" /\ logged' = logged \cup {e}
      /\ Step(h, IF e \in logged THEN IdleHook ELSE s) /\ KeysRest /\ BoundsRest
      /\ UNCHANGED <<tenant, sync, flag, clock, topic, effects, overlapped, tied>>
  BY DEF LogEvent, KeysRest, BoundsRest, bounds, history
<1>2. hook[h] \in HookState
  BY DEF DjangoTyped
<1>3. e \in Event /\ hook[h] \in [pc : {"log", "load"}, event : Event]
  BY <1>1, <1>2, HookHolds
<1>4. s \in [pc : {"log", "load"}, event : Event] /\ s.pc = "load" /\ s.event = e
  BY <1>3
<1>5. s \in HookState /\ IdleHook \in HookState /\ IdleHook.pc = "idle"
  BY <1>4, HookStates DEF HookState
<1>. HIDE DEF e, s
<1>6. CASE e \in logged
  <2>1. Goes(h, IdleHook) /\ hook' \in [Hook -> HookState]
    BY <1>1, <1>5, <1>6, HookGoes
  <2>. QED
    BY <1>1, <1>3, <1>5, <1>6, <2>1 DEF DjangoTyped, Goes, KeysRest, e
<1>7. CASE e \notin logged
  <2>1. Goes(h, s) /\ hook' \in [Hook -> HookState]
    BY <1>1, <1>5, <1>7, HookGoes
  <2>. QED
    BY <1>1, <1>3, <1>4, <1>7, <2>1 DEF DjangoTyped, Goes, KeysRest, e
<1>. QED
  BY <1>6, <1>7

\* It loads the row.
LEMMA LoadStep ==
    ASSUME DjangoTyped, NEW h \in Hook, LoadTenant(h)
    PROVE  /\ hook[h].pc = "load" /\ hook'[h].pc = "save"
           /\ hook'[h].event = hook[h].event /\ hook'[h].row = tenant
           /\ \A g \in Hook \ {h} : hook'[g] = hook[g]
           /\ UNCHANGED <<tenant, logged, sync, flag, clock, topic, effects, overlapped, tied>>
           /\ BoundsRest /\ DjangoTyped'
<1>. DEFINE e == hook[h].event
            s == [pc |-> "save", event |-> e, row |-> tenant]
<1>1. /\ hook[h].pc = "load" /\ Step(h, s) /\ KeysRest /\ BoundsRest
      /\ UNCHANGED <<tenant, logged, sync, flag, clock, topic, effects, overlapped, tied>>
  BY DEF LoadTenant, KeysRest, BoundsRest, bounds, history
<1>2. hook[h] \in HookState /\ tenant \in Row
  BY DEF DjangoTyped
<1>3. e \in Cause
  BY <1>1, <1>2, HookHolds DEF Cause
<1>4. s \in HookState /\ s.pc = "save" /\ s.event = e /\ s.row = tenant
  BY <1>2, <1>3, HookStates
<1>. HIDE DEF s
<1>5. Goes(h, s) /\ hook' \in [Hook -> HookState]
  BY <1>1, <1>4, HookGoes
<1>. QED
  BY <1>1, <1>4, <1>5 DEF DjangoTyped, Goes, KeysRest

\* A payment loads the row, and has no event to log.
LEMMA VerifyStep ==
    ASSUME DjangoTyped, BoundsTyped, NEW h \in Hook, VerifyPayment(h)
    PROVE  /\ hook[h].pc = "idle" /\ hook'[h].pc = "save"
           /\ hook'[h].event = "payment" /\ hook'[h].row = tenant
           /\ \A g \in Hook \ {h} : hook'[g] = hook[g]
           /\ overlapped' = (overlapped \/ Writers # {})
           /\ UNCHANGED <<tenant, logged, sync, flag, clock, topic, effects, tied>>
           /\ UNCHANGED <<syncs, crashes, failures, restarts>> /\ BoundsTyped' /\ DjangoTyped'
<1>. DEFINE s == [pc |-> "save", event |-> "payment", row |-> tenant]
<1>1. /\ ~Busy(h) /\ Step(h, s) /\ NoteOverlap /\ KeysRest /\ payments' = payments + 1
      /\ UNCHANGED <<tenant, logged, sync, flag, clock, topic, effects, tied>>
      /\ UNCHANGED <<syncs, crashes, failures, restarts>>
  BY DEF VerifyPayment, KeysRest
<1>2. tenant \in Row /\ "payment" \in Cause
  BY DEF DjangoTyped, Cause
<1>3. s \in HookState /\ s.pc = "save" /\ s.event = "payment" /\ s.row = tenant
  BY <1>2, HookStates
<1>. HIDE DEF s
<1>4. Goes(h, s) /\ hook' \in [Hook -> HookState]
  BY <1>1, <1>3, HookGoes
<1>5. BoundsTyped'
  BY <1>1 DEF BoundsTyped
<1>6. DjangoTyped'
  BY <1>1, <1>4 DEF DjangoTyped, KeysRest, NoteOverlap
<1>. QED
  BY <1>1, <1>3, <1>4, <1>5, <1>6 DEF Goes, NoteOverlap, Busy

\* A request saves what it has loaded, with the values of its event or its payment.
LEMMA SaveStep ==
    ASSUME DjangoTyped, NEW h \in Hook, SaveTenant(h)
    PROVE  /\ hook[h].pc = "save" /\ hook[h].event \in Cause /\ hook[h].row \in Row
           /\ LET e == hook[h].event
                  row == Applied(e, hook[h].row)
              IN  /\ tenant' = Written(e, row)
                  /\ effects' = IF e \in Event THEN [effects EXCEPT ![e] = effects[e] + 1]
                                ELSE effects
                  /\ hook'[h].event = e
                  /\ \/ row.plan # tenant.plan /\ hook'[h].pc = "payload" /\ hook'[h].row = row
                     \/ row.plan = tenant.plan /\ hook'[h].pc = "after"
           /\ \A g \in Hook \ {h} : hook'[g] = hook[g]
           /\ UNCHANGED <<logged, sync, flag, clock, topic, overlapped, tied>>
           /\ BoundsRest /\ DjangoTyped'
<1>. DEFINE e == hook[h].event
            row == Applied(e, hook[h].row)
            s == [pc |-> "payload", event |-> e, row |-> row]
            t == [pc |-> "after", event |-> e]
<1>1. /\ hook[h].pc = "save" /\ tenant' = Written(e, row)
      /\ effects' = IF e \in Event THEN [effects EXCEPT ![e] = effects[e] + 1] ELSE effects
      /\ Step(h, IF row.plan # tenant.plan THEN s ELSE t) /\ KeysRest /\ BoundsRest
      /\ UNCHANGED <<logged, sync, flag, clock, topic, overlapped, tied>>
  BY DEF SaveTenant, KeysRest, BoundsRest, bounds
<1>2. hook[h] \in HookState /\ effects \in [Event -> Nat]
  BY DEF DjangoTyped
<1>3. e \in Cause /\ hook[h].row \in Row
  BY <1>1, <1>2, HookHolds
<1>4. row \in Row /\ tenant' \in Row
  BY <1>1, <1>3, RowWritten
<1>5. effects' \in [Event -> Nat]
  BY <1>1, <1>2
<1>. HIDE DEF row
<1>6. /\ s \in HookState /\ s.pc = "payload" /\ s.event = e /\ s.row = row
      /\ t \in HookState /\ t.pc = "after" /\ t.event = e
  BY <1>3, <1>4, HookStates
<1>. HIDE DEF e, s, t
<1>7. CASE row.plan # tenant.plan
  <2>1. Goes(h, s) /\ hook' \in [Hook -> HookState]
    BY <1>1, <1>6, <1>7, HookGoes
  <2>2. DjangoTyped'
    BY <1>1, <1>4, <1>5, <2>1 DEF DjangoTyped, KeysRest
  <2>. QED
    BY <1>1, <1>3, <1>6, <1>7, <2>1, <2>2 DEF Goes, e, row
<1>8. CASE row.plan = tenant.plan
  <2>1. Goes(h, t) /\ hook' \in [Hook -> HookState]
    BY <1>1, <1>6, <1>8, HookGoes
  <2>2. DjangoTyped'
    BY <1>1, <1>4, <1>5, <2>1 DEF DjangoTyped, KeysRest
  <2>. QED
    BY <1>1, <1>3, <1>6, <1>8, <2>1, <2>2 DEF Goes, e, row
<1>. QED
  BY <1>7, <1>8

\* It builds the payload from its copy of the row.
LEMMA BuildStep ==
    ASSUME DjangoTyped, NEW h \in Hook, BuildPayload(h)
    PROVE  /\ hook[h].pc = "payload" /\ hook'[h].pc = "send"
           /\ hook'[h].event = hook[h].event
           /\ hook'[h].payload.plan = hook[h].row.plan /\ hook'[h].payload.version = clock'
           /\ \/ clock' = clock /\ tied'
              \/ clock' = clock + 1 /\ tied' = tied
           /\ \A g \in Hook \ {h} : hook'[g] = hook[g]
           /\ UNCHANGED <<tenant, logged, sync, flag, topic, effects, overlapped>>
           /\ BoundsRest /\ DjangoTyped'
<1>1. PICK tick \in 0..1 :
        /\ ReadClock(tick)
        /\ Step(h, [pc |-> "send", event |-> hook[h].event,
                    payload |-> Stamp(hook[h].row, tick)])
  BY DEF BuildPayload
<1>. DEFINE e == hook[h].event
            ev == Stamp(hook[h].row, tick)
            s == [pc |-> "send", event |-> e, payload |-> ev]
<1>2. /\ hook[h].pc = "payload" /\ KeysRest /\ BoundsRest
      /\ UNCHANGED <<tenant, logged, sync, flag, topic, effects, overlapped>>
  BY DEF BuildPayload, KeysRest, BoundsRest, bounds
<1>3. hook[h] \in HookState /\ clock \in Nat /\ tied \in BOOLEAN
  BY DEF DjangoTyped
<1>4. e \in Cause /\ hook[h].row \in Row
  BY <1>2, <1>3, HookHolds
<1>5. ev \in Config /\ ev.plan = hook[h].row.plan /\ ev.version = clock + tick
  BY <1>3, <1>4, Stamped
<1>6. /\ clock' = clock + tick /\ clock' \in Nat /\ tied' \in BOOLEAN
      /\ (clock' = clock /\ tied') \/ (clock' = clock + 1 /\ tied' = tied)
  <2>1. clock' = clock + tick /\ clock' \in Nat /\ (tick = 0 \/ tick = 1)
    BY <1>1, <1>3 DEF ReadClock
  <2>2. tied' \in BOOLEAN /\ tied' = (tied \/ tick = 0)
    BY Zenon, <1>1 DEF ReadClock
  <2>3. CASE tick = 0
    <3>1. clock' = clock
      BY <1>3, <2>1, <2>3
    <3>. QED
      BY Zenon, <2>1, <2>2, <2>3, <3>1
  <2>4. CASE tick = 1
    <3>1. clock' = clock + 1 /\ tick # 0
      BY <2>1, <2>4
    <3>2. tied' = tied
      BY Zenon, <1>3, <2>2, <3>1
    <3>. QED
      BY <2>1, <2>2, <3>1, <3>2
  <2>. QED
    BY <2>1, <2>3, <2>4
<1>. HIDE DEF ev
<1>7. /\ s \in HookState /\ s.pc = "send" /\ s.event = e /\ s.payload = ev
  BY <1>4, <1>5, HookStates
<1>8. Step(h, s)
  BY <1>1 DEF ev
<1>. HIDE DEF s
<1>9. Goes(h, s) /\ hook' \in [Hook -> HookState]
  BY <1>7, <1>8, HookGoes
<1>10. DjangoTyped'
  BY <1>2, <1>6, <1>9 DEF DjangoTyped, KeysRest
<1>. QED
  BY <1>2, <1>5, <1>6, <1>7, <1>9, <1>10 DEF Goes

\* It sends the payload.
LEMMA SendStep ==
    ASSUME DjangoTyped, NEW h \in Hook, SendPlan(h)
    PROVE  /\ hook[h].pc = "send" /\ hook[h].payload \in Config
           /\ hook'[h].pc = "after" /\ hook'[h].event = hook[h].event
           /\ Sends("tenants", hook[h].payload)
           /\ \A g \in Hook \ {h} : hook'[g] = hook[g]
           /\ UNCHANGED <<tenant, logged, sync, flag, clock, effects, overlapped, tied>>
           /\ BoundsRest /\ DjangoTyped'
<1>. DEFINE e == hook[h].event
            s == [pc |-> "after", event |-> e]
<1>1. /\ hook[h].pc = "send" /\ Step(h, s) /\ KeysRest /\ BoundsRest
      /\ topic' = [topic EXCEPT !.tenants = Append(@, hook[h].payload)]
      /\ UNCHANGED <<tenant, logged, sync, flag, clock, effects, overlapped, tied>>
  BY DEF SendPlan, KeysRest, BoundsRest, bounds, history
<1>2. hook[h] \in HookState
  BY DEF DjangoTyped
<1>3. e \in Cause /\ hook[h].payload \in Config
  BY <1>1, <1>2, HookHolds
<1>4. s \in HookState /\ s.pc = "after" /\ s.event = e
  BY <1>3, HookStates
<1>. HIDE DEF s
<1>5. Goes(h, s) /\ hook' \in [Hook -> HookState]
  BY <1>1, <1>4, HookGoes
<1>6. Sends("tenants", hook[h].payload) /\ topic' \in [tenants : Seq(Config), keys : Seq(KeyEvent)]
  BY <1>1, <1>3, TopicSends
<1>7. DjangoTyped'
  BY <1>1, <1>5, <1>6 DEF DjangoTyped, KeysRest
<1>. QED
  BY <1>1, <1>3, <1>4, <1>5, <1>6, <1>7 DEF Goes

\* It sets or clears the flag of the tenant.
LEMMA AfterStep ==
    ASSUME DjangoTyped, NEW h \in Hook, AfterSave(h)
    PROVE  /\ hook[h].pc = "after" /\ hook[h].event \in Cause /\ hook'[h].pc = "idle"
           /\ hook[h].event \in Halts => flag'
           /\ hook[h].event \in Restores /\ hook[h].event \notin Halts => ~flag'
           /\ hook[h].event \notin Halts \cup Restores => flag' = flag
           /\ \A g \in Hook \ {h} : hook'[g] = hook[g]
           /\ UNCHANGED <<tenant, logged, sync, clock, topic, effects, overlapped, tied>>
           /\ BoundsRest /\ DjangoTyped'
<1>. DEFINE e == hook[h].event
            active == {i \in 1..Len(created) : created[i] \in activeKeys}
            kept == {i \in active : Cardinality({j \in active : j < i}) < FreeKeys}
            few == {created[i] : i \in kept}
<1>1. /\ hook[h].pc = "after" /\ Step(h, IdleHook) /\ UNCHANGED <<created, revoking>>
      /\ flag' = IF e \in Halts THEN TRUE ELSE IF e \in Restores THEN FALSE ELSE flag
      /\ activeKeys' = IF e \in Cancels THEN few ELSE activeKeys
      /\ UNCHANGED <<tenant, logged, sync, clock, topic, effects, overlapped, tied>>
      /\ BoundsRest
  BY DEF AfterSave, BoundsRest, bounds, history
<1>2. hook[h] \in HookState /\ flag \in BOOLEAN /\ created \in Seq(Key) /\ activeKeys \subseteq Key
  BY DEF DjangoTyped
<1>3. e \in Cause /\ IdleHook \in HookState /\ IdleHook.pc = "idle"
  BY <1>1, <1>2, HookHolds, HookStates
<1>4. Goes(h, IdleHook) /\ hook' \in [Hook -> HookState]
  BY <1>1, <1>3, HookGoes
<1>5. few \subseteq Key
  BY <1>2
<1>. HIDE DEF few, kept, active
<1>6. flag' \in BOOLEAN /\ activeKeys' \subseteq Key
  BY <1>1, <1>2, <1>5
<1>7. DjangoTyped'
  BY <1>1, <1>4, <1>6 DEF DjangoTyped
<1>. QED
  BY <1>1, <1>3, <1>4, <1>7 DEF Goes

\* It is lost.
LEMMA CrashHookStep ==
    ASSUME DjangoTyped, BoundsTyped, NEW h \in Hook, CrashHook(h)
    PROVE  /\ crashes' # 0 /\ hook'[h].pc = "idle"
           /\ \A g \in Hook \ {h} : hook'[g] = hook[g]
           /\ UNCHANGED <<tenant, logged, sync, flag, clock, topic, effects, overlapped, tied>>
           /\ UNCHANGED <<syncs, payments, failures, restarts>> /\ BoundsTyped' /\ DjangoTyped'
<1>1. /\ Step(h, IdleHook) /\ crashes' = crashes + 1 /\ KeysRest
      /\ UNCHANGED <<tenant, logged, sync, flag, clock, topic, effects, overlapped, tied>>
      /\ UNCHANGED <<syncs, payments, failures, restarts>>
  BY DEF CrashHook, KeysRest, history
<1>2. Goes(h, IdleHook) /\ hook' \in [Hook -> HookState] /\ IdleHook.pc = "idle"
  BY <1>1, HookGoes, HookStates
<1>3. crashes' # 0 /\ BoundsTyped'
  BY <1>1 DEF BoundsTyped
<1>. QED
  BY <1>1, <1>2, <1>3 DEF DjangoTyped, KeysRest, Goes

\* sync_plan_status reads the row.
LEMMA StartSyncStep ==
    ASSUME DjangoTyped, BoundsTyped, StartSync
    PROVE  /\ sync.pc = "idle" /\ sync'.pc = "fetch" /\ sync'.row = tenant
           /\ syncs' # 0 /\ overlapped' = (overlapped \/ Writers # {})
           /\ UNCHANGED <<tenant, logged, hook, flag, clock, topic, effects, tied>>
           /\ UNCHANGED <<payments, crashes, failures, restarts>> /\ BoundsTyped' /\ DjangoTyped'
<1>1. /\ sync.pc = "idle" /\ sync' = [pc |-> "fetch", row |-> tenant] /\ syncs' = syncs + 1
      /\ NoteOverlap /\ KeysRest
      /\ UNCHANGED <<tenant, logged, hook, flag, clock, topic, effects, tied>>
      /\ UNCHANGED <<payments, crashes, failures, restarts>>
  BY DEF StartSync, KeysRest
<1>2. syncs' # 0 /\ BoundsTyped'
  BY <1>1 DEF BoundsTyped
<1>3. sync'.pc = "fetch" /\ sync'.row = tenant
  BY <1>1
<1>4. sync'.row \in Row
  BY <1>3 DEF DjangoTyped
<1>. QED
  BY <1>1, <1>2, <1>3, <1>4 DEF DjangoTyped, KeysRest, NoteOverlap

\* The hourly task writes an event only when its loaded plan is not the stored one.
LEMMA SyncStatusStep ==
    ASSUME DjangoTyped, NEW s \in Status, SyncStatus(s)
    PROVE  /\ sync.pc = "fetch" /\ sync'.pc = "idle"
           /\ \/ UNCHANGED tenant
              \/ tenant'.plan = tenant.plan /\ tenant'.status = s
           /\ \/ UNCHANGED <<clock, tied, topic>>
              \/ /\ sync.row.plan # tenant.plan
                 /\ \E ev \in Config : Sends("tenants", ev)
           /\ tied => tied'
           /\ UNCHANGED <<logged, hook, flag, effects, overlapped>>
           /\ BoundsRest /\ DjangoTyped'
<1>1. /\ sync.pc = "fetch" /\ sync' = IdleHook /\ KeysRest /\ BoundsRest
      /\ UNCHANGED <<logged, hook, flag, effects, overlapped>>
      /\ tenant' = tenant \/ tenant' = [tenant EXCEPT !.status = s]
  BY DEF SyncStatus, KeysRest, BoundsRest, bounds
<1>2. tenant \in Row /\ sync.row \in Row /\ clock \in Nat /\ tied \in BOOLEAN
  BY <1>1 DEF DjangoTyped, IdleHook
<1>3. tenant' \in Row
      /\ (UNCHANGED tenant \/ (tenant'.plan = tenant.plan /\ tenant'.status = s))
  BY <1>1, <1>2 DEF Row
<1>4. sync'.pc = "idle" /\ sync' = IdleHook
  BY <1>1 DEF IdleHook
<1>5. CASE UNCHANGED <<clock, tied, topic>>
  <2>1. DjangoTyped'
    BY <1>1, <1>3, <1>4, <1>5 DEF DjangoTyped, KeysRest
  <2>. QED
    BY <1>1, <1>3, <1>4, <1>5, <2>1
<1>6. CASE ~UNCHANGED <<clock, tied, topic>>
  <2>. DEFINE row == [sync.row EXCEPT !.status = s]
  <2>1. PICK tick \in 0..1 :
           /\ row.plan # tenant.plan /\ ReadClock(tick)
           /\ topic' = [topic EXCEPT !.tenants = Append(@, Stamp(row, tick))]
    BY <1>6 DEF SyncStatus
  <2>2. row \in Row /\ row.plan = sync.row.plan
    BY <1>2 DEF Row
  <2>. HIDE DEF row
  <2>3. Stamp(row, tick) \in Config
    BY <1>2, <2>2, Stamped
  <2>4. /\ Sends("tenants", Stamp(row, tick))
        /\ topic' \in [tenants : Seq(Config), keys : Seq(KeyEvent)]
    BY <2>1, <2>3, TopicSends
  <2>5. clock' \in Nat
    BY <1>2, <2>1 DEF ReadClock
  <2>6. tied' \in BOOLEAN /\ (tied => tied')
    BY Zenon, <2>1 DEF ReadClock
  <2>7. DjangoTyped'
    BY <1>1, <1>3, <1>4, <2>4, <2>5, <2>6 DEF DjangoTyped, KeysRest
  <2>. QED
    BY <1>1, <1>3, <1>4, <2>1, <2>2, <2>3, <2>4, <2>6, <2>7
<1>. QED
  BY <1>5, <1>6

\* What the API keys of Django leave alone.
TenantRest ==
    UNCHANGED <<tenant, logged, hook, sync, flag, clock, effects, overlapped, tied>>

\* API keys leave the row and its topic alone.
LEMMA KeyStep ==
    ASSUME DjangoTyped, BoundsTyped, NEW k \in Key,
           CreateKey(k) \/ RevokeKey(k) \/ SendRevocation(k) \/ CrashRevocation(k)
    PROVE  /\ TenantRest /\ topic'["tenants"] = topic["tenants"]
           /\ UNCHANGED topic \/ \E ev \in KeyEvent : Sends("keys", ev)
           /\ crashes <= crashes' /\ UNCHANGED <<syncs, payments, failures, restarts>>
           /\ BoundsTyped' /\ DjangoTyped'
<1>. DEFINE opened == [key |-> k, active |-> TRUE]
            revoked == [key |-> k, active |-> FALSE]
<1>1. opened \in KeyEvent /\ revoked \in KeyEvent
  BY DEF KeyEvent
<1>2. /\ created \in Seq(Key) /\ activeKeys \subseteq Key /\ revoking \subseteq Key
      /\ topic \in [tenants : Seq(Config), keys : Seq(KeyEvent)]
  BY DEF DjangoTyped
<1>. HIDE DEF opened, revoked
<1>3. ASSUME NEW ev \in KeyEvent, topic' = [topic EXCEPT !.keys = Append(@, ev)]
      PROVE  /\ Sends("keys", ev) /\ topic'["tenants"] = topic["tenants"]
             /\ topic' \in [tenants : Seq(Config), keys : Seq(KeyEvent)]
  BY <1>3, TopicSends DEF Sends, Partition
<1>4. CASE CreateKey(k)
  <2>1. /\ TenantRest /\ UNCHANGED revoking /\ BoundsRest
        /\ created' = Append(created, k) /\ activeKeys' = activeKeys \cup {k}
        /\ topic' = [topic EXCEPT !.keys = Append(@, opened)]
    BY <1>4 DEF CreateKey, TenantRest, BoundsRest, bounds, history, opened
  <2>2. created' \in Seq(Key) /\ activeKeys' \subseteq Key
    BY <1>2, <2>1
  <2>3. /\ Sends("keys", opened) /\ topic'["tenants"] = topic["tenants"]
        /\ topic' \in [tenants : Seq(Config), keys : Seq(KeyEvent)]
    BY <1>1, <1>3, <2>1
  <2>4. DjangoTyped'
    BY <2>1, <2>2, <2>3 DEF DjangoTyped, TenantRest
  <2>5. BoundsTyped' /\ crashes <= crashes'
    BY <2>1 DEF BoundsTyped, BoundsRest
  <2>. QED
    BY <1>1, <2>1, <2>3, <2>4, <2>5 DEF BoundsRest
<1>5. CASE RevokeKey(k)
  <2>1. /\ TenantRest /\ UNCHANGED <<created, topic>> /\ BoundsRest
        /\ activeKeys' = activeKeys \ {k} /\ revoking' = revoking \cup {k}
    BY <1>5 DEF RevokeKey, TenantRest, BoundsRest, bounds, history
  <2>2. DjangoTyped'
    BY <2>1 DEF DjangoTyped, TenantRest
  <2>3. BoundsTyped' /\ crashes <= crashes'
    BY <2>1 DEF BoundsTyped, BoundsRest
  <2>. QED
    BY <2>1, <2>2, <2>3 DEF BoundsRest
<1>6. CASE SendRevocation(k)
  <2>1. /\ TenantRest /\ UNCHANGED <<created, activeKeys>> /\ BoundsRest
        /\ revoking' = revoking \ {k}
        /\ topic' = [topic EXCEPT !.keys = Append(@, revoked)]
    BY <1>6 DEF SendRevocation, TenantRest, BoundsRest, bounds, history, revoked
  <2>2. /\ Sends("keys", revoked) /\ topic'["tenants"] = topic["tenants"]
        /\ topic' \in [tenants : Seq(Config), keys : Seq(KeyEvent)]
    BY <1>1, <1>3, <2>1
  <2>3. DjangoTyped'
    BY <2>1, <2>2 DEF DjangoTyped, TenantRest
  <2>4. BoundsTyped' /\ crashes <= crashes'
    BY <2>1 DEF BoundsTyped, BoundsRest
  <2>. QED
    BY <1>1, <2>1, <2>2, <2>3, <2>4 DEF BoundsRest
<1>7. CASE CrashRevocation(k)
  <2>1. /\ TenantRest /\ UNCHANGED <<created, activeKeys, topic>>
        /\ revoking' = revoking \ {k} /\ crashes' = crashes + 1
        /\ UNCHANGED <<syncs, payments, failures, restarts>>
    BY <1>7 DEF CrashRevocation, TenantRest, history
  <2>2. DjangoTyped'
    BY <2>1 DEF DjangoTyped, TenantRest
  <2>3. BoundsTyped' /\ crashes <= crashes'
    BY <2>1 DEF BoundsTyped
  <2>. QED
    BY <2>1, <2>2, <2>3
<1>. QED
  BY <1>4, <1>5, <1>6, <1>7

-----------------------------------------------------------------------------
(* The steps of the consumer and of FastAPI *)

\* The topic only grows, and leaves the consumer within it.
LEMMA ConsumerWithin ==
    ASSUME DjangoTyped, ConsumerTyped, NEW q \in Partition, NEW ev, Sends(q, ev),
           UNCHANGED consumerVars
    PROVE  ConsumerTyped'
<1>1. \A p \in Partition : topic[p] \in Seq(Config) \/ topic[p] \in Seq(KeyEvent)
  BY DEF DjangoTyped, Partition
<1>2. ASSUME NEW p \in Partition PROVE position[p] <= Len(topic'[p])
  <2>1. Len(topic[p]) \in Nat /\ position[p] \in Nat /\ position[p] <= Len(topic[p])
    BY <1>1 DEF ConsumerTyped
  <2>2. topic'[p] = topic[p] \/ Len(topic'[p]) = Len(topic[p]) + 1
    BY <1>1 DEF Sends
  <2>. QED
    BY <2>1, <2>2
<1>. QED
  BY <1>2 DEF ConsumerTyped, consumerVars

\* The consumer takes the next payload unless it is stale.
LEMMA ApplyTenantStep ==
    ASSUME DjangoTyped, ConsumerTyped, ApplyTenant
    PROVE  /\ position["tenants"] < Len(topic["tenants"])
           /\ position'["tenants"] = position["tenants"] + 1
           /\ LET ev == topic["tenants"][position["tenants"] + 1]
              IN  (IsStale(ev) /\ UNCHANGED snapshot) \/ (~IsStale(ev) /\ snapshot' = ev)
           /\ UNCHANGED committed /\ ConsumerTyped'
<1>. DEFINE ev == topic["tenants"][position["tenants"] + 1]
<1>1. /\ position["tenants"] < Len(topic["tenants"])
      /\ position' = [position EXCEPT !["tenants"] = @ + 1]
      /\ \/ IsStale(ev) /\ UNCHANGED snapshot /\ handling' = [pc |-> "commit"]
         \/ ~IsStale(ev) /\ snapshot' = ev /\ handling' = [pc |-> "invalidate"]
      /\ UNCHANGED <<topic, committed, keyRow>>
  BY DEF ApplyTenant, Polls, Advance, NextEvent
<1>2. /\ position \in [Partition -> Nat] /\ "tenants" \in Partition
      /\ topic["tenants"] \in Seq(Config)
  BY DEF ConsumerTyped, DjangoTyped, Partition
<1>3. /\ position' \in [Partition -> Nat] /\ position'["tenants"] = position["tenants"] + 1
      /\ \A p \in Partition \ {"tenants"} : position'[p] = position[p]
  BY <1>1, <1>2
<1>4. ev \in Config
  <2>1. position["tenants"] + 1 \in 1..Len(topic["tenants"])
    BY <1>1, <1>2
  <2>. QED
    BY <1>2, <2>1
<1>. HIDE DEF ev
<1>5. handling'.pc # "cacheKey" /\ snapshot' \in Config \cup {NoConfig}
  BY <1>1, <1>4 DEF ConsumerTyped
<1>6. ASSUME NEW p \in Partition
      PROVE  committed[p] <= position'[p] /\ position'[p] <= Len(topic[p])
  <2>1. /\ committed[p] <= position[p] /\ position[p] <= Len(topic[p])
        /\ committed[p] \in Nat /\ position[p] \in Nat
    BY DEF ConsumerTyped
  <2>2. CASE p = "tenants"
    <3>1. Len(topic["tenants"]) \in Nat
      BY <1>2
    <3>. QED
      BY <1>1, <1>3, <2>1, <2>2, <3>1
  <2>3. CASE p # "tenants"
    BY <1>3, <2>1, <2>3
  <2>. QED
    BY <2>2, <2>3
<1>7. ConsumerTyped'
  BY <1>1, <1>3, <1>5, <1>6 DEF ConsumerTyped
<1>. QED
  BY <1>1, <1>3, <1>7 DEF ev

\* The rest of the consumer does not touch the snapshot of the tenant.
LEMMA ConsumerStep ==
    ASSUME DjangoTyped, BoundsTyped, ConsumerTyped, ReaderTyped,
           Invalidate \/ ApplyKey \/ CacheKey \/ Commit \/ HandlerFails \/ Restart
    PROVE  /\ UNCHANGED snapshot /\ committed'["tenants"] <= position["tenants"]
           /\ \/ position'["tenants"] <= position["tenants"]
              \/ failures' # 0
           /\ failures <= failures' /\ UNCHANGED <<syncs, crashes>>
           /\ BoundsTyped' /\ ConsumerTyped' /\ ReaderTyped'
<1>1. /\ position \in [Partition -> Nat] /\ committed \in [Partition -> Nat]
      /\ "tenants" \in Partition /\ "keys" \in Partition
      /\ \A p \in Partition : /\ committed[p] <= position[p] /\ position[p] <= Len(topic[p])
                              /\ Len(topic[p]) \in Nat
      /\ topic["keys"] \in Seq(KeyEvent)
  BY DEF ConsumerTyped, DjangoTyped, Partition
<1>2. CASE Invalidate \/ Commit
  <2>1. /\ UNCHANGED <<position, snapshot, keyRow, topic, reader, keyCache>> /\ BoundsRest
        /\ handling'.pc # "cacheKey" /\ (committed' = committed \/ committed' = position)
        /\ config' = config \/ config' = NoConfig
    BY <1>2 DEF Invalidate, Commit, BoundsRest, bounds, IdleHook, cacheVars
  <2>2. ConsumerTyped'
    BY <1>1, <2>1 DEF ConsumerTyped
  <2>3. ReaderTyped'
    BY <2>1 DEF ReaderTyped
  <2>. QED
    BY <1>1, <2>1, <2>2, <2>3 DEF BoundsTyped, BoundsRest
<1>3. ASSUME NEW p \in Partition, position[p] < Len(topic[p]),
             position' = [position EXCEPT ![p] = @ + 1]
      PROVE  /\ position' \in [Partition -> Nat]
             /\ \A q \in Partition : committed[q] <= position'[q] /\ position'[q] <= Len(topic[q])
             /\ p # "tenants" => position'["tenants"] = position["tenants"]
  <2>1. /\ position'[p] = position[p] + 1 /\ position' \in [Partition -> Nat]
        /\ \A q \in Partition \ {p} : position'[q] = position[q]
    BY <1>1, <1>3
  <2>2. committed[p] <= position'[p] /\ position'[p] <= Len(topic[p])
    BY <1>1, <1>3, <2>1
  <2>. QED
    BY <1>1, <2>1, <2>2
<1>4. CASE ApplyKey
  <2>. DEFINE ev == topic["keys"][position["keys"] + 1]
  <2>1. /\ position["keys"] < Len(topic["keys"])
        /\ position' = [position EXCEPT !["keys"] = @ + 1]
        /\ keyRow' = [keyRow EXCEPT ![ev.key] = KeyState(ev)]
        /\ handling' = [pc |-> "cacheKey", event |-> ev]
        /\ UNCHANGED <<committed, snapshot, topic, config, keyCache, reader>> /\ BoundsRest
    BY <1>4 DEF ApplyKey, Polls, Advance, NextEvent, cacheVars, BoundsRest, bounds
  <2>2. ev \in KeyEvent
    <3>1. position["keys"] + 1 \in 1..Len(topic["keys"])
      BY <1>1, <2>1
    <3>. QED
      BY <1>1, <3>1
  <2>. HIDE DEF ev
  <2>3. keyRow' \in [Key -> {"none", "active", "inactive"}]
    BY <2>1, <2>2 DEF ConsumerTyped, KeyState
  <2>4. handling'.event \in KeyEvent
    BY <2>1, <2>2
  <2>5. /\ position' \in [Partition -> Nat] /\ position'["tenants"] = position["tenants"]
        /\ \A q \in Partition : committed[q] <= position'[q] /\ position'[q] <= Len(topic[q])
    BY <1>1, <1>3, <2>1
  <2>6. ConsumerTyped'
    BY <2>1, <2>3, <2>4, <2>5 DEF ConsumerTyped
  <2>7. ReaderTyped'
    BY <2>1 DEF ReaderTyped
  <2>. QED
    BY <1>1, <2>1, <2>5, <2>6, <2>7 DEF BoundsTyped, BoundsRest
<1>5. CASE CacheKey
  <2>1. /\ UNCHANGED <<position, committed, snapshot, keyRow, topic, reader, config>>
        /\ BoundsRest /\ handling.pc = "cacheKey" /\ handling'.pc # "cacheKey"
        /\ \/ keyCache' = keyCache \cup {handling.event.key}
           \/ keyCache' = keyCache \ {handling.event.key}
    BY <1>5 DEF CacheKey, BoundsRest, bounds
  <2>2. handling.event.key \in Key
    BY <2>1 DEF ConsumerTyped, KeyEvent
  <2>3. ConsumerTyped' /\ ReaderTyped'
    BY <2>1, <2>2 DEF ConsumerTyped, ReaderTyped
  <2>. QED
    BY <1>1, <2>1, <2>3 DEF BoundsTyped, BoundsRest
<1>6. CASE HandlerFails
  <2>1. /\ UNCHANGED <<committed, snapshot, keyRow, topic, config, keyCache, reader>>
        /\ failures' = failures + 1 /\ UNCHANGED <<syncs, payments, crashes, restarts>>
        /\ \/ UNCHANGED handling /\ \E p \in Partition :
                 position[p] < Len(topic[p]) /\ position' = [position EXCEPT ![p] = @ + 1]
           \/ handling' = IdleHook /\ UNCHANGED position
    BY <1>6 DEF HandlerFails, Polls, Advance, Partition, cacheVars
  <2>2. failures' # 0 /\ failures <= failures' /\ BoundsTyped'
    BY <2>1 DEF BoundsTyped
  <2>3. /\ position' \in [Partition -> Nat]
        /\ \A q \in Partition : committed[q] <= position'[q] /\ position'[q] <= Len(topic[q])
    BY <1>1, <1>3, <2>1
  <2>4. ConsumerTyped' /\ ReaderTyped'
    BY <2>1, <2>3 DEF ConsumerTyped, ReaderTyped, IdleHook
  <2>. QED
    BY <1>1, <2>1, <2>2, <2>4
<1>7. CASE Restart
  <2>1. /\ UNCHANGED <<committed, snapshot, keyRow, topic, config, keyCache, reader>>
        /\ restarts' = restarts + 1 /\ UNCHANGED <<syncs, payments, crashes, failures>>
        /\ position' = committed /\ handling' = IdleHook
    BY <1>7 DEF Restart, cacheVars
  <2>2. BoundsTyped' /\ failures <= failures'
    BY <2>1 DEF BoundsTyped
  <2>3. ASSUME NEW p \in Partition
        PROVE  committed[p] <= committed[p] /\ committed[p] <= Len(topic[p])
    BY <1>1
  <2>4. ConsumerTyped' /\ ReaderTyped'
    BY <2>1, <2>3 DEF ConsumerTyped, ReaderTyped, IdleHook
  <2>. QED
    BY <1>1, <2>1, <2>2, <2>4
<1>. QED
  BY <1>2, <1>4, <1>5, <1>6, <1>7

\* Requests of FastAPI and the end of a cache entry's time change the caches only.
Expires == ExpireConfig \/ \E k \in Key : ExpireKey(k)

\* Requests and expiries only move the caches.
LEMMA RequestStep ==
    ASSUME ConsumerTyped, ReaderTyped, Expires \/ \E r \in Reader : Request(r)
    PROVE  UNCHANGED <<djangoVars, topic, consumerVars, bounds, history>> /\ ReaderTyped'
<1>1. CASE Expires
  BY <1>1 DEF Expires, ExpireConfig, ExpireKey, ReaderTyped
<1>2. ASSUME NEW r \in Reader, Request(r)
      PROVE  UNCHANGED <<djangoVars, topic, consumerVars, bounds, history>> /\ ReaderTyped'
  <2>1. UNCHANGED <<djangoVars, topic, consumerVars, bounds, history>>
    BY <1>2 DEF Request, ReadKeyCache, ReadKeyRow, FillKeyCache, StartWithToken,
       CheckFlagAndCache, ReadRow, FillConfig
  <2>2. ASSUME NEW s \in ReaderState, Move(r, s),
               config' \in Config \cup {NoConfig}, keyCache' \subseteq Key
        PROVE  ReaderTyped'
    BY <2>2 DEF Move, ReaderTyped
  <2>3. /\ \A to \in {"idle", "flag", "row"} : [pc |-> to] \in ReaderState
        /\ \A k \in Key, to \in {"keyRow", "keyFill"} : [pc |-> to, key |-> k] \in ReaderState
        /\ \A row \in Config : [pc |-> "fill", row |-> row] \in ReaderState
        /\ IdleReader \in ReaderState
    BY DEF ReaderState, IdleReader
  <2>4. /\ config \in Config \cup {NoConfig} /\ keyCache \subseteq Key
        /\ reader[r] \in ReaderState
    BY DEF ReaderTyped
  <2>5. /\ reader[r].pc \in {"keyRow", "keyFill"} =>
              reader[r].key \in Key /\ [reader[r] EXCEPT !.pc = "keyFill"] \in ReaderState
        /\ reader[r].pc = "fill" => reader[r].row \in Config
    BY <2>4 DEF ReaderState
  <2>6. ASSUME NEW k \in Key, ReadKeyCache(r, k) PROVE ReaderTyped'
    BY <2>2, <2>3, <2>4, <2>6 DEF ReadKeyCache, cacheVars
  <2>7. CASE ReadKeyRow(r)
    BY <2>2, <2>3, <2>4, <2>5, <2>7 DEF ReadKeyRow, AtPc, cacheVars
  <2>8. CASE FillKeyCache(r)
    BY <2>2, <2>3, <2>4, <2>5, <2>8 DEF FillKeyCache, AtPc
  <2>9. CASE StartWithToken(r) \/ CheckFlagAndCache(r)
    BY <2>2, <2>3, <2>4, <2>9 DEF StartWithToken, CheckFlagAndCache, cacheVars
  <2>10. CASE ReadRow(r)
    <3>1. snapshot \in Config \cup {NoConfig}
      BY DEF ConsumerTyped
    <3>2. Move(r, IdleReader) \/ (snapshot \in Config /\ Move(r, [pc |-> "fill", row |-> snapshot]))
      BY <2>10, <3>1 DEF ReadRow
    <3>. QED
      BY <2>2, <2>3, <2>4, <2>10, <3>2 DEF ReadRow, cacheVars
  <2>11. CASE FillConfig(r)
    BY <2>2, <2>3, <2>4, <2>5, <2>11 DEF FillConfig, AtPc
  <2>. QED
    BY <1>2, <2>1, <2>6, <2>7, <2>8, <2>9, <2>10, <2>11 DEF Request
<1>. QED
  BY <1>1, <1>2

-----------------------------------------------------------------------------
(* Types *)

\* A step of Django: webhooks, the hourly task, or the API keys.
HookStep(h) == (\E e \in Event : ReceiveEvent(h, e)) \/ HookSteps(h) \/ CrashHook(h)
SyncStep == StartSync \/ \E s \in Status : SyncStatus(s)
KeysStep == \E k \in Key :
                CreateKey(k) \/ RevokeKey(k) \/ SendRevocation(k) \/ CrashRevocation(k)
ConsumerTail == Invalidate \/ ApplyKey \/ CacheKey \/ Commit \/ HandlerFails \/ Restart

\* Every step is one of these.
LEMMA NextIsOne ==
    Next => \/ \E h \in Hook : HookStep(h)
            \/ SyncStep \/ KeysStep \/ ApplyTenant \/ ConsumerTail
            \/ Expires \/ \E r \in Reader : Request(r)
BY DEF Next, HookStep, SyncStep, KeysStep, ConsumerTail, Consume, Expires

\* The consumer and FastAPI read what Django sent, and nothing of Django.
LEMMA OutsideDjango ==
    ASSUME ApplyTenant \/ ConsumerTail
    PROVE  UNCHANGED <<djangoVars, topic, history>>
BY DEF ConsumerTail, ApplyTenant, Invalidate, ApplyKey, CacheKey, Commit, HandlerFails, Restart

\* Django leaves the consumer and the caches alone.
LEMMA InsideDjango ==
    ASSUME (\E h \in Hook : HookStep(h)) \/ SyncStep \/ KeysStep
    PROVE  UNCHANGED <<consumerVars, cacheVars, reader>>
BY DEF HookStep, HookSteps, SyncStep, KeysStep, ReceiveEvent, VerifyPayment, LogEvent, LoadTenant,
       SaveTenant, BuildPayload, SendPlan, AfterSave, CrashHook, StartSync, SyncStatus, CreateKey,
       RevokeKey, SendRevocation, CrashRevocation

LEMMA InitTyped == Init => Typed
<1>. SUFFICES ASSUME Init PROVE Typed
  OBVIOUS
<1>. USE DEF Init
<1>1. [plan |-> "free", suspended |-> FALSE, version |-> 1] \in Config
  BY DEF Config, Plan
<1>2. /\ topic.tenants = <<[plan |-> "free", suspended |-> FALSE, version |-> 1]>>
      /\ topic.keys = << >>
      /\ topic = [tenants |-> topic.tenants, keys |-> topic.keys]
  OBVIOUS
<1>3. topic.tenants \in Seq(Config) /\ topic.keys \in Seq(KeyEvent)
  BY <1>1, <1>2
<1>4. topic \in [tenants : Seq(Config), keys : Seq(KeyEvent)]
  BY <1>2, <1>3
<1>5. tenant \in Row
  BY DEF Row, Plan, Status
<1>6. hook \in [Hook -> HookState]
  BY HookStates
<1>7. created \in Seq(Key) /\ effects \in [Event -> Nat]
  OBVIOUS
<1>8. DjangoTyped
  BY <1>4, <1>5, <1>6, <1>7 DEF DjangoTyped
<1>9. ConsumerTyped
  <2>1. committed \in [Partition -> Nat] /\ position \in [Partition -> Nat]
    BY DEF Partition
  <2>2. \A p \in Partition : position[p] = 0 /\ committed[p] = 0 /\ Len(topic[p]) \in Nat
    BY <1>3 DEF Partition
  <2>3. handling.pc # "cacheKey" /\ snapshot \in Config \cup {NoConfig}
        /\ keyRow \in [Key -> {"none", "active", "inactive"}]
    BY DEF IdleHook
  <2>. QED
    BY <2>1, <2>2, <2>3 DEF ConsumerTyped
<1>10. ReaderTyped
  BY DEF ReaderTyped, ReaderState, IdleReader
<1>. QED
  BY <1>8, <1>9, <1>10 DEF Typed, BoundsTyped

LEMMA NextTyped ==
    ASSUME Typed, [Next]_vars
    PROVE  Typed'
<1>. USE DEF Typed
<1>0. \A p \in Partition : "tenants" \in Partition /\ "keys" \in Partition
  BY DEF Partition
<1>1. ASSUME UNCHANGED <<consumerVars, cacheVars, reader>>, DjangoTyped',
             UNCHANGED topic \/ \E p \in Partition : \E ev : Sends(p, ev)
      PROVE  ConsumerTyped' /\ ReaderTyped'
  <2>1. ReaderTyped'
    BY <1>1 DEF ReaderTyped, cacheVars
  <2>2. CASE UNCHANGED topic
    BY <1>1, <2>1, <2>2 DEF ConsumerTyped, consumerVars
  <2>. QED
    BY <1>1, <2>1, <2>2, ConsumerWithin
<1>2. ASSUME BoundsRest PROVE BoundsTyped'
  BY <1>2 DEF BoundsTyped, BoundsRest
<1>3. ASSUME NEW h \in Hook, HookStep(h) PROVE Typed'
  <2>1. UNCHANGED <<consumerVars, cacheVars, reader>>
    BY <1>3, InsideDjango
  <2>2. ASSUME DjangoTyped', BoundsTyped',
               UNCHANGED topic \/ \E ev : Sends("tenants", ev)
        PROVE  Typed'
    BY <1>1, <2>1, <2>2 DEF Partition
  <2>3. ASSUME NEW e \in Event, ReceiveEvent(h, e) PROVE Typed'
    BY <1>2, <2>2, <2>3, ReceiveStep
  <2>4. CASE LogEvent(h)
    BY <1>2, <2>2, <2>4, LogStep
  <2>5. CASE LoadTenant(h)
    BY <1>2, <2>2, <2>5, LoadStep
  <2>6. CASE SaveTenant(h)
    BY <1>2, <2>2, <2>6, SaveStep
  <2>7. CASE BuildPayload(h)
    BY <1>2, <2>2, <2>7, BuildStep
  <2>8. CASE SendPlan(h)
    BY <1>2, <2>2, <2>8, SendStep
  <2>9. CASE AfterSave(h)
    BY <1>2, <2>2, <2>9, AfterStep
  <2>10. CASE CrashHook(h)
    BY <2>2, <2>10, CrashHookStep
  <2>11. CASE VerifyPayment(h)
    BY <2>2, <2>11, VerifyStep
  <2>. QED
    BY <1>3, <2>3, <2>4, <2>5, <2>6, <2>7, <2>8, <2>9, <2>10, <2>11 DEF HookStep, HookSteps
<1>4. CASE SyncStep
  <2>1. UNCHANGED <<consumerVars, cacheVars, reader>>
    BY <1>4, InsideDjango
  <2>2. CASE StartSync
    BY <1>1, <2>1, <2>2, StartSyncStep
  <2>3. ASSUME NEW s \in Status, SyncStatus(s) PROVE Typed'
    <3>1. DjangoTyped' /\ BoundsTyped' /\ (UNCHANGED topic \/ \E ev : Sends("tenants", ev))
      BY <1>2, <2>3, SyncStatusStep
    <3>. QED
      BY <1>1, <2>1, <3>1 DEF Partition
  <2>. QED
    BY <1>4, <2>2, <2>3 DEF SyncStep
<1>5. CASE KeysStep
  <2>1. UNCHANGED <<consumerVars, cacheVars, reader>>
    BY <1>5, InsideDjango
  <2>2. DjangoTyped' /\ BoundsTyped' /\ (UNCHANGED topic \/ \E ev : Sends("keys", ev))
    BY <1>5, KeyStep DEF KeysStep
  <2>. QED
    BY <1>1, <2>1, <2>2 DEF Partition
<1>6. ASSUME UNCHANGED <<djangoVars, topic, history>> PROVE DjangoTyped'
  BY <1>6 DEF DjangoTyped, djangoVars, history
<1>7. CASE ApplyTenant
  <2>1. DjangoTyped'
    BY <1>6, <1>7, OutsideDjango
  <2>2. UNCHANGED <<cacheVars, reader, bounds>>
    BY <1>7 DEF ApplyTenant
  <2>3. ReaderTyped' /\ BoundsTyped'
    BY <2>2 DEF ReaderTyped, BoundsTyped, cacheVars, bounds
  <2>. QED
    BY <1>7, <2>1, <2>3, ApplyTenantStep
<1>8. CASE ConsumerTail
  <2>1. DjangoTyped'
    BY <1>6, <1>8, OutsideDjango
  <2>. QED
    BY <1>8, <2>1, ConsumerStep DEF ConsumerTail
<1>9. CASE Expires \/ \E r \in Reader : Request(r)
  <2>1. UNCHANGED <<djangoVars, topic, consumerVars, bounds, history>> /\ ReaderTyped'
    BY <1>9, RequestStep
  <2>2. DjangoTyped'
    BY <1>6, <2>1
  <2>3. ConsumerTyped' /\ BoundsTyped'
    BY <2>1 DEF ConsumerTyped, BoundsTyped, consumerVars, bounds
  <2>. QED
    BY <2>1, <2>2, <2>3
<1>10. CASE UNCHANGED vars
  BY <1>10 DEF vars, DjangoTyped, ConsumerTyped, ReaderTyped, BoundsTyped, djangoVars,
     consumerVars, cacheVars, bounds, history
<1>. QED
  BY <1>3, <1>4, <1>5, <1>7, <1>8, <1>9, <1>10, NextIsOne

-----------------------------------------------------------------------------
(* A billing event takes effect once *)

\* A webhook request that has logged its event and not yet saved the tenant.
Licensed(h) == hook[h].pc \in {"load", "save"} /\ hook[h].event \in Event

AppliedOnce ==
    /\ \A e \in Event : effects[e] <= 1 /\ (e \notin logged => effects[e] = 0)
    /\ \A h \in Hook : Licensed(h) => hook[h].event \in logged /\ effects[hook[h].event] = 0
    /\ \A g, h \in Hook :
          Licensed(g) /\ Licensed(h) /\ hook[g].event = hook[h].event => g = h

LEMMA InitAppliedOnce == Init => AppliedOnce
BY DEF Init, AppliedOnce, Licensed, IdleHook

LEMMA NextAppliedOnce ==
    ASSUME Typed, AppliedOnce, [Next]_vars
    PROVE  AppliedOnce'
<1>. USE DEF Typed
<1>0. effects \in [Event -> Nat] /\ \A h \in Hook : Licensed(h) => hook[h].event \in Event
  BY DEF DjangoTyped, Licensed
<1>1. ASSUME UNCHANGED <<hook, logged, effects>> PROVE AppliedOnce'
  BY <1>1 DEF AppliedOnce, Licensed
\* A step of a request that neither logs, loads nor saves.
<1>2. ASSUME NEW h \in Hook, UNCHANGED <<logged, effects>>,
             hook'[h].pc \in {"load", "save"} /\ hook'[h].event \in Event =>
                Licensed(h) /\ hook'[h].event = hook[h].event,
             \A g \in Hook \ {h} : hook'[g] = hook[g]
      PROVE  AppliedOnce'
  BY <1>2 DEF AppliedOnce, Licensed
<1>3. ASSUME NEW h \in Hook, HookStep(h) PROVE AppliedOnce'
  <2>1. ASSUME NEW e \in Event, ReceiveEvent(h, e) PROVE AppliedOnce'
    BY <1>2, <2>1, ReceiveStep
  <2>2. CASE LogEvent(h)
    <3>. DEFINE e == hook[h].event
    <3>1. /\ e \in Event /\ logged' = logged \cup {e} /\ UNCHANGED effects
          /\ \A g \in Hook \ {h} : hook'[g] = hook[g]
          /\ \/ e \in logged /\ hook'[h].pc = "idle"
             \/ e \notin logged /\ hook'[h].pc = "load" /\ hook'[h].event = e
      BY <2>2, LogStep
    <3>. HIDE DEF e
    <3>2. CASE e \in logged
      <4>1. logged' = logged /\ hook'[h].pc = "idle"
        BY <3>1, <3>2
      <4>. QED
        BY <1>2, <3>1, <4>1
    <3>3. CASE e \notin logged
      <4>1. effects[e] = 0
        BY <3>1, <3>3 DEF AppliedOnce
      <4>2. \A g \in Hook \ {h} : Licensed(g) => hook[g].event # e
        BY <3>3 DEF AppliedOnce
      <4>3. \A g \in Hook \ {h} : Licensed(g)' <=> Licensed(g)
        BY <3>1 DEF Licensed
      <4>. QED
        BY <3>1, <3>3, <4>1, <4>2, <4>3 DEF AppliedOnce
    <3>. QED
      BY <3>2, <3>3
  <2>3. CASE LoadTenant(h)
    BY <1>2, <2>3, LoadStep DEF Licensed
  <2>4. CASE SaveTenant(h)
    <3>. DEFINE e == hook[h].event
    <3>0. /\ hook[h].pc = "save" /\ UNCHANGED logged /\ hook'[h].pc \in {"payload", "after"}
          /\ effects' = IF e \in Event THEN [effects EXCEPT ![e] = effects[e] + 1] ELSE effects
          /\ \A g \in Hook \ {h} : hook'[g] = hook[g]
      BY <2>4, SaveStep
    <3>8. CASE e \notin Event
      BY <1>2, <3>0, <3>8
    <3>. SUFFICES ASSUME e \in Event PROVE AppliedOnce'
      BY <3>8
    <3>1. /\ Licensed(h) /\ e \in Event /\ effects' = [effects EXCEPT ![e] = effects[e] + 1]
          /\ UNCHANGED logged /\ hook'[h].pc \in {"payload", "after"}
          /\ \A g \in Hook \ {h} : hook'[g] = hook[g]
      BY <3>0 DEF Licensed
    <3>2. /\ e \in logged /\ effects[e] = 0
          /\ \A g \in Hook \ {h} : Licensed(g) => hook[g].event # e
      BY <3>1 DEF AppliedOnce
    <3>. HIDE DEF e
    <3>3. effects'[e] = 1 /\ \A d \in Event \ {e} : effects'[d] = effects[d]
      BY <1>0, <3>1, <3>2
    <3>4. ~Licensed(h)' /\ \A g \in Hook \ {h} : Licensed(g)' <=> Licensed(g)
      BY <3>1 DEF Licensed
    <3>5. \A d \in Event : effects'[d] <= 1 /\ (d \notin logged' => effects'[d] = 0)
      BY <3>1, <3>2, <3>3 DEF AppliedOnce
    <3>6. \A g \in Hook :
             Licensed(g)' => hook'[g].event \in logged' /\ effects'[hook'[g].event] = 0
      BY <1>0, <3>1, <3>2, <3>3, <3>4 DEF AppliedOnce
    <3>7. \A f, g \in Hook :
             Licensed(f)' /\ Licensed(g)' /\ hook'[f].event = hook'[g].event => f = g
      BY <3>1, <3>4 DEF AppliedOnce
    <3>. QED
      BY <3>5, <3>6, <3>7 DEF AppliedOnce
  <2>5. CASE BuildPayload(h)
    BY <1>2, <2>5, BuildStep
  <2>6. CASE SendPlan(h)
    BY <1>2, <2>6, SendStep
  <2>7. CASE AfterSave(h)
    BY <1>2, <2>7, AfterStep
  <2>8. CASE CrashHook(h)
    BY <1>2, <2>8, CrashHookStep
  <2>9. CASE VerifyPayment(h)
    <3>1. "payment" \notin Event
      BY TenantAssumption
    <3>. QED
      BY <1>2, <2>9, <3>1, VerifyStep
  <2>. QED
    BY <1>3, <2>1, <2>2, <2>3, <2>4, <2>5, <2>6, <2>7, <2>8, <2>9 DEF HookStep, HookSteps
<1>4. CASE SyncStep
  BY <1>1, <1>4, StartSyncStep, SyncStatusStep DEF SyncStep
<1>5. CASE KeysStep
  BY <1>1, <1>5, KeyStep DEF KeysStep, TenantRest
<1>6. CASE ApplyTenant \/ ConsumerTail
  BY <1>1, <1>6, OutsideDjango DEF djangoVars, history
<1>7. CASE Expires \/ \E r \in Reader : Request(r)
  BY <1>1, <1>7, RequestStep DEF djangoVars, history
<1>8. CASE UNCHANGED vars
  BY <1>1, <1>8 DEF vars, djangoVars, history
<1>. QED
  BY <1>3, <1>4, <1>5, <1>6, <1>7, <1>8, NextIsOne

-----------------------------------------------------------------------------
(* One writer at a time *)

\* The hourly task is counted, and without an overlap a writer of the tenant is alone.
Alone ==
    /\ sync.pc # "idle" => syncs # 0
    /\ ~overlapped =>
          /\ \A g, h \in Hook : Busy(g) /\ Busy(h) => g = h
          /\ sync.pc # "idle" => \A h \in Hook : ~Busy(h)

\* Nobody writes the row when neither a webhook nor the sync is busy.
LEMMA NobodyWrites ==
    Writers = {} <=> sync.pc = "idle" /\ \A h \in Hook : ~Busy(h)
BY DEF Writers

LEMMA InitAlone == Init => Alone
BY DEF Init, Alone, Busy, IdleHook

\* What a step says of the history: it is not forgotten.
LEMMA HistoryKept ==
    ASSUME Typed, [Next]_vars
    PROVE  /\ crashes' = 0 => crashes = 0
           /\ failures' = 0 => failures = 0
           /\ syncs' = 0 => syncs = 0
           /\ ~overlapped' => ~overlapped
           /\ ~tied' => ~tied
<1>. USE DEF Typed
<1>1. /\ crashes \in Nat /\ failures \in Nat /\ syncs \in Nat
      /\ crashes' \in Nat /\ failures' \in Nat /\ syncs' \in Nat
  BY NextTyped DEF BoundsTyped
<1>2. ASSUME NEW h \in Hook, HookStep(h)
      PROVE  /\ crashes' # 0 \/ UNCHANGED crashes
             /\ UNCHANGED <<failures, syncs>>
             /\ ~overlapped' => ~overlapped
             /\ ~tied' => ~tied
  <2>1. ASSUME NEW e \in Event, ReceiveEvent(h, e)
        PROVE  UNCHANGED <<crashes, failures, syncs, tied>> /\ (~overlapped' => ~overlapped)
    BY Zenon, <2>1, ReceiveStep DEF BoundsRest
  <2>2. CASE LogEvent(h) \/ LoadTenant(h) \/ SaveTenant(h) \/ SendPlan(h) \/ AfterSave(h)
    BY <2>2, LogStep, LoadStep, SaveStep, SendStep, AfterStep DEF BoundsRest
  <2>3. CASE BuildPayload(h)
    BY Zenon, <2>3, BuildStep DEF BoundsRest
  <2>4. CASE CrashHook(h)
    BY <2>4, CrashHookStep
  <2>5. CASE VerifyPayment(h)
    BY Zenon, <2>5, VerifyStep
  <2>. QED
    BY <1>2, <2>1, <2>2, <2>3, <2>4, <2>5 DEF HookStep, HookSteps
<1>3. CASE SyncStep
  <2>1. CASE StartSync
    <3>1. UNCHANGED <<crashes, failures, tied>> /\ syncs' # 0
      BY <2>1, StartSyncStep
    <3>2. ~overlapped' => ~overlapped
      BY Zenon, <2>1, StartSyncStep
    <3>. QED
      BY <3>1, <3>2
  <2>2. ASSUME NEW s \in Status, SyncStatus(s)
        PROVE UNCHANGED <<crashes, failures, syncs, overlapped>> /\ (tied => tied')
    BY Zenon, <2>2, SyncStatusStep DEF BoundsRest
  <2>. QED
    BY <1>3, <2>1, <2>2 DEF SyncStep
<1>4. CASE KeysStep
  <2>1. crashes <= crashes' /\ UNCHANGED <<syncs, failures, overlapped, tied>>
    BY <1>4, KeyStep DEF KeysStep, TenantRest
  <2>. QED
    BY <1>1, <2>1
<1>5. CASE ApplyTenant
  BY <1>5 DEF ApplyTenant, bounds, history
<1>6. CASE ConsumerTail
  <2>1. failures <= failures' /\ UNCHANGED <<syncs, crashes, overlapped, tied>>
    BY <1>6, ConsumerStep, OutsideDjango DEF ConsumerTail, history
  <2>. QED
    BY <1>1, <2>1
<1>7. CASE Expires \/ \E r \in Reader : Request(r)
  BY <1>7, RequestStep DEF bounds, history
<1>8. CASE UNCHANGED vars
  BY <1>8 DEF vars, bounds, history
<1>. QED
  BY <1>2, <1>3, <1>4, <1>5, <1>6, <1>7, <1>8, NextIsOne

LEMMA NextAlone ==
    ASSUME Typed, Alone, [Next]_vars
    PROVE  Alone'
<1>. USE DEF Typed
<1>1. ASSUME UNCHANGED <<hook, sync, syncs, overlapped>> PROVE Alone'
  BY <1>1 DEF Alone, Busy
\* A step of a writer that was busy before, or the end of one.
<1>2. ASSUME NEW h \in Hook, Busy(h), UNCHANGED <<sync, syncs, overlapped>>,
             \A g \in Hook \ {h} : hook'[g] = hook[g]
      PROVE  Alone'
  BY <1>2 DEF Alone, Busy
<1>3. ASSUME NEW h \in Hook, HookStep(h) PROVE Alone'
  <2>1. ASSUME NEW e \in Event, ReceiveEvent(h, e) PROVE Alone'
    <3>1. /\ UNCHANGED <<sync, syncs>> /\ \A g \in Hook \ {h} : hook'[g] = hook[g]
      BY <2>1, ReceiveStep DEF BoundsRest
    <3>2. ~overlapped' => Writers = {}
      BY Zenon, <2>1, ReceiveStep
    <3>3. ~overlapped' => sync.pc = "idle" /\ \A g \in Hook : ~Busy(g)
      BY <3>2, NobodyWrites
    <3>. QED
      BY <3>1, <3>3 DEF Alone, Busy
  <2>2. CASE HookSteps(h) /\ ~VerifyPayment(h)
    <3>1. Busy(h)
      BY <2>2 DEF HookSteps, LogEvent, LoadTenant, SaveTenant, BuildPayload, SendPlan,
         AfterSave, Busy
    <3>2. UNCHANGED <<sync, syncs, overlapped>> /\ \A g \in Hook \ {h} : hook'[g] = hook[g]
      BY <2>2, LogStep, LoadStep, SaveStep, BuildStep, SendStep, AfterStep
         DEF HookSteps, BoundsRest
    <3>. QED
      BY <1>2, <3>1, <3>2
  <2>3. CASE CrashHook(h)
    <3>1. Busy(h)
      BY <2>3 DEF CrashHook
    <3>. QED
      BY <1>2, <2>3, <3>1, CrashHookStep
  <2>4. CASE VerifyPayment(h)
    <3>1. UNCHANGED <<sync, syncs>> /\ \A g \in Hook \ {h} : hook'[g] = hook[g]
      BY <2>4, VerifyStep
    <3>2. ~overlapped' => Writers = {}
      BY Zenon, <2>4, VerifyStep
    <3>3. ~overlapped' => sync.pc = "idle" /\ \A g \in Hook : ~Busy(g)
      BY <3>2, NobodyWrites
    <3>. QED
      BY <3>1, <3>3 DEF Alone, Busy
  <2>. QED
    BY <1>3, <2>1, <2>2, <2>3, <2>4 DEF HookStep
<1>4. CASE SyncStep
  <2>1. CASE StartSync
    <3>1. UNCHANGED hook /\ syncs' # 0
      BY <2>1, StartSyncStep
    <3>2. ~overlapped' => Writers = {}
      BY Zenon, <2>1, StartSyncStep
    <3>3. ~overlapped' => \A g \in Hook : ~Busy(g)
      BY <3>2, NobodyWrites
    <3>. QED
      BY <3>1, <3>3 DEF Alone, Busy
  <2>2. ASSUME NEW s \in Status, SyncStatus(s) PROVE Alone'
    <3>1. sync'.pc = "idle" /\ UNCHANGED <<hook, overlapped>>
      BY <2>2, SyncStatusStep
    <3>. QED
      BY <3>1 DEF Alone, Busy
  <2>. QED
    BY <1>4, <2>1, <2>2 DEF SyncStep
<1>5. CASE KeysStep
  BY <1>1, <1>5, KeyStep DEF KeysStep, TenantRest
<1>6. CASE ApplyTenant
  BY <1>1, <1>6 DEF ApplyTenant, djangoVars, bounds, history
<1>7. CASE ConsumerTail
  BY <1>1, <1>7, ConsumerStep, OutsideDjango DEF ConsumerTail, djangoVars, history
<1>8. CASE Expires \/ \E r \in Reader : Request(r)
  BY <1>1, <1>8, RequestStep DEF djangoVars, bounds, history
<1>9. CASE UNCHANGED vars
  BY <1>1, <1>9 DEF vars, djangoVars, bounds, history
<1>. QED
  BY <1>3, <1>4, <1>5, <1>6, <1>7, <1>8, <1>9, NextIsOne

-----------------------------------------------------------------------------
(* The suspension flag *)

Suspended == tenant.status = "suspended"

\* Between the save of a webhook and its write of the flag, the event says what the flag will be.
FlagTold ==
    crashes = 0 /\ syncs = 0 /\ ~overlapped =>
        /\ (\A h \in Hook : hook[h].pc \in {"idle", "log", "load", "save"}) => (flag <=> Suspended)
        /\ \A h \in Hook :
              /\ hook[h].pc = "save" => hook[h].row = tenant
              /\ hook[h].pc \in {"payload", "send", "after"} =>
                    /\ hook[h].event \in Restores => ~Suspended
                    /\ hook[h].event \in Halts => Suspended
                    /\ hook[h].event \in Cancels \cup {"payment"} => (flag <=> Suspended)

\* What is written when the row that was loaded is still the row of the table.
LEMMA WhatIsWritten ==
    ASSUME DjangoTyped, NEW e \in Cause
    PROVE  /\ Written(e, Applied(e, tenant)).plan = Applied(e, tenant).plan
           /\ e \in Restores => Written(e, Applied(e, tenant)).status = "active"
           /\ e \in Halts => Written(e, Applied(e, tenant)).status = "suspended"
           /\ e \in Cancels \cup {"payment"} =>
                 Written(e, Applied(e, tenant)).status = tenant.status
           /\ Written(e, Applied(e, tenant)) = Applied(e, tenant)
<1>1. tenant \in Row
  BY DEF DjangoTyped
<1>2. /\ e \in Restores => e \notin Halts /\ e \notin Cancels
      /\ e \in Halts => e \notin Restores /\ e \notin Cancels
      /\ e \in Cancels => e \notin Restores /\ e \notin Halts
      /\ e \in Restores \/ e \in Halts \/ e \in Cancels => e # "payment"
  BY Zenon, TenantAssumption DEF Event
<1>3. CASE e \in Restores
  BY <1>2, <1>3 DEF Applied, Written
<1>4. CASE e \in Halts
  <2>1. /\ Applied(e, tenant) = [tenant EXCEPT !.status = "suspended"]
        /\ Written(e, Applied(e, tenant)) =
              [tenant EXCEPT !.status = Applied(e, tenant).status]
    BY <1>2, <1>4 DEF Applied, Written
  <2>. QED
    BY <1>1, <1>2, <1>4, <2>1 DEF Row
<1>5. CASE e \in Cancels
  <2>1. /\ Applied(e, tenant) = [tenant EXCEPT !.plan = "free"]
        /\ Written(e, Applied(e, tenant)) = [tenant EXCEPT !.plan = Applied(e, tenant).plan]
    BY <1>2, <1>5 DEF Applied, Written
  <2>. QED
    BY <1>1, <1>2, <1>5, <2>1 DEF Row
<1>6. CASE e = "payment"
  <2>1. /\ Applied(e, tenant) = [tenant EXCEPT !.plan = "pro"]
        /\ Written(e, Applied(e, tenant)) = [tenant EXCEPT !.plan = Applied(e, tenant).plan]
    BY <1>2, <1>6 DEF Applied, Written
  <2>. QED
    BY <1>1, <1>2, <1>6, <2>1 DEF Row
<1>. QED
  BY <1>3, <1>4, <1>5, <1>6 DEF Cause, Event

LEMMA InitFlagTold == Init => FlagTold
BY DEF Init, FlagTold, Suspended, IdleHook

LEMMA NextFlagTold ==
    ASSUME Typed, Alone, FlagTold, [Next]_vars
    PROVE  FlagTold'
<1>. USE DEF Typed
<1>. SUFFICES ASSUME crashes' = 0, syncs' = 0, ~overlapped' PROVE FlagTold'
  BY DEF FlagTold
<1>0. /\ crashes = 0 /\ syncs = 0 /\ ~overlapped
      /\ (\A h \in Hook : hook[h].pc \in {"idle", "log", "load", "save"}) => (flag <=> Suspended)
      /\ \A h \in Hook :
            /\ hook[h].pc = "save" => hook[h].row = tenant
            /\ hook[h].pc \in {"payload", "send", "after"} =>
                  /\ hook[h].event \in Restores => ~Suspended
                  /\ hook[h].event \in Halts => Suspended
                  /\ hook[h].event \in Cancels \cup {"payment"} => (flag <=> Suspended)
  BY HistoryKept DEF FlagTold
<1>1. ASSUME UNCHANGED <<tenant, hook, flag>> PROVE FlagTold'
  BY <1>0, <1>1 DEF FlagTold, Suspended
\* The request that takes a step is alone.
<1>2. ASSUME NEW h \in Hook, Busy(h) PROVE \A g \in Hook \ {h} : hook[g].pc = "idle"
  BY <1>0, <1>2 DEF Alone, Busy
<1>3. ASSUME NEW h \in Hook, \A g \in Hook \ {h} : hook[g].pc = "idle" /\ hook'[g] = hook[g],
             hook'[h].pc \in {"idle", "log", "load"}
                \/ (hook'[h].pc = "save" /\ hook'[h].row = tenant'),
             flag' <=> Suspended'
      PROVE  FlagTold'
  BY <1>3 DEF FlagTold
<1>4. ASSUME NEW h \in Hook, \A g \in Hook \ {h} : hook[g].pc = "idle" /\ hook'[g] = hook[g],
             hook'[h].pc \in {"payload", "send", "after"},
             hook'[h].event \in Restores => ~Suspended',
             hook'[h].event \in Halts => Suspended',
             hook'[h].event \in Cancels \cup {"payment"} => (flag' <=> Suspended')
      PROVE  FlagTold'
  BY <1>4 DEF FlagTold
<1>5. ASSUME NEW h \in Hook, HookStep(h) PROVE FlagTold'
  <2>1. ASSUME NEW e \in Event, ReceiveEvent(h, e) PROVE FlagTold'
    <3>1. /\ hook'[h].pc = "log" /\ UNCHANGED <<tenant, flag>>
          /\ \A g \in Hook \ {h} : hook'[g] = hook[g]
      BY <2>1, ReceiveStep
    <3>2. Writers = {}
      BY Zenon, <2>1, ReceiveStep
    <3>3. \A g \in Hook : hook[g].pc = "idle"
      BY <3>2, NobodyWrites DEF Busy
    <3>. QED
      BY <1>0, <1>3, <3>1, <3>3 DEF Suspended
  <2>2. CASE LogEvent(h) \/ LoadTenant(h)
    <3>1. /\ hook[h].pc \in {"log", "load"} /\ UNCHANGED <<tenant, flag>>
          /\ \A g \in Hook \ {h} : hook'[g] = hook[g]
          /\ \/ hook'[h].pc \in {"idle", "load"}
             \/ hook'[h].pc = "save" /\ hook'[h].row = tenant
      BY <2>2, LogStep, LoadStep
    <3>2. \A g \in Hook \ {h} : hook[g].pc = "idle"
      BY <1>2, <3>1 DEF Busy
    <3>3. flag <=> Suspended
      BY <1>0, <3>1, <3>2
    <3>. QED
      BY <1>3, <3>1, <3>2, <3>3 DEF Suspended
  <2>3. CASE SaveTenant(h)
    <3>. DEFINE e == hook[h].event
    <3>1. /\ hook[h].pc = "save" /\ e \in Cause /\ UNCHANGED flag
          /\ tenant' = Written(e, Applied(e, hook[h].row))
          /\ hook'[h].event = e /\ hook'[h].pc \in {"payload", "after"}
          /\ \A g \in Hook \ {h} : hook'[g] = hook[g]
      BY <2>3, SaveStep
    <3>. HIDE DEF e
    <3>2. \A g \in Hook \ {h} : hook[g].pc = "idle"
      BY <1>2, <3>1 DEF Busy
    <3>3. (flag <=> Suspended) /\ hook[h].row = tenant
      BY <1>0, <3>1, <3>2
    <3>4. /\ e \in Restores => tenant'.status = "active"
          /\ e \in Halts => tenant'.status = "suspended"
          /\ e \in Cancels \cup {"payment"} => tenant'.status = tenant.status
      BY <3>1, <3>3, WhatIsWritten
    <3>. QED
      BY <1>4, <3>1, <3>2, <3>3, <3>4 DEF Suspended
  <2>4. CASE BuildPayload(h) \/ SendPlan(h)
    <3>1. /\ hook[h].pc \in {"payload", "send"} /\ UNCHANGED <<tenant, flag>>
          /\ hook'[h].pc \in {"send", "after"} /\ hook'[h].event = hook[h].event
          /\ \A g \in Hook \ {h} : hook'[g] = hook[g]
      BY <2>4, BuildStep, SendStep
    <3>2. \A g \in Hook \ {h} : hook[g].pc = "idle"
      BY <1>2, <3>1 DEF Busy
    <3>. QED
      BY <1>0, <1>4, <3>1, <3>2 DEF Suspended
  <2>5. CASE AfterSave(h)
    <3>. DEFINE e == hook[h].event
    <3>1. /\ hook[h].pc = "after" /\ e \in Cause /\ hook'[h].pc = "idle" /\ UNCHANGED tenant
          /\ e \in Halts => flag'
          /\ e \in Restores /\ e \notin Halts => ~flag'
          /\ e \notin Halts \cup Restores => flag' = flag
          /\ \A g \in Hook \ {h} : hook'[g] = hook[g]
      BY <2>5, AfterStep
    <3>. HIDE DEF e
    <3>2. \A g \in Hook \ {h} : hook[g].pc = "idle"
      BY <1>2, <3>1 DEF Busy
    <3>3. /\ e \in Restores => ~Suspended
          /\ e \in Halts => Suspended
          /\ e \in Cancels \cup {"payment"} => (flag <=> Suspended)
      BY <1>0, <3>1 DEF e
    <3>4. e \in Restores \/ e \in Halts \/ e \in Cancels \cup {"payment"}
      BY <3>1 DEF Cause, Event
    <3>5. e \in Restores => e \notin Halts
      BY Zenon, TenantAssumption
    <3>6. flag' <=> Suspended
      <4>1. CASE e \in Halts
        BY <3>1, <3>3, <4>1
      <4>2. CASE e \in Restores
        BY <3>1, <3>3, <3>5, <4>2
      <4>3. CASE e \notin Halts \cup Restores
        <5>1. flag' = flag /\ (flag <=> Suspended)
          BY <3>1, <3>3, <3>4, <4>3
        <5>. QED
          BY Zenon, <5>1
      <4>. QED
        BY <4>1, <4>2, <4>3
    <3>. QED
      BY <1>3, <3>1, <3>2, <3>6 DEF Suspended
  <2>6. CASE CrashHook(h)
    BY <2>6, CrashHookStep
  <2>7. CASE VerifyPayment(h)
    <3>1. /\ hook'[h].pc = "save" /\ hook'[h].row = tenant /\ UNCHANGED <<tenant, flag>>
          /\ \A g \in Hook \ {h} : hook'[g] = hook[g]
      BY <2>7, VerifyStep
    <3>2. Writers = {}
      BY Zenon, <2>7, VerifyStep
    <3>3. \A g \in Hook : hook[g].pc = "idle"
      BY <3>2, NobodyWrites DEF Busy
    <3>. QED
      BY <1>0, <1>3, <3>1, <3>3 DEF Suspended
  <2>. QED
    BY <1>5, <2>1, <2>2, <2>3, <2>4, <2>5, <2>6, <2>7 DEF HookStep, HookSteps
<1>6. CASE SyncStep
  <2>1. sync.pc = "idle"
    BY <1>0 DEF Alone
  <2>. QED
    BY <1>6, <2>1, StartSyncStep, SyncStatusStep DEF SyncStep
<1>7. CASE KeysStep
  BY <1>1, <1>7, KeyStep DEF KeysStep, TenantRest
<1>8. CASE ApplyTenant \/ ConsumerTail
  BY <1>1, <1>8, OutsideDjango DEF djangoVars
<1>9. CASE Expires \/ \E r \in Reader : Request(r)
  BY <1>1, <1>9, RequestStep DEF djangoVars
<1>10. CASE UNCHANGED vars
  BY <1>1, <1>10 DEF vars, djangoVars
<1>. QED
  BY <1>5, <1>6, <1>7, <1>8, <1>9, <1>10, NextIsOne

-----------------------------------------------------------------------------
(* The plan *)

Plans == topic["tenants"]
Latest == Plans[Len(Plans)]

\* While no request ended half way, no two writers overlapped and no two events share a
\* millisecond: the versions of the topic increase, and its last event has the plan of the
\* table, but for the event that a webhook is about to send.
PlanTold ==
    crashes = 0 /\ ~overlapped /\ ~tied =>
        /\ Len(Plans) > 0
        /\ (\A h \in Hook : hook[h].pc \notin {"payload", "send"}) => Latest.plan = tenant.plan
        /\ sync.pc = "fetch" => sync.row = tenant
        /\ \A h \in Hook :
              /\ hook[h].pc \in {"save", "payload"} => hook[h].row = tenant
              /\ hook[h].pc = "send" =>
                    /\ hook[h].payload.plan = tenant.plan /\ hook[h].payload.version = clock
                    /\ \A i \in 1..Len(Plans) : Plans[i].version < clock
        /\ \A i, j \in 1..Len(Plans) : i < j => Plans[i].version < Plans[j].version
        /\ \A i \in 1..Len(Plans) : Plans[i].version <= clock

LEMMA InitPlanTold == Init => PlanTold
<1>. SUFFICES ASSUME Init PROVE PlanTold
  OBVIOUS
<1>. DEFINE first == [plan |-> "free", suspended |-> FALSE, version |-> 1]
<1>1. /\ Plans = <<first>> /\ tenant.plan = "free" /\ clock = 1
      /\ sync.pc = "idle" /\ \A h \in Hook : hook[h].pc = "idle"
  BY DEF Init, Plans, IdleHook
<1>2. first.plan = "free" /\ first.version = 1
  OBVIOUS
<1>. HIDE DEF first
<1>3. Len(Plans) = 1 /\ Plans[1] = first /\ Latest = first
  BY <1>1 DEF Latest
<1>. QED
  BY <1>1, <1>2, <1>3 DEF PlanTold

\* The topic, after an event with a new version.
LEMMA PlanAppended ==
    ASSUME DjangoTyped, NEW ev \in Config, Sends("tenants", ev)
    PROVE  /\ Len(Plans)' = Len(Plans) + 1 /\ Latest' = ev /\ Len(Plans) \in Nat
           /\ \A i \in 1..Len(Plans) : Plans'[i] = Plans[i]
           /\ Plans'[Len(Plans) + 1] = ev
<1>1. Plans \in Seq(Config) /\ Plans' = Append(Plans, ev)
  BY DEF DjangoTyped, Sends, Plans
<1>. QED
  BY <1>1 DEF Latest

LEMMA NextPlanTold ==
    ASSUME Typed, Alone, PlanTold, [Next]_vars
    PROVE  PlanTold'
<1>. USE DEF Typed
<1>. SUFFICES ASSUME crashes' = 0, ~overlapped', ~tied' PROVE PlanTold'
  BY DEF PlanTold
<1>0. /\ crashes = 0 /\ ~overlapped /\ ~tied
      /\ Len(Plans) > 0
      /\ (\A h \in Hook : hook[h].pc \notin {"payload", "send"}) => Latest.plan = tenant.plan
      /\ sync.pc = "fetch" => sync.row = tenant
      /\ \A h \in Hook :
            /\ hook[h].pc \in {"save", "payload"} => hook[h].row = tenant
            /\ hook[h].pc = "send" =>
                  /\ hook[h].payload.plan = tenant.plan /\ hook[h].payload.version = clock
                  /\ \A i \in 1..Len(Plans) : Plans[i].version < clock
      /\ \A i, j \in 1..Len(Plans) : i < j => Plans[i].version < Plans[j].version
      /\ \A i \in 1..Len(Plans) : Plans[i].version <= clock
  BY HistoryKept DEF PlanTold
<1>1. ASSUME UNCHANGED <<tenant, hook, sync, clock, Plans>> PROVE PlanTold'
  <2>1. Latest' = Latest
    BY <1>1 DEF Latest
  <2>. QED
    BY <1>0, <1>1, <2>1 DEF PlanTold
<1>2. clock \in Nat /\ Len(Plans) \in Nat
      /\ \A i \in 1..Len(Plans) : Plans[i].version \in Nat
  <2>1. clock \in Nat /\ Plans \in Seq(Config)
    BY DEF DjangoTyped, Plans
  <2>2. Len(Plans) \in Nat /\ \A i \in 1..Len(Plans) : Plans[i] \in Config
    BY <2>1
  <2>. QED
    BY <2>1, <2>2 DEF Config
\* The request that takes a step is the only writer.
<1>3. ASSUME NEW h \in Hook, Busy(h)
      PROVE  sync.pc = "idle" /\ \A g \in Hook \ {h} : hook[g].pc = "idle"
  BY <1>0, <1>3 DEF Alone, Busy
\* A step of the only writer that sends nothing.
<1>4. ASSUME NEW h \in Hook, \A g \in Hook \ {h} : hook[g].pc = "idle" /\ hook'[g] = hook[g],
             sync'.pc # "fetch", UNCHANGED <<Plans, clock>>,
             hook'[h].pc # "send",
             hook'[h].pc # "payload" => Latest.plan = tenant'.plan,
             hook'[h].pc \in {"save", "payload"} => hook'[h].row = tenant'
      PROVE  PlanTold'
  <2>1. Latest' = Latest
    BY <1>4 DEF Latest
  <2>. QED
    BY <1>0, <1>4, <2>1 DEF PlanTold
<1>5. ASSUME NEW h \in Hook, HookStep(h) PROVE PlanTold'
  <2>1. ASSUME NEW e \in Event, ReceiveEvent(h, e) PROVE PlanTold'
    <3>1. /\ hook'[h].pc = "log" /\ UNCHANGED <<tenant, sync, clock, topic>>
          /\ \A g \in Hook \ {h} : hook'[g] = hook[g]
      BY <2>1, ReceiveStep
    <3>2. Writers = {}
      BY Zenon, <2>1, ReceiveStep
    <3>3. sync.pc = "idle" /\ \A g \in Hook : hook[g].pc = "idle"
      BY <3>2, NobodyWrites DEF Busy
    <3>4. Latest.plan = tenant.plan
      BY <1>0, <3>3
    <3>. QED
      BY <1>4, <3>1, <3>3, <3>4 DEF Plans
  <2>2. CASE LogEvent(h) \/ LoadTenant(h) \/ AfterSave(h)
    <3>1. /\ hook[h].pc \in {"log", "load", "after"} /\ UNCHANGED <<tenant, sync, clock, topic>>
          /\ \A g \in Hook \ {h} : hook'[g] = hook[g]
          /\ \/ hook'[h].pc \in {"idle", "load"}
             \/ hook'[h].pc = "save" /\ hook'[h].row = tenant
      BY <2>2, LogStep, LoadStep, AfterStep
    <3>2. sync.pc = "idle" /\ \A g \in Hook \ {h} : hook[g].pc = "idle"
      BY <1>3, <3>1 DEF Busy
    <3>3. Latest.plan = tenant.plan
      BY <1>0, <3>1, <3>2
    <3>. QED
      BY <1>4, <3>1, <3>2, <3>3 DEF Plans
  <2>3. CASE SaveTenant(h)
    <3>. DEFINE e == hook[h].event
                row == Applied(e, hook[h].row)
    <3>1. /\ hook[h].pc = "save" /\ e \in Cause /\ UNCHANGED <<sync, clock, topic>>
          /\ tenant' = Written(e, row)
          /\ \/ hook'[h].pc = "payload" /\ hook'[h].row = row
             \/ row.plan = tenant.plan /\ hook'[h].pc = "after"
          /\ \A g \in Hook \ {h} : hook'[g] = hook[g]
      BY <2>3, SaveStep
    <3>2. sync.pc = "idle" /\ \A g \in Hook \ {h} : hook[g].pc = "idle"
      BY <1>3, <3>1 DEF Busy
    <3>3. hook[h].row = tenant /\ Latest.plan = tenant.plan
      BY <1>0, <3>1, <3>2
    <3>4. tenant' = row
      BY <3>1, <3>3, WhatIsWritten
    <3>. HIDE DEF row
    <3>. QED
      BY <1>4, <3>1, <3>2, <3>3, <3>4 DEF Plans
  <2>4. CASE BuildPayload(h)
    <3>1. /\ hook[h].pc = "payload" /\ hook'[h].pc = "send"
          /\ hook'[h].payload.plan = hook[h].row.plan /\ hook'[h].payload.version = clock'
          /\ UNCHANGED <<tenant, sync, topic>> /\ \A g \in Hook \ {h} : hook'[g] = hook[g]
      BY <2>4, BuildStep
    <3>2. clock' = clock + 1
      BY <2>4, BuildStep
    <3>3. sync.pc = "idle" /\ \A g \in Hook \ {h} : hook[g].pc = "idle"
      BY <1>3, <3>1 DEF Busy
    <3>4. hook[h].row = tenant
      BY <1>0, <3>1
    <3>5. \A i \in 1..Len(Plans) : Plans[i].version < clock' /\ Plans[i].version <= clock'
      BY <1>0, <1>2, <3>2
    <3>6. Plans' = Plans
      BY <3>1 DEF Plans
    <3>. QED
      BY <1>0, <3>1, <3>3, <3>4, <3>5, <3>6 DEF PlanTold
  <2>5. CASE SendPlan(h)
    <3>. DEFINE ev == hook[h].payload
    <3>1. /\ hook[h].pc = "send" /\ ev \in Config /\ hook'[h].pc = "after"
          /\ Sends("tenants", ev) /\ UNCHANGED <<tenant, sync, clock>>
          /\ \A g \in Hook \ {h} : hook'[g] = hook[g]
      BY <2>5, SendStep
    <3>2. sync.pc = "idle" /\ \A g \in Hook \ {h} : hook[g].pc = "idle"
      BY <1>3, <3>1 DEF Busy
    <3>3. /\ ev.plan = tenant.plan /\ ev.version = clock
          /\ \A i \in 1..Len(Plans) : Plans[i].version < clock
      BY <1>0, <3>1
    <3>. HIDE DEF ev
    <3>4. /\ Len(Plans)' = Len(Plans) + 1 /\ Latest' = ev
          /\ \A i \in 1..Len(Plans) : Plans'[i] = Plans[i]
          /\ Plans'[Len(Plans) + 1] = ev
      BY <3>1, PlanAppended
    <3>5. /\ 1..(Len(Plans) + 1) = 1..Len(Plans) \cup {Len(Plans) + 1}
          /\ Len(Plans)' > 0
          /\ \A i \in 1..Len(Plans) : ~(Len(Plans) + 1 < i)
      BY <1>2, <3>4
    <3>6. \A i, j \in 1..Len(Plans)' : i < j => Plans'[i].version < Plans'[j].version
      <4>. SUFFICES ASSUME NEW i \in 1..Len(Plans)', NEW j \in 1..Len(Plans)', i < j
                    PROVE  Plans'[i].version < Plans'[j].version
        OBVIOUS
      <4>1. i \in 1..Len(Plans)
        BY <1>2, <3>4
      <4>2. j \in 1..Len(Plans) \/ j = Len(Plans) + 1
        BY <1>2, <3>4
      <4>. QED
        BY <1>0, <3>3, <3>4, <4>1, <4>2
    <3>7. \A i \in 1..Len(Plans)' : Plans'[i].version <= clock'
      <4>1. \A i \in 1..Len(Plans) : Plans'[i].version <= clock'
        BY <1>0, <3>1, <3>4
      <4>2. Plans'[Len(Plans) + 1].version <= clock'
        BY <1>2, <3>1, <3>3, <3>4
      <4>. QED
        BY <3>4, <3>5, <4>1, <4>2
    <3>. QED
      BY <3>1, <3>2, <3>3, <3>4, <3>5, <3>6, <3>7 DEF PlanTold
  <2>6. CASE CrashHook(h)
    BY <2>6, CrashHookStep
  <2>7. CASE VerifyPayment(h)
    <3>1. /\ hook'[h].pc = "save" /\ hook'[h].row = tenant
          /\ UNCHANGED <<tenant, sync, clock, topic>>
          /\ \A g \in Hook \ {h} : hook'[g] = hook[g]
      BY <2>7, VerifyStep
    <3>2. Writers = {}
      BY Zenon, <2>7, VerifyStep
    <3>3. sync.pc = "idle" /\ \A g \in Hook : hook[g].pc = "idle"
      BY <3>2, NobodyWrites DEF Busy
    <3>4. Latest.plan = tenant.plan
      BY <1>0, <3>3
    <3>. QED
      BY <1>4, <3>1, <3>3, <3>4 DEF Plans
  <2>. QED
    BY <1>5, <2>1, <2>2, <2>3, <2>4, <2>5, <2>6, <2>7 DEF HookStep, HookSteps
<1>6. CASE SyncStep
  <2>1. CASE StartSync
    <3>1. UNCHANGED <<tenant, hook, clock, topic>> /\ sync'.pc = "fetch" /\ sync'.row = tenant
      BY <2>1, StartSyncStep
    <3>2. Plans' = Plans /\ Latest' = Latest
      BY <3>1 DEF Plans, Latest
    <3>. QED
      BY <1>0, <3>1, <3>2 DEF PlanTold
  <2>2. ASSUME NEW s \in Status, SyncStatus(s) PROVE PlanTold'
    <3>1. /\ sync.pc = "fetch" /\ sync'.pc = "idle" /\ UNCHANGED hook
          /\ tenant'.plan = tenant.plan
          /\ UNCHANGED <<clock, topic>> \/ sync.row.plan # tenant.plan
      BY <2>2, SyncStatusStep
    <3>2. UNCHANGED <<clock, topic>>
      BY <1>0, <3>1
    <3>3. Plans' = Plans /\ Latest' = Latest
      BY <3>2 DEF Plans, Latest
    <3>4. \A h \in Hook : hook[h].pc = "idle"
      BY <1>0, <3>1 DEF Alone, Busy
    <3>. QED
      BY <1>0, <3>1, <3>2, <3>3, <3>4 DEF PlanTold
  <2>. QED
    BY <1>6, <2>1, <2>2 DEF SyncStep
<1>7. CASE KeysStep
  BY <1>1, <1>7, KeyStep DEF KeysStep, TenantRest, Plans
<1>8. CASE ApplyTenant \/ ConsumerTail
  BY <1>1, <1>8, OutsideDjango DEF djangoVars, Plans
<1>9. CASE Expires \/ \E r \in Reader : Request(r)
  BY <1>1, <1>9, RequestStep DEF djangoVars, Plans
<1>10. CASE UNCHANGED vars
  BY <1>1, <1>10 DEF vars, djangoVars, Plans
<1>. QED
  BY <1>5, <1>6, <1>7, <1>8, <1>9, <1>10, NextIsOne

-----------------------------------------------------------------------------
(* The snapshot of the consumer *)

\* Under the premise of PlanTold and with no handler that raised, the consumer's snapshot is
\* an event at or after its position.  (A restart moves the position back, and the events it
\* reads again are stale.)
SnapshotAhead ==
    crashes = 0 /\ failures = 0 /\ ~overlapped /\ ~tied =>
        \/ snapshot = NoConfig /\ position["tenants"] = 0
        \/ \E i \in 1..Len(Plans) : snapshot = Plans[i] /\ position["tenants"] <= i

\* The consumer starts before the first event.
LEMMA InitSnapshotAhead == Init => SnapshotAhead
BY DEF Init, SnapshotAhead

\* An event sent by a webhook leaves the earlier ones where they are; no other step of
\* Django writes the topic of the tenants under the premise.
LEMMA PlansKept ==
    ASSUME Typed, Alone, PlanTold, [Next]_vars, crashes' = 0, ~overlapped', ~tied',
           (\E h \in Hook : HookStep(h)) \/ SyncStep \/ KeysStep
    PROVE  /\ Len(Plans) \in Nat /\ Len(Plans)' \in Nat /\ Len(Plans) <= Len(Plans)'
           /\ \A i \in 1..Len(Plans) : Plans'[i] = Plans[i]
<1>. USE DEF Typed
<1>1. Plans \in Seq(Config)
  BY DEF DjangoTyped, Plans
<1>2. CASE Plans' = Plans
  BY <1>1, <1>2
<1>3. ASSUME NEW h \in Hook, HookStep(h)
      PROVE  Plans' = Plans \/ \E ev \in Config : Sends("tenants", ev)
  <2>1. CASE (\E e \in Event : ReceiveEvent(h, e)) \/ LogEvent(h) \/ LoadTenant(h)
             \/ AfterSave(h) \/ BuildPayload(h) \/ CrashHook(h) \/ SaveTenant(h)
             \/ VerifyPayment(h)
    BY <2>1 DEF ReceiveEvent, LogEvent, LoadTenant, AfterSave, BuildPayload, CrashHook,
       SaveTenant, VerifyPayment, Plans
  <2>2. CASE SendPlan(h)
    BY <2>2, SendStep
  <2>. QED
    BY <1>3, <2>1, <2>2 DEF HookStep, HookSteps
<1>4. CASE SyncStep
  <2>1. CASE StartSync
    BY <2>1, <1>2 DEF StartSync, Plans
  <2>2. ASSUME NEW s \in Status, SyncStatus(s) PROVE Plans' = Plans
    <3>1. sync.pc = "fetch" /\ (UNCHANGED <<clock, topic>> \/ sync.row.plan # tenant.plan)
      BY <2>2, SyncStatusStep
    <3>2. sync.row = tenant
      BY <3>1, HistoryKept DEF PlanTold
    <3>. QED
      BY <3>1, <3>2 DEF Plans
  <2>. QED
    BY <1>4, <1>2, <2>1, <2>2 DEF SyncStep
<1>5. CASE KeysStep
  BY <1>2, <1>5, KeyStep DEF KeysStep, Plans
<1>6. ASSUME NEW ev \in Config, Sends("tenants", ev)
      PROVE  /\ Len(Plans) \in Nat /\ Len(Plans)' \in Nat /\ Len(Plans) <= Len(Plans)'
             /\ \A i \in 1..Len(Plans) : Plans'[i] = Plans[i]
  BY <1>6, PlanAppended
<1>. QED
  BY <1>2, <1>3, <1>4, <1>5, <1>6

\* A stale event is one behind the snapshot, so what is read at the position is new exactly
\* when the snapshot is the event before it.
LEMMA NextSnapshotAhead ==
    ASSUME Typed, Alone, PlanTold, SnapshotAhead, [Next]_vars
    PROVE  SnapshotAhead'
<1>. USE DEF Typed
<1>. SUFFICES ASSUME crashes' = 0, failures' = 0, ~overlapped', ~tied' PROVE SnapshotAhead'
  BY DEF SnapshotAhead
<1>0. /\ crashes = 0 /\ failures = 0 /\ ~overlapped /\ ~tied
      /\ \/ snapshot = NoConfig /\ position["tenants"] = 0
         \/ \E i \in 1..Len(Plans) : snapshot = Plans[i] /\ position["tenants"] <= i
      /\ \A i, j \in 1..Len(Plans) : i < j => Plans[i].version < Plans[j].version
  BY HistoryKept DEF SnapshotAhead, PlanTold
<1>1. /\ position["tenants"] \in Nat /\ committed["tenants"] \in Nat
      /\ position'["tenants"] \in Nat
      /\ committed["tenants"] <= position["tenants"]
  BY NextTyped DEF ConsumerTyped, Partition
<1>2. Plans \in Seq(Config) /\ Len(Plans) \in Nat
  BY DEF DjangoTyped, Plans
<1>3. ASSUME UNCHANGED <<snapshot, Plans>>, position'["tenants"] <= position["tenants"]
      PROVE  SnapshotAhead'
  BY <1>0, <1>1, <1>2, <1>3 DEF SnapshotAhead
<1>4. CASE (\E h \in Hook : HookStep(h)) \/ SyncStep \/ KeysStep
  <2>1. UNCHANGED <<snapshot, position>>
    BY <1>4, InsideDjango DEF consumerVars
  <2>2. /\ Len(Plans)' \in Nat /\ Len(Plans) <= Len(Plans)'
        /\ \A i \in 1..Len(Plans) : Plans'[i] = Plans[i]
    BY <1>4, PlansKept
  <2>3. \A i \in 1..Len(Plans) : i \in 1..Len(Plans)'
    BY <1>2, <2>2
  <2>. QED
    BY <1>0, <2>1, <2>2, <2>3 DEF SnapshotAhead
<1>5. CASE ApplyTenant
  <2>. DEFINE j == position["tenants"] + 1
  <2>1. /\ position["tenants"] < Len(Plans) /\ position'["tenants"] = j
        /\ \/ IsStale(Plans[j]) /\ UNCHANGED snapshot
           \/ ~IsStale(Plans[j]) /\ snapshot' = Plans[j]
    BY <1>5, ApplyTenantStep DEF Plans
  <2>2. Plans' = Plans
    BY <1>5, OutsideDjango DEF Plans
  <2>3. j \in 1..Len(Plans) /\ j \in Nat
    BY <1>1, <1>2, <2>1
  <2>4. CASE snapshot' = Plans[j]
    BY <2>1, <2>2, <2>3, <2>4 DEF SnapshotAhead
  <2>5. CASE IsStale(Plans[j]) /\ UNCHANGED snapshot
    <3>1. PICK i \in 1..Len(Plans) : snapshot = Plans[i] /\ position["tenants"] <= i
      BY <1>0, <2>5 DEF IsStale
    <3>2. Plans[i].version >= Plans[j].version
      BY <2>5, <3>1 DEF IsStale
    <3>3. Plans[i].version \in Nat /\ Plans[j].version \in Nat
      <4>1. Plans[i] \in Config /\ Plans[j] \in Config
        BY <1>2, <2>3
      <4>. QED
        BY <4>1 DEF Config
    <3>4. ~(i < j)
      BY <1>0, <2>3, <3>2, <3>3
    <3>5. j <= i
      BY <2>3, <3>4
    <3>. QED
      BY <2>1, <2>2, <2>5, <3>1, <3>5 DEF SnapshotAhead
  <2>. QED
    BY <2>1, <2>4, <2>5
<1>6. CASE ConsumerTail
  <2>1. UNCHANGED snapshot /\ position'["tenants"] <= position["tenants"]
    BY <1>6, ConsumerStep DEF ConsumerTail
  <2>2. Plans' = Plans
    BY <1>6, OutsideDjango DEF Plans
  <2>. QED
    BY <1>3, <2>1, <2>2
<1>7. CASE Expires \/ \E r \in Reader : Request(r)
  BY <1>1, <1>3, <1>7, RequestStep DEF consumerVars, Plans
<1>8. CASE UNCHANGED vars
  BY <1>1, <1>3, <1>8 DEF vars, consumerVars, Plans
<1>. QED
  BY <1>4, <1>5, <1>6, <1>7, <1>8, NextIsOne

-----------------------------------------------------------------------------
(* The properties *)

Sound == Typed /\ AppliedOnce /\ Alone /\ FlagTold /\ PlanTold /\ SnapshotAhead

\* Every state of the specification has the inductive invariants.
LEMMA SoundInvariant == Spec => []Sound
<1>1. Init => Sound
  BY InitTyped, InitAppliedOnce, InitAlone, InitFlagTold, InitPlanTold, InitSnapshotAhead
     DEF Sound
<1>2. Sound /\ [Next]_vars => Sound'
  BY NextTyped, NextAppliedOnce, NextAlone, NextFlagTold, NextPlanTold, NextSnapshotAhead
     DEF Sound
<1>. QED
  BY <1>1, <1>2, PTL DEF Spec

\* A billing event takes effect at most once, whatever deliveries of it run at the same time
\* and wherever one of them ends: only the delivery that wrote its BillingEvent row, which is
\* unique, goes on to save the tenant (RazorpayWebhookView.post).
THEOREM EventsBilledOnce == Spec => []BilledOnce
<1>1. Sound => BilledOnce
  <2>. SUFFICES ASSUME Sound PROVE BilledOnce
    OBVIOUS
  <2>1. TypeOK
    BY DEF Sound, Typed, DjangoTyped, ConsumerTyped, ReaderTyped, TypeOK, Row, Partition
  <2>2. EventAppliedOnce
    BY DEF Sound, AppliedOnce, EventAppliedOnce
  <2>. QED
    BY <2>1, <2>2 DEF BilledOnce
<1>. QED
  BY <1>1, SoundInvariant, PTL

\* The suspension flag of Redis, which every request of FastAPI checks, says what the status
\* column says whenever no webhook is running - as long as webhooks came one after the other,
\* none ended half way and the hourly sync, which does not write the flag, did not run.
THEOREM FlagIsTrue == Spec => []FlagFollowsStatus
<1>1. Sound => FlagFollowsStatus
  <2>. SUFFICES ASSUME Sound, Quiet, crashes = 0, syncs = 0, ~overlapped
                PROVE  flag <=> tenant.status = "suspended"
    BY DEF FlagFollowsStatus
  <2>1. \A h \in Hook : hook[h].pc = "idle"
    BY NobodyWrites DEF Quiet, Busy
  <2>. QED
    BY <2>1 DEF Sound, FlagTold, Suspended
<1>. QED
  BY <1>1, SoundInvariant, PTL

\* Once the consumer has read the whole topic, the plan of DB-2 is the plan of DB-1, under
\* the premise that the code needs: no two writers of the tenant at once, no request ended
\* between the row and its event, no handler raised, no two events in one millisecond.
THEOREM PlanArrives == Spec => []PlanConverges
<1>1. Sound => PlanConverges
  <2>. SUFFICES ASSUME Sound, Quiet, crashes = 0, failures = 0, ~overlapped, ~tied,
                       position.tenants = Len(topic.tenants)
                PROVE  snapshot.plan = tenant.plan
    BY DEF PlanConverges
  <2>1. \A h \in Hook : hook[h].pc = "idle"
    BY NobodyWrites DEF Quiet, Busy
  <2>2. Len(Plans) > 0 /\ Latest.plan = tenant.plan
    BY <2>1 DEF Sound, PlanTold
  <2>3. Len(Plans) \in Nat
    BY DEF Sound, Typed, DjangoTyped, Plans
  <2>4. PICK i \in 1..Len(Plans) : snapshot = Plans[i] /\ Len(Plans) <= i
    BY <2>2, <2>3 DEF Sound, SnapshotAhead, Plans
  <2>5. i = Len(Plans)
    BY <2>3, <2>4
  <2>. QED
    BY <2>2, <2>4, <2>5 DEF Latest
<1>. QED
  BY <1>1, SoundInvariant, PTL

-----------------------------------------------------------------------------
(* The accounts of a tenant: what every row and every request satisfies *)

HeldTokens == [status : {"holds"}, user : Email, role : Role, jti : Nat]

OnInvite == {"mail", "join", "cancel", "resend"}
OnMember == {"role", "profile", "password"}
OnSession == {"refresh", "logout", "revoke", "block"}

\* No row is held by two requests that may write it, unless that is on record.
HeldAlone ==
    \A v, w \in Worker : v # w /\ req[v].pc # "ttl" /\ req[w].pc # "ttl" =>
        req[v].has \cap req[w].has \subseteq raced

\* An accepted invitation, stored or loaded, names the member it made.
Made(row) == row.status = "accepted" => row.by = row.email /\ Member(row.email)

InvitationsTyped ==
    /\ inv \in [Invite -> InvitationRow \cup {NoRow}]
    /\ told.inv \in [Invite -> {"none", "pending", "accepted", "expired", "cancelled"}]
    /\ \A m \in mail : m.id \in Invite /\ inv[m.id] # NoRow
    /\ \A i, j \in Invite : i # j /\ inv[i] # NoRow /\ inv[j] # NoRow =>
          <<inv[i].email, inv[i].status>> # <<inv[j].email, inv[j].status>>
    /\ \A i \in Invite : inv[i] # NoRow => Made(inv[i])

\* A request on an invitation holds it, and the status it loaded is the stored one while
\* nobody else holds it.
InviteRequest(q) ==
    /\ q.pc = "invite" => q.email \in Invitee /\ q.role \in Invitable
    /\ q.pc \in OnInvite =>
          /\ q.id \in Invite /\ inv[q.id] # NoRow
          /\ q.row \in InvitationRow /\ Made(q.row)
          /\ q.has = {q.id}
          /\ q.pc # "mail" => q.row.status = "pending"
          /\ q.id \notin raced => q.row.status = inv[q.id].status

InvitationPart ==
    InvitationsTyped /\ InvitationAnswerHolds /\ \A w \in Worker : InviteRequest(req[w])

\* The rows of the owner, stored or loaded, are those of an active owner.
Owns(e, row) == e = Owner => row.role = "owner" /\ row.active

MembersTyped ==
    /\ user \in [Email -> UserRow \cup {NoRow}]
    /\ told.user \in [Email -> UserRow \cup {NoRow}]
    /\ \A e \in Email : Member(e) => told.user[e] # NoRow
    /\ plan \in {"free", "pro"}
    /\ team \in Seq(Email) /\ Len(team) > 0 /\ team[1] = Owner
    /\ \A m, n \in 1..Len(team) : team[m] = team[n] => m = n
    /\ \A e \in Email : Member(e) <=> \E n \in 1..Len(team) : team[n] = e

\* The fields of a request that saves a password.
OfPassword(q) ==
    q = [pc |-> q.pc, has |-> q.has, email |-> q.email, row |-> q.row, reset |-> q.reset]

\* A request on a member holds its row, and what it is going to save is the stored row but
\* for its own column while nobody else holds it.
MemberRequest(q) ==
    /\ q.pc \in OnMember =>
          /\ q.email \in Email /\ Member(q.email) /\ q.email \in q.has
          /\ q.row \in UserRow /\ Owns(q.email, q.row)
    /\ q.pc = "role" =>
          /\ q.email # Owner
          /\ q.email \notin raced => q.row = [user[q.email] EXCEPT !.role = q.row.role]
    /\ q.pc \in {"profile", "password"} =>
          (q.email \notin raced => q.row = user[q.email])
    /\ q.pc \in {"password", "use", "sessions"} =>
          q.email \in Email /\ Member(q.email) /\ q.reset \in Nat
    /\ q.pc \in {"password", "use"} => OfPassword(q)
    /\ q.pc = "verified" =>
          /\ Owner \in q.has /\ q.row \in UserRow /\ Owns(Owner, q.row)
          /\ Owner \notin raced => q.row = user[Owner]
    /\ q.pc = "finalise" => q.email \in Email /\ Member(q.email) /\ q.row \in UserRow
    /\ q.pc = "mfa" => q.row \in UserRow

MemberPart ==
    MembersTyped /\ OwnerRemains /\ UserAnswerHolds /\ \A w \in Worker : MemberRequest(req[w])

Issued(s) == client[s] # NoRow
SessionsTyped ==
    /\ session \in [Session -> SessionRow \cup {NoRow}]
    /\ client \in [Session -> HeldTokens \cup {NoRow}]
    /\ \A s \in Session : Issued(s) => Member(client[s].user)
    /\ \A s \in Session : session[s] # NoRow => Issued(s) /\ Member(session[s].user)
    /\ blocked \cup ended \subseteq {s \in Session : Issued(s)}

\* A request on a session holds it; while nobody else does, the one that refreshes it finds
\* it not ended, and the one that ends it is not undone.
SessionRequest(q) ==
    q.pc \in OnSession =>
        /\ q.id \in Session /\ Issued(q.id) /\ q.has = {q.id}
        /\ q.pc \in {"refresh", "revoke"} => q.row \in SessionRow
        /\ q.pc = "logout" => q.row \in SessionRow \cup {NoRow}
        /\ q.pc # "block" /\ q.row # NoRow => Member(q.row.user)
        /\ q.pc = "refresh" => q.row.status = "live" /\ q.role \in Role /\ q.jti \in Nat
        /\ q.id \notin raced =>
              /\ q.pc = "refresh" => q.id \notin ended
              /\ q.pc = "block" => ~Live(q.id)
              /\ q.pc = "logout" /\ q.row = NoRow => session[q.id] = NoRow

SessionPart == SessionsTyped /\ SessionsHold /\ \A w \in Worker : SessionRequest(req[w])

\* What a worker may still count: codes of a second factor that are under way, and logins that
\* were admitted.  Each was admitted below the limit, so together they pass it by less than the
\* number of workers.
Admitted == {"login", "unverified", "count"}
SecondFactors == {w \in Worker : req[w].pc = "mfa"}
Admissions == {w \in Worker : req[w].pc \in Admitted}
Room == MaxFailures - 1 + Cardinality(Worker)
CodesBounded == attempts \in Nat /\ attempts + Cardinality(SecondFactors) <= Room
LoginsBounded == failedLogins \in Nat /\ failedLogins + Cardinality(Admissions) <= Room

\* A request that disables the device, unless there was another, still finds it as it loaded
\* it: a confirmed device is changed by nothing else.
DisablesAlone ==
    "device" \notin raced =>
        /\ \A v, w \in Worker : req[v].pc = "disable" /\ req[w].pc = "disable" => v = w
        /\ \A w \in Worker : req[w].pc = "disable" =>
              device.id = req[w].token /\ device.status = "confirmed"

LimitRequest(q) ==
    /\ q.pc = "ttl" => "counter" \in q.has
    /\ q.pc \in {"verify", "confirm", "disable"} => q.token \in Nat
LimitPart ==
    /\ verification \in VerificationRow /\ reset \in ResetRow /\ device \in DeviceRow
    /\ DeviceAnswerHolds /\ DisablesAlone /\ CounterHasTtl
    /\ CodesBounded /\ LoginsBounded
    /\ ops \in 0..MaxOps /\ deaths \in 0..MaxCrashes
    /\ \A w \in Worker : LimitRequest(req[w])

\* A request at q that goes on at s is admitted to nothing.
Follows(q, s) ==
    /\ s.pc \notin {"mfa", "disable"}
    /\ s.pc \in Admitted => q.pc \in Admitted

Records ==
    /\ req = [w \in Worker |-> req[w]]
    /\ told = [user |-> told.user, inv |-> told.inv, device |-> told.device]

AccountsKept ==
    Records /\ HeldAlone /\ InvitationPart /\ MemberPart /\ SessionPart /\ LimitPart

-----------------------------------------------------------------------------
(* What a step leaves as it is *)

LEMMA AccountFacts ==
    /\ Owner \in Email /\ Invitee \subseteq Email /\ Owner \notin Invitee
    /\ IsFiniteSet(Worker) /\ ProSeats \in Nat /\ FreeSeats \in Nat \ {0}
    /\ MaxFailures \in Nat \ {0} /\ MaxOps \in Nat /\ MaxCrashes \in Nat
BY AccountsAssumption DEF Email

\* Nothing but one request changes.
LEMMA OneMoves ==
    ASSUME Records, NEW w \in Worker, NEW s, Go(w, s)
    PROVE  /\ req' = [v \in Worker |-> req'[v]]
           /\ req'[w] = s
           /\ \A v \in Worker \ {w} : req'[v] = req[v]
BY DEF Records, Go

\* Members stay members, and issued sessions issued.
MembersStay == \A e \in Email : Member(e) => Member(e)'
IssuedStay == \A s \in Session : Issued(s) => Issued(s)'

\* A request that takes up rows others hold puts them on record; one that keeps or drops
\* what it held need not.
LEMMA HeldAloneKept ==
    ASSUME AccountsKept, NEW w \in Worker, NEW s, Go(w, s), raced \subseteq raced',
           \/ s.pc = "ttl" \/ s.has = {} \/ Contended(s.has, w) \subseteq raced'
           \/ req[w].pc # "ttl" /\ s.has \subseteq req[w].has
    PROVE  HeldAlone'
<1>. DEFINE Apart(v, x) == req'[v].pc # "ttl" /\ req'[x].pc # "ttl" =>
                               req'[v].has \cap req'[x].has \subseteq raced'
<1>1. /\ req'[w] = s
      /\ \A v \in Worker \ {w} : req'[v] = req[v]
  BY OneMoves DEF AccountsKept
<1>2. ASSUME NEW v \in Worker \ {w} PROVE Apart(v, w)
  <2>. SUFFICES ASSUME req[v].pc # "ttl", s.pc # "ttl", NEW o \in req[v].has, o \in s.has
                PROVE  o \in raced'
    BY <1>1, <1>2
  <2>1. CASE Contended(s.has, w) \subseteq raced'
    BY <2>1 DEF Contended
  <2>2. CASE req[w].pc # "ttl" /\ s.has \subseteq req[w].has
    BY <2>2 DEF AccountsKept, HeldAlone
  <2>. QED
    BY <2>1, <2>2
<1>3. ASSUME NEW v \in Worker \ {w}, NEW x \in Worker \ {w}, v # x PROVE Apart(v, x)
  BY <1>1, <1>3 DEF AccountsKept, HeldAlone
<1>4. \A v, x \in Worker : v # x => Apart(v, x)
  <2>. SUFFICES ASSUME NEW v \in Worker, NEW x \in Worker, v # x PROVE Apart(v, x)
    OBVIOUS
  <2>1. CASE v = w
    BY <1>2, <2>1
  <2>2. CASE x = w
    BY <1>2, <2>2
  <2>. QED
    BY <1>3, <2>1, <2>2
<1>. QED
  BY <1>4 DEF HeldAlone

LEMMA InvitationsStand ==
    ASSUME AccountsKept, MembersStay, raced \subseteq raced',
           UNCHANGED inv, mail' \subseteq mail, told'.inv = told.inv,
           \A w \in Worker : req'[w] = req[w] \/ InviteRequest(req'[w])
    PROVE  InvitationPart'
<1>1. \A row \in InvitationRow : Made(row) => Made(row)'
  BY AccountFacts DEF Made, MembersStay, InvitationRow
<1>2. InvitationsTyped'
  <2>1. \A i \in Invite : inv[i] # NoRow => Made(inv[i])'
    BY <1>1 DEF AccountsKept, InvitationPart, InvitationsTyped
  <2>. QED
    BY <2>1 DEF AccountsKept, InvitationPart, InvitationsTyped
<1>3. InvitationAnswerHolds'
  BY DEF AccountsKept, InvitationPart, InvitationAnswerHolds
<1>4. ASSUME NEW w \in Worker PROVE InviteRequest(req[w])'
  <2>1. InviteRequest(req'[w])
    BY DEF AccountsKept, InvitationPart
  <2>. QED
    BY <1>1, <2>1 DEF InviteRequest
<1>. QED
  BY <1>2, <1>3, <1>4 DEF InvitationPart

LEMMA MembersStand ==
    ASSUME AccountsKept, raced \subseteq raced', UNCHANGED <<user, team>>,
           plan' \in {"free", "pro"}, told'.user = told.user,
           \A w \in Worker : req'[w] = req[w] \/ MemberRequest(req'[w])
    PROVE  MemberPart'
<1>1. MembersTyped' /\ OwnerRemains' /\ UserAnswerHolds'
  BY DEF AccountsKept, MemberPart, MembersTyped, OwnerRemains, UserAnswerHolds, Member
<1>2. ASSUME NEW w \in Worker PROVE MemberRequest(req[w])'
  <2>1. MemberRequest(req'[w])
    BY DEF AccountsKept, MemberPart
  <2>. QED
    BY <2>1 DEF MemberRequest, Member, Owns
<1>. QED
  BY <1>1, <1>2 DEF MemberPart

LEMMA SessionsStand ==
    ASSUME AccountsKept, MembersStay, raced \subseteq raced',
           UNCHANGED <<session, client, blocked, ended>>,
           \A w \in Worker : req'[w] = req[w] \/ SessionRequest(req'[w]),
           \A w \in Worker : req[w].pc = "block" => req'[w] = req[w] \/ req[w].has \subseteq raced'
    PROVE  SessionPart'
<1>1. SessionsTyped'
  BY DEF AccountsKept, SessionPart, SessionsTyped, Issued, MembersStay, HeldTokens, SessionRow
<1>2. SessionsHold'
  <2>1. LoneClientKeepsSession'
    BY DEF AccountsKept, SessionPart, SessionsHold, LoneClientKeepsSession, Live
  <2>2. EndedStaysEnded'
    BY DEF AccountsKept, SessionPart, SessionsHold, EndedStaysEnded, Live
  <2>. QED
    BY <2>1, <2>2 DEF SessionsHold
<1>3. ASSUME NEW w \in Worker PROVE SessionRequest(req[w])'
  <2>1. SessionRequest(req'[w])
    BY DEF AccountsKept, SessionPart
  <2>2. \A row \in SessionRow : Member(row.user) => Member(row.user)'
    BY DEF MembersStay, SessionRow
  <2>. QED
    BY <2>1, <2>2 DEF SessionRequest, OnSession, Issued, Live
<1>. QED
  BY <1>1, <1>2, <1>3 DEF SessionPart

LEMMA WorkersCounted ==
    ASSUME NEW S, S \subseteq Worker, NEW R, R \subseteq S
    PROVE  /\ IsFiniteSet(S) /\ Cardinality(R) \in Nat /\ Cardinality(S) \in Nat
           /\ Cardinality(Worker) \in Nat /\ Room \in Nat
           /\ Cardinality(R) <= Cardinality(S) /\ Cardinality(S) <= Cardinality(Worker)
<1>1. IsFiniteSet(S) /\ IsFiniteSet(R)
  BY AccountFacts, FS_Subset
<1>2. /\ Cardinality(R) \in Nat /\ Cardinality(S) \in Nat /\ Cardinality(Worker) \in Nat
      /\ Cardinality(R) <= Cardinality(S) /\ Cardinality(S) <= Cardinality(Worker)
  BY <1>1, AccountFacts, FS_Subset, FS_CardinalityType
<1>3. Room \in Nat
  BY <1>2, AccountFacts DEF Room
<1>. QED
  BY <1>1, <1>2, <1>3

LEMMA CodesStand ==
    ASSUME AccountsKept, attempts' \in {0, attempts},
           \A v \in Worker : req'[v] = req[v] \/ req'[v].pc # "mfa"
    PROVE  CodesBounded'
<1>1. SecondFactors \subseteq Worker /\ SecondFactors' \subseteq SecondFactors
  BY DEF SecondFactors
<1>2. Room' = Room
  BY DEF Room
<1>3. attempts \in Nat /\ attempts + Cardinality(SecondFactors) <= Room
  BY DEF AccountsKept, LimitPart, CodesBounded
<1>4. /\ Cardinality(SecondFactors') \in Nat /\ Cardinality(SecondFactors) \in Nat /\ Room \in Nat
      /\ Cardinality(SecondFactors') <= Cardinality(SecondFactors)
  BY <1>1, WorkersCounted
<1>5. CASE attempts' = 0
  BY <1>1, <1>2, <1>3, <1>4, <1>5 DEF CodesBounded
<1>6. CASE attempts' = attempts
  BY <1>1, <1>2, <1>3, <1>4, <1>6 DEF CodesBounded
<1>. QED
  BY <1>5, <1>6

LEMMA LoginsStand ==
    ASSUME AccountsKept, failedLogins' \in {0, failedLogins},
           \A v \in Worker :
              req'[v] = req[v] \/ (req'[v].pc \in Admitted => req[v].pc \in Admitted)
    PROVE  LoginsBounded'
<1>1. Admissions \subseteq Worker /\ Admissions' \subseteq Admissions
  BY DEF Admissions
<1>2. Room' = Room
  BY DEF Room
<1>3. failedLogins \in Nat /\ failedLogins + Cardinality(Admissions) <= Room
  BY DEF AccountsKept, LimitPart, LoginsBounded
<1>4. /\ Cardinality(Admissions') \in Nat /\ Cardinality(Admissions) \in Nat /\ Room \in Nat
      /\ Cardinality(Admissions') <= Cardinality(Admissions)
  BY <1>1, WorkersCounted
<1>5. CASE failedLogins' = 0
  BY <1>1, <1>2, <1>3, <1>4, <1>5 DEF LoginsBounded
<1>6. CASE failedLogins' = failedLogins
  BY <1>1, <1>2, <1>3, <1>4, <1>6 DEF LoginsBounded
<1>. QED
  BY <1>5, <1>6

LEMMA DeviceStands ==
    ASSUME AccountsKept, raced \subseteq raced', device' = device, told'.device = told.device,
           \A v \in Worker : req'[v] = req[v] \/ req'[v].pc # "disable"
    PROVE  DeviceAnswerHolds' /\ DisablesAlone'
<1>1. DeviceAnswerHolds'
  BY DEF AccountsKept, LimitPart, DeviceAnswerHolds
<1>2. DisablesAlone'
  BY DEF AccountsKept, LimitPart, DisablesAlone
<1>. QED
  BY <1>1, <1>2

\* The limits and tokens, part by part.
LEMMA LimitsMet ==
    ASSUME AccountsKept,
           verification' \in VerificationRow, reset' \in ResetRow, device' \in DeviceRow,
           DeviceAnswerHolds', DisablesAlone', CounterHasTtl', CodesBounded', LoginsBounded',
           ops' \in 0..MaxOps, deaths' \in 0..MaxCrashes,
           \A v \in Worker : req'[v] = req[v] \/ LimitRequest(req'[v])
    PROVE  LimitPart'
<1>1. \A v \in Worker : LimitRequest(req[v])'
  BY DEF AccountsKept, LimitPart, LimitRequest
<1>. QED
  BY <1>1 DEF LimitPart

LEMMA LimitsStand ==
    ASSUME AccountsKept, raced \subseteq raced', UNCHANGED <<proof, rate>>,
           told'.device = told.device, ops' \in 0..MaxOps, deaths' \in 0..MaxCrashes,
           \A w \in Worker :
              req'[w] = req[w] \/ (LimitRequest(req'[w]) /\ Follows(req[w], req'[w])),
           \A w \in Worker : req[w].pc = "ttl" => req'[w] = req[w] \/ "counter" \in raced'
    PROVE  LimitPart'
<1>1. UNCHANGED <<verification, reset, device, failedLogins, failedLoginsTtl, attempts>>
  BY DEF proof, rate
<1>2. CodesBounded' /\ LoginsBounded'
  BY <1>1, CodesStand, LoginsStand DEF Follows
<1>3. CounterHasTtl'
  BY <1>1 DEF AccountsKept, LimitPart, CounterHasTtl
<1>4. DeviceAnswerHolds' /\ DisablesAlone'
  BY <1>1, DeviceStands DEF Follows
<1>5. verification' \in VerificationRow /\ reset' \in ResetRow /\ device' \in DeviceRow
  BY <1>1 DEF AccountsKept, LimitPart
<1>. QED
  BY <1>2, <1>3, <1>4, <1>5, LimitsMet

\* The four parts of the invariant, and what ties the requests together, make it.
LEMMA PartsKept ==
    ASSUME AccountsKept, NEW w \in Worker, NEW s, Go(w, s), told' = told,
           HeldAlone', InvitationPart', MemberPart', SessionPart', LimitPart'
    PROVE  AccountsKept'
BY OneMoves DEF AccountsKept, Records

\* A member's rows, stored and told, and the owner's.
LEMMA MemberFacts ==
    ASSUME AccountsKept
    PROVE  /\ \A e \in Email : Member(e) => user[e] \in UserRow /\ told.user[e] \in UserRow
           /\ Member(Owner) /\ user[Owner] \in UserRow /\ Owns(Owner, user[Owner])
<1>1. \A e \in Email : Member(e) => user[e] \in UserRow /\ told.user[e] \in UserRow
  BY DEF AccountsKept, MemberPart, MembersTyped, Member, NoRow
<1>2. Member(Owner)
  BY AccountFacts DEF AccountsKept, MemberPart, MembersTyped
<1>. QED
  BY <1>1, <1>2, AccountFacts DEF AccountsKept, MemberPart, OwnerRemains, Owns

LEMMA IdleFits ==
    /\ InviteRequest(IdleReq) /\ MemberRequest(IdleReq) /\ SessionRequest(IdleReq)
    /\ LimitRequest(IdleReq) /\ IdleReq.pc = "idle" /\ IdleReq.has = {}
    /\ \A q : Follows(q, IdleReq)
BY DEF InviteRequest, MemberRequest, SessionRequest, LimitRequest, IdleReq, OnInvite, OnMember,
       OnSession, Follows, Admitted

\* A request that begins with rows as they are stored.
LEMMA Started ==
    ASSUME AccountsKept, NEW w \in Worker, NEW s, Start(w, s),
           UNCHANGED <<rows, login, proof, rate, deaths, told, ended>>,
           InviteRequest(s), MemberRequest(s), SessionRequest(s), LimitRequest(s),
           Follows(req[w], s)
    PROVE  AccountsKept'
<1>1. /\ Go(w, s) /\ Idle(w) /\ raced' = raced \cup Contended(s.has, w) /\ ops' \in 0..MaxOps
  BY AccountFacts DEF Start, Begin, AccountsKept, LimitPart
<1>2. /\ req'[w] = s /\ \A v \in Worker \ {w} : req'[v] = req[v]
      /\ req[w].pc = "idle"
  BY <1>1, OneMoves DEF AccountsKept, Idle
<1>3. HeldAlone'
  BY <1>1, HeldAloneKept
<1>4. MembersStay /\ InvitationPart'
  BY <1>1, <1>2, InvitationsStand DEF rows, MembersStay, Member, AccountsKept, InvitationPart
<1>5. MemberPart'
  BY <1>1, <1>2, MembersStand DEF rows, AccountsKept, MemberPart, MembersTyped
<1>6. SessionPart'
  BY <1>1, <1>2, <1>4, SessionsStand DEF login, AccountsKept, SessionPart
<1>7. LimitPart'
  <2>1. deaths' \in 0..MaxCrashes
    BY DEF AccountsKept, LimitPart
  <2>2. \A v \in Worker : req'[v] = req[v] \/ (LimitRequest(req'[v]) /\ Follows(req[v], req'[v]))
    BY <1>2
  <2>3. \A v \in Worker : req[v].pc = "ttl" => req'[v] = req[v]
    BY <1>2
  <2>. QED
    BY <1>1, <2>1, <2>2, <2>3, LimitsStand
<1>. QED
  BY <1>1, <1>3, <1>4, <1>5, <1>6, <1>7, PartsKept

\* The requests that load an invitation, or nothing yet.
LEMMA InvitationLoads ==
    ASSUME AccountsKept, NEW w \in Worker,
           \/ \E e \in Invitee, r \in Invitable : CheckInvite(w, e, r)
           \/ \E i \in Invite : LoadInvite(w, i, "password")
           \/ \E i \in Invite : LoadOAuthInvite(w, i)
           \/ \E i \in Invite : LoadToCancel(w, i)
           \/ \E i \in Invite : LoadToResend(w, i)
    PROVE  AccountsKept'
<1>. USE DEF OnInvite, OnMember, OnSession
<1>1. ASSUME NEW e \in Invitee, NEW r \in Invitable, CheckInvite(w, e, r)
      PROVE  AccountsKept'
  <2>. DEFINE s == [pc |-> "invite", has |-> {}, email |-> e, role |-> r]
  <2>1. InviteRequest(s) /\ MemberRequest(s) /\ SessionRequest(s) /\ LimitRequest(s)
        /\ Follows(req[w], s)
    BY DEF InviteRequest, MemberRequest, SessionRequest, LimitRequest, Follows, Admitted
  <2>. QED
    BY <1>1, <2>1, Started DEF CheckInvite
<1>2. ASSUME NEW i \in Invite, inv[i] # NoRow, inv[i].status = "pending", NEW s,
             s.pc \in {"join", "cancel", "resend"}, s.id = i, s.row = inv[i], s.has = {i}
      PROVE  InviteRequest(s) /\ MemberRequest(s) /\ SessionRequest(s) /\ LimitRequest(s)
             /\ Follows(req[w], s)
  BY <1>2 DEF InviteRequest, MemberRequest, SessionRequest, LimitRequest, AccountsKept,
     InvitationPart, InvitationsTyped, Follows, Admitted
<1>3. ASSUME NEW i \in Invite, NEW how, LoadInvite(w, i, how)
      PROVE  AccountsKept'
  BY <1>2, <1>3, Started DEF LoadInvite
<1>4. ASSUME NEW i \in Invite, LoadToCancel(w, i) PROVE AccountsKept'
  BY <1>2, <1>4, Started DEF LoadToCancel
<1>5. ASSUME NEW i \in Invite, LoadToResend(w, i) PROVE AccountsKept'
  BY <1>2, <1>5, Started DEF LoadToResend
<1>. QED
  BY <1>1, <1>3, <1>4, <1>5 DEF LoadOAuthInvite

\* The requests that load a member, and the one that has seen the token of a verification.
LEMMA MemberLoads ==
    ASSUME AccountsKept, NEW w \in Worker,
           \/ \E e \in Email, r \in Role : RoleRead(w, e, r)
           \/ \E e \in Email : ProfileRead(w, e)
           \/ \E e \in Email : ChangePassword(w, e)
           \/ ResetPassword(w) \/ VerifyRead(w)
    PROVE  AccountsKept'
<1>. USE DEF OnInvite, OnMember, OnSession
<1>. DEFINE Fits4(s) == InviteRequest(s) /\ MemberRequest(s) /\ SessionRequest(s)
                        /\ LimitRequest(s) /\ Follows(req[w], s)
<1>1. ASSUME NEW e \in Email, NEW r \in Role, RoleRead(w, e, r) PROVE AccountsKept'
  <2>. DEFINE s == [pc |-> "role", has |-> {e}, email |-> e, row |-> [user[e] EXCEPT !.role = r]]
  <2>1. user[e] \in UserRow /\ e # Owner /\ Member(e)
    BY <1>1, MemberFacts DEF RoleRead, Owns
  <2>2. s.row \in UserRow /\ s.row = [user[e] EXCEPT !.role = s.row.role]
    BY <2>1 DEF UserRow
  <2>3. Fits4(s)
    BY <2>1, <2>2 DEF InviteRequest, MemberRequest, SessionRequest, LimitRequest, Owns,
       Follows, Admitted
  <2>. QED
    BY <1>1, <2>3, Started DEF RoleRead
<1>2. ASSUME NEW e \in Email, HoldsToken(e) PROVE Member(e)
  BY <1>2 DEF HoldsToken, TokenOf, AccountsKept, SessionPart, SessionsTyped, Issued
<1>3. ASSUME NEW e \in Email, Member(e), NEW s, s.pc \in {"profile", "password"}, s.email = e,
             s.row = user[e], e \in s.has,
             s.pc = "password" =>
                s.reset \in Nat /\ OfPassword(s)
      PROVE  Fits4(s)
  BY <1>3, MemberFacts DEF InviteRequest, MemberRequest, SessionRequest, LimitRequest, Owns,
     Follows, Admitted
<1>4. ASSUME NEW e \in Email, ProfileRead(w, e) PROVE AccountsKept'
  BY <1>2, <1>3, <1>4, Started DEF ProfileRead
<1>5. ASSUME NEW e \in Email, ChangePassword(w, e) PROVE AccountsKept'
  <2>. DEFINE s == [pc |-> "password", has |-> {e}, email |-> e, row |-> user[e], reset |-> 0]
  <2>1. OfPassword(s) /\ Start(w, s)
    BY <1>5 DEF OfPassword, ChangePassword
  <2>. QED
    BY <1>2, <1>3, <1>5, <2>1, Started DEF ChangePassword
<1>6. CASE ResetPassword(w)
  <2>. DEFINE s == [pc |-> "password", has |-> {Owner}, email |-> Owner,
                    row |-> user[Owner], reset |-> reset.id]
  <2>1. reset.id \in Nat
    BY DEF AccountsKept, LimitPart, ResetRow
  <2>2. Fits4(s)
    BY <1>3, <2>1, MemberFacts, AccountFacts DEF OfPassword
  <2>. QED
    BY <1>6, <2>2, Started DEF ResetPassword
<1>7. CASE VerifyRead(w)
  <2>. DEFINE s == [pc |-> "verify", has |-> {}, token |-> verification.id]
  <2>1. verification.id \in Nat
    BY DEF AccountsKept, LimitPart, VerificationRow
  <2>2. Fits4(s)
    BY <2>1 DEF InviteRequest, MemberRequest, SessionRequest, LimitRequest, Follows, Admitted
  <2>. QED
    BY <1>7, <2>2, Started DEF VerifyRead
<1>. QED
  BY <1>1, <1>4, <1>5, <1>6, <1>7

\* The requests that load a session, and the one that has seen the code of a device.
LEMMA SessionLoads ==
    ASSUME AccountsKept, NEW w \in Worker,
           \/ \E s \in Session : RefreshLoad(w, s)
           \/ \E s \in Session : RevokeLoad(w, s)
           \/ ConfirmRead(w)
    PROVE  AccountsKept'
<1>. USE DEF OnInvite, OnMember, OnSession
<1>. DEFINE Fits4(s) == InviteRequest(s) /\ MemberRequest(s) /\ SessionRequest(s)
                        /\ LimitRequest(s) /\ Follows(req[w], s)
<1>1. ASSUME NEW s \in Session, session[s] # NoRow
      PROVE  session[s] \in SessionRow /\ Issued(s) /\ Member(session[s].user)
  BY <1>1 DEF AccountsKept, SessionPart, SessionsTyped
<1>2. ASSUME NEW s \in Session, RefreshLoad(w, s) PROVE AccountsKept'
  <2>. DEFINE q == [pc |-> "refresh", has |-> {s}, id |-> s, row |-> session[s],
                    role |-> user[client[s].user].role, jti |-> ops + 2]
  <2>1. session[s] # NoRow /\ Live(s) /\ Issued(s)
    BY <1>2 DEF RefreshLoad, Live, NoRow, Issued
  <2>2. client[s].user \in Email /\ Member(client[s].user)
    BY <2>1 DEF AccountsKept, SessionPart, SessionsTyped, Issued, HeldTokens
  <2>3. q.role \in Role /\ q.jti \in Nat
    BY <2>2, MemberFacts, AccountFacts DEF UserRow, AccountsKept, LimitPart
  <2>4. s \notin raced => s \notin ended
    BY <2>1 DEF AccountsKept, SessionPart, SessionsHold, EndedStaysEnded
  <2>5. SessionRequest(q)
    BY <1>1, <2>1, <2>3, <2>4 DEF SessionRequest, Live
  <2>6. Fits4(q)
    BY <2>5 DEF InviteRequest, MemberRequest, LimitRequest, Follows, Admitted
  <2>. QED
    BY <1>2, <2>6, Started DEF RefreshLoad
<1>3. ASSUME NEW s \in Session, RevokeLoad(w, s) PROVE AccountsKept'
  <2>. DEFINE q == [pc |-> "revoke", has |-> {s}, id |-> s, row |-> session[s]]
  <2>1. SessionRequest(q)
    BY <1>1, <1>3 DEF SessionRequest, RevokeLoad
  <2>2. Fits4(q)
    BY <2>1 DEF InviteRequest, MemberRequest, LimitRequest, Follows, Admitted
  <2>. QED
    BY <1>3, <2>2, Started DEF RevokeLoad
<1>4. CASE ConfirmRead(w)
  <2>. DEFINE q == [pc |-> "confirm", has |-> {}, token |-> device.id]
  <2>1. device.id \in Nat
    BY DEF AccountsKept, LimitPart, DeviceRow
  <2>2. Fits4(q)
    BY <2>1 DEF InviteRequest, MemberRequest, SessionRequest, LimitRequest, Follows, Admitted
  <2>. QED
    BY <1>4, <2>2, Started DEF ConfirmRead
<1>. QED
  BY <1>2, <1>3, <1>4

-----------------------------------------------------------------------------
(* Invitations *)

\* What two requests hold is on record.
LEMMA Unshared ==
    ASSUME AccountsKept, NEW v \in Worker, NEW w \in Worker, v # w, NEW o,
           o \in req[v].has, o \in req[w].has, req[v].pc # "ttl", req[w].pc # "ttl"
    PROVE  o \in raced
BY DEF AccountsKept, HeldAlone

\* The request that ends holds nothing and is bound to nothing.
LEMMA Ended ==
    ASSUME AccountsKept, NEW w \in Worker, Done(w), raced \subseteq raced'
    PROVE  /\ HeldAlone' /\ req' = [v \in Worker |-> req'[v]]
           /\ req'[w] = IdleReq /\ \A v \in Worker \ {w} : req'[v] = req[v]
           /\ \A v \in Worker : \/ req'[v] = req[v]
                                \/ /\ req'[v].pc \notin OnInvite \cup {"invite"}
                                   /\ InviteRequest(req'[v]) /\ MemberRequest(req'[v])
                                   /\ SessionRequest(req'[v])
                                   /\ LimitRequest(req'[v]) /\ Follows(req[v], req'[v])
<1>1. HeldAlone'
  BY HeldAloneKept, IdleFits DEF Done
<1>2. req' = [v \in Worker |-> req'[v]] /\ req'[w] = IdleReq
      /\ \A v \in Worker \ {w} : req'[v] = req[v]
  BY OneMoves DEF Done, AccountsKept
<1>. QED
  BY <1>1, <1>2, IdleFits DEF OnInvite

\* The same of a row once the step is taken.
MemberNow(e) == user'[e].status = "member"
MadeNow(row) == row.status = "accepted" => row.by = row.email /\ MemberNow(row.email)

\* One row of an invitation is written: by a request that held it alone, on a row nobody
\* knew, or without a change of its status.
Overwrites(i, row) ==
    /\ SaveInvite(i, row) /\ raced \subseteq raced' /\ MembersStay /\ MadeNow(row)
    /\ Fits(i, row.email, row.status)
    /\ \A m \in mail' : m.id \in Invite /\ (inv[m.id] # NoRow \/ m.id = i)
    /\ told'.inv \in [Invite -> {"none", "pending", "accepted", "expired", "cancelled"}]
    /\ \A j \in Invite \ {i} : told'.inv[j] = told.inv[j]
    /\ i \notin raced' => told'.inv[i] = row.status
    /\ \A v \in Worker :
          \/ req'[v].pc \notin OnInvite \cup {"invite"}
          \/ /\ req'[v] = req[v]
             /\ req[v].pc \in OnInvite /\ req[v].id = i /\ i \notin raced' =>
                   req[v].row.status = row.status

LEMMA InvitationSaved ==
    ASSUME AccountsKept, NEW i \in Invite, NEW row \in InvitationRow, Overwrites(i, row)
    PROVE  InvitationPart'
<1>. USE DEF Overwrites
<1>1. row # NoRow /\ inv'[i] = row /\ \A j \in Invite \ {i} : inv'[j] = inv[j]
  BY DEF InvitationRow, NoRow, SaveInvite, AccountsKept, InvitationPart, InvitationsTyped
<1>2. \A r \in InvitationRow : Made(r) => Made(r)'
  BY AccountFacts DEF Made, MembersStay, InvitationRow
<1>3. InvitationsTyped'
  <2>1. inv' \in [Invite -> InvitationRow \cup {NoRow}]
    BY DEF SaveInvite, AccountsKept, InvitationPart, InvitationsTyped
  <2>2. \A m \in mail' : m.id \in Invite /\ inv'[m.id] # NoRow
    BY <1>1
  <2>3. \A j, k \in Invite : j # k /\ inv'[j] # NoRow /\ inv'[k] # NoRow =>
           <<inv'[j].email, inv'[j].status>> # <<inv'[k].email, inv'[k].status>>
    <3>. SUFFICES ASSUME NEW j \in Invite, NEW k \in Invite, j # k, inv'[j] # NoRow,
                         inv'[k] # NoRow
                  PROVE  <<inv'[j].email, inv'[j].status>> # <<inv'[k].email, inv'[k].status>>
      OBVIOUS
    <3>1. CASE j # i /\ k # i
      BY <1>1, <3>1 DEF AccountsKept, InvitationPart, InvitationsTyped
    <3>2. CASE j = i \/ k = i
      BY <1>1, <3>2 DEF Fits
    <3>. QED
      BY <3>1, <3>2
  <2>4. \A j \in Invite : inv'[j] # NoRow => Made(inv[j])'
    <3>. SUFFICES ASSUME NEW j \in Invite, inv'[j] # NoRow PROVE Made(inv[j])'
      OBVIOUS
    <3>1. CASE j = i
      BY <1>1, <3>1 DEF Made, MadeNow, Member, MemberNow
    <3>2. CASE j # i
      <4>1. inv'[j] = inv[j] /\ inv[j] \in InvitationRow /\ Made(inv[j])
        BY <1>1, <3>2 DEF AccountsKept, InvitationPart, InvitationsTyped
      <4>. QED
        BY <1>2, <4>1
    <3>. QED
      BY <3>1, <3>2
  <2>. QED
    BY <2>1, <2>2, <2>3, <2>4 DEF InvitationsTyped
<1>4. InvitationAnswerHolds'
  BY <1>1 DEF InvitationAnswerHolds, AccountsKept, InvitationPart
<1>5. ASSUME NEW v \in Worker PROVE InviteRequest(req[v])'
  <2>1. CASE req'[v].pc \notin OnInvite \cup {"invite"}
    BY <2>1 DEF InviteRequest
  <2>2. CASE req'[v] = req[v] /\ req[v].pc = "invite"
    BY <2>2 DEF InviteRequest, OnInvite, AccountsKept, InvitationPart
  <2>3. CASE req'[v] = req[v] /\ req[v].pc \in OnInvite
    <3>1. InviteRequest(req[v]) /\ req[v].pc \in OnInvite
      BY <2>3 DEF AccountsKept, InvitationPart
    <3>2. /\ req[v].id \in Invite /\ inv[req[v].id] # NoRow
          /\ req[v].row \in InvitationRow /\ Made(req[v].row) /\ req[v].has = {req[v].id}
          /\ req[v].pc # "mail" => req[v].row.status = "pending"
          /\ req[v].id \notin raced => req[v].row.status = inv[req[v].id].status
      BY <3>1 DEF InviteRequest
    <3>3. Made(req[v].row)'
      BY <1>2, <2>3, <3>2
    <3>4. inv'[req[v].id] # NoRow
      BY <1>1, <3>2
    <3>5. req[v].id \notin raced' => req[v].row.status = inv'[req[v].id].status
      <4>1. CASE req[v].id = i
        BY <1>1, <2>3, <4>1, <3>1
      <4>2. CASE req[v].id # i
        BY <1>1, <3>2, <4>2
      <4>. QED
        BY <4>1, <4>2
    <3>. QED
      BY <2>3, <3>2, <3>3, <3>4, <3>5 DEF InviteRequest, OnInvite
  <2>. QED
    BY <2>1, <2>2, <2>3
<1>. QED
  BY <1>3, <1>4, <1>5 DEF InvitationPart

\* A request that ends after writing invitations and nothing else.
LEMMA OnlyInvitations ==
    ASSUME AccountsKept, NEW w \in Worker, Done(w), req[w].pc \in OnInvite \cup {"invite"},
           UNCHANGED <<user, team, plan, login, proof, rate, ops, deaths, raced, ended>>,
           told'.user = told.user, told'.device = told.device,
           told' = [user |-> told'.user, inv |-> told'.inv, device |-> told'.device],
           InvitationPart'
    PROVE  AccountsKept'
<1>1. /\ HeldAlone' /\ req' = [v \in Worker |-> req'[v]]
      /\ req'[w] = IdleReq /\ \A v \in Worker \ {w} : req'[v] = req[v]
      /\ \A v \in Worker : req'[v] = req[v] \/
            (MemberRequest(req'[v]) /\ SessionRequest(req'[v]) /\ LimitRequest(req'[v])
             /\ Follows(req[v], req'[v]))
  BY Ended
<1>2. MembersStay
  BY DEF MembersStay, Member
<1>3. MemberPart'
  BY <1>1, MembersStand DEF AccountsKept, MemberPart, MembersTyped
<1>4. \A v \in Worker : req[v].pc \in {"block", "ttl"} => req'[v] = req[v]
  BY <1>1 DEF OnInvite
<1>5. SessionPart'
  BY <1>1, <1>2, <1>4, SessionsStand DEF login
<1>6. LimitPart'
  <2>1. ops' \in 0..MaxOps /\ deaths' \in 0..MaxCrashes
    BY DEF AccountsKept, LimitPart
  <2>. QED
    BY <1>1, <1>4, <2>1, LimitsStand
<1>. QED
  BY <1>1, <1>3, <1>5, <1>6 DEF AccountsKept, Records

\* The answer about one invitation changes and no other.
LEMMA Told ==
    ASSUME Records, NEW i \in Invite,
           NEW x \in {"none", "pending", "accepted", "expired", "cancelled"},
           Tell(i, x),
           told.inv \in [Invite -> {"none", "pending", "accepted", "expired", "cancelled"}]
    PROVE  /\ told'.user = told.user /\ told'.device = told.device
           /\ told'.inv \in [Invite -> {"none", "pending", "accepted", "expired", "cancelled"}]
           /\ told'.inv[i] = x /\ \A j \in Invite \ {i} : told'.inv[j] = told.inv[j]
           /\ told' = [user |-> told'.user, inv |-> told'.inv, device |-> told'.device]
<1>1. /\ told'.user = told.user /\ told'.device = told.device
      /\ told'.inv = [told.inv EXCEPT ![i] = x]
      /\ told' = [user |-> told'.user, inv |-> told'.inv, device |-> told'.device]
  BY DEF Records, Tell
<1>. QED
  BY <1>1

\* The request on an invitation, as it is when it is about to write.
LEMMA AboutToWrite ==
    ASSUME AccountsKept, NEW w \in Worker, req[w].pc \in OnInvite
    PROVE  /\ req[w].id \in Invite /\ inv[req[w].id] # NoRow /\ req[w].has = {req[w].id}
           /\ req[w].row \in InvitationRow /\ Made(req[w].row)
           /\ req[w].pc # "mail" => req[w].row.status = "pending"
           /\ req[w].id \notin raced =>
                 /\ req[w].row.status = inv[req[w].id].status
                 /\ req[w].row.status = told.inv[req[w].id]
           /\ \A v \in Worker \ {w} :
                 req[v].pc \in OnInvite /\ req[v].id = req[w].id => req[w].id \in raced
<1>1. InviteRequest(req[w]) /\ \A v \in Worker : InviteRequest(req[v])
  BY DEF AccountsKept, InvitationPart
<1>2. ASSUME NEW v \in Worker \ {w}, req[v].pc \in OnInvite, req[v].id = req[w].id
      PROVE  req[w].id \in raced
  <2>1. req[v].has = {req[w].id} /\ req[w].has = {req[w].id}
    BY <1>1, <1>2 DEF InviteRequest
  <2>. QED
    BY <1>2, <2>1, Unshared DEF OnInvite
<1>. QED
  BY <1>1, <1>2 DEF InviteRequest, AccountsKept, InvitationPart, InvitationAnswerHolds

\* The save of the row a request loaded, with another status or the same.
LEMMA LoadedSaved ==
    ASSUME AccountsKept, NEW w \in Worker, req[w].pc \in OnInvite, Done(w),
           NEW row \in InvitationRow, SaveInvite(req[w].id, row), MadeNow(row),
           Fits(req[w].id, row.email, row.status),
           UNCHANGED <<user, team, plan, login, proof, rate, ops, deaths, raced, ended>>,
           \A m \in mail' : m \in mail \/ m.id = req[w].id,
           \/ told' = told /\ row.status = req[w].row.status
           \/ Tell(req[w].id, row.status)
    PROVE  AccountsKept'
<1>. DEFINE i == req[w].id
<1>1. /\ i \in Invite
      /\ i \notin raced => req[w].row.status = told.inv[i]
      /\ \A v \in Worker \ {w} : req[v].pc \in OnInvite /\ req[v].id = i => i \in raced
  BY AboutToWrite
<1>2. /\ told'.user = told.user /\ told'.device = told.device
      /\ told' = [user |-> told'.user, inv |-> told'.inv, device |-> told'.device]
      /\ told'.inv \in [Invite -> {"none", "pending", "accepted", "expired", "cancelled"}]
      /\ \A j \in Invite \ {i} : told'.inv[j] = told.inv[j]
      /\ i \notin raced' => told'.inv[i] = row.status
  <2>1. told.inv \in [Invite -> {"none", "pending", "accepted", "expired", "cancelled"}]
        /\ Records
    BY DEF AccountsKept, InvitationPart, InvitationsTyped
  <2>2. CASE told' = told /\ row.status = req[w].row.status
    BY <1>1, <2>1, <2>2 DEF Records
  <2>3. CASE Tell(i, row.status)
    <3>1. row.status \in {"none", "pending", "accepted", "expired", "cancelled"}
      BY DEF InvitationRow
    <3>. QED
      BY <1>1, <2>1, <2>3, <3>1, Told
  <2>. QED
    BY <2>2, <2>3
<1>3. /\ req'[w].pc \notin OnInvite \cup {"invite"}
      /\ \A v \in Worker \ {w} : req'[v] = req[v]
  BY Ended, IdleFits DEF OnInvite
<1>4. MembersStay
  BY DEF MembersStay, Member
<1>5. \A m \in mail' : m.id \in Invite /\ (inv[m.id] # NoRow \/ m.id = i)
  BY <1>1 DEF AccountsKept, InvitationPart, InvitationsTyped
<1>6. \A v \in Worker :
         \/ req'[v].pc \notin OnInvite \cup {"invite"}
         \/ /\ req'[v] = req[v]
            /\ req[v].pc \in OnInvite /\ req[v].id = i /\ i \notin raced' =>
                  req[v].row.status = row.status
  BY <1>1, <1>3
<1>7. InvitationPart'
  <2>1. Overwrites(i, row)
    BY <1>2, <1>4, <1>5, <1>6 DEF Overwrites
  <2>. QED
    BY <1>1, <2>1, InvitationSaved
<1>. QED
  BY <1>2, <1>7, OnlyInvitations

\* An invitation is sent: the pending one, or a new row, which nobody can have loaded.
LEMMA CreateKept == ASSUME AccountsKept, NEW w \in Worker, CreateInvite(w) PROVE AccountsKept'
<1>. DEFINE e == req[w].email
            pending == {i \in Invite : inv[i] # NoRow /\ inv[i].email = e
                                       /\ inv[i].status = "pending"}
            free == {i \in Invite : inv[i] = NoRow}
<1>0. /\ req[w].pc = "invite" /\ Done(w)
      /\ UNCHANGED <<user, team, plan, login, proof, rate, ops, deaths, raced, ended>>
      /\ e \in Invitee /\ req[w].role \in Invitable
  BY DEF CreateInvite, AccountsKept, InvitationPart, InviteRequest
<1>1. /\ req'[w].pc \notin OnInvite \cup {"invite"}
      /\ \A v \in Worker \ {w} : req'[v] = req[v]
      /\ \A v \in Worker : req'[v] = req[v] \/ InviteRequest(req'[v])
  BY <1>0, Ended, IdleFits DEF OnInvite
<1>2. MembersStay
  BY <1>0 DEF MembersStay, Member
<1>3. CASE pending # {}
  <2>1. /\ UNCHANGED <<inv, told>>
        /\ \E i \in pending : mail' = mail \cup {[id |-> i, kind |-> "invitation"]} \/ mail' = mail
    BY <1>3 DEF CreateInvite, Queue
  <2>2. InvitationPart'
    <3>1. \A m \in mail' : m.id \in Invite /\ inv'[m.id] # NoRow
      BY <2>1 DEF AccountsKept, InvitationPart, InvitationsTyped
    <3>2. InvitationsTyped'
      BY <1>0, <2>1, <3>1 DEF AccountsKept, InvitationPart, InvitationsTyped, Made, Member
    <3>3. InvitationAnswerHolds'
      BY <1>0, <2>1 DEF AccountsKept, InvitationPart, InvitationAnswerHolds
    <3>4. \A v \in Worker : InviteRequest(req[v])'
      BY <1>0, <1>1, <2>1 DEF AccountsKept, InvitationPart, InviteRequest, Made, Member
    <3>. QED
      BY <3>2, <3>3, <3>4 DEF InvitationPart
  <2>. QED
    BY <1>0, <2>1, <2>2, OnlyInvitations DEF AccountsKept, Records
<1>4. CASE pending = {}
  <2>. DEFINE i == CHOOSE i \in free : TRUE
              row == [email |-> e, role |-> req[w].role, by |-> "nobody", status |-> "pending",
                      fresh |-> TRUE]
  <2>1. /\ free # {} /\ SaveInvite(i, row) /\ Tell(i, "pending")
        /\ mail' = mail \cup {[id |-> i, kind |-> "invitation"]} \/ mail' = mail
    BY <1>4 DEF CreateInvite, Queue
  <2>2. i \in Invite /\ inv[i] = NoRow
    BY <2>1
  <2>3. row \in InvitationRow /\ row.status = "pending" /\ row.email = e
    BY <1>0 DEF InvitationRow, Role, Invitable
  <2>4. /\ told'.user = told.user /\ told'.device = told.device
        /\ told'.inv \in [Invite -> {"none", "pending", "accepted", "expired", "cancelled"}]
        /\ told'.inv[i] = "pending" /\ \A j \in Invite \ {i} : told'.inv[j] = told.inv[j]
        /\ told' = [user |-> told'.user, inv |-> told'.inv, device |-> told'.device]
    BY <2>1, <2>2, Told DEF AccountsKept, InvitationPart, InvitationsTyped
  <2>5. \A v \in Worker : req[v].pc \in OnInvite => req[v].id # i
    BY <2>2 DEF AccountsKept, InvitationPart, InviteRequest
  <2>6. Fits(i, e, "pending")
    BY <1>4 DEF Fits
  <2>7. \A m \in mail' : m.id \in Invite /\ (inv[m.id] # NoRow \/ m.id = i)
    BY <2>1, <2>2 DEF AccountsKept, InvitationPart, InvitationsTyped
  <2>8. \A v \in Worker :
           \/ req'[v].pc \notin OnInvite \cup {"invite"}
           \/ /\ req'[v] = req[v]
              /\ req[v].pc \in OnInvite /\ req[v].id = i /\ i \notin raced' =>
                    req[v].row.status = row.status
    BY <1>1, <2>5
  <2>9. MadeNow(row)
    BY <2>3 DEF MadeNow
  <2>10. InvitationPart'
    <3>. HIDE DEF row, i
    <3>1. Overwrites(i, row)
      BY <1>0, <1>2, <2>1, <2>3, <2>4, <2>6, <2>7, <2>8, <2>9 DEF Overwrites
    <3>. QED
      BY <2>2, <2>3, <3>1, InvitationSaved
  <2>. QED
    BY <1>0, <2>4, <2>10, OnlyInvitations
<1>. QED
  BY <1>3, <1>4

\* A mail task loads an invitation.
LEMMA BeginMailKept ==
    ASSUME AccountsKept, NEW w \in Worker, NEW m \in mail, BeginMail(w, m) PROVE AccountsKept'
<1>. DEFINE s == [pc |-> "mail", has |-> {m.id}, id |-> m.id, row |-> inv[m.id]]
<1>1. /\ Go(w, s) /\ req[w].pc = "idle" /\ raced' = raced \cup Contended(s.has, w)
      /\ mail' \subseteq mail
      /\ UNCHANGED <<user, team, plan, inv, login, proof, rate, ops, deaths, told, ended>>
  BY DEF BeginMail, Begin, Idle
<1>2. req'[w] = s /\ \A v \in Worker \ {w} : req'[v] = req[v]
  BY <1>1, OneMoves DEF AccountsKept
<1>3. InviteRequest(s)
  <2>1. m.id \in Invite /\ inv[m.id] # NoRow /\ inv[m.id] \in InvitationRow /\ Made(inv[m.id])
    BY DEF AccountsKept, InvitationPart, InvitationsTyped
  <2>. QED
    BY <2>1 DEF InviteRequest, OnInvite
<1>4. MemberRequest(s) /\ SessionRequest(s) /\ LimitRequest(s)
  BY DEF MemberRequest, SessionRequest, LimitRequest, OnMember, OnSession, Follows, Admitted
<1>5. MembersStay
  BY <1>1 DEF MembersStay, Member
<1>6. \A v \in Worker : req[v].pc \in {"block", "ttl"} => req'[v] = req[v]
  BY <1>1, <1>2
<1>7. InvitationPart' /\ HeldAlone'
  BY <1>1, <1>2, <1>3, <1>5, InvitationsStand, HeldAloneKept
<1>8. MemberPart' /\ SessionPart'
  <2>1. plan' \in {"free", "pro"}
    BY <1>1 DEF AccountsKept, MemberPart, MembersTyped
  <2>. QED
    BY <1>1, <1>2, <1>4, <1>5, <1>6, <2>1, MembersStand, SessionsStand DEF login
<1>9. LimitPart'
  <2>1. ops' \in 0..MaxOps /\ deaths' \in 0..MaxCrashes
    BY <1>1 DEF AccountsKept, LimitPart
  <2>2. Follows(req[w], s)
    BY DEF Follows, Admitted
  <2>. QED
    BY <1>1, <1>2, <1>4, <1>6, <2>1, <2>2, LimitsStand
<1>. QED
  BY <1>1, <1>7, <1>8, <1>9, PartsKept

\* A mail that is sent, or not; a cancellation; a reminder: the loaded row is saved over
\* whatever is stored.
LEMMA WritesKept ==
    ASSUME AccountsKept, NEW w \in Worker, EndMail(w) \/ CancelInvite(w) \/ ResendInvite(w)
    PROVE  AccountsKept'
<1>. DEFINE row == req[w].row
<1>1. /\ req[w].pc \in OnInvite /\ Done(w)
      /\ UNCHANGED <<user, team, plan, login, proof, rate, ops, deaths, raced, ended>>
      /\ \A m \in mail' : m \in mail \/ m.id = req[w].id
  BY DEF EndMail, CancelInvite, ResendInvite, OnInvite, Queue
<1>2. row \in InvitationRow /\ Made(row) /\ (req[w].pc # "mail" => row.status = "pending")
      /\ req[w].id \in Invite /\ inv[req[w].id] # NoRow
  BY <1>1, AboutToWrite
<1>3. \A r \in InvitationRow : Made(r) => MadeNow(r)
  BY <1>1 DEF Made, Member, MadeNow, MemberNow
<1>4. CASE UNCHANGED <<inv, told>>
  <2>1. \A v \in Worker : req'[v] = req[v] \/ InviteRequest(req'[v])
    BY <1>1, Ended
  <2>2. \A m \in mail' : m.id \in Invite /\ inv'[m.id] # NoRow
    BY <1>1, <1>2, <1>4 DEF AccountsKept, InvitationPart, InvitationsTyped
  <2>3. InvitationPart'
    <3>1. InvitationsTyped'
      BY <1>1, <1>4, <2>2 DEF AccountsKept, InvitationPart, InvitationsTyped, Made, Member
    <3>2. InvitationAnswerHolds'
      BY <1>1, <1>4 DEF AccountsKept, InvitationPart, InvitationAnswerHolds
    <3>3. \A v \in Worker : InviteRequest(req[v])'
      BY <1>1, <1>4, <2>1 DEF AccountsKept, InvitationPart, InviteRequest, Made, Member
    <3>. QED
      BY <3>1, <3>2, <3>3 DEF InvitationPart
  <2>. QED
    BY <1>1, <1>4, <2>3, OnlyInvitations DEF AccountsKept, Records
<1>5. ASSUME NEW r \in InvitationRow, SaveInvite(req[w].id, r), Made(r),
             Fits(req[w].id, r.email, r.status),
             (told' = told /\ r.status = row.status) \/ Tell(req[w].id, r.status)
      PROVE  AccountsKept'
  BY <1>1, <1>3, <1>5, LoadedSaved
<1>6. CASE EndMail(w)
  BY <1>2, <1>4, <1>5, <1>6 DEF EndMail
<1>7. CASE CancelInvite(w)
  <2>. DEFINE r == [row EXCEPT !.status = "cancelled"]
  <2>1. r \in InvitationRow /\ Made(r) /\ r.email = row.email /\ r.status = "cancelled"
    BY <1>2 DEF InvitationRow, Made
  <2>2. CASE Fits(req[w].id, row.email, "cancelled")
    BY <1>5, <1>7, <2>1, <2>2 DEF CancelInvite
  <2>3. CASE ~Fits(req[w].id, row.email, "cancelled")
    BY <1>4, <1>7, <2>3 DEF CancelInvite
  <2>. QED
    BY <2>2, <2>3
<1>8. CASE ResendInvite(w)
  <2>. DEFINE r == [row EXCEPT !.fresh = TRUE]
  <2>0. req[w].pc = "resend" /\ told' = told
    BY <1>8 DEF ResendInvite
  <2>1. r \in InvitationRow /\ Made(r) /\ r.email = row.email /\ r.status = "pending"
        /\ row.status = "pending"
    BY <1>2, <2>0 DEF InvitationRow, Made
  <2>2. CASE ~row.fresh /\ Fits(req[w].id, row.email, "pending")
    BY <1>5, <1>8, <2>0, <2>1, <2>2 DEF ResendInvite
  <2>3. CASE row.fresh \/ ~Fits(req[w].id, row.email, "pending")
    BY <1>4, <1>8, <2>0, <2>3 DEF ResendInvite
  <2>. QED
    BY <2>2, <2>3
<1>. QED
  BY <1>6, <1>7, <1>8

-----------------------------------------------------------------------------
(* What a step that does not touch a part leaves of it *)

\* A step of one request, which then is s, and may be admitted to something; one that is
\* not; and a step of none.
Moves(w, s) ==
    /\ Go(w, s) /\ raced \subseteq raced' /\ MembersStay
    /\ \/ s.has = {} \/ s.pc = "ttl" \/ Contended(s.has, w) \subseteq raced'
       \/ req[w].pc # "ttl" /\ s.has \subseteq req[w].has
    /\ InviteRequest(s) /\ MemberRequest(s) /\ SessionRequest(s) /\ LimitRequest(s)

Takes(w, s) == Moves(w, s) /\ Follows(req[w], s)

TakesNone == UNCHANGED req /\ raced \subseteq raced' /\ MembersStay

\* The parts that stand if nothing of theirs is written.
Undisturbed(still) ==
    /\ UNCHANGED <<inv, mail>> /\ told'.inv = told.inv => InvitationPart'
    /\ UNCHANGED <<user, team>> /\ plan' \in {"free", "pro"} /\ told'.user = told.user =>
          MemberPart'
    /\ UNCHANGED <<session, client, blocked, ended>> /\ still => SessionPart'
    /\ /\ UNCHANGED <<proof, rate>> /\ told'.device = told.device
       /\ ops' \in 0..MaxOps /\ deaths' \in 0..MaxCrashes /\ still
       => LimitPart'

LEMMA OneGoesOn ==
    ASSUME AccountsKept, NEW w \in Worker, NEW s, Moves(w, s)
    PROVE  /\ HeldAlone' /\ req' = [v \in Worker |-> req'[v]]
           /\ req'[w] = s /\ \A v \in Worker \ {w} : req'[v] = req[v]
           /\ UNCHANGED <<inv, mail>> /\ told'.inv = told.inv => InvitationPart'
           /\ UNCHANGED <<user, team>> /\ plan' \in {"free", "pro"} /\ told'.user = told.user =>
                 MemberPart'
           /\ UNCHANGED <<session, client, blocked, ended>> /\ req[w].pc # "block" =>
                 SessionPart'
<1>1. /\ req' = [v \in Worker |-> req'[v]]
      /\ req'[w] = s /\ \A v \in Worker \ {w} : req'[v] = req[v]
  BY OneMoves DEF Moves, AccountsKept
<1>2. /\ \A v \in Worker : req'[v] = req[v] \/ InviteRequest(req'[v])
      /\ \A v \in Worker : req'[v] = req[v] \/ MemberRequest(req'[v])
      /\ \A v \in Worker : req'[v] = req[v] \/ SessionRequest(req'[v])
  BY <1>1 DEF Moves
<1>3. ASSUME req[w].pc # "block"
      PROVE  \A v \in Worker : req[v].pc = "block" => req'[v] = req[v]
  BY <1>1, <1>3
<1>4. HeldAlone'
  BY HeldAloneKept DEF Moves
<1>5. ASSUME UNCHANGED <<inv, mail>>, told'.inv = told.inv PROVE InvitationPart'
  BY <1>2, <1>5, InvitationsStand DEF Moves
<1>6. ASSUME UNCHANGED <<user, team>>, plan' \in {"free", "pro"}, told'.user = told.user
      PROVE  MemberPart'
  BY <1>2, <1>6, MembersStand DEF Moves
<1>7. ASSUME UNCHANGED <<session, client, blocked, ended>>, req[w].pc # "block"
      PROVE  SessionPart'
  BY <1>2, <1>3, <1>7, SessionsStand DEF Moves
<1>. QED
  BY <1>1, <1>4, <1>5, <1>6, <1>7

LEMMA OneTakes ==
    ASSUME AccountsKept, NEW w \in Worker, NEW s, Takes(w, s)
    PROVE  /\ HeldAlone' /\ req' = [v \in Worker |-> req'[v]]
           /\ req'[w] = s /\ \A v \in Worker \ {w} : req'[v] = req[v]
           /\ Undisturbed(req[w].pc \notin {"block", "ttl"})
<1>1. Moves(w, s) /\ LimitRequest(s) /\ Follows(req[w], s) /\ raced \subseteq raced'
  BY DEF Takes, Moves
<1>2. req'[w] = s /\ \A v \in Worker \ {w} : req'[v] = req[v]
  BY <1>1, OneGoesOn
<1>3. ASSUME UNCHANGED <<proof, rate>>, told'.device = told.device,
             ops' \in 0..MaxOps, deaths' \in 0..MaxCrashes, req[w].pc \notin {"block", "ttl"}
      PROVE  LimitPart'
  <2>1. \A v \in Worker :
           req'[v] = req[v] \/ (LimitRequest(req'[v]) /\ Follows(req[v], req'[v]))
    BY <1>1, <1>2
  <2>2. \A v \in Worker : req[v].pc = "ttl" => req'[v] = req[v]
    BY <1>2, <1>3
  <2>. QED
    BY <1>1, <1>3, <2>1, <2>2, LimitsStand
<1>. QED
  BY <1>1, <1>3, OneGoesOn DEF Undisturbed

LEMMA NoneTakes ==
    ASSUME AccountsKept, TakesNone
    PROVE  HeldAlone' /\ req' = [v \in Worker |-> req'[v]] /\ Undisturbed(TRUE)
<1>1. HeldAlone' /\ req' = [v \in Worker |-> req'[v]]
  BY DEF TakesNone, AccountsKept, HeldAlone, Records
<1>2. \A v \in Worker : req'[v] = req[v]
  BY DEF TakesNone
<1>5. ASSUME UNCHANGED <<inv, mail>>, told'.inv = told.inv PROVE InvitationPart'
  BY <1>2, <1>5, InvitationsStand DEF TakesNone
<1>6. ASSUME UNCHANGED <<user, team>>, plan' \in {"free", "pro"}, told'.user = told.user
      PROVE  MemberPart'
  BY <1>2, <1>6, MembersStand DEF TakesNone
<1>7. ASSUME UNCHANGED <<session, client, blocked, ended>> PROVE SessionPart'
  BY <1>2, <1>7, SessionsStand DEF TakesNone
<1>8. ASSUME UNCHANGED <<proof, rate>>, told'.device = told.device,
             ops' \in 0..MaxOps, deaths' \in 0..MaxCrashes
      PROVE  LimitPart'
  BY <1>2, <1>8, LimitsStand DEF TakesNone
<1>. QED
  BY <1>1, <1>5, <1>6, <1>7, <1>8 DEF Undisturbed

\* The request that ends.
LEMMA Ends ==
    ASSUME AccountsKept, NEW w \in Worker, Done(w), raced \subseteq raced', MembersStay
    PROVE  Takes(w, IdleReq)
BY IdleFits DEF Takes, Moves, Done

LEMMA Counters ==
    ASSUME AccountsKept
    PROVE  /\ ops' = ops => ops' \in 0..MaxOps
           /\ deaths' = deaths => deaths' \in 0..MaxCrashes
           /\ plan' = plan => plan' \in {"free", "pro"}
           /\ ops < MaxOps /\ ops' = ops + 1 => ops' \in 0..MaxOps
           /\ deaths < MaxCrashes /\ deaths' = deaths + 1 => deaths' \in 0..MaxCrashes
BY AccountFacts DEF AccountsKept, LimitPart, MemberPart, MembersTyped

\* A request dies.
LEMMA CrashKept == ASSUME AccountsKept, NEW w \in Worker, Crash(w) PROVE AccountsKept'
<1>1. /\ Done(w) /\ raced' = raced \cup req[w].has /\ deaths' \in 0..MaxCrashes
      /\ ops' \in 0..MaxOps /\ plan' \in {"free", "pro"}
      /\ UNCHANGED <<user, team, inv, mail, login, proof, rate, told, ended>> /\ MembersStay
  BY Counters DEF Crash, rows, MembersStay, Member
<1>2. Takes(w, IdleReq)
  BY <1>1, Ends
<1>3. /\ HeldAlone' /\ req' = [v \in Worker |-> req'[v]] /\ InvitationPart' /\ MemberPart'
      /\ req'[w] = IdleReq /\ \A v \in Worker \ {w} : req'[v] = req[v]
  BY <1>1, <1>2, OneTakes DEF Undisturbed
<1>4. \A v \in Worker : req'[v] = req[v] \/ req[v].has \subseteq raced'
  BY <1>1, <1>3
<1>5. \A v \in Worker : req'[v] = req[v] \/ SessionRequest(req'[v])
  BY <1>3, IdleFits
<1>6. SessionPart'
  BY <1>1, <1>4, <1>5, SessionsStand DEF login
<1>7. LimitPart'
  <2>1. \A v \in Worker : req'[v] = req[v] \/ (LimitRequest(req'[v]) /\ Follows(req[v], req'[v]))
    BY <1>3, IdleFits
  <2>2. \A v \in Worker : req[v].pc = "ttl" => req'[v] = req[v] \/ "counter" \in raced'
    BY <1>4 DEF AccountsKept, LimitPart, LimitRequest
  <2>. QED
    BY <1>1, <2>1, <2>2, LimitsStand
<1>. QED
  BY <1>1, <1>3, <1>6, <1>7 DEF AccountsKept, Records

-----------------------------------------------------------------------------
(* Invitations that expire, and members that join *)

\* Rows change without a request, and where the status does, whoever holds the row is on
\* record.
LEMMA RowsPassOn ==
    ASSUME AccountsKept, TakesNone, UNCHANGED mail,
           inv' \in [Invite -> InvitationRow \cup {NoRow}],
           told'.inv \in [Invite -> {"none", "pending", "accepted", "expired", "cancelled"}],
           \A i, j \in Invite : i # j /\ inv'[i] # NoRow /\ inv'[j] # NoRow =>
              <<inv'[i].email, inv'[i].status>> # <<inv'[j].email, inv'[j].status>>,
           \A i \in Invite :
              /\ inv[i] # NoRow <=> inv'[i] # NoRow
              /\ inv'[i] # NoRow =>
                    /\ Made(inv[i])'
                    /\ \/ inv'[i].status = inv[i].status /\ told'.inv[i] = told.inv[i]
                       \/ /\ inv'[i].status = told'.inv[i]
                          /\ \A w \in Worker : i \in req[w].has => i \in raced'
    PROVE  InvitationPart'
<1>. USE DEF TakesNone
<1>1. \A r \in InvitationRow : Made(r) => Made(r)'
  BY AccountFacts DEF Made, MembersStay, InvitationRow
<1>2. InvitationsTyped'
  <2>1. \A m \in mail' : m.id \in Invite /\ inv'[m.id] # NoRow
    BY DEF AccountsKept, InvitationPart, InvitationsTyped
  <2>. QED
    BY <2>1 DEF InvitationsTyped
<1>3. InvitationAnswerHolds'
  BY DEF AccountsKept, InvitationPart, InvitationAnswerHolds
<1>4. ASSUME NEW w \in Worker PROVE InviteRequest(req[w])'
  <2>1. InviteRequest(req[w]) /\ req'[w] = req[w]
    BY DEF AccountsKept, InvitationPart
  <2>2. CASE req[w].pc \notin OnInvite
    BY <2>1, <2>2 DEF InviteRequest
  <2>3. CASE req[w].pc \in OnInvite
    <3>1. /\ req[w].id \in Invite /\ inv[req[w].id] # NoRow
          /\ req[w].row \in InvitationRow /\ Made(req[w].row) /\ req[w].has = {req[w].id}
          /\ req[w].pc # "mail" => req[w].row.status = "pending"
          /\ req[w].id \notin raced => req[w].row.status = inv[req[w].id].status
      BY <2>1, <2>3 DEF InviteRequest
    <3>2. Made(req[w].row)'
      BY <1>1, <2>1, <3>1
    <3>3. inv'[req[w].id] # NoRow
          /\ (req[w].id \notin raced' => req[w].row.status = inv'[req[w].id].status)
      BY <3>1
    <3>. QED
      BY <2>1, <2>3, <3>1, <3>2, <3>3 DEF InviteRequest, OnInvite
  <2>. QED
    BY <2>2, <2>3
<1>. QED
  BY <1>2, <1>3, <1>4 DEF InvitationPart

LEMMA InvitationFacts ==
    ASSUME AccountsKept
    PROVE  /\ inv \in [Invite -> InvitationRow \cup {NoRow}]
           /\ told.inv \in [Invite -> {"none", "pending", "accepted", "expired", "cancelled"}]
           /\ \A i \in Invite : inv[i] # NoRow => inv[i] \in InvitationRow /\ Made(inv[i])
           /\ \A i, j \in Invite : i # j /\ inv[i] # NoRow /\ inv[j] # NoRow =>
                 <<inv[i].email, inv[i].status>> # <<inv[j].email, inv[j].status>>
BY DEF AccountsKept, InvitationPart, InvitationsTyped

\* A changed row is a row, of the same e-mail.
LEMMA RowChanged ==
    ASSUME NEW row \in InvitationRow
    PROVE  /\ row # NoRow /\ row.status # "none"
           /\ LET r == [row EXCEPT !.status = "expired"]
              IN  r \in InvitationRow /\ r # NoRow /\ r.status = "expired" /\ r.email = row.email
           /\ LET r == [row EXCEPT !.fresh = FALSE]
              IN  /\ r \in InvitationRow /\ r # NoRow /\ r.status = row.status
                  /\ r.email = row.email /\ r.by = row.by
<1>. DEFINE r == [row EXCEPT !.status = "expired"]
            q == [row EXCEPT !.fresh = FALSE]
<1>1. \A x \in InvitationRow : x # NoRow /\ x.status # "none"
  BY DEF InvitationRow, NoRow
<1>2. r \in InvitationRow /\ r.status = "expired" /\ r.email = row.email
  BY DEF InvitationRow
<1>3. q \in InvitationRow /\ q.status = row.status /\ q.email = row.email /\ q.by = row.by
  BY DEF InvitationRow
<1>. QED
  BY <1>1, <1>2, <1>3

LEMMA LapseKept == ASSUME AccountsKept, NEW i \in Invite, Lapse(i) PROVE AccountsKept'
<1>1. /\ UNCHANGED <<user, team, plan, mail, login, proof, rate, req, ops, deaths, raced, told,
                     ended>>
      /\ inv[i] \in InvitationRow /\ inv[i].status = "pending"
      /\ inv' = [inv EXCEPT ![i] = [inv[i] EXCEPT !.fresh = FALSE]]
  BY InvitationFacts DEF Lapse
<1>2. TakesNone
  BY <1>1 DEF TakesNone, MembersStay, Member
<1>3. \A j \in Invite : /\ inv'[j] \in InvitationRow \cup {NoRow}
                        /\ inv'[j] # NoRow <=> inv[j] # NoRow
                        /\ inv'[j] # NoRow => /\ inv'[j].status = inv[j].status
                                              /\ inv'[j].email = inv[j].email
                                              /\ inv'[j].by = inv[j].by
  <2>1. /\ inv'[i] \in InvitationRow /\ inv'[i] # NoRow /\ inv[i] # NoRow
        /\ inv'[i].status = inv[i].status /\ inv'[i].email = inv[i].email
        /\ inv'[i].by = inv[i].by
    BY <1>1, InvitationFacts, RowChanged
  <2>2. \A j \in Invite \ {i} : inv'[j] = inv[j]
    BY <1>1, InvitationFacts
  <2>. QED
    BY <2>1, <2>2, InvitationFacts
<1>4. \A j \in Invite : inv'[j] # NoRow => Made(inv[j])'
  BY <1>1, <1>3, InvitationFacts DEF Made, Member
<1>5. inv' \in [Invite -> InvitationRow \cup {NoRow}]
  BY <1>1, <1>3, InvitationFacts
<1>6. \A j, k \in Invite : j # k /\ inv'[j] # NoRow /\ inv'[k] # NoRow =>
         <<inv'[j].email, inv'[j].status>> # <<inv'[k].email, inv'[k].status>>
  BY <1>3, InvitationFacts
<1>7. InvitationPart'
  BY <1>1, <1>2, <1>3, <1>4, <1>5, <1>6, InvitationFacts, RowsPassOn
<1>. QED
  BY <1>1, <1>2, <1>7, NoneTakes, Counters DEF Undisturbed, login, AccountsKept, Records

LEMMA CleanUpKept == ASSUME AccountsKept, CleanUp PROVE AccountsKept'
<1>. DEFINE lapsed == {i \in Invite : inv[i] # NoRow /\ inv[i].status = "pending"
                                      /\ ~inv[i].fresh}
<1>1. /\ UNCHANGED <<user, team, plan, mail, login, proof, rate, req, ops, deaths, ended>>
      /\ \A i \in lapsed : Fits(i, inv[i].email, "expired")
      /\ inv' = [i \in Invite |-> IF i \in lapsed THEN [inv[i] EXCEPT !.status = "expired"]
                                  ELSE inv[i]]
      /\ raced' = raced \cup {i \in lapsed : \E w \in Worker : i \in req[w].has}
      /\ told' = [told EXCEPT !.inv = [i \in Invite |-> IF i \in lapsed THEN "expired"
                                                        ELSE told.inv[i]]]
  BY DEF CleanUp
<1>2. TakesNone
  BY <1>1 DEF TakesNone, MembersStay, Member
<1>3. /\ told'.inv = [i \in Invite |-> IF i \in lapsed THEN "expired" ELSE told.inv[i]]
      /\ told'.user = told.user /\ told'.device = told.device
      /\ told' = [user |-> told'.user, inv |-> told'.inv, device |-> told'.device]
  BY <1>1 DEF AccountsKept, Records
<1>4. \A i \in lapsed : /\ inv'[i] \in InvitationRow /\ inv'[i].status = "expired"
                        /\ inv'[i].email = inv[i].email /\ inv[i] # NoRow /\ inv'[i] # NoRow
                        /\ inv[i].status = "pending"
  BY <1>1, InvitationFacts, RowChanged
<1>5. \A i \in Invite \ lapsed : inv'[i] = inv[i]
  BY <1>1
<1>6. \A i, j \in Invite : i # j /\ inv'[i] # NoRow /\ inv'[j] # NoRow =>
         <<inv'[i].email, inv'[i].status>> # <<inv'[j].email, inv'[j].status>>
  <2>1. ASSUME NEW i \in lapsed, NEW j \in lapsed, i # j
        PROVE  inv'[i].email # inv'[j].email
    BY <1>4, <2>1, InvitationFacts
  <2>2. ASSUME NEW i \in lapsed, NEW j \in Invite \ lapsed, inv'[j] # NoRow
        PROVE  inv'[i].email # inv'[j].email \/ inv'[i].status # inv'[j].status
    BY <1>1, <1>4, <1>5, <2>2 DEF Fits
  <2>3. ASSUME NEW i \in Invite \ lapsed, NEW j \in Invite \ lapsed, i # j, inv'[i] # NoRow,
               inv'[j] # NoRow
        PROVE  inv'[i].email # inv'[j].email \/ inv'[i].status # inv'[j].status
    BY <1>5, <2>3, InvitationFacts
  <2>. HIDE DEF lapsed
  <2>. QED
    BY <2>1, <2>2, <2>3
<1>7. inv' \in [Invite -> InvitationRow \cup {NoRow}]
      /\ told'.inv \in [Invite -> {"none", "pending", "accepted", "expired", "cancelled"}]
  <2>1. \A i \in Invite : inv'[i] \in InvitationRow \cup {NoRow}
    BY <1>4, <1>5, InvitationFacts
  <2>. HIDE DEF lapsed
  <2>. QED
    BY <1>1, <1>3, <2>1, InvitationFacts
<1>8. ASSUME NEW i \in Invite
      PROVE  /\ inv[i] # NoRow <=> inv'[i] # NoRow
             /\ inv'[i] # NoRow =>
                   /\ Made(inv[i])'
                   /\ \/ inv'[i].status = inv[i].status /\ told'.inv[i] = told.inv[i]
                      \/ /\ inv'[i].status = told'.inv[i]
                         /\ \A w \in Worker : i \in req[w].has => i \in raced'
  <2>1. CASE i \in lapsed
    <3>1. inv[i] # NoRow /\ inv'[i] # NoRow /\ inv'[i].status = "expired"
      BY <1>4, <2>1
    <3>2. told'.inv[i] = "expired"
      BY <1>3, <2>1
    <3>3. \A w \in Worker : i \in req[w].has => i \in raced'
      BY <1>1, <2>1
    <3>4. Made(inv[i])'
      BY <3>1 DEF Made
    <3>. QED
      BY <3>1, <3>2, <3>3, <3>4
  <2>2. CASE i \notin lapsed
    <3>. HIDE DEF lapsed
    <3>. QED
      BY <1>1, <1>3, <1>5, <2>2, InvitationFacts DEF Made, Member
  <2>. QED
    BY <2>1, <2>2
<1>9. InvitationPart'
  BY <1>1, <1>2, <1>6, <1>7, <1>8, RowsPassOn
<1>. QED
  BY <1>1, <1>2, <1>3, <1>9, NoneTakes, Counters DEF Undisturbed, login, AccountsKept, Records

-----------------------------------------------------------------------------
(* Members *)

\* A request that is going to save the row of e.
OnRow(q, e) ==
    \/ q.pc \in OnMember /\ q.email = e
    \/ q.pc = "verified" /\ e = Owner

\* The row of one member is written, or a member is made: by a request that held the row
\* alone, or others that hold it are on record.
Rewrites(e, row) ==
    /\ user' = [user EXCEPT ![e] = row]
    /\ raced \subseteq raced' /\ plan' \in {"free", "pro"} /\ Owns(e, row)
    /\ \/ Member(e) /\ UNCHANGED team
       \/ ~Member(e) /\ team' = Append(team, e)
    /\ told'.user \in [Email -> UserRow \cup {NoRow}]
    /\ \A o \in Email \ {e} : told'.user[o] = told.user[o]
    /\ told'.user[e] # NoRow
    /\ e \notin raced' => told'.user[e] = row
    /\ \A v \in Worker :
          \/ MemberRequest(req'[v]) /\ req'[v].pc \notin OnMember \cup {"verified"}
          \/ req'[v] = [pc |-> "finalise", has |-> {}, email |-> e, row |-> row]
          \/ req'[v] = req[v] /\ (OnRow(req[v], e) => e \in raced')

LEMMA MemberRow ==
    ASSUME NEW row \in UserRow
    PROVE  row # NoRow /\ row.status = "member"
BY DEF UserRow, NoRow

LEMMA TeamGrows ==
    ASSUME AccountsKept, NEW e \in Email, ~Member(e), team' = Append(team, e)
    PROVE  /\ team' \in Seq(Email) /\ Len(team') > 0 /\ team'[1] = Owner
           /\ \A m, n \in 1..Len(team') : team'[m] = team'[n] => m = n
           /\ \A o \in Email : o = e \/ Member(o) <=> \E n \in 1..Len(team') : team'[n] = o
<1>1. /\ team \in Seq(Email) /\ Len(team) \in Nat /\ Len(team) > 0 /\ team[1] = Owner
      /\ \A m, n \in 1..Len(team) : team[m] = team[n] => m = n
      /\ \A o \in Email : Member(o) <=> \E n \in 1..Len(team) : team[n] = o
  BY DEF AccountsKept, MemberPart, MembersTyped
<1>2. /\ team' \in Seq(Email) /\ Len(team') = Len(team) + 1 /\ team'[Len(team) + 1] = e
      /\ \A n \in 1..Len(team) : team'[n] = team[n]
  BY <1>1
<1>3. \A n \in 1..Len(team) : team[n] # e
  BY <1>1
<1>4. \A m, n \in 1..Len(team') : team'[m] = team'[n] => m = n
  <2>. SUFFICES ASSUME NEW m \in 1..Len(team'), NEW n \in 1..Len(team'), team'[m] = team'[n]
                PROVE  m = n
    OBVIOUS
  <2>1. CASE m = Len(team) + 1 \/ n = Len(team) + 1
    BY <1>1, <1>2, <1>3, <2>1
  <2>2. CASE m # Len(team) + 1 /\ n # Len(team) + 1
    BY <1>1, <1>2, <2>2
  <2>. QED
    BY <2>1, <2>2
<1>5. ASSUME NEW o \in Email
      PROVE  o = e \/ Member(o) <=> \E n \in 1..Len(team') : team'[n] = o
  <2>1. ASSUME o = e PROVE \E n \in 1..Len(team') : team'[n] = o
    BY <1>1, <1>2, <2>1
  <2>2. ASSUME Member(o) PROVE \E n \in 1..Len(team') : team'[n] = o
    <3>1. PICK n \in 1..Len(team) : team[n] = o
      BY <1>1, <2>2
    <3>. QED
      BY <1>1, <1>2, <3>1
  <2>3. ASSUME NEW n \in 1..Len(team'), team'[n] = o PROVE o = e \/ Member(o)
    <3>1. CASE n = Len(team) + 1
      BY <1>2, <2>3, <3>1
    <3>2. CASE n # Len(team) + 1
      BY <1>1, <1>2, <2>3, <3>2
    <3>. QED
      BY <3>1, <3>2
  <2>. QED
    BY <2>1, <2>2, <2>3
<1>. QED
  BY <1>1, <1>2, <1>4, <1>5

LEMMA MemberSaved ==
    ASSUME AccountsKept, NEW e \in Email, NEW row \in UserRow, Rewrites(e, row)
    PROVE  MemberPart' /\ MembersStay /\ MemberNow(e)
<1>1. /\ user' \in [Email -> UserRow \cup {NoRow}]
      /\ user'[e] = row /\ \A o \in Email \ {e} : user'[o] = user[o]
  BY DEF Rewrites, AccountsKept, MemberPart, MembersTyped
<1>2. Member(e)' /\ \A o \in Email : (Member(o))' <=> Member(o) \/ o = e
  BY <1>1, MemberRow DEF Member
<1>3. MembersTyped'
  <2>1. /\ team' \in Seq(Email) /\ Len(team') > 0 /\ team'[1] = Owner
        /\ \A m, n \in 1..Len(team') : team'[m] = team'[n] => m = n
        /\ \A o \in Email : o = e \/ Member(o) <=> \E n \in 1..Len(team') : team'[n] = o
    <3>1. CASE Member(e) /\ UNCHANGED team
      BY <3>1 DEF AccountsKept, MemberPart, MembersTyped
    <3>2. CASE ~Member(e) /\ team' = Append(team, e)
      BY <3>2, TeamGrows
    <3>. QED
      BY <3>1, <3>2 DEF Rewrites
  <2>2. \A o \in Email : Member(o)' => told'.user[o] # NoRow
    BY <1>2 DEF Rewrites, AccountsKept, MemberPart, MembersTyped
  <2>. QED
    BY <1>1, <1>2, <2>1, <2>2 DEF MembersTyped, Rewrites
<1>4. OwnerRemains'
  BY <1>1, AccountFacts DEF Rewrites, Owns, OwnerRemains, AccountsKept, MemberPart
<1>5. UserAnswerHolds'
  <2>. SUFFICES ASSUME NEW o \in Email \ raced' PROVE user'[o] = told'.user[o]
    BY DEF UserAnswerHolds
  <2>1. CASE o = e
    BY <1>1, <2>1 DEF Rewrites
  <2>2. CASE o # e
    BY <1>1, <2>2 DEF Rewrites, AccountsKept, MemberPart, UserAnswerHolds
  <2>. QED
    BY <2>1, <2>2
<1>6. ASSUME NEW v \in Worker PROVE MemberRequest(req[v])'
  <2>1. CASE MemberRequest(req'[v]) /\ req'[v].pc \notin OnMember \cup {"verified"}
    BY <1>2, <2>1 DEF MemberRequest, OnMember
  <2>0. CASE req'[v] = [pc |-> "finalise", has |-> {}, email |-> e, row |-> row]
    BY <1>2, <2>0 DEF MemberRequest, OnMember
  <2>2. CASE req'[v] = req[v] /\ (OnRow(req[v], e) => e \in raced')
    <3>1. MemberRequest(req[v])
      BY DEF AccountsKept, MemberPart
    <3>2. CASE req[v].pc \notin OnMember \cup {"verified"}
      BY <1>2, <2>2, <3>1, <3>2 DEF MemberRequest, OnMember
    <3>3. CASE req[v].pc \in OnMember
      <4>1. req[v].email = e \/ user'[req[v].email] = user[req[v].email]
        BY <1>1, <3>1, <3>3 DEF MemberRequest
      <4>2. req[v].email = e => e \in raced'
        BY <2>2, <3>3 DEF OnRow
      <4>3. raced \subseteq raced'
        BY DEF Rewrites
      <4>. QED
        BY <1>2, <2>2, <3>1, <3>3, <4>1, <4>2, <4>3 DEF MemberRequest, OnMember, Owns
    <3>4. CASE req[v].pc = "verified"
      <4>1. Owner = e \/ user'[Owner] = user[Owner]
        BY <1>1, AccountFacts
      <4>2. Owner = e => e \in raced'
        BY <2>2, <3>4 DEF OnRow
      <4>3. raced \subseteq raced'
        BY DEF Rewrites
      <4>. QED
        BY <2>2, <3>1, <3>4, <4>1, <4>2, <4>3 DEF MemberRequest, OnMember, Owns
    <3>. QED
      BY <3>2, <3>3, <3>4
  <2>. QED
    BY <2>0, <2>1, <2>2 DEF Rewrites
<1>. QED
  BY <1>2, <1>3, <1>4, <1>5, <1>6 DEF MemberPart, MembersStay, Member, MemberNow

\* Another request on a row that a request holds is on record.
LEMMA NobodyElse ==
    ASSUME AccountsKept, NEW w \in Worker, NEW e \in Email, e \in req[w].has,
           req[w].pc # "ttl", NEW v \in Worker \ {w}, OnRow(req[v], e)
    PROVE  e \in raced
<1>1. MemberRequest(req[v])
  BY DEF AccountsKept, MemberPart
<1>2. e \in req[v].has /\ req[v].pc # "ttl"
  BY <1>1 DEF OnRow, MemberRequest, OnMember
<1>. QED
  BY <1>2, Unshared

\* A request that ends and leaves every row as it is.
LEMMA NothingWritten ==
    ASSUME AccountsKept, NEW w \in Worker, Done(w), req[w].pc \notin {"block", "ttl"},
           UNCHANGED <<rows, login, proof, rate, ops, deaths, raced, told, ended>>
    PROVE  AccountsKept'
<1>1. MembersStay /\ UNCHANGED <<user, team, inv, mail, session, client, blocked, plan>>
  BY DEF MembersStay, Member, rows, login
<1>2. Takes(w, IdleReq)
  BY <1>1, Ends
<1>. QED
  BY <1>1, <1>2, OneTakes, Counters DEF Undisturbed, AccountsKept, Records

\* The rows an accepted invitation turns into.
LEMMA Joined ==
    ASSUME NEW row \in InvitationRow
    PROVE  LET a == [row EXCEPT !.status = "accepted", !.by = row.email]
           IN  /\ a \in InvitationRow /\ a.status = "accepted" /\ a.by = a.email
               /\ a.email = row.email /\ row.email \in Invitee /\ row.role \in Role
               /\ NewUser(row) \in UserRow /\ NewUser(a) = NewUser(row)
BY DEF InvitationRow, NewUser, NewMember, UserRow, Role

\* A member joins: the row of the user, the invitation and what is told of them are one step.
LEMMA AcceptKept ==
    ASSUME AccountsKept, NEW w \in Worker, req[w].pc = "join", Accepts(w), Accept(w),
           UNCHANGED <<plan, mail, raced>>, NEW s, Go(w, s),
           s.pc \notin OnInvite \cup {"invite"},
           \/ MemberRequest(s) /\ s.pc \notin OnMember \cup {"verified"}
           \/ s = [pc |-> "finalise", has |-> {}, email |-> req[w].row.email,
                   row |-> NewUser(req[w].row)]
    PROVE  /\ InvitationPart' /\ MemberPart' /\ MembersStay /\ MemberNow(req[w].row.email)
           /\ told'.device = told.device
           /\ told' = [user |-> told'.user, inv |-> told'.inv, device |-> told'.device]
           /\ req[w].row.email \in Email /\ req[w].row.role \in Role
<1>. DEFINE i == req[w].id
            e == req[w].row.email
            row == [req[w].row EXCEPT !.status = "accepted", !.by = e]
<1>1. /\ i \in Invite /\ inv[i] # NoRow /\ req[w].row \in InvitationRow
      /\ \A v \in Worker \ {w} : req[v].pc \in OnInvite /\ req[v].id = i => i \in raced
  BY AboutToWrite DEF OnInvite
<1>2. /\ row \in InvitationRow /\ row.status = "accepted" /\ row.by = e
      /\ row.email = e /\ e \in Invitee /\ req[w].row.role \in Role
      /\ NewUser(req[w].row) \in UserRow /\ NewUser(row) = NewUser(req[w].row)
  BY <1>1, Joined
<1>3. /\ user' = [user EXCEPT ![e] = NewUser(req[w].row)] /\ team' = Append(team, e)
      /\ SaveInvite(i, row) /\ ~Member(e) /\ Fits(i, e, "accepted")
  BY <1>2 DEF Accept, Accepts
<1>0. told' = [told EXCEPT !.inv[i] = "accepted", !.user[e] = NewUser(req[w].row)]
  BY <1>2 DEF Accept
<1>4. e \in Email /\ e # Owner
  BY <1>2, AccountFacts
<1>5. /\ told'.inv = [told.inv EXCEPT ![i] = "accepted"]
      /\ told'.user = [told.user EXCEPT ![e] = NewUser(req[w].row)]
      /\ told'.device = told.device
      /\ told' = [user |-> told'.user, inv |-> told'.inv, device |-> told'.device]
  BY <1>0 DEF AccountsKept, Records
<1>6. /\ told'.user \in [Email -> UserRow \cup {NoRow}] /\ told'.user[e] = NewUser(req[w].row)
      /\ \A o \in Email \ {e} : told'.user[o] = told.user[o]
  BY <1>2, <1>4, <1>5 DEF AccountsKept, MemberPart, MembersTyped
<1>7. /\ told'.inv \in [Invite -> {"none", "pending", "accepted", "expired", "cancelled"}]
      /\ told'.inv[i] = "accepted" /\ \A j \in Invite \ {i} : told'.inv[j] = told.inv[j]
  BY <1>1, <1>5, InvitationFacts
<1>8. req'[w] = s /\ \A v \in Worker \ {w} : req'[v] = req[v]
  BY OneMoves DEF AccountsKept
<1>9. MemberPart' /\ MembersStay /\ MemberNow(e)
  <2>1. \A v \in Worker : ~OnRow(req[v], e)
    BY <1>3, <1>4 DEF OnRow, AccountsKept, MemberPart, MemberRequest
  <2>2. /\ raced \subseteq raced' /\ plan' \in {"free", "pro"} /\ Owns(e, NewUser(req[w].row))
        /\ told'.user[e] # NoRow
    BY <1>2, <1>4, <1>6, Counters, MemberRow DEF Owns
  <2>3. \A v \in Worker :
          \/ MemberRequest(req'[v]) /\ req'[v].pc \notin OnMember \cup {"verified"}
          \/ req'[v] = [pc |-> "finalise", has |-> {}, email |-> e, row |-> NewUser(req[w].row)]
          \/ req'[v] = req[v] /\ (OnRow(req[v], e) => e \in raced')
    BY <1>8, <2>1
  <2>4. Rewrites(e, NewUser(req[w].row))
    BY <1>3, <1>6, <2>2, <2>3 DEF Rewrites
  <2>. QED
    BY <1>2, <1>4, <2>4, MemberSaved
<1>10. InvitationPart'
  <2>1. MadeNow(row)
    BY <1>2, <1>9 DEF MadeNow
  <2>2. \A m \in mail' : m.id \in Invite /\ (inv[m.id] # NoRow \/ m.id = i)
    BY DEF AccountsKept, InvitationPart, InvitationsTyped
  <2>3. \A v \in Worker :
           \/ req'[v].pc \notin OnInvite \cup {"invite"}
           \/ /\ req'[v] = req[v]
              /\ req[v].pc \in OnInvite /\ req[v].id = i /\ i \notin raced' =>
                    req[v].row.status = row.status
    BY <1>1, <1>8
  <2>. HIDE DEF row, i, e
  <2>4. Overwrites(i, row)
    BY <1>2, <1>3, <1>7, <1>9, <2>1, <2>2, <2>3 DEF Overwrites
  <2>. QED
    BY <1>1, <1>2, <2>4, InvitationSaved
<1>. QED
  BY <1>2, <1>4, <1>5, <1>9, <1>10

\* A session nobody has had is opened.
LEMMA SessionOpened ==
    ASSUME AccountsKept, NEW e \in Email, NEW role \in Role, OpenSession(e, role),
           MemberNow(e), MembersStay, raced \subseteq raced', UNCHANGED <<blocked, ended>>,
           \A v \in Worker : \/ req'[v] = req[v]
                             \/ /\ SessionRequest(req'[v])
                                /\ req'[v].pc \notin OnSession /\ req[v].pc # "block"
    PROVE  SessionPart'
<1>. DEFINE s == CHOOSE s \in Unused : TRUE
            row == [status |-> "live", user |-> e, jti |-> 1]
            token == [status |-> "holds", user |-> e, role |-> role, jti |-> 1]
<1>1. /\ s \in Session /\ client[s] = NoRow
      /\ session' = [session EXCEPT ![s] = row] /\ client' = [client EXCEPT ![s] = token]
  BY DEF OpenSession, Unused
<1>. HIDE DEF s
<1>2. row \in SessionRow /\ token \in HeldTokens /\ row # NoRow /\ token # NoRow
      /\ row.status = "live" /\ row.user = e /\ row.jti = 1 /\ token.jti = 1 /\ token.user = e
  BY DEF SessionRow, HeldTokens, NoRow
<1>. HIDE DEF row, token
<1>3. /\ session' \in [Session -> SessionRow \cup {NoRow}] /\ session'[s] = row
      /\ client' \in [Session -> HeldTokens \cup {NoRow}] /\ client'[s] = token
      /\ \A o \in Session \ {s} : session'[o] = session[o] /\ client'[o] = client[o]
  BY <1>1, <1>2 DEF AccountsKept, SessionPart, SessionsTyped
<1>4. s \notin blocked /\ s \notin ended /\ IssuedStay
  BY <1>1, <1>2, <1>3 DEF AccountsKept, SessionPart, SessionsTyped, Issued, IssuedStay
<1>5. SessionsTyped'
  <2>1. ASSUME NEW o \in Session
        PROVE  /\ Issued(o)' => Member(client[o].user)'
               /\ session'[o] # NoRow => Issued(o)' /\ Member(session[o].user)'
    <3>1. CASE o = s
      BY <1>2, <1>3, <3>1 DEF Issued, Member, MemberNow
    <3>2. CASE o # s
      BY <1>3, <3>2 DEF AccountsKept, SessionPart, SessionsTyped, Issued, MembersStay, HeldTokens,
                        SessionRow
    <3>. QED
      BY <3>1, <3>2
  <2>2. (blocked \cup ended)' \subseteq {o \in Session : Issued(o)'}
    BY <1>4 DEF AccountsKept, SessionPart, SessionsTyped, IssuedStay
  <2>. QED
    BY <1>3, <2>1, <2>2 DEF SessionsTyped
<1>6. SessionsHold'
  <2>1. LoneClientKeepsSession'
    <3>. SUFFICES ASSUME NEW o \in Session \ (raced' \cup ended'), client'[o] # NoRow
                  PROVE  \/ (Live(o))' /\ session'[o].jti = client'[o].jti
                         \/ \E w \in Worker : o \in req'[w].has /\ req'[w].pc = "block"
      BY DEF LoneClientKeepsSession
    <3>1. CASE o = s
      BY <1>2, <1>3, <3>1 DEF Live
    <3>2. CASE o # s
      BY <1>3, <3>2 DEF AccountsKept, SessionPart, SessionsHold, LoneClientKeepsSession, Live
    <3>. QED
      BY <3>1, <3>2
  <2>2. EndedStaysEnded'
    BY <1>3, <1>4 DEF AccountsKept, SessionPart, SessionsTyped, SessionsHold, EndedStaysEnded, Live
  <2>. QED
    BY <2>1, <2>2 DEF SessionsHold
<1>7. ASSUME NEW v \in Worker PROVE SessionRequest(req[v])'
  <2>1. CASE req'[v].pc \notin OnSession
    BY <2>1 DEF SessionRequest
  <2>2. CASE req'[v] = req[v] /\ req[v].pc \in OnSession
    <3>1. SessionRequest(req[v])
      BY DEF AccountsKept, SessionPart
    <3>2. req[v].id # s /\ session'[req[v].id] = session[req[v].id] /\ (Issued(req[v].id))'
      BY <1>1, <1>3, <1>4, <2>2, <3>1 DEF SessionRequest, Issued, IssuedStay
    <3>3. \A r \in SessionRow : Member(r.user) => (Member(r.user))'
      BY DEF MembersStay, SessionRow
    <3>. QED
      BY <2>2, <3>1, <3>2, <3>3 DEF SessionRequest, OnSession, Live
  <2>. QED
    BY <2>1, <2>2
<1>. QED
  BY <1>5, <1>6, <1>7 DEF SessionPart

LEMMA JoinKept == ASSUME AccountsKept, NEW w \in Worker, Join(w) PROVE AccountsKept'
<1>1. /\ req[w].pc = "join" /\ Done(w) /\ Go(w, IdleReq)
      /\ UNCHANGED <<plan, mail, blocked, mfaToken, proof, rate, ops, deaths, raced, ended>>
  BY DEF Join, Done
<1>2. CASE Accepts(w)
  <2>. DEFINE e == req[w].row.email
  <2>1. Accept(w) /\ OpenSession(e, req[w].row.role)
    BY <1>2 DEF Join
  <2>2. /\ IdleReq.pc \notin OnInvite \cup {"invite"}
        /\ MemberRequest(IdleReq) /\ IdleReq.pc \notin OnMember \cup {"verified"}
    BY IdleFits DEF OnInvite, OnMember
  <2>3. /\ InvitationPart' /\ MemberPart' /\ MembersStay /\ MemberNow(e)
        /\ told'.device = told.device
        /\ told' = [user |-> told'.user, inv |-> told'.inv, device |-> told'.device]
        /\ e \in Email /\ req[w].row.role \in Role
    BY <1>1, <1>2, <2>1, <2>2, AcceptKept
  <2>4. Takes(w, IdleReq)
    BY <1>1, <2>3, Ends
  <2>5. /\ HeldAlone' /\ req' = [v \in Worker |-> req'[v]] /\ LimitPart'
        /\ req'[w] = IdleReq /\ \A v \in Worker \ {w} : req'[v] = req[v]
    BY <1>1, <2>3, <2>4, OneTakes, Counters DEF Undisturbed
  <2>6. SessionPart'
    <3>1. \A v \in Worker : \/ req'[v] = req[v]
                            \/ /\ SessionRequest(req'[v])
                               /\ req'[v].pc \notin OnSession /\ req[v].pc # "block"
      BY <1>1, <2>5, IdleFits DEF OnSession
    <3>. QED
      BY <1>1, <2>1, <2>3, <3>1, SessionOpened
  <2>. QED
    BY <2>3, <2>5, <2>6 DEF AccountsKept, Records
<1>3. CASE ~Accepts(w)
  BY <1>1, <1>3, NothingWritten DEF Join, rows, login
<1>. QED
  BY <1>2, <1>3

LEMMA OAuthJoinKept == ASSUME AccountsKept, NEW w \in Worker, OAuthJoin(w) PROVE AccountsKept'
<1>1. /\ req[w].pc = "join"
      /\ UNCHANGED <<plan, mail, login, proof, rate, ops, deaths, raced, ended>>
  BY DEF OAuthJoin
<1>2. CASE Accepts(w)
  <2>. DEFINE s == [pc |-> "finalise", has |-> {}, email |-> req[w].row.email,
                    row |-> NewUser(req[w].row)]
  <2>1. Accept(w) /\ Go(w, s)
    BY <1>2 DEF OAuthJoin
  <2>2. s.pc \notin OnInvite \cup {"invite"} /\ s.has = {} /\ Follows(req[w], s)
    BY DEF OnInvite, Follows, Admitted
  <2>3. /\ InvitationPart' /\ MemberPart' /\ MembersStay
        /\ told'.device = told.device
        /\ told' = [user |-> told'.user, inv |-> told'.inv, device |-> told'.device]
    BY <1>1, <1>2, <2>1, <2>2, AcceptKept
  <2>4. /\ HeldAlone' /\ req' = [v \in Worker |-> req'[v]]
        /\ req'[w] = s /\ \A v \in Worker \ {w} : req'[v] = req[v]
    BY <1>1, <2>1, <2>2, HeldAloneKept, OneMoves DEF AccountsKept
  <2>5. SessionRequest(s) /\ LimitRequest(s)
    BY DEF SessionRequest, LimitRequest, OnSession, Follows, Admitted
  <2>6. SessionPart'
    BY <1>1, <2>3, <2>4, <2>5, SessionsStand DEF login
  <2>7. LimitPart'
    <3>1. \A v \in Worker : req'[v] = req[v] \/ (LimitRequest(req'[v]) /\ Follows(req[v], req'[v]))
      BY <2>2, <2>4, <2>5
    <3>2. \A v \in Worker : req[v].pc = "ttl" => req'[v] = req[v]
      BY <1>1, <2>4
    <3>. QED
      BY <1>1, <2>3, <3>1, <3>2, LimitsStand, Counters
  <2>. QED
    BY <2>3, <2>4, <2>6, <2>7 DEF AccountsKept, Records
<1>3. CASE ~Accepts(w)
  BY <1>1, <1>3, NothingWritten DEF OAuthJoin, rows
<1>. QED
  BY <1>2, <1>3

\* A column of a member's row is written with the rest of the row as the request knows it,
\* and what is told of it changes likewise.
WritesRow(w, e, row, new) ==
    /\ Member(e) /\ Owns(e, row) /\ user' = [user EXCEPT ![e] = row]
    /\ told'.user = [told.user EXCEPT ![e] = new]
    /\ UNCHANGED <<team, plan>> /\ raced \subseteq raced'
    /\ e \notin raced' => new = row
    /\ \A v \in Worker \ {w} : OnRow(req[v], e) => e \in raced'

LEMMA ColumnSaved ==
    ASSUME AccountsKept, NEW w \in Worker, NEW e \in Email, NEW row \in UserRow,
           NEW new \in UserRow, WritesRow(w, e, row, new),
           NEW s, Go(w, s), MemberRequest(s), s.pc \notin OnMember \cup {"verified"}
    PROVE  MemberPart' /\ MembersStay /\ MemberNow(e)
<1>1. req'[w] = s /\ \A v \in Worker \ {w} : req'[v] = req[v]
  BY OneMoves DEF AccountsKept
<1>2. /\ told'.user \in [Email -> UserRow \cup {NoRow}] /\ told'.user[e] = new
      /\ \A o \in Email \ {e} : told'.user[o] = told.user[o]
  BY DEF AccountsKept, MemberPart, MembersTyped, WritesRow
<1>3. plan' \in {"free", "pro"} /\ new # NoRow
  BY Counters, MemberRow DEF WritesRow
<1>4. \A v \in Worker :
         \/ MemberRequest(req'[v]) /\ req'[v].pc \notin OnMember \cup {"verified"}
         \/ req'[v] = req[v] /\ (OnRow(req[v], e) => e \in raced')
  BY <1>1 DEF WritesRow
<1>5. Rewrites(e, row)
  BY <1>2, <1>3, <1>4 DEF Rewrites, WritesRow
<1>. QED
  BY <1>5, MemberSaved

LEMMA ColumnsOfARow ==
    ASSUME NEW row \in UserRow
    PROVE  /\ row.role \in Role /\ row.password \in Nat
           /\ LET r == [row EXCEPT !.verified = TRUE]
              IN  r \in UserRow /\ r.role = row.role /\ r.active = row.active
           /\ LET r == [row EXCEPT !.password = row.password + 1]
              IN  r \in UserRow /\ r.role = row.role /\ r.active = row.active
           /\ LET r == [row EXCEPT !.active = FALSE]
              IN  r \in UserRow
           /\ \A x \in Role : LET r == [row EXCEPT !.role = x]
                              IN  r \in UserRow /\ r.role = x
           /\ \A x \in Nat : LET r == [row EXCEPT !.password = x]
                             IN  r \in UserRow /\ r.password = x
<1>1. row.role \in Role /\ row.password \in Nat
  BY DEF UserRow
<1>2. LET r == [row EXCEPT !.verified = TRUE]
      IN  r \in UserRow /\ r.role = row.role /\ r.active = row.active
  BY DEF UserRow
<1>3. LET r == [row EXCEPT !.password = row.password + 1]
      IN  r \in UserRow /\ r.role = row.role /\ r.active = row.active
  BY DEF UserRow
<1>4. LET r == [row EXCEPT !.active = FALSE] IN r \in UserRow
  BY DEF UserRow
<1>5. ASSUME NEW x \in Role
      PROVE  LET r == [row EXCEPT !.role = x] IN r \in UserRow /\ r.role = x
  BY DEF UserRow
<1>6. ASSUME NEW x \in Nat
      PROVE  LET r == [row EXCEPT !.password = x] IN r \in UserRow /\ r.password = x
  BY DEF UserRow
<1>. QED
  BY <1>1, <1>2, <1>3, <1>4, <1>5, <1>6

\* What is told of one member changes, and nothing else that is told.
LEMMA ToldMember ==
    ASSUME Records, NEW new, told' = [told EXCEPT !.user = new]
    PROVE  /\ told'.user = new /\ told'.inv = told.inv /\ told'.device = told.device
           /\ told' = [user |-> told'.user, inv |-> told'.inv, device |-> told'.device]
BY DEF Records

\* A request on a member saves its row, and ends or goes on to the sessions.
LEMMA LoadedMemberSaved ==
    ASSUME AccountsKept, NEW w \in Worker, req[w].pc \in OnMember,
           NEW e \in Email, e = req[w].email,
           NEW row \in UserRow, Owns(e, row), user' = [user EXCEPT ![e] = row],
           UNCHANGED <<team, plan, inv, mail, login, proof, rate, ops, deaths, raced, ended>>,
           NEW new \in UserRow, told' = [told EXCEPT !.user = [told.user EXCEPT ![e] = new]],
           e \notin raced => new = row,
           NEW s, Go(w, s), s.has \subseteq req[w].has,
           InviteRequest(s), MemberRequest(s), SessionRequest(s), LimitRequest(s),
           Follows(req[w], s),
           s.pc \notin OnMember \cup {"verified"}
    PROVE  AccountsKept'
<1>1. MemberRequest(req[w]) /\ Member(e) /\ e \in req[w].has /\ req[w].pc \notin {"ttl", "block"}
  BY DEF AccountsKept, MemberPart, MemberRequest, OnMember
<1>2. \A v \in Worker \ {w} : OnRow(req[v], e) => e \in raced
  BY <1>1, NobodyElse
<1>3. /\ told'.user = [told.user EXCEPT ![e] = new]
      /\ told'.inv = told.inv /\ told'.device = told.device
      /\ told' = [user |-> told'.user, inv |-> told'.inv, device |-> told'.device]
  BY ToldMember DEF AccountsKept
<1>4. MemberPart' /\ MembersStay
  <2>1. WritesRow(w, e, row, new)
    BY <1>1, <1>2, <1>3 DEF WritesRow
  <2>. QED
    BY <2>1, ColumnSaved
<1>5. Takes(w, s)
  BY <1>1, <1>4 DEF Takes, Moves
<1>6. /\ HeldAlone' /\ req' = [v \in Worker |-> req'[v]] /\ InvitationPart' /\ SessionPart'
      /\ LimitPart'
  BY <1>1, <1>3, <1>5, OneTakes, Counters DEF Undisturbed, login
<1>. QED
  BY <1>3, <1>4, <1>6 DEF AccountsKept, Records

\* What a request on a member knows.
LEMMA MemberLoaded ==
    ASSUME AccountsKept, NEW w \in Worker, req[w].pc \in OnMember
    PROVE  /\ req[w].email \in Email /\ Member(req[w].email) /\ req[w].row \in UserRow
           /\ Owns(req[w].email, req[w].row)
           /\ user[req[w].email] \in UserRow /\ told.user[req[w].email] \in UserRow
           /\ req[w].email \notin raced =>
                 /\ told.user[req[w].email] = user[req[w].email]
                 /\ req[w].pc = "role" =>
                       req[w].row = [user[req[w].email] EXCEPT !.role = req[w].row.role]
                 /\ req[w].pc # "role" => req[w].row = user[req[w].email]
<1>1. MemberRequest(req[w])
  BY DEF AccountsKept, MemberPart
<1>2. req[w].email \in Email /\ Member(req[w].email)
  BY <1>1 DEF MemberRequest
<1>3. req[w].email \notin raced => told.user[req[w].email] = user[req[w].email]
  BY <1>2 DEF AccountsKept, MemberPart, UserAnswerHolds
<1>. QED
  BY <1>1, <1>2, <1>3, MemberFacts DEF MemberRequest, OnMember

LEMMA SaveRoleKept == ASSUME AccountsKept, NEW w \in Worker, SaveRole(w) PROVE AccountsKept'
<1>. DEFINE e == req[w].email
            row == req[w].row
            new == [told.user[e] EXCEPT !.role = row.role]
<1>1. /\ req[w].pc = "role" /\ req[w].pc \in OnMember /\ Go(w, IdleReq)
      /\ user' = [user EXCEPT ![e] = row]
      /\ UNCHANGED <<team, plan, inv, mail, login, proof, rate, ops, deaths, raced, ended>>
  BY DEF SaveRole, OnMember, Done
<1>2. told' = [told EXCEPT !.user = [told.user EXCEPT ![e] = new]]
  BY DEF SaveRole
<1>3. /\ e \in Email /\ row \in UserRow /\ Owns(e, row) /\ told.user[e] \in UserRow
      /\ e \notin raced => told.user[e] = user[e] /\ row = [user[e] EXCEPT !.role = row.role]
  BY <1>1, MemberLoaded
<1>4. new \in UserRow /\ (e \notin raced => new = row)
  BY <1>3, ColumnsOfARow
<1>. HIDE DEF e, row, new
<1>5. /\ IdleReq.has \subseteq req[w].has /\ Follows(req[w], IdleReq)
      /\ IdleReq.pc \notin OnMember \cup {"verified"}
  BY IdleFits DEF OnMember
<1>6. e = req[w].email
  BY DEF e
<1>. QED
  <2>1. /\ InviteRequest(IdleReq) /\ MemberRequest(IdleReq) /\ SessionRequest(IdleReq)
        /\ LimitRequest(IdleReq)
    BY IdleFits
  <2>2. UNCHANGED <<team, plan, inv, mail, login, proof, rate, ops, deaths, raced, ended>>
    BY <1>1
  <2>. QED
    BY <1>1, <1>2, <1>3, <1>4, <1>5, <1>6, <2>1, <2>2, LoadedMemberSaved

LEMMA SaveProfileKept == ASSUME AccountsKept, NEW w \in Worker, SaveProfile(w) PROVE AccountsKept'
<1>. DEFINE e == req[w].email
            row == req[w].row
            new == told.user[e]
<1>1. /\ req[w].pc = "profile" /\ req[w].pc \in OnMember /\ Go(w, IdleReq)
      /\ user' = [user EXCEPT ![e] = row]
      /\ UNCHANGED <<team, plan, inv, mail, login, proof, rate, ops, deaths, raced, told, ended>>
  BY DEF SaveProfile, OnMember, Done
<1>2. told' = [told EXCEPT !.user = [told.user EXCEPT ![e] = new]]
  <2>1. told.user = [told.user EXCEPT ![e] = new]
    BY DEF AccountsKept, MemberPart, MembersTyped
  <2>. HIDE DEF e
  <2>. QED
    BY <1>1, <2>1 DEF AccountsKept, Records
<1>3. /\ e \in Email /\ row \in UserRow /\ Owns(e, row) /\ new \in UserRow
      /\ e \notin raced => new = row
  BY <1>1, MemberLoaded
<1>. HIDE DEF e, row, new
<1>5. /\ IdleReq.has \subseteq req[w].has /\ Follows(req[w], IdleReq)
      /\ IdleReq.pc \notin OnMember \cup {"verified"}
  BY IdleFits DEF OnMember
<1>6. e = req[w].email
  BY DEF e
<1>. QED
  <2>1. /\ InviteRequest(IdleReq) /\ MemberRequest(IdleReq) /\ SessionRequest(IdleReq)
        /\ LimitRequest(IdleReq)
    BY IdleFits
  <2>2. UNCHANGED <<team, plan, inv, mail, login, proof, rate, ops, deaths, raced, ended>>
    BY <1>1
  <2>. QED
    BY <1>1, <1>2, <1>3, <1>5, <1>6, <2>1, <2>2, LoadedMemberSaved

\* The request that saves a password goes on with what it knows.
LEMMA GoesOn ==
    ASSUME NEW q, NEW x, NEW h, OfPassword(q)
    PROVE  LET s == [q EXCEPT !.pc = x, !.has = h]
           IN  s.pc = x /\ s.has = h /\ s.email = q.email /\ s.reset = q.reset /\ OfPassword(s)
<1>. DEFINE p == [q EXCEPT !.pc = x]
            r == [p EXCEPT !.has = h]
<1>1. [q EXCEPT !.pc = x, !.has = h] = r
  OBVIOUS
<1>2. p = [pc |-> x, has |-> q.has, email |-> q.email, row |-> q.row, reset |-> q.reset]
  BY DEF OfPassword
<1>. HIDE DEF p
<1>3. r = [pc |-> x, has |-> h, email |-> q.email, row |-> q.row, reset |-> q.reset]
  BY <1>2
<1>. HIDE DEF r
<1>4. r.pc = x /\ r.has = h /\ r.email = q.email /\ r.reset = q.reset /\ OfPassword(r)
  BY <1>3 DEF OfPassword
<1>. QED
  BY <1>1, <1>4

LEMMA SavePasswordKept ==
    ASSUME AccountsKept, NEW w \in Worker, SavePassword(w) PROVE AccountsKept'
<1>. DEFINE e == req[w].email
            old == req[w].row
            row == [old EXCEPT !.password = old.password + 1]
            new == [told.user[e] EXCEPT !.password = row.password]
            next == IF req[w].reset = 0 THEN "sessions" ELSE "use"
            s == [req[w] EXCEPT !.pc = next, !.has = {e}]
<1>1. /\ req[w].pc = "password" /\ req[w].pc \in OnMember /\ Go(w, s)
      /\ user' = [user EXCEPT ![e] = row]
      /\ UNCHANGED <<team, plan, inv, mail, login, proof, rate, ops, deaths, raced, ended>>
  BY DEF SavePassword, OnMember
<1>2. told' = [told EXCEPT !.user = [told.user EXCEPT ![e] = new]]
  BY DEF SavePassword
<1>3. /\ e \in Email /\ old \in UserRow /\ Owns(e, old) /\ told.user[e] \in UserRow
      /\ e \notin raced => told.user[e] = old
      /\ Member(e)
  BY <1>1, MemberLoaded
<1>4. row \in UserRow /\ Owns(e, row) /\ row.password \in Nat
  BY <1>3, ColumnsOfARow DEF Owns
<1>5. new \in UserRow
  BY <1>3, <1>4, ColumnsOfARow
<1>6. e \notin raced => new = row
  BY <1>3, <1>4 DEF UserRow
<1>7. MemberRequest(req[w])
  BY DEF AccountsKept, MemberPart
<1>8. /\ s.pc \in {"sessions", "use"} /\ s.has = {e} /\ s.email = e
      /\ s.reset = req[w].reset /\ s.reset \in Nat /\ e \in req[w].has
      /\ OfPassword(s)
  <2>1. OfPassword(req[w]) /\ req[w].reset \in Nat /\ e \in req[w].has
    BY <1>1, <1>7 DEF MemberRequest, OnMember
  <2>2. /\ s.pc = next /\ s.has = {e} /\ s.email = req[w].email /\ s.reset = req[w].reset
        /\ OfPassword(s)
    <3>. HIDE DEF next, e
    <3>. QED
      BY <2>1, GoesOn
  <2>3. next \in {"sessions", "use"}
    OBVIOUS
  <2>. HIDE DEF s, next
  <2>. QED
    BY <2>1, <2>2, <2>3
<1>. HIDE DEF s, row, new, e
<1>9. /\ InviteRequest(s) /\ MemberRequest(s) /\ SessionRequest(s) /\ LimitRequest(s)
      /\ Follows(req[w], s) /\ s.has \subseteq req[w].has /\ s.pc \notin OnMember \cup {"verified"}
  BY <1>3, <1>8 DEF InviteRequest, MemberRequest, SessionRequest, LimitRequest, OnInvite,
     OnMember, OnSession, Follows, Admitted
<1>10. e = req[w].email
  BY DEF e
<1>. QED
  BY <1>1, <1>2, <1>3, <1>4, <1>5, <1>6, <1>9, <1>10, LoadedMemberSaved

\* An address that the provider vouches for.
LEMMA LinkAccountKept ==
    ASSUME AccountsKept, NEW w \in Worker, NEW e \in Email, Member(e), LinkAccount(w, e)
    PROVE  AccountsKept'
<1>. DEFINE row == [user[e] EXCEPT !.verified = TRUE]
            new == [told.user[e] EXCEPT !.verified = TRUE]
            s == [pc |-> "finalise", has |-> {}, email |-> e, row |-> user[e]]
<1>1. /\ req[w].pc = "idle" /\ ops < MaxOps /\ ops' = ops + 1 /\ Go(w, s)
      /\ raced' = raced \cup Contended({e}, w)
      /\ UNCHANGED <<team, plan, inv, mail, login, proof, rate, deaths, ended>>
  BY DEF LinkAccount, Finalise, Idle
<1>2. /\ user' = [user EXCEPT ![e] = row]
      /\ told' = [told EXCEPT !.user = [told.user EXCEPT ![e] = new]]
  BY DEF LinkAccount
<1>3. user[e] \in UserRow /\ told.user[e] \in UserRow /\ Owns(e, user[e])
  BY MemberFacts DEF Owns
<1>4. row \in UserRow /\ new \in UserRow /\ Owns(e, row)
  BY <1>3, ColumnsOfARow DEF Owns
<1>5. e \notin raced' => new = row
  BY <1>1 DEF AccountsKept, MemberPart, UserAnswerHolds
<1>6. ASSUME NEW v \in Worker \ {w}, OnRow(req[v], e) PROVE e \in raced'
  <2>1. MemberRequest(req[v])
    BY DEF AccountsKept, MemberPart
  <2>2. e \in req[v].has
    BY <1>6, <2>1 DEF OnRow, MemberRequest, OnMember
  <2>. QED
    BY <1>1, <2>2 DEF Contended
<1>7. /\ InviteRequest(s) /\ MemberRequest(s) /\ SessionRequest(s) /\ LimitRequest(s)
      /\ Follows(req[w], s) /\ s.has = {} /\ s.pc \notin OnMember \cup {"verified"}
  BY <1>3 DEF InviteRequest, MemberRequest, SessionRequest, LimitRequest, OnInvite, OnMember,
     OnSession, Follows, Admitted
<1>. HIDE DEF row, new, s
<1>8. /\ told'.user = [told.user EXCEPT ![e] = new]
      /\ told'.inv = told.inv /\ told'.device = told.device
      /\ told' = [user |-> told'.user, inv |-> told'.inv, device |-> told'.device]
  BY <1>2, ToldMember DEF AccountsKept
<1>9. MemberPart' /\ MembersStay
  <2>1. WritesRow(w, e, row, new)
    BY <1>1, <1>2, <1>4, <1>5, <1>6, <1>8 DEF WritesRow
  <2>. QED
    BY <1>1, <1>2, <1>4, <1>7, <2>1, ColumnSaved
<1>10. Takes(w, s)
  BY <1>1, <1>7, <1>9 DEF Takes, Moves
<1>11. /\ HeldAlone' /\ req' = [v \in Worker |-> req'[v]] /\ InvitationPart' /\ SessionPart'
       /\ LimitPart'
  BY <1>1, <1>8, <1>10, OneTakes, Counters DEF Undisturbed, login
<1>. QED
  BY <1>8, <1>9, <1>11 DEF AccountsKept, Records

\* The owner's address is verified, and the owner signed in.
LEMMA VerifyUserKept ==
    ASSUME AccountsKept, NEW w \in Worker, VerifyUser(w) PROVE AccountsKept'
<1>. DEFINE row == [req[w].row EXCEPT !.verified = TRUE]
            new == [told.user[Owner] EXCEPT !.verified = TRUE]
<1>1. /\ req[w].pc = "verified" /\ Done(w) /\ OpenSession(Owner, row.role)
      /\ UNCHANGED <<team, plan, inv, mail, blocked, mfaToken, proof, rate, ops, deaths, raced,
                     ended>>
  BY DEF VerifyUser
<1>2. /\ user' = [user EXCEPT ![Owner] = row]
      /\ told' = [told EXCEPT !.user = [told.user EXCEPT ![Owner] = new]]
  BY DEF VerifyUser
<1>3. /\ req[w].row \in UserRow /\ Owns(Owner, req[w].row) /\ told.user[Owner] \in UserRow
      /\ Owner \in req[w].has /\ Member(Owner)
      /\ Owner \notin raced => req[w].row = user[Owner]
  <2>1. MemberRequest(req[w])
    BY DEF AccountsKept, MemberPart
  <2>. QED
    BY <1>1, <2>1, MemberFacts, AccountFacts DEF MemberRequest
<1>4. row \in UserRow /\ new \in UserRow /\ Owns(Owner, row) /\ row.role \in Role
  BY <1>3, ColumnsOfARow DEF Owns
<1>5. Owner \notin raced => new = row
  BY <1>3, AccountFacts DEF AccountsKept, MemberPart, UserAnswerHolds
<1>6. \A v \in Worker \ {w} : OnRow(req[v], Owner) => Owner \in raced
  BY <1>1, <1>3, NobodyElse, AccountFacts
<1>7. MemberRequest(IdleReq) /\ IdleReq.pc \notin OnMember \cup {"verified"} /\ Go(w, IdleReq)
  BY <1>1, IdleFits DEF OnMember, Done
<1>. HIDE DEF row, new
<1>8. /\ told'.user = [told.user EXCEPT ![Owner] = new]
      /\ told'.inv = told.inv /\ told'.device = told.device
      /\ told' = [user |-> told'.user, inv |-> told'.inv, device |-> told'.device]
  BY <1>2, ToldMember DEF AccountsKept
<1>9. MemberPart' /\ MembersStay /\ MemberNow(Owner)
  <2>1. WritesRow(w, Owner, row, new)
    BY <1>1, <1>2, <1>3, <1>4, <1>5, <1>6, <1>8, AccountFacts DEF WritesRow
  <2>. QED
    BY <1>3, <1>4, <1>7, <2>1, AccountFacts, ColumnSaved
<1>10. Takes(w, IdleReq)
  BY <1>1, <1>9, Ends
<1>11. /\ HeldAlone' /\ req' = [v \in Worker |-> req'[v]] /\ InvitationPart' /\ LimitPart'
       /\ req'[w] = IdleReq /\ \A v \in Worker \ {w} : req'[v] = req[v]
  BY <1>1, <1>8, <1>10, OneTakes, Counters DEF Undisturbed
<1>12. SessionPart'
  <2>1. \A v \in Worker : \/ req'[v] = req[v]
                          \/ /\ SessionRequest(req'[v])
                             /\ req'[v].pc \notin OnSession /\ req[v].pc # "block"
    BY <1>1, <1>11, IdleFits DEF OnSession
  <2>. QED
    BY <1>1, <1>4, <1>9, <2>1, AccountFacts, SessionOpened
<1>. QED
  BY <1>8, <1>9, <1>11, <1>12 DEF AccountsKept, Records

\* The plan ends: members other than the owner become inactive, whoever loaded their rows
\* being on record.
LEMMA DeactivateKept ==
    ASSUME AccountsKept, NEW S \in SUBSET Email, \A e \in S : Member(e), Owner \notin S,
           Deactivate(S), plan' = "free",
           UNCHANGED <<team, inv, mail, login, proof, rate, ended>>
    PROVE  AccountsKept'
<1>. DEFINE off(r) == [r EXCEPT !.active = FALSE]
<1>1. /\ user' = [e \in Email |-> IF e \in S THEN off(user[e]) ELSE user[e]]
      /\ told' = [told EXCEPT !.user = [e \in Email |-> IF e \in S THEN off(told.user[e])
                                                        ELSE told.user[e]]]
      /\ ops < MaxOps /\ ops' = ops + 1 /\ UNCHANGED <<req, deaths>>
      /\ raced' = raced \cup {o \in S : \E w \in Worker : o \in req[w].has}
  BY DEF Deactivate, Once
<1>2. /\ told'.user = [e \in Email |-> IF e \in S THEN off(told.user[e]) ELSE told.user[e]]
      /\ told'.inv = told.inv /\ told'.device = told.device
      /\ told' = [user |-> told'.user, inv |-> told'.inv, device |-> told'.device]
  BY <1>1, ToldMember DEF AccountsKept
<1>3. \A r \in UserRow : off(r) \in UserRow
  BY ColumnsOfARow
<1>. HIDE DEF off
<1>4. ASSUME NEW e \in S
      PROVE  /\ user'[e] = off(user[e]) /\ user'[e] \in UserRow /\ user'[e].status = "member"
             /\ told'.user[e] = off(told.user[e]) /\ told'.user[e] \in UserRow
             /\ told'.user[e] # NoRow
  BY <1>1, <1>2, <1>3, MemberFacts, MemberRow
<1>5. \A e \in Email \ S : user'[e] = user[e] /\ told'.user[e] = told.user[e]
  BY <1>1, <1>2
<1>6. \A e \in Email : Member(e)' <=> Member(e)
  BY <1>4, <1>5 DEF Member
<1>7. MembersTyped'
  <2>1. \A e \in Email : /\ user'[e] \in UserRow \cup {NoRow}
                         /\ told'.user[e] \in UserRow \cup {NoRow}
                         /\ (Member(e))' => told'.user[e] # NoRow
    BY <1>4, <1>5, <1>6 DEF AccountsKept, MemberPart, MembersTyped
  <2>2. /\ user' \in [Email -> UserRow \cup {NoRow}]
        /\ told'.user \in [Email -> UserRow \cup {NoRow}]
    BY <1>1, <1>2, <2>1
  <2>. QED
    BY <1>6, <2>1, <2>2 DEF AccountsKept, MemberPart, MembersTyped
<1>8. OwnerRemains' /\ UserAnswerHolds'
  <2>1. OwnerRemains'
    BY <1>5, AccountFacts DEF OwnerRemains, AccountsKept, MemberPart
  <2>2. ASSUME NEW e \in Email \ raced' PROVE user'[e] = told'.user[e]
    BY <1>1, <1>4, <1>5 DEF AccountsKept, MemberPart, UserAnswerHolds
  <2>. QED
    BY <2>1, <2>2 DEF UserAnswerHolds
<1>9. ASSUME NEW w \in Worker PROVE MemberRequest(req[w])'
  <2>1. MemberRequest(req[w]) /\ req'[w] = req[w] /\ raced \subseteq raced'
    BY <1>1 DEF AccountsKept, MemberPart
  <2>2. \A e \in Email : e \in req[w].has /\ e \notin raced' => user'[e] = user[e]
    BY <1>1, <1>5
  <2>3. CASE req[w].pc \in OnMember
    BY <1>6, <2>1, <2>2, <2>3 DEF MemberRequest, OnMember, Owns
  <2>4. CASE req[w].pc = "verified"
    BY <2>1, <2>2, <2>4, AccountFacts DEF MemberRequest, OnMember, Owns
  <2>5. CASE req[w].pc \notin OnMember \cup {"verified"}
    BY <1>6, <2>1, <2>5 DEF MemberRequest, OnMember
  <2>. QED
    BY <2>3, <2>4, <2>5
<1>10. MemberPart'
  BY <1>7, <1>8, <1>9 DEF MemberPart
<1>11. TakesNone
  BY <1>1, <1>6 DEF TakesNone, MembersStay
<1>12. /\ HeldAlone' /\ req' = [v \in Worker |-> req'[v]] /\ InvitationPart' /\ SessionPart'
       /\ LimitPart'
  BY <1>1, <1>2, <1>11, NoneTakes, Counters DEF Undisturbed, login
<1>. QED
  BY <1>2, <1>10, <1>12 DEF AccountsKept, Records

\* The owner is the first of the team, so never one of the newest.
LEMMA DowngradeKept == ASSUME AccountsKept, Downgrade PROVE AccountsKept'
<1>. DEFINE S == {e \in Active : Cardinality(Older(e)) >= FreeSeats}
<1>1. Older(Owner) = {}
  <2>1. /\ team \in Seq(Email) /\ Len(team) \in Nat /\ team[1] = Owner /\ Len(team) > 0
        /\ \A m, n \in 1..Len(team) : team[m] = team[n] => m = n
    BY DEF AccountsKept, MemberPart, MembersTyped
  <2>2. ASSUME NEW a \in Active, NEW m \in DOMAIN team, NEW n \in DOMAIN team, m < n,
               team[n] = Owner
        PROVE  FALSE
    BY <2>1, <2>2
  <2>. QED
    BY <2>2 DEF Older, Before
<1>2. Owner \notin S
  BY <1>1, FS_EmptySet, AccountFacts
<1>3. S \in SUBSET Email /\ \A e \in S : Member(e)
  BY DEF Active
<1>4. /\ Deactivate(S) /\ plan' = "free"
      /\ UNCHANGED <<team, inv, mail, login, proof, rate, ended>>
  BY DEF Downgrade
<1>. HIDE DEF S
<1>. QED
  BY <1>2, <1>3, <1>4, DeactivateKept

-----------------------------------------------------------------------------
(* Limits, tokens and devices *)

\* A step of one request that writes tokens, devices and counts, and nothing else.
LEMMA LimitStep ==
    ASSUME AccountsKept, UNCHANGED <<rows, login, ended>>,
           told'.user = told.user, told'.inv = told.inv,
           told' = [user |-> told'.user, inv |-> told'.inv, device |-> told'.device],
           NEW w \in Worker, NEW s, Moves(w, s), req[w].pc # "block", LimitPart'
    PROVE  AccountsKept'
<1>1. UNCHANGED <<user, team, inv, mail, session, client, blocked>> /\ plan' \in {"free", "pro"}
  BY Counters DEF rows, login
<1>. QED
  BY <1>1, OneGoesOn DEF AccountsKept, Records

\* The same, when it is admitted to nothing and the counts stay.
LEMMA OnlyProofs ==
    ASSUME AccountsKept, UNCHANGED <<rows, login, ended, rate>>,
           told'.user = told.user, told'.inv = told.inv,
           told' = [user |-> told'.user, inv |-> told'.inv, device |-> told'.device],
           raced \subseteq raced', ops' \in 0..MaxOps, deaths' \in 0..MaxCrashes,
           verification' \in VerificationRow, reset' \in ResetRow, device' \in DeviceRow,
           DeviceAnswerHolds', DisablesAlone',
           NEW w \in Worker, NEW s, Takes(w, s), req[w].pc \notin {"block", "ttl"}
    PROVE  AccountsKept'
<1>1. Moves(w, s) /\ LimitRequest(s) /\ Follows(req[w], s)
  BY DEF Takes, Moves
<1>2. req'[w] = s /\ \A v \in Worker \ {w} : req'[v] = req[v]
  BY <1>1, OneGoesOn
<1>3. UNCHANGED <<failedLogins, failedLoginsTtl, attempts>>
  BY DEF rate
<1>4. CodesBounded' /\ LoginsBounded'
  BY <1>1, <1>2, <1>3, CodesStand, LoginsStand DEF Follows
<1>5. CounterHasTtl'
  BY <1>2, <1>3 DEF AccountsKept, LimitPart, CounterHasTtl
<1>6. \A v \in Worker : req'[v] = req[v] \/ LimitRequest(req'[v])
  BY <1>1, <1>2
<1>7. LimitPart'
  BY <1>4, <1>5, <1>6, LimitsMet
<1>. QED
  BY <1>1, <1>7, LimitStep

LEMMA ProofFacts ==
    ASSUME AccountsKept
    PROVE  /\ verification \in VerificationRow /\ reset \in ResetRow /\ device \in DeviceRow
           /\ told = [user |-> told.user, inv |-> told.inv, device |-> told.device]
           /\ NewId \in Nat /\ verification.id \in Nat /\ reset.id \in Nat /\ device.id \in Nat
           /\ \A n \in Nat, x \in {"none", "pending", "verified"} :
                 [id |-> n, status |-> x] \in VerificationRow
           /\ \A n \in Nat, x \in {"pending", "used"} : [id |-> n, status |-> x] \in ResetRow
           /\ \A n \in Nat, x \in {"none", "pending", "confirmed"} :
                 [id |-> n, status |-> x] \in DeviceRow
           /\ [verification EXCEPT !.status = "none"] \in VerificationRow
           /\ [reset EXCEPT !.status = "used"] \in ResetRow
           /\ [device EXCEPT !.status = "none"] = [id |-> device.id, status |-> "none"]
<1>1. /\ verification \in VerificationRow /\ reset \in ResetRow /\ device \in DeviceRow
      /\ told = [user |-> told.user, inv |-> told.inv, device |-> told.device]
      /\ ops \in Nat
  BY AccountFacts DEF AccountsKept, Records, LimitPart
<1>2. NewId \in Nat
  BY <1>1 DEF NewId
<1>3. /\ verification.id \in Nat /\ [verification EXCEPT !.status = "none"] \in VerificationRow
      /\ \A n \in Nat, x \in {"none", "pending", "verified"} :
            [id |-> n, status |-> x] \in VerificationRow
  BY <1>1 DEF VerificationRow
<1>4. /\ reset.id \in Nat /\ [reset EXCEPT !.status = "used"] \in ResetRow
      /\ \A n \in Nat, x \in {"pending", "used"} : [id |-> n, status |-> x] \in ResetRow
  BY <1>1 DEF ResetRow
<1>5. /\ device.id \in Nat
      /\ [device EXCEPT !.status = "none"] = [id |-> device.id, status |-> "none"]
      /\ \A n \in Nat, x \in {"none", "pending", "confirmed"} :
            [id |-> n, status |-> x] \in DeviceRow
  BY <1>1 DEF DeviceRow
<1>. QED
  BY <1>1, <1>2, <1>3, <1>4, <1>5

\* A request that has nothing but its place.
LEMMA PlaceFits ==
    ASSUME NEW s, s.has = {},
           s.pc \in {"reissue", "unverified", "count", "login", "setup", "verify", "confirm",
                     "disable"},
           s.pc \in {"verify", "confirm", "disable"} => s.token \in Nat
    PROVE  InviteRequest(s) /\ MemberRequest(s) /\ SessionRequest(s) /\ LimitRequest(s)
BY DEF InviteRequest, MemberRequest, SessionRequest, LimitRequest, OnInvite, OnMember, OnSession

\* A new token of a reset; no request takes a step.
LEMMA ForgotPasswordKept == ASSUME AccountsKept, ForgotPassword PROVE AccountsKept'
<1>1. /\ reset' = [id |-> reset.id + 1, status |-> "pending"] /\ req' = req
      /\ raced \subseteq raced' /\ ops' \in 0..MaxOps /\ deaths' \in 0..MaxCrashes
      /\ UNCHANGED <<rows, login, verification, device, rate, told, ended>>
  BY Counters DEF ForgotPassword, Once
<1>2. MembersStay /\ UNCHANGED <<user, team, inv, mail, session, client, blocked, plan>>
      /\ plan' \in {"free", "pro"}
      /\ UNCHANGED <<failedLogins, failedLoginsTtl, attempts>>
  BY <1>1, Counters DEF MembersStay, Member, rows, login, rate
<1>3. HeldAlone' /\ req' = [v \in Worker |-> req'[v]] /\ Undisturbed(TRUE)
  BY <1>1, <1>2, NoneTakes DEF TakesNone
<1>4. reset' \in ResetRow
  <2>1. reset.id + 1 \in Nat
    BY ProofFacts
  <2>. QED
    BY <1>1, <2>1, ProofFacts DEF ResetRow
<1>5. CodesBounded' /\ LoginsBounded' /\ DeviceAnswerHolds' /\ DisablesAlone'
  BY <1>1, <1>2, CodesStand, LoginsStand, DeviceStands
<1>6. CounterHasTtl'
  BY <1>1, <1>2 DEF AccountsKept, LimitPart, CounterHasTtl
<1>7. LimitPart'
  BY <1>1, <1>4, <1>5, <1>6, ProofFacts, LimitsMet
<1>. QED
  BY <1>1, <1>2, <1>3, <1>7 DEF Undisturbed, AccountsKept, Records

\* The verification is deleted, and created again.
LEMMA ReissueKept ==
    ASSUME AccountsKept, NEW w \in Worker,
           ResendVerification(w) \/ UnverifiedLogin(w) \/ RenewVerification(w)
    PROVE  AccountsKept'
<1>1. PICK s : /\ Go(w, s) /\ s.has = {} /\ Follows(req[w], s)
               /\ (s.pc \in {"reissue", "unverified", "count"} \/ s = IdleReq)
  <2>1. CASE ResendVerification(w)
    BY <2>1 DEF ResendVerification, Start, Begin, Follows, Admitted
  <2>2. CASE UnverifiedLogin(w)
    BY <2>2 DEF UnverifiedLogin, Follows, Admitted
  <2>3. CASE RenewVerification(w) /\ verification.status = "none"
    <3>1. CASE req[w].pc = "unverified"
      BY <2>3, <3>1 DEF RenewVerification, Follows, Admitted
    <3>2. CASE req[w].pc # "unverified"
      BY <2>3, <3>2, IdleFits DEF RenewVerification
    <3>. QED
      BY <3>1, <3>2
  <2>4. CASE RenewVerification(w) /\ verification.status # "none"
    BY <2>4, IdleFits DEF RenewVerification, Done
  <2>. QED
    BY <2>1, <2>2, <2>3, <2>4
<1>2. /\ UNCHANGED <<rows, login, reset, device, rate, deaths, told, ended>>
      /\ raced \subseteq raced' /\ ops' \in 0..MaxOps /\ deaths' \in 0..MaxCrashes
      /\ req[w].pc \in {"idle", "login", "reissue", "unverified"}
      /\ verification' \in {[verification EXCEPT !.status = "none"], verification,
                            [id |-> NewId, status |-> "pending"]}
  BY Counters DEF ResendVerification, UnverifiedLogin, RenewVerification, DropVerification,
     Start, Begin, Idle
<1>3. MembersStay /\ verification' \in VerificationRow /\ reset' \in ResetRow
      /\ device' \in DeviceRow
  BY <1>2, ProofFacts DEF MembersStay, Member, rows
<1>4. InviteRequest(s) /\ MemberRequest(s) /\ SessionRequest(s) /\ LimitRequest(s)
  BY <1>1, PlaceFits, IdleFits
<1>5. Takes(w, s)
  BY <1>1, <1>2, <1>3, <1>4 DEF Takes, Moves
<1>6. DeviceAnswerHolds' /\ DisablesAlone'
  <2>1. \A v \in Worker : req'[v] = req[v] \/ req'[v].pc # "disable"
    BY <1>5, OneTakes DEF Takes, Follows
  <2>. QED
    BY <1>2, <2>1, DeviceStands
<1>. QED
  BY <1>2, <1>3, <1>5, <1>6, ProofFacts, OnlyProofs

\* A new device, which nobody asked to disable yet.
LEMMA SetupKept ==
    ASSUME AccountsKept, NEW w \in Worker, Setup(w) \/ SetupCreate(w)
    PROVE  AccountsKept'
<1>1. PICK s : /\ Go(w, s) /\ s.has = {} /\ Follows(req[w], s)
               /\ (s.pc = "setup" \/ s = IdleReq)
  <2>1. CASE Setup(w)
    BY <2>1 DEF Setup, Start, Begin, Follows, Admitted
  <2>2. CASE SetupCreate(w)
    BY <2>2, IdleFits DEF SetupCreate, Done
  <2>. QED
    BY <2>1, <2>2
<1>2. /\ UNCHANGED <<rows, login, verification, reset, rate, deaths, told, ended>>
      /\ raced \subseteq raced' /\ ops' \in 0..MaxOps /\ deaths' \in 0..MaxCrashes
      /\ req[w].pc \in {"idle", "setup"}
      /\ \/ device.status # "confirmed" /\ device' = [device EXCEPT !.status = "none"]
         \/ device.status = "none" /\ device' = [id |-> NewId, status |-> "pending"]
         \/ device' = device
  BY Counters DEF Setup, SetupCreate, Start, Begin, Idle
<1>3. MembersStay
  BY <1>2 DEF MembersStay, Member, rows
<1>4. /\ device' \in DeviceRow
      /\ device' = device \/ (device.status # "confirmed" /\ device'.status # "confirmed")
  <2>1. CASE device.status # "confirmed" /\ device' = [device EXCEPT !.status = "none"]
    <3>1. device' = [id |-> device.id, status |-> "none"] /\ device.id \in Nat
      BY <2>1, ProofFacts
    <3>. QED
      BY <2>1, <3>1 DEF DeviceRow
  <2>2. CASE device.status = "none" /\ device' = [id |-> NewId, status |-> "pending"]
    BY <2>2, ProofFacts DEF DeviceRow
  <2>3. CASE device' = device
    BY <2>3, ProofFacts
  <2>. QED
    BY <1>2, <2>1, <2>2, <2>3
<1>5. InviteRequest(s) /\ MemberRequest(s) /\ SessionRequest(s) /\ LimitRequest(s)
  BY <1>1, PlaceFits, IdleFits
<1>6. Takes(w, s)
  BY <1>1, <1>2, <1>3, <1>5 DEF Takes, Moves
<1>7. \A v \in Worker : req'[v] = req[v] \/ req'[v].pc # "disable"
  BY <1>6, OneTakes DEF Takes, Follows
<1>8. DeviceAnswerHolds' /\ DisablesAlone'
  <2>1. CASE device' = device
    BY <1>2, <1>7, <2>1, DeviceStands
  <2>2. CASE device.status # "confirmed" /\ device'.status # "confirmed"
    <3>1. DeviceAnswerHolds'
      BY <1>2, <2>2 DEF AccountsKept, LimitPart, DeviceAnswerHolds
    <3>2. DisablesAlone'
      BY <1>2, <1>7, <2>2 DEF AccountsKept, LimitPart, DisablesAlone
    <3>. QED
      BY <3>1, <3>2
  <2>. QED
    BY <1>4, <2>1, <2>2
<1>. QED
  BY <1>2, <1>4, <1>6, <1>8, ProofFacts, OnlyProofs

\* The device is loaded to be disabled; another request that does so is put on record.
LEMMA DisableReadKept ==
    ASSUME AccountsKept, NEW w \in Worker, DisableRead(w) PROVE AccountsKept'
<1>. DEFINE s == [pc |-> "disable", has |-> {}, token |-> device.id]
<1>1. /\ req[w].pc = "idle" /\ Go(w, s) /\ device.status = "confirmed"
      /\ raced' = IF \E v \in Worker : req[v].pc = "disable" THEN raced \cup {"device"} ELSE raced
      /\ ops' \in 0..MaxOps /\ deaths' \in 0..MaxCrashes
      /\ UNCHANGED <<rows, login, proof, rate, told, ended>>
  BY Counters DEF DisableRead, Idle
<1>2. raced \subseteq raced' /\ MembersStay
      /\ UNCHANGED <<verification, reset, device, failedLogins, failedLoginsTtl, attempts>>
  BY <1>1 DEF MembersStay, Member, rows, proof, rate
<1>3. InviteRequest(s) /\ MemberRequest(s) /\ SessionRequest(s) /\ LimitRequest(s)
      /\ s.pc = "disable" /\ s.has = {} /\ s.token = device.id
  BY PlaceFits, ProofFacts
<1>. HIDE DEF s
<1>4. Moves(w, s)
  BY <1>1, <1>2, <1>3 DEF Moves
<1>5. req'[w] = s /\ \A v \in Worker \ {w} : req'[v] = req[v]
  BY <1>4, OneGoesOn
<1>6. CodesBounded' /\ LoginsBounded'
  BY <1>2, <1>3, <1>5, CodesStand, LoginsStand DEF Admitted
<1>7. CounterHasTtl'
  BY <1>1, <1>2, <1>5 DEF AccountsKept, LimitPart, CounterHasTtl
<1>8. DeviceAnswerHolds'
  BY <1>1, <1>2 DEF AccountsKept, LimitPart, DeviceAnswerHolds
<1>9. DisablesAlone'
  BY <1>1, <1>2, <1>3, <1>5 DEF AccountsKept, LimitPart, DisablesAlone
<1>10. \A v \in Worker : req'[v] = req[v] \/ LimitRequest(req'[v])
  BY <1>3, <1>5
<1>11. LimitPart'
  BY <1>1, <1>2, <1>6, <1>7, <1>8, <1>9, <1>10, ProofFacts, LimitsMet
<1>. QED
  BY <1>1, <1>4, <1>11, ProofFacts, LimitStep

\* The one request that disables the device deletes the user's own.
LEMMA DisableKept == ASSUME AccountsKept, NEW w \in Worker, Disable(w) PROVE AccountsKept'
<1>1. /\ req[w].pc = "disable" /\ Done(w) /\ told' = [told EXCEPT !.device = "none"]
      /\ device' = IF device.id = req[w].token THEN [device EXCEPT !.status = "none"] ELSE device
      /\ UNCHANGED <<rows, login, verification, reset, rate, ops, deaths, raced, ended>>
  BY DEF Disable
<1>2. MembersStay
  BY <1>1 DEF MembersStay, Member, rows
<1>3. Takes(w, IdleReq)
  BY <1>1, <1>2, Ends
<1>4. req'[w].pc = "idle" /\ \A v \in Worker \ {w} : req'[v] = req[v]
  BY <1>3, OneTakes, IdleFits
<1>5. /\ told'.user = told.user /\ told'.inv = told.inv /\ told'.device = "none"
      /\ told' = [user |-> told'.user, inv |-> told'.inv, device |-> told'.device]
  BY <1>1 DEF AccountsKept, Records
<1>6. device' \in DeviceRow /\ (device.id = req[w].token => device'.status = "none")
  BY <1>1, ProofFacts
<1>7. DeviceAnswerHolds'
  BY <1>1, <1>5, <1>6 DEF AccountsKept, LimitPart, DeviceAnswerHolds, DisablesAlone
<1>8. DisablesAlone'
  BY <1>1, <1>4 DEF AccountsKept, LimitPart, DisablesAlone
<1>. QED
  BY <1>1, <1>3, <1>5, <1>6, <1>7, <1>8, ProofFacts, OnlyProofs, Counters

LEMMA ConfirmSaveKept ==
    ASSUME AccountsKept, NEW w \in Worker, ConfirmSave(w) PROVE AccountsKept'
<1>1. /\ req[w].pc = "confirm" /\ Done(w) /\ req[w].token \in Nat
      /\ UNCHANGED <<rows, login, verification, reset, rate, ops, deaths, raced, ended>>
  BY DEF ConfirmSave, AccountsKept, LimitPart, LimitRequest
<1>2. MembersStay
  BY <1>1 DEF MembersStay, Member, rows
<1>3. Takes(w, IdleReq) /\ req[w].pc \notin {"block", "ttl"}
  BY <1>1, <1>2, Ends
<1>4. CASE device.id = req[w].token \/ device.status = "none"
  <2>1. /\ device' = [id |-> req[w].token, status |-> "confirmed"]
        /\ told' = [told EXCEPT !.device = "confirmed"]
    BY <1>4 DEF ConfirmSave
  <2>2. /\ told'.user = told.user /\ told'.inv = told.inv /\ told'.device = "confirmed"
        /\ told' = [user |-> told'.user, inv |-> told'.inv, device |-> told'.device]
    BY <2>1 DEF AccountsKept, Records
  <2>3. device' \in DeviceRow /\ device'.status = "confirmed" /\ device'.id = req[w].token
    BY <1>1, <2>1, ProofFacts
  <2>4. DeviceAnswerHolds'
    BY <2>2, <2>3 DEF DeviceAnswerHolds
  <2>5. DisablesAlone'
    <3>1. req'[w].pc = "idle" /\ \A v \in Worker \ {w} : req'[v] = req[v]
      BY <1>3, OneTakes, IdleFits
    <3>. QED
      BY <1>1, <1>4, <2>3, <3>1 DEF AccountsKept, LimitPart, DisablesAlone
  <2>. QED
    BY <1>1, <1>3, <2>2, <2>3, <2>4, <2>5, ProofFacts, OnlyProofs, Counters
<1>5. CASE ~(device.id = req[w].token \/ device.status = "none")
  <2>1. UNCHANGED <<device, told>>
    BY <1>5 DEF ConfirmSave
  <2>. QED
    BY <1>1, <1>3, <2>1, NothingWritten DEF proof
<1>. QED
  BY <1>4, <1>5

LEMMA VerifySaveKept ==
    ASSUME AccountsKept, NEW w \in Worker, VerifySave(w) PROVE AccountsKept'
<1>1. /\ req[w].pc = "verify" /\ req[w].token \in Nat
      /\ UNCHANGED <<rows, login, reset, device, rate, ops, deaths, told, ended>>
  BY DEF VerifySave, AccountsKept, LimitPart, LimitRequest
<1>2. MembersStay
  BY <1>1 DEF MembersStay, Member, rows
<1>3. CASE verification.id = req[w].token \/ verification.status = "none"
  <2>. DEFINE s == [pc |-> "verified", has |-> {Owner}, row |-> user[Owner]]
  <2>1. /\ verification' = [id |-> req[w].token, status |-> "verified"]
        /\ Go(w, s) /\ raced' = raced \cup Contended(s.has, w)
    BY <1>3 DEF VerifySave
  <2>2. InviteRequest(s) /\ MemberRequest(s) /\ SessionRequest(s) /\ LimitRequest(s)
        /\ Follows(req[w], s) /\ s.pc # "disable"
    BY MemberFacts DEF InviteRequest, MemberRequest, SessionRequest, LimitRequest, OnInvite,
                       OnMember, OnSession, Follows, Admitted
  <2>. HIDE DEF s
  <2>3. Takes(w, s) /\ req[w].pc \notin {"block", "ttl"}
    BY <1>1, <1>2, <2>1, <2>2 DEF Takes, Moves
  <2>4. \A v \in Worker : req'[v] = req[v] \/ req'[v].pc # "disable"
    BY <2>2, <2>3, OneTakes
  <2>5. DeviceAnswerHolds' /\ DisablesAlone'
    BY <1>1, <2>1, <2>4, DeviceStands
  <2>6. verification' \in VerificationRow /\ device' \in DeviceRow /\ reset' \in ResetRow
    BY <1>1, <2>1, ProofFacts
  <2>. QED
    BY <1>1, <2>1, <2>3, <2>5, <2>6, ProofFacts, OnlyProofs, Counters
<1>4. CASE ~(verification.id = req[w].token \/ verification.status = "none")
  <2>1. Done(w) /\ UNCHANGED <<verification, raced>>
    BY <1>4 DEF VerifySave
  <2>. QED
    BY <1>1, <2>1, NothingWritten DEF proof
<1>. QED
  BY <1>3, <1>4

LEMMA UseResetKept ==
    ASSUME AccountsKept, NEW w \in Worker, UseReset(w) PROVE AccountsKept'
<1>. DEFINE s == [req[w] EXCEPT !.pc = "sessions"]
<1>1. /\ req[w].pc = "use" /\ Go(w, s)
      /\ reset' = IF reset.id = req[w].reset THEN [reset EXCEPT !.status = "used"] ELSE reset
      /\ UNCHANGED <<rows, login, verification, device, rate, ops, deaths, raced, told, ended>>
  BY DEF UseReset
<1>2. MembersStay
  BY <1>1 DEF MembersStay, Member, rows
<1>3. MemberRequest(req[w])
  BY DEF AccountsKept, MemberPart
<1>4. /\ OfPassword(req[w]) /\ req[w].email \in Email /\ Member(req[w].email)
      /\ req[w].reset \in Nat
  BY <1>1, <1>3 DEF MemberRequest
<1>5. s.pc = "sessions" /\ s.has = req[w].has /\ s.email = req[w].email
      /\ s.reset = req[w].reset
  BY <1>4 DEF OfPassword
<1>. HIDE DEF s
<1>6. InviteRequest(s) /\ MemberRequest(s) /\ SessionRequest(s) /\ LimitRequest(s)
      /\ Follows(req[w], s)
  BY <1>4, <1>5 DEF InviteRequest, MemberRequest, SessionRequest, LimitRequest, OnInvite,
                    OnMember, OnSession, Follows, Admitted
<1>7. Takes(w, s) /\ req[w].pc \notin {"block", "ttl"}
  BY <1>1, <1>2, <1>5, <1>6 DEF Takes, Moves
<1>8. reset' \in ResetRow
  BY <1>1, ProofFacts
<1>9. DeviceAnswerHolds' /\ DisablesAlone'
  <2>1. \A v \in Worker : req'[v] = req[v] \/ req'[v].pc # "disable"
    BY <1>5, <1>7, OneTakes
  <2>. QED
    BY <1>1, <2>1, DeviceStands
<1>. QED
  BY <1>1, <1>7, <1>8, <1>9, ProofFacts, OnlyProofs, Counters

\* A step that counts logins.
LEMMA OnlyLogins ==
    ASSUME AccountsKept, UNCHANGED <<rows, login, ended, proof, attempts, told>>,
           raced \subseteq raced', LoginsBounded', CounterHasTtl',
           ops' \in 0..MaxOps, deaths' \in 0..MaxCrashes,
           NEW w \in Worker, NEW s, Moves(w, s), s.pc \notin {"mfa", "disable"},
           req[w].pc # "block"
    PROVE  AccountsKept'
<1>1. req'[w] = s /\ \A v \in Worker \ {w} : req'[v] = req[v]
  BY OneGoesOn
<1>2. UNCHANGED <<verification, reset, device>>
  BY DEF proof
<1>3. CodesBounded' /\ DeviceAnswerHolds' /\ DisablesAlone'
  BY <1>1, <1>2, CodesStand, DeviceStands
<1>4. \A v \in Worker : req'[v] = req[v] \/ LimitRequest(req'[v])
  BY <1>1 DEF Moves
<1>5. LimitPart'
  BY <1>2, <1>3, <1>4, ProofFacts, LimitsMet
<1>. QED
  BY <1>5, ProofFacts, LimitStep

\* One more is admitted: there was room.
LEMMA LoginAdmitKept == ASSUME AccountsKept, NEW w \in Worker, LoginAdmit(w) PROVE AccountsKept'
<1>. DEFINE s == [pc |-> "login", has |-> {}]
<1>1. /\ req[w].pc = "idle" /\ Go(w, s) /\ ~(failedLogins >= MaxFailures)
      /\ raced \subseteq raced' /\ ops' \in 0..MaxOps /\ deaths' \in 0..MaxCrashes
      /\ UNCHANGED <<rows, login, proof, rate, told, ended>>
  BY Counters DEF LoginAdmit, LoginBlocked, Start, Begin, Idle
<1>2. MembersStay /\ UNCHANGED <<failedLogins, failedLoginsTtl, attempts>>
  BY <1>1 DEF MembersStay, Member, rows, rate
<1>3. InviteRequest(s) /\ MemberRequest(s) /\ SessionRequest(s) /\ LimitRequest(s)
      /\ s.pc = "login" /\ s.has = {}
  BY PlaceFits
<1>. HIDE DEF s
<1>4. Moves(w, s)
  BY <1>1, <1>2, <1>3 DEF Moves
<1>5. LoginsBounded'
  <2>1. Admissions' \subseteq Worker
    BY DEF Admissions
  <2>2. /\ Cardinality(Admissions') <= Cardinality(Worker)
        /\ Cardinality(Admissions') \in Nat /\ Cardinality(Worker) \in Nat
    BY <2>1, WorkersCounted
  <2>3. failedLogins \in Nat /\ failedLogins <= MaxFailures - 1
    BY <1>1, AccountFacts DEF AccountsKept, LimitPart, LoginsBounded
  <2>. QED
    BY <1>2, <2>2, <2>3, AccountFacts DEF LoginsBounded, Room
<1>6. CounterHasTtl'
  <2>1. req'[w] = s /\ \A v \in Worker \ {w} : req'[v] = req[v]
    BY <1>4, OneGoesOn
  <2>. QED
    BY <1>1, <1>2, <2>1 DEF AccountsKept, LimitPart, CounterHasTtl
<1>. QED
  BY <1>1, <1>2, <1>3, <1>4, <1>5, <1>6, OnlyLogins

LEMMA LoginCheckKept ==
    ASSUME AccountsKept, NEW w \in Worker, NEW e \in Email, LoginCheck(w, e) PROVE AccountsKept'
<1>. DEFINE s == [pc |-> "finalise", has |-> {}, email |-> e, row |-> user[e]]
<1>1. /\ req[w].pc = "login" /\ Go(w, s) /\ Member(e) /\ failedLogins' = 0
      /\ UNCHANGED <<rows, login, proof, attempts, ops, deaths, raced, told, ended>>
  BY DEF LoginCheck, Finalise
<1>2. MembersStay
  BY <1>1 DEF MembersStay, Member, rows
<1>3. InviteRequest(s) /\ MemberRequest(s) /\ SessionRequest(s) /\ LimitRequest(s)
      /\ s.pc = "finalise" /\ s.has = {}
  BY <1>1, MemberFacts DEF InviteRequest, MemberRequest, SessionRequest, LimitRequest, OnInvite,
                           OnMember, OnSession
<1>. HIDE DEF s
<1>4. Moves(w, s)
  BY <1>1, <1>2, <1>3 DEF Moves
<1>5. LoginsBounded' /\ CounterHasTtl'
  <2>1. req'[w] = s /\ \A v \in Worker \ {w} : req'[v] = req[v]
    BY <1>4, OneGoesOn
  <2>. QED
    BY <1>1, <1>3, <2>1, LoginsStand DEF CounterHasTtl, Admitted
<1>. QED
  BY <1>1, <1>3, <1>4, <1>5, OnlyLogins, Counters

\* A failure more: its request was admitted, and the first one goes on to set the lifetime.
LEMMA FailLoginKept == ASSUME AccountsKept, NEW w \in Worker, FailLogin(w) PROVE AccountsKept'
<1>. DEFINE s == IF failedLogins' = 1 THEN [pc |-> "ttl", has |-> {"counter"}] ELSE IdleReq
<1>1. /\ req[w].pc \in {"login", "count"} /\ Go(w, s) /\ failedLogins' = failedLogins + 1
      /\ UNCHANGED <<rows, login, proof, failedLoginsTtl, attempts, ops, deaths, raced, told,
                     ended>>
  BY DEF FailLogin
<1>2. MembersStay
  BY <1>1 DEF MembersStay, Member, rows
<1>3. failedLogins \in Nat /\ failedLogins + Cardinality(Admissions) <= Room
  BY DEF AccountsKept, LimitPart, LoginsBounded
<1>4. /\ InviteRequest(s) /\ MemberRequest(s) /\ SessionRequest(s) /\ LimitRequest(s)
      /\ s.pc \in {"ttl", "idle"} /\ (s.has = {} \/ s.pc = "ttl")
      /\ (failedLogins' = 1 => s.pc = "ttl")
  <2>1. CASE failedLogins' = 1
    BY <2>1 DEF InviteRequest, MemberRequest, SessionRequest, LimitRequest, OnInvite, OnMember,
                OnSession
  <2>2. CASE failedLogins' # 1
    BY <2>2, IdleFits
  <2>. QED
    BY <2>1, <2>2
<1>. HIDE DEF s
<1>5. Moves(w, s)
  BY <1>1, <1>2, <1>4 DEF Moves
<1>6. req'[w] = s /\ \A v \in Worker \ {w} : req'[v] = req[v]
  BY <1>5, OneGoesOn
<1>7. CounterHasTtl'
  <2>1. CASE failedLogins' = 1
    BY <1>4, <1>6, <2>1 DEF CounterHasTtl
  <2>2. CASE failedLogins' # 1
    <3>1. failedLogins > 0
      BY <1>1, <1>3, <2>2
    <3>. QED
      BY <1>1, <1>6, <3>1 DEF CounterHasTtl, AccountsKept, LimitPart
  <2>. QED
    BY <2>1, <2>2
<1>8. LoginsBounded'
  <2>1. /\ Admissions' = Admissions \ {w} /\ w \in Admissions /\ Admissions \subseteq Worker
    BY <1>1, <1>4, <1>6 DEF Admissions, Admitted
  <2>2. /\ IsFiniteSet(Admissions) /\ Cardinality(Admissions) \in Nat /\ Room \in Nat
    BY <2>1, WorkersCounted
  <2>3. Cardinality(Admissions') = Cardinality(Admissions) - 1
    BY <2>1, <2>2, FS_RemoveElement
  <2>4. Room' = Room
    BY DEF Room
  <2>. QED
    BY <1>1, <1>3, <2>2, <2>3, <2>4 DEF LoginsBounded
<1>. QED
  BY <1>1, <1>4, <1>5, <1>7, <1>8, OnlyLogins, Counters

LEMMA SetTtlKept == ASSUME AccountsKept, NEW w \in Worker, SetTtl(w) PROVE AccountsKept'
<1>1. /\ req[w].pc = "ttl" /\ Done(w) /\ failedLoginsTtl' = (failedLogins > 0)
      /\ UNCHANGED <<rows, login, proof, failedLogins, attempts, ops, deaths, raced, told, ended>>
  BY DEF SetTtl
<1>2. MembersStay
  BY <1>1 DEF MembersStay, Member, rows
<1>3. Takes(w, IdleReq)
  BY <1>1, <1>2, Ends
<1>4. LoginsBounded' /\ CounterHasTtl'
  <2>1. req'[w] = IdleReq /\ \A v \in Worker \ {w} : req'[v] = req[v]
    BY <1>3, OneTakes
  <2>. QED
    BY <1>1, <2>1, IdleFits, LoginsStand DEF CounterHasTtl, Admitted
<1>. QED
  BY <1>1, <1>3, <1>4, IdleFits, OnlyLogins, Counters DEF Takes

\* The count expires.
LEMMA ExpireFailuresKept == ASSUME AccountsKept, ExpireFailures PROVE AccountsKept'
<1>1. /\ failedLogins' = 0
      /\ UNCHANGED <<rows, login, proof, attempts, req, ops, deaths, raced, told, ended>>
  BY DEF ExpireFailures
<1>2. MembersStay /\ UNCHANGED <<user, team, inv, mail, session, client, blocked, plan>>
      /\ UNCHANGED <<verification, reset, device>>
  BY <1>1 DEF MembersStay, Member, rows, login, proof
<1>3. HeldAlone' /\ req' = [v \in Worker |-> req'[v]] /\ Undisturbed(TRUE)
  BY <1>1, <1>2, NoneTakes DEF TakesNone
<1>4. LimitPart'
  <2>1. CounterHasTtl' /\ LoginsBounded' /\ CodesBounded'
    BY <1>1, LoginsStand, CodesStand DEF CounterHasTtl
  <2>2. DeviceAnswerHolds' /\ DisablesAlone'
    BY <1>1, <1>2, DeviceStands
  <2>. QED
    BY <1>1, <1>2, <2>1, <2>2, ProofFacts, LimitsMet, Counters
<1>. QED
  BY <1>1, <1>2, <1>3, <1>4, Counters DEF Undisturbed, AccountsKept, Records

\* Nothing but the plan changes.
LEMMA UpgradeKept == ASSUME AccountsKept, Upgrade PROVE AccountsKept'
<1>1. /\ plan' = "pro" /\ ops < MaxOps /\ ops' = ops + 1 /\ UNCHANGED <<req, deaths>>
      /\ raced \subseteq raced'
      /\ UNCHANGED <<user, team, inv, mail, login, proof, rate, told, ended>>
  BY DEF Upgrade, Once
<1>2. MembersStay
  BY <1>1 DEF MembersStay, Member
<1>3. HeldAlone' /\ req' = [v \in Worker |-> req'[v]] /\ Undisturbed(TRUE)
  BY <1>1, <1>2, NoneTakes DEF TakesNone
<1>. QED
  BY <1>1, <1>3, Counters DEF Undisturbed, login, AccountsKept, Records

-----------------------------------------------------------------------------
(* Sessions *)

\* The request that ends at a session of its own member, or at the second factor.
LEMMA SignInKept == ASSUME AccountsKept, NEW w \in Worker, SignIn(w) PROVE AccountsKept'
<1>1. /\ req[w].pc = "finalise" /\ Done(w)
      /\ UNCHANGED <<rows, blocked, proof, rate, ops, deaths, raced, told, ended>>
      /\ UNCHANGED <<session, client>> \/ OpenSession(req[w].email, req[w].row.role)
  BY DEF SignIn
<1>2. MembersStay /\ UNCHANGED <<user, team, inv, mail, plan>>
  BY <1>1 DEF MembersStay, Member, rows
<1>3. Takes(w, IdleReq)
  BY <1>1, <1>2, Ends
<1>4. /\ HeldAlone' /\ req' = [v \in Worker |-> req'[v]] /\ InvitationPart' /\ MemberPart'
      /\ LimitPart' /\ req'[w] = IdleReq /\ \A v \in Worker \ {w} : req'[v] = req[v]
      /\ UNCHANGED <<session, client>> => SessionPart'
  BY <1>1, <1>2, <1>3, OneTakes, Counters DEF Undisturbed
<1>5. CASE OpenSession(req[w].email, req[w].row.role)
  <2>1. req[w].email \in Email /\ MemberNow(req[w].email) /\ req[w].row.role \in Role
    <3>1. MemberRequest(req[w])
      BY DEF AccountsKept, MemberPart
    <3>. QED
      BY <1>1, <1>2, <3>1 DEF MemberRequest, MemberNow, Member, UserRow
  <2>2. \A v \in Worker : \/ req'[v] = req[v]
                          \/ /\ SessionRequest(req'[v])
                             /\ req'[v].pc \notin OnSession /\ req[v].pc # "block"
    BY <1>1, <1>4, IdleFits DEF OnSession
  <2>3. SessionPart'
    BY <1>1, <1>2, <1>5, <2>1, <2>2, SessionOpened
  <2>. QED
    BY <1>1, <1>4, <2>3 DEF AccountsKept, Records
<1>. QED
  BY <1>1, <1>4, <1>5 DEF AccountsKept, Records

\* A code of the second factor is awaited: there was room for one more.
LEMMA MfaReadKept == ASSUME AccountsKept, NEW w \in Worker, MfaRead(w) PROVE AccountsKept'
<1>. DEFINE s == [pc |-> "mfa", has |-> {}, row |-> user[Owner]]
<1>1. /\ attempts < MaxFailures /\ Go(w, s) /\ req[w].pc = "idle" /\ ops' \in 0..MaxOps
      /\ deaths' \in 0..MaxCrashes /\ raced \subseteq raced'
      /\ UNCHANGED <<rows, login, proof, rate, told, ended>>
  BY Counters DEF MfaRead, Start, Begin, Idle
<1>2. MembersStay
      /\ UNCHANGED <<verification, reset, device, failedLogins, failedLoginsTtl, attempts>>
  BY <1>1 DEF MembersStay, Member, rows, proof, rate
<1>3. InviteRequest(s) /\ MemberRequest(s) /\ SessionRequest(s) /\ LimitRequest(s)
      /\ s.pc = "mfa" /\ s.has = {}
  BY MemberFacts DEF InviteRequest, MemberRequest, SessionRequest, LimitRequest, OnInvite,
                     OnMember, OnSession
<1>. HIDE DEF s
<1>4. Moves(w, s)
  BY <1>1, <1>2, <1>3 DEF Moves
<1>5. req'[w] = s /\ \A v \in Worker \ {w} : req'[v] = req[v]
  BY <1>4, OneGoesOn
<1>6. CodesBounded'
  <2>1. SecondFactors' \subseteq Worker
    BY DEF SecondFactors
  <2>2. /\ Cardinality(SecondFactors') <= Cardinality(Worker)
        /\ Cardinality(SecondFactors') \in Nat /\ Cardinality(Worker) \in Nat
    BY <2>1, WorkersCounted
  <2>3. attempts \in Nat /\ attempts <= MaxFailures - 1
    BY <1>1, AccountFacts DEF AccountsKept, LimitPart, CodesBounded
  <2>. QED
    BY <1>2, <2>2, <2>3, AccountFacts DEF CodesBounded, Room
<1>7. LoginsBounded' /\ DeviceAnswerHolds' /\ DisablesAlone'
  BY <1>1, <1>2, <1>3, <1>5, LoginsStand, DeviceStands DEF Admitted
<1>8. CounterHasTtl'
  BY <1>1, <1>2, <1>5 DEF CounterHasTtl, AccountsKept, LimitPart
<1>9. \A v \in Worker : req'[v] = req[v] \/ LimitRequest(req'[v])
  BY <1>3, <1>5
<1>10. LimitPart'
  BY <1>1, <1>2, <1>6, <1>7, <1>8, <1>9, ProofFacts, LimitsMet
<1>. QED
  BY <1>1, <1>4, <1>10, ProofFacts, LimitStep

\* The limits when codes of the second factor are counted.
LEMMA AttemptsMet ==
    ASSUME AccountsKept, raced \subseteq raced', UNCHANGED <<proof, failedLogins, failedLoginsTtl>>,
           told' = told, ops' \in 0..MaxOps, deaths' \in 0..MaxCrashes, CodesBounded',
           \A v \in Worker : req'[v] = req[v] \/ (req'[v] = IdleReq /\ req[v].pc # "ttl")
    PROVE  LimitPart'
<1>1. CounterHasTtl'
  BY DEF CounterHasTtl, AccountsKept, LimitPart
<1>2. UNCHANGED <<verification, reset, device>>
  BY DEF proof
<1>3. LoginsBounded' /\ DeviceAnswerHolds' /\ DisablesAlone'
  BY <1>2, IdleFits, LoginsStand, DeviceStands DEF Admitted
<1>4. \A v \in Worker : req'[v] = req[v] \/ LimitRequest(req'[v])
  BY IdleFits
<1>. QED
  BY <1>1, <1>2, <1>3, <1>4, ProofFacts, LimitsMet

\* The code is right and buys a session, or is wrong and counts.
LEMMA MfaFinishKept == ASSUME AccountsKept, NEW w \in Worker, MfaFinish(w) PROVE AccountsKept'
<1>1. /\ req[w].pc = "mfa" /\ Done(w)
      /\ UNCHANGED <<rows, blocked, proof, failedLogins, failedLoginsTtl, ops, deaths, raced,
                     told, ended>>
      /\ \/ attempts' = 0 /\ OpenSession(Owner, req[w].row.role)
         \/ attempts' = attempts + 1 /\ UNCHANGED <<session, client>>
  BY DEF MfaFinish, ResetMfaAttempts, CountMfaAttempt
<1>2. MembersStay /\ MemberNow(Owner) /\ UNCHANGED <<user, team, inv, mail, plan>>
  BY <1>1, MemberFacts DEF MembersStay, Member, MemberNow, rows
<1>3. Takes(w, IdleReq)
  BY <1>1, <1>2, Ends
<1>4. /\ HeldAlone' /\ req' = [v \in Worker |-> req'[v]] /\ InvitationPart' /\ MemberPart'
      /\ req'[w] = IdleReq /\ \A v \in Worker \ {w} : req'[v] = req[v]
      /\ UNCHANGED <<session, client>> => SessionPart'
  BY <1>1, <1>2, <1>3, OneTakes, Counters DEF Undisturbed
<1>5. SessionPart'
  <2>1. CASE OpenSession(Owner, req[w].row.role)
    <3>1. req[w].row.role \in Role
      BY <1>1 DEF AccountsKept, MemberPart, MemberRequest, UserRow
    <3>2. \A v \in Worker : \/ req'[v] = req[v]
                            \/ /\ SessionRequest(req'[v])
                               /\ req'[v].pc \notin OnSession /\ req[v].pc # "block"
      BY <1>1, <1>4, IdleFits DEF OnSession
    <3>. QED
      BY <1>1, <1>2, <2>1, <3>1, <3>2, AccountFacts, SessionOpened
  <2>. QED
    BY <1>1, <1>4, <2>1
<1>6. CodesBounded'
  <2>1. /\ SecondFactors' = SecondFactors \ {w} /\ w \in SecondFactors
        /\ SecondFactors \subseteq Worker
    BY <1>1, <1>4, IdleFits DEF SecondFactors
  <2>2. /\ IsFiniteSet(SecondFactors) /\ Cardinality(SecondFactors) \in Nat /\ Room \in Nat
        /\ Cardinality(SecondFactors') \in Nat
        /\ Cardinality(SecondFactors') <= Cardinality(SecondFactors)
    BY <2>1, WorkersCounted
  <2>3. Cardinality(SecondFactors') = Cardinality(SecondFactors) - 1
    BY <2>1, <2>2, FS_RemoveElement
  <2>4. Room' = Room
    BY DEF Room
  <2>5. attempts \in Nat /\ attempts + Cardinality(SecondFactors) <= Room
    BY DEF AccountsKept, LimitPart, CodesBounded
  <2>6. CASE attempts' = 0
    BY <2>2, <2>3, <2>4, <2>5, <2>6 DEF CodesBounded
  <2>7. CASE attempts' = attempts + 1
    BY <2>2, <2>3, <2>4, <2>5, <2>7 DEF CodesBounded
  <2>. QED
    BY <1>1, <2>6, <2>7
<1>7. LimitPart'
  <2>1. \A v \in Worker : req'[v] = req[v] \/ (req'[v] = IdleReq /\ req[v].pc # "ttl")
    BY <1>1, <1>4
  <2>. QED
    BY <1>1, <1>6, <2>1, AttemptsMet, Counters
<1>. QED
  BY <1>1, <1>4, <1>5, <1>7 DEF AccountsKept, Records

LEMMA MfaLapseKept == ASSUME AccountsKept, MfaLapse PROVE AccountsKept'
<1>1. /\ attempts' \in {0, attempts}
      /\ UNCHANGED <<rows, session, client, blocked, proof, failedLogins, failedLoginsTtl, req,
                     ops, deaths, raced, told, ended>>
  BY DEF MfaLapse
<1>2. MembersStay /\ UNCHANGED <<user, team, inv, mail, plan>>
  BY <1>1 DEF MembersStay, Member, rows
<1>3. HeldAlone' /\ req' = [v \in Worker |-> req'[v]] /\ Undisturbed(TRUE)
  BY <1>1, <1>2, NoneTakes DEF TakesNone
<1>4. CodesBounded'
  BY <1>1, CodesStand
<1>5. LimitPart'
  BY <1>1, <1>4, AttemptsMet, Counters
<1>. QED
  BY <1>1, <1>2, <1>3, <1>5, Counters DEF Undisturbed, AccountsKept, Records

\* The row of a session is written: by a request that held it alone, or others that hold it
\* are on record.
SessionSaved(i, row) ==
    /\ session' = [session EXCEPT ![i] = row]
    /\ row # NoRow => Member(row.user)
    /\ raced \subseteq raced' /\ MembersStay
    /\ client' \in [Session -> HeldTokens \cup {NoRow}]
    /\ \A o \in Session : client[o] # NoRow => client'[o] # NoRow
    /\ \A o \in Session : client'[o] # NoRow =>
          client[o] # NoRow /\ client'[o].user = client[o].user
    /\ \A o \in Session \ {i} : client'[o] = client[o]
    /\ blocked' \subseteq blocked \cup {i}
    /\ ended \subseteq ended' /\ ended' \subseteq ended \cup {i}
    /\ i \notin raced' \cup ended' =>
          \/ row.status = "live" /\ row.jti = client'[i].jti
          \/ \E w \in Worker : i \in req'[w].has /\ req'[w].pc = "block"
    /\ i \in ended' \ raced' => row.status # "live"
    /\ \A v \in Worker :
          \/ req'[v].pc \notin OnSession
          \/ /\ req'[v] = [pc |-> "block", has |-> {i}, id |-> i]
             /\ i \in raced' \/ row.status # "live"
          \/ req'[v] = req[v] /\ (i \in req[v].has => i \in raced')
    /\ \A v \in Worker : req[v].pc = "block" => req'[v] = req[v] \/ req[v].id = i

LEMMA SessionWritten ==
    ASSUME AccountsKept, NEW i \in Session, Issued(i), NEW row \in SessionRow \cup {NoRow},
           SessionSaved(i, row)
    PROVE  SessionPart'
<1>1. /\ session' \in [Session -> SessionRow \cup {NoRow}] /\ session'[i] = row
      /\ \A o \in Session \ {i} : session'[o] = session[o]
  BY DEF SessionSaved, AccountsKept, SessionPart, SessionsTyped
<1>2. \A o \in Session : Issued(o) => (Issued(o))'
  BY DEF SessionSaved, Issued
<1>3. SessionsTyped'
  <2>1. ASSUME NEW o \in Session
        PROVE  /\ Issued(o)' => Member(client[o].user)'
               /\ session'[o] # NoRow => Issued(o)' /\ Member(session[o].user)'
    <3>1. Issued(o)' => Member(client[o].user)'
      <4>1. ASSUME client'[o] # NoRow
            PROVE  client'[o].user = client[o].user /\ client[o].user \in Email
                   /\ Member(client[o].user)
        BY <4>1 DEF SessionSaved, AccountsKept, SessionPart, SessionsTyped, Issued, HeldTokens
      <4>. QED
        BY <4>1 DEF SessionSaved, MembersStay, Issued, Member
    <3>2. session'[o] # NoRow => Issued(o)' /\ Member(session[o].user)'
      <4>1. ASSUME session'[o] # NoRow
            PROVE  session'[o].user \in Email /\ Member(session'[o].user) /\ Issued(o)
        <5>1. CASE o = i
          BY <1>1, <4>1, <5>1 DEF SessionSaved, SessionRow
        <5>2. CASE o # i
          BY <1>1, <4>1, <5>2 DEF AccountsKept, SessionPart, SessionsTyped, SessionRow
        <5>. QED
          BY <5>1, <5>2
      <4>. QED
        BY <1>2, <4>1 DEF SessionSaved, MembersStay, Member
    <3>. QED
      BY <3>1, <3>2
  <2>2. (blocked \cup ended)' \subseteq {o \in Session : Issued(o)'}
    BY <1>2 DEF SessionSaved, AccountsKept, SessionPart, SessionsTyped
  <2>. QED
    BY <1>1, <2>1, <2>2 DEF SessionsTyped, SessionSaved
<1>4. LoneClientKeepsSession'
  <2>. SUFFICES ASSUME NEW o \in Session \ (raced' \cup ended'), client'[o] # NoRow
                PROVE  \/ (Live(o))' /\ session'[o].jti = client'[o].jti
                       \/ \E w \in Worker : o \in req'[w].has /\ req'[w].pc = "block"
    BY DEF LoneClientKeepsSession
  <2>1. CASE o = i
    BY <1>1, <2>1 DEF SessionSaved, Live
  <2>2. CASE o # i
    <3>1. client[o] # NoRow /\ o \notin raced \cup ended
      BY <2>2 DEF SessionSaved
    <3>2. CASE Live(o) /\ session[o].jti = client[o].jti
      BY <1>1, <2>2, <3>2 DEF SessionSaved, Live
    <3>3. ASSUME NEW w \in Worker, o \in req[w].has, req[w].pc = "block"
          PROVE  o \in req'[w].has /\ req'[w].pc = "block"
      <4>1. req[w].has = {req[w].id}
        BY <3>3 DEF AccountsKept, SessionPart, SessionRequest, OnSession
      <4>. QED
        BY <2>2, <3>3, <4>1 DEF SessionSaved
    <3>. QED
      BY <3>1, <3>2, <3>3 DEF AccountsKept, SessionPart, SessionsHold, LoneClientKeepsSession
  <2>. QED
    BY <2>1, <2>2
<1>5. EndedStaysEnded'
  <2>. SUFFICES ASSUME NEW o \in ended' \ raced' PROVE ~(Live(o))'
    BY DEF EndedStaysEnded
  <2>1. CASE o = i
    BY <1>1, <2>1 DEF SessionSaved, Live
  <2>2. CASE o # i
    <3>1. o \in ended \ raced /\ o \in Session
      BY <2>2 DEF SessionSaved, AccountsKept, SessionPart, SessionsTyped
    <3>. QED
      BY <1>1, <2>2, <3>1 DEF AccountsKept, SessionPart, SessionsHold, EndedStaysEnded, Live
  <2>. QED
    BY <2>1, <2>2
<1>6. ASSUME NEW v \in Worker PROVE SessionRequest(req[v])'
  <2>1. CASE req'[v].pc \notin OnSession
    BY <2>1 DEF SessionRequest
  <2>2. CASE /\ req'[v] = [pc |-> "block", has |-> {i}, id |-> i]
             /\ i \in raced' \/ row.status # "live"
    BY <1>1, <1>2, <2>2 DEF SessionRequest, OnSession, Live
  <2>3. CASE req'[v] = req[v] /\ req[v].pc \in OnSession /\ (i \in req[v].has => i \in raced')
    <3>1. SessionRequest(req[v])
      BY DEF AccountsKept, SessionPart
    <3>2. (Issued(req[v].id))' /\ req[v].id \in Session /\ req[v].has = {req[v].id}
      BY <1>2, <2>3, <3>1 DEF SessionRequest, Issued
    <3>3. \A r \in SessionRow : Member(r.user) => (Member(r.user))'
      BY DEF SessionSaved, MembersStay, SessionRow
    <3>4. \/ req[v].id \in raced'
          \/ /\ req[v].id \notin raced /\ session'[req[v].id] = session[req[v].id]
             /\ req[v].id \in ended' => req[v].id \in ended
      BY <1>1, <2>3, <3>2 DEF SessionSaved
    <3>. QED
      BY <2>3, <3>1, <3>2, <3>3, <3>4 DEF SessionRequest, OnSession, Live
  <2>. QED
    BY <2>1, <2>2, <2>3 DEF SessionSaved
<1>. QED
  BY <1>3, <1>4, <1>5, <1>6 DEF SessionPart, SessionsHold

\* A step of one request that writes a session and nothing else.
TakesSession(w, s) ==
    /\ Go(w, s) /\ raced \subseteq raced' /\ MembersStay
    /\ \/ s.has = {} \/ s.pc = "ttl" \/ Contended(s.has, w) \subseteq raced'
       \/ req[w].pc # "ttl" /\ s.has \subseteq req[w].has
    /\ InviteRequest(s) /\ MemberRequest(s) /\ LimitRequest(s) /\ Follows(req[w], s)

LEMMA OnlySessions ==
    ASSUME AccountsKept, NEW w \in Worker, NEW s, TakesSession(w, s), SessionPart',
           UNCHANGED <<rows, proof, rate, deaths, told>>, ops' \in 0..MaxOps,
           req[w].pc # "ttl"
    PROVE  AccountsKept'
<1>1. UNCHANGED <<user, team, inv, mail>> /\ plan' \in {"free", "pro"}
      /\ deaths' \in 0..MaxCrashes
  BY Counters DEF rows
<1>2. req' = [v \in Worker |-> req'[v]]
      /\ req'[w] = s /\ \A v \in Worker \ {w} : req'[v] = req[v]
  BY OneMoves DEF AccountsKept, TakesSession
<1>3. HeldAlone'
  BY HeldAloneKept DEF TakesSession
<1>4. /\ \A v \in Worker : req'[v] = req[v] \/ InviteRequest(req'[v])
      /\ \A v \in Worker : req'[v] = req[v] \/ MemberRequest(req'[v])
      /\ \A v \in Worker : req'[v] = req[v] \/ (LimitRequest(req'[v]) /\ Follows(req[v], req'[v]))
      /\ \A v \in Worker : req[v].pc = "ttl" => req'[v] = req[v]
  BY <1>2 DEF TakesSession
<1>5. InvitationPart'
  BY <1>1, <1>4, InvitationsStand DEF TakesSession
<1>6. MemberPart'
  BY <1>1, <1>4, MembersStand DEF TakesSession
<1>7. LimitPart'
  BY <1>1, <1>4, LimitsStand DEF TakesSession
<1>. QED
  BY <1>2, <1>3, <1>5, <1>6, <1>7 DEF AccountsKept, Records

\* A request on a session, as it is when it is about to write.
LEMMA SessionLoaded ==
    ASSUME AccountsKept, NEW w \in Worker, req[w].pc \in OnSession
    PROVE  /\ req[w].id \in Session /\ Issued(req[w].id) /\ req[w].has = {req[w].id}
           /\ SessionRequest(req[w])
           /\ \A v \in Worker \ {w} :
                 req[v].pc \in OnSession /\ req[w].id \in req[v].has => req[w].id \in raced
<1>1. SessionRequest(req[w])
  BY DEF AccountsKept, SessionPart
<1>2. req[w].id \in Session /\ Issued(req[w].id) /\ req[w].has = {req[w].id}
  BY <1>1 DEF SessionRequest
<1>3. ASSUME NEW v \in Worker \ {w}, req[v].pc \in OnSession, req[w].id \in req[v].has
      PROVE  req[w].id \in raced
  BY <1>2, <1>3, Unshared DEF OnSession
<1>. QED
  BY <1>1, <1>2, <1>3

LEMMA ClientFacts ==
    ASSUME AccountsKept
    PROVE  /\ client \in [Session -> HeldTokens \cup {NoRow}]
           /\ blocked \cup ended \subseteq {s \in Session : Issued(s)}
           /\ \A s \in Session : session[s] # NoRow =>
                 session[s] \in SessionRow /\ Issued(s) /\ Member(session[s].user)
BY DEF AccountsKept, SessionPart, SessionsTyped

\* Reuse of a token is found only where requests had overlapped.
LEMMA ReuseDetectedKept ==
    ASSUME AccountsKept, NEW s \in Session, ReuseDetected(s) PROVE AccountsKept'
<1>. DEFINE row == [session[s] EXCEPT !.status = "revoked"]
<1>1. /\ client[s] # NoRow /\ Live(s) /\ session[s].jti # client[s].jti
      /\ session' = [session EXCEPT ![s] = row] /\ blocked' = blocked \cup {s}
      /\ UNCHANGED req /\ ops < MaxOps /\ ops' = ops + 1 /\ raced \subseteq raced'
      /\ UNCHANGED <<rows, client, mfaToken, proof, rate, told, ended, deaths>>
  BY DEF ReuseDetected, Blocklist, Once
<1>2. s \in raced
  <2>1. \A w \in Worker : s \in req[w].has /\ req[w].pc = "block" /\ s \notin raced => ~Live(s)
    BY DEF AccountsKept, SessionPart, SessionRequest, OnSession
  <2>2. s \in ended /\ s \notin raced => ~Live(s)
    BY DEF AccountsKept, SessionPart, SessionsHold, EndedStaysEnded
  <2>. QED
    BY <1>1, <2>1, <2>2 DEF AccountsKept, SessionPart, SessionsHold, LoneClientKeepsSession
<1>3. /\ row \in SessionRow /\ row.user = session[s].user /\ Member(session[s].user)
  <2>1. session[s] \in SessionRow /\ Member(session[s].user)
    BY <1>1, ClientFacts DEF Live, NoRow
  <2>. QED
    BY <2>1 DEF SessionRow
<1>4. MembersStay /\ UNCHANGED <<user, team, inv, mail, plan>>
  BY <1>1 DEF MembersStay, Member, rows
<1>. HIDE DEF row
<1>5. SessionSaved(s, row)
  BY <1>1, <1>2, <1>3, <1>4, ClientFacts DEF SessionSaved
<1>6. SessionPart'
  BY <1>1, <1>3, <1>5, SessionWritten DEF Issued
<1>7. HeldAlone' /\ req' = [v \in Worker |-> req'[v]] /\ Undisturbed(TRUE)
  BY <1>1, <1>4, NoneTakes DEF TakesNone
<1>. QED
  BY <1>1, <1>4, <1>6, <1>7, Counters DEF Undisturbed, AccountsKept, Records

LEMMA RefreshSaveKept ==
    ASSUME AccountsKept, NEW w \in Worker, RefreshSave(w) PROVE AccountsKept'
<1>. DEFINE i == req[w].id
            jti == req[w].jti
            row == [req[w].row EXCEPT !.jti = jti]
            token == [client[i] EXCEPT !.jti = jti, !.role = req[w].role]
<1>1. /\ req[w].pc = "refresh" /\ Done(w) /\ session' = [session EXCEPT ![i] = row]
      /\ UNCHANGED <<rows, blocked, mfaToken, proof, rate, ops, deaths, told, ended>>
  BY DEF RefreshSave
<1>2. \/ client' = [client EXCEPT ![i] = token] /\ raced' = raced
      \/ client' = client /\ raced' = raced \cup {i}
  BY DEF RefreshSave
<1>3. MembersStay /\ raced \subseteq raced'
  BY <1>1, <1>2 DEF MembersStay, Member, rows
<1>4. /\ i \in Session /\ Issued(i) /\ SessionRequest(req[w])
      /\ \A v \in Worker \ {w} : req[v].pc \in OnSession /\ i \in req[v].has => i \in raced
  BY <1>1, SessionLoaded DEF OnSession
<1>5. /\ req[w].row \in SessionRow /\ req[w].row.status = "live" /\ jti \in Nat
      /\ req[w].role \in Role /\ Member(req[w].row.user)
      /\ i \notin raced => i \notin ended
  BY <1>1, <1>4 DEF SessionRequest, OnSession, SessionRow, NoRow
<1>6. row \in SessionRow /\ row.status = "live" /\ row.jti = jti /\ row.user = req[w].row.user
  BY <1>5 DEF SessionRow
<1>7. token \in HeldTokens /\ token # NoRow /\ token.jti = jti /\ token.user = client[i].user
  <2>1. client[i] \in HeldTokens
    BY <1>4, ClientFacts DEF Issued
  <2>. QED
    BY <1>5, <2>1 DEF HeldTokens, NoRow
<1>8. Takes(w, IdleReq)
  BY <1>1, <1>3, Ends
<1>9. req'[w] = IdleReq /\ \A v \in Worker \ {w} : req'[v] = req[v]
  BY <1>1, OneMoves DEF AccountsKept, Done
<1>. HIDE DEF i, jti, row, token
<1>10. /\ client' \in [Session -> HeldTokens \cup {NoRow}]
       /\ \A o \in Session : client[o] # NoRow => client'[o] # NoRow
       /\ \A o \in Session :
             client'[o] # NoRow => client[o] # NoRow /\ client'[o].user = client[o].user
       /\ \A o \in Session \ {i} : client'[o] = client[o]
       /\ i \notin raced' => client'[i].jti = jti
  BY <1>2, <1>4, <1>7, ClientFacts DEF Issued
<1>11. SessionSaved(i, row)
  <2>1. /\ row # NoRow => Member(row.user)
        /\ i \notin raced' \cup ended' => row.status = "live" /\ row.jti = client'[i].jti
        /\ i \in ended' \ raced' => row.status # "live"
        /\ blocked' \subseteq blocked \cup {i} /\ ended \subseteq ended'
        /\ ended' \subseteq ended \cup {i}
    BY <1>1, <1>3, <1>5, <1>6, <1>10
  <2>2. \A v \in Worker :
          \/ req'[v].pc \notin OnSession
          \/ req'[v] = req[v] /\ (i \in req[v].has => i \in raced')
    BY <1>3, <1>4, <1>9, IdleFits DEF OnSession
  <2>3. \A v \in Worker : req[v].pc = "block" => req'[v] = req[v]
    BY <1>1, <1>9
  <2>. QED
    BY <1>1, <1>3, <1>10, <2>1, <2>2, <2>3 DEF SessionSaved
<1>12. SessionPart'
  BY <1>4, <1>6, <1>11, SessionWritten
<1>13. TakesSession(w, IdleReq)
  BY <1>8 DEF Takes, Moves, TakesSession
<1>. QED
  BY <1>1, <1>12, <1>13, OnlySessions, Counters

\* The step of a request that holds a session and saves it without a change of the token.
LEMMA SessionStep ==
    ASSUME AccountsKept, NEW w \in Worker, NEW s, Go(w, s), req[w].pc \in OnSession,
           NEW i \in Session, i = req[w].id, Issued(i), NEW row \in SessionRow \cup {NoRow},
           row # NoRow => Member(row.user), session' = [session EXCEPT ![i] = row],
           \/ s = IdleReq /\ i \in ended'
           \/ s = [pc |-> "block", has |-> {i}, id |-> i] /\ (i \in raced \/ row.status # "live"),
           i \in ended' \ raced => row.status # "live",
           ended \subseteq ended', ended' \subseteq ended \cup {i},
           blocked' \subseteq blocked \cup {i},
           UNCHANGED <<rows, client, mfaToken, proof, rate, ops, deaths, raced, told>>
    PROVE  AccountsKept'
<1>1. MembersStay
  BY DEF MembersStay, Member, rows
<1>2. /\ req[w].has = {i}
      /\ \A v \in Worker \ {w} : req[v].pc \in OnSession /\ i \in req[v].has => i \in raced
  BY SessionLoaded
<1>3. req'[w] = s /\ \A v \in Worker \ {w} : req'[v] = req[v]
  BY OneMoves DEF AccountsKept
<1>4. s.pc \in {"idle", "block"} /\ s.has \subseteq {i}
  BY IdleFits
<1>5. TakesSession(w, s)
  <2>1. InviteRequest(s) /\ MemberRequest(s) /\ LimitRequest(s) /\ Follows(req[w], s)
    BY IdleFits DEF InviteRequest, MemberRequest, LimitRequest, OnInvite, OnMember, Follows,
       Admitted
  <2>2. req[w].pc # "ttl" /\ s.has \subseteq req[w].has
    BY <1>2, <1>4 DEF OnSession
  <2>. QED
    BY <1>1, <2>1, <2>2 DEF TakesSession
<1>6. SessionSaved(i, row)
  <2>1. \A v \in Worker :
           \/ req'[v].pc \notin OnSession
           \/ /\ req'[v] = [pc |-> "block", has |-> {i}, id |-> i]
              /\ i \in raced' \/ row.status # "live"
           \/ req'[v] = req[v] /\ (i \in req[v].has => i \in raced')
    BY <1>2, <1>3, IdleFits DEF OnSession
  <2>2. \A v \in Worker : req[v].pc = "block" => req'[v] = req[v] \/ req[v].id = i
    BY <1>3
  <2>3. i \notin raced' \cup ended' => \E v \in Worker : i \in req'[v].has /\ req'[v].pc = "block"
    BY <1>3
  <2>. QED
    BY <1>1, <2>1, <2>2, <2>3, ClientFacts DEF SessionSaved
<1>7. SessionPart'
  BY <1>6, SessionWritten
<1>. QED
  BY <1>5, <1>7, OnlySessions, Counters DEF OnSession

\* A logout, whose blocklist came first.
LEMMA LogoutKept ==
    ASSUME AccountsKept, NEW w \in Worker, NEW i \in Session, Logout(w, i) PROVE AccountsKept'
<1>. DEFINE s == [pc |-> "logout", has |-> {i}, id |-> i, row |-> session[i]]
<1>1. /\ client[i] # NoRow /\ blocked' = blocked \cup {i}
      /\ req[w].pc = "idle" /\ Go(w, s) /\ raced' = raced \cup Contended(s.has, w)
      /\ ops < MaxOps /\ ops' = ops + 1
      /\ UNCHANGED <<rows, session, client, mfaToken, proof, rate, deaths, told, ended>>
  BY DEF Logout, Blocklist, Start, Begin, Idle
<1>2. MembersStay
  BY <1>1 DEF MembersStay, Member, rows
<1>3. req'[w] = s /\ \A v \in Worker \ {w} : req'[v] = req[v]
  BY <1>1, OneMoves DEF AccountsKept
<1>4. InviteRequest(s) /\ MemberRequest(s) /\ LimitRequest(s) /\ SessionRequest(s)
      /\ Follows(req[w], s)
  BY <1>1, ClientFacts DEF InviteRequest, MemberRequest, LimitRequest, SessionRequest,
     OnInvite, OnMember, OnSession, Issued, Follows, Admitted
<1>. HIDE DEF s
<1>5. TakesSession(w, s)
  BY <1>1, <1>2, <1>4 DEF TakesSession
<1>6. SessionPart'
  <2>1. SessionsTyped'
    BY <1>1, <1>2 DEF AccountsKept, SessionPart, SessionsTyped, Issued, MembersStay, HeldTokens,
                      SessionRow
  <2>2. LoneClientKeepsSession'
    BY <1>1, <1>3 DEF AccountsKept, SessionPart, SessionsHold, LoneClientKeepsSession, Live
  <2>3. EndedStaysEnded'
    BY <1>1 DEF AccountsKept, SessionPart, SessionsHold, EndedStaysEnded, Live
  <2>4. ASSUME NEW v \in Worker PROVE SessionRequest(req[v])'
    <3>1. SessionRequest(req'[v])
      BY <1>3, <1>4 DEF AccountsKept, SessionPart
    <3>2. \A r \in SessionRow : Member(r.user) => Member(r.user)'
      BY <1>2 DEF MembersStay, SessionRow
    <3>. QED
      BY <1>1, <3>1, <3>2 DEF SessionRequest, OnSession, Issued, Live
  <2>. QED
    BY <2>1, <2>2, <2>3, <2>4 DEF SessionPart, SessionsHold
<1>. QED
  BY <1>1, <1>5, <1>6, OnlySessions, Counters

LEMMA RevokedRow ==
    ASSUME NEW row \in SessionRow
    PROVE  LET r == [row EXCEPT !.status = "revoked"]
           IN  r \in SessionRow /\ r.status = "revoked" /\ r.user = row.user
BY DEF SessionRow

LEMMA LogoutSaveKept == ASSUME AccountsKept, NEW w \in Worker, LogoutSave(w) PROVE AccountsKept'
<1>. DEFINE i == req[w].id
            row == IF req[w].row = NoRow THEN session[i]
                   ELSE [req[w].row EXCEPT !.status = "revoked"]
<1>1. /\ req[w].pc = "logout" /\ Go(w, IdleReq) /\ ended' = ended \cup {i}
      /\ UNCHANGED <<rows, client, blocked, mfaToken, proof, rate, ops, deaths, raced, told>>
  BY DEF LogoutSave, Done
<1>2. /\ i \in Session /\ Issued(i) /\ SessionRequest(req[w]) /\ req[w].pc \in OnSession
  BY <1>1, SessionLoaded DEF OnSession
<1>3. session' = [session EXCEPT ![i] = row]
  BY <1>2 DEF LogoutSave, AccountsKept, SessionPart, SessionsTyped
<1>4. /\ row \in SessionRow \cup {NoRow} /\ (row # NoRow => Member(row.user))
      /\ i \notin raced => row.status # "live"
  <2>1. CASE req[w].row = NoRow
    <3>1. row = session[i] /\ (i \notin raced => session[i] = NoRow)
      BY <1>1, <1>2, <2>1 DEF SessionRequest, OnSession
    <3>2. session[i] \in SessionRow \cup {NoRow} /\ (session[i] # NoRow => Member(session[i].user))
      BY <1>2, ClientFacts DEF AccountsKept, SessionPart, SessionsTyped
    <3>3. NoRow.status # "live"
      BY DEF NoRow
    <3>. QED
      BY <3>1, <3>2, <3>3
  <2>2. CASE req[w].row # NoRow
    <3>1. req[w].row \in SessionRow /\ Member(req[w].row.user)
      BY <1>1, <1>2, <2>2 DEF SessionRequest, OnSession
    <3>. QED
      BY <2>2, <3>1, RevokedRow
  <2>. QED
    BY <2>1, <2>2
<1>. HIDE DEF row
<1>. QED
  BY <1>1, <1>2, <1>3, <1>4, SessionStep

LEMMA RevokeKept ==
    ASSUME AccountsKept, NEW w \in Worker, RevokeSave(w) \/ RevokeBlock(w) PROVE AccountsKept'
<1>. DEFINE i == req[w].id
<1>1. /\ UNCHANGED <<rows, client, mfaToken, proof, rate, ops, deaths, raced, told>>
      /\ req[w].pc \in OnSession
  BY DEF RevokeSave, RevokeBlock, OnSession
<1>2. i \in Session /\ Issued(i) /\ SessionRequest(req[w])
  BY <1>1, SessionLoaded
<1>3. CASE RevokeSave(w)
  <2>. DEFINE row == [req[w].row EXCEPT !.status = "revoked"]
              s == [pc |-> "block", has |-> {i}, id |-> i]
  <2>1. /\ req[w].pc = "revoke" /\ session' = [session EXCEPT ![i] = row] /\ Go(w, s)
        /\ UNCHANGED <<blocked, ended>>
    BY <1>3 DEF RevokeSave
  <2>2. req[w].row \in SessionRow /\ Member(req[w].row.user)
    BY <1>2, <2>1 DEF SessionRequest, OnSession, SessionRow, NoRow
  <2>3. row \in SessionRow /\ row.status = "revoked" /\ Member(row.user)
    BY <2>2, RevokedRow
  <2>. HIDE DEF row
  <2>. QED
    BY <1>1, <1>2, <2>1, <2>3, SessionStep
<1>4. CASE RevokeBlock(w)
  <2>1. /\ req[w].pc = "block" /\ Go(w, IdleReq) /\ UNCHANGED session
        /\ blocked' = blocked \cup {i} /\ ended' = ended \cup {i}
    BY <1>4 DEF RevokeBlock, Blocklist, Done
  <2>2. session' = [session EXCEPT ![i] = session[i]]
    BY <2>1 DEF AccountsKept, SessionPart, SessionsTyped
  <2>3. session[i] \in SessionRow \cup {NoRow} /\ (session[i] # NoRow => Member(session[i].user))
    BY <1>2, ClientFacts DEF AccountsKept, SessionPart, SessionsTyped
  <2>4. i \notin raced => session[i].status # "live"
    BY <1>2, <2>1 DEF SessionRequest, OnSession, Live
  <2>. HIDE DEF i
  <2>5. i = req[w].id
    BY DEF i
  <2>. QED
    BY <1>1, <1>2, <2>1, <2>2, <2>3, <2>4, <2>5, SessionStep
<1>. QED
  BY <1>3, <1>4

\* The sessions of a member end all at once, with the requests that hold one on record.
LEMMA EndSessionsKept ==
    ASSUME AccountsKept, NEW w \in Worker, EndSessions(w) PROVE AccountsKept'
<1>. DEFINE gone == {s \in Session : session[s] # NoRow /\ session[s].user = req[w].email}
<1>1. /\ req[w].pc = "sessions" /\ Done(w)
      /\ session' = [s \in Session |-> IF s \in gone THEN NoRow ELSE session[s]]
      /\ raced' = raced \cup Contended(gone, w) /\ ended' = ended \cup gone
      /\ UNCHANGED <<rows, client, blocked, mfaToken, proof, rate, ops, deaths, told>>
  BY DEF EndSessions
<1>2. MembersStay
  BY <1>1 DEF MembersStay, Member, rows
<1>3. Takes(w, IdleReq)
  BY <1>1, <1>2, Ends
<1>4. req'[w] = IdleReq /\ \A v \in Worker \ {w} : req'[v] = req[v]
  BY <1>1, OneMoves DEF AccountsKept, Done
<1>5. gone \subseteq {s \in Session : Issued(s)}
  BY ClientFacts
<1>. HIDE DEF gone
<1>6. /\ \A s \in gone : session'[s] = NoRow
      /\ \A s \in Session \ gone : session'[s] = session[s]
      /\ session' \in [Session -> SessionRow \cup {NoRow}]
      /\ ~(NoRow.status = "live")
  BY <1>1, <1>5 DEF AccountsKept, SessionPart, SessionsTyped, NoRow
<1>7. SessionsTyped'
  <2>1. ASSUME NEW s \in Session
        PROVE  /\ Issued(s)' => Member(client[s].user)'
               /\ session'[s] # NoRow => Issued(s)' /\ Member(session[s].user)'
    BY <1>1, <1>2, <1>6 DEF AccountsKept, SessionPart, SessionsTyped, Issued, MembersStay,
                            HeldTokens, SessionRow
  <2>2. (blocked \cup ended)' \subseteq {s \in Session : Issued(s)'}
    BY <1>1, <1>5, ClientFacts DEF Issued
  <2>. QED
    BY <1>1, <1>6, <2>1, <2>2, ClientFacts DEF SessionsTyped
<1>8. LoneClientKeepsSession'
  BY <1>1, <1>4, <1>6 DEF AccountsKept, SessionPart, SessionsHold, LoneClientKeepsSession, Live
<1>9. EndedStaysEnded'
  BY <1>1, <1>5, <1>6 DEF AccountsKept, SessionPart, SessionsHold, EndedStaysEnded, Live,
                          SessionsTyped
<1>10. ASSUME NEW v \in Worker PROVE SessionRequest(req[v])'
  <2>1. CASE v = w
    BY <1>4, <2>1, IdleFits DEF SessionRequest, OnSession
  <2>2. CASE v # w /\ req[v].pc \in OnSession
    <3>1. SessionRequest(req[v]) /\ req'[v] = req[v]
      BY <1>4, <2>2 DEF AccountsKept, SessionPart
    <3>2. req[v].id \in Session /\ req[v].has = {req[v].id} /\ (Issued(req[v].id))'
      BY <1>1, <2>2, <3>1 DEF SessionRequest, Issued
    <3>3. req[v].id \notin raced' => req[v].id \notin gone
      BY <1>1, <2>2, <3>2 DEF Contended
    <3>4. \A r \in SessionRow : Member(r.user) => (Member(r.user))'
      BY <1>2 DEF MembersStay, SessionRow
    <3>. QED
      BY <1>1, <1>6, <2>2, <3>1, <3>2, <3>3, <3>4 DEF SessionRequest, OnSession, Live
  <2>3. CASE v # w /\ req[v].pc \notin OnSession
    BY <1>4, <2>3 DEF SessionRequest
  <2>. QED
    BY <2>1, <2>2, <2>3
<1>11. SessionPart'
  BY <1>7, <1>8, <1>9, <1>10 DEF SessionPart, SessionsHold
<1>12. TakesSession(w, IdleReq)
  BY <1>3 DEF Takes, Moves, TakesSession
<1>. QED
  BY <1>1, <1>11, <1>12, OnlySessions, Counters

-----------------------------------------------------------------------------
(* The beginning, and every step *)

LEMMA AtMostOne ==
    ASSUME NEW S, IsFiniteSet(S), Cardinality(S) <= 1
    PROVE  \/ S = {} /\ SetToSeq(S) = << >>
           \/ \E x : S = {x} /\ SetToSeq(S) = <<x>>
<1>1. S = {} \/ \E x : S = {x}
  <2>1. Cardinality(S) \in Nat
    BY FS_CardinalityType
  <2>2. Cardinality(S) = 0 => S = {}
    BY FS_EmptySet
  <2>3. Cardinality(S) = 1 => \E x : S = {x}
    BY FS_Singleton
  <2>. QED
    BY <2>1, <2>2, <2>3
<1>2. CASE S = {}
  <2>1. Cardinality(S) = 0
    BY <1>2, FS_EmptySet
  <2>2. << >> \in [1..0 -> {}] /\ IsInjective(<< >>)
    BY DEF IsInjective
  <2>3. SetToSeq(S) \in [1..0 -> {}]
    BY <1>2, <2>1, <2>2 DEF SetToSeq
  <2>. QED
    BY <1>2, <2>3
<1>3. ASSUME NEW x, S = {x} PROVE S = {x} /\ SetToSeq(S) = <<x>>
  <2>1. Cardinality(S) = 1
    BY <1>3, FS_Singleton
  <2>2. <<x>> \in [1..1 -> {x}] /\ IsInjective(<<x>>)
    BY DEF IsInjective
  <2>3. SetToSeq(S) \in [1..1 -> {x}]
    BY <1>3, <2>1, <2>2 DEF SetToSeq
  <2>. QED
    BY <1>3, <2>3
<1>. QED
  BY <1>1, <1>2, <1>3

\* The first row of the team, and one more at most.
Rows(t, joined) ==
    /\ t \in Seq(Email) /\ Len(t) > 0 /\ t[1] = Owner
    /\ \A m, n \in 1..Len(t) : t[m] = t[n] => m = n
    /\ \A e \in Email : (e = Owner \/ e \in joined) <=> \E n \in 1..Len(t) : t[n] = e

LEMMA FirstOnTeam ==
    ASSUME NEW joined, IsFiniteSet(joined), Cardinality(joined) <= 1, joined \subseteq Email,
           Owner \notin joined
    PROVE  Rows(<<Owner>> \o SetToSeq(joined), joined)
<1>1. Owner \in Email /\ <<Owner>> \in Seq(Email)
  BY AccountFacts
<1>2. CASE joined = {} /\ SetToSeq(joined) = << >>
  <2>1. <<Owner>> \o << >> = <<Owner>>
    OBVIOUS
  <2>2. Rows(<<Owner>>, {})
    BY <1>1 DEF Rows
  <2>. QED
    BY <1>2, <2>1, <2>2
<1>3. ASSUME NEW x, joined = {x}, SetToSeq(joined) = <<x>>
      PROVE  Rows(<<Owner>> \o SetToSeq(joined), joined)
  <2>. DEFINE t == <<Owner>> \o <<x>>
  <2>1. x \in Email /\ x # Owner
    BY <1>3
  <2>2. <<x>> \in Seq(Email) /\ Len(<<x>>) = 1 /\ <<x>>[1] = x
    BY <2>1
  <2>3. t \in Seq(Email) /\ Len(t) = 2
    BY <1>1, <2>2
  <2>4. t[1] = Owner /\ t[2] = x
    BY <1>1, <2>2
  <2>. HIDE DEF t
  <2>5. Rows(t, {x})
    BY <2>1, <2>3, <2>4 DEF Rows
  <2>. QED
    BY <1>3, <2>5, Zenon DEF t
<1>. QED
  BY <1>2, <1>3, AtMostOne

LEMMA RowsOfMembers ==
    ASSUME NEW joined, Rows(team, joined), user \in [Email -> UserRow \cup {NoRow}],
           \A e \in Email : Member(e) <=> (e = Owner \/ e \in joined),
           \A e \in Email : Member(e) => user[e] # NoRow,
           told.user = user, plan = "pro"
    PROVE  MembersTyped
BY DEF MembersTyped, Rows

\* The members at the beginning.
LEMMA FirstMembers ==
    ASSUME NEW verified \in BOOLEAN, NEW joined \in SUBSET Invitee, Cardinality(joined) <= 1,
           user = [e \in Email |-> IF e = Owner
                                   THEN [RegisteredOwner EXCEPT !.verified = verified]
                                   ELSE IF e \in joined THEN NewMember("engineer") ELSE NoRow],
           team = <<Owner>> \o SetToSeq(joined), plan = "pro", told.user = user,
           req = [w \in Worker |-> IdleReq]
    PROVE  /\ MemberPart /\ Member(Owner) /\ \A e \in joined : Member(e)
<1>1. /\ [RegisteredOwner EXCEPT !.verified = verified] \in UserRow
      /\ [RegisteredOwner EXCEPT !.verified = verified].status = "member"
      /\ [RegisteredOwner EXCEPT !.verified = verified].role = "owner"
      /\ [RegisteredOwner EXCEPT !.verified = verified].active = TRUE
  BY DEF RegisteredOwner, NewMember, UserRow, Role
<1>2. NewMember("engineer") \in UserRow /\ NewMember("engineer").status = "member"
  BY DEF NewMember, UserRow, Role
<1>3. NoRow.status # "member"
  BY DEF NoRow
<1>4. \A row \in UserRow : row # NoRow
  BY MemberRow
<1>. DEFINE owner == [RegisteredOwner EXCEPT !.verified = verified]
            engineer == NewMember("engineer")
<1>5. /\ user = [e \in Email |-> IF e = Owner THEN owner
                                 ELSE IF e \in joined THEN engineer ELSE NoRow]
      /\ owner \in UserRow /\ owner.status = "member" /\ owner.role = "owner" /\ owner.active
      /\ engineer \in UserRow /\ engineer.status = "member"
  BY <1>1, <1>2
<1>. HIDE DEF owner, engineer
<1>6. /\ user \in [Email -> UserRow \cup {NoRow}] /\ user[Owner] = owner
      /\ \A e \in Email : Member(e) <=> e = Owner \/ e \in joined
      /\ \A e \in Email : Member(e) => user[e] # NoRow
  <2>1. Owner \in Email
    BY AccountFacts
  <2>2. user \in [Email -> UserRow \cup {NoRow}] /\ user[Owner] = owner
    BY <1>5, <2>1
  <2>3. \A e \in Email : (e = Owner \/ e \in joined) => user[e] \in {owner, engineer}
    BY <1>5
  <2>4. \A e \in Email : ~(e = Owner \/ e \in joined) => user[e] = NoRow
    BY <1>5
  <2>. QED
    BY <1>3, <1>4, <1>5, <2>2, <2>3, <2>4 DEF Member
<1>7. MembersTyped
  <2>1. IsFiniteSet(joined) /\ joined \subseteq Email /\ Owner \notin joined
    BY AccountFacts, AccountsAssumption, FS_Subset
  <2>2. Rows(team, joined)
    BY <2>1, FirstOnTeam, Zenon
  <2>3. \A e \in Email : Member(e) <=> (e = Owner \/ e \in joined)
    BY <1>6
  <2>. QED
    BY <1>6, <2>2, <2>3, RowsOfMembers
<1>8. OwnerRemains /\ UserAnswerHolds
  BY <1>5, <1>6 DEF OwnerRemains, UserAnswerHolds
<1>9. \A w \in Worker : MemberRequest(req[w])
  BY IdleFits
<1>. QED
  BY <1>6, <1>7, <1>8, <1>9, AccountFacts DEF MemberPart

\* The invitation of the one who joined.
LEMMA FirstInvitations ==
    ASSUME NEW used, NEW x, used # {} => x \in Invitee /\ Member(x), \A i, j \in used : i = j,
           inv = [i \in Invite |-> IF i \in used
                                   THEN [email |-> x, role |-> "engineer", by |-> x,
                                         status |-> "accepted", fresh |-> TRUE]
                                   ELSE NoRow],
           told.inv = [i \in Invite |-> IF inv[i] = NoRow THEN "none" ELSE inv[i].status],
           mail = {}, req = [w \in Worker |-> IdleReq]
    PROVE  InvitationPart
<1>. DEFINE row == [email |-> x, role |-> "engineer", by |-> x, status |-> "accepted",
                    fresh |-> TRUE]
<1>1. used # {} => row \in InvitationRow /\ Made(row)
  BY DEF InvitationRow, Role, Made
<1>2. row.status = "accepted" /\ row # NoRow
  BY DEF NoRow
<1>. HIDE DEF row
<1>3. inv = [i \in Invite |-> IF i \in used THEN row ELSE NoRow]
  BY DEF row
<1>4. /\ inv \in [Invite -> InvitationRow \cup {NoRow}]
      /\ \A i \in Invite : inv[i] # NoRow => i \in used /\ inv[i] = row /\ Made(inv[i])
  BY <1>1, <1>3
<1>5. /\ \A i \in Invite : told.inv[i] = IF inv[i] = NoRow THEN "none" ELSE "accepted"
      /\ told.inv = [i \in Invite |-> told.inv[i]]
  BY <1>2, <1>4
<1>6. InvitationsTyped
  <2>1. told.inv \in [Invite -> {"none", "pending", "accepted", "expired", "cancelled"}]
    BY <1>5
  <2>2. \A m \in mail : m.id \in Invite /\ inv[m.id] # NoRow
    OBVIOUS
  <2>3. \A i, j \in Invite : inv[i] # NoRow /\ inv[j] # NoRow => i = j
    BY <1>4
  <2>4. \A i \in Invite : inv[i] # NoRow => Made(inv[i])
    BY <1>4
  <2>5. inv \in [Invite -> InvitationRow \cup {NoRow}]
    BY <1>4
  <2>. QED
    BY <2>1, <2>2, <2>3, <2>4, <2>5, Zenon DEF InvitationsTyped
<1>7. InvitationAnswerHolds
  BY <1>2, <1>4, <1>5 DEF InvitationAnswerHolds
<1>. QED
  BY <1>6, <1>7, IdleFits DEF InvitationPart

\* The session of the owner, if the address is verified.
LEMMA FirstSessions ==
    ASSUME NEW open, Member(Owner), blocked = {}, ended = {}, req = [w \in Worker |-> IdleReq],
           session = [s \in Session |-> IF s \in open
                                        THEN [status |-> "live", user |-> Owner, jti |-> 1]
                                        ELSE NoRow],
           client = [s \in Session |-> IF s \in open
                                       THEN [status |-> "holds", user |-> Owner,
                                             role |-> "owner", jti |-> 1]
                                       ELSE NoRow]
    PROVE  SessionPart
<1>. DEFINE row == [status |-> "live", user |-> Owner, jti |-> 1]
            token == [status |-> "holds", user |-> Owner, role |-> "owner", jti |-> 1]
<1>1. /\ row \in SessionRow /\ token \in HeldTokens /\ row # NoRow /\ token # NoRow
      /\ row.status = "live" /\ row.jti = token.jti /\ row.user = Owner /\ token.user = Owner
  BY AccountFacts DEF SessionRow, HeldTokens, NoRow, Role
<1>. HIDE DEF row, token
<1>2. /\ session = [s \in Session |-> IF s \in open THEN row ELSE NoRow]
      /\ client = [s \in Session |-> IF s \in open THEN token ELSE NoRow]
  BY DEF row, token
<1>3. \A s \in Session : \/ session[s] = row /\ client[s] = token
                         \/ session[s] = NoRow /\ client[s] = NoRow
  BY <1>2
<1>4. SessionsTyped
  <2>1. /\ session \in [Session -> SessionRow \cup {NoRow}]
        /\ client \in [Session -> HeldTokens \cup {NoRow}]
    BY <1>1, <1>2
  <2>. QED
    BY <1>1, <1>3, <2>1 DEF SessionsTyped, Issued
<1>5. SessionsHold
  BY <1>1, <1>3 DEF SessionsHold, LoneClientKeepsSession, EndedStaysEnded, Live
<1>. QED
  BY <1>4, <1>5, IdleFits DEF SessionPart

LEMMA AccountsBegin == AccountsInit => AccountsKept
<1>. SUFFICES ASSUME AccountsInit PROVE AccountsKept
  OBVIOUS
<1>. DEFINE first(S) == CHOOSE x \in S : TRUE
<1>1. PICK verified \in BOOLEAN, joined \in SUBSET Invitee :
        LET used == IF joined = {} THEN {} ELSE {first(Invite)}
            open == IF verified THEN {first(Session)} ELSE {}
        IN  /\ Cardinality(joined) <= 1
            /\ user = [e \in Email |-> IF e = Owner
                                       THEN [RegisteredOwner EXCEPT !.verified = verified]
                                       ELSE IF e \in joined THEN NewMember("engineer")
                                       ELSE NoRow]
            /\ team = <<Owner>> \o SetToSeq(joined)
            /\ inv = [i \in Invite |-> IF i \in used
                                       THEN [email |-> first(joined), role |-> "engineer",
                                             by |-> first(joined), status |-> "accepted",
                                             fresh |-> TRUE]
                                       ELSE NoRow]
            /\ session = [s \in Session |-> IF s \in open
                                            THEN [status |-> "live", user |-> Owner, jti |-> 1]
                                            ELSE NoRow]
            /\ client = [s \in Session |-> IF s \in open
                                           THEN [status |-> "holds", user |-> Owner,
                                                 role |-> "owner", jti |-> 1]
                                           ELSE NoRow]
            /\ verification =
                  [FirstVerification EXCEPT !.status = IF verified THEN "verified" ELSE @]
            /\ device = IF verified /\ joined = {} THEN [id |-> 1, status |-> "confirmed"]
                        ELSE [id |-> 0, status |-> "none"]
  BY ZenonT(30) DEF AccountsInit
<1>2. /\ plan = "pro" /\ mail = {} /\ blocked = {} /\ ended = {} /\ raced = {}
      /\ reset = [id |-> 0, status |-> "used"]
      /\ attempts = 0 /\ failedLogins = 0 /\ ops = 0 /\ deaths = 0
      /\ req = [w \in Worker |-> IdleReq]
      /\ told = [user |-> user,
                 inv |-> [i \in Invite |-> IF inv[i] = NoRow THEN "none" ELSE inv[i].status],
                 device |-> device.status]
  BY DEF AccountsInit
<1>3. /\ told.user = user /\ told.device = device.status
      /\ told.inv = [i \in Invite |-> IF inv[i] = NoRow THEN "none" ELSE inv[i].status]
      /\ Records
  BY <1>2 DEF Records
<1>4. HeldAlone
  BY <1>2, IdleFits DEF HeldAlone
<1>5. MemberPart /\ Member(Owner) /\ \A e \in joined : Member(e)
  BY <1>1, <1>2, <1>3, FirstMembers
<1>6. InvitationPart
  <2>. DEFINE used == IF joined = {} THEN {} ELSE {first(Invite)}
              x == first(joined)
  <2>1. (used # {} => x \in Invitee /\ Member(x)) /\ \A i, j \in used : i = j
    BY <1>5
  <2>2. inv = [i \in Invite |-> IF i \in used
                                THEN [email |-> x, role |-> "engineer", by |-> x,
                                      status |-> "accepted", fresh |-> TRUE]
                                ELSE NoRow]
    BY <1>1
  <2>. HIDE DEF used, x
  <2>. QED
    BY <1>2, <1>3, <2>1, <2>2, FirstInvitations
<1>7. SessionPart
  <2>. DEFINE open == IF verified THEN {first(Session)} ELSE {}
  <2>1. /\ session = [s \in Session |-> IF s \in open
                                        THEN [status |-> "live", user |-> Owner, jti |-> 1]
                                        ELSE NoRow]
        /\ client = [s \in Session |-> IF s \in open
                                       THEN [status |-> "holds", user |-> Owner,
                                             role |-> "owner", jti |-> 1]
                                       ELSE NoRow]
    BY <1>1
  <2>. HIDE DEF open
  <2>. QED
    BY <1>2, <1>5, <2>1, FirstSessions
<1>8. LimitPart
  <2>1. verification \in VerificationRow
    BY <1>1 DEF FirstVerification, VerificationRow
  <2>2. reset \in ResetRow
    BY <1>2 DEF ResetRow
  <2>3. device \in DeviceRow
    BY <1>1 DEF DeviceRow
  <2>4. SecondFactors = {} /\ Admissions = {}
    BY <1>2, IdleFits DEF SecondFactors, Admissions, Admitted
  <2>5. CodesBounded /\ LoginsBounded
    <3>1. Cardinality({}) = 0 /\ Room \in Nat
      BY WorkersCounted, FS_EmptySet
    <3>. QED
      BY <1>2, <2>4, <3>1 DEF CodesBounded, LoginsBounded
  <2>6. \A w \in Worker : LimitRequest(req[w]) /\ req[w].pc = "idle"
    BY <1>2, IdleFits
  <2>7. DeviceAnswerHolds /\ DisablesAlone /\ CounterHasTtl
    BY <1>2, <1>3, <2>6 DEF DeviceAnswerHolds, DisablesAlone, CounterHasTtl
  <2>. QED
    BY <1>2, <2>1, <2>2, <2>3, <2>5, <2>6, <2>7, AccountFacts DEF LimitPart
<1>. QED
  BY <1>3, <1>4, <1>5, <1>6, <1>7, <1>8 DEF AccountsKept

LEMMA InvitationViews ==
    ASSUME AccountsKept, NEW w \in Worker,
           \/ InviteEngineerView(w) \/ JoinWithEmailPasswordView(w) \/ CancelInvitationView(w)
           \/ ResendInvitationView(w) \/ OAuthCallbackViews(w) \/ Tasks(w)
    PROVE  AccountsKept'
<1>1. CASE InviteEngineerView(w)
  BY <1>1, InvitationLoads, CreateKept DEF InviteEngineerView
<1>2. CASE JoinWithEmailPasswordView(w)
  BY <1>2, InvitationLoads, JoinKept DEF JoinWithEmailPasswordView
<1>3. CASE CancelInvitationView(w)
  BY <1>3, InvitationLoads, WritesKept DEF CancelInvitationView
<1>4. CASE ResendInvitationView(w)
  BY <1>4, InvitationLoads, WritesKept DEF ResendInvitationView
<1>5. CASE OAuthCallbackViews(w)
  <2>1. ASSUME NEW e \in Email, OwnerOAuthLogin(w, e) \/ EngineerOAuthLogin(w, e)
        PROVE  AccountsKept'
    <3>1. Member(e) /\ LinkAccount(w, e)
      BY <2>1 DEF OwnerOAuthLogin, EngineerOAuthLogin
    <3>. QED
      BY <3>1, LinkAccountKept
  <2>. QED
    BY <1>5, <2>1, InvitationLoads, OAuthJoinKept DEF OAuthCallbackViews
<1>6. CASE Tasks(w)
  BY <1>6, BeginMailKept, WritesKept DEF Tasks
<1>. QED
  BY <1>1, <1>2, <1>3, <1>4, <1>5, <1>6

LEMMA MemberViews ==
    ASSUME AccountsKept, NEW w \in Worker,
           \/ UpdateTeamMemberRoleView(w) \/ ProfilePictureViews(w) \/ VerifyEmailView(w)
           \/ PasswordViews(w) \/ ResendVerificationEmailView(w)
    PROVE  AccountsKept'
<1>1. CASE UpdateTeamMemberRoleView(w)
  BY <1>1, MemberLoads, SaveRoleKept DEF UpdateTeamMemberRoleView
<1>2. CASE ProfilePictureViews(w)
  BY <1>2, MemberLoads, SaveProfileKept DEF ProfilePictureViews
<1>3. CASE VerifyEmailView(w)
  BY <1>3, MemberLoads, VerifySaveKept, VerifyUserKept DEF VerifyEmailView
<1>4. CASE PasswordViews(w)
  <2>1. ForgotPassword => AccountsKept'
    BY ForgotPasswordKept
  <2>2. (\E e \in Email : ChangePassword(w, e)) \/ ResetPassword(w) => AccountsKept'
    BY MemberLoads
  <2>3. SavePassword(w) \/ UseReset(w) \/ EndSessions(w) => AccountsKept'
    BY SavePasswordKept, UseResetKept, EndSessionsKept
  <2>. QED
    BY <1>4, <2>1, <2>2, <2>3 DEF PasswordViews
<1>5. CASE ResendVerificationEmailView(w)
  BY <1>5, ReissueKept DEF ResendVerificationEmailView
<1>. QED
  BY <1>1, <1>2, <1>3, <1>4, <1>5

LEMMA SessionViews ==
    ASSUME AccountsKept, NEW w \in Worker,
           \/ LoginView(w) \/ ConfirmMFAView(w) \/ VerifyMFATokenView(w) \/ TokenRefreshView(w)
           \/ LogoutView(w) \/ RevokeSessionView(w) \/ SetupMFAView(w) \/ DisableMFAView(w)
    PROVE  AccountsKept'
<1>1. CASE LoginView(w)
  <2>1. LoginAdmit(w) \/ (\E e \in Email : LoginCheck(w, e)) => AccountsKept'
    BY LoginAdmitKept, LoginCheckKept
  <2>2. FailLogin(w) \/ UnverifiedLogin(w) => AccountsKept'
    BY FailLoginKept, ReissueKept
  <2>3. SetTtl(w) \/ SignIn(w) => AccountsKept'
    BY SetTtlKept, SignInKept
  <2>. QED
    BY <1>1, <2>1, <2>2, <2>3 DEF LoginView
<1>2. CASE ConfirmMFAView(w)
  BY <1>2, SessionLoads, ConfirmSaveKept DEF ConfirmMFAView
<1>3. CASE VerifyMFATokenView(w)
  BY <1>3, MfaReadKept, MfaFinishKept DEF VerifyMFATokenView
<1>4. CASE TokenRefreshView(w)
  <2>1. \A s \in Session : RefreshLoad(w, s) => AccountsKept'
    BY SessionLoads
  <2>2. \A s \in Session : ReuseDetected(s) => AccountsKept'
    BY ReuseDetectedKept
  <2>. QED
    BY <1>4, <2>1, <2>2, RefreshSaveKept DEF TokenRefreshView
<1>5. CASE LogoutView(w)
  BY <1>5, LogoutKept, LogoutSaveKept DEF LogoutView
<1>6. CASE RevokeSessionView(w)
  BY <1>6, SessionLoads, RevokeKept DEF RevokeSessionView
<1>7. CASE SetupMFAView(w)
  BY <1>7, SetupKept DEF SetupMFAView
<1>8. CASE DisableMFAView(w)
  BY <1>8, DisableReadKept, DisableKept DEF DisableMFAView
<1>. QED
  BY <1>1, <1>2, <1>3, <1>4, <1>5, <1>6, <1>7, <1>8

LEMMA AccountsUnchanged ==
    ASSUME AccountsKept, UNCHANGED accountVars
    PROVE  AccountsKept'
<1>1. /\ UNCHANGED <<user, team, plan, inv, mail, session, client, blocked, mfaToken,
                     verification, reset, device>>
      /\ UNCHANGED <<failedLogins, failedLoginsTtl, attempts, req, ops, deaths, raced, told,
                     ended>>
  BY DEF accountVars, rows, login, proof, rate
<1>2. \A e : Member(e)' = Member(e)
  BY <1>1 DEF Member
<1>3. \A row : Made(row)' = Made(row)
  BY <1>1, <1>2 DEF Made
<1>4. InvitationPart'
  BY <1>1, <1>3 DEF AccountsKept, InvitationPart, InvitationsTyped, InvitationAnswerHolds,
     InviteRequest
<1>5. MemberPart'
  <2>1. MembersTyped' /\ OwnerRemains' /\ UserAnswerHolds'
    BY <1>1, <1>2 DEF AccountsKept, MemberPart, MembersTyped, OwnerRemains, UserAnswerHolds
  <2>2. \A w \in Worker : MemberRequest(req[w])'
    BY <1>1, <1>2 DEF AccountsKept, MemberPart, MemberRequest
  <2>. QED
    BY <2>1, <2>2 DEF MemberPart
<1>6. SessionPart'
  BY <1>1, <1>2 DEF AccountsKept, SessionPart, SessionsTyped, SessionsHold, SessionRequest,
     LoneClientKeepsSession, EndedStaysEnded, Live, Issued
<1>7. LimitPart'
  <2>1. CodesBounded' /\ LoginsBounded' /\ DeviceAnswerHolds' /\ DisablesAlone'
    BY <1>1, CodesStand, LoginsStand, DeviceStands
  <2>2. CounterHasTtl'
    BY <1>1 DEF AccountsKept, LimitPart, CounterHasTtl
  <2>. QED
    BY <1>1, <2>1, <2>2, ProofFacts, LimitsMet, Counters
<1>8. Records' /\ HeldAlone'
  BY <1>1 DEF AccountsKept, Records, HeldAlone
<1>. QED
  BY <1>4, <1>5, <1>6, <1>7, <1>8 DEF AccountsKept

LEMMA AccountsStep == AccountsKept /\ [AccountsNext]_accountVars => AccountsKept'
<1>. SUFFICES ASSUME AccountsKept, [AccountsNext]_accountVars PROVE AccountsKept'
  OBVIOUS
<1>1. ASSUME NEW w \in Worker,
             \/ InviteEngineerView(w) \/ JoinWithEmailPasswordView(w) \/ CancelInvitationView(w)
             \/ ResendInvitationView(w) \/ OAuthCallbackViews(w) \/ Tasks(w)
      PROVE  AccountsKept'
  BY <1>1, InvitationViews
<1>2. ASSUME NEW w \in Worker,
             \/ UpdateTeamMemberRoleView(w) \/ ProfilePictureViews(w) \/ VerifyEmailView(w)
             \/ PasswordViews(w) \/ ResendVerificationEmailView(w)
      PROVE  AccountsKept'
  BY <1>2, MemberViews
<1>3. ASSUME NEW w \in Worker,
             \/ LoginView(w) \/ ConfirmMFAView(w) \/ VerifyMFATokenView(w)
             \/ TokenRefreshView(w) \/ LogoutView(w) \/ RevokeSessionView(w)
             \/ SetupMFAView(w) \/ DisableMFAView(w)
      PROVE  AccountsKept'
  BY <1>3, SessionViews
<1>4. ASSUME NEW w \in Worker, Crash(w) PROVE AccountsKept'
  BY <1>4, CrashKept
<1>6. CASE Downgrade \/ Upgrade \/ CleanUp
  BY <1>6, DowngradeKept, UpgradeKept, CleanUpKept
<1>7. ASSUME NEW i \in Invite, Lapse(i) PROVE AccountsKept'
  BY <1>7, LapseKept
<1>8. CASE ExpireFailures \/ MfaLapse
  BY <1>8, ExpireFailuresKept, MfaLapseKept
<1>9. CASE UNCHANGED accountVars
  BY <1>9, AccountsUnchanged
<1>. QED
  BY <1>1, <1>2, <1>3, <1>4, <1>6, <1>7, <1>8, <1>9 DEF AccountsNext

-----------------------------------------------------------------------------
(* What holds of the accounts, whatever overlaps, is lost or dies *)

LEMMA AccountsAlways == AccountsSpec => []AccountsKept
BY AccountsBegin, AccountsStep, PTL DEF AccountsSpec

LEMMA TeamFits == AccountsKept => TeamConsistent
<1>. SUFFICES ASSUME AccountsKept PROVE TeamConsistent
  OBVIOUS
<1>1. MembersTyped /\ InvitationsTyped /\ SessionsTyped /\ OwnerRemains /\ LimitPart
  BY DEF AccountsKept, MemberPart, InvitationPart, SessionPart
<1>2. \A e \in Email : Member(e) <=> e \in Range(team)
  BY <1>1 DEF MembersTyped, Range
<1>3. /\ \A s \in Session : session[s] # NoRow => client[s] # NoRow /\ Member(session[s].user)
      /\ blocked \subseteq {s \in Session : client[s] # NoRow}
  BY <1>1 DEF SessionsTyped, Issued
<1>4. /\ attempts \in 0..MaxFailures - 1 + Cardinality(Worker)
      /\ failedLogins \in 0..MaxFailures - 1 + Cardinality(Worker)
  <2>1. Admissions \subseteq Worker /\ SecondFactors \subseteq Worker
    BY DEF Admissions, SecondFactors
  <2>2. /\ Cardinality(SecondFactors) \in Nat /\ Cardinality(Admissions) \in Nat /\ Room \in Nat
    BY <2>1, WorkersCounted
  <2>3. CodesBounded /\ LoginsBounded
    BY <1>1 DEF LimitPart
  <2>. QED
    BY <2>2, <2>3 DEF CodesBounded, LoginsBounded, Room
<1>5. AcceptedHasMember
  BY <1>1 DEF InvitationsTyped, Made, AcceptedHasMember
<1>6. AccountsTypeOK
  BY <1>1, <1>2, <1>3, <1>4 DEF AccountsTypeOK, MembersTyped, InvitationsTyped, SessionsTyped,
     LimitPart
<1>. QED
  BY <1>1, <1>5, <1>6 DEF TeamConsistent

\* Whoever registers, joins, is promoted, downgraded, reset or logged in by requests that
\* overlap in any way, fail or die: every row is a row of its table, the team is the members,
\* an accepted invitation has its member, and the owner remains an active owner; the failed
\* logins and codes pass their limit by less than the number of workers, since the limit is
\* asked before the failure is counted (apps/users/views.py, apps/users/cache.py, the
\* downgrade of apps/billing/views/webhooks.py).
THEOREM TeamStaysConsistent == AccountsSpec => []TeamConsistent
BY AccountsAlways, TeamFits, PTL

\* The status of an invitation, the columns of a member and the state of the second factor
\* are what their last answered request said, unless two requests held that very row or two
\* requests disabled the second factor at once (InvitationService, UpdateTeamMemberRoleView,
\* ProfileService, PasswordService, MFAService).
THEOREM AnswersStayTrue == AccountsSpec => []AnswersHold
<1>1. AccountsKept => AnswersHold
  BY DEF AccountsKept, InvitationPart, MemberPart, LimitPart, AnswersHold
<1>. QED
  BY <1>1, AccountsAlways, PTL

\* A session lives until its end was answered, and not a refresh longer: the rotation keeps
\* the one client that refreshes it, and what logout, revocation or a new password ended is
\* not live again, unless requests overlapped on its row (AuthService.refresh_token,
\* SessionService).
THEOREM SessionsKeepTheirLife == AccountsSpec => []SessionsHold
<1>1. AccountsKept => SessionsHold
  BY DEF AccountsKept, SessionPart
<1>. QED
  BY <1>1, AccountsAlways, PTL

\* A count of failed logins has a lifetime, or the request that set its first one is about to
\* give it one, unless that request died (increment_login_failure).
THEOREM FailuresGoAway == AccountsSpec => []CounterHasTtl
<1>1. AccountsKept => CounterHasTtl
  BY DEF AccountsKept, LimitPart
<1>. QED
  BY <1>1, AccountsAlways, PTL
=============================================================================
