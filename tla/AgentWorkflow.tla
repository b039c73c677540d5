---------------------------- MODULE AgentWorkflow ----------------------------
(***************************************************************************)
(* The LangGraph workflow of fastapi/app/agents/workflow.py and its nodes, *)
(* as run_agent invokes it for one parsed log event, up to the row that    *)
(* persist_new_incident writes.  Each node is an action; between two nodes *)
(* the tenant's alert rules and playbook can change in DB-2.               *)
(*                                                                         *)
(* Scores are integers: retrieval, coherence, coverage and thresholds in   *)
(* hundredths, the models' own confidences in tenths, the composite score  *)
(* in ten-thousandths, so that no rounding of the code is lost.            *)
(***************************************************************************)
EXTENDS Integers, Sequences, FiniteSets, FiniteSetsExt

CONSTANTS
    Category,       \* error categories that events have in this instance
    Level,          \* raw severities of the log events
    Table,          \* severity tables their error types are in
    Confidences,    \* confidences, in tenths, that the models report
    Thresholds,     \* confidence_threshold values of alert rules, hundredths
    Frames,         \* stack frames of an event that has any
    Helpers,        \* functions that the crashed one calls
    TokenBudget,    \* _TOKEN_BUDGET
    SnippetTokens,  \* sizes of a snippet
    MaxRules,       \* enabled alert rules of the tenant
    MaxChanges,     \* changes of alert rules and playbook while it runs
    MaxAttempts     \* executions of the task, its retries included

Categories == {"security", "database", "infra_config",
               "external_dependency", "code_bug", "unknown"}

ASSUME EventAssumption ==
    /\ Category \subseteq Categories
    /\ Level \subseteq {"info", "warning", "error", "critical"}
    /\ Table \subseteq {"critical", "high", "medium", "none"}
ASSUME ScoreAssumption ==
    Confidences \subseteq 0..10 /\ Thresholds \subseteq 0..100
ASSUME BoundAssumption ==
    /\ {Frames, Helpers, TokenBudget, MaxRules, MaxChanges} \subseteq Nat
    /\ SnippetTokens \subseteq Nat \ {0} /\ MaxAttempts \in Nat \ {0}

VARIABLES
    event,      \* the parsed log event
    rules,      \* the tenant's enabled alert rules in DB-2
    playbook,   \* is the snapshot of the matching playbook active
    changes,    \* how often these two have changed
    node,       \* the node that runs next, or where run_agent stands
    aborted,    \* a statement of the session failed: the transaction is dead
    todo,       \* CodeRetriever: symbols still to look up
    code,       \* CodeRetriever: snippets kept and their tokens
    match,      \* PlaybookMatcher: "none", "instructions" or "id_only"
    analysis,   \* Analyzer: its outputs
    fix,        \* FixGenerator: its outputs
    score,      \* ConfidenceScorer: the composite
    decision,   \* ActionDecision: action and threshold
    patch,      \* PatchGenerator: files the structured patch names
    attempts,   \* executions started
    stored,     \* the incident row, or NotStored
    calls       \* history: nodes that called the model in this execution

environment == <<event, rules, playbook, changes>>
results == <<todo, code, match, analysis, fix, score, decision, patch, calls>>
vars == <<environment, node, aborted, results, attempts, stored>>

Severities == {"critical", "high", "medium", "low"}

\* "mapped": the service has a repository; "frames": frames of the stack.
Events == [level : Level, table : Table, category : Category,
           mapped : BOOLEAN, frames : {0, Frames}]

Rules == [threshold : Thresholds, severities : {{"critical", "high"}, Severities}]

NoCode == [symbols |-> 0, tokens |-> 0]
NoAnalysis == [fallback |-> FALSE, confidence |-> 0, fenced |-> FALSE]
NoFix == [fallback |-> FALSE, confidence |-> 0, target |-> "crash"]
NoDecision == [action |-> "none", threshold |-> 0]
NotStored == [severity |-> "none"]

-----------------------------------------------------------------------------
(***************************************************************************)
(* Classifier                                                              *)
(***************************************************************************)

Actionable(e) == e.level # "info"

Severity(e) ==
    IF "critical" \in {e.table, e.level} THEN "critical"
    ELSE IF e.table = "high" \/ e.level = "error" THEN "high"
    ELSE IF e.table = "medium" THEN "medium" ELSE "low"

(***************************************************************************)
(* ConfidenceScorer                                                        *)
(***************************************************************************)

RetrievalScore(symbols) ==
    CASE symbols = 0 -> 0 [] symbols = 1 -> 50
      [] symbols = 2 -> 75 [] symbols > 2 -> 100

\* The scorer parses the raw answer: between code fences it is not JSON, and
\* the confidence the analyzer read from it counts as 0.80.
Base(a) == IF a.fenced THEN 8 ELSE a.confidence

\* Mutant: an analysis that fell back counts like a cautious one.
CoherenceKind(a, f) == IF a.fallback THEN 60 ELSE Base(a) * 10

Coherence(a, f) ==
    CASE a.fallback -> 30
      [] ~a.fallback /\ f.fallback ->
            IF Base(a) * 10 > 15 THEN Base(a) * 10 - 15 ELSE 0
      [] ~a.fallback /\ ~f.fallback /\ f.confidence > 0 ->
            Base(a) * 7 + f.confidence * 3
      [] OTHER -> Base(a) * 10

Coverage(hasCode, hasPlaybook, hasFrames) ==
    (IF hasCode THEN 40 ELSE 0) + (IF hasPlaybook THEN 30 ELSE 0)
        + (IF hasFrames THEN 30 ELSE 0)

Composite(retrieval, coherence, coverage) ==
    35 * retrieval + 45 * coherence + 20 * coverage

-----------------------------------------------------------------------------
Fresh ==
    /\ aborted = FALSE /\ todo = <<>> /\ code = NoCode /\ match = "none"
    /\ analysis = NoAnalysis /\ fix = NoFix /\ score = 0
    /\ decision = NoDecision /\ patch = {} /\ calls = {}

Init ==
    /\ event \in Events
    /\ rules \in {R \in SUBSET Rules : Cardinality(R) <= MaxRules}
    /\ playbook \in BOOLEAN
    /\ changes = 0
    /\ node = "classifier"
    /\ Fresh
    /\ attempts = 1
    /\ stored = NotStored

Goto(next) == node' = next

\* A statement of the session works, or fails: the nodes catch and log the
\* exception, but PostgreSQL refuses every later statement of the transaction.
QueryWorks == ~aborted /\ UNCHANGED aborted
QueryFails == aborted' = TRUE

Classify ==
    /\ node = "classifier"
    /\ IF Actionable(event)
       THEN /\ Goto("code_retriever")
            /\ todo' = <<"crash">> \o [i \in 1..event.frames |-> "frame"]
       ELSE Goto("not_actionable") /\ UNCHANGED todo
    /\ UNCHANGED <<environment, aborted, code, match, analysis, fix, score,
                   decision, patch, calls, attempts, stored>>

(***************************************************************************)
(* CodeRetriever, one symbol at a time: the crashed function, the frames,  *)
(* then what the crashed function calls.  A row is found only in the       *)
(* repository the service is mapped to.                                    *)
(***************************************************************************)
Looking == node = "code_retriever" /\ todo # <<>> /\ code.tokens < TokenBudget

RetrieverUnchanged ==
    UNCHANGED <<environment, node, match, analysis, fix, score, decision,
                patch, calls, attempts, stored>>

\* Not indexed, already fetched, no mapping, or a statement that fails.
SymbolMissing ==
    /\ Looking
    /\ QueryWorks \/ QueryFails
    /\ todo' = Tail(todo)
    /\ UNCHANGED code
    /\ RetrieverUnchanged

\* The row is found; its file may be unreadable (no tokens).  The callees of
\* the crashed function follow even when its own snippet does not fit.
SymbolFound ==
    /\ Looking
    /\ event.mapped /\ QueryWorks
    /\ \E t \in SnippetTokens \cup {0} :
          code' = IF t > 0 /\ code.tokens + t <= TokenBudget
                  THEN [symbols |-> code.symbols + 1,
                        tokens |-> code.tokens + t]
                  ELSE code
    /\ todo' = IF Head(todo) = "crash"
               THEN Tail(todo) \o [i \in 1..Helpers |-> "helper"]
               ELSE Tail(todo)
    /\ RetrieverUnchanged

Retrieved ==
    /\ node = "code_retriever"
    /\ todo = <<>> \/ code.tokens >= TokenBudget
    /\ Goto("playbook_matcher")
    /\ todo' = <<>>
    /\ UNCHANGED <<environment, aborted, code, match, analysis, fix, score,
                   decision, patch, calls, attempts, stored>>

(***************************************************************************)
(* PlaybookMatcher.  The vector search has a session of its own; the       *)
(* instructions are read with the session of the task.  When that fails    *)
(* the id found by the search stays, without instructions.                 *)
(***************************************************************************)
\* Mutant: a snapshot that is gone does not reset the matched id.
MatchPlaybookStale ==
    /\ node = "playbook_matcher"
    /\ \/ match' = "none" /\ UNCHANGED aborted
       \/ QueryWorks /\ match' = IF playbook THEN "instructions" ELSE "id_only"
       \/ QueryFails /\ match' = "id_only"
    /\ Goto("analyzer")
    /\ UNCHANGED <<environment, todo, code, analysis, fix, score, decision,
                   patch, calls, attempts, stored>>

MatchPlaybook ==
    /\ node = "playbook_matcher"
    /\ \/ match' = "none" /\ UNCHANGED aborted     \* no match, or the search failed
       \/ QueryWorks /\ match' = IF playbook THEN "instructions" ELSE "none"
       \/ QueryFails /\ match' = "id_only"
    /\ Goto("analyzer")
    /\ UNCHANGED <<environment, todo, code, analysis, fix, score, decision,
                   patch, calls, attempts, stored>>

(***************************************************************************)
(* Analyzer and FixGenerator.  The circuit blocks the call, the call       *)
(* fails, or its answer is unusable: the node falls back.  A truncated     *)
(* answer is asked for once more and then used as it is.                   *)
(***************************************************************************)
Analyse ==
    /\ node = "analyzer"
    /\ \/ \E c \in Confidences, fenced \in BOOLEAN :
             analysis' = [fallback |-> FALSE, confidence |-> c, fenced |-> fenced]
       \/ analysis' = [NoAnalysis EXCEPT !.fallback = TRUE]
    /\ Goto("fix_generator")
    /\ calls' = calls \cup {"analyzer"}
    /\ UNCHANGED <<environment, aborted, todo, code, match, fix, score,
                   decision, patch, attempts, stored>>

\* "target": the file the fix names; "" stands for the crash file.
GenerateFix ==
    /\ node = "fix_generator"
    /\ \/ \E c \in Confidences, target \in {"crash", "other"} :
             fix' = [fallback |-> FALSE, confidence |-> c, target |-> target]
       \/ fix' = [NoFix EXCEPT !.fallback = TRUE]
    /\ Goto("confidence_scorer")
    /\ calls' = calls \cup {"fix_generator"}
    /\ UNCHANGED <<environment, aborted, todo, code, match, analysis, score,
                   decision, patch, attempts, stored>>

ScoreConfidence ==
    /\ node = "confidence_scorer"
    /\ score' = Composite(RetrievalScore(code.symbols), Coherence(analysis, fix),
                          Coverage(code.symbols > 0, match # "none",
                                   event.frames > 0))
    /\ Goto("action_decision")
    /\ UNCHANGED <<environment, aborted, todo, code, match, analysis, fix,
                   decision, patch, calls, attempts, stored>>

-----------------------------------------------------------------------------
(***************************************************************************)
(* ActionDecision                                                          *)
(***************************************************************************)

DefaultThreshold == 70

\* The most permissive enabled rule counts; a failed query counts as none.
TenantThreshold ==
    IF rules = {} THEN DefaultThreshold ELSE Min({r.threshold : r \in rules})

\* Mutant: the security override is dropped.
ActionAnyCategory(threshold) ==
    IF score >= threshold * 100 THEN "create_incident" ELSE "store_draft"

Action(threshold) ==
    IF event.category # "security" /\ score >= threshold * 100
    THEN "create_incident" ELSE "store_draft"

Patchable == {"code_bug", "database"}

Decide ==
    /\ node = "action_decision"
    /\ \E threshold \in {TenantThreshold, DefaultThreshold} :
          /\ \/ QueryWorks /\ threshold = TenantThreshold
             \/ QueryFails /\ threshold = DefaultThreshold
          /\ decision' = [action |-> Action(threshold), threshold |-> threshold]
          /\ Goto(IF Action(threshold) = "create_incident"
                     /\ event.category \in Patchable
                  THEN "patch_generator" ELSE "persist")
    /\ UNCHANGED <<environment, todo, code, match, analysis, fix, score,
                   patch, calls, attempts, stored>>

-----------------------------------------------------------------------------
(***************************************************************************)
(* PatchGenerator.  Files are told apart as the one looked up in the code  *)
(* index, another one, and one whose path is excluded by policy.  The      *)
(* lookup does not filter by repository, unlike the retriever's.           *)
(***************************************************************************)
PatchFile == {"looked_up", "another", "excluded"}

\* Skips: the fix is a fallback, the row or its file is missing, excluded,
\* the circuit is open, the call fails, or nothing passes the validation.
SkipPatch ==
    /\ node = "patch_generator"
    /\ \/ fix.fallback /\ UNCHANGED aborted
       \/ ~fix.fallback /\ (QueryWorks \/ QueryFails)
    /\ patch' = {}
    /\ Goto("persist")
    /\ UNCHANGED <<environment, todo, code, match, analysis, fix, score,
                   decision, calls, attempts, stored>>

\* A file of the index that is not excluded is sent to the model.  Each
\* "search" is looked for in that file, whatever file the patch names.
GeneratePatch ==
    /\ node = "patch_generator"
    /\ ~fix.fallback /\ QueryWorks
    /\ \E verified \in SUBSET PatchFile : patch' = verified
    /\ Goto("persist")
    /\ calls' = calls \cup {"patch_generator"}
    /\ UNCHANGED <<environment, todo, code, match, analysis, fix, score,
                   decision, attempts, stored>>

-----------------------------------------------------------------------------
(***************************************************************************)
(* run_agent and persist_new_incident: a draft is stored as an open        *)
(* incident of severity "unknown", and its events are published as well.   *)
(***************************************************************************)
IsDraft == score < decision.threshold * 100 \/ decision.action = "store_draft"

StoredSeverity == IF IsDraft THEN "unknown" ELSE Severity(event)

Alerted(severity) ==
    {r \in rules : severity \in r.severities /\ score >= r.threshold * 100}

Persist ==
    /\ node = "persist"
    /\ QueryWorks
    /\ stored' = [severity |-> StoredSeverity, patch |-> patch,
                  alerts |-> Alerted(StoredSeverity), playbook |-> match]
    /\ Goto("done")
    /\ UNCHANGED <<environment, results, attempts>>

\* The transaction is rolled back and the exception leaves run_agent.
PersistFails ==
    /\ node = "persist"
    /\ QueryFails
    /\ Goto("failed")
    /\ UNCHANGED <<environment, results, attempts, stored>>

\* Celery runs the task again, with a new session and an empty AgentState.
Retry ==
    /\ node = "failed" /\ attempts < MaxAttempts
    /\ Goto("classifier")
    /\ aborted' = FALSE /\ todo' = <<>> /\ code' = NoCode /\ match' = "none"
    /\ analysis' = NoAnalysis /\ fix' = NoFix /\ score' = 0
    /\ decision' = NoDecision /\ patch' = {} /\ calls' = {}
    /\ attempts' = attempts + 1
    /\ UNCHANGED <<environment, stored>>

\* config_sync writes a rule or a playbook of the tenant.
TenantChanges ==
    /\ changes < MaxChanges /\ node \notin {"done", "failed", "not_actionable"}
    /\ changes' = changes + 1
    /\ \/ /\ \E r \in Rules : rules' \in {rules \cup {r}, rules \ {r}}
          /\ Cardinality(rules') <= MaxRules
          /\ UNCHANGED playbook
       \/ playbook' = ~playbook /\ UNCHANGED rules
    /\ UNCHANGED <<event, node, aborted, results, attempts, stored>>

Next ==
    \/ Classify \/ SymbolMissing \/ SymbolFound \/ Retrieved
    \/ MatchPlaybook \/ Analyse \/ GenerateFix \/ ScoreConfidence
    \/ Decide \/ SkipPatch \/ GeneratePatch
    \/ Persist \/ PersistFails \/ Retry
    \/ TenantChanges

Spec == Init /\ [][Next]_vars

-----------------------------------------------------------------------------
TypeOK ==
    /\ event \in Events /\ rules \subseteq Rules /\ playbook \in BOOLEAN
    /\ changes \in 0..MaxChanges /\ attempts \in 1..MaxAttempts
    /\ node \in {"classifier", "code_retriever", "playbook_matcher", "analyzer",
                 "fix_generator", "confidence_scorer", "action_decision",
                 "patch_generator", "persist", "not_actionable", "failed", "done"}
    /\ code.tokens \in 0..TokenBudget /\ score \in 0..10000
    /\ match \in {"none", "instructions", "id_only"}
    /\ patch \subseteq PatchFile

Open == stored # NotStored /\ stored.severity # "unknown"

(***************************************************************************)
(* A model that was never reached does not raise an incident: with no rule *)
(* of the tenant below the default threshold, an event whose analysis fell *)
(* back is stored as a draft, whatever was retrieved and matched (the      *)
(* weights of confidence_scorer.py leave 0.685 at most).                   *)
(***************************************************************************)
FallbackIsDraft ==
    (Open /\ analysis.fallback) => decision.threshold < DefaultThreshold

(***************************************************************************)
(* "Security incidents always require human review": no threshold, score   *)
(* or change of the rules gives one a severity, an alert or a patch.       *)
(***************************************************************************)
SecurityIsReviewed ==
    (stored # NotStored /\ event.category = "security") =>
        ~Open /\ stored.alerts = {} /\ stored.patch = {}

(***************************************************************************)
(* A stored patch belongs to an incident that is not a draft, and is built *)
(* on a fix the model really gave, not on the text of the fallback.        *)
(***************************************************************************)
PatchHasFix ==
    (stored # NotStored /\ stored.patch # {}) => Open /\ ~fix.fallback

(***************************************************************************)
(* What is alerted was promoted: the rules read at the decision and those  *)
(* read at the insertion may differ, but a draft matches no rule.          *)
(***************************************************************************)
AlertedIsOpen ==
    (stored # NotStored /\ stored.alerts # {}) =>
        decision.action = "create_incident"

(***************************************************************************)
(* The nodes swallow database errors, yet no incident is stored from what  *)
(* they fell back to: a playbook counted in the score was really given to  *)
(* the analyzer, because the failed statement also dooms the transaction.  *)
(***************************************************************************)
PlaybookWasUsed == stored # NotStored => stored.playbook # "id_only"

(***************************************************************************)
(* Only a promoted incident acts: alerts and patches come from a decision   *)
(* made on an answer of the model, and never for security.                 *)
(***************************************************************************)
OnlyPromotedActs ==
    TypeOK /\ SecurityIsReviewed /\ PatchHasFix /\ AlertedIsOpen

=============================================================================
