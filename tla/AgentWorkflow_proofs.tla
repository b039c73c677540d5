------------------------ MODULE AgentWorkflow_proofs ------------------------
(***************************************************************************)
(* Theorems about AgentWorkflow, for every set of alert rules, scores,     *)
(* budgets and retries: what an incident of run_agent may do follows from  *)
(* the decision, the decision from the score, and the score from what the  *)
(* nodes really returned.  The arithmetic of confidence_scorer.py is part  *)
(* of the argument: without an answer of the analyzer the weights leave    *)
(* 0.685, which is under the default threshold.  And about CircuitBreaker, *)
(* the circuit through which three of the nodes call their model, for      *)
(* every number of workers, thresholds and timeout.  And about IndexCode,  *)
(* which keeps the index that the code retriever reads, for every set of   *)
(* files and integrations and every number of commits, connections, tasks, *)
(* pushes and losses.                                                      *)
(***************************************************************************)
EXTENDS AgentWorkflow, CircuitBreaker, IndexCode, FiniteSetTheorems, TLAPS

Scores == 0..100
Codes == [symbols : Nat, tokens : 0..TokenBudget]
Analyses == [fallback : BOOLEAN, confidence : 0..10, fenced : BOOLEAN]
Fixes == [fallback : BOOLEAN, confidence : 0..10, target : {"crash", "other"}]
Decisions == [action : {"none", "create_incident", "store_draft"}, threshold : Scores]
Nodes == {"classifier", "code_retriever", "playbook_matcher", "analyzer", "fix_generator",
          "confidence_scorer", "action_decision", "patch_generator", "persist",
          "not_actionable", "failed", "done"}

EnvironmentTyped ==
    /\ event \in Events /\ rules \subseteq Rules /\ playbook \in BOOLEAN
    /\ changes \in 0..MaxChanges /\ attempts \in 1..MaxAttempts
    /\ node \in Nodes /\ aborted \in BOOLEAN
ResultsTyped ==
    /\ code \in Codes
    /\ match \in {"none", "instructions", "id_only"}
    /\ analysis \in Analyses /\ fix \in Fixes
    /\ score \in 0..10000
    /\ decision \in Decisions /\ patch \subseteq PatchFile
Typed == EnvironmentTyped /\ ResultsTyped

-----------------------------------------------------------------------------
(* The scores and the threshold *)

\* The values the models and the rules give.
LEMMA Ranges ==
    /\ Confidences \subseteq 0..10 /\ Thresholds \subseteq Scores
    /\ TokenBudget \in Nat /\ SnippetTokens \subseteq Nat
    /\ MaxChanges \in Nat /\ MaxAttempts \in Nat \ {0}
BY ScoreAssumption, BoundAssumption DEF Scores

\* The order on the natural numbers, for the induction on what a budget has left.
LEMMA NatLess == IsWellFoundedOn({p \in Nat \X Nat : p[1] < p[2]}, Nat)
<1>1. OpToRel(<, Nat) = {p \in Nat \X Nat : p[1] < p[2]}
  BY Zenon DEF OpToRel
<1>. QED
  BY Zenon, <1>1, NatLessThanWellFounded

\* The minimum of a set of numbers is one of them.
LEMMA MinIsThere ==
    ASSUME NEW T, T \subseteq Nat, T # {}
    PROVE  Min(T) \in T
<1>. DEFINE Less == {p \in Nat \X Nat : p[1] < p[2]}
<1>1. IsWellFoundedOn(Less, Nat)
  BY Zenon, NatLess
<1>2. PICK x \in T : \A y \in T : <<y, x>> \notin Less
  <2>. HIDE DEF Less
  <2>. QED
    BY Zenon, <1>1, WFMin
<1>3. ASSUME NEW y \in T PROVE x <= y
  <2>1. <<y, x>> \in Nat \X Nat /\ <<y, x>> \notin Less
    BY <1>2
  <2>2. ~(<<y, x>>[1] < <<y, x>>[2])
    BY <2>1
  <2>3. ~(y < x)
    BY <2>2
  <2>. QED
    BY <2>3
<1>. QED
  BY <1>3 DEF Min

\* The threshold of the decision is the one of a rule, or the default.
LEMMA ThresholdInRange ==
    ASSUME EnvironmentTyped
    PROVE  TenantThreshold \in Scores
<1>1. CASE rules = {}
  BY <1>1 DEF TenantThreshold, DefaultThreshold, Scores
<1>2. CASE rules # {}
  <2>. DEFINE T == {r.threshold : r \in rules}
  <2>1. T \subseteq Scores /\ T # {}
    <3>1. \A r \in rules : r \in Rules
      BY DEF EnvironmentTyped
    <3>2. \A r \in Rules : r.threshold \in Scores
      BY Ranges DEF Rules
    <3>. QED
      BY <1>2, <3>1, <3>2
  <2>2. Min(T) \in T
    <3>1. T \subseteq Nat
      BY <2>1 DEF Scores
    <3>. HIDE DEF T
    <3>. QED
      BY Zenon, <2>1, <3>1, MinIsThere
  <2>3. TenantThreshold = Min(T)
    BY <1>2 DEF TenantThreshold
  <2>. QED
    BY <2>1, <2>2, <2>3
<1>. QED
  BY <1>1, <1>2

\* The three parts of the composite score are hundredths.
LEMMA PartsInRange ==
    /\ \A n \in Nat : RetrievalScore(n) \in Scores
    /\ \A a \in Analyses, f \in Fixes : Coherence(a, f) \in Scores
    /\ \A c, p, s \in BOOLEAN : Coverage(c, p, s) \in Scores
<1>1. ASSUME NEW n \in Nat PROVE RetrievalScore(n) \in Scores
  <2>1. n = 0 \/ n = 1 \/ n = 2 \/ n > 2
    OBVIOUS
  <2>. QED
    BY <2>1 DEF RetrievalScore, Scores
<1>2. ASSUME NEW a \in Analyses, NEW f \in Fixes PROVE Coherence(a, f) \in Scores
  <2>1. /\ Base(a) \in 0..10 /\ f.confidence \in 0..10
        /\ a.fallback \in BOOLEAN /\ f.fallback \in BOOLEAN
    BY DEF Base, Analyses, Fixes
  <2>2. /\ Base(a) * 10 \in Scores /\ Base(a) * 7 + f.confidence * 3 \in Scores
        /\ Base(a) * 10 > 15 => Base(a) * 10 - 15 \in Scores
    BY <2>1 DEF Scores
  <2>3. 0 \in Scores /\ 30 \in Scores
    BY DEF Scores
  <2>. HIDE DEF Scores
  <2>4. CASE a.fallback
    BY <2>3, <2>4 DEF Coherence
  <2>5. CASE ~a.fallback /\ f.fallback
    BY <2>2, <2>3, <2>5 DEF Coherence
  <2>6. CASE ~a.fallback /\ ~f.fallback /\ f.confidence > 0
    BY <2>2, <2>6 DEF Coherence
  <2>7. CASE ~a.fallback /\ ~f.fallback /\ ~(f.confidence > 0)
    BY <2>2, <2>7 DEF Coherence
  <2>. QED
    BY <2>1, <2>4, <2>5, <2>6, <2>7
<1>3. ASSUME NEW c \in BOOLEAN, NEW p \in BOOLEAN, NEW s \in BOOLEAN
      PROVE  Coverage(c, p, s) \in Scores
  <2>1. /\ (IF c THEN 40 ELSE 0) \in {0, 40} /\ (IF p THEN 30 ELSE 0) \in {0, 30}
        /\ (IF s THEN 30 ELSE 0) \in {0, 30}
    OBVIOUS
  <2>. QED
    BY <2>1, SMTT(30) DEF Coverage, Scores
<1>. QED
  BY <1>1, <1>2, <1>3

\* The composite of a state, as confidence_scorer computes it.
Computed == Composite(RetrievalScore(code.symbols), Coherence(analysis, fix),
                      Coverage(code.symbols > 0, match # "none", event.frames > 0))

\* Without an answer of the analyzer the weights leave 0.685.
LEMMA FallbackScore ==
    ASSUME ResultsTyped
    PROVE  /\ Computed \in 0..10000
           /\ analysis.fallback => Computed <= 6850
<1>. DEFINE r == RetrievalScore(code.symbols)
            h == Coherence(analysis, fix)
            v == Coverage(code.symbols > 0, match # "none", event.frames > 0)
<1>1. r \in Scores /\ h \in Scores /\ v \in Scores
  <2>1. /\ code.symbols \in Nat /\ analysis \in Analyses /\ fix \in Fixes
        /\ (code.symbols > 0) \in BOOLEAN /\ (match # "none") \in BOOLEAN
        /\ (event.frames > 0) \in BOOLEAN
    BY DEF ResultsTyped, Codes
  <2>2. r \in Scores
    BY <2>1, PartsInRange
  <2>3. h \in Scores
    BY <2>1, PartsInRange
  <2>4. v \in Scores
    BY Zenon, <2>1, PartsInRange
  <2>. QED
    BY <2>2, <2>3, <2>4
<1>2. analysis.fallback => h = 30
  BY DEF Coherence
<1>3. Computed = 35 * r + 45 * h + 20 * v
  BY DEF Computed, Composite
<1>. HIDE DEF r, h, v
<1>. QED
  BY <1>1, <1>2, <1>3 DEF Scores

-----------------------------------------------------------------------------
(* Types *)

LEMMA InitTyped == Init => Typed
<1>. SUFFICES ASSUME Init PROVE Typed
  OBVIOUS
<1>1. EnvironmentTyped
  <2>1. event \in Events /\ rules \subseteq Rules /\ playbook \in BOOLEAN
    BY DEF Init
  <2>2. changes \in 0..MaxChanges /\ attempts \in 1..MaxAttempts
    BY Ranges DEF Init
  <2>3. node \in Nodes /\ aborted \in BOOLEAN
    BY DEF Init, Fresh, Nodes
  <2>. QED
    BY <2>1, <2>2, <2>3 DEF EnvironmentTyped
<1>2. NoCode \in Codes /\ NoAnalysis \in Analyses /\ NoFix \in Fixes /\ NoDecision \in Decisions
  BY Ranges DEF NoCode, NoAnalysis, NoFix, NoDecision, Codes, Analyses, Fixes, Decisions, Scores
<1>. QED
  BY <1>1, <1>2 DEF Init, Fresh, Typed, ResultsTyped

LEMMA NextTyped ==
    ASSUME Typed, [Next]_vars
    PROVE  Typed'
<1>. USE DEF Typed
<1>0. NoCode \in Codes /\ NoAnalysis \in Analyses /\ NoFix \in Fixes /\ NoDecision \in Decisions
  BY Ranges DEF NoCode, NoAnalysis, NoFix, NoDecision, Codes, Analyses, Fixes, Decisions, Scores
<1>a. ASSUME UNCHANGED <<event, rules, playbook, changes, attempts>>,
             node' \in Nodes, aborted' \in BOOLEAN
      PROVE  EnvironmentTyped'
  BY <1>a DEF EnvironmentTyped
<1>b. UNCHANGED <<match, score>> => match' \in {"none", "instructions", "id_only"}
                                    /\ score' \in 0..10000
  BY DEF ResultsTyped
<1>1. CASE Classify
  <2>1. node' \in Nodes
    BY <1>1 DEF Classify, Goto, Nodes
  <2>2. EnvironmentTyped'
    <3>1. UNCHANGED <<event, rules, playbook, changes, attempts, aborted>>
      BY <1>1, SMTT(30) DEF Classify, environment
    <3>. QED
      BY <2>1, <3>1 DEF EnvironmentTyped
  <2>3. ResultsTyped'
    BY <1>1 DEF Classify, environment, ResultsTyped
  <2>. QED
    BY <2>2, <2>3
<1>2. CASE SymbolMissing
  <2>1. aborted' \in BOOLEAN /\ node' \in Nodes
    BY <1>2 DEF SymbolMissing, RetrieverUnchanged, QueryWorks, QueryFails, EnvironmentTyped
  <2>2. EnvironmentTyped'
    <3>1. UNCHANGED <<event, rules, playbook, changes, attempts>>
      BY <1>2 DEF SymbolMissing, RetrieverUnchanged, environment
    <3>. QED
      BY <2>1, <3>1, SMTT(30) DEF EnvironmentTyped
  <2>3. ResultsTyped'
    BY <1>2, <1>b, SMTT(30) DEF SymbolMissing, RetrieverUnchanged, ResultsTyped
  <2>. QED
    BY <2>2, <2>3
<1>3. CASE SymbolFound
  <2>1. code' \in Codes
    <3>1. PICK t \in SnippetTokens \cup {0} :
              code' = IF t > 0 /\ code.tokens + t <= TokenBudget
                      THEN [symbols |-> code.symbols + 1, tokens |-> code.tokens + t]
                      ELSE code
      BY <1>3 DEF SymbolFound
    <3>2. /\ code \in Codes /\ code.symbols \in Nat /\ code.tokens \in 0..TokenBudget
          /\ t \in Nat /\ TokenBudget \in Nat
      BY Ranges DEF ResultsTyped, Codes
    <3>3. CASE t > 0 /\ code.tokens + t <= TokenBudget
      <4>1. code.symbols + 1 \in Nat /\ code.tokens + t \in 0..TokenBudget
        BY <3>2, <3>3
      <4>. QED
        BY <3>1, <3>3, <4>1 DEF Codes
    <3>. QED
      BY <3>1, <3>2, <3>3
  <2>. QED
    BY <1>3, <2>1 DEF SymbolFound, RetrieverUnchanged, QueryWorks, environment,
       EnvironmentTyped, ResultsTyped
<1>4. CASE Retrieved
  <2>1. node' \in Nodes
    BY <1>4 DEF Retrieved, Goto, Nodes
  <2>. QED
    BY <1>4, <2>1 DEF Retrieved, environment, EnvironmentTyped, ResultsTyped
<1>5. CASE MatchPlaybook
  <2>1. node' \in Nodes
    BY <1>5 DEF MatchPlaybook, Goto, Nodes
  <2>2. aborted' \in BOOLEAN /\ match' \in {"none", "instructions", "id_only"}
    BY <1>5 DEF MatchPlaybook, QueryWorks, QueryFails, EnvironmentTyped
  <2>. QED
    BY <1>5, <2>1, <2>2 DEF MatchPlaybook, environment, EnvironmentTyped, ResultsTyped
<1>6. CASE Analyse
  <2>1. analysis' \in Analyses
    <3>1. \A c \in Confidences, fenced \in BOOLEAN :
              [fallback |-> FALSE, confidence |-> c, fenced |-> fenced] \in Analyses
      BY Ranges DEF Analyses
    <3>2. [NoAnalysis EXCEPT !.fallback = TRUE] \in Analyses
      BY <1>0 DEF Analyses
    <3>. QED
      BY <1>6, <3>1, <3>2 DEF Analyse
  <2>. QED
    BY <1>6, <2>1 DEF Analyse, Goto, environment, EnvironmentTyped, ResultsTyped, Nodes
<1>7. CASE GenerateFix
  <2>1. fix' \in Fixes
    <3>1. \A c \in Confidences, target \in {"crash", "other"} :
              [fallback |-> FALSE, confidence |-> c, target |-> target] \in Fixes
      BY Ranges DEF Fixes
    <3>2. [NoFix EXCEPT !.fallback = TRUE] \in Fixes
      BY <1>0 DEF Fixes
    <3>. QED
      BY <1>7, <3>1, <3>2 DEF GenerateFix
  <2>. QED
    BY <1>7, <2>1 DEF GenerateFix, Goto, environment, EnvironmentTyped, ResultsTyped, Nodes
<1>8. CASE ScoreConfidence
  <2>1. score' = Computed
    BY <1>8 DEF ScoreConfidence, Computed
  <2>2. score' \in 0..10000
    BY <2>1, FallbackScore
  <2>3. node' \in Nodes
    BY <1>8 DEF ScoreConfidence, Goto, Nodes
  <2>. QED
    <3>1. UNCHANGED <<event, rules, playbook, changes, attempts, aborted>>
      BY <1>8 DEF ScoreConfidence, environment
    <3>2. EnvironmentTyped'
      BY <1>a, <2>3, <3>1 DEF EnvironmentTyped
    <3>3. ResultsTyped'
      <4>1. UNCHANGED <<code, match, analysis, fix, decision, patch>>
        BY <1>8 DEF ScoreConfidence
      <4>2. match' \in {"none", "instructions", "id_only"}
        BY <4>1 DEF ResultsTyped
      <4>. QED
        BY <2>2, <4>1, <4>2 DEF ResultsTyped
    <3>. QED
      BY <3>2, <3>3
<1>9. CASE Decide
  <2>1. /\ DefaultThreshold \in Scores /\ TenantThreshold \in Scores
    BY ThresholdInRange DEF DefaultThreshold, Scores
  <2>2. \A t \in Scores :
            /\ [action |-> Action(t), threshold |-> t] \in Decisions
    BY DEF Decisions, Action
  <2>3. decision' \in Decisions
    BY <1>9, <2>1, <2>2 DEF Decide
  <2>4. node' \in Nodes
    BY <1>9 DEF Decide, Goto, Nodes
  <2>5. aborted' \in BOOLEAN
    BY <1>9 DEF Decide, QueryWorks, QueryFails, EnvironmentTyped
  <2>. QED
    BY <1>9, <2>3, <2>4, <2>5 DEF Decide, environment, EnvironmentTyped, ResultsTyped
<1>10. CASE SkipPatch \/ GeneratePatch
  <2>1. node' \in Nodes /\ aborted' \in BOOLEAN
    BY <1>10 DEF SkipPatch, GeneratePatch, QueryWorks, QueryFails, Goto, Nodes, EnvironmentTyped
  <2>2. patch' \subseteq PatchFile
    BY <1>10 DEF SkipPatch, GeneratePatch
  <2>. QED
    <3>1. UNCHANGED <<event, rules, playbook, changes, attempts>>
      BY <1>10 DEF SkipPatch, GeneratePatch, environment
    <3>2. EnvironmentTyped'
      BY <1>a, <2>1, <3>1
    <3>3. ResultsTyped'
      BY <1>10, <1>b, <2>2 DEF SkipPatch, GeneratePatch, ResultsTyped
    <3>. QED
      BY <3>2, <3>3
<1>11. CASE Persist \/ PersistFails
  <2>1. node' \in Nodes /\ aborted' \in BOOLEAN
    BY <1>11 DEF Persist, PersistFails, QueryWorks, QueryFails, Goto, Nodes, EnvironmentTyped
  <2>. QED
    <3>1. UNCHANGED <<event, rules, playbook, changes, attempts>> /\ UNCHANGED results
      BY <1>11 DEF Persist, PersistFails, environment
    <3>2. EnvironmentTyped'
      BY <1>a, <2>1, <3>1
    <3>3. ResultsTyped'
      BY <1>b, <3>1 DEF results, ResultsTyped
    <3>. QED
      BY <3>2, <3>3
<1>12. CASE Retry
  <2>1. attempts' \in 1..MaxAttempts
    BY <1>12, Ranges DEF Retry, EnvironmentTyped
  <2>2. node' \in Nodes
    BY <1>12 DEF Retry, Goto, Nodes
  <2>3. ResultsTyped'
    BY <1>0, <1>12 DEF Retry, ResultsTyped
  <2>. QED
    BY <1>12, <2>1, <2>2, <2>3 DEF Retry, environment, EnvironmentTyped
<1>13. CASE TenantChanges
  <2>1. changes' \in 0..MaxChanges
    BY <1>13, Ranges DEF TenantChanges, EnvironmentTyped
  <2>2. rules' \subseteq Rules /\ playbook' \in BOOLEAN
    BY <1>13 DEF TenantChanges, EnvironmentTyped
  <2>. QED
    BY <1>13, <2>1, <2>2 DEF TenantChanges, results, EnvironmentTyped, ResultsTyped
<1>14. CASE UNCHANGED vars
  BY <1>14 DEF vars, environment, results, EnvironmentTyped, ResultsTyped
<1>. QED
  BY <1>1, <1>2, <1>3, <1>4, <1>5, <1>6, <1>7, <1>8, <1>9, <1>10, <1>11, <1>12, <1>13, <1>14
     DEF Next

-----------------------------------------------------------------------------
(* The inductive invariants *)

\* A failed statement dooms the transaction: a match without instructions is never stored.
Doomed == match = "id_only" => aborted

\* From the scorer on, the score is the one of what the nodes returned.
Scored ==
    node \in {"action_decision", "patch_generator", "persist", "done"} => score = Computed

\* From the decision on, the action is the one the score and the threshold give.
Decided ==
    node \in {"patch_generator", "persist", "done"} =>
        decision.action = Action(decision.threshold)

\* A patch is written after the decision to create an incident, from an answer of the model.
Patched ==
    /\ node = "patch_generator" => decision.action = "create_incident"
    /\ patch # {} =>
          /\ node \in {"persist", "failed", "done"}
          /\ decision.action = "create_incident" /\ ~fix.fallback

\* What is stored is what the state of the workflow says when it ends.
StoredAtEnd ==
    /\ node # "done" => stored = NotStored
    /\ node = "done" =>
          /\ ~aborted
          /\ stored = [severity |-> StoredSeverity, patch |-> patch,
                       alerts |-> Alerted(StoredSeverity), playbook |-> match]

Kept == Doomed /\ Scored /\ Decided /\ Patched /\ StoredAtEnd

LEMMA InitKept == Init => Kept
BY DEF Init, Fresh, Kept, Doomed, Scored, Decided, Patched, StoredAtEnd

\* A state keeps them when its results and its node do not change.
LEMMA SameKept ==
    ASSUME Kept, UNCHANGED <<event, node, aborted, results, stored>>,
           node = "done" => UNCHANGED rules
    PROVE  Kept'
<1>1. UNCHANGED <<code, match, analysis, fix, score, decision, patch>>
  BY DEF results
<1>2. Doomed' /\ Patched'
  BY <1>1 DEF Kept, Doomed, Patched
<1>3. Computed' = Computed
  BY <1>1 DEF Computed
<1>4. Action(decision.threshold)' = Action(decision.threshold)
  BY <1>1 DEF Action
<1>5. Scored' /\ Decided'
  BY <1>1, <1>3, <1>4 DEF Kept, Scored, Decided
<1>6. StoredSeverity' = StoredSeverity
  BY <1>1 DEF StoredSeverity, IsDraft
<1>7. UNCHANGED rules => Alerted(StoredSeverity)' = Alerted(StoredSeverity)
  BY <1>1, <1>6 DEF Alerted
<1>8. StoredAtEnd'
  BY <1>1, <1>6, <1>7 DEF Kept, StoredAtEnd
<1>. QED
  BY <1>2, <1>5, <1>8 DEF Kept

\* A step to a node before the scorer's successor, with no patch yet, owes nothing but Doomed.
LEMMA EarlyKept ==
    ASSUME patch' = {}, stored' = NotStored,
           node' \in {"classifier", "code_retriever", "playbook_matcher", "analyzer",
                      "fix_generator", "confidence_scorer", "not_actionable"},
           Doomed'
    PROVE  Kept'
BY DEF Kept, Scored, Decided, Patched, StoredAtEnd

\* Every node keeps the invariants.
LEMMA NextKept ==
    ASSUME Typed, Kept, [Next]_vars
    PROVE  Kept'
<1>1. /\ match = "id_only" => aborted
      /\ node \in {"action_decision", "patch_generator", "persist", "done"} => score = Computed
      /\ node \in {"patch_generator", "persist", "done"} =>
            decision.action = Action(decision.threshold)
      /\ node = "patch_generator" => decision.action = "create_incident"
      /\ patch # {} => /\ node \in {"persist", "failed", "done"}
                       /\ decision.action = "create_incident" /\ ~fix.fallback
      /\ node # "done" => stored = NotStored
  BY DEF Kept, Doomed, Scored, Decided, Patched, StoredAtEnd
<1>2. CASE Classify \/ Retrieved \/ SymbolMissing \/ SymbolFound
  <2>1. /\ patch' = {} /\ stored' = NotStored
        /\ node' \in {"classifier", "code_retriever", "playbook_matcher", "not_actionable"}
    BY <1>1, <1>2 DEF Classify, Retrieved, SymbolMissing, SymbolFound, Looking,
       RetrieverUnchanged, Goto
  <2>2. match' = match /\ (aborted => aborted')
    BY <1>2 DEF Classify, Retrieved, SymbolMissing, SymbolFound, RetrieverUnchanged,
       QueryWorks, QueryFails
  <2>. QED
    BY <1>1, <2>1, <2>2, EarlyKept DEF Doomed
<1>3. CASE MatchPlaybook
  <2>1. patch' = {} /\ stored' = NotStored /\ node' = "analyzer"
    BY <1>1, <1>3 DEF MatchPlaybook, Goto
  <2>2. Doomed'
    BY <1>3 DEF MatchPlaybook, QueryWorks, QueryFails, Doomed
  <2>. QED
    BY <2>1, <2>2, EarlyKept
<1>4. CASE Analyse \/ GenerateFix
  <2>1. /\ patch' = {} /\ stored' = NotStored
        /\ node' \in {"fix_generator", "confidence_scorer"} /\ UNCHANGED <<match, aborted>>
    BY <1>1, <1>4 DEF Analyse, GenerateFix, Goto
  <2>. QED
    BY <1>1, <2>1, EarlyKept DEF Doomed
<1>5. CASE ScoreConfidence
  <2>1. /\ patch' = {} /\ stored' = NotStored /\ node' = "action_decision"
        /\ UNCHANGED <<event, code, match, analysis, fix, aborted>> /\ score' = Computed
    BY <1>1, <1>5 DEF ScoreConfidence, Goto, Computed, environment
  <2>2. Computed' = Computed
    BY <2>1 DEF Computed
  <2>. QED
    BY <1>1, <2>1, <2>2 DEF Kept, Doomed, Scored, Decided, Patched, StoredAtEnd
<1>6. CASE Decide
  <2>1. /\ patch' = {} /\ stored' = NotStored
        /\ UNCHANGED <<event, code, match, analysis, fix, score>> /\ score = Computed
        /\ aborted => aborted'
    BY <1>1, <1>6 DEF Decide, QueryWorks, QueryFails, environment
  <2>2. PICK threshold \in {TenantThreshold, DefaultThreshold} :
            /\ decision' = [action |-> Action(threshold), threshold |-> threshold]
            /\ node' = IF Action(threshold) = "create_incident" /\ event.category \in Patchable
                       THEN "patch_generator" ELSE "persist"
    BY <1>6 DEF Decide, Goto
  <2>3. /\ decision'.action = Action(threshold) /\ decision'.threshold = threshold
        /\ node' \in {"patch_generator", "persist"}
        /\ node' = "patch_generator" => decision'.action = "create_incident"
    BY <2>2
  <2>4. Computed' = Computed
    BY <2>1 DEF Computed
  <2>5. Action(decision.threshold)' = Action(threshold)
    BY <2>1, <2>3 DEF Action
  <2>. QED
    BY <1>1, <2>1, <2>3, <2>4, <2>5 DEF Kept, Doomed, Scored, Decided, Patched, StoredAtEnd
<1>7. CASE SkipPatch \/ GeneratePatch
  <2>1. /\ node = "patch_generator" /\ node' = "persist" /\ stored' = NotStored
        /\ UNCHANGED <<event, code, match, analysis, fix, score, decision>>
        /\ aborted => aborted'
        /\ patch' # {} => ~fix.fallback
    BY <1>1, <1>7 DEF SkipPatch, GeneratePatch, QueryWorks, QueryFails, Goto, environment
  <2>2. Computed' = Computed /\ Action(decision.threshold)' = Action(decision.threshold)
    BY <2>1 DEF Computed, Action
  <2>. QED
    BY <1>1, <2>1, <2>2 DEF Kept, Doomed, Scored, Decided, Patched, StoredAtEnd
<1>8. CASE Persist
  <2>1. /\ node = "persist" /\ node' = "done" /\ ~aborted /\ ~aborted'
        /\ UNCHANGED <<event, rules, code, match, analysis, fix, score, decision, patch>>
        /\ stored' = [severity |-> StoredSeverity, patch |-> patch,
                      alerts |-> Alerted(StoredSeverity), playbook |-> match]
    BY <1>8 DEF Persist, QueryWorks, Goto, environment, results
  <2>2. Computed' = Computed /\ Action(decision.threshold)' = Action(decision.threshold)
    BY <2>1 DEF Computed, Action
  <2>3. StoredSeverity' = StoredSeverity
    BY <2>1 DEF StoredSeverity, IsDraft
  <2>4. Alerted(StoredSeverity)' = Alerted(StoredSeverity)
    BY <2>1, <2>3 DEF Alerted
  <2>5. Doomed' /\ Scored' /\ Decided'
    BY <1>1, <2>1, <2>2 DEF Doomed, Scored, Decided
  <2>6. Patched' /\ StoredAtEnd'
    BY <1>1, <2>1, <2>3, <2>4 DEF Patched, StoredAtEnd
  <2>. QED
    BY <2>5, <2>6 DEF Kept
<1>9. CASE PersistFails
  <2>1. /\ node = "persist" /\ node' = "failed" /\ aborted' /\ stored' = NotStored
        /\ UNCHANGED <<fix, decision, patch>>
    BY <1>1, <1>9 DEF PersistFails, QueryFails, Goto, results
  <2>. QED
    BY <1>1, <2>1 DEF Kept, Doomed, Scored, Decided, Patched, StoredAtEnd
<1>10. CASE Retry
  <2>1. patch' = {} /\ stored' = NotStored /\ node' = "classifier" /\ match' = "none"
    BY <1>1, <1>10 DEF Retry, Goto
  <2>. QED
    BY <2>1, EarlyKept DEF Doomed
<1>11. CASE TenantChanges
  BY <1>11, SameKept DEF TenantChanges
<1>12. CASE UNCHANGED vars
  BY <1>12, SameKept DEF vars, environment
<1>. QED
  BY <1>2, <1>3, <1>4, <1>5, <1>6, <1>7, <1>8, <1>9, <1>10, <1>11, <1>12 DEF Next

\* Every state of the specification has the invariants.
LEMMA SoundInvariant == Spec => [](Typed /\ Kept)
<1>1. Init => Typed /\ Kept
  BY InitTyped, InitKept
<1>2. (Typed /\ Kept) /\ [Next]_vars => (Typed /\ Kept)'
  BY NextTyped, NextKept
<1>. QED
  BY <1>1, <1>2, PTL DEF Spec

-----------------------------------------------------------------------------
(* The properties *)

\* What the stored incident says, in the state that stored it.
LEMMA StoredSays ==
    ASSUME Typed, Kept, stored # NotStored
    PROVE  /\ node = "done" /\ ~aborted
           /\ stored.severity = StoredSeverity /\ stored.patch = patch
           /\ stored.alerts = Alerted(StoredSeverity) /\ stored.playbook = match
           /\ score = Computed /\ decision.action = Action(decision.threshold)
           /\ StoredSeverity # "unknown" <=> decision.action = "create_incident"
           /\ StoredSeverity = "unknown" => Alerted(StoredSeverity) = {}
<1>1. /\ node = "done" /\ ~aborted
      /\ stored = [severity |-> StoredSeverity, patch |-> patch,
                   alerts |-> Alerted(StoredSeverity), playbook |-> match]
      /\ score = Computed /\ decision.action = Action(decision.threshold)
  BY DEF Kept, StoredAtEnd, Scored, Decided
<1>2. Severity(event) # "unknown"
  <2>1. Severity(event) \in {"critical", "high", "medium", "low"}
    BY Zenon DEF Severity
  <2>. QED
    BY <2>1
<1>3. decision.action = "create_incident" <=> ~IsDraft
  <2>1. decision.threshold \in Nat /\ score \in Nat
    BY SMTT(30) DEF Typed, ResultsTyped, Decisions, Scores
  <2>2. /\ decision.action \in {"create_incident", "store_draft"}
        /\ decision.action = "create_incident" => score >= decision.threshold * 100
    BY <1>1 DEF Action
  <2>. QED
    BY <2>1, <2>2 DEF IsDraft
<1>4. StoredSeverity # "unknown" <=> decision.action = "create_incident"
  BY <1>2, <1>3 DEF StoredSeverity
<1>5. Alerted("unknown") = {}
  <2>1. \A r \in Rules : "unknown" \notin r.severities
    BY DEF Rules, Severities
  <2>. QED
    BY <2>1 DEF Alerted, Typed, EnvironmentTyped
<1>. QED
  BY <1>1, <1>4, <1>5

\* An analysis that fell back leaves a score under 0.70, whatever was retrieved and matched,
\* so an incident raised on it was raised by an alert rule of the tenant with a lower
\* threshold (confidence_scorer, action_decision).
THEOREM FallbackStaysDraft == Spec => []FallbackIsDraft
<1>1. Typed /\ Kept => FallbackIsDraft
  <2>. SUFFICES ASSUME Typed, Kept, Open, analysis.fallback
                PROVE  decision.threshold < DefaultThreshold
    BY DEF FallbackIsDraft
  <2>1. decision.action = "create_incident" /\ decision.action = Action(decision.threshold)
        /\ score = Computed
    BY StoredSays DEF Open
  <2>2. score <= 6850 /\ score \in Nat /\ decision.threshold \in Nat
    BY <2>1, FallbackScore DEF Typed, ResultsTyped, Decisions, Scores
  <2>3. score >= decision.threshold * 100
    BY <2>1 DEF Action
  <2>. QED
    BY <2>2, <2>3 DEF DefaultThreshold
<1>. QED
  BY <1>1, SoundInvariant, PTL

\* Alerts and patches come from a decision to create an incident on an answer of the model,
\* and never for a security event, whatever rules and playbook become while the workflow
\* runs and however often it is retried.
THEOREM PromotedActs == Spec => []OnlyPromotedActs
<1>1. Typed /\ Kept => OnlyPromotedActs
  <2>. SUFFICES ASSUME Typed, Kept PROVE OnlyPromotedActs
    OBVIOUS
  <2>1. TypeOK
    BY DEF Typed, EnvironmentTyped, ResultsTyped, TypeOK, Nodes, Codes
  <2>2. patch # {} => decision.action = "create_incident" /\ ~fix.fallback
    BY DEF Kept, Patched
  <2>3. SecurityIsReviewed
    <3>. SUFFICES ASSUME stored # NotStored, event.category = "security"
                  PROVE  ~Open /\ stored.alerts = {} /\ stored.patch = {}
      BY DEF SecurityIsReviewed
    <3>1. decision.action # "create_incident"
      BY StoredSays DEF Action
    <3>. QED
      BY <2>2, <3>1, StoredSays DEF Open
  <2>4. PatchHasFix /\ AlertedIsOpen
    BY <2>2, StoredSays DEF PatchHasFix, AlertedIsOpen, Open
  <2>. QED
    BY <2>1, <2>3, <2>4 DEF OnlyPromotedActs
<1>. QED
  BY <1>1, SoundInvariant, PTL

\* A playbook that counted in the score of a stored incident was given to the analyzer: the
\* statement whose failure leaves an id without instructions dooms the transaction too.
THEOREM PlaybookWasGiven == Spec => []PlaybookWasUsed
<1>1. Typed /\ Kept => PlaybookWasUsed
  BY StoredSays DEF Kept, Doomed, PlaybookWasUsed
<1>. QED
  BY <1>1, SoundInvariant, PTL

-----------------------------------------------------------------------------
(* The circuit breaker of the model calls *)

Reasons == {"none", "call", "blocked"}

\* The thresholds of a circuit and the places a caller can stand at.
LEMMA CircuitFacts ==
    /\ FailureThreshold \in Nat \ {0} /\ SuccessThreshold \in Nat \ {0}
    /\ Timeout \in Nat \ {0} /\ Gone = Timeout + 1
    /\ {"idle", "call"} \cup Checking \cup Recording \subseteq PC
BY ThresholdAssumption DEF Gone, PC

\* A caller that only moves keeps the breaker as it is.
LEMMA CallerMoves ==
    ASSUME BreakerConsistent, NEW c \in Caller, NEW where \in PC,
           Move(c, where), UNCHANGED <<guarded, healthy>>, UNCHANGED keys,
           reason' = reason \/ \E r \in Reasons : reason' = [reason EXCEPT ![c] = r]
    PROVE  BreakerConsistent'
<1>1. pc' \in [Caller -> PC] /\ reason' \in [Caller -> Reasons]
  BY DEF BreakerConsistent, BreakerTypeOK, Move, Reasons
<1>. QED
  BY <1>1 DEF BreakerConsistent, BreakerTypeOK, OpenHasTime, keys, Reasons

\* can_execute: a circuit without an opening time is closed, an open one keeps its time.
LEMMA CheckKeepsBreaker ==
    ASSUME BreakerConsistent, NEW c \in Caller, UNCHANGED <<guarded, healthy>>,
           \/ CheckState(c) \/ GetOpenedAt(c) \/ SetClosed(c) \/ ClaimOpen(c)
           \/ ClaimHalfOpen(c) \/ SetHalfOpen(c) \/ ZeroSuccesses(c)
    PROVE  BreakerConsistent'
<1>. USE CircuitFacts DEF Reasons
<1>1. ASSUME Block(c), UNCHANGED <<state, failures, successes, opened>>, UNCHANGED slot
      PROVE  BreakerConsistent'
  <2>1. UNCHANGED keys
    BY <1>1 DEF keys
  <2>2. \/ Move(c, "failed") /\ reason' = [reason EXCEPT ![c] = "blocked"]
        \/ Move(c, "idle") /\ reason' = reason
    BY <1>1 DEF Block
  <2>. QED
    BY <2>1, <2>2, CallerMoves DEF Recording
<1>2. CASE CheckState(c)
  BY <1>2, CallerMoves DEF CheckState, Checking, BreakerConsistent, BreakerTypeOK
<1>3. CASE GetOpenedAt(c)
  <2>1. UNCHANGED keys /\ UNCHANGED <<state, failures, successes, opened>> /\ UNCHANGED slot
    BY <1>3 DEF GetOpenedAt, keys
  <2>2. opened = Gone \/ opened = 0 \/ opened \in 1..Timeout
    BY DEF BreakerConsistent, BreakerTypeOK
  <2>3. CASE Block(c)
    BY <1>1, <2>1, <2>3
  <2>4. CASE \E where \in {"set_closed", "claim_open"} : Move(c, where) /\ UNCHANGED reason
    BY <2>1, <2>4, CallerMoves DEF Checking
  <2>. QED
    BY <1>3, <2>2, <2>3, <2>4 DEF GetOpenedAt
<1>4. ASSUME NEW from \in PC, NEW next \in PC, Claim(c, from, next)
      PROVE  BreakerConsistent'
  <2>1. CASE slot = 0
    <3>1. slot' = Timeout /\ UNCHANGED <<state, failures, successes, opened, reason>>
      BY <1>4, <2>1 DEF Claim
    <3>2. pc' \in [Caller -> PC]
      BY <1>4, <2>1 DEF Claim, Move, BreakerConsistent, BreakerTypeOK
    <3>. QED
      BY <3>1, <3>2 DEF BreakerConsistent, BreakerTypeOK, OpenHasTime
  <2>2. CASE slot # 0
    BY <1>1, <1>4, <2>2 DEF Claim
  <2>. QED
    BY <2>1, <2>2
<1>5. CASE ClaimOpen(c)
  BY <1>4, <1>5 DEF ClaimOpen, Checking
<1>6. CASE ClaimHalfOpen(c)
  BY <1>4, <1>6 DEF ClaimHalfOpen, Checking
<1>7. CASE SetClosed(c) \/ SetHalfOpen(c) \/ ZeroSuccesses(c)
  <2>1. pc' \in [Caller -> PC]
    BY <1>7 DEF SetClosed, SetHalfOpen, ZeroSuccesses, Move, Checking, BreakerConsistent,
                BreakerTypeOK
  <2>2. /\ UNCHANGED <<failures, opened, slot, reason>>
        /\ successes' \in {0, successes}
        /\ state' \in {"CLOSED", "HALF_OPEN"} \/ state' = state
    BY <1>7 DEF SetClosed, SetHalfOpen, ZeroSuccesses
  <2>. QED
    BY <2>1, <2>2 DEF BreakerConsistent, BreakerTypeOK, OpenHasTime
<1>. QED
  BY <1>2, <1>3, <1>5, <1>6, <1>7

\* record_success: only the pipeline that closes the circuit deletes its opening time.
LEMMA SuccessKeepsBreaker ==
    ASSUME BreakerConsistent, NEW c \in Caller, UNCHANGED <<guarded, healthy>>,
           \/ SuccessReads(c) \/ CountSuccess(c) \/ Close(c) \/ Release(c)
           \/ ZeroFailures(c)
    PROVE  BreakerConsistent'
<1>. USE CircuitFacts DEF Reasons
<1>1. CASE SuccessReads(c)
  BY <1>1, CallerMoves DEF SuccessReads, Recording, BreakerConsistent, BreakerTypeOK
<1>2. CASE CountSuccess(c) \/ Close(c) \/ Release(c) \/ ZeroFailures(c)
  <2>1. pc' \in [Caller -> PC] /\ UNCHANGED reason
    BY <1>2 DEF CountSuccess, Close, Release, ZeroFailures, Move, Recording,
                BreakerConsistent, BreakerTypeOK
  <2>2. successes' \in 0..SuccessThreshold
    BY <1>2 DEF CountSuccess, Close, Release, ZeroFailures, BreakerConsistent, BreakerTypeOK
  <2>3. failures' \in {0, failures} /\ slot' \in {0, slot}
    BY <1>2 DEF CountSuccess, Close, Release, ZeroFailures
  <2>4. \/ state' = "CLOSED" /\ opened' = Gone
        \/ UNCHANGED <<state, opened>>
    BY <1>2 DEF CountSuccess, Close, Release, ZeroFailures
  <2>. QED
    BY <2>1, <2>2, <2>3, <2>4 DEF BreakerConsistent, BreakerTypeOK, OpenHasTime
<1>. QED
  BY <1>1, <1>2

\* record_failure: whoever opens the circuit sets its opening time in the same pipeline.
LEMMA FailureKeepsBreaker ==
    ASSUME BreakerConsistent, NEW c \in Caller, UNCHANGED <<guarded, healthy>>,
           FailureReads(c) \/ Reopen(c) \/ CountFailure(c) \/ OpenCircuit(c)
    PROVE  BreakerConsistent'
<1>. USE CircuitFacts DEF Reasons
<1>1. CASE FailureReads(c)
  BY <1>1, CallerMoves DEF FailureReads, Done, Recording, BreakerConsistent, BreakerTypeOK
<1>2. CASE Reopen(c) \/ CountFailure(c) \/ OpenCircuit(c)
  <2>1. pc' \in [Caller -> PC] /\ reason' \in [Caller -> Reasons]
    BY <1>2 DEF Reopen, CountFailure, OpenCircuit, Done, Move, Recording,
                BreakerConsistent, BreakerTypeOK
  <2>2. failures' \in 0..FailureThreshold
    BY <1>2 DEF Reopen, CountFailure, OpenCircuit, BreakerConsistent, BreakerTypeOK
  <2>3. successes' \in {0, successes} /\ slot' \in {0, slot}
    BY <1>2 DEF Reopen, CountFailure, OpenCircuit
  <2>4. \/ state' = "OPEN" /\ opened' = Timeout
        \/ UNCHANGED <<state, opened>>
    BY <1>2 DEF Reopen, CountFailure, OpenCircuit
  <2>. QED
    BY <2>1, <2>2, <2>3, <2>4 DEF BreakerConsistent, BreakerTypeOK, OpenHasTime
<1>. QED
  BY <1>1, <1>2

\* One step of a caller: a Redis command, the guarded call, a fault.
LEMMA CallerKeepsBreaker ==
    ASSUME BreakerConsistent, NEW c \in Caller, CallerStep(c)
    PROVE  BreakerConsistent'
<1>. USE CircuitFacts DEF Reasons
<1>0. UNCHANGED <<guarded, healthy>>
  BY DEF CallerStep
<1>1. CASE CheckState(c) \/ Proceed(c)
  <2>1. CASE CallAnswered(c)
    BY <1>0, <2>1, CallerMoves DEF CallAnswered, Recording
  <2>. QED
    BY <1>0, <1>1, <2>1, CheckKeepsBreaker, SuccessKeepsBreaker, FailureKeepsBreaker
    DEF Proceed
<1>2. CASE \E result \in {"error", "unparsable"} : CallFails(c, result)
  BY <1>0, <1>2, CallerMoves DEF CallFails, Recording
<1>3. CASE RedisError(c)
  BY <1>0, <1>3, CallerMoves DEF RedisError, Done
<1>4. CASE Killed(c)
  BY <1>0, <1>4, CallerMoves DEF Killed, Done
<1>. QED
  BY <1>1, <1>2, <1>3, <1>4 DEF CallerStep

\* However the Redis commands of the workers that share a circuit interleave, whatever each
\* read before, and wherever one is killed or Redis fails it, an open circuit has its opening
\* time, so it is timed and never taken for a closed one (can_execute, record_failure).
THEOREM BreakerStaysConsistent == BreakerSpec => []BreakerConsistent
<1>1. BreakerInit => BreakerConsistent
  <2>. SUFFICES ASSUME BreakerInit PROVE BreakerConsistent
    OBVIOUS
  <2>1. pc \in [Caller -> PC] /\ reason \in [Caller -> Reasons]
    BY CircuitFacts DEF BreakerInit, Reasons
  <2>2. opened \in 0..Gone /\ slot \in 0..Timeout
    BY CircuitFacts DEF BreakerInit
  <2>3. failures \in 0..FailureThreshold /\ successes \in 0..SuccessThreshold
    BY CircuitFacts DEF BreakerInit
  <2>4. guarded \in Node /\ state = "CLOSED" /\ healthy \in BOOLEAN
    BY DEF BreakerInit
  <2>. QED
    BY <2>1, <2>2, <2>3, <2>4 DEF BreakerConsistent, BreakerTypeOK, OpenHasTime, Reasons
<1>2. BreakerConsistent /\ [BreakerNext]_breakerVars => BreakerConsistent'
  <2>. SUFFICES ASSUME BreakerConsistent, [BreakerNext]_breakerVars
                PROVE  BreakerConsistent'
    OBVIOUS
  <2>. USE CircuitFacts DEF BreakerConsistent, BreakerTypeOK, OpenHasTime
  <2>1. CASE \E c \in Caller : CallerStep(c)
    BY <2>1, CallerKeepsBreaker
  <2>2. CASE Recover
    BY <2>2 DEF Recover, keys
  <2>3. CASE Tick
    <3>1. opened' \in 0..Gone /\ slot' \in 0..Timeout
      BY <2>3 DEF Tick
    <3>2. opened' = Gone => opened = Gone
      BY <2>3 DEF Tick
    <3>. QED
      BY <2>3, <3>1, <3>2 DEF Tick
  <2>4. CASE UNCHANGED breakerVars
    BY <2>4 DEF breakerVars
  <2>. QED
    BY <2>1, <2>2, <2>3, <2>4 DEF BreakerNext
<1>. QED
  BY <1>1, <1>2, PTL DEF BreakerSpec

-----------------------------------------------------------------------------
(* IndexCode: rows of the two databases, queues and tasks *)

Outcomes == {"indexing", "indexed", "failed"}
CodeEvents == [id : Integration, action : {"created", "updated", "deleted"},
               row : Row, version : Nat]
Dispatches == [pc : {"dispatch"}, row : Row,
               previous : {"absent", "pending", "indexing", "indexed", "failed"}]
Reports == [status : Outcomes, commit : 0..MaxCommits]
CodeTasks == [kind : {"initial", "incremental", "cleanup"}, commit : 0..MaxCommits,
              changed : SUBSET File, pc : {"queued", "download", "files", "objects", "done"},
              branch : Target, base : 0..MaxCommits, todo : SUBSET File, at : SUBSET File]

\* A task that has not begun its files is at none of them, a cleanup has none, a first index
\* downloads a branch, and what is indexed is a commit there is.
Sound(k, commits) ==
    /\ k.at \subseteq k.todo
    /\ k.pc \in {"queued", "download"} => k.at = {}
    /\ k.pc = "download" => k.branch \in Branch
    /\ IF k.kind = "cleanup" THEN k.pc \in {"queued", "objects", "done"}
       ELSE k.pc # "objects" /\ k.commit \in 1..commits /\ k.base \in 1..commits

BranchTyped ==
    /\ trees \in Seq([File -> 0..MaxCommits]) /\ Len(trees) \in 1..MaxCommits
    /\ heads \in [Branch -> 1..Len(trees)]
RowsTyped ==
    /\ connected \in [Integration -> Row] /\ snapshot \in [Integration -> Row]
    /\ removed \subseteq Integration
    /\ patching = Idle \/ patching \in [pc : {"save"}, id : Integration, row : Row]
QueuesTyped ==
    /\ clock \in Nat /\ version \in Nat
    /\ events \in Seq(CodeEvents)
    /\ dispatch = Idle \/ dispatch \in Dispatches
    /\ statuses \in Seq(Reports)
StoredTyped ==
    /\ rows \in [File -> [commit : 0..MaxCommits, content : 0..MaxCommits]]
    /\ objects \in [File -> [1..MaxCommits -> 0..MaxCommits]]
    /\ gaps \subseteq Gap
    /\ patches \in Nat /\ trouble \in Nat /\ patches + trouble <= MaxTrouble
TasksTyped ==
    /\ tasks \in Seq(CodeTasks)
    /\ \A t \in TaskIds : Sound(tasks[t], Len(trees))
IndexTyped == BranchTyped /\ RowsTyped /\ QueuesTyped /\ StoredTyped /\ TasksTyped

\* Each step leaves the queue of the tasks alone, sends one, or moves one forward.
LEMMA SendKeepsTasks ==
    ASSUME TasksTyped, NEW k \in CodeTasks, Send(k), Len(trees) \in Nat, Len(trees)' \in Nat,
           Len(trees)' >= Len(trees), Sound(k, Len(trees)')
    PROVE  /\ TasksTyped'
           /\ Len(tasks') = Len(tasks) + 1 /\ tasks'[Len(tasks) + 1] = k
           /\ \A t \in TaskIds : tasks'[t] = tasks[t]
<1>1. /\ tasks \in Seq(CodeTasks) /\ tasks' = Append(tasks, k)
  BY DEF TasksTyped, Send
<1>2. /\ Len(tasks') = Len(tasks) + 1 /\ tasks' \in Seq(CodeTasks)
      /\ \A t \in 1..Len(tasks) : tasks'[t] = tasks[t]
      /\ tasks'[Len(tasks) + 1] = k
  BY <1>1
<1>3. ASSUME NEW t \in 1..Len(tasks') PROVE Sound(tasks'[t], Len(trees)')
  <2>1. CASE t = Len(tasks) + 1
    BY <1>2, <2>1
  <2>2. CASE t # Len(tasks) + 1
    <3>1. t \in 1..Len(tasks)
      BY <1>1, <1>2, <2>2
    <3>2. Sound(tasks[t], Len(trees)) /\ tasks'[t] = tasks[t]
      BY <1>2, <3>1 DEF TasksTyped, TaskIds
    <3>. QED
      BY <3>2 DEF Sound
  <2>. QED
    BY <2>1, <2>2
<1>. QED
  BY <1>2, <1>3 DEF TasksTyped, TaskIds

LEMMA PutKeepsTasks ==
    ASSUME TasksTyped, NEW t \in TaskIds, NEW k \in CodeTasks, Put(t, k),
           Sound(k, Len(trees)), UNCHANGED trees
    PROVE  /\ TasksTyped'
           /\ Len(tasks') = Len(tasks) /\ tasks'[t] = k
           /\ \A u \in TaskIds : u # t => tasks'[u] = tasks[u]
<1>1. tasks \in Seq(CodeTasks) /\ tasks' = [tasks EXCEPT ![t] = k] /\ t \in 1..Len(tasks)
  BY DEF TasksTyped, Put, TaskIds
<1>2. /\ Len(tasks') = Len(tasks) /\ tasks' \in Seq(CodeTasks)
      /\ tasks'[t] = k
      /\ \A u \in 1..Len(tasks) : u # t => tasks'[u] = tasks[u]
  BY <1>1
<1>3. \A u \in 1..Len(tasks') : Sound(tasks'[u], Len(trees)')
  BY <1>2 DEF TasksTyped, TaskIds
<1>. QED
  BY <1>2, <1>3 DEF TasksTyped, TaskIds

\* What may become of a task: it stays of its kind and at its commit.
Forward(t, k) ==
    /\ k \in CodeTasks /\ Sound(k, Len(trees))
    /\ k.kind = tasks[t].kind /\ k.commit = tasks[t].commit
    /\ Put(t, k)

Working(t) ==
    \/ Work(t) \/ CleanFails(t) \/ FailInitial(t) \/ StopsUnreported(t) \/ LoseWorker(t)
    \/ \E f \in File : SkipFile(t, f)

\* A step of a task leaves Git, Django and the events alone.
LEMMA WorkLeaves ==
    ASSUME NEW t, Working(t)
    PROVE  /\ UNCHANGED <<trees, heads, connected, removed, patching, clock, events, dispatch,
                          version, patches>>
           /\ gaps \subseteq gaps'
<1>. USE DEF gitVars, djangoVars, syncVars, indexVars, bounds
<1>1. CASE Work(t)
  BY <1>1
  DEF Work, StartInitial, Download, StartIncremental, GiveUp, Upload, InsertRows, DeleteRows,
      Complete, CleanRows, CleanObjects, Note
<1>2. CASE \/ CleanFails(t) \/ FailInitial(t) \/ StopsUnreported(t) \/ LoseWorker(t)
           \/ \E f \in File : SkipFile(t, f)
  BY <1>2 DEF CleanFails, FailInitial, StopsUnreported, LoseWorker, SkipFile, Note
<1>. QED
  BY <1>1, <1>2 DEF Working

LEMMA TaskIsTyped ==
    ASSUME IndexTyped, NEW t \in TaskIds
    PROVE  tasks[t] \in CodeTasks /\ Sound(tasks[t], Len(trees))
<1>1. tasks \in Seq(CodeTasks) /\ t \in 1..Len(tasks) /\ Sound(tasks[t], Len(trees))
  BY DEF IndexTyped, TasksTyped, TaskIds
<1>2. tasks[t] \in CodeTasks
  BY <1>1
<1>. QED
  BY <1>1, <1>2 DEF CodeTasks

\* A task that is put back, or ends.
LEMMA AgainOrEnd ==
    ASSUME IndexTyped, NEW t \in TaskIds
    PROVE  /\ Put(t, Again(t)) => Forward(t, Again(t))
           /\ Put(t, End(t)) => Forward(t, End(t))
           /\ Again(t).pc = "queued" /\ Again(t).at = {} /\ Again(t).todo = {}
           /\ End(t).pc = "done" /\ End(t).at = {}
<1>. USE TaskIsTyped
<1>1. /\ Again(t) = [kind |-> tasks[t].kind, commit |-> tasks[t].commit,
                     changed |-> tasks[t].changed, pc |-> "queued",
                     branch |-> "elsewhere", base |-> tasks[t].commit, todo |-> {}, at |-> {}]
      /\ End(t) = [kind |-> tasks[t].kind, commit |-> tasks[t].commit,
                   changed |-> {}, pc |-> "done",
                   branch |-> "elsewhere", base |-> tasks[t].commit, todo |-> {}, at |-> {}]
  <2>1. Again(t) = [kind |-> tasks[t].kind, commit |-> tasks[t].commit,
                    changed |-> tasks[t].changed, pc |-> "queued",
                    branch |-> "elsewhere", base |-> tasks[t].commit, todo |-> {}, at |-> {}]
    BY Zenon DEF Again, Task
  <2>2. Task(tasks[t].kind, tasks[t].commit, {}) =
            [kind |-> tasks[t].kind, commit |-> tasks[t].commit, changed |-> {},
             pc |-> "queued", branch |-> "elsewhere", base |-> tasks[t].commit, todo |-> {}, at |-> {}]
    BY Zenon DEF Task
  <2>3. End(t) = [[kind |-> tasks[t].kind, commit |-> tasks[t].commit, changed |-> {},
                   pc |-> "queued", branch |-> "elsewhere", base |-> tasks[t].commit, todo |-> {}, at |-> {}]
                      EXCEPT !.pc = "done"]
    BY Zenon, <2>2 DEF End
  <2>. QED
    BY <2>1, <2>3
<1>2. /\ tasks[t].kind \in {"initial", "incremental", "cleanup"}
      /\ tasks[t].commit \in 0..MaxCommits /\ tasks[t].changed \subseteq File
  BY DEF CodeTasks
<1>3. Again(t) \in CodeTasks /\ End(t) \in CodeTasks
  BY <1>1, <1>2 DEF CodeTasks, Target
<1>4. Sound(Again(t), Len(trees)) /\ Sound(End(t), Len(trees))
  BY <1>1, <1>2 DEF Sound
<1>. QED
  BY <1>1, <1>3, <1>4 DEF Forward

LEMMA WorkGoesForward ==
    ASSUME IndexTyped, NEW t \in TaskIds, Working(t)
    PROVE  (\E k : Forward(t, k)) /\ UNCHANGED <<trees, heads>>
<1>. USE TaskIsTyped
<1>0. /\ tasks[t].at \subseteq tasks[t].todo /\ tasks[t].todo \subseteq File
      /\ tasks[t].changed \subseteq File /\ Len(trees) \in Nat /\ Len(trees) <= MaxCommits
      /\ \A b \in Branch : heads[b] \in 1..Len(trees) /\ heads[b] \in 0..MaxCommits
  <2>1. MaxCommits \in Nat /\ Len(trees) \in 1..MaxCommits /\ heads \in [Branch -> 1..Len(trees)]
    BY IndexAssumption DEF IndexTyped, BranchTyped
  <2>. QED
    BY <2>1 DEF Sound, CodeTasks
<1>1. CASE StartInitial(t)
  <2>0. PICK i \in Integration :
            Here(i) /\ Put(t, [tasks[t] EXCEPT !.pc = "download", !.branch = snapshot[i].branch])
    BY <1>1 DEF StartInitial
  <2>. DEFINE k == [tasks[t] EXCEPT !.pc = "download", !.branch = snapshot[i].branch]
  <2>1. k \in CodeTasks /\ k.kind = tasks[t].kind /\ k.commit = tasks[t].commit
    BY <2>0 DEF CodeTasks, Here, Target
  <2>2. Sound(k, Len(trees))
    BY <1>1, <2>0 DEF Sound, StartInitial, Here, CodeTasks
  <2>. QED
    BY <1>1, <2>0, <2>1, <2>2 DEF Forward, StartInitial, gitVars
<1>2. CASE Download(t)
  <2>. DEFINE head == heads[tasks[t].branch]
              k == [tasks[t] EXCEPT !.pc = "files", !.base = head,
                                    !.todo = {f \in File : trees[head][f] # 0}]
  <2>0. head \in 1..Len(trees) /\ head \in 0..MaxCommits
    BY <1>0, <1>2 DEF Download, Sound
  <2>1. k \in CodeTasks /\ k.kind = tasks[t].kind /\ k.commit = tasks[t].commit
    <3>. HIDE DEF head
    <3>. QED
      BY <2>0 DEF CodeTasks
  <2>2. Sound(k, Len(trees))
    <3>. HIDE DEF head
    <3>. QED
      BY <1>2, <2>0 DEF Sound, Download, CodeTasks
  <2>. QED
    BY <1>2, <2>1, <2>2 DEF Forward, Download, gitVars
<1>3. CASE StartIncremental(t)
  <2>9. PICK i \in Integration :
            Put(t, [tasks[t] EXCEPT !.pc = "files",
                       !.todo = IF tasks[t].changed # {} THEN tasks[t].changed
                                ELSE Compared(snapshot[i].commit, tasks[t].commit)])
    BY <1>3 DEF StartIncremental
  <2>. DEFINE found == IF tasks[t].changed # {} THEN tasks[t].changed
                       ELSE Compared(snapshot[i].commit, tasks[t].commit)
              k == [tasks[t] EXCEPT !.pc = "files", !.todo = found]
  <2>0. found \subseteq File
    BY <1>0 DEF Compared
  <2>1. k \in CodeTasks /\ k.kind = tasks[t].kind /\ k.commit = tasks[t].commit
    BY <2>0 DEF CodeTasks
  <2>2. Sound(k, Len(trees))
    BY <1>3 DEF Sound, StartIncremental
  <2>. QED
    BY <1>3, <2>1, <2>2, <2>9 DEF Forward, StartIncremental, gitVars
<1>4. CASE GiveUp(t)
  BY <1>4, AgainOrEnd DEF GiveUp, gitVars
<1>5. CASE \E f \in File : Upload(t, f)
  <2>1. PICK f \in File : Upload(t, f)
    BY <1>5
  <2>. DEFINE k == [tasks[t] EXCEPT !.at = {f}]
  <2>2. k \in CodeTasks /\ k.kind = tasks[t].kind /\ k.commit = tasks[t].commit
    BY DEF CodeTasks
  <2>3. Sound(k, Len(trees))
    BY <2>1 DEF Sound, Upload, Cursor
  <2>. QED
    BY <2>1, <2>2, <2>3 DEF Forward, Upload, gitVars
<1>6. CASE \E f \in File : InsertRows(t, f) \/ DeleteRows(t, f) \/ SkipFile(t, f)
  <2>1. PICK f \in File : InsertRows(t, f) \/ DeleteRows(t, f) \/ SkipFile(t, f)
    BY <1>6
  <2>2. Finished(t, f) \in CodeTasks /\ Finished(t, f).kind = tasks[t].kind
        /\ Finished(t, f).commit = tasks[t].commit
    BY <1>0 DEF CodeTasks, Finished
  <2>3. Sound(Finished(t, f), Len(trees))
    BY <2>1 DEF Sound, Finished
  <2>. QED
    BY <2>1, <2>2, <2>3 DEF Forward, InsertRows, DeleteRows, SkipFile, gitVars
<1>7. CASE Complete(t) \/ CleanObjects(t)
  BY <1>7, AgainOrEnd DEF Complete, CleanObjects, gitVars
<1>8. CASE CleanRows(t) \/ CleanFails(t)
  <2>. DEFINE k == [tasks[t] EXCEPT !.pc = "objects"]
  <2>1. k \in CodeTasks /\ k.kind = tasks[t].kind /\ k.commit = tasks[t].commit
    BY DEF CodeTasks
  <2>2. Sound(k, Len(trees))
    BY <1>8 DEF Sound, CleanRows, CleanFails
  <2>3. Put(t, k) \/ Put(t, End(t))
    BY <1>8 DEF CleanRows, CleanFails
  <2>. QED
    BY <1>8, <2>1, <2>2, <2>3, AgainOrEnd DEF Forward, CleanRows, CleanFails, gitVars
<1>9. CASE FailInitial(t) \/ StopsUnreported(t) \/ LoseWorker(t)
  BY <1>9, AgainOrEnd DEF FailInitial, StopsUnreported, LoseWorker, gitVars
<1>. QED
  BY <1>1, <1>2, <1>3, <1>4, <1>5, <1>6, <1>7, <1>8, <1>9 DEF Working, Work

-----------------------------------------------------------------------------
(* IndexCode: what every step leaves typed *)

LEMMA CodeLeftAlone ==
    ASSUME IndexTyped
    PROVE  /\ UNCHANGED <<trees, heads>> => BranchTyped'
           /\ UNCHANGED <<connected, removed, patching, snapshot>> => RowsTyped'
           /\ UNCHANGED <<clock, version, events, dispatch, statuses>> => QueuesTyped'
           /\ UNCHANGED <<rows, objects, gaps, patches, trouble>> => StoredTyped'
           /\ UNCHANGED <<trees, tasks>> => TasksTyped'
BY DEF IndexTyped, BranchTyped, RowsTyped, QueuesTyped, StoredTyped, TasksTyped, TaskIds, Sound

\* What a status makes of a row: one of this repository takes it, another one stays.
LEMMA ReportedRow ==
    ASSUME NEW row \in Row, NEW s \in Outcomes, NEW c \in 0..MaxCommits
    PROVE  /\ Reported(row, s, c) \in Row
           /\ Reported(row, s, c).branch = row.branch
           /\ row.branch \notin Branch => Reported(row, s, c) = row
           /\ row.branch \in Branch =>
                 /\ Reported(row, s, c).status = s
                 /\ Reported(row, s, c).commit = IF c = 0 THEN row.commit ELSE c
BY DEF Reported, Row, Outcomes

\* The rows that _update_indexing_status writes and the event it queues.
LEMMA ReportTyped ==
    ASSUME RowsTyped, QueuesTyped, NEW s \in Outcomes, NEW c \in 0..MaxCommits, Report(s, c)
    PROVE  /\ snapshot' \in [Integration -> Row]
           /\ statuses' \in Seq(Reports)
           /\ \A i \in Integration :
                 /\ snapshot'[i].branch = snapshot[i].branch
                 /\ ~Here(i) => snapshot'[i] = snapshot[i]
                 /\ Here(i) =>
                       /\ snapshot'[i].status = s
                       /\ snapshot'[i].commit = IF c = 0 THEN snapshot[i].commit ELSE c
<1>1. \A i \in Integration : snapshot[i] \in Row
  BY DEF RowsTyped
<1>2. snapshot' = [i \in Integration |-> Reported(snapshot[i], s, c)]
  BY DEF Report
<1>3. statuses' \in Seq(Reports)
  BY DEF Report, QueuesTyped, Reports
<1>4. ASSUME NEW i \in Integration
      PROVE  /\ snapshot'[i] \in Row /\ snapshot'[i].branch = snapshot[i].branch
             /\ ~Here(i) => snapshot'[i] = snapshot[i]
             /\ Here(i) =>
                   /\ snapshot'[i].status = s
                   /\ snapshot'[i].commit = IF c = 0 THEN snapshot[i].commit ELSE c
  <2>1. snapshot'[i] = Reported(snapshot[i], s, c)
    BY <1>2
  <2>. QED
    BY <1>1, <2>1, ReportedRow DEF Here
<1>5. snapshot' \in [Integration -> Row]
  <2>1. \A i \in Integration : Reported(snapshot[i], s, c) \in Row
    BY <1>1, ReportedRow
  <2>. QED
    BY <1>2, <2>1
<1>. QED
  BY <1>3, <1>4, <1>5

\* The event that a view of Django writes with its row.
LEMMA PublishTyped ==
    ASSUME QueuesTyped, StoredTyped, NEW i \in Integration,
           NEW action \in {"created", "updated", "deleted"}, NEW row \in Row,
           NEW reasons \in SUBSET Gap, Publish(i, action, row, reasons),
           UNCHANGED <<version, dispatch, statuses, rows, objects, patches>>
    PROVE  QueuesTyped' /\ StoredTyped'
<1>1. PICK tick \in 0..1 :
          /\ clock' = clock + tick
          /\ IF tick = 0 \/ "reconnect" \in reasons THEN Trouble ELSE UNCHANGED trouble
          /\ Note(reasons \cup IF tick = 0 THEN {"tie"} ELSE {})
          /\ events' = Append(events, [id |-> i, action |-> action, row |-> row,
                                       version |-> clock + tick])
  BY DEF Publish
<1>2. clock \in Nat /\ clock' \in Nat
  BY <1>1 DEF QueuesTyped
<1>3. events' \in Seq(CodeEvents)
  <2>1. [id |-> i, action |-> action, row |-> row, version |-> clock + tick] \in CodeEvents
    BY <1>2 DEF CodeEvents
  <2>. QED
    BY <1>1, <2>1 DEF QueuesTyped
<1>4. gaps' \subseteq Gap
  BY <1>1 DEF Note, StoredTyped, Gap
<1>5. trouble' \in Nat /\ patches + trouble' <= MaxTrouble
  BY <1>1, IndexAssumption DEF Trouble, StoredTyped
<1>. QED
  BY <1>2, <1>3, <1>4, <1>5 DEF QueuesTyped, StoredTyped

\* The views of Django, their second step apart.
Viewed ==
    \/ \E i \in Integration, b \in Branch : Connect(i, b)
    \/ \E i \in Integration, to \in Target : LoadPatch(i, to)
    \/ \E i \in Integration : Disconnect(i)

LEMMA DjangoTyped ==
    ASSUME IndexTyped, Viewed \/ SavePatch \/ ApplyStatus
    PROVE  IndexTyped'
<1>. USE DEF gitVars, djangoVars, syncVars, indexVars, bounds
<1>1. RowsTyped /\ QueuesTyped /\ StoredTyped
  BY DEF IndexTyped
<1>2. Absent \in Row /\ \A i \in Integration : connected[i] \in Row
  BY <1>1, IndexAssumption DEF Absent, Row, RowsTyped, Target
<1>3. ASSUME NEW i \in Integration, NEW b \in Branch, Connect(i, b) PROVE IndexTyped'
  <2>1. [status |-> "pending", commit |-> 0, branch |-> b] \in Row
    BY IndexAssumption DEF Row, Target
  <2>2. RowsTyped'
    BY <1>1, <1>3, <2>1 DEF RowsTyped, Connect
  <2>3. QueuesTyped' /\ StoredTyped'
    <3>1. PICK reasons \in SUBSET Gap :
              Publish(i, "created", [status |-> "pending", commit |-> 0, branch |-> b], reasons)
      BY <1>3 DEF Connect, Gap
    <3>. QED
      BY <1>1, <1>3, <2>1, <3>1, PublishTyped DEF Connect
  <2>. QED
    BY <1>3, <2>2, <2>3, CodeLeftAlone DEF IndexTyped, Connect
<1>4. ASSUME NEW i \in Integration, NEW to \in Target, LoadPatch(i, to) PROVE IndexTyped'
  <2>1. RowsTyped'
    <3>1. [connected[i] EXCEPT !.branch = to] \in Row
      BY <1>2 DEF Row
    <3>. QED
      BY <1>1, <1>4, <3>1 DEF RowsTyped, LoadPatch
  <2>2. StoredTyped'
    BY <1>1, <1>4, IndexAssumption DEF StoredTyped, LoadPatch
  <2>. QED
    BY <1>4, <2>1, <2>2, CodeLeftAlone DEF IndexTyped, LoadPatch
<1>5. ASSUME NEW i \in Integration, Disconnect(i) PROVE IndexTyped'
  <2>1. RowsTyped'
    BY <1>1, <1>2, <1>5 DEF RowsTyped, Disconnect
  <2>2. QueuesTyped' /\ StoredTyped'
    BY <1>1, <1>2, <1>5, PublishTyped DEF Disconnect
  <2>. QED
    BY <1>5, <2>1, <2>2, CodeLeftAlone DEF IndexTyped, Disconnect
<1>6. CASE SavePatch
  <2>1. patching.id \in Integration /\ patching.row \in Row
    BY <1>1, <1>6 DEF SavePatch, RowsTyped, Idle
  <2>2. RowsTyped'
    BY <1>1, <1>6, <2>1 DEF RowsTyped, SavePatch
  <2>3. QueuesTyped' /\ StoredTyped'
    <3>1. CASE UNCHANGED <<clock, events, gaps, trouble>>
      BY <1>6, <3>1, CodeLeftAlone DEF SavePatch
    <3>2. ASSUME NEW reasons \in SUBSET Gap,
                 Publish(patching.id, "updated", patching.row, reasons)
          PROVE  QueuesTyped' /\ StoredTyped'
      BY <1>1, <1>6, <2>1, <3>2, PublishTyped DEF SavePatch
    <3>3. {"repointed"} \in SUBSET Gap /\ {} \in SUBSET Gap
      BY DEF Gap
    <3>. QED
      BY <1>6, <3>1, <3>2, <3>3 DEF SavePatch
  <2>. QED
    BY <1>6, <2>2, <2>3, CodeLeftAlone DEF IndexTyped, SavePatch
<1>7. CASE ApplyStatus
  <2>1. Head(statuses) \in Reports /\ statuses' \in Seq(Reports)
    BY <1>1, <1>7 DEF ApplyStatus, QueuesTyped
  <2>2. RowsTyped'
    <3>1. \A i \in Integration :
              Reported(connected[i], Head(statuses).status, Head(statuses).commit) \in Row
      BY <1>2, <2>1, ReportedRow DEF Reports
    <3>. QED
      BY <1>1, <1>7, <3>1 DEF RowsTyped, ApplyStatus
  <2>3. QueuesTyped'
    BY <1>1, <1>7, <2>1 DEF QueuesTyped, ApplyStatus
  <2>. QED
    BY <1>7, <2>2, <2>3, CodeLeftAlone DEF IndexTyped, ApplyStatus
<1>. QED
  BY <1>3, <1>4, <1>5, <1>6, <1>7 DEF Viewed

\* A task that is sent, as the consumer, its dispatch and the webhook send them.
LEMMA NewTask ==
    ASSUME NEW kind \in {"initial", "incremental"}, NEW c \in 1..MaxCommits,
           NEW changed \in SUBSET File, NEW n \in Nat, c \in 1..n
    PROVE  Task(kind, c, changed) \in CodeTasks /\ Sound(Task(kind, c, changed), n)
BY IndexAssumption DEF Task, CodeTasks, Sound, Target

LEMMA NewCleanup ==
    /\ Task("cleanup", 0, {}) \in CodeTasks
    /\ \A n \in Nat : Sound(Task("cleanup", 0, {}), n)
BY IndexAssumption DEF Task, CodeTasks, Sound, Target

\* ConfigSyncConsumer
Synced == HandleEvent \/ HandleFails \/ DispatchInitial \/ DispatchFails

LEMMA SyncTyped ==
    ASSUME IndexTyped, Synced
    PROVE  IndexTyped'
<1>. USE DEF gitVars, djangoVars, syncVars, indexVars, bounds
<1>1. RowsTyped /\ QueuesTyped /\ StoredTyped /\ TasksTyped
  BY DEF IndexTyped
<1>2. /\ Absent \in Row /\ \A i \in Integration : snapshot[i] \in Row
      /\ \A b \in Branch : heads[b] \in 1..MaxCommits /\ heads[b] \in 1..Len(trees)
      /\ Len(trees) \in Nat
  BY <1>1, IndexAssumption DEF Absent, Row, RowsTyped, IndexTyped, BranchTyped, Target
<1>3. CASE HandleEvent
  <2>. DEFINE ev == Head(events)
  <2>1. ev \in CodeEvents /\ events' \in Seq(CodeEvents)
    BY <1>1, <1>3 DEF HandleEvent, QueuesTyped
  <2>2. ev.id \in Integration /\ ev.row \in Row /\ ev.version \in Nat
    BY <2>1 DEF CodeEvents
  <2>3. BranchTyped'
    BY <1>3, CodeLeftAlone DEF HandleEvent
  <2>4. CASE Stale(ev) /\ UNCHANGED <<version, snapshot, tasks, dispatch, gaps>>
    <3>1. QueuesTyped'
      BY <1>1, <1>3, <2>1, <2>4 DEF HandleEvent, QueuesTyped
    <3>. QED
      BY <1>3, <2>3, <2>4, <3>1, CodeLeftAlone DEF HandleEvent, IndexTyped
  <2>5. CASE /\ ev.action = "deleted" /\ snapshot' = [snapshot EXCEPT ![ev.id] = Absent]
             /\ IF Cleans(ev) THEN Send(Task("cleanup", 0, {})) ELSE UNCHANGED tasks
             /\ UNCHANGED <<dispatch, gaps>> /\ version' = ev.version
    <3>1. RowsTyped' /\ QueuesTyped'
      BY <1>1, <1>2, <1>3, <2>1, <2>2, <2>5 DEF HandleEvent, QueuesTyped, RowsTyped
    <3>2. TasksTyped'
      <4>1. CASE UNCHANGED tasks
        BY <1>3, <4>1, CodeLeftAlone DEF HandleEvent
      <4>2. CASE Send(Task("cleanup", 0, {}))
        BY <1>1, <1>2, <1>3, <4>2, NewCleanup, SendKeepsTasks DEF HandleEvent
      <4>. QED
        BY <2>5, <4>1, <4>2
    <3>. QED
      BY <1>3, <2>3, <2>5, <3>1, <3>2, CodeLeftAlone DEF HandleEvent, IndexTyped
  <2>6. CASE /\ snapshot' = [snapshot EXCEPT ![ev.id] = ev.row]
             /\ dispatch' = [pc |-> "dispatch", row |-> ev.row,
                             previous |-> snapshot[ev.id].status]
             /\ gaps' \subseteq gaps \cup {"patch"}
             /\ UNCHANGED tasks /\ version' = ev.version
    <3>1. RowsTyped'
      BY <1>1, <1>2, <1>3, <2>2, <2>6 DEF HandleEvent, RowsTyped
    <3>2. dispatch' \in Dispatches
      BY <1>2, <2>2, <2>6 DEF Dispatches, Row
    <3>3. QueuesTyped'
      BY <1>1, <1>3, <2>1, <2>2, <2>6, <3>2 DEF HandleEvent, QueuesTyped
    <3>4. StoredTyped'
      BY <1>1, <1>3, <2>6 DEF HandleEvent, StoredTyped, Gap
    <3>. QED
      BY <1>3, <2>3, <2>6, <3>1, <3>3, <3>4, CodeLeftAlone DEF HandleEvent, IndexTyped
  <2>. QED
    BY <1>3, <2>4, <2>5, <2>6 DEF HandleEvent, Note, Cleans
<1>6. CASE HandleFails
  <2>1. QueuesTyped'
    BY <1>1, <1>6 DEF HandleFails, QueuesTyped
  <2>2. StoredTyped'
    <3>1. gaps' \subseteq Gap
      BY <1>1, <1>6 DEF HandleFails, StoredTyped, Note, Gap
    <3>2. trouble' \in Nat /\ patches' = patches /\ patches + trouble' <= MaxTrouble
      BY <1>1, <1>6, IndexAssumption DEF HandleFails, StoredTyped, Trouble
    <3>. QED
      BY <1>1, <1>6, <3>1, <3>2 DEF HandleFails, StoredTyped
  <2>3. TasksTyped'
    <3>1. CASE UNCHANGED tasks
      BY <1>6, <3>1, CodeLeftAlone DEF HandleFails
    <3>2. CASE Send(Task("cleanup", 0, {}))
      BY <1>1, <1>2, <1>6, <3>2, NewCleanup, SendKeepsTasks DEF HandleFails
    <3>. QED
      BY <1>6, <3>1, <3>2 DEF HandleFails
  <2>. QED
    BY <1>6, <2>1, <2>2, <2>3, CodeLeftAlone DEF HandleFails, IndexTyped
<1>4. CASE DispatchInitial
  <2>1. QueuesTyped'
    BY <1>1, <1>4 DEF DispatchInitial, QueuesTyped
  <2>2. CASE UNCHANGED tasks
    BY <1>4, <2>1, <2>2, CodeLeftAlone DEF DispatchInitial, IndexTyped
  <2>3. ASSUME NEW b \in Branch, Send(Task("initial", heads[b], {}))
        PROVE  IndexTyped'
    <3>1. TasksTyped'
      BY <1>1, <1>2, <1>4, <2>3, NewTask, SendKeepsTasks DEF DispatchInitial
    <3>. QED
      BY <1>4, <2>1, <3>1, CodeLeftAlone DEF DispatchInitial, IndexTyped
  <2>. QED
    BY <1>4, <2>2, <2>3 DEF DispatchInitial
<1>5. CASE DispatchFails
  <2>1. QueuesTyped'
    BY <1>1, <1>5 DEF DispatchFails, QueuesTyped
  <2>2. StoredTyped'
    BY <1>1, <1>5, IndexAssumption DEF DispatchFails, StoredTyped, Trouble, Note, Gap
  <2>. QED
    BY <1>5, <2>1, <2>2, CodeLeftAlone DEF DispatchFails, IndexTyped
<1>. QED
  BY <1>3, <1>4, <1>5, <1>6 DEF Synced

\* receive_github_webhook
Pushed ==
    \E b \in Branch, edits, gone \in SUBSET File, listed \in BOOLEAN : Push(b, edits, gone, listed)

LEMMA PushTyped ==
    ASSUME IndexTyped, NEW b \in Branch, NEW edits \in SUBSET File, NEW gone \in SUBSET File,
           NEW listed \in BOOLEAN, Push(b, edits, gone, listed)
    PROVE  IndexTyped' /\ Len(trees') = Len(trees) + 1
<1>. USE DEF gitVars, djangoVars, syncVars, indexVars, bounds
<1>1. BranchTyped /\ StoredTyped /\ TasksTyped
  BY DEF IndexTyped
<1>. DEFINE new == Len(trees) + 1
            tree == [f \in File |-> IF f \in edits THEN new
                                    ELSE IF f \in gone THEN 0 ELSE trees[heads[b]][f]]
<1>2. /\ new \in 1..MaxCommits /\ Len(trees) \in 1..MaxCommits /\ MaxCommits \in Nat
      /\ heads \in [Branch -> 1..Len(trees)] /\ trees \in Seq([File -> 0..MaxCommits])
  BY <1>1, IndexAssumption DEF BranchTyped, Push
<1>3. tree \in [File -> 0..MaxCommits]
  BY <1>2
<1>4. trees' = Append(trees, tree) /\ heads' = [heads EXCEPT ![b] = new]
  BY DEF Push
<1>5. trees' \in Seq([File -> 0..MaxCommits]) /\ Len(trees') = new
  BY <1>2, <1>3, <1>4
<1>6. BranchTyped'
  <2>1. heads' \in [Branch -> 1..new]
    BY <1>2, <1>4
  <2>. QED
    BY <1>2, <1>5, <2>1 DEF BranchTyped
<1>7. StoredTyped'
  <2>1. (UNCHANGED <<trouble, gaps>>) \/ (Trouble /\ Note({"branch"}))
    BY DEF Push
  <2>2. UNCHANGED <<rows, objects, patches>>
    BY DEF Push
  <2>3. gaps' \subseteq Gap
    BY <1>1, <2>1 DEF StoredTyped, Note, Gap
  <2>4. trouble' \in Nat /\ patches + trouble' <= MaxTrouble
    BY <1>1, <2>1, IndexAssumption DEF StoredTyped, Trouble
  <2>. QED
    BY <1>1, <2>2, <2>3, <2>4 DEF StoredTyped
<1>8. TasksTyped'
  <2>1. CASE UNCHANGED tasks
    <3>1. ASSUME NEW t \in TaskIds PROVE Sound(tasks[t], Len(trees'))
      <4>1. Sound(tasks[t], Len(trees))
        BY <1>1 DEF TasksTyped
      <4>2. ASSUME NEW c \in 1..Len(trees) PROVE c \in 1..Len(trees')
        BY <1>1, <1>2, <1>5
      <4>. QED
        BY <4>1, <4>2 DEF Sound
    <3>. QED
      BY <1>1, <2>1, <3>1 DEF TasksTyped, TaskIds
  <2>2. ASSUME NEW files \in SUBSET File, Send(Task("incremental", new, files))
        PROVE  TasksTyped'
    <3>1. /\ Task("incremental", new, files) \in CodeTasks
          /\ Sound(Task("incremental", new, files), Len(trees)')
      <4>1. Len(trees)' \in Nat /\ new \in 1..Len(trees)'
        BY <1>2, <1>5
      <4>. HIDE DEF new
      <4>. QED
        BY <1>2, <4>1, NewTask
    <3>2. Len(trees) \in Nat /\ Len(trees)' \in Nat /\ Len(trees)' >= Len(trees)
      BY <1>2, <1>5
    <3>. QED
      BY <1>1, <2>2, <3>1, <3>2, SendKeepsTasks
  <2>. QED
    BY <2>1, <2>2 DEF Push
<1>. QED
  BY <1>5, <1>6, <1>7, <1>8, CodeLeftAlone DEF IndexTyped, Push

\* A step of a task reports a status, or leaves the snapshots and the queue alone.
LEMMA WorkReports ==
    ASSUME IndexTyped, NEW t \in TaskIds, Working(t)
    PROVE  \/ UNCHANGED <<snapshot, statuses>>
           \/ \E s \in Outcomes, c \in 0..MaxCommits : Report(s, c)
<1>1. \/ UNCHANGED <<snapshot, statuses>>
      \/ Report("indexing", 0) \/ Report("failed", 0) \/ Report("indexed", tasks[t].commit)
  BY DEF Working, Work, StartInitial, Download, StartIncremental, GiveUp, Upload, InsertRows,
         DeleteRows, Complete, CleanRows, CleanObjects, CleanFails, FailInitial,
         StopsUnreported, LoseWorker, SkipFile
<1>2. /\ {"indexing", "indexed", "failed"} \subseteq Outcomes
      /\ 0 \in 0..MaxCommits /\ tasks[t].commit \in 0..MaxCommits
  BY TaskIsTyped, IndexAssumption DEF Outcomes, CodeTasks
<1>. QED
  BY <1>1, <1>2

LEMMA WorkTyped ==
    ASSUME IndexTyped, NEW t \in TaskIds, Working(t)
    PROVE  IndexTyped'
<1>. USE DEF gitVars, djangoVars, syncVars, indexVars, bounds
<1>1. RowsTyped /\ QueuesTyped /\ StoredTyped /\ TasksTyped
  BY DEF IndexTyped
<1>2. BranchTyped' /\ TasksTyped'
  BY <1>1, WorkGoesForward, CodeLeftAlone, PutKeepsTasks DEF Forward
<1>3. /\ tasks[t] \in CodeTasks /\ Sound(tasks[t], Len(trees))
      /\ tasks[t].commit \in 0..MaxCommits /\ Len(trees) \in 1..MaxCommits
      /\ trees \in Seq([File -> 0..MaxCommits]) /\ MaxCommits \in Nat
  BY TaskIsTyped, IndexAssumption DEF CodeTasks, IndexTyped, BranchTyped
<1>4. UNCHANGED <<connected, removed, patching, clock, version, events, dispatch, patches>>
  BY WorkLeaves
<1>5. \/ UNCHANGED <<snapshot, statuses>>
      \/ \E s \in Outcomes, c \in 0..MaxCommits : Report(s, c)
  BY WorkReports
<1>6. RowsTyped' /\ QueuesTyped'
  <2>1. CASE UNCHANGED <<snapshot, statuses>>
    BY <1>4, <2>1, CodeLeftAlone
  <2>2. ASSUME NEW s \in Outcomes, NEW c \in 0..MaxCommits, Report(s, c)
        PROVE  RowsTyped' /\ QueuesTyped'
    BY <1>1, <1>4, <2>2, ReportTyped DEF RowsTyped, QueuesTyped
  <2>. QED
    BY <1>5, <2>1, <2>2
<1>7. StoredTyped'
  <2>1. gaps' \subseteq Gap
    BY <1>1
    DEF StoredTyped, Working, Work, StartInitial, Download, StartIncremental, GiveUp, Upload,
        InsertRows, DeleteRows, Complete, CleanRows, CleanObjects, CleanFails, FailInitial,
        StopsUnreported, LoseWorker, SkipFile, Note, StartGaps, Gap
  <2>0. (UNCHANGED trouble) \/ Trouble
    BY DEF Working, Work, StartInitial, Download, StartIncremental, GiveUp, Upload,
        InsertRows, DeleteRows, Complete, CleanRows, CleanObjects, CleanFails, FailInitial,
        StopsUnreported, LoseWorker, SkipFile
  <2>2. trouble' \in Nat /\ patches + trouble' <= MaxTrouble
    BY <1>1, <2>0, IndexAssumption DEF StoredTyped, Trouble
  <2>3. rows' \in [File -> [commit : 0..MaxCommits, content : 0..MaxCommits]]
    <3>1. CASE UNCHANGED rows
      BY <1>1, <3>1 DEF StoredTyped
    <3>2. CASE rows' = [f \in File |-> NoRows]
      BY <1>3, <3>2 DEF NoRows
    <3>3. CASE \E f \in File : DeleteRows(t, f)
      BY <1>1, <1>3, <3>3 DEF DeleteRows, StoredTyped, NoRows
    <3>4. ASSUME NEW f \in File, InsertRows(t, f)
          PROVE  rows' \in [File -> [commit : 0..MaxCommits, content : 0..MaxCommits]]
      <4>1. tasks[t].base \in 1..Len(trees)
        BY <1>3, <3>4 DEF InsertRows, Sound
      <4>2. Content(t, f) \in 0..MaxCommits
        BY <1>3, <4>1 DEF Content
      <4>. QED
        BY <1>1, <1>3, <3>4, <4>2 DEF InsertRows, StoredTyped
    <3>. QED
      BY <3>1, <3>2, <3>3, <3>4
      DEF Working, Work, StartInitial, Download, StartIncremental, GiveUp, Upload,
          Complete, CleanRows, CleanObjects, CleanFails, FailInitial, StopsUnreported,
          LoseWorker, SkipFile
  <2>4. objects' \in [File -> [1..MaxCommits -> 0..MaxCommits]]
    <3>1. CASE UNCHANGED objects
      BY <1>1, <3>1 DEF StoredTyped
    <3>2. CASE objects' = [f \in File |-> [c \in 1..MaxCommits |-> 0]]
      BY <1>3, <3>2
    <3>3. ASSUME NEW f \in File, Upload(t, f)
          PROVE  objects' \in [File -> [1..MaxCommits -> 0..MaxCommits]]
      <4>1. tasks[t].base \in 1..Len(trees) /\ tasks[t].commit \in 1..MaxCommits
        BY <1>3, <3>3 DEF Upload, Cursor, Sound
      <4>2. Content(t, f) \in 0..MaxCommits
        BY <1>3, <4>1 DEF Content
      <4>. QED
        BY <1>1, <3>3, <4>1, <4>2 DEF Upload, StoredTyped
    <3>. QED
      BY <3>1, <3>2, <3>3
      DEF Working, Work, StartInitial, Download, StartIncremental, GiveUp, InsertRows,
          DeleteRows, Complete, CleanRows, CleanObjects, CleanFails, FailInitial,
          StopsUnreported, LoseWorker, SkipFile
  <2>. QED
    BY <1>1, <1>4, <2>1, <2>2, <2>3, <2>4, SMTT(30) DEF StoredTyped
<1>. QED
  BY <1>2, <1>6, <1>7 DEF IndexTyped

-----------------------------------------------------------------------------
(* IndexCode: how many tasks there are *)

\* What was sent, and what may still send a task.
Owed == Len(tasks) + Len(events) + (IF dispatch = Idle THEN 0 ELSE 1)
                                 + (IF patching = Idle THEN 0 ELSE 1)
Standing == {i \in Integration : connected[i] # Absent}

\* A row is Absent, or it has a status.
RealRows ==
    /\ \A i \in Integration : connected[i] = Absent \/ connected[i].status # "absent"
    /\ patching # Idle => patching.row.status # "absent"

\* The first n connections were made: each brought a first index and, removed, a cleanup; each
\* later commit a push; each PATCH may bring one more, and a handler that failed a cleanup.
Allowed(n) == Len(trees) - 1 + patches + trouble + n + Cardinality(removed)
CountedFor(n) ==
    /\ removed \cup Standing = 1..n /\ removed \cap Standing = {}
    /\ Owed <= Allowed(n)
TasksCounted ==
    /\ RealRows
    /\ \E n \in 0..MaxConnects : CountedFor(n)

LEMMA LengthsTyped ==
    ASSUME IndexTyped
    PROVE  /\ Len(tasks) \in Nat /\ Len(events) \in Nat /\ Len(trees) \in Nat
           /\ patches \in Nat /\ trouble \in Nat /\ Owed \in Nat
BY DEF IndexTyped, TasksTyped, QueuesTyped, BranchTyped, StoredTyped, Owed

LEMMA RemovedCounted ==
    ASSUME NEW n \in Nat, CountedFor(n)
    PROVE  /\ IsFiniteSet(removed) /\ Cardinality(removed) \in Nat
           /\ Cardinality(removed) <= n
<1>1. IsFiniteSet(1..n) /\ Cardinality(1..n) = n
  BY FS_Interval
<1>2. removed \in SUBSET (1..n)
  BY DEF CountedFor
<1>. QED
  BY <1>1, <1>2, FS_Subset, FS_CardinalityType

LEMMA CountBoundsTasks ==
    ASSUME IndexTyped, TasksCounted
    PROVE  Len(tasks) <= MaxTasks
<1>1. PICK n \in 0..MaxConnects : CountedFor(n)
  BY DEF TasksCounted
<1>2. n \in Nat /\ Cardinality(removed) \in Nat /\ Cardinality(removed) <= n
  BY <1>1, RemovedCounted
<1>3. Len(trees) <= MaxCommits /\ patches + trouble <= MaxTrouble
  BY IndexAssumption DEF IndexTyped, BranchTyped, StoredTyped
<1>4. Len(tasks) <= Owed
  BY LengthsTyped DEF Owed
<1>5. Owed <= Len(trees) - 1 + patches + trouble + n + Cardinality(removed)
  BY <1>1 DEF CountedFor, Allowed
<1>6. /\ Len(tasks) \in Nat /\ Len(trees) \in Nat /\ patches \in Nat /\ trouble \in Nat
      /\ Owed \in Nat /\ MaxConnects \in Nat /\ MaxCommits \in Nat /\ MaxTrouble \in Nat
      /\ n <= MaxConnects
  BY LengthsTyped, IndexAssumption
<1>. QED
  BY <1>2, <1>3, <1>4, <1>5, <1>6 DEF MaxTasks

LEMMA SameInterval ==
    ASSUME NEW m \in Nat, NEW n \in Nat, 1..m = 1..n
    PROVE  m = n
<1>1. CASE m < n
  <2>1. n \in 1..n /\ n \notin 1..m
    BY <1>1
  <2>. QED
    BY <2>1
<1>2. CASE n < m
  <2>1. m \in 1..m /\ m \notin 1..n
    BY <1>2
  <2>. QED
    BY <2>1
<1>. QED
  BY <1>1, <1>2

\* A step that neither connects nor disconnects, and sends a task more only if it counts it.
LEMMA CountKept ==
    ASSUME IndexTyped, TasksCounted, UNCHANGED removed, Standing' = Standing,
           RealRows', Owed' \in Nat,
           Len(trees') \in {Len(trees), Len(trees) + 1},
           patches' \in {patches, patches + 1}, trouble' \in {trouble, trouble + 1},
           \/ Owed' <= Owed
           \/ /\ Owed' <= Owed + 1
              /\ \/ Len(trees') = Len(trees) + 1
                 \/ patches' = patches + 1 \/ trouble' = trouble + 1
    PROVE  TasksCounted'
<1>1. PICK n \in 0..MaxConnects : CountedFor(n)
  BY DEF TasksCounted
<1>2. n \in Nat /\ Cardinality(removed) \in Nat
  BY <1>1, RemovedCounted
<1>3. Owed <= Len(trees) - 1 + patches + trouble + n + Cardinality(removed)
  BY <1>1 DEF CountedFor, Allowed
<1>4. /\ Len(trees) \in Nat /\ patches \in Nat /\ trouble \in Nat /\ Owed \in Nat
  BY LengthsTyped
<1>5. Owed' <= Len(trees') - 1 + patches' + trouble' + n + Cardinality(removed)
  BY <1>2, <1>3, <1>4
<1>6. CountedFor(n)'
  BY <1>1, <1>5 DEF CountedFor, Allowed
<1>. QED
  BY <1>6 DEF TasksCounted

LEMMA TroubleGrows ==
    ASSUME IndexTyped, Trouble \/ UNCHANGED trouble
    PROVE  /\ trouble' \in {trouble, trouble + 1}
           /\ trouble' \in Nat /\ trouble' >= trouble
BY LengthsTyped DEF Trouble

LEMMA RealKept ==
    ASSUME IndexTyped, RealRows, Viewed \/ SavePatch \/ ApplyStatus
    PROVE  RealRows'
<1>. USE DEF gitVars, djangoVars, syncVars, indexVars, bounds
<1>1. RowsTyped
  BY DEF IndexTyped
<1>2. ASSUME NEW i \in Integration, NEW row \in Row, row = Absent \/ row.status # "absent",
             connected' = [connected EXCEPT ![i] = row], UNCHANGED patching \/ patching' = Idle
      PROVE  RealRows'
  BY <1>1, <1>2 DEF RowsTyped, RealRows
<1>3. ASSUME NEW i \in Integration, NEW b \in Branch, Connect(i, b) PROVE RealRows'
  <2>1. [status |-> "pending", commit |-> 0, branch |-> b] \in Row
    BY IndexAssumption DEF Row, Target
  <2>. QED
    BY <1>2, <1>3, <2>1 DEF Connect
<1>4. ASSUME NEW i \in Integration, NEW to \in Target, LoadPatch(i, to) PROVE RealRows'
  <2>1. connected[i] \in Row /\ connected[i].status # "absent"
    BY <1>1, <1>4 DEF LoadPatch, RealRows, RowsTyped
  <2>2. patching'.row = [connected[i] EXCEPT !.branch = to]
    BY <1>4 DEF LoadPatch
  <2>3. patching'.row.status = connected[i].status
    BY <2>1, <2>2 DEF Row
  <2>. QED
    BY <1>4, <2>1, <2>3 DEF LoadPatch, RealRows
<1>5. ASSUME NEW i \in Integration, Disconnect(i) PROVE RealRows'
  <2>1. Absent \in Row
    BY IndexAssumption DEF Absent, Row, Target
  <2>. QED
    BY <1>2, <1>5, <2>1 DEF Disconnect
<1>6. CASE SavePatch
  <2>1. /\ patching.id \in Integration /\ patching.row \in Row
        /\ patching.row.status # "absent" /\ patching' = Idle
    BY <1>1, <1>6 DEF SavePatch, RowsTyped, RealRows, Idle
  <2>. QED
    BY <1>2, <1>6, <2>1 DEF SavePatch, RealRows
<1>7. CASE ApplyStatus
  <2>1. /\ Head(statuses).status \in Outcomes /\ Head(statuses).commit \in 0..MaxCommits
    <3>1. Head(statuses) \in Reports
      BY <1>7 DEF ApplyStatus, IndexTyped, QueuesTyped
    <3>. QED
      BY <3>1 DEF Reports
  <2>2. ASSUME NEW j \in Integration
        PROVE  connected'[j] = Absent \/ connected'[j].status # "absent"
    <3>1. connected'[j] = Reported(connected[j], Head(statuses).status, Head(statuses).commit)
      BY <1>7 DEF ApplyStatus
    <3>2. connected[j] \in Row
      BY <1>1 DEF RowsTyped
    <3>3. connected[j].branch \notin Branch => connected'[j] = connected[j]
      BY <2>1, <3>1, <3>2, ReportedRow
    <3>4. connected[j].branch \in Branch => connected'[j].status \in Outcomes
      BY <2>1, <3>1, <3>2, ReportedRow
    <3>. QED
      BY <3>3, <3>4 DEF RealRows, Outcomes
  <2>. QED
    BY <1>7, <2>2 DEF ApplyStatus, RealRows
<1>. QED
  BY <1>3, <1>4, <1>5, <1>6, <1>7 DEF Viewed

\* An event that a view writes.
LEMMA PublishCounted ==
    ASSUME IndexTyped, NEW i, NEW action, NEW row, NEW reasons, Publish(i, action, row, reasons)
    PROVE  /\ Len(events') = Len(events) + 1 /\ trouble' \in {trouble, trouble + 1}
           /\ trouble' \in Nat /\ trouble' >= trouble
<1>1. Len(events') = Len(events) + 1
  BY DEF Publish, IndexTyped, QueuesTyped
<1>2. Trouble \/ UNCHANGED trouble
  BY DEF Publish
<1>. QED
  BY <1>1, <1>2, TroubleGrows

LEMMA ConnectCounted ==
    ASSUME IndexTyped, TasksCounted, NEW i \in Integration, NEW b \in Branch, Connect(i, b)
    PROVE  TasksCounted'
<1>. USE DEF gitVars, djangoVars, syncVars, indexVars, bounds
<1>1. PICK n \in 0..MaxConnects : CountedFor(n)
  BY DEF TasksCounted
<1>2. n \in Nat /\ i \in Nat /\ i >= 1 /\ i <= MaxConnects /\ MaxConnects \in Nat
  BY IndexAssumption DEF Integration
<1>3. i = n + 1
  <2>1. removed \cup Standing = 1..(i - 1) /\ removed \cup Standing = 1..n
    BY <1>1 DEF Connect, Standing, CountedFor
  <2>2. i - 1 \in Nat
    BY <1>2
  <2>3. i - 1 = n
    BY <1>2, <2>1, <2>2, SameInterval
  <2>. QED
    BY <1>2, <2>3
<1>4. /\ Len(events') = Len(events) + 1 /\ trouble' \in Nat /\ trouble' >= trouble
      /\ UNCHANGED <<trees, patches, removed, tasks, dispatch, patching>>
  BY PublishCounted DEF Connect
<1>5. connected'[i] # Absent /\ \A j \in Integration : j # i => connected'[j] = connected[j]
  BY DEF Connect, IndexTyped, RowsTyped, Absent
<1>6. Standing' = Standing \cup {i}
  BY <1>5 DEF Standing
<1>7. i \notin removed /\ i \notin Standing
  BY <1>1, <1>2, <1>3 DEF CountedFor
<1>8. /\ removed \cup Standing' = 1..(n + 1) /\ removed \cap Standing' = {}
      /\ n + 1 \in 0..MaxConnects
  <2>1. (1..n) \cup {n + 1} = 1..(n + 1) /\ n + 1 \in 0..MaxConnects
    BY <1>2, <1>3
  <2>. QED
    BY <1>1, <1>3, <1>6, <1>7, <2>1 DEF CountedFor
<1>9. Owed' <= Allowed(n + 1)'
  <2>1. Owed' = Owed + 1
    BY <1>4, LengthsTyped DEF Owed
  <2>2. Owed <= Len(trees) - 1 + patches + trouble + n + Cardinality(removed)
    BY <1>1 DEF CountedFor, Allowed
  <2>3. Cardinality(removed) \in Nat
    BY <1>1, <1>2, RemovedCounted
  <2>4. Owed' <= Len(trees') - 1 + patches' + trouble' + (n + 1) + Cardinality(removed')
    BY <1>2, <1>4, <2>1, <2>2, <2>3, LengthsTyped, SMTT(30)
  <2>. QED
    BY <2>4 DEF Allowed
<1>10. CountedFor(n + 1)'
  BY <1>4, <1>8, <1>9 DEF CountedFor
<1>11. RealRows'
  BY RealKept DEF TasksCounted, Viewed
<1>. QED
  BY <1>8, <1>10, <1>11 DEF TasksCounted

LEMMA DisconnectCounted ==
    ASSUME IndexTyped, TasksCounted, NEW i \in Integration, Disconnect(i)
    PROVE  TasksCounted'
<1>. USE DEF gitVars, djangoVars, syncVars, indexVars, bounds
<1>1. PICK n \in 0..MaxConnects : CountedFor(n)
  BY DEF TasksCounted
<1>2. n \in Nat /\ IsFiniteSet(removed) /\ Cardinality(removed) \in Nat
  BY <1>1, RemovedCounted
<1>3. /\ Len(events') = Len(events) + 1 /\ trouble' \in Nat /\ trouble' >= trouble
      /\ UNCHANGED <<trees, patches, tasks, dispatch, patching>>
  BY PublishCounted DEF Disconnect
<1>4. /\ i \in Standing /\ i \notin removed
      /\ removed' = removed \cup {i} /\ Standing' = Standing \ {i}
  <2>1. connected[i] # Absent /\ removed' = removed \cup {i}
    BY DEF Disconnect
  <2>2. connected'[i] = Absent /\ \A j \in Integration : j # i => connected'[j] = connected[j]
    BY DEF Disconnect, IndexTyped, RowsTyped
  <2>. QED
    BY <1>1, <2>1, <2>2 DEF Standing, CountedFor
<1>5. removed' \cup Standing' = 1..n /\ removed' \cap Standing' = {}
  BY <1>1, <1>4 DEF CountedFor
<1>6. Cardinality(removed') = Cardinality(removed) + 1
  BY <1>2, <1>4, FS_AddElement
<1>7. Owed' <= Allowed(n)'
  <2>1. Owed' = Owed + 1
    BY <1>3, LengthsTyped DEF Owed
  <2>2. Owed <= Len(trees) - 1 + patches + trouble + n + Cardinality(removed)
    BY <1>1 DEF CountedFor, Allowed
  <2>3. Owed' <= Len(trees') - 1 + patches' + trouble' + n + Cardinality(removed')
    BY <1>2, <1>3, <1>6, <2>1, <2>2, LengthsTyped, SMTT(30)
  <2>. QED
    BY <2>3 DEF Allowed
<1>. QED
  BY <1>5, <1>7, RealKept DEF TasksCounted, CountedFor, Viewed

LEMMA DjangoCounted ==
    ASSUME IndexTyped, TasksCounted, Viewed \/ SavePatch \/ ApplyStatus
    PROVE  TasksCounted'
<1>. USE DEF gitVars, djangoVars, syncVars, indexVars, bounds
<1>0. /\ Len(tasks) \in Nat /\ Len(events) \in Nat /\ Len(trees) \in Nat
      /\ patches \in Nat /\ trouble \in Nat /\ Owed \in Nat
  BY LengthsTyped
<1>1. RowsTyped /\ RealRows'
  BY RealKept DEF IndexTyped, TasksCounted
<1>2. ASSUME NEW i \in Integration, NEW to \in Target, LoadPatch(i, to) PROVE TasksCounted'
  <2>1. patching' # Idle /\ patching = Idle /\ patches' = patches + 1
    BY <1>2 DEF LoadPatch, Idle
  <2>3. Owed' = Owed + 1 /\ Owed' \in Nat
    BY <1>0, <1>2, <2>1 DEF LoadPatch, Owed
  <2>4. UNCHANGED <<removed, connected, trees, trouble>> /\ Standing' = Standing
    BY <1>2 DEF LoadPatch, Standing
  <2>. QED
    BY <1>1, <2>1, <2>3, <2>4, CountKept
<1>3. CASE SavePatch
  <2>1. patching # Idle /\ patching' = Idle
    BY <1>3 DEF SavePatch, Idle
  <2>2. patching.id \in Integration /\ patching.row # Absent
    BY <1>1, <2>1 DEF RowsTyped, RealRows, TasksCounted, Absent
  <2>3. /\ Len(events') <= Len(events) + 1 /\ Len(events') \in Nat
        /\ trouble' \in {trouble, trouble + 1}
    <3>1. CASE UNCHANGED <<events, trouble>>
      BY <1>0, <3>1
    <3>2. CASE \E reasons : Publish(patching.id, "updated", patching.row, reasons)
      BY <1>0, <3>2, PublishCounted
    <3>. QED
      BY <1>3, <3>1, <3>2 DEF SavePatch
  <2>4. Owed' <= Owed /\ Owed' \in Nat
    BY <1>0, <1>3, <2>1, <2>3 DEF SavePatch, Owed
  <2>5. \A j \in Integration : connected'[j] = Absent <=> connected[j] = Absent
    BY <1>1, <1>3, <2>2 DEF SavePatch, RowsTyped
  <2>6. Standing' = Standing /\ UNCHANGED <<trees, removed, patches>>
    BY <1>3, <2>5 DEF Standing, SavePatch
  <2>. QED
    BY <1>1, <2>3, <2>4, <2>6, CountKept
<1>4. CASE ApplyStatus
  <2>1. Head(statuses) \in Reports
    BY <1>4 DEF ApplyStatus, IndexTyped, QueuesTyped
  <2>2. ASSUME NEW j \in Integration
        PROVE  connected'[j] = Absent <=> connected[j] = Absent
    <3>1. connected'[j] = Reported(connected[j], Head(statuses).status, Head(statuses).commit)
      BY <1>4 DEF ApplyStatus
    <3>2. /\ connected[j] \in Row /\ Head(statuses).status \in Outcomes
          /\ Head(statuses).commit \in 0..MaxCommits
      BY <1>1, <2>1 DEF RowsTyped, Reports
    <3>3. /\ connected'[j].branch = connected[j].branch
          /\ connected[j].branch \notin Branch => connected'[j] = connected[j]
      BY <3>1, <3>2, ReportedRow
    <3>. QED
      BY <3>3 DEF Absent, Branch
  <2>3. Standing' = Standing /\ Owed' = Owed
        /\ UNCHANGED <<trees, removed, patches, trouble, patching>>
    BY <1>4, <2>2 DEF Standing, Owed, ApplyStatus
  <2>. QED
    BY <1>0, <1>1, <2>3, CountKept
<1>. QED
  BY <1>2, <1>3, <1>4, ConnectCounted, DisconnectCounted DEF Viewed

\* The other steps send a task for an event, a dispatch, a push or a failure, or none.
LEMMA QueueCounted ==
    ASSUME IndexTyped, TasksCounted,
           Synced \/ Pushed \/ \E t \in TaskIds : Working(t)
    PROVE  TasksCounted'
<1>. USE DEF gitVars, djangoVars, syncVars, indexVars, bounds
<1>0. /\ Len(tasks) \in Nat /\ Len(events) \in Nat /\ Len(trees) \in Nat
      /\ patches \in Nat /\ trouble \in Nat /\ Owed \in Nat
  BY LengthsTyped
<1>1. UNCHANGED <<connected, patching>> => RealRows'
  BY DEF TasksCounted, RealRows
<1>2. connected' = connected => Standing' = Standing
  BY DEF Standing
<1>3. \A k : Send(k) => Len(tasks') = Len(tasks) + 1
  BY DEF Send, IndexTyped, TasksTyped
<1>5. CASE HandleEvent
  <2>1. dispatch = Idle /\ Len(events') = Len(events) - 1 /\ Len(events') \in Nat
    BY <1>0, <1>5 DEF HandleEvent, IndexTyped, QueuesTyped
  <2>2. \/ UNCHANGED tasks
        \/ Len(tasks') = Len(tasks) + 1 /\ dispatch' = dispatch
    BY <1>3, <1>5 DEF HandleEvent, Cleans
  <2>3. Owed' <= Owed /\ Owed' \in Nat
    BY <1>0, <1>5, <2>1, <2>2 DEF HandleEvent, Owed
  <2>4. UNCHANGED <<removed, connected, patching, trees, patches, trouble>>
    BY <1>5 DEF HandleEvent
  <2>. QED
    BY <1>1, <1>2, <2>3, <2>4, CountKept
<1>9. CASE HandleFails
  <2>1. Len(events') <= Len(events) /\ Len(events') \in Nat
    BY <1>0, <1>9 DEF HandleFails, IndexTyped, QueuesTyped
  <2>2. UNCHANGED tasks \/ Len(tasks') = Len(tasks) + 1
    BY <1>3, <1>9 DEF HandleFails
  <2>3. UNCHANGED <<removed, connected, patching, trees, patches, dispatch>>
    BY <1>9 DEF HandleFails
  <2>4. Owed' <= Owed + 1 /\ Owed' \in Nat
    BY <1>0, <2>1, <2>2, <2>3 DEF Owed
  <2>5. trouble' = trouble + 1
    BY <1>9 DEF HandleFails, Trouble
  <2>. QED
    BY <1>1, <1>2, <2>3, <2>4, <2>5, CountKept
<1>6. CASE DispatchInitial \/ DispatchFails
  <2>1. dispatch # Idle /\ dispatch' = Idle
    BY <1>6 DEF DispatchInitial, DispatchFails, Idle
  <2>2. UNCHANGED tasks \/ Len(tasks') = Len(tasks) + 1
    BY <1>3, <1>6 DEF DispatchInitial, DispatchFails
  <2>3. Owed' <= Owed /\ Owed' \in Nat
    BY <1>0, <1>6, <2>1, <2>2 DEF DispatchInitial, DispatchFails, Owed
  <2>4. UNCHANGED <<removed, connected, patching, trees, patches>>
        /\ (Trouble \/ UNCHANGED trouble)
    BY <1>6 DEF DispatchInitial, DispatchFails
  <2>. QED
    BY <1>0, <1>1, <1>2, <2>3, <2>4, TroubleGrows, CountKept
<1>7. CASE Pushed
  <2>0. PICK b \in Branch, edits \in SUBSET File, gone \in SUBSET File, listed \in BOOLEAN :
            Push(b, edits, gone, listed)
    BY <1>7 DEF Pushed
  <2>1. Len(trees') = Len(trees) + 1
    BY <2>0, PushTyped
  <2>2. UNCHANGED tasks \/ Len(tasks') = Len(tasks) + 1
    BY <1>3, <2>0 DEF Push
  <2>3. UNCHANGED <<events, dispatch, removed, connected, patching, patches>>
        /\ (Trouble \/ UNCHANGED trouble)
    BY <2>0 DEF Push
  <2>4. Owed' <= Owed + 1 /\ Owed' \in Nat
    BY <1>0, <2>2, <2>3 DEF Owed
  <2>. QED
    BY <1>0, <1>1, <1>2, <2>1, <2>3, <2>4, TroubleGrows, CountKept
<1>8. ASSUME NEW t \in TaskIds, Working(t)
      PROVE  TasksCounted'
  <2>0. (\E k : Forward(t, k)) /\ UNCHANGED trees
    BY <1>8, WorkGoesForward
  <2>3. tasks \in Seq(CodeTasks)
    BY DEF IndexTyped, TasksTyped
  <2>1. Len(tasks') = Len(tasks) /\ UNCHANGED trees
    BY <2>0, <2>3 DEF Forward, Put
  <2>2. UNCHANGED <<connected, removed, patching, events, dispatch, patches>>
    BY <1>8, WorkLeaves
  <2>4. Owed' = Owed
    BY <2>1, <2>2, ZenonT(30) DEF Owed
  <2>5. Trouble \/ UNCHANGED trouble
    BY <1>8
    DEF Working, Work, StartInitial, Download, StartIncremental, GiveUp, Upload,
        InsertRows, DeleteRows, Complete, CleanRows, CleanObjects, CleanFails, FailInitial,
        StopsUnreported, LoseWorker, SkipFile
  <2>. QED
    BY <1>0, <1>1, <1>2, <2>1, <2>2, <2>4, <2>5, TroubleGrows, CountKept
<1>. QED
  BY <1>5, <1>6, <1>7, <1>8, <1>9 DEF Synced

-----------------------------------------------------------------------------
(* IndexCode: rows and objects *)

\* While tasks of the repository do not overlap one runs at a time, and a cleanup that has
\* deleted the rows finds none when it deletes the objects; a file is stored before its rows
\* are inserted.
OneRuns ==
    \A t, u \in TaskIds :
        tasks[t].pc \notin {"queued", "done"} /\ tasks[u].pc \notin {"queued", "done"} => t = u
CleanedFirst ==
    \A t \in TaskIds : tasks[t].pc = "objects" => \A f \in File : rows[f] = NoRows
StoredFirst ==
    \A t \in TaskIds, f \in File :
        tasks[t].pc = "files" /\ f \in tasks[t].at => objects[f][tasks[t].commit] # 0
RowsLead ==
    \A f \in File : rows[f] # NoRows =>
        rows[f].commit \in 1..MaxCommits /\ objects[f][rows[f].commit] # 0
RowsKept ==
    gaps \cap {"overlap", "cleanup"} = {} =>
        OneRuns /\ CleanedFirst /\ StoredFirst /\ RowsLead

NotWorking == Viewed \/ SavePatch \/ ApplyStatus \/ Synced \/ Pushed

\* Whatever is not a step of a task sends at most one.
LEMMA OthersOnlySend ==
    ASSUME IndexTyped, NotWorking
    PROVE  /\ UNCHANGED <<rows, objects>> /\ gaps \subseteq gaps'
           /\ \/ UNCHANGED tasks
              \/ /\ Len(tasks') = Len(tasks) + 1 /\ tasks'[Len(tasks) + 1].pc = "queued"
                 /\ \A t \in TaskIds : tasks'[t] = tasks[t]
<1>. USE DEF gitVars, djangoVars, syncVars, indexVars, bounds
<1>1. UNCHANGED <<rows, objects>>
  BY DEF NotWorking, Viewed, Synced, Pushed, Connect, LoadPatch, Disconnect, SavePatch,
         ApplyStatus, HandleEvent, HandleFails, DispatchInitial, DispatchFails, Push
<1>2. gaps \subseteq gaps'
  BY DEF NotWorking, Viewed, Synced, Pushed, Connect, LoadPatch, Disconnect, SavePatch,
         ApplyStatus, HandleEvent, HandleFails, DispatchInitial, DispatchFails, Push, Publish, Note
<1>3. \/ UNCHANGED tasks
      \/ \E kind, c, changed : Send(Task(kind, c, changed))
  BY DEF NotWorking, Viewed, Synced, Pushed, Connect, LoadPatch, Disconnect, SavePatch,
         ApplyStatus, HandleEvent, HandleFails, DispatchInitial, DispatchFails, Push
<1>4. ASSUME NEW kind, NEW c, NEW changed, Send(Task(kind, c, changed))
      PROVE  /\ Len(tasks') = Len(tasks) + 1 /\ tasks'[Len(tasks) + 1].pc = "queued"
             /\ \A t \in TaskIds : tasks'[t] = tasks[t]
  <2>. DEFINE k == Task(kind, c, changed)
  <2>1. k.pc = "queued"
    BY DEF Task
  <2>2. tasks \in Seq(CodeTasks) /\ tasks' = Append(tasks, k)
    BY <1>4 DEF Send, IndexTyped, TasksTyped
  <2>3. Len(tasks') = Len(tasks) + 1 /\ tasks'[Len(tasks) + 1] = k
    <3>. HIDE DEF k
    <3>. QED
      BY <2>2
  <2>4. \A t \in TaskIds : tasks'[t] = tasks[t]
    <3>. HIDE DEF k
    <3>. QED
      BY <2>2 DEF TaskIds
  <2>. QED
    BY <2>1, <2>3, <2>4
<1>. QED
  BY <1>1, <1>2, <1>3, <1>4

\* What a step makes of its task, of the rows and of the objects.
LEMMA WorkShapes ==
    ASSUME IndexTyped, NEW t \in TaskIds, NEW k, Forward(t, k), Working(t)
    PROVE  \/ (\E f \in File : Upload(t, f) /\ k.at = {f}) /\ k.pc = "files"
           \/ (\E f \in File : InsertRows(t, f)) /\ k.pc = "files" /\ k.at = {}
           \/ CleanRows(t) /\ k.pc = "objects"
           \/ CleanObjects(t) /\ k.pc = "done"
           \/ CleanFails(t)
           \/ /\ k.at = {} /\ k.pc # "objects" /\ UNCHANGED objects
              /\ \A f \in File : rows'[f] \in {rows[f], NoRows}
              /\ tasks[t].pc \in {"queued", "done"} /\ k.pc \notin {"queued", "done"} =>
                     StartInitial(t) \/ StartIncremental(t)
              /\ k.pc = "done" =>
                     GiveUp(t) \/ Complete(t) \/ FailInitial(t) \/ StopsUnreported(t)
<1>. USE DEF gitVars, djangoVars, syncVars, indexVars, bounds
<1>1. /\ tasks[t] \in CodeTasks /\ Sound(tasks[t], Len(trees)) /\ k \in CodeTasks
      /\ tasks' = [tasks EXCEPT ![t] = k] /\ t \in 1..Len(tasks) /\ tasks \in Seq(CodeTasks)
      /\ rows \in [File -> [commit : 0..MaxCommits, content : 0..MaxCommits]]
  BY TaskIsTyped DEF Forward, Put, IndexTyped, TasksTyped, StoredTyped, TaskIds
<1>2. \A x : Put(t, x) => x = k
  BY <1>1 DEF Put
<1>3. CASE StartInitial(t) \/ Download(t) \/ StartIncremental(t)
  <2>1. CASE StartInitial(t)
    <3>1. PICK b : k = [tasks[t] EXCEPT !.pc = "download", !.branch = b]
      BY <1>2, <2>1 DEF StartInitial
    <3>. QED
      BY <1>1, <2>1, <3>1 DEF StartInitial, Sound, CodeTasks
  <2>2. CASE Download(t)
    <3>1. PICK head, found : k = [tasks[t] EXCEPT !.pc = "files", !.base = head, !.todo = found]
      BY <1>2, <2>2 DEF Download
    <3>. QED
      BY <1>1, <2>2, <3>1 DEF Download, Sound, CodeTasks
  <2>3. CASE StartIncremental(t)
    <3>1. PICK found : k = [tasks[t] EXCEPT !.pc = "files", !.todo = found]
      BY <1>2, <2>3 DEF StartIncremental
    <3>. QED
      BY <1>1, <2>3, <3>1 DEF StartIncremental, Sound, CodeTasks
  <2>. QED
    BY <1>3, <2>1, <2>2, <2>3
<1>4. CASE GiveUp(t) \/ Complete(t) \/ FailInitial(t) \/ StopsUnreported(t) \/ LoseWorker(t)
  <2>1. k = End(t) \/ k = Again(t)
    BY <1>2, <1>4 DEF GiveUp, Complete, FailInitial, StopsUnreported, LoseWorker
  <2>2. UNCHANGED <<rows, objects>>
    BY <1>4 DEF GiveUp, Complete, FailInitial, StopsUnreported, LoseWorker
  <2>3. LoseWorker(t) => k = Again(t)
    BY <1>2 DEF LoseWorker
  <2>. QED
    BY <1>4, <2>1, <2>2, <2>3, AgainOrEnd
<1>5. ASSUME NEW f \in File, InsertRows(t, f) \/ DeleteRows(t, f) \/ SkipFile(t, f)
      PROVE  /\ k.at = {} /\ k.pc = "files" /\ tasks[t].pc = "files"
             /\ ~InsertRows(t, f) => /\ UNCHANGED objects
                                     /\ \A g \in File : rows'[g] \in {rows[g], NoRows}
  <2>1. k = [tasks[t] EXCEPT !.todo = @ \ {f}, !.at = {}]
    BY <1>2, <1>5 DEF InsertRows, DeleteRows, SkipFile, Finished
  <2>2. k.at = {} /\ k.pc = "files" /\ tasks[t].pc = "files"
    BY <1>1, <1>5, <2>1 DEF InsertRows, DeleteRows, SkipFile, Cursor, CodeTasks
  <2>. QED
    BY <1>1, <1>5, <2>2 DEF DeleteRows, SkipFile
<1>6. ASSUME NEW f \in File, Upload(t, f)
      PROVE  k.at = {f} /\ k.pc = "files"
  <2>1. k = [tasks[t] EXCEPT !.at = {f}]
    BY <1>2, <1>6 DEF Upload
  <2>. QED
    BY <1>1, <1>6, <2>1 DEF Upload, Cursor, CodeTasks
<1>7. CASE CleanObjects(t)
  BY <1>2, <1>7, AgainOrEnd DEF CleanObjects
<1>8. CASE CleanRows(t)
  <2>1. k = [tasks[t] EXCEPT !.pc = "objects"]
    BY <1>2, <1>8 DEF CleanRows
  <2>. QED
    BY <1>1, <1>8, <2>1 DEF CodeTasks
<1>. QED
  BY <1>3, <1>4, <1>5, <1>6, <1>7, <1>8 DEF Working, Work

LEMMA OthersKeepRows ==
    ASSUME IndexTyped, RowsKept, NotWorking
    PROVE  RowsKept'
<1>1. CASE UNCHANGED tasks
  BY <1>1, OthersOnlySend
  DEF RowsKept, OneRuns, CleanedFirst, StoredFirst, RowsLead, TaskIds
<1>2. CASE /\ Len(tasks') = Len(tasks) + 1 /\ tasks'[Len(tasks) + 1].pc = "queued"
           /\ \A t \in TaskIds : tasks'[t] = tasks[t]
  <2>1. \A t \in TaskIds' : tasks'[t].pc # "queued" => t \in TaskIds /\ tasks'[t] = tasks[t]
    BY <1>2, LengthsTyped DEF TaskIds
  <2>2. SUFFICES ASSUME gaps' \cap {"overlap", "cleanup"} = {}
                 PROVE  (OneRuns /\ CleanedFirst /\ StoredFirst /\ RowsLead)'
    BY DEF RowsKept
  <2>3. OneRuns /\ CleanedFirst /\ StoredFirst /\ RowsLead
    BY <2>2, OthersOnlySend DEF RowsKept
  <2>4. UNCHANGED <<rows, objects>>
    BY OthersOnlySend
  <2>5. OneRuns'
    BY <2>1, <2>3 DEF OneRuns
  <2>6. CleanedFirst' /\ StoredFirst'
    BY <2>1, <2>3, <2>4 DEF CleanedFirst, StoredFirst
  <2>. QED
    BY <2>3, <2>4, <2>5, <2>6 DEF RowsLead
<1>. QED
  BY <1>1, <1>2, OthersOnlySend

LEMMA WorkKeepsRows ==
    ASSUME IndexTyped, RowsKept, NEW t \in TaskIds, Working(t)
    PROVE  RowsKept'
<1>. USE DEF gitVars, djangoVars, syncVars, indexVars, bounds
<1>1. gaps \subseteq gaps'
  BY WorkLeaves
<1>2. SUFFICES ASSUME gaps' \cap {"overlap", "cleanup"} = {}
               PROVE  (OneRuns /\ CleanedFirst /\ StoredFirst /\ RowsLead)'
  BY DEF RowsKept
<1>3. OneRuns /\ CleanedFirst /\ StoredFirst /\ RowsLead
  BY <1>1, <1>2 DEF RowsKept
<1>4. PICK k : Forward(t, k)
  BY WorkGoesForward
<1>5. /\ TaskIds' = TaskIds /\ tasks'[t] = k /\ k \in CodeTasks
      /\ \A u \in TaskIds : u # t => tasks'[u] = tasks[u]
      /\ k.commit = tasks[t].commit /\ k.kind = tasks[t].kind
  BY <1>4, PutKeepsTasks, WorkGoesForward DEF Forward, IndexTyped, TaskIds
<1>6. /\ tasks[t] \in CodeTasks /\ Sound(tasks[t], Len(trees)) /\ Len(trees) \in 1..MaxCommits
      /\ MaxCommits \in Nat
  BY TaskIsTyped, IndexAssumption DEF IndexTyped, BranchTyped
\* A task that begins finds no other one running.
<1>7. ASSUME tasks[t].pc \in {"queued", "done"}, k.pc \notin {"queued", "done"}
      PROVE  \A u \in TaskIds : tasks[u].pc \in {"queued", "done"}
  <2>1. ~CleanFails(t)
    BY <1>2 DEF CleanFails, Note
  <2>2. Note(StartGaps(t)) \/ \E more : Note(StartGaps(t) \cup more)
    <3>1. StartInitial(t) \/ StartIncremental(t) \/ CleanRows(t)
      BY <1>4, <1>7, <2>1, WorkShapes DEF Upload, InsertRows, Cursor, CleanObjects
    <3>. QED
      BY <3>1 DEF StartInitial, StartIncremental, CleanRows
  <2>3. "overlap" \notin StartGaps(t)
    BY <1>2, <2>2 DEF Note
  <2>4. Running = {}
    BY <2>3 DEF StartGaps
  <2>. QED
    BY <2>4 DEF Running, TaskIds
\* Of a running task no other one is.
<1>9. ASSUME tasks[t].pc \notin {"queued", "done"}, NEW u \in TaskIds, u # t
      PROVE  tasks'[u].pc \in {"queued", "done"}
  BY <1>3, <1>5, <1>9 DEF OneRuns
<1>8. OneRuns'
  <2>1. CASE k.pc \in {"queued", "done"}
    BY <1>3, <1>5, <2>1 DEF OneRuns
  <2>2. CASE k.pc \notin {"queued", "done"}
    <3>1. \A u \in TaskIds : u # t => tasks'[u].pc \in {"queued", "done"}
      BY <1>5, <1>7, <1>9, <2>2
    <3>. QED
      BY <1>5, <3>1 DEF OneRuns
  <2>. QED
    BY <2>1, <2>2
<1>10. ASSUME k.at = {}, k.pc # "objects", UNCHANGED objects,
              \A f \in File : rows'[f] \in {rows[f], NoRows}
       PROVE  (CleanedFirst /\ StoredFirst /\ RowsLead)'
  <2>1. CleanedFirst'
    BY <1>3, <1>5, <1>10 DEF CleanedFirst
  <2>2. StoredFirst'
    BY <1>3, <1>5, <1>10 DEF StoredFirst
  <2>3. RowsLead'
    BY <1>3, <1>10 DEF RowsLead
  <2>. QED
    BY <2>1, <2>2, <2>3
<1>11. ASSUME NEW f \in File, Upload(t, f), k.at = {f}, k.pc = "files"
       PROVE  (CleanedFirst /\ StoredFirst /\ RowsLead)'
  <2>1. /\ tasks[t].commit \in 1..MaxCommits /\ Content(t, f) # 0
        /\ objects' = [objects EXCEPT ![f][tasks[t].commit] = Content(t, f)]
        /\ UNCHANGED rows
    BY <1>6, <1>11 DEF Upload, Cursor, Sound, CodeTasks
  <2>2. /\ objects'[f][tasks[t].commit] # 0
        /\ \A g \in File, c \in 1..MaxCommits : objects[g][c] # 0 => objects'[g][c] # 0
    BY <2>1 DEF IndexTyped, StoredTyped
  <2>3. CleanedFirst'
    BY <1>3, <1>5, <1>11, <2>1 DEF CleanedFirst
  <2>4. ASSUME NEW u \in TaskIds, NEW g \in File, tasks'[u].pc = "files", g \in tasks'[u].at
        PROVE  objects'[g][tasks'[u].commit] # 0
    <3>1. CASE u = t
      BY <1>5, <1>11, <2>2, <2>4, <3>1
    <3>2. CASE u # t
      BY <1>5, <1>9, <1>11, <2>4, <3>2 DEF Upload, Cursor
    <3>. QED
      BY <3>1, <3>2
  <2>5. ASSUME NEW g \in File, rows'[g] # NoRows
        PROVE  rows'[g].commit \in 1..MaxCommits /\ objects'[g][rows'[g].commit] # 0
    <3>1. /\ rows'[g] = rows[g] /\ rows[g].commit \in 1..MaxCommits
          /\ objects[g][rows[g].commit] # 0
      BY <1>3, <2>1, <2>5 DEF RowsLead
    <3>. QED
      BY <2>2, <3>1
  <2>. QED
    BY <1>5, <2>3, <2>4, <2>5 DEF StoredFirst, RowsLead
<1>12. ASSUME NEW f \in File, InsertRows(t, f), k.at = {}, k.pc = "files"
       PROVE  (CleanedFirst /\ StoredFirst /\ RowsLead)'
  <2>1. /\ rows' = [rows EXCEPT ![f] = [commit |-> tasks[t].commit, content |-> Content(t, f)]]
        /\ tasks[t].pc = "files" /\ tasks[t].at = {f} /\ UNCHANGED objects
    BY <1>12 DEF InsertRows
  <2>2. CleanedFirst'
    BY <1>5, <1>9, <1>12, <2>1 DEF CleanedFirst
  <2>3. StoredFirst'
    BY <1>3, <1>5, <1>12, <2>1 DEF StoredFirst
  <2>4. ASSUME NEW g \in File, rows'[g] # NoRows
        PROVE  rows'[g].commit \in 1..MaxCommits /\ objects'[g][rows'[g].commit] # 0
    <3>1. CASE g = f
      <4>1. rows \in [File -> [commit : 0..MaxCommits, content : 0..MaxCommits]]
        BY DEF IndexTyped, StoredTyped
      <4>2. rows'[f].commit = tasks[t].commit
        BY <2>1, <4>1
      <4>3. tasks[t].commit \in 1..MaxCommits
        BY <1>6, <2>1 DEF Sound
      <4>. QED
        BY <1>3, <2>1, <3>1, <4>2, <4>3 DEF StoredFirst
    <3>2. CASE g # f
      BY <1>3, <2>1, <2>4, <3>2 DEF RowsLead, IndexTyped, StoredTyped
    <3>. QED
      BY <3>1, <3>2
  <2>. QED
    BY <2>2, <2>3, <2>4 DEF RowsLead
<1>13. CASE CleanRows(t) /\ k.pc = "objects"
  <2>1. (\A f \in File : rows'[f] = NoRows) /\ UNCHANGED objects
    BY <1>13 DEF CleanRows
  <2>2. StoredFirst'
    BY <1>3, <1>5, <1>13, <2>1 DEF StoredFirst
  <2>3. CleanedFirst'
    BY <2>1 DEF CleanedFirst
  <2>4. RowsLead'
    BY <2>1 DEF RowsLead
  <2>. QED
    BY <1>8, <2>2, <2>3, <2>4
<1>14. CASE CleanObjects(t) /\ k.pc = "done"
  <2>1. tasks[t].pc = "objects" /\ UNCHANGED rows
    BY <1>14 DEF CleanObjects
  <2>2. \A f \in File : rows'[f] = NoRows
    BY <1>3, <2>1 DEF CleanedFirst
  <2>3. \A u \in TaskIds' : tasks'[u].pc \in {"queued", "done"}
    BY <1>5, <1>9, <1>14, <2>1
  <2>4. CleanedFirst'
    BY <2>2 DEF CleanedFirst
  <2>5. StoredFirst'
    BY <2>3 DEF StoredFirst
  <2>6. RowsLead'
    BY <2>2 DEF RowsLead
  <2>. QED
    BY <1>8, <2>4, <2>5, <2>6
<1>15. ~CleanFails(t)
  BY <1>2 DEF CleanFails, Note
<1>. QED
  BY <1>4, <1>8, <1>10, <1>11, <1>12, <1>13, <1>14, <1>15, WorkShapes

-----------------------------------------------------------------------------
(* IndexCode: the status a user sees *)

Pending(b) == [status |-> "pending", commit |-> 0, branch |-> b]

\* Without PATCH requests every event tells of a new row or of a removed one, and every
\* snapshot is one of this repository.
PlainEvents ==
    patches = 0 =>
        /\ patching = Idle
        /\ \A i \in Integration : snapshot[i] = Absent \/ Here(i)
        /\ \A n \in 1..Len(events) :
              /\ events[n].action # "updated"
              /\ events[n].action = "created" =>
                     events[n].row.status = "pending" /\ events[n].row.branch \in Branch

\* A snapshot shows "indexing" only while a first index has still to end, unless one was
\* ended without its report.
SomeIndexing == \E i \in Integration : snapshot[i].status = "indexing"
FirstIndexLeft == \E t \in TaskIds : tasks[t].kind = "initial" /\ tasks[t].pc # "done"
IndexingEnds == patches = 0 /\ "unreported" \notin gaps /\ SomeIndexing => FirstIndexLeft

\* The row of Django, once it has taken the statuses on their way, is the target.
Reaches(row, target, seq) ==
    /\ target.status = IF seq = << >> THEN row.status ELSE seq[Len(seq)].status
    /\ \/ target.commit = row.commit /\ \A n \in 1..Len(seq) : seq[n].commit = 0
       \/ \E n \in 1..Len(seq) :
             /\ seq[n].commit # 0 /\ seq[n].commit = target.commit
             /\ \A m \in n+1..Len(seq) : seq[m].commit = 0

LEMMA ReachesReport ==
    ASSUME NEW row, NEW target, NEW after, NEW seq \in Seq(Reports),
           Reaches(row, target, seq),
           NEW s \in Outcomes, NEW c \in 0..MaxCommits,
           after.status = s, after.commit = IF c = 0 THEN target.commit ELSE c
    PROVE  Reaches(row, after, Append(seq, [status |-> s, commit |-> c]))
<1>. DEFINE new == [status |-> s, commit |-> c]
            more == Append(seq, new)
<1>1. /\ Len(more) = Len(seq) + 1 /\ more # << >> /\ more[Len(more)] = new /\ Len(seq) \in Nat
      /\ \A n \in 1..Len(seq) : more[n] = seq[n]
  <2>1. new \in Reports
    BY DEF Reports
  <2>. HIDE DEF new
  <2>. QED
    BY <2>1
<1>2. new.status = s /\ new.commit = c
  OBVIOUS
<1>3. after.status = more[Len(more)].status
  BY <1>1, <1>2
<1>. HIDE DEF more, new
<1>4. CASE c # 0
  <2>1. /\ Len(more) \in 1..Len(more) /\ more[Len(more)].commit # 0
        /\ more[Len(more)].commit = after.commit
        /\ \A m \in Len(more)+1..Len(more) : more[m].commit = 0
    BY <1>1, <1>2, <1>4
  <2>. QED
    BY <1>1, <1>3, <2>1 DEF Reaches, more, new
<1>5. CASE c = 0
  <2>1. after.commit = target.commit
    BY <1>5
  <2>2. CASE target.commit = row.commit /\ \A n \in 1..Len(seq) : seq[n].commit = 0
    <3>1. \A n \in 1..Len(more) : more[n].commit = 0
      BY <1>1, <1>2, <1>5, <2>2
    <3>. QED
      BY <1>1, <1>3, <2>1, <2>2, <3>1 DEF Reaches, more, new
  <2>3. ASSUME NEW n \in 1..Len(seq), seq[n].commit # 0, seq[n].commit = target.commit,
               \A m \in n+1..Len(seq) : seq[m].commit = 0
        PROVE  Reaches(row, after, more)
    <3>1. /\ n \in 1..Len(more) /\ more[n].commit # 0 /\ more[n].commit = after.commit
          /\ \A m \in n+1..Len(more) : more[m].commit = 0
      BY <1>1, <1>2, <1>5, <2>1, <2>3
    <3>. QED
      BY <1>1, <1>3, <3>1 DEF Reaches
  <2>. QED
    BY <2>2, <2>3 DEF Reaches, more, new
<1>. QED
  BY <1>4, <1>5

LEMMA ReachesApply ==
    ASSUME NEW row, NEW target, NEW after, NEW seq \in Seq(Reports), seq # << >>,
           Reaches(row, target, seq),
           after.status = Head(seq).status,
           after.commit = IF Head(seq).commit = 0 THEN row.commit ELSE Head(seq).commit
    PROVE  Reaches(after, target, Tail(seq))
<1>. DEFINE rest == Tail(seq)
<1>1. /\ Len(seq) \in Nat \ {0} /\ Len(rest) = Len(seq) - 1 /\ Head(seq) = seq[1]
      /\ \A n \in 1..Len(rest) : rest[n] = seq[n + 1]
      /\ rest = << >> <=> Len(seq) = 1
  <2>1. Len(seq) \in Nat /\ Len(seq) # 0 /\ Head(seq) = seq[1]
    OBVIOUS
  <2>2. rest \in Seq(Reports) /\ Len(rest) = Len(seq) - 1
    OBVIOUS
  <2>3. \A n \in 1..Len(rest) : rest[n] = seq[n + 1]
    BY <2>2
  <2>4. rest = << >> <=> Len(rest) = 0
    <3>. HIDE DEF rest
    <3>. QED
      BY <2>2
  <2>. QED
    BY <2>1, <2>2, <2>3, <2>4
<1>2. target.status = IF rest = << >> THEN after.status ELSE rest[Len(rest)].status
  <2>1. target.status = seq[Len(seq)].status
    BY DEF Reaches
  <2>2. CASE rest = << >>
    BY <1>1, <2>1, <2>2
  <2>3. CASE rest # << >>
    <3>1. Len(rest) \in 1..Len(rest) /\ Len(rest) + 1 = Len(seq)
      BY <1>1, <2>3
    <3>. QED
      BY <1>1, <2>1, <2>3, <3>1
  <2>. QED
    BY <2>2, <2>3
<1>. HIDE DEF rest
<1>3. CASE target.commit = row.commit /\ \A n \in 1..Len(seq) : seq[n].commit = 0
  <2>1. after.commit = target.commit /\ \A n \in 1..Len(rest) : rest[n].commit = 0
    BY <1>1, <1>3
  <2>. QED
    BY <1>2, <2>1 DEF Reaches, rest
<1>4. ASSUME NEW n \in 1..Len(seq), seq[n].commit # 0, seq[n].commit = target.commit,
             \A m \in n+1..Len(seq) : seq[m].commit = 0
      PROVE  Reaches(after, target, rest)
  <2>1. CASE n = 1
    <3>1. after.commit = target.commit /\ \A m \in 1..Len(rest) : rest[m].commit = 0
      BY <1>1, <1>4, <2>1
    <3>. QED
      BY <1>2, <3>1 DEF Reaches
  <2>2. CASE n # 1
    <3>1. n \in Nat /\ n - 1 \in 1..Len(rest) /\ (n - 1) + 1 = n
      BY <1>1, <1>4, <2>2
    <3>2. rest[n - 1] = seq[n]
      BY <1>1, <3>1
    <3>3. ASSUME NEW m \in n..Len(rest) PROVE rest[m].commit = 0
      <4>1. m \in 1..Len(rest) /\ m + 1 \in n+1..Len(seq)
        BY <1>1, <3>1, <3>3
      <4>2. rest[m] = seq[m + 1]
        BY <1>1, <4>1
      <4>. QED
        BY <1>4, <4>1, <4>2
    <3>. QED
      BY <1>2, <1>4, <3>1, <3>2, <3>3 DEF Reaches
  <2>. QED
    BY <2>1, <2>2
<1>. QED
  BY <1>3, <1>4 DEF Reaches, rest

\* Without a PATCH, a tie or a second connection: the row and its event, the snapshot that
\* follows it, the removal.
NotYet ==
    /\ removed = {} /\ connected[1] = Absent /\ snapshot[1] = Absent
    /\ events = << >> /\ dispatch = Idle /\ tasks = << >> /\ statuses = << >>
Announced ==
    /\ connected[1].branch \in Branch /\ snapshot[1] = Absent
    /\ Len(events) = 1 /\ events[1].action = "created" /\ events[1].row = connected[1]
    /\ dispatch = Idle /\ tasks = << >> /\ statuses = << >>
Followed ==
    /\ connected[1].branch \in Branch /\ snapshot[1].branch = connected[1].branch
    /\ events = << >>
    /\ Reaches(connected[1], snapshot[1], statuses)
Leaving ==
    /\ removed # {} /\ connected[1] = Absent
    /\ events # << >> /\ events[Len(events)].action = "deleted"
Left ==
    removed # {} /\ connected[1] = Absent /\ snapshot[1] = Absent /\ events = << >>

OnlyOne ==
    /\ \A i \in Integration : i # 1 => connected[i] = Absent /\ snapshot[i] = Absent
    /\ \A n \in 1..Len(events) :
          events[n].id = 1 /\ version < events[n].version /\ events[n].version <= clock
    /\ \A m, n \in 1..Len(events) : m < n => events[m].version < events[n].version
    /\ version <= clock
Stages == NotYet \/ Announced \/ Followed \/ Leaving \/ Left
Quiet == patches = 0 /\ gaps \cap {"lost", "tie", "reconnect"} = {}
StatusFollows == Quiet => OnlyOne /\ Stages

\* An event that a view writes comes last; only one of the same millisecond is not the newest.
LEMMA PublishAdds ==
    ASSUME QueuesTyped, NEW i \in Integration,
           NEW action \in {"created", "updated", "deleted"}, NEW row \in Row, NEW reasons,
           Publish(i, action, row, reasons)
    PROVE  /\ Len(events') = Len(events) + 1 /\ Len(events) \in Nat
           /\ events'[Len(events) + 1].id = i /\ events'[Len(events) + 1].action = action
           /\ events'[Len(events) + 1].row = row
           /\ \A n \in 1..Len(events) : events'[n] = events[n]
           /\ reasons \subseteq gaps' /\ gaps \subseteq gaps'
           /\ \/ "tie" \in gaps'
              \/ clock' = clock + 1 /\ events'[Len(events) + 1].version = clock + 1
<1>1. PICK tick \in 0..1 :
          /\ clock' = clock + tick
          /\ Note(reasons \cup IF tick = 0 THEN {"tie"} ELSE {})
          /\ events' = Append(events, [id |-> i, action |-> action, row |-> row,
                                       version |-> clock + tick])
  BY DEF Publish
<1>. DEFINE e == [id |-> i, action |-> action, row |-> row, version |-> clock + tick]
<1>2. /\ e.id = i /\ e.action = action /\ e.row = row /\ e.version = clock + tick
      /\ e \in CodeEvents
  BY DEF QueuesTyped, CodeEvents
<1>3. /\ events \in Seq(CodeEvents) /\ events' = Append(events, e)
  BY <1>1 DEF QueuesTyped
<1>. HIDE DEF e
<1>4. /\ Len(events') = Len(events) + 1 /\ Len(events) \in Nat
      /\ events'[Len(events) + 1] = e
      /\ \A n \in 1..Len(events) : events'[n] = events[n]
  BY <1>2, <1>3
<1>5. /\ reasons \subseteq gaps' /\ gaps \subseteq gaps'
      /\ tick = 0 => "tie" \in gaps'
  BY <1>1 DEF Note
<1>6. tick = 0 \/ tick = 1
  OBVIOUS
<1>. QED
  BY <1>1, <1>2, <1>4, <1>5, <1>6

LEMMA EmptyQueue ==
    ASSUME NEW S, NEW q \in Seq(S)
    PROVE  q = << >> <=> Len(q) = 0
OBVIOUS

LEMMA HandleTakes ==
    ASSUME IndexTyped, HandleEvent
    PROVE  /\ events # << >> /\ Len(events) \in Nat /\ Len(events') = Len(events) - 1
           /\ Head(events) = events[1] /\ 1 \in 1..Len(events)
           /\ \A n \in 1..Len(events') : events'[n] = events[n + 1]
           /\ events' = << >> <=> Len(events) = 1
           /\ \A n \in 1..Len(events) : events[n] \in CodeEvents
<1>1. events \in Seq(CodeEvents) /\ events # << >> /\ events' = Tail(events)
  BY DEF HandleEvent, IndexTyped, QueuesTyped
<1>2. Len(events) \in Nat /\ Len(events) # 0 /\ Head(events) = events[1]
  BY <1>1
<1>3. events' \in Seq(CodeEvents) /\ Len(events') = Len(events) - 1
  BY <1>1
<1>4. \A n \in 1..Len(events') : events'[n] = events[n + 1]
  BY <1>1, <1>3
<1>5. events' = << >> <=> Len(events') = 0
  BY <1>3, EmptyQueue
<1>6. \A n \in 1..Len(events) : events[n] \in CodeEvents
  BY <1>1
<1>. QED
  BY <1>1, <1>2, <1>3, <1>4, <1>5, <1>6

LEMMA PatchesGrow ==
    ASSUME IndexTyped, NotWorking \/ \E t \in TaskIds : Working(t)
    PROVE  patches' = 0 => patches = 0
<1>. USE DEF gitVars, djangoVars, syncVars, indexVars, bounds
<1>1. CASE \E i \in Integration, to \in Target : LoadPatch(i, to)
  BY <1>1 DEF LoadPatch, IndexTyped, StoredTyped
<1>2. CASE NotWorking /\ ~(\E i \in Integration, to \in Target : LoadPatch(i, to))
  BY <1>2 DEF NotWorking, Viewed, Synced, Pushed, Connect, Disconnect, SavePatch, ApplyStatus,
              HandleEvent, HandleFails, DispatchInitial, DispatchFails, Push
<1>3. CASE \E t \in TaskIds : Working(t)
  BY <1>3, WorkLeaves
<1>. QED
  BY <1>1, <1>2, <1>3

\* Statuses change no row's repository.
LEMMA ReportsStayHere ==
    ASSUME IndexTyped, NEW t \in TaskIds, Working(t),
           \A i \in Integration : snapshot[i] = Absent \/ Here(i)
    PROVE  \A i \in Integration : snapshot'[i] = Absent \/ Here(i)'
<1>1. CASE UNCHANGED snapshot
  BY <1>1 DEF Here
<1>2. ASSUME NEW s \in Outcomes, NEW c \in 0..MaxCommits, Report(s, c)
      PROVE  \A i \in Integration : snapshot'[i] = Absent \/ Here(i)'
  BY <1>2, ReportTyped DEF IndexTyped, Here
<1>. QED
  BY <1>1, <1>2, WorkReports

LEMMA PlainKept ==
    ASSUME IndexTyped, PlainEvents, NotWorking \/ \E t \in TaskIds : Working(t)
    PROVE  PlainEvents'
<1>. USE DEF gitVars, djangoVars, syncVars, indexVars, bounds
<1>1. SUFFICES ASSUME patches' = 0 PROVE PlainEvents'
  BY DEF PlainEvents
<1>0. /\ patches = 0 /\ patching = Idle
      /\ \A i \in Integration : snapshot[i] = Absent \/ Here(i)
      /\ \A n \in 1..Len(events) :
            /\ events[n].action # "updated"
            /\ events[n].action = "created" =>
                   events[n].row.status = "pending" /\ events[n].row.branch \in Branch
  BY <1>1, PatchesGrow DEF PlainEvents
<1>2. CASE \E i \in Integration, to \in Target : LoadPatch(i, to)
  BY <1>1, <1>2 DEF LoadPatch, IndexTyped, StoredTyped
<1>3. CASE UNCHANGED <<events, patching, patches, snapshot>>
  BY <1>3 DEF PlainEvents, Here
<1>4. ASSUME NEW i \in Integration, Disconnect(i) \/ \E b \in Branch : Connect(i, b)
      PROVE  PlainEvents'
  <2>1. /\ connected[i] \in Row /\ QueuesTyped /\ \A b \in Branch : Pending(b) \in Row
        /\ UNCHANGED <<patching, patches, snapshot>>
    <3>1. connected[i] \in Row /\ QueuesTyped
      BY DEF IndexTyped, RowsTyped
    <3>2. \A b \in Branch : Pending(b) \in Row
      BY IndexAssumption DEF Row, Pending, Target
    <3>3. UNCHANGED <<patching, patches, snapshot>>
      BY <1>4 DEF Connect, Disconnect
    <3>. QED
      BY <3>1, <3>2, <3>3
  <2>2. /\ Len(events') = Len(events) + 1 /\ Len(events) \in Nat
        /\ events'[Len(events) + 1].action \in {"created", "deleted"}
        /\ events'[Len(events) + 1].action = "created" =>
               /\ events'[Len(events) + 1].row.status = "pending"
               /\ events'[Len(events) + 1].row.branch \in Branch
        /\ \A n \in 1..Len(events) : events'[n] = events[n]
    <3>1. ASSUME NEW b \in Branch, Connect(i, b)
          PROVE  /\ Len(events') = Len(events) + 1 /\ Len(events) \in Nat
                 /\ events'[Len(events) + 1].action = "created"
                 /\ events'[Len(events) + 1].row = Pending(b)
                 /\ \A n \in 1..Len(events) : events'[n] = events[n]
      <4>1. \E reasons : Publish(i, "created", Pending(b), reasons)
        BY <3>1 DEF Connect, Pending
      <4>. QED
        BY <2>1, <4>1, PublishAdds
    <3>2. CASE Disconnect(i)
      <4>1. Publish(i, "deleted", connected[i], {})
        BY <3>2 DEF Disconnect
      <4>. QED
        BY <2>1, <4>1, PublishAdds
    <3>3. \A b \in Branch : Pending(b).status = "pending" /\ Pending(b).branch = b
      BY DEF Pending
    <3>4. CASE \E b \in Branch : Connect(i, b)
      BY <3>1, <3>3, <3>4
    <3>. QED
      BY <1>4, <3>2, <3>4
  <2>3. \A n \in 1..Len(events') : n \in 1..Len(events) \/ n = Len(events) + 1
    BY <2>2
  <2>. QED
    BY <1>0, <2>1, <2>2, <2>3 DEF PlainEvents, Here
<1>5. CASE SavePatch
  BY <1>0, <1>5 DEF SavePatch, Idle
<1>6. CASE HandleEvent
  <2>1. \A n \in 1..Len(events') : n + 1 \in 1..Len(events) /\ events'[n] = events[n + 1]
    BY <1>6, HandleTakes
  <2>2. UNCHANGED <<patching, patches>>
    BY <1>6 DEF HandleEvent
  <2>3. \A i \in Integration : snapshot'[i] = Absent \/ Here(i)'
    <3>1. CASE UNCHANGED snapshot
      BY <1>0, <3>1 DEF Here
    <3>2. CASE snapshot' # snapshot
      <4>1. PICK row : /\ snapshot' = [snapshot EXCEPT ![events[1].id] = row]
                       /\ row = Absent \/ (events[1].action # "deleted" /\ row = events[1].row)
        BY <1>6, <3>2, HandleTakes DEF HandleEvent
      <4>2. row = Absent \/ row.branch \in Branch
        BY <1>0, <1>6, <4>1, HandleTakes DEF CodeEvents
      <4>. QED
        BY <1>0, <4>1, <4>2 DEF Here, IndexTyped, RowsTyped
    <3>. QED
      BY <3>1, <3>2
  <2>. QED
    BY <1>0, <2>1, <2>2, <2>3 DEF PlainEvents
<1>9. CASE HandleFails
  <2>1. UNCHANGED <<patching, patches, snapshot>>
    BY <1>9 DEF HandleFails
  <2>2. CASE UNCHANGED events
    BY <1>3, <2>1, <2>2
  <2>3. CASE events' = Tail(events)
    <3>1. \A n \in 1..Len(events') : n + 1 \in 1..Len(events) /\ events'[n] = events[n + 1]
      BY <1>9, <2>3 DEF HandleFails, IndexTyped, QueuesTyped
    <3>. QED
      BY <1>0, <2>1, <3>1 DEF PlainEvents, Here
  <2>. QED
    BY <1>9, <2>2, <2>3 DEF HandleFails
<1>7. CASE ApplyStatus \/ DispatchInitial \/ DispatchFails \/ Pushed
  BY <1>3, <1>7 DEF ApplyStatus, DispatchInitial, DispatchFails, Pushed, Push
<1>8. CASE \E t \in TaskIds : Working(t)
  <2>1. UNCHANGED <<events, patching, patches>>
    BY <1>8, WorkLeaves
  <2>. QED
    BY <1>0, <1>8, <2>1, ReportsStayHere DEF PlainEvents
<1>. QED
  BY <1>2, <1>4, <1>5, <1>6, <1>7, <1>8, <1>9 DEF NotWorking, Viewed, Synced

LEMMA IndexingKept ==
    ASSUME IndexTyped, PlainEvents, IndexingEnds, NotWorking \/ \E t \in TaskIds : Working(t)
    PROVE  IndexingEnds'
<1>. USE DEF gitVars, djangoVars, syncVars, indexVars, bounds
<1>1. SUFFICES ASSUME patches' = 0, "unreported" \notin gaps', SomeIndexing'
               PROVE  FirstIndexLeft'
  BY DEF IndexingEnds
<1>2. /\ patches = 0 /\ "unreported" \notin gaps
      /\ \A i \in Integration : snapshot[i] = Absent \/ Here(i)
  <2>1. gaps \subseteq gaps'
    BY OthersOnlySend, WorkLeaves
  <2>. QED
    BY <1>1, <2>1, PatchesGrow DEF PlainEvents
<1>3. CASE NotWorking
  <2>1. SomeIndexing
    <3>1. CASE HandleEvent
      <4>1. CASE UNCHANGED snapshot
        BY <1>1, <4>1 DEF SomeIndexing
      <4>2. CASE snapshot' # snapshot
        <5>1. PICK row : /\ snapshot' = [snapshot EXCEPT ![events[1].id] = row]
                         /\ row = Absent \/ (events[1].action # "deleted" /\ row = events[1].row)
          BY <3>1, <4>2, HandleTakes DEF HandleEvent
        <5>2. events[1].action # "deleted" => events[1].row.status = "pending"
          BY <1>2, <3>1, HandleTakes DEF PlainEvents, CodeEvents
        <5>3. row.status # "indexing"
          BY <5>1, <5>2 DEF Absent
        <5>. QED
          BY <1>1, <5>1, <5>3 DEF SomeIndexing, IndexTyped, RowsTyped
      <4>. QED
        BY <4>1, <4>2
    <3>2. CASE ~HandleEvent
      <4>1. UNCHANGED snapshot
        BY <1>3, <3>2
        DEF NotWorking, Viewed, Synced, Pushed, Connect, LoadPatch, Disconnect, SavePatch,
            ApplyStatus, HandleFails, DispatchInitial, DispatchFails, Push
      <4>. QED
        BY <1>1, <4>1 DEF SomeIndexing
    <3>. QED
      BY <3>1, <3>2
  <2>2. PICK t \in TaskIds : tasks[t].kind = "initial" /\ tasks[t].pc # "done"
    BY <1>2, <2>1 DEF IndexingEnds, FirstIndexLeft
  <2>3. t \in TaskIds' /\ tasks'[t] = tasks[t]
    BY <1>3, <2>2, OthersOnlySend, LengthsTyped DEF TaskIds
  <2>. QED
    BY <2>2, <2>3 DEF FirstIndexLeft
<1>4. ASSUME NEW t \in TaskIds, Working(t) PROVE FirstIndexLeft'
  <2>1. PICK k : Forward(t, k)
    BY <1>4, WorkGoesForward
  <2>2. /\ TaskIds' = TaskIds /\ tasks'[t] = k /\ k.kind = tasks[t].kind
        /\ \A u \in TaskIds : u # t => tasks'[u] = tasks[u]
    BY <1>4, <2>1, PutKeepsTasks, WorkGoesForward DEF Forward, IndexTyped, TaskIds
  <2>3. ASSUME NEW s \in {"indexed", "failed"}, NEW c \in 0..MaxCommits, Report(s, c)
        PROVE  FALSE
    <3>1. ~(\E i \in Integration : snapshot'[i].status = "indexing")
      BY <1>2, <2>3, ReportTyped DEF IndexTyped, Outcomes, Absent, Here, Branch
    <3>. QED
      BY <1>1, <3>1 DEF SomeIndexing
  <2>4. tasks[t].commit \in 0..MaxCommits /\ 0 \in 0..MaxCommits
    BY TaskIsTyped, IndexAssumption DEF CodeTasks
  <2>5. ~Complete(t) /\ ~FailInitial(t)
    BY <2>3, <2>4 DEF Complete, FailInitial
  <2>6. ~GiveUp(t)
    <3>1. ASSUME GiveUp(t) PROVE \A i \in Integration : snapshot'[i].status # "indexing"
      BY <1>2, <3>1 DEF GiveUp, Known, Absent
    <3>. QED
      BY <1>1, <3>1 DEF SomeIndexing
  <2>7. CASE StartInitial(t)
    <3>1. /\ tasks' = [tasks EXCEPT ![t] = k] /\ t \in 1..Len(tasks)
          /\ tasks \in Seq(CodeTasks) /\ tasks[t] \in CodeTasks
      BY <2>1, TaskIsTyped DEF Forward, Put, IndexTyped, TasksTyped, TaskIds
    <3>2. \A x : Put(t, x) => x = k
      BY <3>1 DEF Put
    <3>3. tasks[t].kind = "initial" /\ \E b : k = [tasks[t] EXCEPT !.pc = "download", !.branch = b]
      BY <2>7, <3>2 DEF StartInitial
    <3>4. k.pc # "done" /\ tasks[t].kind = "initial"
      BY <3>1, <3>3 DEF CodeTasks
    <3>. QED
      BY <2>2, <3>4 DEF FirstIndexLeft
  <2>8. CASE ~StartInitial(t)
    <3>1. UNCHANGED snapshot
      BY <1>4, <2>5, <2>8
      DEF Working, Work, Download, StartIncremental, GiveUp, Upload, InsertRows,
          DeleteRows, CleanRows, CleanObjects, CleanFails, StopsUnreported, LoseWorker, SkipFile
    <3>2. PICK u \in TaskIds : tasks[u].kind = "initial" /\ tasks[u].pc # "done"
      BY <1>1, <1>2, <3>1 DEF IndexingEnds, FirstIndexLeft, SomeIndexing
    <3>3. CASE u # t
      BY <2>2, <3>2, <3>3 DEF FirstIndexLeft
    <3>4. CASE u = t
      <4>0. ~StopsUnreported(t)
        BY <1>1, <3>2, <3>4 DEF StopsUnreported, Note
      <4>1. k.pc # "done"
        BY <1>4, <2>1, <2>5, <2>6, <3>2, <3>4, <4>0, WorkShapes
        DEF CleanRows, CleanObjects, CleanFails
      <4>. QED
        BY <2>2, <3>2, <3>4, <4>1 DEF FirstIndexLeft
    <3>. QED
      BY <3>3, <3>4, ZenonT(30)
  <2>. QED
    BY <2>7, <2>8
<1>. QED
  BY <1>3, <1>4

\* A step that touches neither the rows nor the queues between them.
LEMMA FollowsAlone ==
    ASSUME OnlyOne, Stages,
           UNCHANGED <<connected, removed, snapshot, events, version, clock, statuses>>,
           \/ UNCHANGED <<tasks, dispatch>>
           \/ Followed \/ Leaving \/ Left
    PROVE  OnlyOne' /\ Stages'
BY DEF OnlyOne, Stages, NotYet, Announced, Followed, Leaving, Left

LEMMA ConnectFollows ==
    ASSUME IndexTyped, OnlyOne, Stages, Quiet', NEW i \in Integration, NEW b \in Branch,
           Connect(i, b)
    PROVE  OnlyOne' /\ Stages'
<1>. USE DEF gitVars, djangoVars, syncVars, indexVars, bounds
<1>1. i = 1
  <2>1. i \in Nat /\ i >= 1
    BY IndexAssumption DEF Integration
  <2>2. CASE i > 1
    <3>1. "reconnect" \in gaps'
      BY <2>2 DEF Connect, Publish, Note
    <3>. QED
      BY <3>1 DEF Quiet
  <2>. QED
    BY <2>1, <2>2
<1>2. removed = {} /\ connected[1] = Absent
  <2>1. removed \cup {j \in Integration : connected[j] # Absent} = 1..0 /\ 1 \in Integration
    BY <1>1, IndexAssumption DEF Connect, Integration
  <2>. QED
    BY <2>1
<1>3. NotYet
  BY <1>2 DEF Stages, Announced, Followed, Leaving, Left, Absent, Branch
<1>4. /\ Len(events) = 0 /\ 1 \in 1..Len(events')
      /\ Len(events') = 1 /\ events'[1].id = 1 /\ events'[1].action = "created"
      /\ events'[1].row = Pending(b)
      /\ clock' = clock + 1 /\ events'[1].version = clock + 1
  <2>1. Publish(i, "created", Pending(b), {}) /\ Pending(b) \in Row /\ QueuesTyped
    BY <1>1, IndexAssumption DEF Connect, Pending, Row, IndexTyped, Target
  <2>2. Len(events) = 0
    BY <1>3 DEF NotYet
  <2>3. "tie" \notin gaps'
    BY DEF Quiet
  <2>. QED
    BY <1>1, <2>1, <2>2, <2>3, PublishAdds
<1>5. UNCHANGED <<snapshot, version, tasks, statuses, dispatch>>
  BY DEF Connect
<1>6. /\ connected'[1] = Pending(b) /\ 1 \in Integration
      /\ \A j \in Integration : j # 1 => connected'[j] = connected[j]
  BY <1>1 DEF Connect, Pending, IndexTyped, RowsTyped
<1>7. clock \in Nat /\ version \in Nat /\ version <= clock
  BY DEF IndexTyped, QueuesTyped, OnlyOne
<1>8. OnlyOne'
  BY <1>4, <1>5, <1>6, <1>7 DEF OnlyOne
<1>9. Announced'
  BY <1>3, <1>4, <1>5, <1>6 DEF Announced, NotYet, Pending
<1>. QED
  BY <1>8, <1>9 DEF Stages

LEMMA DisconnectFollows ==
    ASSUME IndexTyped, OnlyOne, Stages, Quiet', NEW i \in Integration, Disconnect(i)
    PROVE  OnlyOne' /\ Stages'
<1>. USE DEF gitVars, djangoVars, syncVars, indexVars, bounds
<1>1. i = 1
  BY DEF Disconnect, OnlyOne
<1>2. /\ Len(events') = Len(events) + 1 /\ Len(events) \in Nat
      /\ events'[Len(events) + 1].id = 1 /\ events'[Len(events) + 1].action = "deleted"
      /\ \A n \in 1..Len(events) : events'[n] = events[n]
      /\ clock' = clock + 1 /\ events'[Len(events) + 1].version = clock + 1
  <2>1. Publish(i, "deleted", connected[i], {}) /\ connected[i] \in Row /\ QueuesTyped
    BY DEF Disconnect, IndexTyped, RowsTyped
  <2>2. "tie" \notin gaps'
    BY DEF Quiet
  <2>. QED
    BY <1>1, <2>1, <2>2, PublishAdds
<1>3. UNCHANGED <<snapshot, version>> /\ removed' # {}
      /\ \A j \in Integration : connected'[j] = Absent
  BY <1>1 DEF Disconnect, IndexTyped, RowsTyped, OnlyOne
<1>4. /\ clock \in Nat /\ version \in Nat /\ version <= clock
      /\ \A n \in 1..Len(events) : events[n] \in CodeEvents
  BY DEF IndexTyped, QueuesTyped, OnlyOne
<1>5. \A n \in 1..Len(events') : n \in 1..Len(events) \/ n = Len(events) + 1
  BY <1>2
<1>6. \A n \in 1..Len(events') :
          /\ events'[n].id = 1 /\ version < events'[n].version
          /\ events'[n].version <= clock'
  <2>1. \A n \in 1..Len(events) : events[n].version \in Nat /\ events[n].version <= clock
    BY <1>4 DEF CodeEvents, OnlyOne
  <2>2. ASSUME NEW n \in 1..Len(events)
        PROVE  /\ events'[n].id = 1 /\ version < events'[n].version
               /\ events'[n].version <= clock'
    BY <1>2, <1>4, <2>1, <2>2 DEF OnlyOne
  <2>. QED
    BY <1>2, <1>4, <1>5, <2>2
<1>7. ASSUME NEW m \in 1..Len(events'), NEW n \in 1..Len(events'), m < n
      PROVE  events'[m].version < events'[n].version
  <2>1. m \in 1..Len(events)
    BY <1>2, <1>7
  <2>2. CASE n \in 1..Len(events)
    BY <1>2, <1>7, <2>1, <2>2 DEF OnlyOne
  <2>3. CASE n = Len(events) + 1
    BY <1>2, <1>4, <2>1, <2>3 DEF OnlyOne, CodeEvents
  <2>. QED
    BY <1>5, <2>2, <2>3
<1>8. OnlyOne'
  BY <1>2, <1>3, <1>4, <1>6, <1>7 DEF OnlyOne
<1>9. Leaving'
  <2>1. events' # << >> /\ events'[Len(events')].action = "deleted"
    BY <1>2
  <2>. QED
    BY <1>1, <1>3, <2>1 DEF Leaving
<1>. QED
  BY <1>8, <1>9 DEF Stages

LEMMA HandleFollows ==
    ASSUME IndexTyped, PlainEvents, OnlyOne, Stages, Quiet', HandleEvent
    PROVE  OnlyOne' /\ Stages'
<1>. USE DEF gitVars, djangoVars, syncVars, indexVars, bounds
<1>1. /\ events # << >> /\ Len(events) \in Nat /\ Len(events') = Len(events) - 1
      /\ Head(events) = events[1] /\ 1 \in 1..Len(events)
      /\ \A n \in 1..Len(events') : events'[n] = events[n + 1]
      /\ events' = << >> <=> Len(events) = 1
      /\ \A n \in 1..Len(events) : events[n] \in CodeEvents
  BY HandleTakes
<1>2. /\ events[1].id = 1 /\ version < events[1].version /\ events[1].version <= clock
      /\ clock \in Nat /\ version \in Nat
      /\ \A n \in 1..Len(events) : events[n].version \in Nat
  BY <1>1 DEF OnlyOne, IndexTyped, QueuesTyped, CodeEvents
<1>3. ~Stale(Head(events))
  BY <1>1, <1>2 DEF Stale
<1>4. /\ version' = events[1].version
      /\ UNCHANGED <<connected, removed, clock, statuses>>
      /\ snapshot' = [snapshot EXCEPT ![1] = IF events[1].action = "deleted" THEN Absent
                                             ELSE events[1].row]
  BY <1>1, <1>2, <1>3 DEF HandleEvent
<1>5. /\ snapshot'[1] = IF events[1].action = "deleted" THEN Absent ELSE events[1].row
      /\ \A j \in Integration : j # 1 => snapshot'[j] = snapshot[j]
  <2>1. 1 \in Integration
    BY IndexAssumption DEF Integration
  <2>. QED
    BY <1>4, <2>1 DEF IndexTyped, RowsTyped
<1>6. OnlyOne'
  <2>1. \A n \in 1..Len(events') : n + 1 \in 1..Len(events) /\ 1 < n + 1
    BY <1>1
  <2>2. \A n \in 1..Len(events') :
            events'[n].id = 1 /\ version' < events'[n].version /\ events'[n].version <= clock'
    BY <1>1, <1>4, <2>1 DEF OnlyOne
  <2>3. \A m, n \in 1..Len(events') : m < n => events'[m].version < events'[n].version
    <3>1. \A m, n \in 1..Len(events') : m < n => m + 1 < n + 1
      OBVIOUS
    <3>. QED
      BY <1>1, <2>1, <3>1 DEF OnlyOne
  <2>. QED
    BY <1>2, <1>4, <1>5, <2>2, <2>3 DEF OnlyOne
<1>7. CASE Announced
  <2>1. /\ events[1].row = connected[1] /\ events[1].action = "created" /\ statuses = << >>
        /\ connected[1].branch \in Branch
    BY <1>7 DEF Announced
  <2>2. snapshot'[1] = connected[1] /\ connected'[1] = connected[1] /\ events' = << >>
    BY <1>1, <1>4, <1>5, <1>7, <2>1 DEF Announced
  <2>3. Reaches(connected[1], connected[1], << >>)
    BY DEF Reaches
  <2>4. Followed'
    BY <1>4, <2>1, <2>2, <2>3 DEF Followed
  <2>. QED
    BY <1>6, <2>4 DEF Stages
<1>8. CASE Leaving
  <2>1. CASE Len(events) = 1
    <3>1. Left'
      BY <1>1, <1>4, <1>5, <1>8, <2>1 DEF Leaving, Left
    <3>. QED
      BY <1>6, <3>1 DEF Stages
  <2>2. CASE Len(events) # 1
    <3>1. Len(events') \in 1..Len(events') /\ Len(events') + 1 = Len(events)
      BY <1>1, <2>2
    <3>2. events' # << >> /\ events'[Len(events')] = events[Len(events)]
      BY <1>1, <2>2, <3>1
    <3>3. Leaving'
      BY <1>4, <1>8, <3>2 DEF Leaving
    <3>. QED
      BY <1>6, <3>3 DEF Stages
  <2>. QED
    BY <2>1, <2>2
<1>. QED
  BY <1>1, <1>7, <1>8 DEF Stages, NotYet, Followed, Left

LEMMA ApplyFollows ==
    ASSUME IndexTyped, OnlyOne, Stages, ApplyStatus
    PROVE  OnlyOne' /\ Stages'
<1>. USE DEF gitVars, djangoVars, syncVars, indexVars, bounds
<1>1. /\ statuses # << >> /\ statuses \in Seq(Reports) /\ Head(statuses) \in Reports
      /\ statuses' = Tail(statuses) /\ connected \in [Integration -> Row]
      /\ 1 \in Integration
      /\ UNCHANGED <<removed, snapshot, events, version, clock, tasks, dispatch>>
  BY IndexAssumption DEF ApplyStatus, IndexTyped, QueuesTyped, RowsTyped, Integration
<1>2. ASSUME NEW i \in Integration
      PROVE  /\ connected'[i].branch = connected[i].branch
             /\ connected[i] = Absent => connected'[i] = Absent
             /\ connected[i].branch \in Branch =>
                   /\ connected'[i].status = Head(statuses).status
                   /\ connected'[i].commit =
                         IF Head(statuses).commit = 0 THEN connected[i].commit
                         ELSE Head(statuses).commit
  <2>1. connected'[i] = Reported(connected[i], Head(statuses).status, Head(statuses).commit)
    BY DEF ApplyStatus
  <2>2. /\ connected[i] \in Row /\ Head(statuses).status \in Outcomes
        /\ Head(statuses).commit \in 0..MaxCommits
    BY <1>1 DEF Reports
  <2>. QED
    BY <2>1, <2>2, ReportedRow DEF Absent, Branch
<1>3. OnlyOne'
  BY <1>1, <1>2 DEF OnlyOne
<1>4. CASE Followed
  <2>1. Reaches(connected'[1], snapshot[1], Tail(statuses))
    BY <1>1, <1>2, <1>4, ReachesApply DEF Followed
  <2>2. Followed'
    BY <1>1, <1>2, <1>4, <2>1 DEF Followed
  <2>. QED
    BY <1>3, <2>2 DEF Stages
<1>5. CASE Leaving \/ Left
  BY <1>1, <1>2, <1>3, <1>5 DEF Leaving, Left, Stages
<1>. QED
  BY <1>1, <1>4, <1>5 DEF Stages, NotYet, Announced

LEMMA WorkFollows ==
    ASSUME IndexTyped, OnlyOne, Stages, NEW t \in TaskIds, Working(t)
    PROVE  OnlyOne' /\ Stages'
<1>1. UNCHANGED <<connected, removed, events, version, clock, dispatch>>
  BY WorkLeaves
<1>2. Followed \/ Leaving \/ Left
  BY DEF Stages, NotYet, Announced, TaskIds
<1>3. CASE UNCHANGED <<snapshot, statuses>>
  BY <1>1, <1>2, <1>3, FollowsAlone
<1>4. ASSUME NEW s \in Outcomes, NEW c \in 0..MaxCommits, Report(s, c)
      PROVE  OnlyOne' /\ Stages'
  <2>1. \A i \in Integration :
            /\ snapshot'[i].branch = snapshot[i].branch
            /\ snapshot[i] = Absent => snapshot'[i] = Absent
            /\ snapshot[i].branch \in Branch =>
                  /\ snapshot'[i].status = s
                  /\ snapshot'[i].commit = IF c = 0 THEN snapshot[i].commit ELSE c
    BY <1>4, ReportTyped DEF IndexTyped, Here, Absent, Branch
  <2>2. /\ statuses' = Append(statuses, [status |-> s, commit |-> c])
        /\ statuses \in Seq(Reports) /\ 1 \in Integration
    BY <1>4, IndexAssumption DEF Report, IndexTyped, QueuesTyped, Integration
  <2>3. OnlyOne'
    BY <1>1, <2>1 DEF OnlyOne
  <2>4. CASE Followed
    <3>1. Reaches(connected[1], snapshot'[1], Append(statuses, [status |-> s, commit |-> c]))
      BY <2>1, <2>2, <2>4, ReachesReport DEF Followed
    <3>2. Followed'
      BY <1>1, <2>1, <2>2, <2>4, <3>1 DEF Followed
    <3>. QED
      BY <2>3, <3>2 DEF Stages
  <2>5. CASE Leaving \/ Left
    BY <1>1, <2>1, <2>2, <2>3, <2>5 DEF Leaving, Left, Stages
  <2>. QED
    BY <1>2, <2>4, <2>5
<1>. QED
  BY <1>3, <1>4, WorkReports

LEMMA FollowsKept ==
    ASSUME IndexTyped, PlainEvents, StatusFollows,
           NotWorking \/ \E t \in TaskIds : Working(t)
    PROVE  StatusFollows'
<1>. USE DEF gitVars, djangoVars, syncVars, indexVars, bounds
<1>1. SUFFICES ASSUME Quiet' PROVE OnlyOne' /\ Stages'
  BY DEF StatusFollows
<1>2. Quiet
  <2>1. gaps \subseteq gaps'
    BY OthersOnlySend, WorkLeaves
  <2>. QED
    BY <1>1, <2>1, PatchesGrow DEF Quiet
<1>3. OnlyOne /\ Stages
  BY <1>2 DEF StatusFollows
<1>4. CASE \/ \E i \in Integration, b \in Branch : Connect(i, b)
           \/ \E i \in Integration : Disconnect(i)
  BY <1>1, <1>3, <1>4, ConnectFollows, DisconnectFollows
<1>5. CASE \E i \in Integration, to \in Target : LoadPatch(i, to)
  BY <1>1, <1>5 DEF LoadPatch, Quiet, IndexTyped, StoredTyped
<1>6. CASE SavePatch
  BY <1>2, <1>6 DEF SavePatch, Quiet, PlainEvents, Idle
<1>7. CASE HandleEvent
  BY <1>1, <1>3, <1>7, HandleFollows
<1>8. CASE ApplyStatus
  BY <1>3, <1>8, ApplyFollows
<1>9. CASE DispatchInitial \/ DispatchFails
  <2>1. dispatch # Idle
    BY <1>9 DEF DispatchInitial, DispatchFails, Idle
  <2>2. Followed \/ Leaving \/ Left
    BY <1>3, <2>1 DEF Stages, NotYet, Announced
  <2>. QED
    BY <1>3, <1>9, <2>2, FollowsAlone DEF DispatchInitial, DispatchFails
<1>12. CASE HandleFails
  <2>1. UNCHANGED <<connected, removed, snapshot, events, version, clock, statuses, dispatch>>
    <3>1. "lost" \notin gaps'
      BY <1>1 DEF Quiet
    <3>. QED
      BY <1>12, <3>1 DEF HandleFails, Note
  <2>2. UNCHANGED tasks \/ Cleans(events[1])
    BY <1>12 DEF HandleFails, IndexTyped, QueuesTyped
  <2>3. NotYet \/ Announced => ~Cleans(events[1])
    BY <1>12 DEF NotYet, Announced, Cleans, HandleFails
  <2>. QED
    BY <1>3, <2>1, <2>2, <2>3, FollowsAlone DEF Stages
<1>10. CASE Pushed
  <2>1. NotYet \/ Announced => ~Known
    BY <1>3 DEF NotYet, Announced, Known, Here, OnlyOne, Absent, Branch
  <2>2. UNCHANGED <<connected, removed, snapshot, events, version, clock, statuses, dispatch>>
    BY <1>10 DEF Pushed, Push
  <2>3. ~Known => UNCHANGED tasks
    BY <1>10 DEF Pushed, Push
  <2>. QED
    BY <1>3, <2>1, <2>2, <2>3, FollowsAlone DEF Stages
<1>11. CASE \E t \in TaskIds : Working(t)
  BY <1>3, <1>11, WorkFollows
<1>. QED
  BY <1>4, <1>5, <1>6, <1>7, <1>8, <1>9, <1>10, <1>11, <1>12 DEF NotWorking, Viewed, Synced

-----------------------------------------------------------------------------
(* IndexCode: the theorems *)

IndexKept ==
    IndexTyped /\ TasksCounted /\ RowsKept /\ PlainEvents /\ IndexingEnds /\ StatusFollows

LEMMA IndexBegins == IndexInit => IndexKept
<1>. SUFFICES ASSUME IndexInit PROVE IndexKept
  OBVIOUS
<1>1. /\ MaxCommits \in Nat \ {0} /\ MaxConnects \in Nat \ {0} /\ MaxTrouble \in Nat
      /\ 1 \in Integration /\ 1 \in 1..MaxCommits /\ 0 \in 0..MaxCommits
      /\ 1 \in 0..MaxCommits /\ 0 \in 0..MaxConnects
  BY IndexAssumption DEF Integration
<1>2. BranchTyped
  <2>1. [f \in File |-> 1] \in [File -> 0..MaxCommits]
    BY <1>1
  <2>. QED
    BY <1>1, <2>1 DEF IndexInit, BranchTyped
<1>3. Len(trees) = 1 /\ Len(tasks) = 0 /\ Len(events) = 0 /\ Len(statuses) = 0
  BY DEF IndexInit
<1>4. RowsTyped
  BY <1>1 DEF IndexInit, RowsTyped, Row, Absent, Target
<1>5. QueuesTyped /\ StoredTyped
  BY <1>1 DEF IndexInit, QueuesTyped, StoredTyped, NoRows
<1>6. TasksTyped
  BY <1>3 DEF IndexInit, TasksTyped, TaskIds
<1>7. TasksCounted
  <2>1. Owed = 0 /\ Standing = {} /\ Cardinality(removed) = 0
    BY <1>3, FS_EmptySet DEF IndexInit, Owed, Standing
  <2>2. CountedFor(0)
    BY <1>3, <2>1 DEF IndexInit, CountedFor, Allowed
  <2>. QED
    BY <1>1, <2>2 DEF IndexInit, TasksCounted, RealRows
<1>8. RowsKept
  BY <1>3 DEF IndexInit, RowsKept, OneRuns, CleanedFirst, StoredFirst, RowsLead, TaskIds
<1>9. PlainEvents
  BY <1>3 DEF IndexInit, PlainEvents
<1>10. IndexingEnds
  BY DEF IndexInit, IndexingEnds, SomeIndexing, Absent
<1>11. StatusFollows
  BY <1>1, <1>3 DEF IndexInit, StatusFollows, OnlyOne, Stages, NotYet
<1>. QED
  BY <1>2, <1>4, <1>5, <1>6, <1>7, <1>8, <1>9, <1>10, <1>11 DEF IndexKept, IndexTyped

LEMMA IndexGoesOn == IndexKept /\ [IndexNext]_indexCodeVars => IndexKept'
<1>. SUFFICES ASSUME IndexKept, [IndexNext]_indexCodeVars PROVE IndexKept'
  OBVIOUS
<1>. USE DEF IndexKept
<1>1. CASE NotWorking
  <2>1. IndexTyped'
    BY <1>1, DjangoTyped, SyncTyped, PushTyped DEF NotWorking, Pushed
  <2>2. TasksCounted'
    BY <1>1, DjangoCounted, QueueCounted DEF NotWorking
  <2>. QED
    BY <1>1, <2>1, <2>2, OthersKeepRows, PlainKept, IndexingKept, FollowsKept
<1>2. CASE \E t \in TaskIds : Working(t)
  <2>1. IndexTyped'
    BY <1>2, WorkTyped
  <2>2. TasksCounted'
    BY <1>2, QueueCounted
  <2>3. RowsKept'
    BY <1>2, WorkKeepsRows
  <2>. QED
    BY <1>2, <2>1, <2>2, <2>3, PlainKept, IndexingKept, FollowsKept
<1>3. CASE UNCHANGED indexCodeVars
  <2>. USE <1>3 DEF indexCodeVars, gitVars, djangoVars, syncVars, indexVars, bounds
  <2>1. IndexTyped'
    BY CodeLeftAlone DEF IndexTyped
  <2>2. TasksCounted'
    BY DEF TasksCounted, CountedFor, RealRows, Allowed, Owed, Standing
  <2>3. RowsKept'
    BY DEF RowsKept, OneRuns, CleanedFirst, StoredFirst, RowsLead, TaskIds
  <2>4. PlainEvents' /\ IndexingEnds'
    BY DEF PlainEvents, IndexingEnds, SomeIndexing, FirstIndexLeft, TaskIds, Here
  <2>5. StatusFollows'
    BY FollowsAlone DEF StatusFollows, Quiet
  <2>. QED
    BY <2>1, <2>2, <2>3, <2>4, <2>5
<1>. QED
  BY <1>1, <1>2, <1>3 DEF IndexNext, NotWorking, Viewed, Synced, Pushed, Working

LEMMA IndexAlways == IndexSpec => []IndexKept
<1>. QED
  BY IndexBegins, IndexGoesOn, PTL DEF IndexSpec

\* In whatever order the tasks of a repository are delivered, lost and delivered again, while
\* its connection comes and goes, every row of the index leads to an object that is stored,
\* unless two tasks overlapped or a cleanup failed or was late (index_code uploads before it
\* inserts rows, cleanup_code_index deletes rows before objects); and no more tasks are sent
\* than connections, disconnections, pushes, PATCH requests and failed handlers ask for.
THEOREM IndexStaysReadable == IndexSpec => []IndexReadable
<1>1. IndexKept => IndexReadable
  <2>. SUFFICES ASSUME IndexKept PROVE IndexReadable
    OBVIOUS
  <2>1. IndexTyped /\ TasksCounted /\ RowsKept
    BY DEF IndexKept
  <2>2. IndexTypeOK
    <3>1. \A t \in TaskIds : tasks[t].at \subseteq tasks[t].todo
      BY <2>1 DEF IndexTyped, TasksTyped, Sound
    <3>. QED
      BY <2>1, <3>1, CountBoundsTasks DEF IndexTypeOK, IndexTyped, RowsTyped, StoredTyped
  <2>3. RowsHaveObjects
    BY <2>1 DEF RowsKept, RowsLead, RowsHaveObjects
  <2>. QED
    BY <2>2, <2>3 DEF IndexReadable
<1>. QED
  BY <1>1, IndexAlways, PTL

\* Whatever failed, was lost or was delivered again, once the topics and the tasks are drained
\* no repository is left "indexing" (_run_initial_index reports what ends it), unless a PATCH
\* wrote an old row back or a time limit or a failing report ended a first index; and Django
\* shows the status and the commit that FastAPI recorded (consume_indexing_status), unless a
\* PATCH wrote an old row back, an event was lost by its handler or to its millisecond or the
\* repository was connected again.
THEOREM StatusAlwaysSettles == IndexSpec => []StatusSettles
<1>1. IndexKept => StatusSettles
  <2>. SUFFICES ASSUME IndexKept PROVE StatusSettles
    OBVIOUS
  <2>1. IndexTyped /\ IndexingEnds /\ StatusFollows
    BY DEF IndexKept
  <2>2. NoneLeftIndexing
    BY <2>1 DEF IndexingEnds, SomeIndexing, FirstIndexLeft, NoneLeftIndexing, Drained, AllDone
  <2>3. ASSUME Drained, statuses = << >>, Quiet
        PROVE  connected = snapshot
    <3>1. OnlyOne /\ (NotYet \/ Followed \/ Left)
      BY <2>1, <2>3 DEF StatusFollows, Stages, Announced, Leaving, Drained
    <3>2. connected \in [Integration -> Row] /\ snapshot \in [Integration -> Row]
      BY <2>1 DEF IndexTyped, RowsTyped
    <3>3. connected[1] = snapshot[1]
      <4>1. CASE NotYet \/ Left
        BY <4>1 DEF NotYet, Left
      <4>2. CASE Followed
        <5>1. 1 \in Integration /\ Len(statuses) = 0
          BY <2>3, IndexAssumption DEF Integration
        <5>2. /\ snapshot[1].status = connected[1].status
              /\ snapshot[1].commit = connected[1].commit
              /\ snapshot[1].branch = connected[1].branch
          BY <2>3, <4>2, <5>1 DEF Followed, Reaches
        <5>3. connected[1] \in Row /\ snapshot[1] \in Row
          BY <3>2, <5>1
        <5>. QED
          BY <5>2, <5>3 DEF Row
      <4>. QED
        BY <3>1, <4>1, <4>2
    <3>4. \A i \in Integration : connected[i] = snapshot[i]
      BY <3>1, <3>3 DEF OnlyOne
    <3>. QED
      BY <3>2, <3>4
  <2>4. StatusAgrees
    BY <2>3 DEF StatusAgrees, Quiet
  <2>. QED
    BY <2>2, <2>4 DEF StatusSettles
<1>. QED
  BY <1>1, IndexAlways, PTL
=============================================================================
