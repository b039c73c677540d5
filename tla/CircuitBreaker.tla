--------------------------- MODULE CircuitBreaker ---------------------------
(***************************************************************************)
(* The Redis-backed circuit breaker of fastapi/app/agents/circuit_breaker. *)
(* One circuit is shared by every Celery worker that runs the same node    *)
(* of the agent workflow.  Nothing but SET NX and the pipelines is atomic: *)
(* each Redis command is a step, and what a caller read may be stale when  *)
(* it writes.  The three nodes that use a circuit record its outcomes      *)
(* differently (Records): "guarded" says whose circuit this is.            *)
(*                                                                         *)
(* Time is kept as what is left: "opened" until the timeout of the circuit *)
(* elapses, "slot" until the TTL of the probe lock does.                   *)
(***************************************************************************)
EXTENDS Naturals, FiniteSets

CONSTANTS
    Caller,             \* worker processes that call the guarded dependency
    Node,               \* whose circuit this is, see NodeAssumption
    FailureThreshold,   \* failures that open the circuit (5 in the code)
    SuccessThreshold,   \* successes that close it again (2 in the code)
    Timeout             \* ticks of the 30 seconds of OPEN and of the lock

ASSUME CallerAssumption == IsFiniteSet(Caller) /\ Caller # {}
ASSUME NodeAssumption ==
    Node \subseteq {"analyzer", "fix_generator", "patch_generator"}
ASSUME ThresholdAssumption ==
    {FailureThreshold, SuccessThreshold, Timeout} \subseteq Nat \ {0}

VARIABLES
    guarded,    \* the node whose calls go through this circuit
    state,      \* cb:{name}:state
    failures,   \* cb:{name}:failures
    successes,  \* cb:{name}:successes
    opened,     \* cb:{name}:opened_at, as the ticks left; Gone when deleted
    slot,       \* cb:{name}:probe_lock, as the ticks left; 0 when absent
    pc,         \* where each caller stands
    reason,     \* why the caller records a failure: its call, or "blocked"
    healthy     \* Gemini, Redis and the workers have stopped failing

keys == <<state, failures, successes, opened, slot>>
breakerVars == <<guarded, state, failures, successes, opened, slot, pc,
                 reason, healthy>>

Gone == Timeout + 1

\* Steps inside can_execute, the call, and the steps of the two recorders.
Checking == {"get_opened_at", "set_closed", "claim_open", "set_half_open",
             "zero_successes", "claim_half_open"}
Recording == {"succeeded", "count_success", "close", "release",
              "zero_failures", "failed", "reopen", "count_failure", "open"}
PC == {"idle", "call"} \cup Checking \cup Recording

\* Mutant: the unlucky answers of the patch generator are not recorded, and
\* its blocked callers are, as the other nodes do.
RecordsBlocked(result) == result \in {"error", "blocked"}

(***************************************************************************)
(* What a node records after its call.  "error": the client raised.        *)
(* "unparsable": an answer came that is not the JSON asked for.            *)
(* "blocked": can_execute returned False.                                  *)
(***************************************************************************)
Records(result) ==
    \/ result = "error"
    \/ result = "unparsable" /\ guarded = "patch_generator"
    \/ result = "blocked" /\ guarded # "patch_generator"

BreakerInit ==
    /\ guarded \in Node
    /\ state = "CLOSED" /\ failures = 0 /\ successes = 0
    /\ opened = Gone /\ slot = 0
    /\ pc = [c \in Caller |-> "idle"]
    /\ reason = [c \in Caller |-> "none"]
    /\ healthy = FALSE

Move(c, where) == pc' = [pc EXCEPT ![c] = where]

-----------------------------------------------------------------------------
(***************************************************************************)
(* can_execute                                                             *)
(***************************************************************************)

\* A caller that is not admitted: the nodes built on an exception fall into
\* the handler that records a failure, the patch generator returns.
Block(c) ==
    IF Records("blocked")
    THEN Move(c, "failed") /\ reason' = [reason EXCEPT ![c] = "blocked"]
    ELSE Move(c, "idle") /\ UNCHANGED reason

CheckState(c) ==
    /\ pc[c] = "idle"
    /\ Move(c, CASE state = "CLOSED" -> "call"
                 [] state = "OPEN" -> "get_opened_at"
                 [] state = "HALF_OPEN" -> "claim_half_open")
    /\ UNCHANGED <<keys, reason>>

\* The elapsed time is computed here and used after the next two awaits.
GetOpenedAt(c) ==
    /\ pc[c] = "get_opened_at"
    /\ CASE opened = Gone -> Move(c, "set_closed") /\ UNCHANGED reason
         [] opened = 0 -> Move(c, "claim_open") /\ UNCHANGED reason
         [] opened \in 1..Timeout -> Block(c)
    /\ UNCHANGED keys

\* The opening time is missing: the circuit counts as closed.
SetClosed(c) ==
    /\ pc[c] = "set_closed"
    /\ state' = "CLOSED"
    /\ Move(c, "call")
    /\ UNCHANGED <<failures, successes, opened, slot, reason>>

\* SET probe_lock NX EX timeout, the one atomic claim of the protocol.
Claim(c, from, next) ==
    /\ pc[c] = from
    /\ IF slot = 0
       THEN slot' = Timeout /\ Move(c, next) /\ UNCHANGED reason
       ELSE Block(c) /\ UNCHANGED slot
    /\ UNCHANGED <<state, failures, successes, opened>>

ClaimOpen(c) == Claim(c, "claim_open", "set_half_open")
ClaimHalfOpen(c) == Claim(c, "claim_half_open", "call")

SetHalfOpen(c) ==
    /\ pc[c] = "set_half_open"
    /\ state' = "HALF_OPEN"
    /\ Move(c, "zero_successes")
    /\ UNCHANGED <<failures, successes, opened, slot, reason>>

ZeroSuccesses(c) ==
    /\ pc[c] = "zero_successes"
    /\ successes' = 0
    /\ Move(c, "call")
    /\ UNCHANGED <<state, failures, opened, slot, reason>>

-----------------------------------------------------------------------------
(***************************************************************************)
(* The guarded call.  It may take longer than the TTL of the probe lock:   *)
(* any number of ticks pass while a caller is at "call".                   *)
(***************************************************************************)

CallAnswered(c) ==
    /\ pc[c] = "call"
    /\ Move(c, "succeeded")
    /\ UNCHANGED <<keys, reason>>

CallFails(c, result) ==
    /\ pc[c] = "call" /\ ~healthy
    /\ IF Records(result)
       THEN Move(c, "failed") /\ reason' = [reason EXCEPT ![c] = "call"]
       ELSE Move(c, "idle") /\ UNCHANGED reason
    /\ UNCHANGED keys

-----------------------------------------------------------------------------
(***************************************************************************)
(* record_success                                                          *)
(***************************************************************************)

SuccessReads(c) ==
    /\ pc[c] = "succeeded"
    /\ Move(c, CASE state = "HALF_OPEN" -> "count_success"
                 [] state = "CLOSED" -> "zero_failures"
                 [] state = "OPEN" -> "idle")
    /\ UNCHANGED <<keys, reason>>

\* The count stops at the threshold, which is all that is compared.
CountSuccess(c) ==
    /\ pc[c] = "count_success"
    /\ successes' = IF successes < SuccessThreshold THEN successes + 1
                                                    ELSE successes
    /\ Move(c, IF successes' >= SuccessThreshold THEN "close" ELSE "release")
    /\ UNCHANGED <<state, failures, opened, slot, reason>>

Close(c) ==
    /\ pc[c] = "close"
    /\ state' = "CLOSED" /\ failures' = 0 /\ successes' = 0
    /\ opened' = Gone /\ slot' = 0
    /\ Move(c, "idle")
    /\ UNCHANGED reason

\* The lock carries no owner: whoever's lock it is, it is deleted.
Release(c) ==
    /\ pc[c] = "release"
    /\ slot' = 0
    /\ Move(c, "idle")
    /\ UNCHANGED <<state, failures, successes, opened, reason>>

ZeroFailures(c) ==
    /\ pc[c] = "zero_failures"
    /\ failures' = 0
    /\ Move(c, "idle")
    /\ UNCHANGED <<state, successes, opened, slot, reason>>

-----------------------------------------------------------------------------
(***************************************************************************)
(* record_failure                                                          *)
(***************************************************************************)

Done(c) == Move(c, "idle") /\ reason' = [reason EXCEPT ![c] = "none"]

FailureReads(c) ==
    /\ pc[c] = "failed"
    /\ CASE state = "OPEN" -> Done(c)
         [] state = "HALF_OPEN" -> Move(c, "reopen") /\ UNCHANGED reason
         [] state = "CLOSED" -> Move(c, "count_failure") /\ UNCHANGED reason
    /\ UNCHANGED keys

\* Mutant: the failed probe leaves the old opening time in place.
ReopenOldTime(c) ==
    /\ pc[c] = "reopen"
    /\ state' = "OPEN" /\ successes' = 0 /\ slot' = 0
    /\ Done(c)
    /\ UNCHANGED <<failures, opened>>

Reopen(c) ==
    /\ pc[c] = "reopen"
    /\ state' = "OPEN" /\ opened' = Timeout /\ successes' = 0 /\ slot' = 0
    /\ Done(c)
    /\ UNCHANGED <<failures>>

\* The count stops at the threshold, which is all that is compared.
CountFailure(c) ==
    /\ pc[c] = "count_failure"
    /\ failures' = IF failures < FailureThreshold THEN failures + 1
                                                  ELSE failures
    /\ IF failures' >= FailureThreshold
       THEN Move(c, "open") /\ UNCHANGED reason
       ELSE Done(c)
    /\ UNCHANGED <<state, successes, opened, slot>>

OpenCircuit(c) ==
    /\ pc[c] = "open"
    /\ state' = "OPEN" /\ opened' = Timeout /\ successes' = 0
    /\ Done(c)
    /\ UNCHANGED <<failures, slot>>

-----------------------------------------------------------------------------
(***************************************************************************)
(* Faults and time                                                         *)
(***************************************************************************)

\* A RedisError: can_execute fails open, the recorders give up.
RedisError(c) ==
    /\ ~healthy
    /\ \/ pc[c] \in Checking \cup {"idle"} /\ Move(c, "call") /\ UNCHANGED reason
       \/ pc[c] \in Recording /\ Done(c)
    /\ UNCHANGED keys

\* The worker is killed; its next task starts anew.
Killed(c) ==
    /\ ~healthy
    /\ pc[c] # "idle"
    /\ Done(c)
    /\ UNCHANGED keys

Recover ==
    /\ ~healthy
    /\ healthy' = TRUE
    /\ UNCHANGED <<guarded, keys, pc, reason>>

\* Mutant: the probe lock is taken without a TTL.
TickNoTTL ==
    /\ opened \in 1..Timeout
    /\ opened' = opened - 1
    /\ UNCHANGED <<guarded, state, failures, successes, slot, pc, reason, healthy>>

Tick ==
    /\ opened \in 1..Timeout \/ slot > 0
    /\ opened' = IF opened \in 1..Timeout THEN opened - 1 ELSE opened
    /\ slot' = IF slot > 0 THEN slot - 1 ELSE 0
    /\ UNCHANGED <<guarded, state, failures, successes, pc, reason, healthy>>

Proceed(c) ==
    \/ GetOpenedAt(c) \/ SetClosed(c) \/ ClaimOpen(c) \/ ClaimHalfOpen(c)
    \/ SetHalfOpen(c) \/ ZeroSuccesses(c) \/ CallAnswered(c)
    \/ SuccessReads(c) \/ CountSuccess(c) \/ Close(c) \/ Release(c)
    \/ ZeroFailures(c) \/ FailureReads(c) \/ Reopen(c)
    \/ CountFailure(c) \/ OpenCircuit(c)

CallerStep(c) ==
    /\ \/ CheckState(c)
       \/ Proceed(c)
       \/ \E result \in {"error", "unparsable"} : CallFails(c, result)
       \/ RedisError(c)
       \/ Killed(c)
    /\ UNCHANGED <<guarded, healthy>>

BreakerNext ==
    \/ \E c \in Caller : CallerStep(c)
    \/ Recover
    \/ Tick

(***************************************************************************)
(* Time passes, a caller's awaits return, and the workers keep taking      *)
(* tasks.  That a call is answered and not failed is fair only because     *)
(* nothing fails once "healthy" holds.                                     *)
(***************************************************************************)
BreakerFairness ==
    /\ WF_breakerVars(Tick)
    /\ \A c \in Caller :
          /\ WF_breakerVars(Proceed(c) /\ UNCHANGED <<guarded, healthy>>)
          /\ WF_breakerVars(CheckState(c) /\ UNCHANGED <<guarded, healthy>>)

BreakerSpec == BreakerInit /\ [][BreakerNext]_breakerVars /\ BreakerFairness

-----------------------------------------------------------------------------
BreakerTypeOK ==
    /\ guarded \in Node
    /\ state \in {"CLOSED", "OPEN", "HALF_OPEN"}
    /\ failures \in 0..FailureThreshold
    /\ successes \in 0..SuccessThreshold
    /\ opened \in 0..Gone
    /\ slot \in 0..Timeout
    /\ pc \in [Caller -> PC]
    /\ reason \in [Caller -> {"none", "call", "blocked"}]
    /\ healthy \in BOOLEAN

\* A caller that checked the circuit now, alone, would be let through.
Admits ==
    \/ state = "CLOSED"
    \/ state = "OPEN" /\ opened = Gone
    \/ state = "OPEN" /\ opened = 0 /\ slot = 0
    \/ state = "HALF_OPEN" /\ slot = 0

(***************************************************************************)
(* Whatever the failures left behind (a probe lock of a worker that was    *)
(* killed, of an answer nobody recorded, of a stale claim), the circuit    *)
(* lets calls through again and again once they have stopped.              *)
(***************************************************************************)
NeverShutForGood == healthy ~> (Admits \/ \E c \in Caller : pc[c] = "call")

(***************************************************************************)
(* An open circuit knows when it was opened (cb:{name}:opened_at); without *)
(* it the next can_execute would count it as closed.  A caller that was    *)
(* about to claim the probe can set HALF_OPEN after the circuit was closed *)
(* and its opening time deleted, and a failure then reopens it.            *)
(***************************************************************************)
OpenHasTime == state = "OPEN" => opened # Gone

(* What callers leave half written still is a breaker, and one that can close again. *)
BreakerConsistent == BreakerTypeOK /\ OpenHasTime

(***************************************************************************)
(* Once Gemini, Redis and the workers stop failing, the circuit of the     *)
(* patch generator closes and stays closed, however many callers were in   *)
(* the middle of can_execute or of a late answer.  (The two other nodes    *)
(* count their blocked callers as failures.)                               *)
(***************************************************************************)
HealthyCloses ==
    guarded = "patch_generator" => (healthy ~> [](state = "CLOSED"))

=============================================================================
