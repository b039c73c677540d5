\* Two workers share the circuit of one node.
SPECIFICATION BreakerSpec
CONSTANTS
    Caller = {c1, c2}
    Node = {"analyzer", "patch_generator"}
    FailureThreshold = 2
    SuccessThreshold = 2
    Timeout = 2
INVARIANTS BreakerConsistent
PROPERTIES NeverShutForGood HealthyCloses
