SPECIFICATION Spec
CONSTANTS
    Delivery = {d1}
    Device = {k1, k2}
    BatchSize = 1
    MaxRetries = 1
    MaxTokens = 2
    MaxFaults = 1
CHECK_DEADLOCK FALSE
INVARIANTS AlertedOnce OutcomesKnown OnlyDeadTokensDropped
