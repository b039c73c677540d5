SPECIFICATION FairSpec
CONSTANTS
    IncidentId = {i1, i2}
    Fingerprint = {f1}
    Log = {k1}
    MaxEvents = 3
    MaxDbErrors = 1
    MaxRewinds = 1
    MaxRestarts = 2
CHECK_DEADLOCK FALSE
INVARIANTS ProcessedOnce MirrorsInOrder
PROPERTIES EveryEventProcessed
