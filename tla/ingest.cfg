SPECIFICATION Spec
CONSTANTS
    IncidentId = {i1, i2}
    Fingerprint = {f1}
    Log = {l1, l2}
    Requests = 2
    Capacity = 1
    MaxClock = 1
    MaxPatches = 3
    MaxFaults = 1
CHECK_DEADLOCK FALSE
INVARIANTS RateBounded AcceptedOnce StoredIsRecorded 
