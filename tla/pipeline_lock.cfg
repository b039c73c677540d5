SPECIFICATION FairSpec
CONSTANTS
    t1 = t1
    t2 = t2
    f1 = f1
    Task = {t1, t2}
    Log = {t1, t2}
    Fingerprint = {f1}
    IncidentId = {i1, i2}
    Editor = {}
    NoTask = NoTask
    NoIncident = NoIncident
    FpOf <- MCOneFp
    LogOf <- MCLogOf
    HasAlert = {}
    HasPatch = {}
    RedisFaults = FALSE
    TtlTooShort = FALSE
    BrokerFaults = FALSE
    MaxRetries = 1
    MaxCrashes = 2
    MaxEdits = 0
    MaxWipes = 0
CHECK_DEADLOCK FALSE
INVARIANTS LockExclusive NoLateDuplicate RecordedOncePerExecution
PROPERTIES NothingIsStuck
