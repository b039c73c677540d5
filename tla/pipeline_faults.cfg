SPECIFICATION Spec
CONSTANTS
    t1 = t1
    t2 = t2
    f1 = f1
    Task = {t1, t2}
    Log = {t1, t2}
    Fingerprint = {f1}
    IncidentId = {i1, i2}
    Editor = {e1}
    NoTask = NoTask
    NoIncident = NoIncident
    FpOf <- MCOneFp
    LogOf <- MCLogOf
    HasAlert = {t1}
    HasPatch = {t2}
    RedisFaults = TRUE
    TtlTooShort = TRUE
    BrokerFaults = TRUE
    MaxRetries = 0
    MaxCrashes = 1
    MaxEdits = 2
    MaxWipes = 1
CHECK_DEADLOCK FALSE
INVARIANTS TypeOK UniqueActive OutboxTellsTable OutcomeIsTrue
PROPERTIES ImplementsLedger
