\* Two requests, and the two background tasks.  The process ends: no deadlock check.
CONSTANTS
    Requests = {r1, r2}
    Tasks = {health, gauge}
    Fragile = {health}
SPECIFICATION FairClientsSpec
INVARIANTS
    TypeOK
    RequestsBeforeTasks
    OkMeansClean
PROPERTIES
    SignalEndsProcess
CHECK_DEADLOCK FALSE
