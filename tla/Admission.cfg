\* Three requests for one permit, so that two can wait, and a limit that changes.
CONSTANTS
    Requests = {r1, r2, r3}
    MaxConcurrency = 1
    Bodies <- SomeBodies
    BatchLimits = {1, 2}
SPECIFICATION FairSpec
INVARIANTS
    TypeOK
    PermitsConserved
    GaugeCountsHandlers
PROPERTIES
    RefinesGate
    EveryRequestEnds
