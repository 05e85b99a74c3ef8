\* One request, one reload at a time, repeated; a is the endpoint that comes and
\* goes and whose upstream fails, b makes the round wait.
CONSTANTS
    a = a
    b = b
    NoUrl = NoUrl
    Urls = {a, b}
    Requests = {r1}
    WordBits = 3
    MaxAttempts = 3
    Base = 1
    Max = 2
    Configs <- SomeConfigs
    Steady = {b}
SPECIFICATION FairBalancerSpec
INVARIANTS
    BalancerTypeOK
PROPERTIES
    RefinesListedRotation
    HealthShowsThroughReloads
    HealthSettlesAfterReloads
