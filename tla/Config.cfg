\* Up to three entries: enough for an entry that fails a check to come before two
\* spellings of one url.  Lengths, limits and smoothing factors are scaled down.
CONSTANTS
    a = a
    b = b
    Hosts = {a, b}
    NoHost = NoHost
    HostLen <- Lengths
    None = None
    NaN = NaN
    MaxUrlLen = 4
    MaxRateLimit = 2
    MaxBurstSize = 2
    DefaultInterval = 30
    DefaultSmoothing = 1
    DefaultBatch = 100
    DefaultConcurrency = 50
    DefaultWeight = 20
    DefaultEndpoints <- TheDefaults
    Files <- SomeFiles
SPECIFICATION Spec
INVARIANTS
    TypeOK
    FirstValidWins
    FinalCanBeBuilt
CHECK_DEADLOCK FALSE
