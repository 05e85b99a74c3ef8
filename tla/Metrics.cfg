\* Two requests; a unit stands for a second.
CONSTANTS
    Threads = {t1, t2}
    Latencies = {1, 8}
    Timeout = 10
    ProbeTimeout = 3
    Smoothing = 3
    Kinds <- KindsOfErrors
    BasePenalty <- Bases
    MinCost = 1
    MaxFailures = 2
SPECIFICATION FairSpec
INVARIANTS
    TypeOK
    WithinInputs
    NoFailuresMeansForgiven
PROPERTIES
    NeverStuckBeyondResidue
    CostSettles
