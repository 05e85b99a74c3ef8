\* Two selectors compete for the last tokens of two equal endpoints, with one of a
\* lower tier and without a limiter behind them, while costs and the clock move.
CONSTANTS
    a = a
    b = b
    c = c
    t1 = t1
    t2 = t2
    Urls = {a, b, c}
    Threads = {t1, t2}
    Weight <- TwoTiers
    Position <- InOrder
    Burst <- ThreeOnes
    BatchSizes = {1}
    Costs = {1, 2}
    Unlimited = {c}
    MaxNow = 2
SPECIFICATION HistorySpec
SYMMETRY Symmetry
INVARIANTS
    TypeOK
    HeaviestServes
    NoneMeansNobodyCould
    FirstOfRankingServes
