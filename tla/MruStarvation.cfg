\* Two equal endpoints whose limiters refill faster than requests come.
CONSTANTS
    a = a
    b = b
    c = c
    t1 = t1
    t2 = t2
    Urls = {a, b}
    Threads = {t1}
    Weight <- Equals
    Position <- InOrderTwo
    Burst <- Ones
    BatchSizes = {1}
    Costs = {1}
    Unlimited = {}
    MaxNow = 1
SPECIFICATION FairHistorySpec
PROPERTIES
    NoStarvation
