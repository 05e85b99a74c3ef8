\* One request makes a late mark, and a mark can come twice: between two rounds and
\* while one waits for its slowest probe.  u64 is scaled to 3 bits and u32 to a
\* counter that ends at 4, so that the attempts pass the width of the word as
\* they can in the code.
CONSTANTS
    a = a
    b = b
    NoUrl = NoUrl
    Urls = {a, b}
    Requests = {r1}
    WordBits = 3
    MaxAttempts = 4
    Base = 1
    Max = 3
SPECIFICATION FairSpec
INVARIANTS
    TypeOK
    RestMatchesStrikes
PROPERTIES
    OneStrikePerOutage
    RefinesRotation
    UpReturns
    DownLeaves
