CONSTANTS
    Callers = {c1, c2}
    Episodes = {e1}
    Languages = 2
    Strategies = 1
    Quota = 2
    NoEpisode = NoEpisode
    MaxTroubles = 2
SPECIFICATION FairSpec
INVARIANTS QuotaBound SingleFlight
PROPERTY GetReturns
