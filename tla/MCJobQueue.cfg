CONSTANTS
    NumJobs = 1
    MaxAttempts = 2
    Workers = {w1, w2}
    Requests = {r1}
    NoOwner = NoOwner
    NoActor = NoActor
    ApiAnon = ApiAnon
    IdOf <- MCIdOf
SPECIFICATION FairSpec
INVARIANTS TypeOK LeaseShape PoisonBounded PoolFenceSound
PROPERTIES NoSteal LifecycleSpec JobsSettle
