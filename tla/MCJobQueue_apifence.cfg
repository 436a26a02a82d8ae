CONSTANTS
    NumJobs = 1
    MaxAttempts = 1
    Workers = {w1}
    Requests = {r1, r2}
    NoOwner = NoOwner
    NoActor = NoActor
    ApiAnon = ApiAnon
    IdOf <- MCIdOf
SPECIFICATION Spec
INVARIANT ApiFenceSound
