CONSTANTS
    Workers = {w1, w2}
    NumInstances = 1
    NumJobs = 1
    Jobs <- MCJobs
    InstanceOf <- MCInstanceOf
    JobsPerHour = 1
    Window = 2
    HoursPerDay = 2
    ActiveStart = 1
    ActiveEnd = 1
    None = None
SPECIFICATION FairSpec
INVARIANTS TypeOK RateBound
PROPERTIES OneLateClaim OnlyStopEndsLoops StopEnds Drains
