CONSTANTS
    Workers = {w1}
    NumInstances = 2
    NumJobs = 2
    Jobs <- MCJobs
    InstanceOf <- MCInstanceOf
    JobsPerHour = 1
    Window = 2
    HoursPerDay = 2
    ActiveStart = 1
    ActiveEnd = 1
    None = None
SPECIFICATION Spec
INVARIANT OwnInstance
