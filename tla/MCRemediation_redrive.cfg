CONSTANTS
    Jobs = {1}
    Workers = {w1}
    Requests = {}
    NoOwner = NoOwner
    NoJob = 0
    Episodes = {1, 2, 11, 12}
    Grabbed = {1}
    AutoKinds = {"replace", "remap"}
    MaxVerdicts = 2
    ApiAnon = ApiAnon
    IdOf <- MCIdOf
    Home <- MCHome
    Target <- Apart
    StagedName <- OneName
SPECIFICATION Spec
INVARIANT SingleExecution
