CONSTANTS
    Jobs = {j1}
    Workers = {w1, w2}
    llm = llm
    whisper = whisper
    Plugins <- TwoPlugins
    MinEvidence = 2
    NoBudget = NoBudget
    Budget <- MCBudget
    Parts <- OnePart
    Outages <- OneOrAll
    NoJob = NoJob
    NoOwner = NoOwner
    UsedBefore = 1
    MaxRuns = 2
    MaxDays = 1
SPECIFICATION Spec
INVARIANTS
    TypeOK BudgetOvershoot EvidenceBehindStatus VerdictBehindStatus
    RoutesAsScored
