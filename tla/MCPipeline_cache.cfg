CONSTANTS
    Jobs = {j1}
    Workers = {w1}
    llm = llm
    whisper = whisper
    Plugins <- TwoPlugins
    MinEvidence = 2
    NoBudget = NoBudget
    Budget <- MCBudget
    Parts <- TwoSubs
    Outages <- OnlyProbe
    NoJob = NoJob
    NoOwner = NoOwner
    UsedBefore = 1
    MaxRuns = 3
    MaxDays = 0
SPECIFICATION Spec
INVARIANT CachedLookupSucceeds
