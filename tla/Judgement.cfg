CONSTANT MaxCandidates = 2
SPECIFICATION Spec
INVARIANTS
    LoneDissenterLoses RaiseHelps AutoRemapBacked ClaimedRoundTrip NeverPartial
    ClaimedMeasured AnswerDecidesClaim NoEvidenceNoAction PassedOverForCause
