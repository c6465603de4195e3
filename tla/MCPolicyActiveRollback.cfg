SPECIFICATION Spec
CONSTANTS
    RequestIds <- MCRequestIds
    KindOf <- MCKindOf
    Candidates <- MCCandidates
    Registered <- MCRegistered
    Replacements <- MCReplacements
    FailingWrites <- MCFailingWrites
    MaxStates = 4
    MaxFailures = 1
INVARIANTS
    HistoryKept
    OneSuccessor
    RuntimeFollowsUnlessOlder
CHECK_DEADLOCK FALSE
