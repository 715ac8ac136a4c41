SPECIFICATION StressSpec
CONSTANTS
    s1 = s1
    s2 = s2
    Subs <- OneSub
    SubMaxTest = 2
    MaxTest = 2
    Messages = 2
    MinSubs = 1
    Vendors = {"FastDDS"}
    ProcessTypes = {"Normal"}
    OffsetCyclesReset = 1
    OffsetCycleStart = 1
    MaxInstances = 2
    MaxMatches = 1
INVARIANT
    MatchedCountsListeners
CHECK_DEADLOCK FALSE
