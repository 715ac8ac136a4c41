\* Safety of two subscribers; they are interchangeable.
SPECIFICATION StressSpec
CONSTANTS
    s1 = s1
    s2 = s2
    Subs <- TwoSubs
    SubMaxTest = 2
    MaxTest = 2
    Messages = 1
    MinSubs = 2
    Vendors = {"FastDDS", "OpenDDS", "CycloneDDS"}
    ProcessTypes = {"Normal", "Loan"}
    OffsetCyclesReset = 1
    OffsetCycleStart = 1
    MaxInstances = 1
    MaxMatches = 2
SYMMETRY SubSymmetry
INVARIANTS
    RunsInOrder
    EndsWithEveryTest
    NotOvercounted
PROPERTY
    WaitsForSubscribers
CHECK_DEADLOCK FALSE
