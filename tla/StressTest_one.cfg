SPECIFICATION FairStressSpec
CONSTANTS
    s1 = s1
    s2 = s2
    Subs <- OneSub
    SubMaxTest = 2
    MaxTest = 2
    Messages = 2
    MinSubs = 1
    Vendors = {"FastDDS", "OpenDDS", "CycloneDDS"}
    ProcessTypes = {"Normal", "Loan"}
    OffsetCyclesReset = 1
    OffsetCycleStart = 1
    MaxInstances = 3
    MaxMatches = 1
INVARIANTS
    StressTypeOK
    RunsInOrder
    EndsWithEveryTest
    NotOvercounted
PROPERTIES
    SubscribersEnd
    PublisherGetsDone
    SkippedForGood
    SeriesSpec
CHECK_DEADLOCK FALSE
