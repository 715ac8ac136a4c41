\* The offsets are those of the code.  MaxInstances is below Messages, so that a
\* writer may refuse an entity of any batch.  With MinSubs = 0 the OpenDDS build
\* does not wait for a reader, nor for its own writers.
SPECIFICATION FairSpec
CONSTANTS
    Vendors = {"FastDDS", "OpenDDS", "CycloneDDS"}
    ProcessTypes = {"Normal", "Loan"}
    MaxTest = 3
    Messages = 2
    MinSubs = 0
    OffsetCyclesReset = 5
    OffsetCycleStart = 50
    MaxInstances = 1
    MaxMatches = 2
INVARIANTS
    TypeOK
    ControlAlternates
    BatchPerTest
    NormalKeys
    LoanKeys
    EndsAfterAllTests
PROPERTIES
    RunSpec
    PublisherEnds
    EndComesCloser
\* The process ends: nothing happens afterwards.
CHECK_DEADLOCK FALSE
