\* A process that runs or died takes no more steps of its start-up.
CHECK_DEADLOCK FALSE
SPECIFICATION FairSpec
CONSTANTS
    Vendors = {"FastDDS", "OpenDDS", "CycloneDDS"}
    Modes <- MCModes
    Counts <- MCCounts
    Listeners = {0, 3}
    Answers = {0, 1, 2, 3, 4}
    Absent = Absent
    Mistyped = Mistyped
    MaxFrames = 3
INVARIANTS
    TypeOK
    PatternExists
    RunsWhatWasAsked
    StackGrowsByQuestions
PROPERTIES
    Decided
