SPECIFICATION Spec
CONSTANTS
    Ticks = {0, 1, 2, 4}
    MaxValues = 5
INVARIANTS
    StdDevIsSampleDeviation
    JitterIsDeviationOfDeltas
    ModeIsMostFrequent
    ReportIsConsistent
CHECK_DEADLOCK FALSE
