\* Two threads of the application: both may be inside read_next or stop.
SPECIFICATION FairSpec
CONSTANTS
    App = {a1, a2}
    Listener = Listener
    Free = Free
    Keys = {k1, k2}
    MaxSent = 3
INVARIANTS
    TypeOK
    InOrder
    StopBoundary
PROPERTIES
    QueueSpec
    LockReleased
