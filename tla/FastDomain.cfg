SPECIFICATION Spec
CONSTANTS
    Participant = {p1, p2, p3}
    Null = Null
INVARIANTS
    TypeOK
    EnabledAreListed
    QosSinceReset
CHECK_DEADLOCK FALSE
