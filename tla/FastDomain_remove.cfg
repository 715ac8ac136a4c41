SPECIFICATION Spec
CONSTANTS
    Participant = {p1, p2}
    Null = Null
INVARIANT
    RemoveSucceeds
CHECK_DEADLOCK FALSE
