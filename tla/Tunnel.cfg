SPECIFICATION Spec
CONSTANTS
    None = None
    Public = {p1, p2}
    Literal = {p1}
    MaxFaults = 1
INVARIANTS StreamsInStep
PROPERTIES Answered Recovers
CHECK_DEADLOCK FALSE
