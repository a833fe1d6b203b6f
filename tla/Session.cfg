SPECIFICATION Spec
CONSTANTS
    Caller = {a, b}
    MaxHits = 2
    Window = 3
    MaxStall = 1
    Admin = a
    Call = {q1}
    MaxBackoff = 3
    MaxEvents = 2
    None = None
INVARIANTS SessionIsSound
PROPERTIES RejectedStaysAway Reconnects CallsReturn
CHECK_DEADLOCK FALSE
