CONSTANTS
    a = a
    b = b
    Device = {a, b}
    Msg = {m1, m2}
    None = None
    From <- MCFrom
    To <- MCTo
    MaxQueuePerDevice = 1
    MaxFaults = 1
SPECIFICATION Spec
INVARIANTS NoSilentLoss HistoryIsTrue
PROPERTIES QueueKeepsUntilDealtWith DeliveredIsFinal
CHECK_DEADLOCK FALSE
