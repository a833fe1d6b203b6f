CONSTANTS
    a = a
    b = b
    Device = {a, b}
    Msg = {m1}
    None = None
    From <- MCFrom
    To <- MCTo
    MaxQueuePerDevice = 1
    MaxFaults = 2
SPECIFICATION Spec
PROPERTIES QueuedReachReconnecting OutboxIsFlushed
CHECK_DEADLOCK FALSE
