CONSTANTS
    Recipient = {r1, r2}
    Msg = {m1, m2, m3}
    QueueRetentionHours = 1
    MaxQueuePerDevice = 2
    DefaultRetentionHours = 3
    DefaultMaxQueue = 3
    MaxHours = 2
    MaxRows = 4
SPECIFICATION QueueSpec
INVARIANTS QueueWithinCap QueueIsSound
PROPERTIES EvictionIsOldestFirst ExpiredAreEventuallyPurged
