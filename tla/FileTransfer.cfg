CONSTANTS
    t1 = t1
    t2 = t2
    Transfer = {t1, t2}
    Names <- MCNames
    File <- MCFile
    Copy <- MCCopy
    PartOf <- MCPartOf
    Chunks = 2
    MaxFramesPerWindow = 5
    MaxQueuePerDevice = 3
    MaxCopies = 3
    MaxFaults = 1
    None = None
SPECIFICATION Spec
INVARIANTS DiskAgrees FailsForAReason
PROPERTIES NeverOverwritten TransferEnds
CHECK_DEADLOCK FALSE
