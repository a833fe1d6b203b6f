SPECIFICATION Spec
CONSTANTS
    Check = {c1, c2}
    Watch = {c1}
    Version <- MCVersion
    Installed <- MCInstalled
    MaxReleases = 2
    MaxFaults = 1
    Empty = Empty
    Torn = Torn
    None = None
INVARIANTS BinaryIsSound
PROPERTIES NoDowngrade HighWaterMark ReleaseArrives
CHECK_DEADLOCK FALSE
