SPECIFICATION Spec
CONSTANTS
    MaxConns = 2
    MaxViewer = 2
    MaxSets = 1
    MaxBreaks = 1
    None = None
INVARIANTS RosterIsRight DirectoryIsRight StatusIsRight
CHECK_DEADLOCK FALSE
