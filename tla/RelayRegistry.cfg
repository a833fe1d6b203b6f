CONSTANTS
    Device = {d1, d2}
    Conn = {c1, c2}
    ApprovalSettings = {TRUE}
    None = None
SPECIFICATION Spec
INVARIANTS OneLiveConnection NoLockout RegistryIsSound
PROPERTIES NeverUndecided ConnectionsAreServed
