SPECIFICATION Spec
CONSTANTS
    Keys = {k1, k2}
    Limit = 2
    Window = 3
    MaxNow = 5
    MaxBoots = 1
INVARIANTS
    TypeOK
    WindowBound
PROPERTY KeepsQuota
