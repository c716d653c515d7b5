SPECIFICATION Spec
CONSTANTS
    None = None
    s1 = s1 s2 = s2 k1 = k1 k2 = k2
    Sessions = {s1, s2}
    Keys = {k1, k2}
    Sidebars <- FourSettings
    Filters <- TwoFilters
    Worlds <- ThreeWorlds
    Long = 3
INVARIANTS
    ShownIsAsAsked
    AutoIsRecent
PROPERTIES
    AutoShowsLatest
    FailureExpires
