SPECIFICATION Spec
CONSTANTS
    None = None
    Models <- ListedAndNot
    Rates <- TableRows
    Reports <- MixedReports
    MinPoints = 2
    MaxWindow = 3
    TicksPerSecond = 10
    MaxPoints = 4
    MaxBoots = 1
INVARIANTS
    WindowIsRecent
    FittedOnceLearned
    SteadyIsReproduced
