SPECIFICATION Spec
CONSTANTS
    None = None
    Configurations <- Deployed
    Tables <- FewTables
    Calls = {c1, c2}
    MaxBoots = 2
CHECK_DEADLOCK FALSE
INVARIANTS
    SchemaWhenServing
    MigrationIsWhole
PROPERTY StopLosesNoCall
