SPECIFICATION Spec
CONSTANTS
    u1 = u1 u2 = u2 c1 = c1 c2 = c2 c3 = c3
    r1 = r1 r2 = r2 k1 = k1 k2 = k2
    Nobody = Nobody
    Users = {u1, u2}
    Keys = {k1, k2}
    Calls = {c1, c2}
    CallUser <- TwoCalls
    Acks = {}
    AckKey <- NoAcks
    KeyUser <- KeysOfTwoUsers
    Backend = "postgres"
    EstimationOn = TRUE
    AlertsOn = TRUE
    DefaultWindow = 2
    Threshold = 15
    Discrepancies <- OppositeSigns
    Faults = FALSE
    MaxBoots = 0
INVARIANT OneActiveAlert
