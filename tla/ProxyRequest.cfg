SPECIFICATION FairSpec
CONSTANTS
    q1 = q1 q2 = q2 q3 = q3 q4 = q4 q5 = q5 k1 = k1 k2 = k2 badKey = badKey
    Nobody = Nobody
    Requests = {q1, q2, q3, q4, q5}
    Proxied = {q1, q2}
    Details = {q3}
    Keys = {k1, k2}
    KeyOf <- OneRefused
    Deployments <- ThreeWays
INVARIANTS
    TypeOK
    StoredWasServed
    NothingLeaks
    TouchedIffAnswered
PROPERTIES
    EveryRequestEnds
    ServedIsStored
