SPECIFICATION Spec
CONSTANTS
    q1 = q1 q2 = q2 q3 = q3 q4 = q4 q5 = q5 k1 = k1 k2 = k2 badKey = badKey
    Nobody = Nobody
    Requests = {q1}
    Proxied = {q1}
    Details = {}
    Keys = {k1, k2}
    KeyOf <- SharedKey
    Deployments <- LateOnSqlite
INVARIANT TaskStoresCall
