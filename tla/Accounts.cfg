SPECIFICATION Spec
CONSTANTS
    None = None
    Requests = {r1, r2, r3, r4}
    Emails = {e1, e2}
    Deployments <- BothOrders
    Faults = TRUE
    MaxBoots = 1
CHECK_DEADLOCK FALSE
INVARIANTS
    TypeOK
    EmailsAreUnique
    ShownKeyWorks
    AccountsCanBeEntered
