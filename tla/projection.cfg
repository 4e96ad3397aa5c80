SPECIFICATION FairSpec
CONSTANTS
    Crm = {c1}
    WorkOrders = {w1}
    MaxLog = 3
    MaxCrashes = 2
    NoRow = NoRow
CHECK_DEADLOCK FALSE
INVARIANTS
    TypeOK
    RestartIsSafe
PROPERTIES
    Converges
