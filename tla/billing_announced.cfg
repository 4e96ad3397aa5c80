SPECIFICATION FairSpec
CONSTANTS
    Req = {r1, r2, r3}
    Org = {o1}
    Carts <- OneCart
    Amounts = {1}
    Statuses = {"sent"}
    Ops = {"Create", "Get", "Update", "Delete", "Status", "Pay"}
    Serial = FALSE
    Faults = FALSE
    NoRow = NoRow
    NoCall = NoCall
CHECK_DEADLOCK FALSE
PROPERTIES
    EverythingAnnounced
