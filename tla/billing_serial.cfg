SPECIFICATION Spec
CONSTANTS
    Req = {r1, r2, r3, r4}
    Org = {o1}
    Carts <- TwoCarts
    Amounts = {2}
    Statuses = {"sent", "void"}
    Ops = {"Create", "Get", "Update", "Delete", "Status", "Pay"}
    Serial = TRUE
    Faults = TRUE
    NoRow = NoRow
    NoCall = NoCall
SYMMETRY Symmetry
CHECK_DEADLOCK FALSE
INVARIANTS
    LedgerConsistent
    AuditIsHistory
PROPERTIES
    ImplementsLedger
