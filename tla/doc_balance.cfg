SPECIFICATION Spec
CONSTANTS
    Req = {r1, r2, r3}
    Org = {o1}
    Carts <- OneCart
    Amounts = {1}
    Statuses = {"sent"}
    Ops = {"Create", "Update", "Pay"}
    Serial = FALSE
    Faults = FALSE
    NoRow = NoRow
    NoCall = NoCall
SYMMETRY Symmetry
CHECK_DEADLOCK FALSE
INVARIANTS
    BalanceCountsPayments
