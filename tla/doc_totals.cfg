SPECIFICATION Spec
CONSTANTS
    Req = {r1, r2}
    Org = {o1}
    Carts <- TwoCarts
    Amounts = {1}
    Statuses = {"sent"}
    Ops = {"Create", "Update"}
    Serial = TRUE
    Faults = FALSE
    NoRow = NoRow
    NoCall = NoCall
SYMMETRY Symmetry
CHECK_DEADLOCK FALSE
INVARIANTS
    TotalsAreOfItems
