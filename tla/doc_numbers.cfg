SPECIFICATION Spec
CONSTANTS
    Req = {r1, r2}
    Org = {o1, o2}
    Carts <- OneCart
    Amounts = {1}
    Statuses = {"sent"}
    Ops = {"Create"}
    Serial = TRUE
    Faults = FALSE
    NoRow = NoRow
    NoCall = NoCall
SYMMETRY Symmetry
CHECK_DEADLOCK FALSE
INVARIANTS
    NextNumberIsFree
