SPECIFICATION Spec
CONSTANTS
    Req = {r1, r2, r3, r4}
    Org = {o1, o2}
    Carts <- OneCart
    Amounts = {1, 2}
    Statuses = {"sent"}
    Ops = {"Create", "Pay", "Delete", "Status"}
    Serial = FALSE
    Faults = TRUE
    NoRow = NoRow
    NoCall = NoCall
SYMMETRY Symmetry
CHECK_DEADLOCK FALSE
INVARIANTS
    PaidMeansSettled
    NumbersGapless
