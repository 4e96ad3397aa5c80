SPECIFICATION Spec
CONSTANTS
    Req = {r1, r2, r3}
    Org = {o1}
    Carts <- TwoCarts
    Amounts = {1, 2}
    Statuses = {"sent"}
    Ops = {"Create", "Get", "Update", "Delete", "Status", "Pay"}
    Serial = FALSE
    Faults = TRUE
    NoRow = NoRow
    NoCall = NoCall
SYMMETRY Symmetry
CHECK_DEADLOCK FALSE
INVARIANTS
    TypeOK
    CreditedWasReceived
    LoadedShowsCredit
    BalanceMatchesCredit
    EventsTellTruth
PROPERTIES
    MoneyNeverErased
