SPECIFICATION Spec
CONSTANTS
    Bodies <- MCBodies
    Amounts <- MCAmounts
    MaxCalls = 4
    NoInvoice = NoInvoice
CHECK_DEADLOCK FALSE
INVARIANTS
    TypeOK
    TotalsFoot
    BalanceFoots
    CreditDoesNotDrift
PROPERTIES
    PaymentSettles
