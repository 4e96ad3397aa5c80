SPECIFICATION FairSpec
CONSTANTS
    Req = {q1, q2}
    MaxMishaps = 3
CHECK_DEADLOCK FALSE
INVARIANTS
    TypeOK
    ServesOnlyMigrated
    OnlyInterruptionWedges
    PublishesOnOpenProducer
PROPERTIES
    CurrentTablesKept
    AcceptedIsAnswered
    SignalEnds
    ComesUp
