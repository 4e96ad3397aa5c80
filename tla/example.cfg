SPECIFICATION Spec
CONSTANTS
    Req = {r1, r2, r3}
    Vias = {"grpc", "http"}
    Names = {n1, n2}
    Asked = {0, 1}
    NoName = NoName
    NoRow = NoRow
    NoCall = NoCall
SYMMETRY Symmetry
CHECK_DEADLOCK FALSE
INVARIANTS
    TypeOK
    NamesDistinct
    DeletedStaysDeleted
    FoundUntilDeleted
    LastEventIsTrue
