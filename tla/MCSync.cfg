CONSTANTS
    c1 = c1
    c2 = c2
    hdfc = hdfc
    icici = icici
    mail = mail
    statement = statement
    report = report
    scan = scan
    stub = stub
    r1 = r1
    u1 = u1
    Loop = Loop
    NoConn = NoConn
    NoBox = NoBox
    Conns <- MCConns
    Boxes <- MCBoxes
    BuildBox = hdfc
    Messages <- MCMessages
    BoxOf <- MCBoxOf
    DayOf <- MCDayOf
    Parts <- MCParts
    KindOf <- MCKindOf
    Requests <- MCRequests
    Clicked = {c1}
    Savers <- MCSavers
    Saved <- MCSaved
    Backfills <- MCBackfills
    DueAfter = 1
    Window = 1
    MaxDay = 1
    MaxMishaps = 2
SPECIFICATION SyncSpec
INVARIANTS
    NoHoleBehindASync
    EveryFileIsAccounted
PROPERTIES
    RevokedStaysRevoked
    EveryDueConnectionIsTried
CHECK_DEADLOCK FALSE
