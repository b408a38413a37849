SPECIFICATION Spec
CONSTANTS
    l1 = l1
    l2 = l2
    l3 = l3
    s1 = s1
    s2 = s2
    None = None
    Lines <- MCLines
    Settlements <- MCSettlements
    Files <- MCFiles
INVARIANTS
    TypeOK
    PartitionIsExact
    MatchesAreJustified
    TiersAreOrderFree
    ReasonsAreHonest
PROPERTY ImplementsLedger
