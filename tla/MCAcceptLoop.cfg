SPECIFICATION LoopSpec
CONSTANTS
    l1 = l1
    l2 = l2
    s1 = s1
    s2 = s2
    o1 = o1
    o2 = o2
    o3 = o3
    None = None
    Invented = Invented
    Lines <- MCLines
    Settlements <- MCSettlements
    Txns <- MCTxns
    OrderIds <- MCOrderIds
    Cases <- MCCases
    Files <- MCFiles
    Hypotheses <- MCHypotheses
    MaxHypotheses = 2
    Truths <- MCTruths
    Invoices <- MCInvoices
    Period <- MCPeriod
INVARIANTS
    LegsClaimedOnce
    AcceptedIsDefensible
    LosingWorkNeverPays
    GstIsAccountedFor
    DriftTellsWhatChanged
    ListingIsHonest
    RanMeansAnswered
PROPERTIES
    AcceptedWasUnique
    LoopImplementsLedger
