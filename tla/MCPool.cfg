SPECIFICATION Spec
CONSTANTS
    s1 = s1
    s2 = s2
    o1 = o1
    o2 = o2
    o3 = o3
    None = None
    Txns <- MCTxns
    Settlements <- MCSettlements
    OrderIds <- MCOrderIds
    Inputs <- MCInputs
INVARIANTS
    SuppressionIsExact
    RecoveryIsSound
    RowsAccountedOnce
