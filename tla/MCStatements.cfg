SPECIFICATION SpecById
CONSTANTS
    s1 = s1
    s2 = s2
    None = None
    Lines <- MCLines
    Settlements <- MCSettlements
    Files <- MCFiles
    Id <- MCId
    Before <- MCBefore
INVARIANT MatchNamesTheLineItClosed
