SPECIFICATION Spec
CONSTANTS
    Markets = {btc, eth}
    FetchIndexes = FALSE
    Uids = {1, 2, 3}
    MaxChanges = 1
    MaxSessions = 2
SYMMETRY MarketSymmetry
INVARIANTS
    TypeOK
PROPERTIES
    ReplayNeedsIndexes
    ConfirmedByReplay
