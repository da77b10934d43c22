SPECIFICATION FairSpec
CONSTANTS
    Uids = {1, 2, 3}
    MaxChanges = 3
    MaxSessions = 2
INVARIANTS
    TypeOK
    ResubscribeIsLast
PROPERTIES
    OffStaysOff
    SubscriptionConverges
