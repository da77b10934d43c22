SPECIFICATION FairSpec
CONSTANTS
    Markets = {btc}
    FetchIndexes = TRUE
    Uids = {1, 2, 3}
    MaxChanges = 1
    MaxSessions = 2
PROPERTIES
    BooksConverge
