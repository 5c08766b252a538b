SPECIFICATION LiveSpec
CONSTANTS
    Peers = {"workstation"}
    Ids = {1, 2, 3}
    UniqueIds = TRUE
    Points = {"AO"}
    Values = {2, 3}
    Default = 0
    NumPriorities = 2
    Calls <- EveryCall
INVARIANT TypeOK
INVARIANT AnswerIsForRequest
INVARIANT RetrySeesFirstAnswer
PROPERTY ImplementsCachelessDevice
PROPERTY HighestCommandWins
PROPERTY EveryRequestAnswered
CHECK_DEADLOCK FALSE
