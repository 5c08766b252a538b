SPECIFICATION Spec
CONSTANTS
    Peers = {"workstation", "iComm"}
    Ids = {1, 2}
    UniqueIds = FALSE
    Points = {"AO"}
    Values = {2, 3}
    Default = 0
    NumPriorities = 2
    Calls <- CommandCalls
INVARIANT AnswerIsForRequest
CHECK_DEADLOCK FALSE
