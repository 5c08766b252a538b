SPECIFICATION LiveSpec
CONSTANTS
    Pages = {"office"}
    Requests = {1, 2}
INVARIANT TypeOK
INVARIANT TrayIsCurrent
INVARIANT IconTellsRouter
PROPERTY TrayCatchesUp
PROPERTY DashboardCatchesUp
PROPERTY ButtonsCatchUp
CHECK_DEADLOCK FALSE
