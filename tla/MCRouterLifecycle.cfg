SPECIFICATION LiveSpec
CONSTANTS
    c1 = c1
    c2 = c2
    Clients <- TwoClients
    QueueCap = 1
    WithHub = TRUE
    TrayEnabled = TRUE
INVARIANT TypeOK
INVARIANT HandleMatchesState
INVARIANT OneRouter
INVARIANT CleanExit
INVARIANT FreshHandle
INVARIANT AnnouncedTruly
PROPERTY OnlyPutMisreports
PROPERTY ImplementsAppStateMachine
PROPERTY ImplementsRouterHandles
PROPERTY ImplementsTaskPhases
PROPERTY WedgeIsPermanent
PROPERTY OnlyShutdownEnds
PROPERTY RequestsAnswered
PROPERTY StopFinishes
PROPERTY LoopReturns
