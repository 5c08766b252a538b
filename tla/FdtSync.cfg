SPECIFICATION Spec
CONSTANTS
    Devices = {"iComm"}
    TTLs = {1, 2}
    Grace = 2
    Period = 2
    Slack = 1
    Never = 13
INVARIANT TypeOK
INVARIANT RegisteredIsShown
INVARIANT TtlIsCurrent
INVARIANT GoneIsForgotten
