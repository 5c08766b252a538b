SPECIFICATION LiveSpec
CONSTANTS
    Pages = {"office"}
    Requests = {1}
PROPERTY RunningIsNotRed
CHECK_DEADLOCK FALSE
