SPECIFICATION LiveSpec
CONSTANTS
    Devices = {"iComm"}
    TTLs = {1}
    Grace = 2
    Period = 2
    Slack = 1
    Never = 11
PROPERTY TailscaleDeviceIsShown
