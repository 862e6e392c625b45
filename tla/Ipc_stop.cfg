SPECIFICATION IpcSpec
CONSTANTS
    Permits = 2
    MaxVersion = 2
    MaxCalls = 1
    MaxHiccups = 1
PROPERTY StopReturns
CHECK_DEADLOCK FALSE
