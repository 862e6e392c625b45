CONSTANTS
    Peers = {a, b}
    Dialled = {a}
    None = None
    QueueCap = 5
    MaxFaults = 1

SPECIFICATION LinkSpec
CHECK_DEADLOCK FALSE
INVARIANT
    NoLinkWhileOff
