CONSTANTS
    Peers = {a, b, c}
    Dialled = {a, b}
    None = None
    QueueCap = 5
    MaxFaults = 1

SPECIFICATION LinkSpec
CHECK_DEADLOCK FALSE
INVARIANTS
    EverySessionGreeted
    LinkShownIsThere
PROPERTY
    ReachablePeersLink
