CONSTANTS
    Remotes = {a, b}
    Extras = {x}
    Tasks = {t1, t2}
    Primary = Primary
    None = None
    MaxSessions = 2
    MaxGen = 3
    Schedules = {"between operations"}
SPECIFICATION SlotSpec
SYMMETRY Symmetry
CHECK_DEADLOCK FALSE
INVARIANT
    LinkedPeerIsFound
