SPECIFICATION DaemonSpec
CONSTANTS
    a = a
    b = b
    i = i
    j = j
    NoPeer = NoPeer
    NoItem = NoItem
    Peers = {a, b}
    SasPeers = {a, b}
    Ackers = {a, b}
    Items = {i}
    Sensitive = {}
    Rulings = {"pass", "defer", "block"}
    Mesh = FALSE
    HistoryCap = 1
    MaxWipes = 1
    Remotes = {a, b}
    Extras = {x}
    Tasks = {t1, t2}
    Primary = Primary
    None = None
    MaxSessions = 2
    MaxGen = 2
    Schedules = {"between locks", "between operations"}
    Shower = s
    Strangers = {o}
    Pins = {p1}
    NoPin = NoPin
    CacheTtl = 2
    CacheCap = 1
    LineCap = 1
    MaxMinute = 2
SYMMETRY DaemonSymmetry
VIEW PartView
CHECK_DEADLOCK FALSE
INVARIANTS
    ConfirmedByBoth
    HistoryIsolated
    ReceivedFromOwner
    SealsWhatItRead
    SlotNamesItsPeer
    RekeyReplacesWhatItSaw
    
PROPERTIES
    KeysAreHandedOn
