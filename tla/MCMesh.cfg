SPECIFICATION PartSpec
CONSTANTS
    a = a
    b = b
    i = i
    j = j
    NoPeer = NoPeer
    NoItem = NoItem
    Peers = {a, b}
    SasPeers = {}
    Ackers = {}
    Items = {i, j}
    Sensitive = {}
    Rulings = {"pass", "defer"}
    Mesh = TRUE
    HistoryCap = 1
    MaxWipes = 1
    Devices = {a, b}
    Handshakes = {h}
    MaxBusy = 2
    MaxFaults = 1
SYMMETRY Symmetry
VIEW PartView
CONSTRAINT Bounded
ACTION_CONSTRAINT Settles
INVARIANTS
    PendingAgree
    TrustSurvivesRestart
    RemovalReachesDisk
    UnverifiedStaysPending
PROPERTIES
    PinnedRowsStay
