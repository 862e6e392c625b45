SPECIFICATION PartsSpec
CONSTANTS
    RESERVE = 2
    MaxSeq = 5
    MaxBoots = 3
    p = p
    q = q
    c1 = c1
    c2 = c2
    c3 = c3
    digest = digest
    Offerers = {p, q}
    Copies = {c1, c2, c3}
    CopiedBy <- MCCopiedBy
    ContentOf <- MCContentOf
    MaxOutbox = 1
    MaxQueue = 1
    MaxHellos = 2
    MaxUpkeep = 1
    Texts = {x, y}
    HistCap = 1
    DiskCap = 1
    MaxCopies = 2
    MaxPins = 1
    MaxVaultFaults = 3
    Devices = {a, b}
    MaxHandshakes = 2
    MaxMishaps = 1
    MaxIdentities = 3
    MaxCommands = 2
    MaxKeystoreFaults = 2
    Clips = {secret, text, image}
    Pictures = {image}
    Secrets = {secret}
    MaxReceived = 3
    MaxOwn = 1
    MaxSlips = 1
    PairingWindow = 3
    MaxDraws = 5
    MaxClock = 9
    InitialBase = 2
    MaxShift = 4
    FloorMargin = 2
    MinStable = 60
    BucketCapacity = 5
    RefillInterval = 24
    AnswerTimeout = 20
    SilenceTimeout = 36
    Window = 3
    InitsCap = 2
    MaxNonce = 5
    MaxInits = 3
    MaxAnswers = 4
INVARIANTS
    NoReuse
    BoundedRewind
    HorizonIsDurable
    CatchUpIsQuiet
    DiskFollows
    BothLearn
    ConfirmedByTwo
    UsedIdentityKept
    ShownSurvives
    NoPingPong
    SecretsGo
    OneTender
    RedialsAreAdmitted
    WindowIsExact
    AnsweredOnce
PROPERTIES
    ClearedStaysCleared
    NewestStays
SYMMETRY Perms
VIEW PartView
CHECK_DEADLOCK FALSE
