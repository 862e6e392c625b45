CONSTANTS a = a  b = b  c = c  e1 = e1  e2 = e2  h1 = h1  h2 = h2
    Nodes = {a, b, c}  Events = {e1, e2}  None = None
    OriginOf <- MCOriginOf  HashOf <- MCHashOf  PrimaryOf <- MCPrimaryOf  Plans <- MCPlans
    MaxAttempts = 1  InboxCap = 1
    Senders = {a, b}  Versions = {1, 2}  Sendings <- MCSendings  Total <- MCTotal
    MaxTries = 2  MaxRounds = 2  MaxPartials = 1  NakLimit = 1  WireLosses = 2
    Permits = 2  MaxVersion = 2  MaxCalls = 1  MaxHiccups = 2
SPECIFICATION MCSpec
CHECK_DEADLOCK FALSE
PROPERTIES MeshIsBroadcast ReachesEveryone SettledIsDelivered TransferConverges StateReachesSubscriber
