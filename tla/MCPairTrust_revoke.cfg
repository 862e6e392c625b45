CONSTANTS
    Devices = {p}
    Handshakes = {h}
    MaxBusy = 2
    MaxFaults = 1
SPECIFICATION TrustSpec
CONSTRAINT Bounded
INVARIANT RevokeIsDurable
