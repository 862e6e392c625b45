CONSTANTS
    Devices = {p}
    Handshakes = {h}
    MaxBusy = 2
    MaxFaults = 0
SPECIFICATION FairTrustSpec
CONSTRAINT Bounded
PROPERTY CommandsAnswered
