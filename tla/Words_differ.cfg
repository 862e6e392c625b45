SPECIFICATION WordsSpec
CONSTANTS
    Devices = {a, b}
    MaxHandshakes = 2
    MaxMishaps = 1
INVARIANTS
    OneSetOfWords
CHECK_DEADLOCK FALSE
