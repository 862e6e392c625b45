SPECIFICATION ClipboardSpec
CONSTANTS
    Clips = {secret, image, text}
    Pictures = {image}
    Secrets = {secret}
    MaxReceived = 3
    MaxOwn = 1
    MaxSlips = 1
INVARIANT
    LastReceivedLands
CHECK_DEADLOCK FALSE
