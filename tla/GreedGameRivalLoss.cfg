\* The end of a game the rival can no longer win.
SPECIFICATION Spec
CONSTANTS
    HEIGHT = 3
    WIDTH = 2
    MaxDigit = 2
    cTourist = cTourist
    cOwner = cOwner
    cRival = cRival
    cSubscribe = cSubscribe
    NotAnnounced = NotAnnounced
PROPERTIES
    RivalLossEndsGame
CHECK_DEADLOCK FALSE
