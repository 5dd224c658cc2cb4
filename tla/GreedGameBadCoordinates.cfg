\* othermove and its comment: does it ever read a row that does not exist?
SPECIFICATION Spec
CONSTANTS
    HEIGHT = 3
    WIDTH = 2
    MaxDigit = 2
    cTourist = cTourist
    cOwner = cOwner
    cRival = cRival
    cSubscribe = cSubscribe
    NotAnnounced = NotAnnounced
INVARIANTS
    NoBadCoordinates
CHECK_DEADLOCK FALSE
