\* Does the key that ends the game ever become a move?
SPECIFICATION Spec
CONSTANTS
    HEIGHT = 1
    WIDTH = 4
    MaxDigit = 2
    cTourist = cTourist
    cOwner = cOwner
    cRival = cRival
    cSubscribe = cSubscribe
    NotAnnounced = NotAnnounced
    Key <- MCKey
    MaxUp = 2
    MaxDown = 4
PROPERTIES AnyKeyLeadsBack
CHECK_DEADLOCK FALSE
