\* Does a client that was told its user is a tourist send moves?
SPECIFICATION Spec
CONSTANTS
    RoomName = {r1, r2}
    NoTopic = NoTopic
    cTourist = cTourist
    cOwner = cOwner
    cRival = cRival
    cSubscribe = cSubscribe
    MaxDown = 1
SYMMETRY Symmetry
PROPERTIES TouristsSendNoMoves
CHECK_DEADLOCK FALSE
