\* Can a move mix the role of one seat with the room of another?
SPECIFICATION Spec
CONSTANTS
    RoomName = {r1, r2}
    NoTopic = NoTopic
    cTourist = cTourist
    cOwner = cOwner
    cRival = cRival
    cSubscribe = cSubscribe
    MaxDown = 1
SYMMETRY Symmetry
PROPERTIES MovesAreWhole
CHECK_DEADLOCK FALSE
