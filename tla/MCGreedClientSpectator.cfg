\* Does the client of a spectator send moves?
SPECIFICATION Spec
CONSTANTS
    RoomName = {r1, r2}
    NoTopic = NoTopic
    cTourist = cTourist
    cOwner = cOwner
    cRival = cRival
    cSubscribe = cSubscribe
    MaxDown = 1
SYMMETRY Symmetry
PROPERTIES SpectatorsSendNoMoves
CHECK_DEADLOCK FALSE
