\* Two users and two rooms of their own: can one user come to own both?
SPECIFICATION Spec
CONSTANTS
    Client = {c1, c2}
    RoomName = {r1, r2}
    UtcTime = UtcTime
    NoTopic = NoTopic
    Root = Root
    Nobody = Nobody
    cTourist = cTourist
    cOwner = cOwner
    cRival = cRival
    cSubscribe = cSubscribe
SYMMETRY Symmetry
INVARIANTS
    AtMostOneRoomEach
CHECK_DEADLOCK FALSE
