\* Is the server's own room ever deleted?
SPECIFICATION Spec
CONSTANTS
    Client = {c1, c2}
    RoomName = {r1}
    UtcTime = UtcTime
    NoTopic = NoTopic
    Root = Root
    Nobody = Nobody
    cTourist = cTourist
    cOwner = cOwner
    cRival = cRival
    cSubscribe = cSubscribe
SYMMETRY Symmetry
INVARIANTS
    UtcTimeAlive
CHECK_DEADLOCK FALSE
