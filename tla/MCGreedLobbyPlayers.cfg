\* Does a client play in a room that is gone?
SPECIFICATION Spec
CONSTANTS
    Client = {c1, c2}
    RoomName = {r1, r2}
    UtcTime = UtcTime
    NoTopic = NoTopic
    Root = Root
    Nobody = Nobody
    cTourist = cTourist
    cOwner = cOwner
    cRival = cRival
    cSubscribe = cSubscribe
SYMMETRY Symmetry
INVARIANTS
    PlayersHaveTheirRoom
CHECK_DEADLOCK FALSE
