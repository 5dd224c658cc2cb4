\* Two users, a room of their own and the server's.
SPECIFICATION Spec
CONSTANTS
    Client = {c1, c2}
    RoomName = {r1}
    UtcTime = UtcTime
    NoTopic = NoTopic
    Root = Root
    Nobody = Nobody
    cTourist = cTourist
    cOwner = cOwner
    cRival = cRival
    cSubscribe = cSubscribe
SYMMETRY Symmetry
INVARIANTS
    TypeOK
    SeatedUsersHaveTheirRoom
    OwnersOwnTheirRoom
    SubscriptionsMatchAudiences
    ClientKnowsItsSeat
\* Undefined behaviour ends the server.
CHECK_DEADLOCK FALSE
