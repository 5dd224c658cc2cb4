\* Two rooms, one message handled and one waiting, and every order of the threads.
SPECIFICATION Spec
CONSTANTS
    RoomName = {r1, r2}
    NoTopic = NoTopic
    cTourist = cTourist
    cOwner = cOwner
    cRival = cRival
    cSubscribe = cSubscribe
    MaxDown = 1
SYMMETRY Symmetry
INVARIANTS QuietClientKnowsItsSeat
PROPERTIES UndisturbedMovesAreSound
CHECK_DEADLOCK FALSE
