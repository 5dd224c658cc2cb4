\* A 3 x 2 board with digits 1 and 2: every board, every pair of starting cells.
SPECIFICATION FairSpec
CONSTANTS
    HEIGHT = 3
    WIDTH = 2
    MaxDigit = 2
    cTourist = cTourist
    cOwner = cOwner
    cRival = cRival
    cSubscribe = cSubscribe
    NotAnnounced = NotAnnounced
INVARIANTS
    TypeOK
    FlagDownMeansStuck
    TurnHasMover
    OverIsDecided
    AnnouncedIffOver
    ShownIsCurrent
    PiecesStandOnBlanks
PROPERTIES
    ImplementsRace
    PiecesNeverMeet
    GameEnds
\* A finished or crashed game takes no more queries.
CHECK_DEADLOCK FALSE
