\* Every game on boards of one row of three cells with digits 1 and 2.  A client may send
\* its next query as soon as one has been played, before it has handled any answer.
SPECIFICATION FairSpec
CONSTANTS
    HEIGHT = 1
    WIDTH = 3
    MaxDigit = 2
    cTourist = cTourist
    cOwner = cOwner
    cRival = cRival
    cSubscribe = cSubscribe
    NotAnnounced = NotAnnounced
    Key <- MCKey
    MaxUp = 1
    MaxDown = 4
INVARIANTS
    InformedClientsAgree
    OneIsWilling
    OneWinner
PROPERTIES
    MatchEnds
    ResultReachesBoth
\* A match whose clients have left, or whose server has crashed, may stop.
CHECK_DEADLOCK FALSE
