\* Every board of two rows and three columns.
SPECIFICATION FairSpec
CONSTANTS
    HEIGHT = 2
    WIDTH = 3
    MaxDigit = 2
INVARIANTS TypeOK IsValidComputesTheWalk AnyMoveIsComputed StraysAreKnown
PROPERTIES LoopsEnd
CHECK_DEADLOCK FALSE
