\* A row of three cells, digits up to two.
SPECIFICATION Spec
CONSTANTS
    HEIGHT = 1
    WIDTH = 3
    MaxDigit = 2
    cTourist = 0
    cOwner = 1
    cRival = 2
    cSubscribe = 3
    ME = ME
    RIVAL = RIVAL
    Space = Space
    Letter = Letter
INVARIANTS TypeOK ShowsTheGame
