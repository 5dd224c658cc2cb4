\* Three items of nine kinds, arriving in any pieces.
SPECIFICATION FairSpec
CONSTANTS
    kHeaderLen = 1
    kMaxMessageLen = 6
    MaxItems = 3
    Item <- MCItem
    Registered = {"SystemQuery", "boardQuery"}
    ShutsDown = TRUE
INVARIANTS
    TypeOK
    InStep
    NoFrameLeftBehind
PROPERTIES
    ErrorIsFinal
    ImplementsChannel
    ImplementsFairChannel
\* A closed connection is the end.
CHECK_DEADLOCK FALSE
