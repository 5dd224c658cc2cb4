\* Every message the program sends, through every change of one field.
SPECIFICATION Spec
CONSTANTS
    Text <- MCText
    TextLength <- MCTextLength
    Number <- MCNumber
INVARIANTS
    WhatIsSentIsRead
    NothingIncompleteIsDelivered
    SizesAgree
    ReadingTwiceMerges
\* A message that has been delivered or refused is the end.
CHECK_DEADLOCK FALSE
