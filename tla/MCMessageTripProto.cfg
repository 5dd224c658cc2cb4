\* What a program generated from info.proto as it stands would send.
SPECIFICATION Spec
CONSTANTS
    Text <- MCText
    TextLength <- MCTextLength
    Number <- MCNumber
INVARIANT
    InfoProtoIsUnderstood
\* A message that has been delivered or refused is the end.
CHECK_DEADLOCK FALSE
