SPECIFICATION Spec
CONSTANTS
    SeqMod = 7
    Size = 2
    Span = 5
    MaxFrames = 5
INVARIANTS TypeOK InOrder
PROPERTIES InsertReturns
CHECK_DEADLOCK FALSE
