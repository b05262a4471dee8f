SPECIFICATION Spec
CONSTANTS
    SeqMod = 8
    Window = 4
    MaxPayload = 2
    ReadSizes <- MCReadSizes
    MaxBytes = 5
    Size = 4
    AcksHonoured = TRUE
    MaxAckFailures = 1
INVARIANTS WindowEndToEnd
PROPERTIES WriterGoesOn EverythingArrives ImplementsByteStream
CHECK_DEADLOCK FALSE
