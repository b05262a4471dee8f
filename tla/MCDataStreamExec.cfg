SPECIFICATION Spec
CONSTANTS
    SeqMod = 8
    Window = 4
    MaxPayload = 2
    ReadSizes <- MCReadSizes
    MaxBytes = 5
    Size = 4
    AcksHonoured = FALSE
    MaxAckFailures = 0
PROPERTY WriterGoesOn
CHECK_DEADLOCK FALSE
