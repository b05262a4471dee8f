SPECIFICATION Spec
CONSTANTS
    SeqMod = 4
    Window = 4
    MaxPayload = 2
    ReadSizes <- MCReadSizes
    MaxBytes = 7
INVARIANTS TypeOK WindowRespected NoLostWakeup FramesPartitionStream
PROPERTIES Released
CHECK_DEADLOCK FALSE
