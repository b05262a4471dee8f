SPECIFICATION Spec
CONSTANTS
    Modes = {"tcp", "socks", "shell"}
    MaxMisses = 3
    MaxCopies = 2
    MaxFaults = 2
INVARIANTS TypeOK CloseReachesPeer
PROPERTIES NoHalfOpen DeadRemoteDetected TypingIsRejected
CHECK_DEADLOCK FALSE
