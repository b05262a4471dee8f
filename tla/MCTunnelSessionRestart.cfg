SPECIFICATION Spec
CONSTANTS
    Modes = {"shell"}
    MaxMisses = 3
    MaxCopies = 2
    MaxFaults = 1
PROPERTIES RestartDetected
CHECK_DEADLOCK FALSE
