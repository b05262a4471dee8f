\* Three frames of output, two fit the window; one lost connection.
SPECIFICATION Spec
CONSTANTS
    Window = 2
    MaxOut = 3
    MaxFaults = 1
    Prompt = TRUE
    Brief = TRUE
INVARIANTS
    TypeOK
    CodeIsReal
    OutputComplete
PROPERTIES
    ClientReturns
    CommandEnds
    EndIsReported
\* A command that was executed is the end.
CHECK_DEADLOCK FALSE
