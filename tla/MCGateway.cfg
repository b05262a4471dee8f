\* Two addresses and two devices in the combinations of configuration and
\* flags of MCGateway; one connection, and two losses of the broker.
CONSTANTS
    Ports = {"80"}
    Names = {"host"}
    Inputs <- MCInputs
    MaxConns = 1
    MaxLosses = 2

SPECIFICATION Spec

INVARIANTS
    TypeOK
    RoutesServed
    ReadyBeforeAccept
    CutOff
    ForwardsRead

PROPERTIES
    EndsTogether

\* A process that has exited stops.
CHECK_DEADLOCK FALSE
