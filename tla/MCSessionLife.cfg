\* All four kinds of session; a window of one chunk, so that the second
\* chunk waits for an acknowledgement, and one payload from the other end.
CONSTANTS
    Kinds = {"dialled", "shell", "accepted", "socks"}
    MaxChunks = 2
    MaxIn = 1
    Window = 1

SPECIFICATION Spec

INVARIANTS
    TypeOK
    TailBeforeClose
    ToldOnce
    ReplyFirst

PROPERTIES
    EverythingEnds

\* A session that has ended stops.
CHECK_DEADLOCK FALSE
