SPECIFICATION Spec
CONSTANTS
    s1 = s1
    s2 = s2
    a = a
    b = b
    Sessions = {s1, s2}
    Ids = {a, b}
    IdChoices <- MCIdChoices
    OpenDuringCleanup = TRUE
    LateDuplicates = FALSE
INVARIANTS NoOrphan
CHECK_DEADLOCK FALSE
