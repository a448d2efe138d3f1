SPECIFICATION Spec
CONSTANTS
    n1 = n1
    n2 = n2
    Sources = {n1, n2}
    Here = n1
    KeyParts = {"t", "a", "u"}
    WriteSets <- Mixed
    ConfAt = {2}
    MaxLength = 2
    CheckInterval = 1
INVARIANTS VerdictByHistory DependsCover RefsAlive PurgedWhenCommitted
CHECK_DEADLOCK FALSE
