SPECIFICATION FairSpec
CONSTANTS
    Nodes = {"n1", "n2"}
    Trxs = {"a", "b", "c", "d"}
    Source <- Origin
    WriteSet <- Work
    Gaps <- AbGap
    Slaves = 2
    MaxCut = 2
    MayStart <- Together
    KeyParts = {"t", "1", "2", "3", "4"}
    MaxLength = 100
    CheckInterval = 128
INVARIANTS OwnOrderKept SameOutcome WritesInOrder SeesConflicting AbortsValid
PROPERTIES EveryTrxEnds
CHECK_DEADLOCK FALSE
