SPECIFICATION Spec
CONSTANTS
    Nodes = {"n1", "n2"}
    Trxs = {"r", "s", "u", "v", "t"}
    Source <- Origin
    WriteSet <- Work
    Gaps = {}
    Slaves = 1
    MaxCut = 2
    MayStart <- OneByOne
    KeyParts = {"t", "1", "2", "3", "4"}
    MaxLength = 100
    CheckInterval = 128
INVARIANTS FalsePositive
CHECK_DEADLOCK FALSE
CONSTRAINT CutOvertakes
