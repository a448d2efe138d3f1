SPECIFICATION Spec
CONSTANTS
  Size = 4
  MaxSeqno = 5
  Position = 0
  Positions = {}
  Order = "APPLY"
  Local = {1}
  Lockers = {}
  Drainers = {d1, d2}
  Waiters = {}
  MaxBacklog = 3
INVARIANTS TypeOK OrderRespected AssertsHold DrainedMeansDone IInv
PROPERTIES ImplementsOrderedEntry
SYMMETRY Symmetric
