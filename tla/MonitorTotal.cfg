SPECIFICATION FairSpec
CONSTANTS
  Size = 3
  MaxSeqno = 4
  Position = 0
  Positions = {3}
  Order = "NO_OOOC"
  Local = {2, 4}
  Lockers = {l1}
  Drainers = {d1}
  Waiters = {w1}
  MaxBacklog = 2
INVARIANTS LockedIsEmpty NothingUncollected WaitSeesWrites
PROPERTIES EverySeqnoDone AdminReturns
CHECK_DEADLOCK FALSE
