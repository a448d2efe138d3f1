SPECIFICATION FairSpec
CONSTANTS
  Procs = {1, 2}
  History <- SameHistory
  Founder = 1
  DonorNames <- AnyDonor
  MaxView = 5
  MaxLag = 9
  Writers = {2}
  MaxAct = 2
  MaxFrag = 2
  MaxLast = 0
  MaxReq = 0
  Desyncers = {}
  MaxSync = 0
  MaxDown = 1
  Stops = {"down"}
  MayBootstrap = FALSE
  Calm = TRUE
INVARIANTS Agreement UniqueSeqno NoFatal
PROPERTIES ExchangeEnds
CHECK_DEADLOCK FALSE
