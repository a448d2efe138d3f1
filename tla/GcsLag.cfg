SPECIFICATION Spec
CONSTANTS
  Procs = {1, 2}
  History <- NoHistory
  Founder = 1
  DonorNames <- AnyDonor
  MaxView = 3
  MaxLag = 1
  Writers = {1}
  MaxAct = 1
  MaxFrag = 1
  MaxLast = 1
  MaxReq = 1
  Desyncers = {1}
  MaxSync = 1
  MaxDown = 0
  Stops = {"down"}
  MayBootstrap = FALSE
  Calm = FALSE
INVARIANTS JoinedHasState
PROPERTIES CommitCutSafe
CHECK_DEADLOCK FALSE
