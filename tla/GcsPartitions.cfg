SPECIFICATION Spec
CONSTANTS
  Procs = {1, 2, 3}
  History <- SameHistory
  Founder = 1
  DonorNames <- AnyDonor
  MaxView = 7
  MaxLag = 0
  Writers = {3}
  MaxAct = 1
  MaxFrag = 1
  MaxLast = 0
  MaxReq = 0
  Desyncers = {}
  MaxSync = 0
  MaxDown = 0
  Stops = {"down"}
  MayBootstrap = TRUE
  Calm = FALSE
INVARIANTS JoinedHasState
PROPERTIES NeverThrownBack
CHECK_DEADLOCK FALSE
