SPECIFICATION Spec
CONSTANTS
  Procs = {1, 2}
  History <- SameHistory
  Founder = 1
  DonorNames <- AnyDonor
  MaxView = 3
  MaxLag = 9
  Writers = {1}
  MaxAct = 1
  MaxFrag = 2
  MaxLast = 0
  MaxReq = 0
  Desyncers = {}
  MaxSync = 0
  MaxDown = 0
  Stops = {"down"}
  MayBootstrap = FALSE
  Calm = FALSE
INVARIANTS Agreement
CHECK_DEADLOCK FALSE
