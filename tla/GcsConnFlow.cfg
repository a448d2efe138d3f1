SPECIFICATION FairSpec
CONSTANTS
    Procs = {1, 2}
    Threads <- OneReceiver
    Writers = {1}
    Desyncs = {2}
    InitStatus <- AllSynced
    UpperLimit = 1
    LowerLimit = 0
    SoftLimit = 8
    HardLimit = 9
    ActSizes = {1}
    MaxThrottle0 = FALSE
    SyncDonor = FALSE
    MaxAct = 1
    MaxConf = 1
    MaxDesync = 1
    Tuned = {}
    Crashes = {2}
INVARIANTS StopCountAgrees StateAgrees
PROPERTIES Resumes BecomesSynced
CHECK_DEADLOCK FALSE
