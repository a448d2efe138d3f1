SPECIFICATION FairSpec
CONSTANTS
    Procs = {1, 2}
    Threads <- OneReceiver
    Writers = {1}
    Desyncs = {2}
    InitStatus <- OneJoins
    UpperLimit = 1
    LowerLimit = 0
    SoftLimit = 0
    HardLimit = 2
    ActSizes = {1, 2}
    MaxThrottle0 = TRUE
    SyncDonor = FALSE
    MaxAct = 1
    MaxConf = 0
    MaxDesync = 0
    Tuned = {1}
    Crashes = {}
INVARIANTS StopSentCounts
PROPERTIES Resumes
CHECK_DEADLOCK FALSE
