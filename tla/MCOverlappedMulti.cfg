\* Two workers over one instance, its clients busy; main and each worker are scheduled.
SPECIFICATION FairSpec
CONSTANTS
    Demos = {"multi"}
    Quota = 1
    MaxSend = 0
    MaxPeerMsgs = 2
    MaxConnects = 2
    INSTANCES = 1
    Threads = {t1, t2}
    MaxLines = 2
INVARIANT Inv
INVARIANT OneIssuer
PROPERTY FailedReadReconnects
CHECK_DEADLOCK FALSE
