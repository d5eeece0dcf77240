\* The overlapped demos with one pipe; up to two clients of a server.
SPECIFICATION FairSpec
CONSTANTS
    Demos = {"server", "client", "iocp"}
    Quota = 1
    MaxSend = 3
    MaxPeerMsgs = 2
    MaxConnects = 2
    INSTANCES = 1
    Threads = {}
    MaxLines = 0
INVARIANT Inv
PROPERTY NoOverlappedReuse
PROPERTY ExactlyOneCarried
PROPERTY OutboundIsChannel
PROPERTY FailedReadIsHandled
PROPERTY ExitIsClean
CHECK_DEADLOCK FALSE
