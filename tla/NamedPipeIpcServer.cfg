\* All properties of the server; the threads are scheduled and a client reads.
SPECIFICATION FairSpec
CONSTANTS
    m_type = "server"
    Quota = 1
    MaxSend = 3
    MaxClientMsgs = 2
    MaxConnects = 3
INVARIANT TypeOK
INVARIANT NoLostWakeup
INVARIANT NoOverlappedReuse
INVARIANT InboundConserved
INVARIANT DisconnectsOnlyTheGone
PROPERTY OutboundIsChannel
PROPERTY FlowsWhileConnected
PROPERTY FailedReadReconnects
CHECK_DEADLOCK FALSE
