\* All properties of the client; the threads are scheduled and the server reads.
SPECIFICATION FairSpec
CONSTANTS
    m_type = "client"
    Quota = 1
    MaxSend = 3
    MaxServerMsgs = 2
    MaxListens = 2
INVARIANT NoOverlappedReuse
INVARIANT InboundConserved
PROPERTY CloseLosesNoWrite
PROPERTY OutboundIsChannel
PROPERTY FlowsWhileConnected
PROPERTY WorkerEnds
CHECK_DEADLOCK FALSE
