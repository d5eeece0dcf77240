\* A client that closes before its message is listed is never disconnected.
SPECIFICATION FairSpec
CONSTANTS
    m_type = "server"
    Quota = 1
    MaxSend = 0
    MaxClientMsgs = 1
    MaxConnects = 1
PROPERTY ClosedClientIsReplaced
CHECK_DEADLOCK FALSE
