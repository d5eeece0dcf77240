\* A server that closes while a received message is being listed is not noticed.
SPECIFICATION FairSpec
CONSTANTS
    m_type = "client"
    Quota = 1
    MaxSend = 0
    MaxServerMsgs = 1
    MaxListens = 0
PROPERTY LostServerEndsWorker
CHECK_DEADLOCK FALSE
