\* A message sent before any client connects blocks the queue.
SPECIFICATION Spec
CONSTANTS
    m_type = "server"
    Quota = 1
    MaxSend = 2
    MaxClientMsgs = 0
    MaxConnects = 1
INVARIANT QueuedIsSent
CHECK_DEADLOCK FALSE
