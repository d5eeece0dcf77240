\* Two workers write to one instance at once.
SPECIFICATION Spec
CONSTANTS
    Quota = 1
    INSTANCES = 1
    Worker = {w1, w2}
    MaxSend = 2
    MaxClientMsgs = 0
    MaxConnects = 1
INVARIANT SendsWhenNothingIsSent
CHECK_DEADLOCK FALSE
