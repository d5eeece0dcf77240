\* Two instances of each server, serveroverlapped's first used by two clients in turn;
\* two words typed at each process of the others.
SPECIFICATION FairSpec
CONSTANTS
    INSTANCES = 2
    MaxConnects <- TwoThenOne
    MaxRequests = 2
    Client = {0, 1}
    MaxInst = 2
    Quota = 1
    MAX_PATH = 3
    Lens = {0, 2}
    MaxWords = 2
INVARIANT Inv
PROPERTY InstancesReply
PROPERTY ThreadsReply
PROPERTY ClientsAreAnswered
PROPERTY GoneClientsLeaveNothing
PROPERTY SentIsPrinted
CHECK_DEADLOCK FALSE
