\* Copies of files of sizes around the multiples of the buffer, with more blocks than
\* requests and one fault; files around 2 * Quota + 1 units through two pipes, see
\* SmallFileFlows; a text longer than what is read of it, as in the program; "Shine"
\* in a buffer that is longer, both programs run twice; pipes of one message, a
\* greeting and one message more of one of the processes, the child may be killed.
SPECIFICATION AnySpec
CONSTANTS
    MAX_PENDING_IO_REQS = 3
    BUFFSIZE = 2
    Sizes = {0, 1, 2, 5, 8, 9}
    MaxFaults = 1
    Quota = 2
    BUFSIZE = 2
    MaxFile = 7
    WriteLen = 5
    ReadLen = 3
    TextLen = 5
    BufLen = 8
    MaxRuns = 2
    PipeQuota = 1
    MaxLines = 1
    MaxChildMsgs = 2
    MaxMsgs = 2
    Killable = {"child"}
INVARIANT Inv
INVARIANT IoIsCounted
INVARIANT BuffersOutliveIo
INVARIANT CopyIsExact
INVARIANT SmallFileFlows
PROPERTY ProgramsEnd
PROPERTY ExitEndsChildsReader
CHECK_DEADLOCK FALSE
