---------------------------- MODULE MCNamedPipes ----------------------------
(***************************************************************************)
(* The servers of namedpipedemo and the programs of pipedemo and           *)
(* pipewithsizedemo for TLC: PipeInstServer, MultithreadedServer and       *)
(* TwoPipes, one at a time.  The one that runs is chosen at the beginning, *)
(* the variables of the others keep their first values.                    *)
(***************************************************************************)
EXTENDS Naturals, Sequences

CONSTANTS
    Quota, MaxRequests,         \* see PipeInstServer, MultithreadedServer
    INSTANCES, MaxConnects,     \* see PipeInstServer
    Client, MaxInst,            \* see MultithreadedServer
    MAX_PATH, Lens, MaxWords    \* see TwoPipes

VARIABLES
    demo,       \* which program it is
    \* PipeInstServer's
    pipe, dwState, fPendingIO, chRequest, pc, i, connects, asked, answers,
    \* MultithreadedServer's
    thPipe, mainPc, hPipe, threadPc, pchRequest, program, clientPc, handle, opened, thAsked,
    thAnswers,
    \* TwoPipes'
    sized, down, up, aWriter, aReader, bWriter, bReader, aWords, bWords, typed, aSize, aOut,
    aSent, bOut

Insts == INSTANCE PipeInstServer
Threads == INSTANCE MultithreadedServer WITH
    pipe <- thPipe, asked <- thAsked, answers <- thAnswers

Two == INSTANCE TwoPipes WITH Quota <- MAX_PATH

ASSUME ProgramsAssumption ==
    /\ Insts!InstAssumption /\ Threads!MultithreadedAssumption /\ Two!TwoPipesAssumption

instsVars == <<pipe, dwState, fPendingIO, chRequest, pc, i, connects, asked, answers>>
threadsVars ==
    <<thPipe, mainPc, hPipe, threadPc, pchRequest, program, clientPc, handle, opened,
      thAsked, thAnswers>>
twoVars ==
    <<sized, down, up, aWriter, aReader, bWriter, bReader, aWords, bWords, typed, aSize, aOut,
      aSent, bOut>>
vars == <<demo, instsVars, threadsVars, twoVars>>

Init ==
    /\ demo \in {"insts", "threads", "two"}
    /\ Insts!Init
    /\ Threads!Init /\ (demo # "threads" => program = [c \in Client |-> "client"])
    /\ Two!Init /\ (demo # "two" => ~sized)

\* A step of one of the programs.
OfInsts(A) == demo = "insts" /\ A /\ UNCHANGED <<demo, threadsVars, twoVars>>
OfThreads(A) == demo = "threads" /\ A /\ UNCHANGED <<demo, instsVars, twoVars>>
OfTwo(A) == demo = "two" /\ A /\ UNCHANGED <<demo, instsVars, threadsVars>>

Next == OfInsts(Insts!Next) \/ OfThreads(Threads!Next) \/ OfTwo(Two!Next)

\* Each program's fairness, as its module states it.  Since one runs, the fairness of
\* an action of each is that of their disjunction.
Fairness ==
    /\ WF_vars(OfInsts(Insts!Server) \/ OfThreads(Threads!Main) \/ OfTwo(Two!AReader))
    /\ \A k \in Insts!Inst \cup Client :
          WF_vars(\/ k \in Insts!Inst /\ OfInsts(Insts!clientRead(k))
                  \/ k \in Client /\ OfThreads(Threads!ClientProcess(k)))
    /\ \A k \in Threads!Inst : WF_vars(OfThreads(Threads!InstanceThread(k)))
    /\ WF_vars(OfTwo(Two!BReader))
    /\ WF_vars(OfTwo(Two!aWriterWait \/ Two!aWritten))
    /\ WF_vars(OfTwo(Two!bWriterOpen \/ Two!bWritten))

Spec == Init /\ [][Next]_vars

FairSpec == Spec /\ Fairness

\* Two clients use the first instance in turn, one each of the others.
TwoThenOne == [k \in 0 .. INSTANCES - 1 |-> IF k = 0 THEN 2 ELSE 1]

-----------------------------------------------------------------------------
\* Properties

TypeOK == Insts!TypeOK /\ Threads!TypeOK /\ Two!TypeOK

\* What the clients of instance k see of a server of namedpipedemo.
Reply(k) == INSTANCE RequestReply WITH
    client <- connects[k], open <- (pipe[k].state = "connected"), asked <- asked[k],
    inbox <- Insts!Inbox(k), current <- chRequest[k], outbox <- pipe[k].out,
    answers <- answers[k]
ThreadReply(k) == INSTANCE RequestReply WITH
    client <- opened[k], open <- (thPipe[k].state = "connected"), asked <- thAsked[k],
    inbox <- thPipe[k].in, current <- pchRequest[k], outbox <- thPipe[k].out,
    answers <- thAnswers[k]

\* All instances, served by one thread, keep RequestReply's promise, whatever
\* their clients do and however they interleave.
InstancesReply ==
    /\ \A k \in Insts!Inst : Reply(k)!RRInit
    /\ [][\A k \in Insts!Inst : [Reply(k)!RRNext]_(Reply(k)!rrVars)]_vars

\* So do the instances that have a thread each.
ThreadsReply ==
    /\ \A k \in Threads!Inst : ThreadReply(k)!RRInit
    /\ [][\A k \in Threads!Inst : [ThreadReply(k)!RRNext]_(ThreadReply(k)!rrVars)]_vars

\* The clients that wait for a reply, of an instance of serveroverlapped or processes.
Waiting ==
    IF demo = "insts"
    THEN {k \in Insts!Inst : Len(answers[k]) < asked[k] /\ pipe[k].state = "connected"}
    ELSE {c \in Client : clientPc[c] = "read"}

\* A client that stays and reads catches up with its requests, whichever instances
\* the one thread of serveroverlapped serves in between; one that waits for its reply
\* from servermultithreaded gets it or is hung up on.
ClientsAreAnswered ==
    \A c \in Insts!Inst \cup Client : c \in Waiting ~> c \notin Waiting

\* Instances whose client has gone, for serveroverlapped with the read outstanding;
\* and those that were given up, which serveroverlapped uses again.
Deserted ==
    IF demo = "insts"
    THEN {k \in Insts!Inst :
             pipe[k].state = "peerClosed" /\ dwState[k] = "READING" /\ fPendingIO[k]}
    ELSE {k \in Threads!Inst : thPipe[k].state = "peerClosed"}
GivenUp ==
    IF demo = "insts"
    THEN {k \in Insts!Inst : pipe[k].state = "listening"}
    ELSE {k \in Threads!Inst : thPipe[k].state = "closed"}

\* The instance of a client that has gone is not left behind: serveroverlapped's
\* listens again, servermultithreaded's is closed, whether the client went before
\* ConnectNamedPipe or in the middle of a request.
GoneClientsLeaveNothing ==
    \A k \in Insts!Inst \cup Threads!Inst : k \in Deserted ~> k \in GivenUp

\* Every variable keeps its type.  pipedemo, pipewithsizedemo: a line that A prints is
\* a word of B's, whole, in order, none left out; nothing that A writes is lost on its
\* way to B.
Inv == TypeOK /\ Two!WordsArriveWhole /\ Two!NothingLostToB

\* pipedemo, pipewithsizedemo: what B has sent is printed, and the end of A ends B's
\* read thread.
SentIsPrinted == Two!SentIsPrinted /\ Two!AsEndEndsReader
=============================================================================
