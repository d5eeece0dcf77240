---------------------------- MODULE MCOverlapped -----------------------------
(***************************************************************************)
(* The programs of overlappeddemo for TLC: OverlappedServer,               *)
(* OverlappedClient and IocpServer, which have one pipe and one worker,    *)
(* and IocpServerMulti, which has several of both.  A behaviour is one of  *)
(* those in Demos; what the first three keep alike has one variable, the   *)
(* fourth has variables of its own, and a variable that a program does not *)
(* have stays at its first value.                                          *)
(***************************************************************************)
EXTENDS Naturals, Sequences, FiniteSets

CONSTANTS
    Demos,      \* the programs that are looked at, of AllDemos
    Quota, MaxSend, MaxPeerMsgs, MaxConnects,   \* see the modules
    INSTANCES,  \* IocpServerMulti's pipe instances,
    Threads,    \* its worker threads,
    MaxLines    \* and the bound on the lines queued by its main

AllDemos == {"server", "client", "iocp", "multi"}

ASSUME BoundsAssumption ==
    /\ Demos \subseteq AllDemos
    /\ Quota \in Nat \ {0} /\ MaxSend \in Nat /\ MaxPeerMsgs \in Nat /\ MaxConnects \in Nat
    /\ INSTANCES \in Nat \ {0} /\ IsFiniteSet(Threads) /\ MaxLines \in Nat

VARIABLES
    demo,       \* which program it is
    pipe, mainPc, writeMsgsList, readMsgsList, workerPc, bWritting,
    sent, dispatched, got, peerSent, connects,
    stopEvent, notEmptyEvent,               \* not IocpServer's
    instance, created, g_mainThreadStop,    \* OverlappedClient's
    iocp,                                   \* IocpServer's
    mPipe, mIocp, mMainPc, mIndex, mWriteMsgsLists, mReadMsgsLists, mWritting,
    mWorkerPc, mInst, mMsg, mSent, mDispatched, mClientSent, mConnects
                                            \* IocpServerMulti's

Server == INSTANCE OverlappedServer WITH
    MaxClientMsgs <- MaxPeerMsgs, clientSent <- peerSent
Client == INSTANCE OverlappedClient WITH
    MaxServerMsgs <- MaxPeerMsgs, MaxChanges <- MaxConnects,
    serverSent <- peerSent, changes <- connects
Iocp == INSTANCE IocpServer WITH
    MaxClientMsgs <- MaxPeerMsgs, clientSent <- peerSent
Multi == INSTANCE IocpServerMulti WITH
    Worker <- Threads, MaxSend <- MaxLines, MaxClientMsgs <- MaxPeerMsgs,
    pipe <- mPipe, iocp <- mIocp, mainPc <- mMainPc, index <- mIndex,
    writeMsgsLists <- mWriteMsgsLists, readMsgsLists <- mReadMsgsLists,
    bWritting <- mWritting, workerPc <- mWorkerPc, inst <- mInst, msg <- mMsg,
    sent <- mSent, dispatched <- mDispatched, clientSent <- mClientSent,
    connects <- mConnects

\* The variables of the programs with one pipe, and of the one with several.
singleVars ==
    <<pipe, mainPc, writeMsgsList, readMsgsList, workerPc, bWritting, sent, dispatched,
      got, peerSent, connects, stopEvent, notEmptyEvent, instance, created,
      g_mainThreadStop, iocp>>
multiVars ==
    <<mPipe, mIocp, mMainPc, mIndex, mWriteMsgsLists, mReadMsgsLists, mWritting,
      mWorkerPc, mInst, mMsg, mSent, mDispatched, mClientSent, mConnects>>
vars == <<demo, singleVars, multiVars>>

Init ==
    /\ demo \in Demos
    /\ \/ /\ demo = "server" /\ Server!Init
          /\ iocp = <<>> /\ instance = "none" /\ created = FALSE /\ g_mainThreadStop = FALSE
       \/ /\ demo = "client" /\ Client!Init
          /\ iocp = <<>>
       \/ /\ demo \in {"iocp", "multi"} /\ Iocp!Init
          /\ instance = "none" /\ created = FALSE /\ g_mainThreadStop = FALSE
          /\ stopEvent = FALSE /\ notEmptyEvent = FALSE
    /\ Multi!Init

\* A step of one of the programs.
InServer(A) ==
    /\ demo = "server" /\ A
    /\ UNCHANGED <<demo, iocp, instance, created, g_mainThreadStop, multiVars>>
InClient(A) == demo = "client" /\ A /\ UNCHANGED <<demo, iocp, multiVars>>
InIocp(A) ==
    /\ demo = "iocp" /\ A
    /\ UNCHANGED <<demo, instance, created, g_mainThreadStop, stopEvent, notEmptyEvent,
                   multiVars>>
InMulti(A) == demo = "multi" /\ A /\ UNCHANGED <<demo, singleVars>>

Next == InServer(Server!Next) \/ InClient(Client!Next) \/ InIocp(Iocp!Next)
        \/ InMulti(Multi!Next)

\* Each program's fairness.
FairSpec ==
    /\ Init /\ [][Next]_vars
    /\ WF_vars(InServer(Server!Worker)) /\ WF_vars(InServer(Server!dispatchMsgs))
    /\ WF_vars(InServer(workerPc = "exited" /\ Server!returnFromMain))
    /\ WF_vars(InClient(Client!Worker))
    /\ WF_vars(InClient(Client!testStop \/ Client!dispatchMsgs))
    /\ WF_vars(InClient(Client!serverRead))
    /\ WF_vars(InIocp(Iocp!Worker)) /\ WF_vars(InIocp(Iocp!startWorker \/ Iocp!dispatchMsgs))
    /\ WF_vars(InIocp(workerPc = "exited" /\ Iocp!returnFromMain))
    /\ \A w \in Threads : WF_vars(InMulti(Multi!Work(w)))
    /\ WF_vars(InMulti(Multi!connectInstances \/ Multi!broadcast \/ Multi!dispatchMsgs))

-----------------------------------------------------------------------------
\* Properties: what each program keeps, as its module states it

TypeOK ==
    /\ demo = "server" => Server!TypeOK
    /\ demo = "client" => Client!TypeOK
    /\ demo = "iocp" => Iocp!TypeOK
    /\ demo = "multi" => Multi!TypeOK

\* What the peer wrote is neither lost nor doubled nor reordered on its way to
\* dispatchMsgs.
InboundConserved ==
    /\ demo = "server" => Server!InboundConserved
    /\ demo = "client" => Client!InboundInOrder
    /\ demo = "iocp" => Iocp!InboundConserved
    /\ demo = "multi" => Multi!InboundConserved

\* No message waits in a list that nobody is going to look at.
NoLostWakeup == demo = "server" => Server!NoLostWakeup

\* All three, whichever program runs.
Inv == TypeOK /\ InboundConserved /\ NoLostWakeup

\* No two workers issue the connect or the read of one instance.
OneIssuer == demo = "multi" => Multi!OneIssuer

\* No call takes an OVERLAPPED that is still in use.
NoOverlappedReuse ==
    [][/\ demo = "server" => Server!NoOverlappedReuseStep
       /\ demo = "client" => Client!NoOverlappedReuseStep
       /\ demo = "iocp" => Iocp!OneWriteStep]_vars

\* Exactly one packet or operation carries the client's end forward.
ExactlyOneCarried == [][demo = "iocp" => Iocp!CarriedStep]_vars

\* The way from main to the peer implements the abstract channel.
Channel == INSTANCE MessageChannel WITH queue <- writeMsgsList, wire <- pipe.out
OutboundIsChannel == Channel!ChanSpec

\* A read that failed makes a server listen again, or ends the worker.
FailedReadIsHandled ==
    pipe.read = "error" ~>
        workerPc = "exited" \/ (demo # "client" /\ pipe.state = "listening")

\* The same of each instance of the server with several.
FailedReadReconnects == Multi!FailedReadReconnects

\* "exit" ends the worker of a server without the help of the timeout, whatever is
\* queued or signalled before it, and cuts nothing off at the client.
ExitIsClean ==
    /\ demo # "client" /\ mainPc = "join" ~> workerPc = "exited"
    /\ demo = "client" => Client!ExitFlushes
=============================================================================
