------------------------- MODULE NamedPipeIpcClient -------------------------
(***************************************************************************)
(* A NamedPipeIpc of TYPE_CLIENT in clientnamedpipe/main.cpp: it opens the *)
(* pipe, its worker ThreadOverlappedClient reads and writes it, and the    *)
(* server at the other end listens, reads, writes, disconnects and closes  *)
(* at any time.                                                            *)
(***************************************************************************)
EXTENDS NamedPipeIpc

CONSTANTS
    MaxServerMsgs,  \* bound on the messages the server writes
    MaxListens      \* bound on the times the server listens

ASSUME ClientAssumption ==
    /\ m_type = "client"
    /\ MaxServerMsgs \in Nat
    /\ MaxListens \in Nat

VARIABLES
    got,                \* history: what the server read
    serverSent,         \* history: messages the server wrote
    listens             \* history: times the server listened

serverVars == <<got, serverSent, listens>>
vars == <<pipeVars, ipcVars, serverVars>>

\* The pipe may be listening, busy with somebody else, or not there.
Init ==
    /\ pipeState \in {"listening", "disconnected", "gone"}
    /\ data = [e \in End |-> <<>>]
    /\ connectOp = "idle"
    /\ readOp = [e \in End |-> "idle"]
    /\ writeOp = [e \in End |-> "idle"]
    /\ readBuff = [e \in End |-> NoMsg]
    /\ writeBuff = [e \in End |-> NoMsg]
    /\ IpcInit
    /\ mainPc = "opening"
    /\ workerPc = "none"
    /\ got = <<>>
    /\ serverSent = 0
    /\ listens = 0

TypeOK ==
    /\ IpcTypeOK
    /\ got \in Seq(Msg)
    /\ serverSent \in Nat
    /\ listens \in Nat

-----------------------------------------------------------------------------
\* The main thread: initNamedpipeClient

\* CreateFile succeeds.
createFile ==
    /\ mainPc = "opening"
    /\ OpenClient
    /\ mainPc' = "setMode"
    /\ UNCHANGED <<queueVars, readMsgsList, stopEvent, sent, dispatched,
                   workerVars, serverVars>>

\* SetNamedPipeHandleState succeeds: the events, then the worker.
setHandleState ==
    /\ mainPc = "setMode"
    /\ pipeState \in {"connected", "serverClosed"}
    /\ mainPc' = "input"
    /\ workerPc' = "start"
    /\ UNCHANGED <<pipeVars, queueVars, readMsgsList, stopEvent, sent, dispatched,
                   bWritting, msg, serverVars>>

\* It fails because the server has already gone: init fails, main returns and
\* the handle is closed with the process.
setHandleStateFails ==
    /\ mainPc = "setMode"
    /\ pipeState # "connected"
    /\ mainPc' = "returned"
    /\ CloseHandle("client")
    /\ UNCHANGED <<queueVars, readMsgsList, stopEvent, sent, dispatched,
                   workerVars, serverVars>>

\* ERROR_PIPE_BUSY: wait for an instance.
createFileBusy ==
    /\ mainPc = "opening"
    /\ pipeState \notin {"listening", "gone"}
    /\ mainPc' = "waitPipe"
    /\ UNCHANGED <<pipeVars, queueVars, readMsgsList, stopEvent, sent, dispatched,
                   workerVars, serverVars>>

\* Any other error: init fails and main returns.
createFileFails ==
    /\ mainPc = "opening"
    /\ pipeState = "gone"
    /\ mainPc' = "returned"
    /\ UNCHANGED <<pipeVars, queueVars, readMsgsList, stopEvent, sent, dispatched,
                   workerVars, serverVars>>

\* WaitNamedPipe finds an instance listening: try again.
waitNamedPipe ==
    /\ mainPc = "waitPipe"
    /\ pipeState = "listening"
    /\ mainPc' = "opening"
    /\ UNCHANGED <<pipeVars, queueVars, readMsgsList, stopEvent, sent, dispatched,
                   workerVars, serverVars>>

\* WaitNamedPipe fails, after 20 s or because the pipe is gone.
waitNamedPipeFails ==
    /\ mainPc = "waitPipe"
    /\ pipeState # "listening"
    /\ mainPc' = "returned"
    /\ UNCHANGED <<pipeVars, queueVars, readMsgsList, stopEvent, sent, dispatched,
                   workerVars, serverVars>>

-----------------------------------------------------------------------------
\* The worker thread

\* The first read.
startWorker ==
    /\ workerPc = "start"
    /\ ReadFile("client")
    /\ workerPc' = "wait"
    /\ UNCHANGED <<mainVars, queueVars, readMsgsList, bWritting, msg, serverVars>>

\* handleReadEventClient, failure: the handle is closed and the worker ends.
handleReadError ==
    /\ workerPc = "readError"
    /\ CloseHandle("client")
    /\ workerPc' = "exited"
    /\ UNCHANGED <<mainVars, queueVars, readMsgsList, bWritting, msg, serverVars>>

\* Mutant: the handle is closed without FlushFileBuffers.
closeUnflushed ==
    /\ workerPc = "stopping"
    /\ CloseHandle("client")
    /\ workerPc' = "exited"
    /\ UNCHANGED <<mainVars, queueVars, readMsgsList, bWritting, msg, serverVars>>

\* The exit event: FlushFileBuffers blocks until the server has read all that
\* was written, then the handle is closed and the worker ends.
flushAndClose ==
    /\ workerPc = "stopping"
    /\ pipeState = "connected" =>
           data["server"] = <<>> /\ writeOp["client"] # "pending"
    /\ CloseHandle("client")
    /\ workerPc' = "exited"
    /\ UNCHANGED <<mainVars, queueVars, readMsgsList, bWritting, msg, serverVars>>

-----------------------------------------------------------------------------
\* The server: any program that created the pipe

serverListen ==
    /\ listens < MaxListens
    /\ pipeState = "disconnected"
    /\ StartListening
    /\ listens' = listens + 1
    /\ UNCHANGED <<ipcVars, got, serverSent>>

serverWrite ==
    /\ serverSent < MaxServerMsgs
    /\ PutMsg("server", serverSent + 1)
    /\ serverSent' = serverSent + 1
    /\ UNCHANGED <<pipeState, connectOp, writeOp, writeBuff, ipcVars, got, listens>>

serverRead ==
    /\ data["server"] # <<>>
    /\ TakeMsg("server")
    /\ got' = Append(got, Head(data["server"]))
    /\ UNCHANGED <<pipeState, connectOp, readOp, readBuff, ipcVars, serverSent,
                   listens>>

serverDisconnect ==
    /\ pipeState \in {"connected", "clientClosed"}
    /\ DisconnectNamedPipe
    /\ UNCHANGED <<ipcVars, serverVars>>

serverClose ==
    /\ pipeState \notin {"serverClosed", "gone"}
    /\ CloseHandle("server")
    /\ UNCHANGED <<ipcVars, serverVars>>

-----------------------------------------------------------------------------
Opening == createFile \/ createFileBusy \/ createFileFails \/ waitNamedPipe
           \/ waitNamedPipeFails \/ setHandleState \/ setHandleStateFails

Main == Opening \/ (IpcMain /\ UNCHANGED serverVars)

Worker == startWorker \/ handleReadError \/ flushAndClose
          \/ (IpcWorker /\ UNCHANGED serverVars)

Server == serverListen \/ serverWrite \/ serverRead \/ serverDisconnect
          \/ serverClose

Next == Main \/ Worker \/ Server

Spec == Init /\ [][Next]_vars

\* The threads are scheduled, the main thread finishes what a line or an open
\* started, and the server reads what it is sent, as servernamedpipe's worker does.
\* Nothing obliges the user to type, the server to write, listen or leave, or
\* a wait to time out.
Fairness ==
    /\ WF_vars(Worker)
    /\ WF_vars((sendMsgSignal \/ getMsgs \/ closeJoined) /\ UNCHANGED serverVars)
    /\ WF_vars(setHandleState \/ setHandleStateFails)
    /\ WF_vars(serverRead)

FairSpec == Spec /\ Fairness

-----------------------------------------------------------------------------
\* Properties

\* An OVERLAPPED and its buffer are used for a new call only when the previous
\* one has completed and its event has been consumed.
NoOverlappedReuse ==
    /\ workerPc \in {"start", "rearm"} => readOp["client"] = "idle"
    /\ workerPc \in {"pop", "write"} => writeOp["client"] = "idle"

\* What the server wrote is never lost, duplicated or reordered while the
\* client has its end and the server does not discard it by disconnecting.
InboundConserved ==
    pipeState \in {"connected", "serverClosed"} =>
        Received \o data["client"] = [i \in 1 .. serverSent |-> i]

\* Of what the client handed to WriteFile, a close() that is not cut short
\* by its timeout loses nothing: when the worker closes the handle after the
\* exit event and the server is still there, the server has read it all.
CloseLosesNoWrite ==
    [][workerPc = "stopping" /\ workerPc' = "exited" /\ mainPc' # "returned"
           /\ pipeState = "connected" /\ writeMsgsList = <<>>
       => Len(got) = sent]_vars

\* The way from sendMsg to the server implements the abstract channel.
Channel == INSTANCE MessageChannel WITH
    queue <- Optional(msg) \o writeMsgsList,
    wire <- data["server"] \o Optional(writeBuff["client"])
OutboundIsChannel == Channel!ChanSpec

\* A message queued while the pipe is connected reaches the server, unless
\* one of the two ends the connection first.
DeliveredWhileConnected ==
    \A m \in 1 .. MaxSend :
        (SeqHas(writeMsgsList, m) /\ pipeState = "connected")
            ~> (SeqHas(got, m) \/ pipeState # "connected")

\* What the server writes gets into the received list, unless one of the two
\* ends the connection first.
ReceivedWhileConnected ==
    \A m \in 1 .. MaxServerMsgs :
        (SeqHas(data["client"], m) /\ pipeState = "connected")
            ~> (SeqHas(dispatched \o readMsgsList, m) \/ pipeState # "connected")

\* Both: the two threads and the event they share keep the messages moving.
FlowsWhileConnected == DeliveredWhileConnected /\ ReceivedWhileConnected

\* A read or a write that failed after it was outstanding ends the worker.
FailedIoEndsWorker ==
    (readOp["client"] = "error" \/ writeOp["client"] = "error")
        ~> workerPc = "exited"

\* close() ends the worker without the help of its timeout, as long as the
\* server reads.
CloseEndsWorker == mainPc = "join" ~> workerPc = "exited"

\* Both: the worker ends when it has to, by an event that is set for it.
WorkerEnds == FailedIoEndsWorker /\ CloseEndsWorker
=============================================================================
