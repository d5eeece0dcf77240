------------------------- MODULE NamedPipeIpcServer -------------------------
(***************************************************************************)
(* A NamedPipeIpc of TYPE_SERVER in servernamedpipe/main.cpp: its worker   *)
(* ThreadOverlappedServer, which accepts one client after another on one   *)
(* instance of the pipe, and clients that open, write, read and close the  *)
(* other end at any time.                                                  *)
(***************************************************************************)
EXTENDS NamedPipeIpc

CONSTANTS
    MaxClientMsgs,  \* bound on the messages all clients write together
    MaxConnects     \* bound on the clients, that come one after another

ASSUME ServerAssumption ==
    /\ m_type = "server"
    /\ MaxClientMsgs \in Nat
    /\ MaxConnects \in Nat

VARIABLES
    m_serverConected,   \* never initialised by the constructor
    got,                \* history: what clients read
    clientSent,         \* history: messages clients wrote
    connects            \* history: clients that opened the pipe

clientVars == <<got, clientSent, connects>>
vars == <<pipeVars, ipcVars, m_serverConected, clientVars>>

\* initNamedpipeServer: the pipe, the events, then the thread.
Init ==
    /\ PipeInit
    /\ IpcInit
    /\ mainPc = "input"
    /\ workerPc = "start"
    /\ m_serverConected \in BOOLEAN
    /\ got = <<>>
    /\ clientSent = 0
    /\ connects = 0

TypeOK ==
    /\ IpcTypeOK
    /\ m_serverConected \in BOOLEAN
    /\ got \in Seq(Msg)
    /\ clientSent \in Nat
    /\ connects \in Nat

-----------------------------------------------------------------------------
\* The worker thread

\* ConnectToNewClient; its callers ignore what it returns.
ConnectToNewClient ==
    \/ /\ ConnectResult = "ERROR_IO_PENDING"
       /\ StartListening
    \/ /\ ConnectResult = "ERROR_PIPE_CONNECTED"
       /\ connectOp' = "success"
       /\ UNCHANGED <<pipeState, data, readOp, writeOp, readBuff, writeBuff>>
    \/ /\ ConnectResult \notin {"ERROR_IO_PENDING", "ERROR_PIPE_CONNECTED"}
       /\ connectOp' = "idle"
       /\ UNCHANGED <<pipeState, data, readOp, writeOp, readBuff, writeBuff>>

startWorker ==
    /\ workerPc = "start"
    /\ ConnectToNewClient
    /\ workerPc' = "wait"
    /\ UNCHANGED <<mainVars, queueVars, readMsgsList, bWritting, msg,
                   m_serverConected, clientVars>>

\* A client has come: start reading from it.
handleConnectEvent ==
    /\ workerPc = "connectEvent"
    /\ m_serverConected' = TRUE
    /\ ReadFile("server")
    /\ workerPc' = "wait"
    /\ UNCHANGED <<mainVars, queueVars, readMsgsList, bWritting, msg, clientVars>>

\* handleReadEventServer, failure: disconnect ...
handleReadError ==
    /\ workerPc = "readError"
    /\ DisconnectNamedPipe
    /\ m_serverConected' = FALSE
    /\ workerPc' = "reconnect"
    /\ UNCHANGED <<mainVars, queueVars, readMsgsList, bWritting, msg, clientVars>>

\* Mutant: the pipe is not put back to listening.
reconnectForgotten ==
    /\ workerPc = "reconnect"
    /\ workerPc' = "wait"
    /\ UNCHANGED <<pipeVars, mainVars, queueVars, readMsgsList, bWritting, msg,
                   m_serverConected, clientVars>>

\* ... and listen for the next client.
reconnect ==
    /\ workerPc = "reconnect"
    /\ ConnectToNewClient
    /\ workerPc' = "wait"
    /\ UNCHANGED <<mainVars, queueVars, readMsgsList, bWritting, msg,
                   m_serverConected, clientVars>>

-----------------------------------------------------------------------------
\* Clients: any program that opens the pipe

clientOpen ==
    /\ connects < MaxConnects
    /\ OpenClient
    /\ connects' = connects + 1
    /\ UNCHANGED <<ipcVars, m_serverConected, got, clientSent>>

clientWrite ==
    /\ clientSent < MaxClientMsgs
    /\ PutMsg("client", clientSent + 1)
    /\ clientSent' = clientSent + 1
    /\ UNCHANGED <<pipeState, connectOp, writeOp, writeBuff, ipcVars,
                   m_serverConected, got, connects>>

clientRead ==
    /\ data["client"] # <<>>
    /\ TakeMsg("client")
    /\ got' = Append(got, Head(data["client"]))
    /\ UNCHANGED <<pipeState, connectOp, readOp, readBuff, ipcVars,
                   m_serverConected, clientSent, connects>>

clientClose ==
    /\ pipeState \in {"connected", "serverClosed"}
    /\ CloseHandle("client")
    /\ UNCHANGED <<ipcVars, m_serverConected, clientVars>>

-----------------------------------------------------------------------------
Main == IpcMain /\ UNCHANGED <<m_serverConected, clientVars>>

Worker ==
    \/ (IpcWorker \/ waitConnect) /\ UNCHANGED <<m_serverConected, clientVars>>
    \/ startWorker \/ handleConnectEvent \/ handleReadError \/ reconnect

Client == clientOpen \/ clientWrite \/ clientRead \/ clientClose

Next == Main \/ Worker \/ Client

Spec == Init /\ [][Next]_vars

\* The threads are scheduled, the main thread finishes what a line started,
\* and a client reads what it is sent, as clientnamedpipe's worker does.
\* Nothing obliges the user to type, a client to come, to write or to leave,
\* or a wait to time out.
Fairness ==
    /\ WF_vars(Worker)
    /\ WF_vars((sendMsgSignal \/ getMsgs \/ closeJoined)
               /\ UNCHANGED <<m_serverConected, clientVars>>)
    /\ WF_vars(clientRead)

FairSpec == Spec /\ Fairness

-----------------------------------------------------------------------------
\* Properties

ServerHandleOpen == pipeState \notin {"serverClosed", "gone"}

\* An OVERLAPPED and its buffer are used for a new call only when the previous
\* one has completed and its event has been consumed, across disconnects,
\* reconnects and writes that outlive their client.
NoOverlappedReuse ==
    /\ workerPc \in {"start", "reconnect"} => connectOp = "idle"
    /\ workerPc \in {"connectEvent", "rearm"} => readOp["server"] = "idle"
    /\ workerPc \in {"pop", "write"} => writeOp["server"] = "idle"

\* What clients wrote is never lost, duplicated or reordered while the server
\* has its pipe, whoever disconnects and whenever.
InboundConserved ==
    ServerHandleOpen => Received \o data["server"] = [i \in 1 .. clientSent |-> i]

\* The worker disconnects only a client that has closed and whose messages
\* have all been read.
DisconnectsOnlyTheGone ==
    workerPc = "readError" => pipeState = "clientClosed" /\ data["server"] = <<>>

\* The way from sendMsg to the clients implements the abstract channel.
Channel == INSTANCE MessageChannel WITH
    queue <- Optional(msg) \o writeMsgsList,
    wire <- data["client"] \o Optional(writeBuff["server"])
OutboundIsChannel == Channel!ChanSpec

\* A message queued while a client is connected reaches that client, unless
\* the client leaves, the server ends or an earlier write was refused.
DeliveredWhileConnected ==
    \A m \in 1 .. MaxSend :
        (SeqHas(writeMsgsList, m) /\ pipeState = "connected" /\ ~WriteStuck)
            ~> (SeqHas(got, m) \/ pipeState # "connected")

\* What a connected client writes gets into the received list, unless the
\* client leaves or the server ends first.
ReceivedWhileConnected ==
    \A m \in 1 .. MaxClientMsgs :
        (SeqHas(data["server"], m) /\ pipeState = "connected")
            ~> (SeqHas(dispatched \o readMsgsList, m) \/ pipeState # "connected")

\* Both: the two threads and the event they share keep the messages moving.
FlowsWhileConnected == DeliveredWhileConnected /\ ReceivedWhileConnected

\* A read that failed makes the server listen again, or its worker ends.
FailedReadReconnects ==
    readOp["server"] = "error" ~> (pipeState = "listening" \/ workerPc = "exited")
=============================================================================
