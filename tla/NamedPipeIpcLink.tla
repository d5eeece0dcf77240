-------------------------- MODULE NamedPipeIpcLink --------------------------
(***************************************************************************)
(* servernamedpipe and clientnamedpipe together: the two NamedPipeIpc      *)
(* objects at the two ends of one pipe.  The server process runs first, as *)
(* in the demo; client processes come one after another, end by themselves *)
(* or are killed at any point, and the server may be killed too.           *)
(*                                                                         *)
(* The steps are those of NamedPipeIpcServer and NamedPipeIpcClient, with  *)
(* each the other's peer in place of the peer that module assumes.         *)
(***************************************************************************)
EXTENDS NamedPipe

CONSTANTS
    MaxSend,         \* bound on the sendMsg calls of all processes together
    MaxClients,      \* bound on the client processes
    MaxKills         \* bound on the processes that are killed

ASSUME LinkAssumption ==
    /\ MaxSend \in Nat
    /\ MaxClients \in Nat
    /\ MaxKills \in Nat

VARIABLES
    \* the server's object and threads, see NamedPipeIpc
    sMainPc, sWriteMsgsList, sWriteMsgsListLock, sReadMsgsList, sStopEvent,
    sNotEmptyEvent, sWorkerPc, sWritting, sMsg, sSent, sDispatched,
    m_serverConected,
    \* the client's; cSent and cDispatched count over all client processes
    cMainPc, cWriteMsgsList, cWriteMsgsListLock, cReadMsgsList, cStopEvent,
    cNotEmptyEvent, cWorkerPc, cWritting, cMsg, cSent, cDispatched,
    clients,         \* client processes started so far
    kills            \* processes killed so far

S == INSTANCE NamedPipeIpcServer WITH
    m_type <- "server",
    MaxClientMsgs <- 0, MaxConnects <- 0,
    mainPc <- sMainPc, writeMsgsList <- sWriteMsgsList,
    writeMsgsListLock <- sWriteMsgsListLock, readMsgsList <- sReadMsgsList,
    stopEvent <- sStopEvent, notEmptyEvent <- sNotEmptyEvent,
    workerPc <- sWorkerPc, bWritting <- sWritting, msg <- sMsg,
    sent <- sSent, dispatched <- sDispatched,
    got <- <<>>, clientSent <- 0, connects <- 0

C == INSTANCE NamedPipeIpcClient WITH
    m_type <- "client",
    MaxServerMsgs <- 0, MaxListens <- 0,
    mainPc <- cMainPc, writeMsgsList <- cWriteMsgsList,
    writeMsgsListLock <- cWriteMsgsListLock, readMsgsList <- cReadMsgsList,
    stopEvent <- cStopEvent, notEmptyEvent <- cNotEmptyEvent,
    workerPc <- cWorkerPc, bWritting <- cWritting, msg <- cMsg,
    sent <- cSent, dispatched <- cDispatched,
    got <- <<>>, serverSent <- 0, listens <- 0

serverVars ==
    <<sMainPc, sWriteMsgsList, sWriteMsgsListLock, sReadMsgsList, sStopEvent,
      sNotEmptyEvent, sWorkerPc, sWritting, sMsg, sSent, sDispatched,
      m_serverConected>>
clientVars ==
    <<cMainPc, cWriteMsgsList, cWriteMsgsListLock, cReadMsgsList, cStopEvent,
      cNotEmptyEvent, cWorkerPc, cWritting, cMsg, cSent, cDispatched, clients>>
vars == <<pipeVars, serverVars, clientVars, kills>>

Init ==
    /\ PipeInit
    /\ S!IpcInit
    /\ sMainPc = "input"
    /\ sWorkerPc = "start"
    /\ m_serverConected = FALSE
    /\ C!IpcInit
    /\ cMainPc = "returned"
    /\ cWorkerPc = "none"
    /\ clients = 0
    /\ kills = 0

-----------------------------------------------------------------------------
ServerMain == S!Main /\ sSent' + cSent <= MaxSend /\ UNCHANGED <<clientVars, kills>>
ServerWorker == S!Worker /\ UNCHANGED <<clientVars, kills>>
ClientMain == C!Main /\ sSent + cSent' <= MaxSend /\ UNCHANGED <<serverVars, clients, kills>>
ClientWorker == C!Worker /\ UNCHANGED <<serverVars, clients, kills>>

\* A new client process: a fresh object about to open the pipe.  What earlier
\* ones received is kept as history.
startClient ==
    /\ clients < MaxClients
    /\ cMainPc = "returned"
    /\ clients' = clients + 1
    /\ cMainPc' = "opening"
    /\ cWorkerPc' = "none"
    /\ cWriteMsgsList' = <<>>
    /\ cWriteMsgsListLock' = "free"
    /\ cDispatched' = cDispatched \o cReadMsgsList
    /\ cReadMsgsList' = <<>>
    /\ readBuff' = [readBuff EXCEPT !["client"] = NoMsg]
    /\ readOp' = [readOp EXCEPT !["client"] = "idle"]
    /\ writeOp' = [writeOp EXCEPT !["client"] = "idle"]
    /\ cStopEvent' = FALSE
    /\ cNotEmptyEvent' = FALSE
    /\ cWritting' = FALSE
    /\ cMsg' = NoMsg
    /\ UNCHANGED <<pipeState, data, connectOp, writeBuff, serverVars, cSent, kills>>

\* The client process is killed: its handle is closed by the system.
killClient ==
    /\ kills < MaxKills
    /\ kills' = kills + 1
    /\ cMainPc # "returned"
    /\ cMainPc' = "returned"
    /\ cWorkerPc' = "exited"
    /\ IF cMainPc \in {"opening", "waitPipe"} \/ cWorkerPc = "exited"
       THEN UNCHANGED pipeVars
       ELSE CloseHandle("client")
    /\ UNCHANGED <<serverVars, clients, cWriteMsgsList, cWriteMsgsListLock,
                   cReadMsgsList, cStopEvent, cNotEmptyEvent, cWritting, cMsg,
                   cSent, cDispatched>>

\* The server process is killed.
killServer ==
    /\ kills < MaxKills
    /\ kills' = kills + 1
    /\ sMainPc # "returned"
    /\ sMainPc' = "returned"
    /\ sWorkerPc' = "exited"
    /\ CloseHandle("server")
    /\ UNCHANGED <<clientVars, m_serverConected, sWriteMsgsList,
                   sWriteMsgsListLock, sReadMsgsList, sStopEvent, sNotEmptyEvent,
                   sWritting, sMsg, sSent, sDispatched>>

Next == ServerMain \/ ServerWorker \/ ClientMain \/ ClientWorker
        \/ startClient \/ killClient \/ killServer

Spec == Init /\ [][Next]_vars

\* Both processes' threads are scheduled and finish what a line started; a
\* client process gets as far as it can.  Nobody has to type, start or kill.
Fairness ==
    /\ WF_vars(ServerWorker)
    /\ WF_vars(ClientWorker)
    /\ WF_vars((S!sendMsgSignal \/ S!getMsgs \/ S!closeJoined) /\ ServerMain)
    /\ WF_vars((C!sendMsgSignal \/ C!getMsgs \/ C!closeJoined
                 \/ C!setHandleState \/ C!setHandleStateFails) /\ ClientMain)

FairSpec == Spec /\ Fairness

-----------------------------------------------------------------------------
\* Properties

\* Each end's invariants hold with the other end as its peer.
EndsKeepInvariants ==
    /\ S!TypeOK /\ C!TypeOK
    /\ S!NoLostWakeup /\ S!NoOverlappedReuse /\ S!DisconnectsOnlyTheGone
    /\ C!NoLostWakeup /\ C!NoOverlappedReuse

\* Each direction, from the sender's sendMsg to the receiver's list, implements
\* the abstract channel, over all client processes and kills of either side.
ToClient == INSTANCE MessageChannel WITH
    sent <- sSent,
    queue <- S!Optional(sMsg) \o sWriteMsgsList,
    wire <- S!Optional(readBuff["client"]) \o data["client"]
                \o S!Optional(writeBuff["server"]),
    got <- cDispatched \o cReadMsgsList
ToServer == INSTANCE MessageChannel WITH
    sent <- cSent,
    queue <- C!Optional(cMsg) \o cWriteMsgsList,
    wire <- C!Optional(readBuff["server"]) \o data["server"]
                \o C!Optional(writeBuff["client"]),
    got <- sDispatched \o sReadMsgsList
DirectionsAreChannels == ToClient!ChanSpec /\ ToServer!ChanSpec

\* With both ends connected and nobody leaving, what either side sends arrives
\* on the other: the two directions cannot block each other, however full.
BothDirectionsFlow ==
    /\ \A m \in 1 .. MaxSend :
         (S!SeqHas(sWriteMsgsList, m) /\ pipeState = "connected" /\ ~S!WriteStuck)
             ~> (S!SeqHas(C!Received, m) \/ pipeState # "connected")
    /\ \A m \in 1 .. MaxSend :
         (C!SeqHas(cWriteMsgsList, m) /\ pipeState = "connected")
             ~> (C!SeqHas(S!Received, m) \/ pipeState # "connected")
=============================================================================
