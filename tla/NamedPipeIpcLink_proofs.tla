---------------------- MODULE NamedPipeIpcLink_proofs -----------------------
(***************************************************************************)
(* Proofs about the two NamedPipeIpc objects at the two ends of one pipe,  *)
(* for every quota and every bound on messages, clients and kills.         *)
(*                                                                         *)
(* What each end's module proves of the steps of its own object is used    *)
(* here for that object's steps, and what it proves of any other holder of *)
(* the other end for the steps of the other object.                        *)
(***************************************************************************)
EXTENDS NamedPipeIpcLink, TLAPS

\* The instances S and C again, with the lemmas of their proof modules.
SP == INSTANCE NamedPipeIpcServer_proofs WITH
    m_type <- "server",
    MaxClientMsgs <- 0, MaxConnects <- 0,
    mainPc <- sMainPc, writeMsgsList <- sWriteMsgsList,
    writeMsgsListLock <- sWriteMsgsListLock, readMsgsList <- sReadMsgsList,
    stopEvent <- sStopEvent, notEmptyEvent <- sNotEmptyEvent,
    workerPc <- sWorkerPc, bWritting <- sWritting, msg <- sMsg,
    sent <- sSent, dispatched <- sDispatched,
    got <- <<>>, clientSent <- 0, connects <- 0

CP == INSTANCE NamedPipeIpcClient_proofs WITH
    m_type <- "client",
    MaxServerMsgs <- 0, MaxListens <- 0,
    mainPc <- cMainPc, writeMsgsList <- cWriteMsgsList,
    writeMsgsListLock <- cWriteMsgsListLock, readMsgsList <- cReadMsgsList,
    stopEvent <- cStopEvent, notEmptyEvent <- cNotEmptyEvent,
    workerPc <- cWorkerPc, bWritting <- cWritting, msg <- cMsg,
    sent <- cSent, dispatched <- cDispatched,
    got <- <<>>, serverSent <- 0, listens <- 0

-----------------------------------------------------------------------------
(***************************************************************************)
(* S and SP, C and CP name the same definitions.                           *)
(***************************************************************************)
LEMMA ServerMainSame == ASSUME S!Main PROVE SP!Main
BY
   DEF S!Main, SP!Main, S!IpcMain, SP!IpcMain, S!clientVars, SP!clientVars,
       S!sendMsgPush, SP!sendMsgPush, S!sendMsgSignal, SP!sendMsgSignal, S!getMsgs,
       SP!getMsgs, S!close, SP!close, S!closeJoined, SP!closeJoined, S!closeTimedOut,
       SP!closeTimedOut, S!pipeVars, SP!pipeVars, S!workerVars, SP!workerVars,
       S!queueVars, SP!queueVars, S!ReturnFromMain, SP!ReturnFromMain, S!CloseHandle,
       SP!CloseHandle, S!AfterClose, SP!AfterClose, S!Break, SP!Break, S!End, SP!End,
       S!NoMsg, SP!NoMsg

LEMMA ServerWorkerSame == ASSUME S!Worker PROVE SP!Worker
BY
   DEF S!Worker, SP!Worker, S!IpcWorker, SP!IpcWorker, S!waitConnect, SP!waitConnect,
       S!clientVars, SP!clientVars, S!startWorker, SP!startWorker, S!handleConnectEvent,
       SP!handleConnectEvent, S!handleReadError, SP!handleReadError, S!reconnect,
       SP!reconnect, S!waitRead, SP!waitRead, S!waitWrite, SP!waitWrite, S!waitStop,
       SP!waitStop, S!waitNotEmpty, SP!waitNotEmpty, S!handleReadData,
       SP!handleReadData, S!rearmRead, SP!rearmRead, S!handleWriteDone,
       SP!handleWriteDone, S!handleWriteError, SP!handleWriteError,
       S!handleNotEmptyEvent, SP!handleNotEmptyEvent, S!popMsg, SP!popMsg, S!startWrite,
       SP!startWrite, S!WaitReturns, SP!WaitReturns, S!ConnectToNewClient,
       SP!ConnectToNewClient, S!mainVars, SP!mainVars, S!queueVars, SP!queueVars,
       S!ReadFile, SP!ReadFile, S!DisconnectNamedPipe, SP!DisconnectNamedPipe,
       S!ReadHandler, SP!ReadHandler, S!WriteHandler, SP!WriteHandler, S!NoMsg,
       SP!NoMsg, S!NextWritePc, SP!NextWritePc, S!pipeVars, SP!pipeVars, S!CloseHandle,
       SP!CloseHandle, S!WriteFile, SP!WriteFile, S!EventSet, SP!EventSet,
       S!ConnectResult, SP!ConnectResult, S!StartListening, SP!StartListening,
       S!TakeMsg, SP!TakeMsg, S!End, SP!End, S!Break, SP!Break, S!AfterClose,
       SP!AfterClose, S!PutMsg, SP!PutMsg, S!Peer, SP!Peer, S!Signaled, SP!Signaled

LEMMA ClientMainSame == ASSUME C!Main PROVE CP!Main
BY
   DEF C!Main, CP!Main, C!Opening, CP!Opening, C!IpcMain, CP!IpcMain, C!serverVars,
       CP!serverVars, C!createFile, CP!createFile, C!createFileBusy, CP!createFileBusy,
       C!createFileFails, CP!createFileFails, C!waitNamedPipe, CP!waitNamedPipe,
       C!waitNamedPipeFails, CP!waitNamedPipeFails, C!setHandleState, CP!setHandleState,
       C!setHandleStateFails, CP!setHandleStateFails, C!sendMsgPush, CP!sendMsgPush,
       C!sendMsgSignal, CP!sendMsgSignal, C!getMsgs, CP!getMsgs, C!close, CP!close,
       C!closeJoined, CP!closeJoined, C!closeTimedOut, CP!closeTimedOut, C!OpenClient,
       CP!OpenClient, C!queueVars, CP!queueVars, C!workerVars, CP!workerVars,
       C!pipeVars, CP!pipeVars, C!CloseHandle, CP!CloseHandle, C!ReturnFromMain,
       CP!ReturnFromMain, C!AfterClose, CP!AfterClose, C!Break, CP!Break, C!End, CP!End,
       C!NoMsg, CP!NoMsg

LEMMA ClientWorkerSame == ASSUME C!Worker PROVE CP!Worker
BY
   DEF C!Worker, CP!Worker, C!startWorker, CP!startWorker, C!handleReadError,
       CP!handleReadError, C!flushAndClose, CP!flushAndClose, C!IpcWorker, CP!IpcWorker,
       C!serverVars, CP!serverVars, C!ReadFile, CP!ReadFile, C!mainVars, CP!mainVars,
       C!queueVars, CP!queueVars, C!CloseHandle, CP!CloseHandle, C!waitRead,
       CP!waitRead, C!waitWrite, CP!waitWrite, C!waitStop, CP!waitStop, C!waitNotEmpty,
       CP!waitNotEmpty, C!handleReadData, CP!handleReadData, C!rearmRead, CP!rearmRead,
       C!handleWriteDone, CP!handleWriteDone, C!handleWriteError, CP!handleWriteError,
       C!handleNotEmptyEvent, CP!handleNotEmptyEvent, C!popMsg, CP!popMsg, C!startWrite,
       CP!startWrite, C!TakeMsg, CP!TakeMsg, C!AfterClose, CP!AfterClose, C!Break,
       CP!Break, C!End, CP!End, C!NoMsg, CP!NoMsg, C!WaitReturns, CP!WaitReturns,
       C!ReadHandler, CP!ReadHandler, C!WriteHandler, CP!WriteHandler, C!NextWritePc,
       CP!NextWritePc, C!pipeVars, CP!pipeVars, C!WriteFile, CP!WriteFile, C!Peer,
       CP!Peer, C!EventSet, CP!EventSet, C!PutMsg, CP!PutMsg, C!Signaled, CP!Signaled

LEMMA ClientCallSame ==
    ASSUME CP!ClientCall
    PROVE  SP!ClientCall
BY
   DEF CP!ClientCall, SP!ClientCall, CP!OpenClient, SP!OpenClient, CP!ReadFile,
       SP!ReadFile, CP!Msg, SP!Msg, CP!WriteFile, SP!WriteFile, CP!CloseHandle,
       SP!CloseHandle, CP!TakeMsg, SP!TakeMsg, CP!PutMsg, SP!PutMsg, CP!Peer, SP!Peer,
       CP!AfterClose, SP!AfterClose, CP!Break, SP!Break, CP!End, SP!End, CP!NoMsg,
       SP!NoMsg

LEMMA CompletesSame ==
    /\ SP!OnlyCompletes("client") => CP!OnlyCompletes("client")
    /\ CP!OnlyCompletes("server") => SP!OnlyCompletes("server")
BY DEF SP!OnlyCompletes, CP!OnlyCompletes, SP!Msg, CP!Msg

LEMMA PipeTypeSame == SP!PipeTypeOK <=> CP!PipeTypeOK
BY
   DEF SP!PipeTypeOK, CP!PipeTypeOK, SP!PipeStates, CP!PipeStates, SP!End, CP!End,
       SP!Msg, CP!Msg, SP!OpStatus, CP!OpStatus

-----------------------------------------------------------------------------
(***************************************************************************)
(* Each object's invariant survives the steps of both.                     *)
(***************************************************************************)
LinkInv == SP!ServerInv /\ CP!ClientInv

\* What one end's invariant says of the pipe and of its own pending write.
LEMMA SharedParts ==
    /\ SP!ServerInv =>
           CP!PipeTypeOK /\ (writeOp["server"] = "pending" => writeBuff["server"] \in CP!Msg)
    /\ CP!ClientInv =>
           SP!PipeTypeOK /\ (writeOp["client"] = "pending" => writeBuff["client"] \in SP!Msg)
BY PipeTypeSame
   DEF SP!ServerInv, SP!TypeInv, SP!TypeOK, SP!IpcTypeOK, SP!BuffersFull, SP!Msg,
       CP!ClientInv, CP!TypeInv, CP!TypeOK, CP!IpcTypeOK, CP!BuffersFull, CP!Msg

LEMMA SharedPartsNext ==
    /\ SP!ServerInv' =>
           CP!PipeTypeOK' /\ (writeOp["server"] = "pending" => writeBuff["server"] \in CP!Msg)'
    /\ CP!ClientInv' =>
           SP!PipeTypeOK' /\ (writeOp["client"] = "pending" => writeBuff["client"] \in SP!Msg)'
BY SharedParts, PTL

LEMMA InitLink == Init => LinkInv
<1>. SUFFICES ASSUME Init PROVE LinkInv
  OBVIOUS
<1>1. SP!Init
  BY DEF Init, PipeInit, S!IpcInit, SP!Init, SP!PipeInit, SP!IpcInit, SP!End, End,
         SP!NoMsg, S!NoMsg, NoMsg
<1>2. SP!ServerInv
  <2>1. SP!TypeInv /\ SP!OneCallOfAKind /\ SP!ReadState
    BY <1>1, SP!InitTypeInv, SP!InitOneCall, SP!InitReadState, QuotaAssumption, LinkAssumption
       DEF SP!End
  <2>2. SP!SomebodyLooks
    BY <1>1 DEF SP!Init, SP!IpcInit, SP!SomebodyLooks
  <2>. QED BY <2>1, <2>2 DEF SP!ServerInv
<1>3. CP!ClientInv
  <2>1. CP!PipeTypeOK
    BY <1>2, SharedParts
  <2>2. CP!TypeOK
    <3>1. <<>> \in Seq(CP!Msg)
      OBVIOUS
    <3>. QED BY <2>1, <3>1 DEF Init, C!IpcInit, CP!TypeOK, CP!IpcTypeOK, CP!MainPc,
                               CP!WorkerPc, C!NoMsg
  <2>3. CP!BuffersFull /\ CP!OneCallOfAKind /\ CP!SomebodyLooks
    BY DEF Init, PipeInit, C!IpcInit, End, CP!BuffersFull, CP!OneCallOfAKind,
           CP!SomebodyLooks
  <2>. QED BY <2>2, <2>3 DEF CP!ClientInv, CP!TypeInv
<1>. QED BY <1>2, <1>3 DEF LinkInv

\* What a step of the server's process leaves the client with.
LEMMA ClientSees ==
    ASSUME LinkInv, SP!ServerInv', SP!OnlyCompletes("client"), UNCHANGED clientVars
    PROVE  LinkInv'
<1>1. CP!PipeTypeOK' /\ (writeOp["server"] = "pending" => writeBuff["server"] \in CP!Msg)'
  BY SharedPartsNext
<1>2. UNCHANGED <<CP!ipcVars, CP!serverVars>>
  BY DEF clientVars, CP!ipcVars, CP!mainVars, CP!queueVars, CP!workerVars, CP!serverVars
<1>3. CP!ClientInv'
  BY <1>1, <1>2, CompletesSame, CP!ServerCallsKeep, QuotaAssumption, LinkAssumption
     DEF LinkInv, CP!End
<1>. QED BY <1>3 DEF LinkInv

LEMMA ServerSteps ==
    ASSUME LinkInv, ServerMain \/ ServerWorker
    PROVE  LinkInv'
<1>1. (SP!Main \/ SP!Worker) /\ UNCHANGED clientVars
  BY ServerMainSame, ServerWorkerSame DEF ServerMain, ServerWorker
<1>2. SP!ServerInv' /\ SP!OnlyCompletes("client")
  BY <1>1, SP!OwnStepsKeep, QuotaAssumption, LinkAssumption DEF LinkInv, SP!End
<1>. QED BY <1>1, <1>2, ClientSees

\* What a step of the client's process leaves the server with.
LEMMA ServerSees ==
    ASSUME LinkInv, CP!ClientInv', CP!OnlyCompletes("server"), CP!ClientCall,
           UNCHANGED serverVars
    PROVE  LinkInv'
<1>1. SP!PipeTypeOK' /\ (writeOp["client"] = "pending" => writeBuff["client"] \in SP!Msg)'
  BY SharedPartsNext
<1>2. UNCHANGED <<SP!ipcVars, m_serverConected, SP!clientVars>>
  BY DEF serverVars, SP!ipcVars, SP!mainVars, SP!queueVars, SP!workerVars, SP!clientVars
<1>3. SP!ServerInv'
  BY <1>1, <1>2, CompletesSame, ClientCallSame, SP!ClientCallsKeep, QuotaAssumption,
     LinkAssumption
     DEF LinkInv, SP!End
<1>. QED BY <1>3 DEF LinkInv

LEMMA ClientSteps ==
    ASSUME LinkInv, ClientMain \/ ClientWorker
    PROVE  LinkInv'
<1>1. (CP!Main \/ CP!Worker) /\ UNCHANGED serverVars
  BY ClientMainSame, ClientWorkerSame DEF ClientMain, ClientWorker
<1>2. CP!ClientInv' /\ CP!OnlyCompletes("server") /\ CP!ClientCall
  BY <1>1, CP!OwnStepsKeep, QuotaAssumption, LinkAssumption DEF LinkInv, CP!End
<1>. QED BY <1>1, <1>2, ServerSees

LEMMA StartClient ==
    ASSUME LinkInv, startClient
    PROVE  LinkInv'
<1>. USE DEF startClient
<1>a. CP!ClientInv /\ PipeTypeOK /\ "client" \in End /\ "server" \in End
  BY SharedParts DEF LinkInv, PipeTypeOK, SP!PipeTypeOK, PipeStates, SP!PipeStates, End,
                     SP!End, OpStatus, SP!OpStatus, Msg, SP!Msg
<1>1. CP!TypeOK'
  <2>1. cDispatched \o cReadMsgsList \in Seq(CP!Msg)
    BY <1>a, CP!ConcatProperties DEF CP!ClientInv, CP!TypeInv, CP!TypeOK, CP!IpcTypeOK
  <2>2. CP!PipeTypeOK'
    BY <1>a DEF PipeTypeOK, CP!PipeTypeOK, PipeStates, CP!PipeStates, End, CP!End,
                OpStatus, CP!OpStatus, Msg, CP!Msg, NoMsg
  <2>3. <<>> \in Seq(CP!Msg)
    OBVIOUS
  <2>. QED BY <1>a, <2>1, <2>2, <2>3
           DEF CP!ClientInv, CP!TypeInv, CP!TypeOK, CP!IpcTypeOK, CP!MainPc, CP!WorkerPc,
               NoMsg
<1>2. CP!BuffersFull' /\ CP!OneCallOfAKind' /\ CP!SomebodyLooks'
  BY <1>a DEF CP!ClientInv, CP!TypeInv, CP!BuffersFull, CP!OneCallOfAKind,
              CP!SomebodyLooks, PipeTypeOK
<1>3. CP!OnlyCompletes("server") /\ CP!ClientCall
  BY <1>a DEF CP!OnlyCompletes, CP!ClientCall, PipeTypeOK
<1>. QED BY <1>1, <1>2, <1>3, ServerSees DEF CP!ClientInv, CP!TypeInv

LEMMA CloseSame ==
    /\ CloseHandle("client") => CP!CloseHandle("client")
    /\ CloseHandle("server") => SP!CloseHandle("server")
BY DEF CloseHandle, AfterClose, Break, End, NoMsg,
       CP!CloseHandle, CP!AfterClose, CP!Break, CP!End, CP!NoMsg,
       SP!CloseHandle, SP!AfterClose, SP!Break, SP!End, SP!NoMsg

LEMMA KillClient ==
    ASSUME LinkInv, killClient
    PROVE  LinkInv'
<1>1. CP!CloseHandle("client") \/ UNCHANGED CP!pipeVars
  BY CloseSame DEF killClient, pipeVars, CP!pipeVars
<1>2. CP!ClientInv' /\ CP!OnlyCompletes("server") /\ CP!ClientCall
  <2>1. /\ cMainPc' = "returned" /\ cWorkerPc' = "exited"
        /\ UNCHANGED <<CP!queueVars, cReadMsgsList, cStopEvent, cWritting, cMsg, cSent,
                       cDispatched, CP!serverVars>>
    BY DEF killClient, CP!queueVars, CP!serverVars
  <2>. QED BY <1>1, <2>1, CP!EndKeeps, QuotaAssumption, LinkAssumption DEF LinkInv, CP!End
<1>. QED BY <1>2, ServerSees DEF killClient

LEMMA KillServer ==
    ASSUME LinkInv, killServer
    PROVE  LinkInv'
<1>1. SP!CloseHandle("server")
  BY CloseSame DEF killServer
<1>2. SP!ServerInv' /\ SP!OnlyCompletes("client")
  <2>1. /\ sMainPc' = "returned" /\ sWorkerPc' = "exited"
        /\ UNCHANGED <<SP!queueVars, sReadMsgsList, sStopEvent, sWritting, sMsg, sSent,
                       sDispatched, m_serverConected, SP!clientVars>>
    BY DEF killServer, SP!queueVars, SP!clientVars
  <2>. QED BY <1>1, <2>1, SP!EndKeeps, QuotaAssumption, LinkAssumption DEF LinkInv, SP!End
<1>. QED BY <1>2, ClientSees DEF killServer

-----------------------------------------------------------------------------
LEMMA Invariance == Spec => []LinkInv
<1>1. LinkInv /\ [Next]_vars => LinkInv'
  <2>. SUFFICES ASSUME LinkInv, [Next]_vars PROVE LinkInv'
    OBVIOUS
  <2>1. CASE UNCHANGED vars
    <3>1. UNCHANGED <<pipeVars, serverVars, clientVars>>
      BY <2>1 DEF vars
    <3>2. CP!OnlyCompletes("server") /\ CP!ClientCall /\ CP!OnlyCompletes("client")
      BY <3>1 DEF pipeVars, CP!OnlyCompletes, CP!ClientCall
    <3>3. /\ CP!PipeTypeOK'
          /\ (writeOp["server"] = "pending" => writeBuff["server"] \in CP!Msg)'
      BY <3>1, SharedParts DEF LinkInv, pipeVars, CP!PipeTypeOK
    <3>4. UNCHANGED <<CP!ipcVars, CP!serverVars>>
      BY <3>1 DEF clientVars, CP!ipcVars, CP!mainVars, CP!queueVars, CP!workerVars,
                  CP!serverVars
    <3>5. CP!ClientInv'
      BY <3>2, <3>3, <3>4, CP!ServerCallsKeep, QuotaAssumption, LinkAssumption
         DEF LinkInv, CP!End
    <3>. QED BY <3>1, <3>2, <3>5, ServerSees
  <2>. QED BY <2>1, ServerSteps, ClientSteps, StartClient, KillClient, KillServer DEF Next
<1>. QED BY <1>1, InitLink, PTL DEF Spec

\* What each end keeps with an arbitrary peer it keeps with the other end as its
\* peer, over all client processes and kills of either side: types, no wakeup
\* lost, no OVERLAPPED used twice, no disconnect of a client that is there.
THEOREM EndsSafe == Spec => []EndsKeepInvariants
<1>1. SP!ServerInv => S!TypeOK /\ S!NoLostWakeup /\ S!NoOverlappedReuse
                         /\ S!DisconnectsOnlyTheGone
  <2>. SUFFICES ASSUME SP!ServerInv
                PROVE  S!TypeOK /\ S!NoLostWakeup /\ S!NoOverlappedReuse
                         /\ S!DisconnectsOnlyTheGone
    OBVIOUS
  <2>1. S!TypeOK
    BY
       DEF S!TypeOK, SP!TypeOK, S!IpcTypeOK, SP!IpcTypeOK, S!Msg, SP!Msg, S!PipeTypeOK,
           SP!PipeTypeOK, S!MainPc, SP!MainPc, S!WorkerPc, SP!WorkerPc, S!PipeStates,
           SP!PipeStates, S!End, SP!End, S!OpStatus, SP!OpStatus,
           SP!ServerInv, SP!TypeInv
  <2>. QED BY <2>1
           DEF SP!ServerInv, SP!SomebodyLooks, SP!OneCallOfAKind, SP!ReadState,
               S!NoLostWakeup, S!NoOverlappedReuse, S!DisconnectsOnlyTheGone
<1>2. CP!ClientInv => C!TypeOK /\ C!NoLostWakeup /\ C!NoOverlappedReuse
  <2>. SUFFICES ASSUME CP!ClientInv
                PROVE  C!TypeOK /\ C!NoLostWakeup /\ C!NoOverlappedReuse
    OBVIOUS
  <2>1. C!TypeOK
    BY
       DEF C!TypeOK, CP!TypeOK, C!IpcTypeOK, CP!IpcTypeOK, C!Msg, CP!Msg, C!PipeTypeOK,
           CP!PipeTypeOK, C!MainPc, CP!MainPc, C!WorkerPc, CP!WorkerPc, C!PipeStates,
           CP!PipeStates, C!End, CP!End, C!OpStatus, CP!OpStatus,
           CP!ClientInv, CP!TypeInv
  <2>. QED BY <2>1
           DEF CP!ClientInv, CP!SomebodyLooks, CP!OneCallOfAKind, C!NoLostWakeup,
               C!NoOverlappedReuse
<1>. QED BY <1>1, <1>2, Invariance, PTL DEF LinkInv, EndsKeepInvariants

-----------------------------------------------------------------------------
(***************************************************************************)
(* Each direction, from the sender's sendMsg to the receiver's list, is an *)
(* abstract channel.                                                       *)
(***************************************************************************)
WaysInv == SP!Settled /\ SP!OwnBuffers /\ CP!OwnBuffers /\ CP!ClientOut

\* The channels' variables in the words of either end.
ChannelParts ==
    /\ S!Optional(sMsg) \o sWriteMsgsList = SP!Queue
    /\ C!Optional(cMsg) \o cWriteMsgsList = CP!Queue
    /\ S!Optional(readBuff["client"]) \o data["client"] \o S!Optional(writeBuff["server"])
           = SP!Way("client")
    /\ C!Optional(readBuff["server"]) \o data["server"] \o C!Optional(writeBuff["client"])
           = SP!Way("server")
    /\ \A e : CP!Way(e) = SP!Way(e)
    /\ sDispatched \o sReadMsgsList = SP!Listed
    /\ cDispatched \o cReadMsgsList = CP!Listed
    /\ SP!Peer("server") = "client" /\ CP!Peer("client") = "server"
    /\ SP!Settled <=> CP!Settled

LEMMA ChannelPartsNow == ChannelParts
<1>1. \A m : /\ S!Optional(m) = SP!Optional(m) /\ C!Optional(m) = SP!Optional(m)
             /\ CP!Optional(m) = SP!Optional(m)
  BY DEF S!Optional, SP!Optional, C!Optional, CP!Optional, S!NoMsg, SP!NoMsg, C!NoMsg,
         CP!NoMsg
<1>2. /\ SP!Peer("server") = "client" /\ SP!Peer("client") = "server"
      /\ \A e : CP!Peer(e) = SP!Peer(e)
  BY DEF SP!Peer, CP!Peer
<1>3. SP!Settled <=> CP!Settled
  BY DEF SP!Settled, CP!Settled, SP!End, CP!End, SP!Msg, CP!Msg, SP!NoMsg, CP!NoMsg,
         SP!ClientInside, CP!ClientInside
<1>. QED BY <1>1, <1>2, <1>3
         DEF ChannelParts, SP!Queue, CP!Queue, SP!Way, CP!Way, SP!Listed, CP!Listed

LEMMA ChannelPartsNext == ChannelParts'
BY ChannelPartsNow, PTL

ToClientStep == [ToClient!ChanNext]_(ToClient!chanVars)
ToServerStep == [ToServer!ChanNext]_(ToServer!chanVars)

LEMMA ServerSends ==
    ASSUME SP!SendStep, CP!Listed' = CP!Listed
    PROVE  ToClientStep
BY ChannelPartsNow, ChannelPartsNext
   DEF ChannelParts, ToClientStep, SP!SendStep, SP!Shortened, ToClient!ChanNext, ToClient!chanVars,
       ToClient!Send, ToClient!Transmit, ToClient!Refuse, ToClient!Lose

LEMMA ServerReceives ==
    ASSUME SP!ReceiveStep, CP!Queue' = CP!Queue, cSent' = cSent
    PROVE  ToServerStep
BY ChannelPartsNow, ChannelPartsNext
   DEF ChannelParts, ToServerStep, SP!ReceiveStep, SP!Shortened, ToServer!ChanNext,
       ToServer!chanVars, ToServer!Deliver, ToServer!Lose

LEMMA ClientSends ==
    ASSUME CP!SendStep, SP!Listed' = SP!Listed
    PROVE  ToServerStep
BY ChannelPartsNow, ChannelPartsNext
   DEF ChannelParts, ToServerStep, CP!SendStep, CP!Shortened, ToServer!ChanNext, ToServer!chanVars,
       ToServer!Send, ToServer!Transmit, ToServer!Refuse, ToServer!Lose

LEMMA ClientReceives ==
    ASSUME CP!ReceiveStep, SP!Queue' = SP!Queue, sSent' = sSent
    PROVE  ToClientStep
BY ChannelPartsNow, ChannelPartsNext
   DEF ChannelParts, ToClientStep, CP!ReceiveStep, CP!Shortened, ToClient!ChanNext,
       ToClient!chanVars, ToClient!Deliver, ToClient!Lose

\* A step of one object moves messages along both ways, at its own ends of them.
LEMMA ServerMoves ==
    ASSUME WaysInv, SP!BothWays, SP!OnlyCompletes("client"),
           SP!ClientInside' => SP!ClientInside, UNCHANGED clientVars
    PROVE  WaysInv' /\ ToClientStep /\ ToServerStep
<1>1. CP!OwnBuffers'
  BY CP!OthersKeepBuffers, ChannelPartsNow, CompletesSame, LinkAssumption, QuotaAssumption
     DEF ChannelParts, WaysInv, clientVars, CP!End
<1>2. CP!ClientOut'
  BY DEF WaysInv, clientVars, CP!ClientOut, CP!ClientInside, SP!ClientInside
<1>3. CP!Listed' = CP!Listed /\ CP!Queue' = CP!Queue /\ cSent' = cSent
  BY DEF clientVars, CP!Listed, CP!Queue
<1>. QED BY <1>1, <1>2, <1>3, ServerSends, ServerReceives DEF WaysInv, SP!BothWays

LEMMA ClientMoves ==
    ASSUME WaysInv, CP!BothWays, CP!ClientOut', CP!OnlyCompletes("server"),
           UNCHANGED serverVars
    PROVE  WaysInv' /\ ToClientStep /\ ToServerStep
<1>1. SP!OwnBuffers'
  BY SP!OthersKeepBuffers, CompletesSame, LinkAssumption, QuotaAssumption
     DEF WaysInv, serverVars, SP!End
<1>2. SP!Listed' = SP!Listed /\ SP!Queue' = SP!Queue /\ sSent' = sSent
  BY DEF serverVars, SP!Listed, SP!Queue
<1>3. SP!Settled'
  BY ChannelPartsNext DEF ChannelParts, CP!BothWays
<1>. QED BY <1>1, <1>2, <1>3, ClientSends, ClientReceives DEF WaysInv, CP!BothWays

\* A new process finds nothing of what the last one had in its hands.
LEMMA StartClientMoves ==
    ASSUME LinkInv, WaysInv, startClient
    PROVE  WaysInv' /\ ToClientStep /\ ToServerStep
<1>. USE DEF startClient
<1>a. /\ PipeTypeOK /\ "client" \in End /\ "server" \in End /\ SP!PipeTypeOK
      /\ cDispatched \in Seq(CP!Msg) /\ cReadMsgsList \in Seq(CP!Msg)
  BY SharedParts DEF LinkInv, PipeTypeOK, SP!PipeTypeOK, PipeStates, SP!PipeStates, End,
                     SP!End, OpStatus, SP!OpStatus, Msg, SP!Msg, CP!ClientInv, CP!TypeInv,
                     CP!TypeOK, CP!IpcTypeOK
<1>b. /\ data["client"] = <<>> /\ writeBuff["server"] = NoMsg /\ writeBuff["client"] = NoMsg
      /\ pipeState \notin {"connected", "serverClosed"}
  BY DEF WaysInv, CP!ClientOut, CP!ClientInside, SP!Settled, SP!ClientInside, SP!End,
         SP!NoMsg, NoMsg
<1>1. /\ readBuff'["client"] = NoMsg /\ readBuff'["server"] = readBuff["server"]
      /\ readOp'["client"] = "idle" /\ readOp'["server"] = readOp["server"]
      /\ writeOp'["client"] = "idle" /\ writeOp'["server"] = writeOp["server"]
  BY <1>a DEF PipeTypeOK
<1>2. SP!Settled'
  BY <1>1, <1>b DEF WaysInv, SP!Settled, SP!ClientInside, SP!End, SP!NoMsg, NoMsg
<1>3. SP!OwnBuffers' /\ CP!OwnBuffers' /\ CP!ClientOut'
  BY <1>1, <1>b DEF WaysInv, SP!OwnBuffers, CP!OwnBuffers, CP!ClientOut, CP!ClientInside,
                    serverVars, CP!NoMsg, NoMsg
<1>4. ToClientStep
  <2>. DEFINE way == CP!Way("client")
  <2>a. <<>> \o <<>> = <<>> /\ <<>> \in Seq(CP!Msg)
    BY CP!ConcatEmptySeq
  <2>1. way' = <<>>
    <3>1. way' = (<<>> \o <<>>) \o <<>>
      BY <1>1, <1>b, ChannelPartsNow
         DEF ChannelParts, CP!Way, CP!Peer, CP!Optional, CP!NoMsg, NoMsg
    <3>. QED BY <2>a, <3>1
  <2>2. way \in Seq(CP!Msg)
    BY <1>a, PipeTypeSame, CP!WayParts, LinkAssumption, QuotaAssumption DEF CP!End
  <2>3. CP!Shortened(way, <<>>)
    <3>1. CASE way = <<>>
      BY <3>1 DEF CP!Shortened
    <3>2. CASE way # <<>>
      <4>1. 0 \in 0 .. Len(way) - 1 /\ SubSeq(way, 1, 0) = <<>>
        BY <2>2, <3>2
      <4>. QED BY <4>1 DEF CP!Shortened
    <3>. QED BY <3>1, <3>2
  <2>4. CP!Listed' = CP!Listed
    <3>1. CP!Listed' = CP!Listed \o <<>> /\ CP!Listed \in Seq(CP!Msg)
      BY <1>a, CP!ConcatProperties DEF CP!Listed
    <3>. QED BY <3>1, CP!ConcatEmptySeq
  <2>5. CP!ReceiveStep
    BY <2>1, <2>3, <2>4 DEF CP!ReceiveStep
  <2>. QED BY <2>5, ClientReceives DEF SP!Queue, serverVars
<1>5. ToServerStep
  <2>1. CP!Queue' = <<>>
    <3>1. CP!Queue' = <<>> \o <<>>
      BY DEF CP!Queue, CP!Optional, CP!NoMsg, NoMsg
    <3>. QED BY <3>1, CP!ConcatEmptySeq
  <2>2. /\ SP!Way("server")' = SP!Way("server") /\ SP!Listed' = SP!Listed /\ cSent' = cSent
    BY <1>1 DEF SP!Way, SP!Peer, SP!Listed, serverVars
  <2>. QED BY <2>1, <2>2, ChannelPartsNow, ChannelPartsNext
           DEF ChannelParts, ToServerStep, ToServer!ChanNext, ToServer!chanVars,
               ToServer!Abandon
<1>. QED BY <1>2, <1>3, <1>4, <1>5 DEF WaysInv

LEMMA KillClientMoves ==
    ASSUME LinkInv, WaysInv, killClient
    PROVE  WaysInv' /\ ToClientStep /\ ToServerStep
<1>. USE LinkAssumption, QuotaAssumption
<1>a. CP!IpcTypeOK /\ CP!Settled /\ CP!OwnBuffers /\ "client" \in CP!End
  BY ChannelPartsNow DEF ChannelParts, LinkInv, WaysInv, CP!ClientInv, CP!TypeInv, CP!TypeOK, CP!End
<1>b. /\ cMainPc' = "returned" /\ cWorkerPc' = "exited"
      /\ UNCHANGED <<serverVars, cSent, cMsg, cWriteMsgsList, cDispatched, cReadMsgsList>>
  BY DEF killClient
<1>1. CASE CP!CloseHandle("client")
  <2>1. CP!BothWays
    BY <1>a, <1>b, <1>1, CP!CallsKeepWays
  <2>2. CP!ClientOut'
    BY <1>1 DEF CP!CloseHandle, CP!AfterClose, CP!ClientOut, CP!ClientInside
  <2>3. CP!OnlyCompletes("server")
    BY <1>a, <1>1, CP!CallsOnlyComplete DEF CP!End, CP!IpcTypeOK
  <2>. QED BY <1>b, <2>1, <2>2, <2>3, ClientMoves
<1>2. CASE UNCHANGED pipeVars /\ ~CP!CloseHandle("client")
  <2>1. CP!OwnBuffers'
    BY <1>a, <1>b, <1>2 DEF pipeVars, CP!OwnBuffers
  <2>2. CP!BothWays
    BY <1>a, <1>b, <1>2, <2>1, CP!WaysUntouched DEF pipeVars
  <2>3. CP!ClientOut'
    BY <1>2, CloseSame DEF killClient, pipeVars, WaysInv, CP!ClientOut, CP!ClientInside
  <2>4. CP!OnlyCompletes("server")
    BY <1>2 DEF pipeVars, CP!OnlyCompletes
  <2>. QED BY <1>b, <2>2, <2>3, <2>4, ClientMoves
<1>. QED BY <1>1, <1>2, CloseSame DEF killClient

LEMMA KillServerMoves ==
    ASSUME LinkInv, WaysInv, killServer
    PROVE  WaysInv' /\ ToClientStep /\ ToServerStep
<1>. USE LinkAssumption, QuotaAssumption
<1>a. /\ SP!IpcTypeOK /\ SP!Settled /\ SP!OwnBuffers /\ "server" \in SP!End
      /\ SP!CloseHandle("server")
  BY CloseSame DEF killServer, LinkInv, WaysInv, SP!ServerInv, SP!TypeInv, SP!TypeOK, SP!End
<1>b. /\ sMainPc' = "returned" /\ sWorkerPc' = "exited"
      /\ UNCHANGED <<clientVars, sSent, sMsg, sWriteMsgsList, sDispatched, sReadMsgsList>>
  BY DEF killServer
<1>1. SP!BothWays
  BY <1>a, <1>b, SP!CallsKeepWays
<1>2. SP!ClientInside' => SP!ClientInside
  BY <1>a DEF SP!CloseHandle, SP!AfterClose, SP!ClientInside
<1>3. SP!OnlyCompletes("client")
  BY <1>a, SP!CallsOnlyComplete DEF SP!End, SP!IpcTypeOK
<1>. QED BY <1>b, <1>1, <1>2, <1>3, ServerMoves

LEMMA StillMoves ==
    ASSUME WaysInv, UNCHANGED vars
    PROVE  SP!BothWays
<1>. USE LinkAssumption, QuotaAssumption
<1>1. /\ UNCHANGED <<sSent, sMsg, sWriteMsgsList, sDispatched, sReadMsgsList, pipeState,
                     data, readBuff, writeBuff>>
      /\ \A e \in SP!End : readOp'[e] = readOp[e] /\ writeOp'[e] = writeOp[e]
      /\ SP!Settled /\ "server" \in SP!End
  BY DEF WaysInv, vars, pipeVars, serverVars, SP!End
<1>2. SP!OwnBuffers'
  BY <1>1 DEF WaysInv, SP!OwnBuffers, vars, pipeVars, serverVars
<1>. QED BY <1>1, <1>2, SP!WaysUntouched

LEMMA NextMoves ==
    ASSUME LinkInv, WaysInv, [Next]_vars
    PROVE  WaysInv' /\ ToClientStep /\ ToServerStep
<1>. USE LinkAssumption, QuotaAssumption
<1>1. CASE ServerMain \/ ServerWorker
  <2>1. (SP!Main \/ SP!Worker) /\ UNCHANGED clientVars
    BY <1>1, ServerMainSame, ServerWorkerSame DEF ServerMain, ServerWorker
  <2>2. /\ SP!OnlyCompletes("client") /\ SP!BothWays
        /\ SP!ClientInside' => SP!ClientInside
    BY <2>1, SP!OwnStepsKeep, SP!OwnBothWays DEF LinkInv, WaysInv, SP!End
  <2>. QED BY <2>1, <2>2, ServerMoves
<1>2. CASE ClientMain \/ ClientWorker
  <2>1. (CP!Main \/ CP!Worker) /\ UNCHANGED serverVars
    BY <1>2, ClientMainSame, ClientWorkerSame DEF ClientMain, ClientWorker
  <2>2. CP!OnlyCompletes("server") /\ CP!BothWays /\ CP!ClientOut'
    BY <2>1, ChannelPartsNow, CP!OwnStepsKeep, CP!OwnBothWays, CP!OwnStepsKeepOut
       DEF ChannelParts, LinkInv, WaysInv, CP!End
  <2>. QED BY <2>1, <2>2, ClientMoves
<1>3. CASE UNCHANGED vars
  <2>1. UNCHANGED <<pipeVars, serverVars, clientVars>>
    BY <1>3 DEF vars
  <2>3. SP!BothWays
    BY <1>3, StillMoves
  <2>4. SP!OnlyCompletes("client") /\ (SP!ClientInside' => SP!ClientInside)
    BY <2>1 DEF pipeVars, SP!OnlyCompletes, SP!ClientInside
  <2>. QED BY <2>1, <2>3, <2>4, ServerMoves
<1>. QED BY <1>1, <1>2, <1>3, StartClientMoves, KillClientMoves, KillServerMoves DEF Next

LEMMA InitMoves == Init => WaysInv /\ ToClient!ChanInit /\ ToServer!ChanInit
<1>. SUFFICES ASSUME Init PROVE WaysInv /\ ToClient!ChanInit /\ ToServer!ChanInit
  OBVIOUS
<1>. USE DEF Init, PipeInit, S!IpcInit, C!IpcInit, End
<1>1. WaysInv
  BY DEF WaysInv, SP!Settled, SP!OwnBuffers, CP!OwnBuffers, CP!ClientOut, SP!ClientInside,
         CP!ClientInside, SP!End, NoMsg, SP!NoMsg, CP!NoMsg, S!NoMsg, C!NoMsg
<1>2. ToClient!ChanInit /\ ToServer!ChanInit
  <2>1. <<>> \o <<>> = <<>> /\ (<<>> \o <<>>) \o <<>> = <<>>
    BY SP!ConcatEmptySeq
  <2>2. S!Optional(NoMsg) = <<>> /\ C!Optional(NoMsg) = <<>>
    BY DEF S!Optional, C!Optional, NoMsg, S!NoMsg, C!NoMsg
  <2>. QED BY <2>1, <2>2 DEF ToClient!ChanInit, ToServer!ChanInit, NoMsg, S!NoMsg, C!NoMsg
<1>. QED BY <1>1, <1>2

\* What either application gives to sendMsg comes to the other's received list in order
\* and at most once, over all client processes and kills of either side: what a broken
\* connection loses is the last part of what was on its way.
THEOREM DirectionsSafe == Spec => DirectionsAreChannels
BY InitMoves, NextMoves, Invariance, PTL
   DEF Spec, DirectionsAreChannels, ToClientStep, ToServerStep, ToClient!ChanSpec,
       ToServer!ChanSpec

ToClientProofs == INSTANCE MessageChannel_proofs WITH
    sent <- sSent,
    queue <- S!Optional(sMsg) \o sWriteMsgsList,
    wire <- S!Optional(readBuff["client"]) \o data["client"]
                \o S!Optional(writeBuff["server"]),
    got <- cDispatched \o cReadMsgsList
ToServerProofs == INSTANCE MessageChannel_proofs WITH
    sent <- cSent,
    queue <- C!Optional(cMsg) \o cWriteMsgsList,
    wire <- C!Optional(readBuff["server"]) \o data["server"]
                \o C!Optional(writeBuff["client"]),
    got <- sDispatched \o sReadMsgsList

\* Both applications are handed the messages of the other in the order of the sendMsg
\* calls, each at most once, whatever connections and processes are lost on the way.
THEOREM DispatchedInOrder ==
    Spec => [](ToClient!InOrderAtMostOnce /\ ToServer!InOrderAtMostOnce)
<1>1. /\ ToClientProofs!ChanSpec => []ToClientProofs!InOrderAtMostOnce
      /\ ToServerProofs!ChanSpec => []ToServerProofs!InOrderAtMostOnce
  BY ToClientProofs!ChannelOrder, ToServerProofs!ChannelOrder
<1>2. /\ ToClient!ChanInit => ToClientProofs!ChanInit
      /\ ToServer!ChanInit => ToServerProofs!ChanInit
  BY DEF ToClient!ChanInit, ToClientProofs!ChanInit, ToServer!ChanInit,
         ToServerProofs!ChanInit
<1>3. [ToClient!ChanNext]_(ToClient!chanVars)
          => [ToClientProofs!ChanNext]_(ToClientProofs!chanVars)
  BY DEF ToClient!ChanNext, ToClient!chanVars, ToClient!Send, ToClient!Transmit,
         ToClient!Refuse, ToClient!Deliver, ToClient!Lose, ToClient!Abandon,
         ToClientProofs!ChanNext, ToClientProofs!chanVars, ToClientProofs!Send,
         ToClientProofs!Transmit, ToClientProofs!Refuse, ToClientProofs!Deliver,
         ToClientProofs!Lose, ToClientProofs!Abandon
<1>4. [ToServer!ChanNext]_(ToServer!chanVars)
          => [ToServerProofs!ChanNext]_(ToServerProofs!chanVars)
  BY DEF ToServer!ChanNext, ToServer!chanVars, ToServer!Send, ToServer!Transmit,
         ToServer!Refuse, ToServer!Deliver, ToServer!Lose, ToServer!Abandon,
         ToServerProofs!ChanNext, ToServerProofs!chanVars, ToServerProofs!Send,
         ToServerProofs!Transmit, ToServerProofs!Refuse, ToServerProofs!Deliver,
         ToServerProofs!Lose, ToServerProofs!Abandon
<1>5. /\ ToClientProofs!InOrderAtMostOnce => ToClient!InOrderAtMostOnce
      /\ ToServerProofs!InOrderAtMostOnce => ToServer!InOrderAtMostOnce
  BY DEF ToClient!InOrderAtMostOnce, ToClient!Increasing, ToServer!InOrderAtMostOnce,
         ToServer!Increasing, ToClientProofs!InOrderAtMostOnce, ToClientProofs!Increasing,
         ToServerProofs!InOrderAtMostOnce, ToServerProofs!Increasing
<1>. QED BY <1>1, <1>2, <1>3, <1>4, <1>5, DirectionsSafe, PTL
         DEF DirectionsAreChannels, ToClient!ChanSpec, ToServer!ChanSpec,
             ToClientProofs!ChanSpec, ToServerProofs!ChanSpec
=============================================================================
