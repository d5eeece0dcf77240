--------------------- MODULE NamedPipeIpcServer_proofs ----------------------
(***************************************************************************)
(* Proofs about the server side of namedpipeipc, for every quota and every *)
(* bound.                                                                  *)
(***************************************************************************)
EXTENDS NamedPipeIpcServer, NamedPipeIpc_proofs

\* Where a buffer is about to be used as a message, it holds one, and the
\* worker pops only from a non-empty list.
BuffersFull ==
    /\ readOp["server"] = "success" => readBuff["server"] \in Msg
    /\ workerPc = "readData" => readBuff["server"] \in Msg
    /\ writeOp["server"] = "pending" => writeBuff["server"] \in Msg
    /\ workerPc = "pop" => writeMsgsList # <<>>
    /\ workerPc = "write" => msg \in Msg
    /\ writeOp["client"] = "pending" => writeBuff["client"] \in Msg

TypeInv == TypeOK /\ BuffersFull

\* The places where the worker has consumed an event and not yet issued the
\* next call of that kind, and what that says of the other operations.
OneCallOfAKind ==
    /\ workerPc \in {"start", "connectEvent", "readData", "rearm", "readError",
                     "reconnect"}
           => readOp["server"] = "idle" /\ connectOp = "idle"
    /\ connectOp # "idle" => readOp["server"] = "idle"
    /\ writeOp["server"] # "idle"
           => bWritting /\ workerPc \notin {"writeDone", "writeError"}
    /\ workerPc \in {"pop", "write"} => ~bWritting

\* While the server has its pipe, a read is outstanding only when there is
\* nothing to read from a connected client, and fails only when that client
\* has closed.
ReadState ==
    /\ workerPc # "exited" => ServerHandleOpen
    /\ readOp["server"] = "pending"
           => pipeState = "connected" /\ data["server"] = <<>>
    /\ readOp["server"] = "error" /\ ServerHandleOpen
           => pipeState = "clientClosed" /\ data["server"] = <<>>
    /\ workerPc = "readError"
           => pipeState = "clientClosed" /\ data["server"] = <<>>
    /\ readOp["server"] \in {"pending", "error"} => readBuff["server"] = NoMsg
    /\ workerPc \in {"start", "connectEvent", "rearm", "readError", "reconnect"}
           => readBuff["server"] = NoMsg
    /\ connectOp # "idle" => readBuff["server"] = NoMsg

-----------------------------------------------------------------------------
\* Its call on the pipe keeps the types.
LEMMA ConnectType ==
    ASSUME PipeTypeOK, ConnectToNewClient
    PROVE  PipeTypeOK'
BY DEF PipeTypeOK, ConnectToNewClient, ConnectResult, StartListening, PipeStates,
       OpStatus

-----------------------------------------------------------------------------
(***************************************************************************)
(* Types.                                                                  *)
(***************************************************************************)
LEMMA InitTypeInv == Init => TypeInv
<1>. SUFFICES ASSUME Init PROVE TypeInv
  OBVIOUS
<1>1. PipeTypeOK
  <2>1. [e \in End |-> <<>>] \in [End -> Seq(Msg)]
    OBVIOUS
  <2>. QED BY <2>1 DEF Init, PipeInit, PipeTypeOK, PipeStates, OpStatus, NoMsg
<1>2. IpcTypeOK
  BY <1>1, <<>> \in Seq(Msg) DEF Init, IpcInit, IpcTypeOK, MainPc, WorkerPc, NoMsg
<1>3. TypeOK
  BY <1>2, <<>> \in Seq(Msg) DEF Init, TypeOK
<1>4. BuffersFull
  BY DEF Init, PipeInit, IpcInit, BuffersFull, End
<1>. QED BY <1>3, <1>4 DEF TypeInv

LEMMA MainTypeInv ==
    ASSUME TypeInv, Main
    PROVE  TypeInv'
<1>. USE DEF TypeInv, TypeOK, IpcTypeOK, BuffersFull
<1>0. UNCHANGED <<m_serverConected, got, clientSent, connects>>
  BY DEF Main, clientVars
<1>1. CASE sendMsgPush
  <2>1. sent + 1 \in Msg
    BY DEF Msg
  <2>2. Append(writeMsgsList, sent + 1) \in Seq(Msg) /\ Append(writeMsgsList, sent + 1) # <<>>
    BY <2>1, AppendType
  <2>3. PipeTypeOK'
    BY <1>1, PipeUnchanged DEF sendMsgPush
  <2>4. IpcTypeOK'
    BY <1>1, <2>2, <2>3 DEF sendMsgPush, workerVars, MainPc
  <2>5. BuffersFull'
    BY <1>1, <2>2 DEF sendMsgPush, workerVars, pipeVars
  <2>. QED BY <1>0, <2>4, <2>5
<1>2. CASE sendMsgSignal
  <2>1. PipeTypeOK'
    BY <1>2, PipeUnchanged DEF sendMsgSignal
  <2>. QED BY <1>0, <1>2, <2>1 DEF sendMsgSignal, workerVars, pipeVars, MainPc
<1>3. CASE getMsgs
  <2>1. PipeTypeOK'
    BY <1>3, PipeUnchanged DEF getMsgs
  <2>2. dispatched \o readMsgsList \in Seq(Msg)
    BY ConcatProperties
  <2>. QED BY <1>0, <1>3, <2>1, <2>2 DEF getMsgs, queueVars, workerVars, pipeVars, MainPc
<1>4. CASE close
  <2>1. PipeTypeOK'
    BY <1>4, PipeUnchanged DEF close
  <2>. QED BY <1>0, <1>4, <2>1 DEF close, queueVars, workerVars, pipeVars, MainPc
<1>5. CASE ReturnFromMain
  <2>1. PipeTypeOK'
    BY <1>5, CloseHandleType, ServerAssumption DEF ReturnFromMain, End
  <2>2. IpcTypeOK'
    BY <1>5, <2>1 DEF ReturnFromMain, queueVars, MainPc, WorkerPc
  <2>3. BuffersFull'
    BY <1>5 DEF ReturnFromMain, CloseHandle, Break, PipeTypeOK, OpStatus, End
  <2>. QED BY <1>0, <2>2, <2>3
<1>. QED BY <1>1, <1>2, <1>3, <1>4, <1>5 DEF Main, IpcMain, closeJoined, closeTimedOut

LEMMA IpcWorkerTypeInv ==
    ASSUME TypeInv, OneCallOfAKind, IpcWorker \/ waitConnect,
           UNCHANGED <<m_serverConected, clientVars>>
    PROVE  TypeInv'
<1>. USE ServerAssumption DEF TypeInv, TypeOK, IpcTypeOK, BuffersFull
<1>a. "server" \in End /\ "client" \in End
  BY DEF End
<1>b. UNCHANGED <<m_serverConected, got, clientSent, connects>>
  BY DEF clientVars
<1>1. CASE waitConnect
  <2>1. PipeTypeOK'
    BY <1>1 DEF waitConnect, WaitReturns, PipeTypeOK, OpStatus
  <2>. QED BY <1>1, <1>b, <2>1 DEF waitConnect, WaitReturns, mainVars, WorkerPc
<1>2. CASE waitRead
  <2>1. PipeTypeOK'
    BY <1>2, <1>a DEF waitRead, WaitReturns, PipeTypeOK, OpStatus
  <2>2. IpcTypeOK'
    BY <1>2, <2>1 DEF waitRead, WaitReturns, mainVars, WorkerPc, ReadHandler
  <2>3. BuffersFull'
    BY <1>2, <1>a DEF waitRead, WaitReturns, ReadHandler, PipeTypeOK, OpStatus
  <2>. QED BY <1>b, <2>2, <2>3
<1>3. CASE waitWrite
  <2>1. PipeTypeOK'
    BY <1>3, <1>a DEF waitWrite, WaitReturns, PipeTypeOK, OpStatus
  <2>2. IpcTypeOK'
    BY <1>3, <2>1 DEF waitWrite, WaitReturns, mainVars, WorkerPc, WriteHandler
  <2>3. BuffersFull'
    BY <1>3, <1>a DEF waitWrite, WaitReturns, WriteHandler, PipeTypeOK, OpStatus
  <2>. QED BY <1>b, <2>2, <2>3
<1>4. CASE waitStop
  <2>1. PipeTypeOK'
    BY <1>4 DEF waitStop, WaitReturns, PipeTypeOK
  <2>. QED BY <1>4, <1>b, <2>1 DEF waitStop, WaitReturns, mainVars, WorkerPc
<1>5. CASE waitNotEmpty
  <2>1. PipeTypeOK'
    BY <1>5 DEF waitNotEmpty, WaitReturns, PipeTypeOK
  <2>. QED BY <1>5, <1>b, <2>1 DEF waitNotEmpty, WaitReturns, mainVars, WorkerPc
<1>6. CASE handleReadData
  <2>1. PipeTypeOK'
    BY <1>6, <1>a DEF handleReadData, PipeTypeOK, NoMsg
  <2>2. Append(readMsgsList, readBuff["server"]) \in Seq(Msg)
    BY <1>6, AppendType DEF handleReadData
  <2>3. IpcTypeOK'
    BY <1>6, <2>1, <2>2 DEF handleReadData, mainVars, queueVars, WorkerPc
  <2>4. BuffersFull'
    BY <1>6 DEF handleReadData, queueVars, OneCallOfAKind
  <2>. QED BY <1>b, <2>3, <2>4
<1>7. CASE rearmRead
  <2>1. PipeTypeOK' /\ (readOp'["server"] = "success" => readBuff'["server"] \in Msg)
    BY <1>7, <1>a, ReadFileType DEF rearmRead, Peer
  <2>2. IpcTypeOK'
    BY <1>7, <2>1 DEF rearmRead, mainVars, queueVars, WorkerPc
  <2>3. /\ writeOp'["server"] = writeOp["server"] /\ writeBuff'["server"] = writeBuff["server"]
        /\ writeOp'["client"] = "pending" => writeBuff'["client"] \in Msg
    BY <1>7, <1>a, ReadFileTouches DEF rearmRead, Peer
  <2>. QED BY <1>7, <1>b, <2>1, <2>2, <2>3 DEF rearmRead
<1>8. CASE handleWriteDone
  <2>1. PipeTypeOK'
    BY <1>8, PipeUnchanged DEF handleWriteDone
  <2>. QED BY <1>8, <1>b, <2>1 DEF handleWriteDone, NextWritePc, pipeVars,
                                   mainVars, queueVars, WorkerPc
<1>9. CASE handleWriteError
  <2>1. PipeTypeOK'
    BY <1>9, <1>a, CloseHandleType DEF handleWriteError
  <2>2. IpcTypeOK'
    BY <1>9, <2>1 DEF handleWriteError, mainVars, queueVars, WorkerPc
  <2>3. BuffersFull'
    BY <1>9, <1>a DEF handleWriteError, CloseHandle, Break, PipeTypeOK, OpStatus
  <2>. QED BY <1>b, <2>2, <2>3
<1>10. CASE handleNotEmptyEvent
  <2>1. PipeTypeOK'
    BY <1>10, PipeUnchanged DEF handleNotEmptyEvent
  <2>. QED BY <1>10, <1>b, <2>1 DEF handleNotEmptyEvent, NextWritePc, pipeVars,
                                    mainVars, queueVars, WorkerPc
<1>11. CASE popMsg
  <2>1. PipeTypeOK'
    BY <1>11, PipeUnchanged DEF popMsg
  <2>2. Head(writeMsgsList) \in Msg /\ Tail(writeMsgsList) \in Seq(Msg)
    BY <1>11, HeadTailProperties DEF popMsg
  <2>3. IpcTypeOK'
    BY <1>11, <2>1, <2>2 DEF popMsg, mainVars, WorkerPc, Msg
  <2>4. BuffersFull'
    BY <1>11, <2>2 DEF popMsg, pipeVars
  <2>. QED BY <1>b, <2>3, <2>4
<1>12. CASE startWrite
  <2>1. msg \in Msg /\ WriteFile("server", msg)
    BY <1>12 DEF startWrite
  <2>2. PipeTypeOK'
    BY <1>a, <2>1, WriteFileType
  <2>3. IpcTypeOK'
    BY <1>12, <2>2 DEF startWrite, mainVars, queueVars, WorkerPc, NoMsg
  <2>4. /\ writeOp'["client"] = writeOp["client"] /\ writeBuff'["client"] = writeBuff["client"]
        /\ writeOp'["server"] = "pending" => writeBuff'["server"] \in Msg
        /\ readOp'["server"] = readOp["server"] /\ readBuff'["server"] = readBuff["server"]
    BY <2>1, <1>a, WriteFileTouches DEF Peer
  <2>. QED BY <1>12, <1>b, <2>3, <2>4 DEF startWrite
<1>. QED BY <1>1, <1>2, <1>3, <1>4, <1>5, <1>6, <1>7, <1>8, <1>9, <1>10,
            <1>11, <1>12 DEF IpcWorker

LEMMA ServerWorkerTypeInv ==
    ASSUME TypeInv, OneCallOfAKind,
           startWorker \/ handleConnectEvent \/ handleReadError \/ reconnect
    PROVE  TypeInv'
<1>. USE ServerAssumption DEF TypeInv, TypeOK, IpcTypeOK, BuffersFull
<1>a. "server" \in End /\ "client" \in End
  BY DEF End
<1>1. ASSUME ConnectToNewClient PROVE UNCHANGED <<readOp, writeOp, readBuff, writeBuff>>
  BY <1>1 DEF ConnectToNewClient, StartListening
<1>2. CASE startWorker
  <2>1. PipeTypeOK'
    BY <1>2, ConnectType DEF startWorker
  <2>. QED BY <1>1, <1>2, <2>1 DEF startWorker, mainVars, queueVars, clientVars, WorkerPc
<1>3. CASE handleConnectEvent
  <2>1. PipeTypeOK' /\ (readOp'["server"] = "success" => readBuff'["server"] \in Msg)
    BY <1>3, <1>a, ReadFileType DEF handleConnectEvent, Peer
  <2>2. IpcTypeOK'
    BY <1>3, <2>1 DEF handleConnectEvent, mainVars, queueVars, WorkerPc
  <2>3. /\ writeOp'["server"] = writeOp["server"] /\ writeBuff'["server"] = writeBuff["server"]
        /\ writeOp'["client"] = "pending" => writeBuff'["client"] \in Msg
    BY <1>3, <1>a, ReadFileTouches DEF handleConnectEvent, Peer
  <2>. QED BY <1>3, <2>1, <2>2, <2>3 DEF handleConnectEvent, clientVars
<1>4. CASE handleReadError
  <2>1. PipeTypeOK'
    BY <1>4, DisconnectType DEF handleReadError
  <2>2. IpcTypeOK'
    BY <1>4, <2>1 DEF handleReadError, mainVars, queueVars, WorkerPc
  <2>3. BuffersFull'
    BY <1>4, <1>a DEF handleReadError, DisconnectNamedPipe, Break, OneCallOfAKind
  <2>. QED BY <1>4, <2>2, <2>3 DEF handleReadError, clientVars
<1>5. CASE reconnect
  <2>1. PipeTypeOK'
    BY <1>5, ConnectType DEF reconnect
  <2>. QED BY <1>1, <1>5, <2>1 DEF reconnect, mainVars, queueVars, clientVars, WorkerPc
<1>. QED BY <1>2, <1>3, <1>4, <1>5

LEMMA ClientTypeInv ==
    ASSUME TypeInv, Client
    PROVE  TypeInv'
<1>. USE ServerAssumption DEF TypeInv, TypeOK, IpcTypeOK, BuffersFull
<1>. USE DEF ipcVars, mainVars, queueVars, workerVars, clientVars
<1>a. "server" \in End /\ "client" \in End
  BY DEF End
<1>1. CASE clientOpen
  <2>1. PipeTypeOK'
    BY <1>1 DEF clientOpen, OpenClient, PipeTypeOK, PipeStates, OpStatus
  <2>. QED BY <1>1, <2>1 DEF clientOpen, OpenClient
<1>2. CASE clientWrite
  <2>1. clientSent + 1 \in Msg /\ PutMsg("client", clientSent + 1)
    BY <1>2 DEF clientWrite, Msg
  <2>2. PipeTypeOK'
    BY <1>2, <1>a, <2>1, PutMsgType DEF clientWrite, PipeTypeOK
  <2>3. readOp'["server"] = "success" => readBuff'["server"] \in Msg
    BY <1>a, <2>1 DEF PutMsg, Peer, PipeTypeOK
  <2>4. readBuff["server"] \in Msg => readBuff'["server"] \in Msg
    BY <1>a, <2>1 DEF PutMsg, Peer, PipeTypeOK
  <2>. QED BY <1>2, <2>2, <2>3, <2>4 DEF clientWrite
<1>3. CASE clientRead
  <2>1. Head(data["client"]) \in Msg /\ Append(got, Head(data["client"])) \in Seq(Msg)
    BY <1>3, <1>a, HeadTailProperties, AppendType DEF clientRead, PipeTypeOK
  <2>2. PipeTypeOK'
    BY <1>3, <1>a, TakeMsgType DEF clientRead, PipeTypeOK, Peer
  <2>3. writeOp'["client"] = writeOp["client"] /\ writeBuff'["client"] = writeBuff["client"]
    BY <1>3, <1>a DEF clientRead, TakeMsg, Peer, PipeTypeOK
  <2>4. writeOp'["server"] # "pending"
    BY <1>3, <1>a DEF clientRead, TakeMsg, Peer, PipeTypeOK
  <2>. QED BY <1>3, <2>1, <2>2, <2>3, <2>4 DEF clientRead
<1>4. CASE clientClose
  <2>1. PipeTypeOK'
    BY <1>4, <1>a, CloseHandleType DEF clientClose
  <2>2. BuffersFull'
    BY <1>4, <1>a DEF clientClose, CloseHandle, Break
  <2>. QED BY <1>4, <2>1, <2>2 DEF clientClose
<1>. QED BY <1>1, <1>2, <1>3, <1>4 DEF Client

-----------------------------------------------------------------------------
(***************************************************************************)
(* One call of a kind.                                                     *)
(***************************************************************************)
LEMMA InitOneCall == Init => OneCallOfAKind
BY DEF Init, PipeInit, IpcInit, OneCallOfAKind, End

\* What the rest of the system does completes operations and starts none.
LEMMA OthersStartNoCall ==
    ASSUME TypeOK, OneCallOfAKind, Main \/ Client
    PROVE  OneCallOfAKind'
<1>. USE ServerAssumption
<1>a. "server" \in End /\ "client" \in End
  BY DEF End
<1>b. PipeTypeOK
  BY DEF TypeOK, IpcTypeOK
<1>1. /\ connectOp' = "idle" <=> connectOp = "idle"
      /\ readOp'["server"] = "idle" <=> readOp["server"] = "idle"
      /\ writeOp'["server"] = "idle" <=> writeOp["server"] = "idle"
  <2>1. CASE ReturnFromMain \/ clientClose
    BY <2>1, <1>a DEF ReturnFromMain, clientClose, CloseHandle, Break
  <2>2. CASE sendMsgPush \/ sendMsgSignal \/ getMsgs \/ close
    BY <2>2 DEF sendMsgPush, sendMsgSignal, getMsgs, close, pipeVars
  <2>3. CASE clientOpen
    BY <2>3 DEF clientOpen, OpenClient
  <2>4. CASE clientWrite
    BY <2>4, <1>a, <1>b DEF clientWrite, PutMsg, Peer, PipeTypeOK
  <2>5. CASE clientRead
    BY <2>5, <1>a, <1>b DEF clientRead, TakeMsg, Peer, PipeTypeOK
  <2>. QED BY <2>1, <2>2, <2>3, <2>4, <2>5
              DEF Main, IpcMain, closeJoined, closeTimedOut, Client
<1>2. bWritting' = bWritting /\ workerPc' \in {workerPc, "exited"}
  BY DEF Main, IpcMain, closeJoined, closeTimedOut, ReturnFromMain, Client,
         sendMsgPush, sendMsgSignal, getMsgs, close, workerVars, ipcVars,
         clientOpen, clientWrite, clientRead, clientClose
<1>. QED BY <1>1, <1>2 DEF OneCallOfAKind

LEMMA WorkerOneCall ==
    ASSUME TypeOK, OneCallOfAKind, Worker
    PROVE  OneCallOfAKind'
<1>. USE ServerAssumption DEF OneCallOfAKind
<1>a. "server" \in End /\ "client" \in End
  BY DEF End
<1>b. PipeTypeOK
  BY DEF TypeOK, IpcTypeOK
<1>1. CASE waitConnect \/ waitStop \/ waitNotEmpty
  BY <1>1 DEF waitConnect, waitStop, waitNotEmpty, WaitReturns, EventSet, Signaled
<1>2. CASE waitRead
  BY <1>2, <1>a, <1>b DEF waitRead, WaitReturns, EventSet, Signaled, ReadHandler, PipeTypeOK
<1>3. CASE waitWrite
  BY <1>3, <1>a, <1>b DEF waitWrite, WaitReturns, EventSet, Signaled, WriteHandler, PipeTypeOK
<1>4. CASE handleReadData
  BY <1>4 DEF handleReadData
<1>5. ASSUME ReadFile("server") PROVE UNCHANGED <<connectOp, writeOp["server"]>>
  BY <1>5, <1>a, <1>b DEF ReadFile, TakeMsg, Peer, PipeTypeOK
<1>6. CASE rearmRead \/ handleConnectEvent
  BY <1>5, <1>6 DEF rearmRead, handleConnectEvent
<1>7. CASE handleWriteDone
  BY <1>7 DEF handleWriteDone, NextWritePc, pipeVars
<1>8. CASE handleWriteError
  BY <1>8, <1>a DEF handleWriteError, CloseHandle, Break
<1>9. CASE handleNotEmptyEvent
  BY <1>9 DEF handleNotEmptyEvent, NextWritePc, pipeVars
<1>10. CASE popMsg
  BY <1>10 DEF popMsg, pipeVars
<1>11. CASE startWrite
  <2>1. (readOp'["server"] = "idle" <=> readOp["server"] = "idle") /\ connectOp' = connectOp
    BY <1>11, <1>a, <1>b DEF startWrite, WriteFile, PutMsg, Peer, PipeTypeOK
  <2>. QED BY <1>11, <2>1 DEF startWrite
<1>12. CASE startWorker \/ reconnect
  <2>1. readOp' = readOp /\ writeOp' = writeOp
    BY <1>12 DEF startWorker, reconnect, ConnectToNewClient, StartListening
  <2>. QED BY <1>12, <2>1 DEF startWorker, reconnect
<1>13. CASE handleReadError
  BY <1>13, <1>a DEF handleReadError, DisconnectNamedPipe, Break
<1>. QED BY <1>1, <1>2, <1>3, <1>4, <1>6, <1>7, <1>8, <1>9, <1>10, <1>11,
            <1>12, <1>13 DEF Worker, IpcWorker

-----------------------------------------------------------------------------
(***************************************************************************)
(* The first theorems.                                                     *)
(***************************************************************************)
LEMMA Invariance == Spec => [](TypeInv /\ OneCallOfAKind)
<1>1. Init => TypeInv /\ OneCallOfAKind
  BY InitTypeInv, InitOneCall
<1>2. TypeInv /\ OneCallOfAKind /\ [Next]_vars => (TypeInv /\ OneCallOfAKind)'
  <2>. SUFFICES ASSUME TypeInv, OneCallOfAKind, [Next]_vars
                PROVE  TypeInv' /\ OneCallOfAKind'
    OBVIOUS
  <2>. TypeOK
    BY DEF TypeInv
  <2>1. CASE Main \/ Client
    BY <2>1, MainTypeInv, ClientTypeInv, OthersStartNoCall
  <2>2. CASE Worker
    BY <2>2, IpcWorkerTypeInv, ServerWorkerTypeInv, WorkerOneCall DEF Worker
  <2>3. CASE UNCHANGED vars
    <3>. UNCHANGED <<pipeVars, ipcVars, m_serverConected, clientVars>>
      BY <2>3 DEF vars
    <3>1. PipeTypeOK'
      BY PipeUnchanged DEF TypeOK, IpcTypeOK
    <3>. QED BY <3>1 DEF TypeInv, TypeOK, IpcTypeOK, BuffersFull, OneCallOfAKind,
                 pipeVars, ipcVars, mainVars, queueVars, workerVars, clientVars
  <2>. QED BY <2>1, <2>2, <2>3 DEF Next
<1>. QED BY <1>1, <1>2, PTL DEF Spec

\* Every variable keeps its type: in particular no list ever holds an empty or
\* an already cleared buffer as a message.
THEOREM TypeCorrect == Spec => []TypeOK
<1>1. TypeInv /\ OneCallOfAKind => TypeOK
  BY DEF TypeInv
<1>. QED BY <1>1, Invariance, PTL

\* No OVERLAPPED and no buffer is used again before its last call completed
\* and the completion was consumed.
THEOREM OverlappedSafe == Spec => []NoOverlappedReuse
<1>1. TypeInv /\ OneCallOfAKind => NoOverlappedReuse
  BY DEF OneCallOfAKind, NoOverlappedReuse
<1>. QED BY <1>1, Invariance, PTL

-----------------------------------------------------------------------------
(***************************************************************************)
(* No wakeup is lost.                                                      *)
(***************************************************************************)
LEMMA InitSomebodyLooks == Init => SomebodyLooks
BY DEF Init, IpcInit, SomebodyLooks

LEMMA WorkerSomebodyLooks ==
    ASSUME SomebodyLooks, Worker
    PROVE  SomebodyLooks'
<1>. USE DEF SomebodyLooks, mainVars, queueVars
<1>1. CASE waitConnect
  BY <1>1 DEF waitConnect, WaitReturns
<1>2. CASE startWorker \/ handleConnectEvent \/ handleReadError \/ reconnect
  BY <1>2 DEF startWorker, handleConnectEvent, handleReadError, reconnect
<1>. QED BY <1>1, <1>2, IpcWorkerSomebodyLooks DEF Worker

\* A worker that sleeps with a message queued is always about to be woken:
\* the size()==1 test of sendMsg, the auto-reset event and the flag bWritting
\* lose no wakeup in any interleaving of the two threads.
THEOREM WakeupSafe == Spec => []NoLostWakeup
<1>1. TypeOK /\ SomebodyLooks /\ [Next]_vars => SomebodyLooks'
  <2>. SUFFICES ASSUME TypeOK, SomebodyLooks, [Next]_vars
                PROVE  SomebodyLooks'
    OBVIOUS
  <2>1. CASE Main
    BY <2>1, IpcMainSomebodyLooks DEF Main, TypeOK
  <2>2. CASE Worker
    BY <2>2, WorkerSomebodyLooks
  <2>3. CASE Client \/ UNCHANGED vars
    <3>1. UNCHANGED ipcVars
      BY <2>3 DEF Client, clientOpen, clientWrite, clientRead, clientClose, vars
    <3>. QED BY <3>1 DEF ipcVars, mainVars, queueVars, workerVars, SomebodyLooks
  <2>. QED BY <2>1, <2>2, <2>3 DEF Next
<1>2. SomebodyLooks => NoLostWakeup
  BY DEF SomebodyLooks, NoLostWakeup
<1>. QED BY <1>1, <1>2, InitSomebodyLooks, TypeCorrect, PTL DEF Spec

-----------------------------------------------------------------------------
(***************************************************************************)
(* What an outstanding or failed read says of the pipe.                    *)
(***************************************************************************)
LEMMA InitReadState == Init => ReadState
BY DEF Init, PipeInit, IpcInit, ReadState, ServerHandleOpen, End

LEMMA MainReadState ==
    ASSUME TypeOK, ReadState, Main
    PROVE  ReadState'
<1>. USE ServerAssumption DEF ReadState, ServerHandleOpen
<1>a. "server" \in End /\ "client" \in End /\ PipeTypeOK
  BY DEF End, TypeOK, IpcTypeOK
<1>1. CASE sendMsgPush \/ sendMsgSignal \/ getMsgs \/ close
  BY <1>1 DEF sendMsgPush, sendMsgSignal, getMsgs, close, pipeVars, workerVars
<1>2. CASE ReturnFromMain
  <2>1. pipeState' \in {"serverClosed", "gone"}
    BY <1>2 DEF ReturnFromMain, CloseHandle, AfterClose
  <2>2. readOp'["server"] # "pending" /\ connectOp' # "pending" /\ readBuff' = readBuff
    BY <1>2, <1>a DEF ReturnFromMain, CloseHandle, Break
  <2>3. readOp'["server"] = "error" => readOp["server"] \in {"pending", "error"}
    BY <1>2, <1>a DEF ReturnFromMain, CloseHandle, Break
  <2>4. connectOp' # "idle" => connectOp # "idle"
    BY <1>2 DEF ReturnFromMain, CloseHandle, Break
  <2>. QED BY <1>2, <2>1, <2>2, <2>3, <2>4 DEF ReturnFromMain
<1>. QED BY <1>1, <1>2 DEF Main, IpcMain, closeJoined, closeTimedOut

LEMMA ClientReadState ==
    ASSUME TypeOK, OneCallOfAKind, ReadState, Client
    PROVE  ReadState'
<1>. USE ServerAssumption DEF ReadState, ServerHandleOpen, ipcVars, workerVars
<1>a. "server" \in End /\ "client" \in End /\ PipeTypeOK
  BY DEF End, TypeOK, IpcTypeOK
<1>1. CASE clientOpen
  BY <1>1 DEF clientOpen, OpenClient
<1>2. CASE clientWrite
  BY <1>2, <1>a DEF clientWrite, PutMsg, Peer, PipeTypeOK, OneCallOfAKind
<1>3. CASE clientRead
  BY <1>3, <1>a DEF clientRead, TakeMsg, Peer, PipeTypeOK
<1>4. CASE clientClose
  <2>1. /\ pipeState = "connected" => pipeState' = "clientClosed"
        /\ pipeState # "connected" => pipeState' = "gone" /\ ~ServerHandleOpen
    BY <1>4 DEF clientClose, CloseHandle, AfterClose
  <2>2. data'["server"] = data["server"] /\ readBuff' = readBuff /\ connectOp' = connectOp
    BY <1>4, <1>a DEF clientClose, CloseHandle, PipeTypeOK
  <2>3. /\ readOp'["server"] # "pending"
        /\ readOp'["server"] = "error" => readOp["server"] \in {"pending", "error"}
    BY <1>4, <1>a DEF clientClose, CloseHandle, Break
  <2>. QED BY <1>4, <2>1, <2>2, <2>3 DEF clientClose
<1>. QED BY <1>1, <1>2, <1>3, <1>4 DEF Client

LEMMA WorkerReadState ==
    ASSUME TypeOK, OneCallOfAKind, ReadState, Worker
    PROVE  ReadState'
<1>. USE ServerAssumption DEF ReadState, ServerHandleOpen
<1>a. "server" \in End /\ "client" \in End /\ PipeTypeOK
  BY DEF End, TypeOK, IpcTypeOK
<1>1. CASE waitConnect \/ waitStop \/ waitNotEmpty
  BY <1>1 DEF waitConnect, waitStop, waitNotEmpty, WaitReturns, EventSet, Signaled
<1>2. CASE waitRead
  BY <1>2, <1>a
  DEF waitRead, WaitReturns, EventSet, Signaled, ReadHandler, PipeTypeOK, OneCallOfAKind
<1>3. CASE waitWrite
  BY <1>3, <1>a DEF waitWrite, WaitReturns, WriteHandler
<1>4. CASE handleReadData
  BY <1>4, <1>a DEF handleReadData, OneCallOfAKind, PipeTypeOK, NoMsg
<1>5. ASSUME ReadFile("server"), workerPc \in {"rearm", "connectEvent"}
      PROVE  /\ pipeState' = pipeState /\ connectOp' = connectOp
             /\ readOp'["server"] # "error"
             /\ readOp'["server"] = "pending" =>
                    /\ pipeState' = "connected" /\ data'["server"] = <<>>
                    /\ readBuff'["server"] = NoMsg
  BY <1>5, <1>a DEF ReadFile, PipeTypeOK
<1>6. CASE rearmRead \/ handleConnectEvent
  BY <1>5, <1>6, <1>a DEF rearmRead, handleConnectEvent, OneCallOfAKind
<1>7. CASE handleWriteDone \/ handleNotEmptyEvent \/ popMsg
  BY <1>7 DEF handleWriteDone, handleNotEmptyEvent, popMsg, NextWritePc, pipeVars
<1>8. CASE handleWriteError
  <2>1. pipeState' \in {"serverClosed", "gone"}
    BY <1>8 DEF handleWriteError, CloseHandle, AfterClose
  <2>2. readOp'["server"] # "pending" /\ readBuff' = readBuff
    BY <1>8, <1>a DEF handleWriteError, CloseHandle, Break
  <2>3. readOp'["server"] = "error" => readOp["server"] \in {"pending", "error"}
    BY <1>8, <1>a DEF handleWriteError, CloseHandle, Break
  <2>4. connectOp' # "idle" => connectOp # "idle"
    BY <1>8 DEF handleWriteError, CloseHandle, Break
  <2>. QED BY <1>8, <2>1, <2>2, <2>3, <2>4 DEF handleWriteError
<1>9. CASE startWrite
  <2>1. /\ data'["server"] = data["server"] /\ readOp'["server"] = readOp["server"]
        /\ readBuff'["server"] = readBuff["server"]
        /\ pipeState' = pipeState /\ connectOp' = connectOp
    BY <1>9, <1>a DEF startWrite, WriteFile, PutMsg, Peer, PipeTypeOK
  <2>. QED BY <1>9, <2>1 DEF startWrite
<1>10. CASE startWorker \/ reconnect
  <2>1. readOp' = readOp /\ data' = data /\ readBuff' = readBuff
    BY <1>10 DEF startWorker, reconnect, ConnectToNewClient, StartListening
  <2>2. ServerHandleOpen'
    BY <1>10 DEF startWorker, reconnect, ConnectToNewClient, StartListening
  <2>. QED BY <1>10, <2>1, <2>2 DEF startWorker, reconnect, OneCallOfAKind
<1>11. CASE handleReadError
  <2>1. readOp'["server"] = "idle" /\ connectOp' = "idle"
    BY <1>11, <1>a DEF handleReadError, DisconnectNamedPipe, Break, OneCallOfAKind
  <2>. QED BY <1>11, <2>1 DEF handleReadError, DisconnectNamedPipe
<1>. QED BY <1>1, <1>2, <1>3, <1>4, <1>6, <1>7, <1>8, <1>9, <1>10, <1>11
         DEF Worker, IpcWorker

LEMMA ReadStateInvariant == Spec => []ReadState
<1>1. TypeInv /\ OneCallOfAKind /\ ReadState /\ [Next]_vars => ReadState'
  <2>. SUFFICES ASSUME TypeInv, OneCallOfAKind, ReadState, [Next]_vars
                PROVE  ReadState'
    OBVIOUS
  <2>1. CASE Main \/ Client
    BY <2>1, MainReadState, ClientReadState DEF TypeInv
  <2>2. CASE Worker
    BY <2>2, WorkerReadState DEF TypeInv
  <2>3. CASE UNCHANGED vars
    BY <2>3 DEF vars, pipeVars, ipcVars, workerVars, ReadState, ServerHandleOpen
  <2>. QED BY <2>1, <2>2, <2>3 DEF Next
<1>. QED BY <1>1, InitReadState, Invariance, PTL DEF Spec

\* The worker calls DisconnectNamedPipe, which discards what is unread, only
\* on a client that has closed and left nothing to read.
THEOREM DisconnectSafe == Spec => []DisconnectsOnlyTheGone
<1>1. ReadState => DisconnectsOnlyTheGone
  BY DEF ReadState, DisconnectsOnlyTheGone
<1>. QED BY <1>1, ReadStateInvariant, PTL

-----------------------------------------------------------------------------
(***************************************************************************)
(* A place of one message is used only while that message is in it.        *)
(***************************************************************************)
LEMMA InitOnePlace == Init => OnePlaceEach
BY ServerAssumption DEF Init, PipeInit, IpcInit, OnePlaceEach, Peer, End, NoMsg

\* What the two lemmas about the object's own steps ask for.
LEMMA PopAndWrite ==
    ASSUME TypeInv, OneCallOfAKind
    PROVE  /\ popMsg => writeMsgsList # <<>>
           /\ startWrite => msg \in Msg /\ writeOp[m_type] = "idle"
BY ServerAssumption DEF TypeInv, BuffersFull, OneCallOfAKind, popMsg, startWrite

LEMMA NextOnePlace ==
    ASSUME TypeInv, OneCallOfAKind, OnePlaceEach, [Next]_vars
    PROVE  OnePlaceEach'
<1>. USE ServerAssumption
<1>a. /\ IpcTypeOK /\ PipeTypeOK /\ "server" \in End /\ "client" \in End
      /\ Peer("server") = "client" /\ Peer("client") = "server"
  BY DEF TypeInv, TypeOK, IpcTypeOK, End, Peer
<1>1. CASE IpcMain \/ IpcWorker
  BY <1>1, <1>a, PopAndWrite, IpcOnePlace
<1>2. CASE waitConnect
  BY <1>2 DEF waitConnect, WaitReturns, OnePlaceEach
<1>3. CASE startWorker \/ reconnect
  BY <1>3 DEF startWorker, reconnect, ConnectToNewClient, StartListening, OnePlaceEach
<1>4. CASE handleConnectEvent
  <2>1. ReadFile(m_type)
    BY <1>4 DEF handleConnectEvent
  <2>. QED BY <1>4, <1>a, <2>1, ReadFileOffWire DEF handleConnectEvent, OnePlaceEach
<1>5. CASE handleReadError
  <2>1. DisconnectNamedPipe
    BY <1>5 DEF handleReadError
  <2>2. writeBuff'["server"] = NoMsg
    BY <2>1, <1>a DEF DisconnectNamedPipe
  <2>. QED BY <1>5, <1>a, <2>1, <2>2, CallsKeepPeerIdle DEF handleReadError, OnePlaceEach
<1>6. CASE clientOpen
  BY <1>6 DEF clientOpen, OpenClient, ipcVars, workerVars, OnePlaceEach
<1>7. CASE clientWrite
  BY <1>7, <1>a DEF clientWrite, PutMsg, PipeTypeOK, ipcVars, workerVars, OnePlaceEach
<1>8. CASE clientRead
  <2>1. /\ writeOp'["client"] = writeOp["client"]
        /\ writeOp'["server"] # "pending" => writeBuff'["server"] = NoMsg
    BY <1>8, <1>a DEF clientRead, TakeMsg, PipeTypeOK, OnePlaceEach
  <2>. QED BY <1>8, <1>a, <2>1 DEF clientRead, ipcVars, workerVars, OnePlaceEach
<1>9. CASE clientClose
  <2>1. CloseHandle("client")
    BY <1>9 DEF clientClose
  <2>2. writeBuff'["server"] = NoMsg
    BY <2>1, <1>a DEF CloseHandle
  <2>. QED BY <1>9, <1>a, <2>1, <2>2, CallsKeepPeerIdle
           DEF clientClose, ipcVars, workerVars, OnePlaceEach
<1>10. CASE UNCHANGED vars
  BY <1>10 DEF vars, pipeVars, ipcVars, workerVars, OnePlaceEach
<1>. QED BY <1>1, <1>2, <1>3, <1>4, <1>5, <1>6, <1>7, <1>8, <1>9, <1>10
         DEF Next, Main, Worker, Client

LEMMA OnePlaceInvariant == Spec => []OnePlaceEach
BY InitOnePlace, NextOnePlace, Invariance, PTL DEF Spec

-----------------------------------------------------------------------------
(***************************************************************************)
(* What clients wrote is conserved.                                        *)
(***************************************************************************)
LEMMA InboundIs == InboundConserved <=> (ServerHandleOpen => Inbound = UpTo(clientSent))
BY ServerAssumption DEF InboundConserved, Inbound, UpTo

LEMMA InitInbound == Init => InboundConserved
<1>. SUFFICES ASSUME Init PROVE Received \o data["server"] = UpTo(clientSent)
  BY DEF InboundConserved, UpTo
<1>1. Received \o data["server"] = <<>>
  BY ServerAssumption DEF Init, PipeInit, IpcInit, Received, Optional, End, NoMsg
<1>2. UpTo(clientSent) = <<>>
  BY DEF Init, UpTo
<1>. QED BY <1>1, <1>2

\* A closed server end is never opened again.
LEMMA HandleStaysClosed ==
    ASSUME TypeInv, ReadState, [Next]_vars, ServerHandleOpen'
    PROVE  ServerHandleOpen
<1>. USE DEF ServerHandleOpen
<1>1. CASE Worker
  <2>1. workerPc # "exited"
    BY <1>1 DEF Worker, IpcWorker, waitConnect, waitRead, waitWrite, waitStop,
                waitNotEmpty, WaitReturns, handleReadData, rearmRead,
                handleWriteDone, handleWriteError, handleNotEmptyEvent, popMsg,
                startWrite, startWorker, handleConnectEvent, handleReadError,
                reconnect
  <2>. QED BY <2>1 DEF ReadState
<1>2. CASE Main
  <2>1. CASE ReturnFromMain
    BY <2>1, ServerAssumption DEF ReturnFromMain, CloseHandle, AfterClose
  <2>2. CASE sendMsgPush \/ sendMsgSignal \/ getMsgs \/ close
    BY <2>2 DEF sendMsgPush, sendMsgSignal, getMsgs, close, pipeVars
  <2>. QED BY <1>2, <2>1, <2>2 DEF Main, IpcMain, closeJoined, closeTimedOut
<1>3. CASE Client
  BY <1>3 DEF Client, clientOpen, OpenClient, clientWrite, clientRead, clientClose,
              CloseHandle, AfterClose
<1>4. CASE UNCHANGED vars
  BY <1>4 DEF vars, pipeVars
<1>. QED BY <1>1, <1>2, <1>3, <1>4 DEF Next

LEMMA OnlyClientsCount ==
    ASSUME [Next]_vars, ~clientWrite
    PROVE  clientSent' = clientSent
<1>1. CASE Main \/ UNCHANGED vars
  BY <1>1 DEF Main, vars, clientVars
<1>2. CASE Worker
  BY <1>2 DEF Worker, startWorker, handleConnectEvent, handleReadError, reconnect, clientVars
<1>3. CASE Client
  BY <1>3 DEF Client, clientOpen, clientRead, clientClose, clientVars
<1>. QED BY <1>1, <1>2, <1>3 DEF Next

\* No step but a client's write changes what is there, as long as the server
\* has its end.
LEMMA NextInbound ==
    ASSUME TypeInv, OneCallOfAKind, ReadState, OnePlaceEach, [Next]_vars,
           ServerHandleOpen', ~clientWrite
    PROVE  Inbound' = Inbound
<1>. USE ServerAssumption DEF mainVars, ipcVars, clientVars
<1>a. /\ IpcTypeOK /\ PipeTypeOK /\ "server" \in End /\ "client" \in End
      /\ Peer(m_type) = "client" /\ writeOp[Peer(m_type)] # "pending"
  BY DEF TypeInv, TypeOK, IpcTypeOK, OnePlaceEach, End, Peer
<1>1. CASE IpcMain \/ IpcWorker
  <2>1. ~CloseHandle(m_type)
    BY DEF CloseHandle, AfterClose, ServerHandleOpen
  <2>2. /\ handleReadData => readBuff[m_type] \in Msg
        /\ rearmRead => readBuff[m_type] = NoMsg
    BY DEF handleReadData, rearmRead, TypeInv, BuffersFull, ReadState
  <2>. QED BY <1>1, <1>a, <2>1, <2>2, IpcInbound
<1>2. CASE handleConnectEvent
  BY <1>2, <1>a, ReadFileInbound DEF handleConnectEvent, ReadState
<1>3. ASSUME UNCHANGED <<dispatched, readMsgsList, readBuff["server"], data["server"]>>
      PROVE  Inbound' = Inbound
  BY <1>3 DEF Inbound, Received
<1>4. CASE waitConnect
  BY <1>3, <1>4 DEF waitConnect, WaitReturns
<1>5. CASE startWorker \/ reconnect
  BY <1>3, <1>5 DEF startWorker, reconnect, ConnectToNewClient, StartListening
<1>6. CASE handleReadError
  BY <1>3, <1>6, <1>a DEF handleReadError, DisconnectNamedPipe, ReadState
<1>7. CASE clientOpen \/ clientRead \/ clientClose
  BY <1>3, <1>7, <1>a DEF clientOpen, OpenClient, clientRead, TakeMsg, Peer, clientClose,
              CloseHandle, PipeTypeOK
<1>8. CASE UNCHANGED vars
  BY <1>3, <1>8 DEF vars, pipeVars
<1>. QED BY <1>1, <1>2, <1>4, <1>5, <1>6, <1>7, <1>8 DEF Next, Main, Worker, Client

\* What clients wrote is all there, once and in order, as long as the server
\* has its pipe: in the application's hands, listed, in the buffer or in the
\* pipe, over any number of clients.
THEOREM InboundSafe == Spec => []InboundConserved
<1>1. /\ TypeInv /\ OneCallOfAKind /\ ReadState /\ OnePlaceEach /\ InboundConserved
      /\ [Next]_vars
      => InboundConserved'
  <2>. SUFFICES ASSUME TypeInv, OneCallOfAKind, ReadState, OnePlaceEach,
                       InboundConserved, [Next]_vars, ServerHandleOpen'
                PROVE  Inbound' = UpTo(clientSent')
    BY ServerAssumption DEF InboundConserved, Inbound, UpTo
  <2>a. Inbound = UpTo(clientSent)
    BY HandleStaysClosed, InboundIs
  <2>1. CASE ~clientWrite
    BY <2>a, <2>1, NextInbound, OnlyClientsCount
  <2>2. CASE clientWrite
    <3>1. /\ IpcTypeOK /\ clientSent \in Nat /\ Peer(m_type) = "client"
      BY ServerAssumption DEF TypeInv, TypeOK, Peer
    <3>2. /\ PutMsg("client", clientSent + 1) /\ clientSent' = clientSent + 1
          /\ UNCHANGED <<dispatched, readMsgsList>>
      BY <2>2 DEF clientWrite, ipcVars, mainVars
    <3>3. readOp[m_type] = "pending" => readBuff[m_type] = NoMsg /\ data[m_type] = <<>>
      BY ServerAssumption DEF ReadState
    <3>. QED BY <2>a, <3>1, <3>2, <3>3, PeerWriteInbound
  <2>. QED BY <2>1, <2>2
<1>. QED BY <1>1, InitInbound, Invariance, ReadStateInvariant, OnePlaceInvariant, PTL DEF Spec

-----------------------------------------------------------------------------
(***************************************************************************)
(* The server implements the abstract channel.                             *)
(***************************************************************************)
LEMMA InitChannel == Init => Channel!ChanInit
BY ServerAssumption
   DEF Init, PipeInit, IpcInit, Channel!ChanInit, Optional, NoMsg, End

\* All but a client's read is a step of the object or moves nothing.
LEMMA NextChannelStep ==
    ASSUME TypeInv, OneCallOfAKind, OnePlaceEach, [Next]_vars, ~clientRead
    PROVE  ChannelStep /\ got' = got
<1>. USE ServerAssumption DEF mainVars, queueVars, workerVars, ipcVars, clientVars
<1>a. /\ IpcTypeOK /\ PipeTypeOK /\ "server" \in End /\ "client" \in End
      /\ Peer("server") = "client" /\ Peer("client") = "server"
  BY DEF TypeInv, TypeOK, IpcTypeOK, End, Peer
<1>1. CASE (IpcMain \/ IpcWorker) /\ UNCHANGED clientVars
  BY <1>1, <1>a, PopAndWrite, IpcChannelStep
<1>2. CASE waitConnect /\ UNCHANGED clientVars
  BY <1>2, NothingMoves DEF waitConnect, WaitReturns
<1>3. CASE startWorker \/ reconnect
  BY <1>3, NothingMoves DEF startWorker, reconnect, ConnectToNewClient, StartListening
<1>4. CASE handleConnectEvent
  <2>1. ReadFile(m_type) /\ UNCHANGED <<sent, msg, writeMsgsList, got>>
    BY <1>4 DEF handleConnectEvent
  <2>. QED BY <2>1, <1>a, ReadFileOffWire, NothingMoves
<1>5. CASE handleReadError \/ clientClose
  <2>1. /\ DisconnectNamedPipe \/ (\E e \in End : CloseHandle(e))
        /\ UNCHANGED <<sent, msg, writeMsgsList, got>>
    BY <1>5, <1>a DEF handleReadError, clientClose
  <2>. QED BY <2>1, <1>a, ClosingShortens, ClosingDisconnects DEF ChannelStep, Queue
<1>6. CASE clientOpen
  BY <1>6, NothingMoves DEF clientOpen, OpenClient
<1>7. CASE clientWrite
  <2>1. data'["client"] = data["client"]
    BY <1>7, <1>a DEF clientWrite, PutMsg, PipeTypeOK
  <2>. QED BY <1>7, <1>a, <2>1, NothingMoves DEF clientWrite
<1>8. CASE UNCHANGED vars
  BY <1>8, NothingMoves DEF vars, pipeVars
<1>. QED BY <1>1, <1>2, <1>3, <1>4, <1>5, <1>6, <1>7, <1>8 DEF Next, Main, Worker, Client

LEMMA NextChannel ==
    ASSUME TypeInv, OneCallOfAKind, OnePlaceEach, [Next]_vars
    PROVE  [Channel!ChanNext]_(Channel!chanVars)
<1>a. /\ IpcTypeOK /\ Peer(m_type) = "client" /\ m_type = "server"
  BY ServerAssumption DEF TypeInv, TypeOK, Peer
<1>b. /\ Queue = Optional(msg) \o writeMsgsList
      /\ Wire = data["client"] \o Optional(writeBuff["server"])
  BY <1>a DEF Queue, Wire
<1>c. /\ Queue' = Optional(msg)' \o writeMsgsList'
      /\ Wire' = data'["client"] \o Optional(writeBuff["server"])'
  BY <1>a DEF Queue, Wire
<1>1. CASE clientRead
  <2>1. /\ Wire # <<>> /\ got' = Append(got, Head(Wire)) /\ Wire' = Tail(Wire)
    BY <1>1, <1>a, TakeDelivers DEF clientRead, TypeInv, BuffersFull
  <2>2. UNCHANGED <<sent, Queue>>
    BY <1>1 DEF clientRead, ipcVars, mainVars, queueVars, workerVars, Queue
  <2>3. Channel!Deliver
    BY <2>1, <2>2, <1>b, <1>c DEF Channel!Deliver
  <2>. QED BY <2>3 DEF Channel!ChanNext
<1>2. CASE ~clientRead
  <2>1. ChannelStep /\ got' = got
    BY <1>2, NextChannelStep
  <2>. QED BY <2>1, <1>b, <1>c
           DEF ChannelStep, Shortened, Channel!ChanNext, Channel!chanVars,
               Channel!Send, Channel!Transmit, Channel!Refuse, Channel!Lose
<1>. QED BY <1>1, <1>2

\* The way from sendMsg to the clients, over any number of connections,
\* implements the abstract channel: at most once, in order, and what a broken
\* connection loses is a suffix of what was written to it.
THEOREM OutboundSafe == Spec => OutboundIsChannel
BY OnePlaceInvariant, InitChannel, NextChannel, Invariance, PTL
   DEF Spec, OutboundIsChannel, Channel!ChanSpec

\* What the abstract channel promises, of the channel implemented here.
ChannelProofs == INSTANCE MessageChannel_proofs WITH
    queue <- Optional(msg) \o writeMsgsList,
    wire <- data["client"] \o Optional(writeBuff["server"])

\* The clients read the messages in the order of the sendMsg calls, each at most once,
\* whatever connections are lost on the way.
THEOREM DeliveredInOrder == Spec => []Channel!InOrderAtMostOnce
<1>1. ChannelProofs!ChanSpec => []ChannelProofs!InOrderAtMostOnce
  BY ChannelProofs!ChannelOrder
<1>2. Channel!ChanInit => ChannelProofs!ChanInit
  BY DEF Channel!ChanInit, ChannelProofs!ChanInit
<1>3. [Channel!ChanNext]_(Channel!chanVars) => [ChannelProofs!ChanNext]_(ChannelProofs!chanVars)
  BY DEF Channel!ChanNext, Channel!chanVars, Channel!Send, Channel!Transmit,
         Channel!Refuse, Channel!Deliver, Channel!Lose, Channel!Abandon,
         ChannelProofs!ChanNext, ChannelProofs!chanVars, ChannelProofs!Send,
         ChannelProofs!Transmit, ChannelProofs!Refuse, ChannelProofs!Deliver,
         ChannelProofs!Lose, ChannelProofs!Abandon
<1>4. ChannelProofs!InOrderAtMostOnce => Channel!InOrderAtMostOnce
  BY DEF Channel!InOrderAtMostOnce, Channel!Increasing, ChannelProofs!InOrderAtMostOnce,
         ChannelProofs!Increasing
<1>. QED BY <1>1, <1>2, <1>3, <1>4, OutboundSafe, PTL
         DEF OutboundIsChannel, Channel!ChanSpec, ChannelProofs!ChanSpec

-----------------------------------------------------------------------------
(***************************************************************************)
(* What NamedPipeIpcLink's proofs use, where a NamedPipeIpc of TYPE_CLIENT *)
(* is at the other end.                                                    *)
(***************************************************************************)
ServerInv == TypeInv /\ OneCallOfAKind /\ ReadState /\ SomebodyLooks

LEMMA OwnStepsKeep ==
    ASSUME ServerInv, Main \/ Worker
    PROVE  ServerInv' /\ OnlyCompletes("client")
<1>. USE DEF ServerInv
<1>a. TypeOK /\ IpcTypeOK /\ PipeTypeOK
  BY DEF TypeInv, TypeOK, IpcTypeOK
<1>1. TypeInv' /\ OneCallOfAKind'
  BY <1>a, MainTypeInv, OthersStartNoCall, IpcWorkerTypeInv, ServerWorkerTypeInv,
     WorkerOneCall DEF Worker
<1>2. ReadState'
  BY <1>a, MainReadState, WorkerReadState
<1>3. SomebodyLooks'
  BY <1>a, IpcMainSomebodyLooks, WorkerSomebodyLooks DEF Main
<1>4. OnlyCompletes("client")
  <2>a. "client" \in End /\ Peer("client") = "server" /\ Peer(m_type) = "client"
    BY ServerAssumption DEF End, Peer
  <2>1. CASE IpcMain \/ IpcWorker
    BY <1>a, <2>a, <2>1, IpcOnlyCompletes DEF TypeInv, BuffersFull, startWrite
  <2>2. CASE waitConnect
    BY <2>2 DEF waitConnect, WaitReturns, OnlyCompletes
  <2>3. CASE startWorker \/ reconnect
    BY <2>3 DEF startWorker, reconnect, ConnectToNewClient, StartListening, OnlyCompletes
  <2>4. CASE handleConnectEvent \/ handleReadError
    BY <1>a, <2>a, <2>4, CallsOnlyComplete DEF handleConnectEvent, handleReadError
  <2>. QED BY <2>1, <2>2, <2>3, <2>4 DEF Main, Worker
<1>. QED BY <1>1, <1>2, <1>3, <1>4

\* The server's process ends wherever its threads are.
LEMMA EndKeeps ==
    ASSUME ServerInv, CloseHandle("server"), mainPc' = "returned", workerPc' = "exited",
           UNCHANGED <<queueVars, readMsgsList, stopEvent, bWritting, msg, sent,
                       dispatched, m_serverConected, clientVars>>
    PROVE  ServerInv' /\ OnlyCompletes("client")
<1>. USE DEF ServerInv
<1>a. /\ "server" \in End /\ "client" \in End /\ TypeOK /\ IpcTypeOK /\ PipeTypeOK
      /\ PipeTypeOK'
  BY CloseHandleType DEF End, TypeInv, TypeOK, IpcTypeOK
<1>b. /\ \A e \in End : readOp'[e] = Break(readOp[e]) /\ writeOp'[e] = Break(writeOp[e])
      /\ connectOp' = Break(connectOp) /\ readBuff' = readBuff
      /\ pipeState' \in {"serverClosed", "gone"}
  BY DEF CloseHandle, AfterClose
<1>1. TypeInv'
  BY <1>a, <1>b DEF TypeInv, TypeOK, IpcTypeOK, BuffersFull, queueVars, clientVars, MainPc,
                    WorkerPc, Break
<1>2. OneCallOfAKind'
  BY <1>a, <1>b DEF OneCallOfAKind, Break
<1>3. ReadState'
  BY <1>a, <1>b DEF ReadState, ServerHandleOpen, Break
<1>4. SomebodyLooks'
  BY DEF SomebodyLooks, queueVars
<1>5. OnlyCompletes("client")
  BY <1>a, CallsOnlyComplete
<1>. QED BY <1>1, <1>2, <1>3, <1>4, <1>5

LEMMA ClientCallsKeep ==
    ASSUME ServerInv, ClientCall, OnlyCompletes("server"), PipeTypeOK',
           (writeOp["client"] = "pending" => writeBuff["client"] \in Msg)',
           UNCHANGED <<ipcVars, m_serverConected, clientVars>>
    PROVE  ServerInv'
<1>. USE DEF ServerInv, ipcVars, mainVars, queueVars, workerVars
<1>a. "server" \in End /\ "client" \in End /\ Peer("client") = "server" /\ PipeTypeOK
  BY DEF End, Peer, TypeInv, TypeOK, IpcTypeOK
<1>1. TypeInv'
  BY DEF TypeInv, TypeOK, IpcTypeOK, BuffersFull, OnlyCompletes, clientVars
<1>2. connectOp' = connectOp \/ (connectOp = "pending" /\ connectOp' = "success")
  <2>1. CASE ReadFile("client") \/ (\E m \in Msg : WriteFile("client", m))
    BY <1>a, <2>1, ReadFileTouches, WriteFileTouches
  <2>. QED BY <2>1 DEF ClientCall, OpenClient, CloseHandle
<1>3. OneCallOfAKind'
  BY <1>2 DEF OneCallOfAKind, OnlyCompletes
<1>4. ReadState'
  <2>. USE DEF ReadState, ServerHandleOpen
  <2>1. CASE OpenClient
    BY <2>1 DEF OpenClient
  <2>2. CASE ReadFile("client")
    BY <1>a, <2>2, ReadFileTouches
  <2>3. CASE \E m \in Msg : WriteFile("client", m)
    <3>1. PICK m \in Msg : WriteFile("client", m)
      BY <2>3
    <3>2. readOp["server"] # "pending" =>
              readOp'["server"] = readOp["server"] /\ readBuff'["server"] = readBuff["server"]
      BY <1>a, <3>1, WriteFileTouches
    <3>3. pipeState # "connected" => data' = data
      BY <3>1 DEF WriteFile, PutMsg
    <3>. QED BY <1>a, <3>1, <3>2, <3>3, WriteFileTouches DEF OneCallOfAKind
  <2>4. CASE CloseHandle("client")
    <3>1. /\ pipeState = "connected" => pipeState' = "clientClosed"
          /\ pipeState = "serverClosed" => pipeState' = "gone"
          /\ pipeState \notin {"connected", "serverClosed"} => pipeState' = pipeState
      BY <2>4 DEF CloseHandle, AfterClose
    <3>2. /\ data'["server"] = data["server"] /\ readBuff' = readBuff
          /\ connectOp' = connectOp /\ readOp'["server"] = Break(readOp["server"])
      BY <1>a, <2>4 DEF CloseHandle, PipeTypeOK
    <3>. QED BY <3>1, <3>2 DEF Break
  <2>5. CASE UNCHANGED <<pipeState, data, connectOp, readOp["server"], readBuff["server"]>>
    BY <2>5
  <2>. QED BY <2>1, <2>2, <2>3, <2>4, <2>5 DEF ClientCall
<1>5. SomebodyLooks'
  BY DEF SomebodyLooks
<1>. QED BY <1>1, <1>3, <1>4, <1>5

LEMMA OwnBothWays ==
    ASSUME ServerInv, Settled, OwnBuffers, Main \/ Worker
    PROVE  BothWays /\ (ClientInside' => ClientInside)
<1>. USE ServerAssumption DEF mainVars, queueVars, workerVars
<1>a. IpcTypeOK /\ PipeTypeOK /\ "client" \in End /\ "server" \in End
  BY DEF ServerInv, TypeInv, TypeOK, IpcTypeOK, End
<1>1. BothWays
  <2>1. CASE IpcMain \/ IpcWorker
    BY <2>1, <1>a, PopAndWrite, IpcBothWays
       DEF ServerInv, TypeInv, BuffersFull, OneCallOfAKind, handleReadData, rearmRead
  <2>2. CASE waitConnect
    <3>1. /\ UNCHANGED <<pipeState, data, readBuff, writeBuff, readOp, writeOp, sent, msg,
                         writeMsgsList, dispatched, readMsgsList>>
          /\ workerPc = "wait" /\ workerPc' = "connectEvent"
      BY <2>2 DEF waitConnect, WaitReturns
    <3>2. OwnBuffers'
      BY <3>1 DEF OwnBuffers
    <3>. QED BY <3>1, <3>2, WaysUntouched
  <2>3. CASE handleConnectEvent
    BY <2>3, <1>a, CallsKeepWays DEF handleConnectEvent, ServerInv, OneCallOfAKind
  <2>4. CASE handleReadError
    BY <2>4, <1>a, CallsKeepWays DEF handleReadError
  <2>5. CASE startWorker \/ reconnect
    <3>1. /\ UNCHANGED <<data, readBuff, writeBuff, readOp, writeOp, sent, msg,
                         writeMsgsList, dispatched, readMsgsList>>
          /\ workerPc \in {"start", "reconnect"} /\ workerPc' = "wait"
          /\ \/ pipeState' = pipeState
             \/ pipeState \in {"listening", "disconnected"} /\ pipeState' = "listening"
      BY <2>5 DEF startWorker, reconnect, ConnectToNewClient, ConnectResult, StartListening
    <3>2. OwnBuffers' /\ \A f \in End : Shortened(Way(f), Way(f)')
      BY <3>1 DEF OwnBuffers, Way, Shortened
    <3>3. Settled'
      BY <3>1 DEF Settled, ClientInside
    <3>. QED BY <3>1, <3>2, <3>3, WaysKept
  <2>. QED BY <2>1, <2>2, <2>3, <2>4, <2>5 DEF Main, Worker
<1>2. ClientInside' => ClientInside
  <2>. USE DEF ClientInside
  <2>1. CASE CloseHandle("server")
    BY <2>1 DEF CloseHandle, AfterClose
  <2>2. CASE handleReadError
    BY <2>2 DEF handleReadError, DisconnectNamedPipe
  <2>3. CASE startWorker \/ reconnect
    BY <2>3 DEF startWorker, reconnect, ConnectToNewClient, StartListening
  <2>4. CASE handleConnectEvent \/ rearmRead \/ startWrite
    BY <2>4 DEF handleConnectEvent, rearmRead, startWrite, ReadFile, WriteFile
  <2>5. CASE ReturnFromMain \/ handleWriteError
    BY <2>1, <2>5 DEF ReturnFromMain, handleWriteError
  <2>6. CASE \/ sendMsgPush \/ sendMsgSignal \/ getMsgs \/ close \/ handleWriteDone
             \/ handleNotEmptyEvent \/ popMsg
    BY <2>6 DEF sendMsgPush, sendMsgSignal, getMsgs, close, handleWriteDone,
                handleNotEmptyEvent, popMsg, pipeVars
  <2>7. CASE waitConnect \/ waitRead \/ waitWrite \/ waitStop \/ waitNotEmpty
             \/ handleReadData
    BY <2>7 DEF waitConnect, waitRead, waitWrite, waitStop, waitNotEmpty, WaitReturns,
                handleReadData
  <2>. QED BY <2>1, <2>2, <2>3, <2>4, <2>5, <2>6, <2>7
           DEF Main, Worker, IpcMain, IpcWorker, closeJoined, closeTimedOut
<1>. QED BY <1>1, <1>2
=============================================================================
