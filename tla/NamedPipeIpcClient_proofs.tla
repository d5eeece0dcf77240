--------------------- MODULE NamedPipeIpcClient_proofs ----------------------
(***************************************************************************)
(* Proofs about the client side of namedpipeipc, for every quota and every *)
(* bound.                                                                  *)
(***************************************************************************)
EXTENDS NamedPipeIpcClient, NamedPipeIpc_proofs

\* Where a buffer is about to be used as a message, it holds one, and the
\* worker pops only from a non-empty list.
BuffersFull ==
    /\ readOp["client"] = "success" => readBuff["client"] \in Msg
    /\ workerPc = "readData" => readBuff["client"] \in Msg
    /\ writeOp["client"] = "pending" => writeBuff["client"] \in Msg
    /\ workerPc = "pop" => writeMsgsList # <<>>
    /\ workerPc = "write" => msg \in Msg
    /\ writeOp["server"] = "pending" => writeBuff["server"] \in Msg

TypeInv == TypeOK /\ BuffersFull

\* The worker starts when the pipe is open, and where it has consumed an event
\* it has not yet issued the next call of that kind.
OneCallOfAKind ==
    /\ mainPc \in {"opening", "waitPipe", "setMode"} => workerPc = "none"
    /\ workerPc \in {"none", "start", "readData", "rearm", "readError"}
           => readOp["client"] = "idle"
    /\ writeOp["client"] # "idle"
           => bWritting /\ workerPc \notin {"writeDone", "writeError"}
    /\ workerPc \in {"pop", "write"} => ~bWritting

\* A read is outstanding only when there is nothing to read, and nobody has
\* written before the client has opened the pipe.
ReadState ==
    /\ readOp["client"] = "pending"
           => pipeState = "connected" /\ data["client"] = <<>>
    /\ readOp["client"] \in {"pending", "error"} => readBuff["client"] = NoMsg
    /\ workerPc \in {"none", "start", "rearm", "readError"}
           => readBuff["client"] = NoMsg
    /\ mainPc \in {"opening", "waitPipe"} =>
           /\ pipeState \notin {"connected", "serverClosed"}
           /\ Received = <<>> /\ data["client"] = <<>> /\ serverSent = 0

-----------------------------------------------------------------------------
(***************************************************************************)
(* Types.                                                                  *)
(***************************************************************************)
LEMMA InitTypeInv == Init => TypeInv
<1>. SUFFICES ASSUME Init PROVE TypeInv
  OBVIOUS
<1>1. PipeTypeOK
  <2>1. [e \in End |-> <<>>] \in [End -> Seq(Msg)]
    OBVIOUS
  <2>. QED BY <2>1 DEF Init, PipeTypeOK, PipeStates, OpStatus, NoMsg
<1>2. IpcTypeOK
  BY <1>1, <<>> \in Seq(Msg) DEF Init, IpcInit, IpcTypeOK, MainPc, WorkerPc, NoMsg
<1>3. TypeOK
  BY <1>2, <<>> \in Seq(Msg) DEF Init, TypeOK
<1>4. BuffersFull
  BY DEF Init, IpcInit, BuffersFull, End
<1>. QED BY <1>3, <1>4 DEF TypeInv

LEMMA OpeningTypeInv ==
    ASSUME TypeInv, OneCallOfAKind, Opening
    PROVE  TypeInv'
<1>. USE DEF TypeInv, TypeOK, IpcTypeOK, BuffersFull
<1>. USE DEF queueVars, workerVars, serverVars, MainPc, WorkerPc
<1>a. "server" \in End /\ "client" \in End
  BY DEF End
<1>1. CASE createFile
  <2>1. PipeTypeOK'
    BY <1>1 DEF createFile, OpenClient, PipeTypeOK, PipeStates, OpStatus
  <2>. QED BY <1>1, <2>1 DEF createFile, OpenClient
<1>2. CASE setHandleStateFails
  <2>1. PipeTypeOK'
    BY <1>2, <1>a, CloseHandleType DEF setHandleStateFails
  <2>2. BuffersFull'
    BY <1>2, <1>a DEF setHandleStateFails, CloseHandle, Break
  <2>. QED BY <1>2, <2>1, <2>2 DEF setHandleStateFails
<1>3. CASE createFileBusy \/ createFileFails \/ waitNamedPipe \/ waitNamedPipeFails
           \/ setHandleState
  <2>1. UNCHANGED pipeVars
    BY <1>3 DEF createFileBusy, createFileFails, waitNamedPipe, waitNamedPipeFails,
                setHandleState
  <2>2. PipeTypeOK'
    BY <2>1, PipeUnchanged
  <2>. QED BY <1>3, <2>1, <2>2
           DEF createFileBusy, createFileFails, waitNamedPipe, waitNamedPipeFails,
               setHandleState, pipeVars
<1>. QED BY <1>1, <1>2, <1>3 DEF Opening

LEMMA IpcMainTypeInv ==
    ASSUME TypeInv, IpcMain, UNCHANGED serverVars
    PROVE  TypeInv'
<1>. USE DEF TypeInv, TypeOK, IpcTypeOK, BuffersFull
<1>0. UNCHANGED <<got, serverSent, listens>>
  BY DEF serverVars
<1>1. CASE sendMsgPush
  <2>1. sent + 1 \in Msg
    BY DEF Msg
  <2>2. Append(writeMsgsList, sent + 1) \in Seq(Msg) /\ Append(writeMsgsList, sent + 1) # <<>>
    BY <2>1, AppendType
  <2>3. PipeTypeOK'
    BY <1>1, PipeUnchanged DEF sendMsgPush
  <2>4. IpcTypeOK'
    BY <1>1, <2>2, <2>3 DEF sendMsgPush, workerVars, MainPc
  <2>5. BuffersFull'
    BY <1>1, <2>2 DEF sendMsgPush, workerVars, pipeVars
  <2>. QED BY <1>0, <2>4, <2>5
<1>2. CASE sendMsgSignal
  <2>1. PipeTypeOK'
    BY <1>2, PipeUnchanged DEF sendMsgSignal
  <2>. QED BY <1>0, <1>2, <2>1 DEF sendMsgSignal, workerVars, pipeVars, MainPc
<1>3. CASE getMsgs
  <2>1. PipeTypeOK'
    BY <1>3, PipeUnchanged DEF getMsgs
  <2>2. dispatched \o readMsgsList \in Seq(Msg)
    BY ConcatProperties
  <2>. QED BY <1>0, <1>3, <2>1, <2>2 DEF getMsgs, queueVars, workerVars, pipeVars, MainPc
<1>4. CASE close
  <2>1. PipeTypeOK'
    BY <1>4, PipeUnchanged DEF close
  <2>. QED BY <1>0, <1>4, <2>1 DEF close, queueVars, workerVars, pipeVars, MainPc
<1>5. CASE ReturnFromMain
  <2>1. PipeTypeOK'
    BY <1>5, CloseHandleType, ClientAssumption DEF ReturnFromMain, End
  <2>2. IpcTypeOK'
    BY <1>5, <2>1 DEF ReturnFromMain, queueVars, MainPc, WorkerPc
  <2>3. BuffersFull'
    BY <1>5 DEF ReturnFromMain, CloseHandle, Break, PipeTypeOK, OpStatus, End
  <2>. QED BY <1>0, <2>2, <2>3
<1>. QED BY <1>1, <1>2, <1>3, <1>4, <1>5 DEF IpcMain, closeJoined, closeTimedOut

LEMMA IpcWorkerTypeInv ==
    ASSUME TypeInv, OneCallOfAKind, IpcWorker, UNCHANGED serverVars
    PROVE  TypeInv'
<1>. USE ClientAssumption DEF TypeInv, TypeOK, IpcTypeOK, BuffersFull
<1>a. "server" \in End /\ "client" \in End
  BY DEF End
<1>b. UNCHANGED <<got, serverSent, listens>>
  BY DEF serverVars
<1>1. CASE waitRead
  <2>1. PipeTypeOK'
    BY <1>1, <1>a DEF waitRead, WaitReturns, PipeTypeOK, OpStatus
  <2>2. IpcTypeOK'
    BY <1>1, <2>1 DEF waitRead, WaitReturns, mainVars, WorkerPc, ReadHandler
  <2>3. BuffersFull'
    BY <1>1, <1>a DEF waitRead, WaitReturns, ReadHandler, PipeTypeOK, OpStatus
  <2>. QED BY <1>b, <2>2, <2>3
<1>2. CASE waitWrite
  <2>1. PipeTypeOK'
    BY <1>2, <1>a DEF waitWrite, WaitReturns, PipeTypeOK, OpStatus
  <2>2. IpcTypeOK'
    BY <1>2, <2>1 DEF waitWrite, WaitReturns, mainVars, WorkerPc, WriteHandler
  <2>3. BuffersFull'
    BY <1>2, <1>a DEF waitWrite, WaitReturns, WriteHandler, PipeTypeOK, OpStatus
  <2>. QED BY <1>b, <2>2, <2>3
<1>3. CASE waitStop
  <2>1. PipeTypeOK'
    BY <1>3 DEF waitStop, WaitReturns, PipeTypeOK
  <2>. QED BY <1>3, <1>b, <2>1 DEF waitStop, WaitReturns, mainVars, WorkerPc
<1>4. CASE waitNotEmpty
  <2>1. PipeTypeOK'
    BY <1>4 DEF waitNotEmpty, WaitReturns, PipeTypeOK
  <2>. QED BY <1>4, <1>b, <2>1 DEF waitNotEmpty, WaitReturns, mainVars, WorkerPc
<1>5. CASE handleReadData
  <2>1. PipeTypeOK'
    BY <1>5, <1>a DEF handleReadData, PipeTypeOK, NoMsg
  <2>2. Append(readMsgsList, readBuff["client"]) \in Seq(Msg)
    BY <1>5, AppendType DEF handleReadData
  <2>3. IpcTypeOK'
    BY <1>5, <2>1, <2>2 DEF handleReadData, mainVars, queueVars, WorkerPc
  <2>4. BuffersFull'
    BY <1>5 DEF handleReadData, queueVars, OneCallOfAKind
  <2>. QED BY <1>b, <2>3, <2>4
<1>6. CASE rearmRead
  <2>1. PipeTypeOK' /\ (readOp'["client"] = "success" => readBuff'["client"] \in Msg)
    BY <1>6, <1>a, ReadFileType DEF rearmRead, Peer
  <2>2. IpcTypeOK'
    BY <1>6, <2>1 DEF rearmRead, mainVars, queueVars, WorkerPc
  <2>3. /\ writeOp'["client"] = writeOp["client"] /\ writeBuff'["client"] = writeBuff["client"]
        /\ writeOp'["server"] = "pending" => writeBuff'["server"] \in Msg
    BY <1>6, <1>a, ReadFileTouches DEF rearmRead, Peer
  <2>. QED BY <1>6, <1>b, <2>1, <2>2, <2>3 DEF rearmRead
<1>7. CASE handleWriteDone
  <2>1. PipeTypeOK'
    BY <1>7, PipeUnchanged DEF handleWriteDone
  <2>. QED BY <1>7, <1>b, <2>1 DEF handleWriteDone, NextWritePc, pipeVars,
                                   mainVars, queueVars, WorkerPc
<1>8. CASE handleWriteError
  <2>1. PipeTypeOK'
    BY <1>8, <1>a, CloseHandleType DEF handleWriteError
  <2>2. IpcTypeOK'
    BY <1>8, <2>1 DEF handleWriteError, mainVars, queueVars, WorkerPc
  <2>3. BuffersFull'
    BY <1>8, <1>a DEF handleWriteError, CloseHandle, Break, PipeTypeOK, OpStatus
  <2>. QED BY <1>b, <2>2, <2>3
<1>9. CASE handleNotEmptyEvent
  <2>1. PipeTypeOK'
    BY <1>9, PipeUnchanged DEF handleNotEmptyEvent
  <2>. QED BY <1>9, <1>b, <2>1 DEF handleNotEmptyEvent, NextWritePc, pipeVars,
                                   mainVars, queueVars, WorkerPc
<1>10. CASE popMsg
  <2>1. PipeTypeOK'
    BY <1>10, PipeUnchanged DEF popMsg
  <2>2. Head(writeMsgsList) \in Msg /\ Tail(writeMsgsList) \in Seq(Msg)
    BY <1>10, HeadTailProperties DEF popMsg
  <2>3. IpcTypeOK'
    BY <1>10, <2>1, <2>2 DEF popMsg, mainVars, WorkerPc, Msg
  <2>4. BuffersFull'
    BY <1>10, <2>2 DEF popMsg, pipeVars
  <2>. QED BY <1>b, <2>3, <2>4
<1>11. CASE startWrite
  <2>1. msg \in Msg /\ WriteFile("client", msg)
    BY <1>11 DEF startWrite
  <2>2. PipeTypeOK'
    BY <1>a, <2>1, WriteFileType
  <2>3. IpcTypeOK'
    BY <1>11, <2>2 DEF startWrite, mainVars, queueVars, WorkerPc, NoMsg
  <2>4. /\ writeOp'["server"] = writeOp["server"] /\ writeBuff'["server"] = writeBuff["server"]
        /\ writeOp'["client"] = "pending" => writeBuff'["client"] \in Msg
        /\ readOp'["client"] = readOp["client"] /\ readBuff'["client"] = readBuff["client"]
    BY <2>1, <1>a, WriteFileTouches DEF Peer
  <2>. QED BY <1>11, <1>b, <2>3, <2>4 DEF startWrite
<1>. QED BY <1>1, <1>2, <1>3, <1>4, <1>5, <1>6, <1>7, <1>8, <1>9, <1>10, <1>11
         DEF IpcWorker

LEMMA ClientWorkerTypeInv ==
    ASSUME TypeInv, startWorker \/ handleReadError \/ flushAndClose
    PROVE  TypeInv'
<1>. USE ClientAssumption DEF TypeInv, TypeOK, IpcTypeOK, BuffersFull
<1>a. "server" \in End /\ "client" \in End
  BY DEF End
<1>1. CASE startWorker
  <2>1. PipeTypeOK' /\ (readOp'["client"] = "success" => readBuff'["client"] \in Msg)
    BY <1>1, <1>a, ReadFileType DEF startWorker, Peer
  <2>2. IpcTypeOK'
    BY <1>1, <2>1 DEF startWorker, mainVars, queueVars, WorkerPc
  <2>3. /\ writeOp'["client"] = writeOp["client"] /\ writeBuff'["client"] = writeBuff["client"]
        /\ writeOp'["server"] = "pending" => writeBuff'["server"] \in Msg
    BY <1>1, <1>a, ReadFileTouches DEF startWorker, Peer
  <2>. QED BY <1>1, <2>1, <2>2, <2>3 DEF startWorker, serverVars
<1>2. CASE handleReadError \/ flushAndClose
  <2>0. CloseHandle("client")
    BY <1>2 DEF handleReadError, flushAndClose
  <2>1. PipeTypeOK'
    BY <2>0, <1>a, CloseHandleType
  <2>2. IpcTypeOK'
    BY <1>2, <2>1 DEF handleReadError, flushAndClose, mainVars, queueVars, WorkerPc
  <2>3. BuffersFull'
    BY <1>2, <2>0, <1>a DEF handleReadError, flushAndClose, CloseHandle, Break
  <2>. QED BY <1>2, <2>2, <2>3 DEF handleReadError, flushAndClose, serverVars
<1>. QED BY <1>1, <1>2

LEMMA ServerTypeInv ==
    ASSUME TypeInv, Server
    PROVE  TypeInv'
<1>. USE ClientAssumption DEF TypeInv, TypeOK, IpcTypeOK, BuffersFull
<1>. USE DEF ipcVars, mainVars, queueVars, workerVars, serverVars
<1>a. "server" \in End /\ "client" \in End
  BY DEF End
<1>1. CASE serverListen
  <2>1. PipeTypeOK'
    BY <1>1 DEF serverListen, StartListening, PipeTypeOK, PipeStates, OpStatus
  <2>. QED BY <1>1, <2>1 DEF serverListen, StartListening
<1>2. CASE serverWrite
  <2>1. serverSent + 1 \in Msg /\ PutMsg("server", serverSent + 1)
    BY <1>2 DEF serverWrite, Msg
  <2>2. PipeTypeOK'
    BY <1>2, <1>a, <2>1, PutMsgType DEF serverWrite, PipeTypeOK
  <2>3. readOp'["client"] = "success" => readBuff'["client"] \in Msg
    BY <1>a, <2>1 DEF PutMsg, Peer, PipeTypeOK
  <2>4. readBuff["client"] \in Msg => readBuff'["client"] \in Msg
    BY <1>a, <2>1 DEF PutMsg, Peer, PipeTypeOK
  <2>. QED BY <1>2, <2>2, <2>3, <2>4 DEF serverWrite
<1>3. CASE serverRead
  <2>1. Head(data["server"]) \in Msg /\ Append(got, Head(data["server"])) \in Seq(Msg)
    BY <1>3, <1>a, HeadTailProperties, AppendType DEF serverRead, PipeTypeOK
  <2>2. PipeTypeOK'
    BY <1>3, <1>a, TakeMsgType DEF serverRead, PipeTypeOK, Peer
  <2>3. writeOp'["server"] = writeOp["server"] /\ writeBuff'["server"] = writeBuff["server"]
    BY <1>3, <1>a DEF serverRead, TakeMsg, Peer, PipeTypeOK
  <2>4. writeOp'["client"] # "pending"
    BY <1>3, <1>a DEF serverRead, TakeMsg, Peer, PipeTypeOK
  <2>. QED BY <1>3, <2>1, <2>2, <2>3, <2>4 DEF serverRead
<1>4. CASE serverDisconnect
  <2>1. PipeTypeOK'
    BY <1>4, DisconnectType DEF serverDisconnect
  <2>2. BuffersFull'
    BY <1>4, <1>a DEF serverDisconnect, DisconnectNamedPipe, Break
  <2>. QED BY <1>4, <2>1, <2>2 DEF serverDisconnect
<1>5. CASE serverClose
  <2>1. PipeTypeOK'
    BY <1>5, <1>a, CloseHandleType DEF serverClose
  <2>2. BuffersFull'
    BY <1>5, <1>a DEF serverClose, CloseHandle, Break
  <2>. QED BY <1>5, <2>1, <2>2 DEF serverClose
<1>. QED BY <1>1, <1>2, <1>3, <1>4, <1>5 DEF Server

-----------------------------------------------------------------------------
(***************************************************************************)
(* One call of a kind.                                                     *)
(***************************************************************************)
LEMMA InitOneCall == Init => OneCallOfAKind
BY DEF Init, IpcInit, OneCallOfAKind, End

\* What the rest of the system does completes operations and starts none.
LEMMA OthersStartNoCall ==
    ASSUME TypeOK, OneCallOfAKind, Main \/ Server
    PROVE  OneCallOfAKind'
<1>. USE ClientAssumption
<1>a. "server" \in End /\ "client" \in End
  BY DEF End
<1>b. PipeTypeOK
  BY DEF TypeOK, IpcTypeOK
<1>1. /\ readOp'["client"] = "idle" <=> readOp["client"] = "idle"
      /\ writeOp'["client"] = "idle" <=> writeOp["client"] = "idle"
  <2>1. CASE ReturnFromMain \/ setHandleStateFails \/ serverClose
    BY <2>1, <1>a DEF ReturnFromMain, setHandleStateFails, serverClose, CloseHandle, Break
  <2>2. CASE sendMsgPush \/ sendMsgSignal \/ getMsgs \/ close
    BY <2>2 DEF sendMsgPush, sendMsgSignal, getMsgs, close, pipeVars
  <2>3. CASE createFileBusy \/ createFileFails \/ waitNamedPipe \/ waitNamedPipeFails
             \/ setHandleState
    BY <2>3 DEF createFileBusy, createFileFails, waitNamedPipe, waitNamedPipeFails,
                setHandleState, pipeVars
  <2>4. CASE createFile \/ serverListen
    BY <2>4 DEF createFile, OpenClient, serverListen, StartListening
  <2>5. CASE serverWrite
    BY <2>5, <1>a, <1>b DEF serverWrite, PutMsg, Peer, PipeTypeOK
  <2>6. CASE serverRead
    BY <2>6, <1>a, <1>b DEF serverRead, TakeMsg, Peer, PipeTypeOK
  <2>7. CASE serverDisconnect
    BY <2>7, <1>a DEF serverDisconnect, DisconnectNamedPipe, Break
  <2>. QED BY <2>1, <2>2, <2>3, <2>4, <2>5, <2>6, <2>7
              DEF Main, Opening, IpcMain, closeJoined, closeTimedOut, Server
<1>2. CASE Opening
  BY <1>1, <1>2 DEF Opening, createFile, createFileBusy, createFileFails, waitNamedPipe,
         waitNamedPipeFails, setHandleState, setHandleStateFails, workerVars,
         OneCallOfAKind
<1>3. CASE IpcMain
  BY <1>1, <1>3 DEF IpcMain, closeJoined, closeTimedOut, ReturnFromMain, sendMsgPush,
         sendMsgSignal, getMsgs, close, workerVars, OneCallOfAKind
<1>4. CASE Server
  BY <1>1, <1>4 DEF Server, serverListen, serverWrite, serverRead, serverDisconnect,
         serverClose, ipcVars, mainVars, workerVars, OneCallOfAKind
<1>. QED BY <1>2, <1>3, <1>4 DEF Main

LEMMA WorkerOneCall ==
    ASSUME TypeOK, OneCallOfAKind, Worker
    PROVE  OneCallOfAKind'
<1>. USE ClientAssumption DEF OneCallOfAKind, mainVars
<1>a. "server" \in End /\ "client" \in End
  BY DEF End
<1>b. PipeTypeOK
  BY DEF TypeOK, IpcTypeOK
<1>1. CASE waitStop \/ waitNotEmpty
  BY <1>1 DEF waitStop, waitNotEmpty, WaitReturns, EventSet, Signaled
<1>2. CASE waitRead
  BY <1>2, <1>a, <1>b DEF waitRead, WaitReturns, EventSet, Signaled, ReadHandler, PipeTypeOK
<1>3. CASE waitWrite
  BY <1>3, <1>a, <1>b DEF waitWrite, WaitReturns, EventSet, Signaled, WriteHandler, PipeTypeOK
<1>4. CASE handleReadData
  BY <1>4 DEF handleReadData
<1>5. ASSUME ReadFile("client") PROVE UNCHANGED writeOp["client"]
  BY <1>5, <1>a, <1>b DEF ReadFile, TakeMsg, Peer, PipeTypeOK
<1>6. CASE rearmRead \/ startWorker
  BY <1>5, <1>6 DEF rearmRead, startWorker
<1>7. CASE handleWriteDone
  BY <1>7 DEF handleWriteDone, NextWritePc, pipeVars
<1>8. CASE handleWriteError \/ handleReadError \/ flushAndClose
  BY <1>8, <1>a DEF handleWriteError, handleReadError, flushAndClose, CloseHandle, Break
<1>9. CASE handleNotEmptyEvent
  BY <1>9 DEF handleNotEmptyEvent, NextWritePc, pipeVars
<1>10. CASE popMsg
  BY <1>10 DEF popMsg, pipeVars
<1>11. CASE startWrite
  <2>1. readOp'["client"] = "idle" <=> readOp["client"] = "idle"
    BY <1>11, <1>a, <1>b DEF startWrite, WriteFile, PutMsg, Peer, PipeTypeOK
  <2>. QED BY <1>11, <2>1 DEF startWrite
<1>. QED BY <1>1, <1>2, <1>3, <1>4, <1>6, <1>7, <1>8, <1>9, <1>10, <1>11
         DEF Worker, IpcWorker

-----------------------------------------------------------------------------
LEMMA Invariance == Spec => [](TypeInv /\ OneCallOfAKind)
<1>1. Init => TypeInv /\ OneCallOfAKind
  BY InitTypeInv, InitOneCall
<1>2. TypeInv /\ OneCallOfAKind /\ [Next]_vars => (TypeInv /\ OneCallOfAKind)'
  <2>. SUFFICES ASSUME TypeInv, OneCallOfAKind, [Next]_vars
                PROVE  TypeInv' /\ OneCallOfAKind'
    OBVIOUS
  <2>. TypeOK
    BY DEF TypeInv
  <2>1. CASE Main \/ Server
    BY <2>1, OpeningTypeInv, IpcMainTypeInv, ServerTypeInv, OthersStartNoCall DEF Main
  <2>2. CASE Worker
    BY <2>2, IpcWorkerTypeInv, ClientWorkerTypeInv, WorkerOneCall DEF Worker
  <2>3. CASE UNCHANGED vars
    <3>. UNCHANGED <<pipeVars, ipcVars, serverVars>>
      BY <2>3 DEF vars
    <3>1. PipeTypeOK'
      BY PipeUnchanged DEF TypeOK, IpcTypeOK
    <3>. QED BY <3>1 DEF TypeInv, TypeOK, IpcTypeOK, BuffersFull, OneCallOfAKind,
                 pipeVars, ipcVars, mainVars, queueVars, workerVars, serverVars
  <2>. QED BY <2>1, <2>2, <2>3 DEF Next
<1>. QED BY <1>1, <1>2, PTL DEF Spec

\* Every variable keeps its type: no list of the client ever holds an empty or
\* an already cleared buffer as a message.
THEOREM TypeCorrect == Spec => []TypeOK
<1>1. TypeInv /\ OneCallOfAKind => TypeOK
  BY DEF TypeInv
<1>. QED BY <1>1, Invariance, PTL

\* No OVERLAPPED and no buffer of the client is used again before its last
\* call completed and the completion was consumed.
THEOREM OverlappedSafe == Spec => []NoOverlappedReuse
<1>1. TypeInv /\ OneCallOfAKind => NoOverlappedReuse
  BY DEF OneCallOfAKind, NoOverlappedReuse
<1>. QED BY <1>1, Invariance, PTL

-----------------------------------------------------------------------------
(***************************************************************************)
(* No wakeup is lost.                                                      *)
(***************************************************************************)
LEMMA OwnSomebodyLooks ==
    ASSUME TypeInv, OneCallOfAKind, SomebodyLooks, Main \/ Worker
    PROVE  SomebodyLooks'
<1>1. CASE Opening
  <2>1. /\ UNCHANGED <<writeMsgsList, notEmptyEvent, bWritting>>
        /\ mainPc # "signal" /\ workerPc \in {"none", workerPc'}
    BY <1>1 DEF Opening, createFile, createFileBusy, createFileFails, waitNamedPipe,
                waitNamedPipeFails, setHandleState, setHandleStateFails, queueVars,
                workerVars, OneCallOfAKind
  <2>. QED BY <2>1 DEF SomebodyLooks
<1>2. CASE IpcMain
  BY <1>2, IpcMainSomebodyLooks DEF TypeInv, TypeOK
<1>3. CASE IpcWorker
  BY <1>3, IpcWorkerSomebodyLooks
<1>4. CASE startWorker \/ handleReadError \/ flushAndClose
  BY <1>4 DEF startWorker, handleReadError, flushAndClose, mainVars, queueVars,
              SomebodyLooks
<1>. QED BY <1>1, <1>2, <1>3, <1>4 DEF Main, Worker

\* A worker that sleeps with a message queued is always about to be woken, in
\* any interleaving of the two threads, the opening of the pipe included.
THEOREM WakeupSafe == Spec => []NoLostWakeup
<1>1. Init => SomebodyLooks
  BY DEF Init, IpcInit, SomebodyLooks
<1>2. TypeInv /\ OneCallOfAKind /\ SomebodyLooks /\ [Next]_vars => SomebodyLooks'
  <2>. SUFFICES ASSUME TypeInv, OneCallOfAKind, SomebodyLooks, [Next]_vars
                PROVE  SomebodyLooks'
    OBVIOUS
  <2>1. CASE Main \/ Worker
    BY <2>1, OwnSomebodyLooks
  <2>2. CASE Server \/ UNCHANGED vars
    <3>1. UNCHANGED ipcVars
      BY <2>2 DEF Server, serverListen, serverWrite, serverRead, serverDisconnect,
                  serverClose, vars
    <3>. QED BY <3>1 DEF ipcVars, mainVars, queueVars, workerVars, SomebodyLooks
  <2>. QED BY <2>1, <2>2 DEF Next
<1>3. SomebodyLooks => NoLostWakeup
  BY DEF SomebodyLooks, NoLostWakeup
<1>. QED BY <1>1, <1>2, <1>3, Invariance, PTL DEF Spec

-----------------------------------------------------------------------------
(***************************************************************************)
(* What an outstanding read says of the pipe.                              *)
(***************************************************************************)
LEMMA InitReadState == Init => ReadState
<1>. SUFFICES ASSUME Init PROVE ReadState
  OBVIOUS
<1>1. Received = <<>>
  BY ClientAssumption DEF Init, IpcInit, Received, Optional, End, NoMsg
<1>. QED BY <1>1 DEF Init, ReadState, End

\* A call of either end that breaks the connection leaves no read outstanding.
LEMMA BreakReadState ==
    ASSUME TypeOK, DisconnectNamedPipe \/ (\E e \in End : CloseHandle(e))
    PROVE  /\ readBuff' = readBuff /\ readOp'["client"] # "pending"
           /\ readOp'["client"] = "error" => readOp["client"] \in {"pending", "error"}
           /\ data["client"] = <<>> => data'["client"] = <<>>
           /\ pipeState' \in {"connected", "serverClosed"} =>
                  pipeState \in {"connected", "serverClosed"}
<1>a. "client" \in End /\ PipeTypeOK
  BY DEF End, TypeOK, IpcTypeOK
<1>1. /\ readBuff' = readBuff /\ readOp'["client"] = Break(readOp["client"])
      /\ data["client"] = <<>> => data'["client"] = <<>>
  BY <1>a DEF DisconnectNamedPipe, CloseHandle, PipeTypeOK
<1>2. pipeState' \in {"connected", "serverClosed"} =>
          pipeState \in {"connected", "serverClosed"}
  <2>1. CASE DisconnectNamedPipe
    BY <2>1 DEF DisconnectNamedPipe
  <2>2. CASE CloseHandle("server")
    BY <2>2 DEF CloseHandle, AfterClose
  <2>3. CASE CloseHandle("client")
    BY <2>3 DEF CloseHandle, AfterClose
  <2>. QED BY <2>1, <2>2, <2>3 DEF End
<1>. QED BY <1>1, <1>2 DEF Break

LEMMA NextReadState ==
    ASSUME TypeInv, OneCallOfAKind, ReadState, [Next]_vars
    PROVE  ReadState'
<1>. USE ClientAssumption DEF ReadState, OneCallOfAKind
<1>. USE DEF mainVars, queueVars, workerVars, pipeVars, ipcVars, serverVars
<1>a. /\ "server" \in End /\ "client" \in End /\ TypeOK /\ PipeTypeOK
      /\ Peer("client") = "server" /\ Peer("server") = "client"
  BY DEF End, TypeInv, TypeOK, IpcTypeOK, Peer
<1>b. ASSUME UNCHANGED <<dispatched, readMsgsList, readBuff>> PROVE Received' = Received
  BY <1>b DEF Received
<1>1. CASE createFile \/ createFileBusy \/ createFileFails \/ waitNamedPipe
           \/ waitNamedPipeFails \/ setHandleState
  <2>1. /\ UNCHANGED <<dispatched, readMsgsList, readBuff, readOp, data, serverSent>>
        /\ workerPc' \in {workerPc, "start"} /\ workerPc = "none"
        /\ mainPc' \in {"opening", "waitPipe"} => mainPc \in {"opening", "waitPipe"}
        /\ pipeState' = pipeState \/ mainPc' = "setMode"
    BY <1>1 DEF createFile, OpenClient, createFileBusy, createFileFails, waitNamedPipe,
                waitNamedPipeFails, setHandleState
  <2>2. readOp["client"] = "idle"
    BY <2>1
  <2>. QED BY <1>b, <2>1, <2>2
<1>2. CASE setHandleStateFails \/ ReturnFromMain
  <2>1. /\ \E e \in End : CloseHandle(e)
        /\ mainPc' = "returned" /\ workerPc' \in {workerPc, "exited"}
    BY <1>2, <1>a DEF setHandleStateFails, ReturnFromMain
  <2>. QED BY <1>a, <2>1, BreakReadState
<1>3. CASE sendMsgPush \/ sendMsgSignal \/ getMsgs \/ close
  BY <1>3 DEF sendMsgPush, sendMsgSignal, getMsgs, close
<1>4. CASE Worker
  <2>0. mainPc \notin {"opening", "waitPipe"} \/ workerPc = "none"
    OBVIOUS
  <2>1. CASE startWorker \/ rearmRead
    <3>1. /\ ReadFile("client") /\ readBuff["client"] = NoMsg
          /\ mainPc' = mainPc /\ workerPc # "none" /\ workerPc' = "wait"
      BY <2>1 DEF startWorker, rearmRead
    <3>2. readOp'["client"] # "error" /\ (readOp'["client"] = "pending" =>
              /\ pipeState' = "connected" /\ data'["client"] = <<>>
              /\ readBuff'["client"] = NoMsg)
      BY <3>1, <1>a DEF ReadFile, PipeTypeOK
    <3>. QED BY <3>1, <3>2
  <2>2. CASE handleReadError \/ flushAndClose \/ handleWriteError
    <3>1. /\ \E e \in End : CloseHandle(e)
          /\ mainPc' = mainPc /\ workerPc # "none" /\ workerPc' = "exited"
      BY <2>2, <1>a DEF handleReadError, flushAndClose, handleWriteError
    <3>. QED BY <1>a, <3>1, BreakReadState
  <2>3. CASE waitRead
    <3>1. /\ workerPc = "wait" /\ mainPc' = mainPc /\ readOp'["client"] = "idle"
          /\ readBuff' = readBuff /\ workerPc' \in {"readData", "readError"}
          /\ workerPc' = "readError" => readOp["client"] = "error"
      BY <2>3, <1>a DEF waitRead, WaitReturns, EventSet, Signaled, ReadHandler, PipeTypeOK
    <3>. QED BY <3>1
  <2>4. CASE waitWrite \/ waitStop \/ waitNotEmpty
    BY <2>4 DEF waitWrite, waitStop, waitNotEmpty, WaitReturns, WriteHandler
  <2>5. CASE handleReadData
    BY <2>5, <1>a DEF handleReadData, PipeTypeOK
  <2>6. CASE handleWriteDone \/ handleNotEmptyEvent \/ popMsg
    BY <2>6 DEF handleWriteDone, handleNotEmptyEvent, popMsg, NextWritePc
  <2>7. CASE startWrite
    <3>1. /\ data'["client"] = data["client"] /\ readOp'["client"] = readOp["client"]
          /\ readBuff'["client"] = readBuff["client"] /\ pipeState' = pipeState
      BY <2>7, <1>a DEF startWrite, WriteFile, PutMsg, PipeTypeOK
    <3>. QED BY <2>7, <3>1 DEF startWrite
  <2>. QED BY <1>4, <2>1, <2>2, <2>3, <2>4, <2>5, <2>6, <2>7 DEF Worker, IpcWorker
<1>5. CASE serverListen
  BY <1>5, <1>b DEF serverListen, StartListening
<1>6. CASE serverWrite
  BY <1>6, <1>a DEF serverWrite, PutMsg, PipeTypeOK
<1>7. CASE serverRead
  BY <1>7, <1>a, <1>b DEF serverRead, TakeMsg, PipeTypeOK
<1>8. CASE serverDisconnect \/ serverClose
  <2>1. /\ DisconnectNamedPipe \/ (\E e \in End : CloseHandle(e))
        /\ UNCHANGED <<mainPc, workerPc, dispatched, readMsgsList, serverSent>>
    BY <1>8, <1>a DEF serverDisconnect, serverClose
  <2>. QED BY <1>a, <1>b, <2>1, BreakReadState
<1>9. CASE UNCHANGED vars
  BY <1>9, <1>b DEF vars
<1>. QED BY <1>1, <1>2, <1>3, <1>4, <1>5, <1>6, <1>7, <1>8, <1>9
         DEF Next, Main, Opening, IpcMain, closeJoined, closeTimedOut, Server

LEMMA ReadStateInvariant == Spec => []ReadState
BY InitReadState, NextReadState, Invariance, PTL DEF Spec

-----------------------------------------------------------------------------
(***************************************************************************)
(* A place of one message is used only while that message is in it.        *)
(***************************************************************************)
LEMMA InitOnePlace == Init => OnePlaceEach
BY ClientAssumption DEF Init, IpcInit, OnePlaceEach, Peer, End, NoMsg

\* What the two lemmas about the object's own steps ask for.
LEMMA PopAndWrite ==
    ASSUME TypeInv, OneCallOfAKind
    PROVE  /\ popMsg => writeMsgsList # <<>>
           /\ startWrite => msg \in Msg /\ writeOp[m_type] = "idle"
BY ClientAssumption DEF TypeInv, BuffersFull, OneCallOfAKind, popMsg, startWrite

\* The steps of either process that break the connection.
Breaks == DisconnectNamedPipe \/ (\E e \in End : CloseHandle(e))

LEMMA NextOnePlace ==
    ASSUME TypeInv, OneCallOfAKind, OnePlaceEach, [Next]_vars
    PROVE  OnePlaceEach'
<1>. USE ClientAssumption DEF mainVars, workerVars, ipcVars
<1>a. /\ IpcTypeOK /\ PipeTypeOK /\ "server" \in End /\ "client" \in End
      /\ Peer("server") = "client" /\ Peer("client") = "server"
  BY DEF TypeInv, TypeOK, IpcTypeOK, End, Peer
<1>b. ASSUME Breaks, msg' = msg, workerPc' \in {workerPc, "exited"}
      PROVE  OnePlaceEach'
  <2>1. writeBuff'["client"] = NoMsg
    BY <1>a, <1>b DEF Breaks, DisconnectNamedPipe, CloseHandle
  <2>. QED BY <1>a, <1>b, <2>1, CallsKeepPeerIdle DEF Breaks, OnePlaceEach
<1>1. CASE IpcMain \/ IpcWorker
  BY <1>1, <1>a, PopAndWrite, IpcOnePlace
<1>2. CASE startWorker
  <2>1. ReadFile(m_type)
    BY <1>2 DEF startWorker
  <2>. QED BY <1>2, <1>a, <2>1, ReadFileOffWire DEF startWorker, OnePlaceEach
<1>3. CASE handleReadError \/ flushAndClose \/ setHandleStateFails \/ serverDisconnect
           \/ serverClose
  BY <1>3, <1>a, <1>b DEF handleReadError, flushAndClose, setHandleStateFails,
                          serverDisconnect, serverClose, Breaks
<1>4. CASE createFile \/ serverListen
  BY <1>4 DEF createFile, OpenClient, serverListen, StartListening, OnePlaceEach
<1>5. CASE createFileBusy \/ createFileFails \/ waitNamedPipe \/ waitNamedPipeFails
           \/ setHandleState
  BY <1>5 DEF createFileBusy, createFileFails, waitNamedPipe, waitNamedPipeFails,
              setHandleState, pipeVars, OneCallOfAKind, OnePlaceEach
<1>6. CASE serverWrite
  BY <1>6, <1>a DEF serverWrite, PutMsg, PipeTypeOK, OnePlaceEach
<1>7. CASE serverRead
  <2>1. /\ writeOp'["server"] = writeOp["server"]
        /\ writeOp'["client"] # "pending" => writeBuff'["client"] = NoMsg
    BY <1>7, <1>a DEF serverRead, TakeMsg, PipeTypeOK, OnePlaceEach
  <2>. QED BY <1>7, <1>a, <2>1 DEF serverRead, OnePlaceEach
<1>8. CASE UNCHANGED vars
  BY <1>8 DEF vars, pipeVars, OnePlaceEach
<1>. QED BY <1>1, <1>2, <1>3, <1>4, <1>5, <1>6, <1>7, <1>8
         DEF Next, Main, Opening, Worker, Server

LEMMA OnePlaceInvariant == Spec => []OnePlaceEach
BY InitOnePlace, NextOnePlace, Invariance, PTL DEF Spec

-----------------------------------------------------------------------------
(***************************************************************************)
(* What the server wrote is conserved.                                     *)
(***************************************************************************)
LEMMA InboundIs == InboundConserved <=> (ClientInside => Inbound = UpTo(serverSent))
BY ClientAssumption DEF InboundConserved, ClientInside, Inbound, UpTo

\* A client that has opened the pipe loses its end once.
LEMMA EndOpensOnce ==
    ASSUME [Next]_vars, ClientInside', ~createFile
    PROVE  ClientInside
<1>. USE ClientAssumption DEF ClientInside, pipeVars, ipcVars
<1>1. ASSUME DisconnectNamedPipe \/ CloseHandle("server") \/ CloseHandle("client")
      PROVE  ClientInside
  BY <1>1 DEF DisconnectNamedPipe, CloseHandle, AfterClose
<1>2. CASE setHandleStateFails \/ ReturnFromMain \/ handleWriteError \/ handleReadError
           \/ flushAndClose \/ serverDisconnect \/ serverClose
  BY <1>1, <1>2 DEF setHandleStateFails, ReturnFromMain, handleWriteError,
                    handleReadError, flushAndClose, serverDisconnect, serverClose
<1>3. CASE createFileBusy \/ createFileFails \/ waitNamedPipe \/ waitNamedPipeFails
           \/ setHandleState \/ sendMsgPush \/ sendMsgSignal \/ getMsgs \/ close
           \/ UNCHANGED vars
  BY <1>3 DEF createFileBusy, createFileFails, waitNamedPipe, waitNamedPipeFails,
              setHandleState, sendMsgPush, sendMsgSignal, getMsgs, close, vars
<1>4. CASE waitRead \/ waitWrite \/ waitStop \/ waitNotEmpty
  BY <1>4 DEF waitRead, waitWrite, waitStop, waitNotEmpty, WaitReturns
<1>5. CASE handleReadData \/ rearmRead \/ startWorker \/ handleWriteDone
           \/ handleNotEmptyEvent \/ popMsg \/ startWrite
  BY <1>5 DEF handleReadData, rearmRead, startWorker, handleWriteDone,
              handleNotEmptyEvent, popMsg, startWrite, ReadFile, WriteFile
<1>6. CASE serverListen \/ serverWrite \/ serverRead
  BY <1>6 DEF serverListen, StartListening, serverWrite, serverRead
<1>. QED BY <1>2, <1>3, <1>4, <1>5, <1>6
         DEF Next, Main, Opening, IpcMain, closeJoined, closeTimedOut, Worker, IpcWorker,
             Server

\* No step but a write of the server changes what is there, as long as the
\* client has its end.
LEMMA NextInbound ==
    ASSUME TypeInv, OneCallOfAKind, ReadState, OnePlaceEach, [Next]_vars, ClientInside',
           ~serverWrite
    PROVE  Inbound' = Inbound /\ serverSent' = serverSent
<1>. USE ClientAssumption DEF mainVars, ipcVars, serverVars
<1>a. /\ IpcTypeOK /\ PipeTypeOK /\ "server" \in End /\ "client" \in End
      /\ Peer(m_type) = "server" /\ writeOp[Peer(m_type)] # "pending"
  BY DEF TypeInv, TypeOK, IpcTypeOK, OnePlaceEach, End, Peer
<1>b. ~CloseHandle("client") /\ ~DisconnectNamedPipe
  BY DEF CloseHandle, AfterClose, DisconnectNamedPipe, ClientInside
<1>1. CASE (IpcMain \/ IpcWorker) /\ UNCHANGED serverVars
  <2>1. /\ handleReadData => readBuff[m_type] \in Msg
        /\ rearmRead => readBuff[m_type] = NoMsg
    BY DEF handleReadData, rearmRead, TypeInv, BuffersFull, ReadState
  <2>. QED BY <1>1, <1>a, <1>b, <2>1, IpcInbound
<1>2. CASE startWorker
  BY <1>2, <1>a, ReadFileInbound DEF startWorker, ReadState
<1>3. ASSUME UNCHANGED <<dispatched, readMsgsList, readBuff["client"], data["client"]>>
      PROVE  Inbound' = Inbound
  BY <1>3 DEF Inbound, Received
<1>4. CASE Opening
  BY <1>b, <1>3, <1>4 DEF Opening, createFile, OpenClient, createFileBusy, createFileFails,
      waitNamedPipe, waitNamedPipeFails, setHandleState, setHandleStateFails, pipeVars
<1>5. CASE handleReadError \/ flushAndClose \/ serverDisconnect
  BY <1>b, <1>5 DEF handleReadError, flushAndClose, serverDisconnect
<1>6. CASE serverListen
  BY <1>3, <1>6 DEF serverListen, StartListening
<1>7. CASE serverRead \/ serverClose
  BY <1>3, <1>7, <1>a DEF serverRead, TakeMsg, Peer, serverClose, CloseHandle, PipeTypeOK
<1>8. CASE UNCHANGED vars
  BY <1>3, <1>8 DEF vars, pipeVars
<1>. QED BY <1>1, <1>2, <1>4, <1>5, <1>6, <1>7, <1>8 DEF Next, Main, Worker, Server

\* What the server wrote is all there, once and in order, as long as the client
\* has its end and the server has not discarded it by disconnecting.
THEOREM InboundSafe == Spec => []InboundConserved
<1>1. Init => InboundConserved
  BY DEF Init, InboundConserved
<1>2. /\ TypeInv /\ OneCallOfAKind /\ ReadState /\ OnePlaceEach /\ InboundConserved
      /\ [Next]_vars
      => InboundConserved'
  <2>. SUFFICES ASSUME TypeInv, OneCallOfAKind, ReadState, OnePlaceEach,
                       InboundConserved, [Next]_vars, ClientInside'
                PROVE  Inbound' = UpTo(serverSent')
    BY ClientAssumption DEF InboundConserved, ClientInside, Inbound, UpTo
  <2>a. Inbound = UpTo(serverSent)
    <3>1. CASE createFile
      <4>1. Received = <<>> /\ data["client"] = <<>> /\ serverSent = 0
        BY <3>1 DEF createFile, ReadState
      <4>2. Inbound = <<>> \o <<>> /\ UpTo(serverSent) = <<>>
        BY <4>1, ClientAssumption DEF Inbound, UpTo
      <4>. QED BY <4>2
    <3>2. CASE ~createFile
      BY <3>2, EndOpensOnce, InboundIs
    <3>. QED BY <3>1, <3>2
  <2>1. CASE ~serverWrite
    BY <2>a, <2>1, NextInbound
  <2>2. CASE serverWrite
    <3>1. IpcTypeOK /\ serverSent \in Nat /\ Peer(m_type) = "server"
      BY ClientAssumption DEF TypeInv, TypeOK, Peer
    <3>2. /\ PutMsg("server", serverSent + 1) /\ serverSent' = serverSent + 1
          /\ UNCHANGED <<dispatched, readMsgsList>>
      BY <2>2 DEF serverWrite, ipcVars, mainVars
    <3>3. readOp[m_type] = "pending" => readBuff[m_type] = NoMsg /\ data[m_type] = <<>>
      BY ClientAssumption DEF ReadState
    <3>. QED BY <2>a, <3>1, <3>2, <3>3, PeerWriteInbound
  <2>. QED BY <2>1, <2>2
<1>. QED BY <1>1, <1>2, Invariance, ReadStateInvariant, OnePlaceInvariant, PTL DEF Spec

-----------------------------------------------------------------------------
(***************************************************************************)
(* The client implements the abstract channel.                             *)
(***************************************************************************)
LEMMA InitChannel == Init => Channel!ChanInit
BY ClientAssumption DEF Init, IpcInit, Channel!ChanInit, Optional, NoMsg, End

\* All but the server's read is a step of the object, breaks the connection or
\* moves nothing.
LEMMA NextChannelStep ==
    ASSUME TypeInv, OneCallOfAKind, OnePlaceEach, [Next]_vars, ~serverRead
    PROVE  ChannelStep /\ got' = got
<1>. USE ClientAssumption DEF mainVars, queueVars, workerVars, ipcVars, serverVars
<1>a. /\ IpcTypeOK /\ PipeTypeOK /\ "server" \in End /\ "client" \in End
      /\ Peer("server") = "client" /\ Peer("client") = "server"
  BY DEF TypeInv, TypeOK, IpcTypeOK, End, Peer
<1>1. CASE (IpcMain \/ IpcWorker) /\ UNCHANGED serverVars
  BY <1>1, <1>a, PopAndWrite, IpcChannelStep
<1>2. CASE startWorker
  <2>1. ReadFile(m_type) /\ UNCHANGED <<sent, msg, writeMsgsList, got>>
    BY <1>2 DEF startWorker
  <2>. QED BY <2>1, <1>a, ReadFileOffWire, NothingMoves
<1>3. CASE handleReadError \/ flushAndClose \/ setHandleStateFails \/ serverDisconnect
           \/ serverClose
  <2>1. Breaks /\ UNCHANGED <<sent, msg, writeMsgsList, got>>
    BY <1>3, <1>a DEF handleReadError, flushAndClose, setHandleStateFails,
                      serverDisconnect, serverClose, Breaks
  <2>. QED BY <2>1, <1>a, ClosingShortens, ClosingDisconnects DEF Breaks, ChannelStep, Queue
<1>4. CASE createFile \/ serverListen
  BY <1>4, NothingMoves DEF createFile, OpenClient, serverListen, StartListening
<1>5. CASE createFileBusy \/ createFileFails \/ waitNamedPipe \/ waitNamedPipeFails
           \/ setHandleState \/ UNCHANGED vars
  BY <1>5, NothingMoves DEF createFileBusy, createFileFails, waitNamedPipe,
                            waitNamedPipeFails, setHandleState, vars, pipeVars
<1>6. CASE serverWrite
  <2>1. data'["server"] = data["server"]
    BY <1>6, <1>a DEF serverWrite, PutMsg, PipeTypeOK
  <2>. QED BY <1>6, <1>a, <2>1, NothingMoves DEF serverWrite
<1>. QED BY <1>1, <1>2, <1>3, <1>4, <1>5, <1>6 DEF Next, Main, Opening, Worker, Server

LEMMA NextChannel ==
    ASSUME TypeInv, OneCallOfAKind, OnePlaceEach, [Next]_vars
    PROVE  [Channel!ChanNext]_(Channel!chanVars)
<1>a. /\ IpcTypeOK /\ Peer(m_type) = "server" /\ m_type = "client"
  BY ClientAssumption DEF TypeInv, TypeOK, Peer
<1>b. /\ Queue = Optional(msg) \o writeMsgsList
      /\ Wire = data["server"] \o Optional(writeBuff["client"])
  BY <1>a DEF Queue, Wire
<1>c. /\ Queue' = Optional(msg)' \o writeMsgsList'
      /\ Wire' = data'["server"] \o Optional(writeBuff["client"])'
  BY <1>a DEF Queue, Wire
<1>1. CASE serverRead
  <2>1. /\ Wire # <<>> /\ got' = Append(got, Head(Wire)) /\ Wire' = Tail(Wire)
    BY <1>1, <1>a, TakeDelivers DEF serverRead, TypeInv, BuffersFull
  <2>2. UNCHANGED <<sent, Queue>>
    BY <1>1 DEF serverRead, ipcVars, mainVars, queueVars, workerVars, Queue
  <2>3. Channel!Deliver
    BY <2>1, <2>2, <1>b, <1>c DEF Channel!Deliver
  <2>. QED BY <2>3 DEF Channel!ChanNext
<1>2. CASE ~serverRead
  <2>1. ChannelStep /\ got' = got
    BY <1>2, NextChannelStep
  <2>. QED BY <2>1, <1>b, <1>c
           DEF ChannelStep, Shortened, Channel!ChanNext, Channel!chanVars,
               Channel!Send, Channel!Transmit, Channel!Refuse, Channel!Lose
<1>. QED BY <1>1, <1>2

\* The way from sendMsg to the server, through the pending write, the exit and
\* every way to lose the connection, implements the abstract channel.
THEOREM OutboundSafe == Spec => OutboundIsChannel
BY OnePlaceInvariant, InitChannel, NextChannel, Invariance, PTL
   DEF Spec, OutboundIsChannel, Channel!ChanSpec

\* What the abstract channel promises, of the channel implemented here.
ChannelProofs == INSTANCE MessageChannel_proofs WITH
    queue <- Optional(msg) \o writeMsgsList,
    wire <- data["server"] \o Optional(writeBuff["client"])

\* The server reads the messages in the order of the sendMsg calls, each at most once,
\* whatever connections are lost on the way.
THEOREM DeliveredInOrder == Spec => []Channel!InOrderAtMostOnce
<1>1. ChannelProofs!ChanSpec => []ChannelProofs!InOrderAtMostOnce
  BY ChannelProofs!ChannelOrder
<1>2. Channel!ChanInit => ChannelProofs!ChanInit
  BY DEF Channel!ChanInit, ChannelProofs!ChanInit
<1>3. [Channel!ChanNext]_(Channel!chanVars) => [ChannelProofs!ChanNext]_(ChannelProofs!chanVars)
  BY DEF Channel!ChanNext, Channel!chanVars, Channel!Send, Channel!Transmit,
         Channel!Refuse, Channel!Deliver, Channel!Lose, Channel!Abandon,
         ChannelProofs!ChanNext, ChannelProofs!chanVars, ChannelProofs!Send,
         ChannelProofs!Transmit, ChannelProofs!Refuse, ChannelProofs!Deliver,
         ChannelProofs!Lose, ChannelProofs!Abandon
<1>4. ChannelProofs!InOrderAtMostOnce => Channel!InOrderAtMostOnce
  BY DEF Channel!InOrderAtMostOnce, Channel!Increasing, ChannelProofs!InOrderAtMostOnce,
         ChannelProofs!Increasing
<1>. QED BY <1>1, <1>2, <1>3, <1>4, OutboundSafe, PTL
         DEF OutboundIsChannel, Channel!ChanSpec, ChannelProofs!ChanSpec

-----------------------------------------------------------------------------
(***************************************************************************)
(* A close() that is not cut short loses nothing of what was written.      *)
(***************************************************************************)
Accounted == Len(got) + Len(Wire) + Len(Queue)

\* Nothing is sent before the pipe is open, and as long as it is connected
\* every message is read, on the wire or queued.
WholeWhileConnected ==
    /\ mainPc \in {"opening", "waitPipe"} => sent = 0 /\ Accounted = 0
    /\ pipeState = "connected" => Accounted = sent

\* The pipe is opened once, by createFile.
LEMMA ConnectsOnce ==
    ASSUME [Next]_vars, pipeState' = "connected", pipeState # "connected"
    PROVE  createFile
<1>. USE ClientAssumption DEF pipeVars, ipcVars
<1>1. CASE setHandleStateFails \/ ReturnFromMain \/ handleWriteError \/ handleReadError
           \/ flushAndClose \/ serverDisconnect \/ serverClose
  <2>1. DisconnectNamedPipe \/ (\E e \in End : CloseHandle(e))
    BY <1>1 DEF setHandleStateFails, ReturnFromMain, handleWriteError, handleReadError,
                flushAndClose, serverDisconnect, serverClose, End
  <2>. QED BY <2>1, ClosingDisconnects
<1>2. CASE createFileBusy \/ createFileFails \/ waitNamedPipe \/ waitNamedPipeFails
           \/ setHandleState \/ sendMsgPush \/ sendMsgSignal \/ getMsgs \/ close
           \/ UNCHANGED vars
  BY <1>2 DEF createFileBusy, createFileFails, waitNamedPipe, waitNamedPipeFails,
              setHandleState, sendMsgPush, sendMsgSignal, getMsgs, close, vars
<1>3. CASE waitRead \/ waitWrite \/ waitStop \/ waitNotEmpty
  BY <1>3 DEF waitRead, waitWrite, waitStop, waitNotEmpty, WaitReturns
<1>4. CASE handleReadData \/ rearmRead \/ startWorker \/ handleWriteDone
           \/ handleNotEmptyEvent \/ popMsg \/ startWrite
  BY <1>4 DEF handleReadData, rearmRead, startWorker, handleWriteDone,
              handleNotEmptyEvent, popMsg, startWrite, ReadFile, WriteFile
<1>5. CASE serverListen \/ serverWrite \/ serverRead
  BY <1>5 DEF serverListen, StartListening, serverWrite, serverRead
<1>. QED BY <1>1, <1>2, <1>3, <1>4, <1>5
         DEF Next, Main, Opening, IpcMain, closeJoined, closeTimedOut, Worker, IpcWorker,
             Server

\* Until the pipe is open main sends nothing.
LEMMA OpeningSendsNothing ==
    ASSUME TypeInv, [Next]_vars, mainPc' \in {"opening", "waitPipe"}
    PROVE  mainPc \in {"opening", "waitPipe"} /\ sent' = sent
<1>. USE ClientAssumption DEF mainVars, ipcVars
<1>1. CASE Opening
  BY <1>1 DEF Opening, createFile, createFileBusy, createFileFails, waitNamedPipe,
              waitNamedPipeFails, setHandleState, setHandleStateFails
<1>2. CASE IpcMain
  BY <1>2 DEF IpcMain, sendMsgPush, sendMsgSignal, getMsgs, close, closeJoined,
              closeTimedOut, ReturnFromMain
<1>3. CASE IpcWorker
  BY <1>3 DEF IpcWorker, waitRead, waitWrite, waitStop, waitNotEmpty, WaitReturns,
              handleReadData, rearmRead, handleWriteDone, handleWriteError,
              handleNotEmptyEvent, popMsg, startWrite
<1>4. CASE startWorker \/ handleReadError \/ flushAndClose
  BY <1>4 DEF startWorker, handleReadError, flushAndClose
<1>5. CASE Server \/ UNCHANGED vars
  BY <1>5 DEF Server, serverListen, serverWrite, serverRead, serverDisconnect, serverClose,
              vars
<1>. QED BY <1>1, <1>2, <1>3, <1>4, <1>5 DEF Next, Main, Worker

\* A step adds a message, moves one, or loses some; while the pipe is connected it
\* loses none.
LEMMA NextAccounted ==
    ASSUME TypeInv, OneCallOfAKind, OnePlaceEach, [Next]_vars
    PROVE  /\ Accounted \in Nat
           /\ \/ sent' = sent + 1 /\ Accounted' = Accounted + 1
              \/ sent' = sent /\ Accounted' = Accounted
              \/ /\ sent' = sent /\ Accounted' \in 0 .. Accounted
                 /\ pipeState # "connected" \/ pipeState' # "connected"
<1>a. /\ IpcTypeOK /\ Queue \in Seq(Msg) /\ Wire \in Seq(Msg) /\ got \in Seq(Msg)
      /\ Peer(m_type) = "server" /\ m_type = "client"
  BY ClientAssumption, OutboundParts DEF TypeInv, TypeOK, Peer
<1>b. Len(Queue) \in Nat /\ Len(Wire) \in Nat /\ Len(got) \in Nat
  BY <1>a, LenProperties
<1>c. \A s \in Seq(Msg) : s # <<>> => Len(Tail(s)) = Len(s) - 1 /\ Len(s) > 0
  BY HeadTailProperties, EmptySeq, LenProperties
<1>1. CASE serverRead
  <2>1. Wire # <<>> /\ Wire' = Tail(Wire) /\ got' = Append(got, Head(Wire))
    BY <1>1, <1>a, TakeDelivers DEF serverRead, TypeInv, BuffersFull
  <2>2. UNCHANGED <<sent, Queue>>
    BY <1>1 DEF serverRead, ipcVars, mainVars, queueVars, workerVars, Queue
  <2>3. Len(got') = Len(got) + 1
    BY <1>a, <2>1
  <2>. QED BY <1>a, <1>b, <1>c, <2>1, <2>2, <2>3 DEF Accounted
<1>2. CASE ~serverRead
  <2>1. ChannelStep /\ got' = got
    BY <1>2, NextChannelStep
  <2>2. CASE sent' = sent + 1 /\ Queue' = Append(Queue, sent + 1) /\ Wire' = Wire
    <3>1. Len(Queue') = Len(Queue) + 1
      BY <1>a, <2>2
    <3>. QED BY <1>b, <2>1, <2>2, <3>1 DEF Accounted
  <2>3. CASE sent' = sent /\ Queue # <<>> /\ Queue' = Tail(Queue)
             /\ (Wire' = Append(Wire, Head(Queue))
                 \/ (Wire' = Wire /\ pipeState # "connected"))
    <3>1. Len(Queue') = Len(Queue) - 1 /\ Len(Queue) > 0
      BY <1>a, <1>c, <2>3
    <3>2. Len(Wire') = Len(Wire) + 1 \/ (Len(Wire') = Len(Wire) /\ pipeState # "connected")
      BY <1>a, <2>3
    <3>. QED BY <1>b, <2>1, <2>3, <3>1, <3>2 DEF Accounted
  <2>4. CASE sent' = sent /\ Queue' = Queue
             /\ (Wire' = Wire \/ (Shortened(Wire, Wire') /\ pipeState' # "connected"))
    <3>1. CASE Wire' = Wire
      BY <1>b, <2>1, <2>4, <3>1 DEF Accounted
    <3>2. CASE Shortened(Wire, Wire') /\ pipeState' # "connected"
      <4>1. Len(Wire') \in 0 .. Len(Wire)
        BY <1>a, <1>b, <3>2 DEF Shortened
      <4>. QED BY <1>b, <2>1, <2>4, <3>2, <4>1 DEF Accounted
    <3>. QED BY <2>4, <3>1, <3>2
  <2>. QED BY <2>1, <2>2, <2>3, <2>4 DEF ChannelStep
<1>. QED BY <1>b, <1>1, <1>2 DEF Accounted

LEMMA WholeInvariant == Spec => []WholeWhileConnected
<1>1. Init => WholeWhileConnected
  <2>. SUFFICES ASSUME Init PROVE WholeWhileConnected
    OBVIOUS
  <2>1. Queue = <<>> \o <<>> /\ Wire = <<>> \o <<>> /\ got = <<>> /\ sent = 0
    BY ClientAssumption DEF Init, IpcInit, Queue, Wire, Optional, NoMsg, End, Peer
  <2>2. Accounted = 0
    BY <2>1, ConcatEmptySeq DEF Accounted
  <2>. QED BY <2>1, <2>2 DEF WholeWhileConnected
<1>2. TypeInv /\ OneCallOfAKind /\ OnePlaceEach /\ WholeWhileConnected /\ [Next]_vars
      => WholeWhileConnected'
  <2>. SUFFICES ASSUME TypeInv, OneCallOfAKind, OnePlaceEach, WholeWhileConnected,
                       [Next]_vars
                PROVE  WholeWhileConnected'
    OBVIOUS
  <2>a. sent \in Nat
    BY DEF TypeInv, TypeOK, IpcTypeOK
  <2>1. ASSUME mainPc' \in {"opening", "waitPipe"}
        PROVE  sent' = 0 /\ Accounted' = 0
    BY <2>1, <2>a, NextAccounted, OpeningSendsNothing DEF WholeWhileConnected
  <2>2. ASSUME pipeState' = "connected"
        PROVE  Accounted' = sent'
    <3>1. CASE pipeState = "connected"
      BY <2>a, <2>2, <3>1, NextAccounted DEF WholeWhileConnected
    <3>2. CASE pipeState # "connected"
      <4>1. createFile
        BY <2>2, <3>2, ConnectsOnce
      <4>2. sent = 0 /\ Accounted = 0 /\ sent' = sent
        BY <4>1 DEF createFile, WholeWhileConnected
      <4>. QED BY <4>2, NextAccounted
    <3>. QED BY <3>1, <3>2
  <2>. QED BY <2>1, <2>2 DEF WholeWhileConnected
<1>. QED BY <1>1, <1>2, Invariance, OnePlaceInvariant, PTL DEF Spec

\* When the worker closes the handle at the exit event with the server still there,
\* the server has read every message sent: FlushFileBuffers has waited for it, and
\* nothing was lost before, since the pipe was connected all the time.
THEOREM CloseSafe == Spec => CloseLosesNoWrite
<1>1. /\ TypeInv /\ OneCallOfAKind /\ OnePlaceEach /\ WholeWhileConnected /\ [Next]_vars
      => [workerPc = "stopping" /\ workerPc' = "exited" /\ mainPc' # "returned"
             /\ pipeState = "connected" /\ writeMsgsList = <<>>
          => Len(got) = sent]_vars
  <2>. SUFFICES ASSUME TypeInv, OneCallOfAKind, OnePlaceEach, WholeWhileConnected, Next,
                       workerPc = "stopping", workerPc' = "exited", mainPc' # "returned",
                       pipeState = "connected", writeMsgsList = <<>>
                PROVE  Len(got) = sent
    OBVIOUS
  <2>1. flushAndClose
    <3>1. CASE Opening
      BY <3>1 DEF Opening, createFile, createFileBusy, createFileFails, waitNamedPipe,
                  waitNamedPipeFails, setHandleState, setHandleStateFails, workerVars
    <3>2. CASE IpcMain
      BY <3>2 DEF IpcMain, sendMsgPush, sendMsgSignal, getMsgs, close, closeJoined,
                  closeTimedOut, ReturnFromMain, workerVars
    <3>3. CASE IpcWorker
      BY <3>3 DEF IpcWorker, waitRead, waitWrite, waitStop, waitNotEmpty, WaitReturns,
                  handleReadData, rearmRead, handleWriteDone, handleWriteError,
                  handleNotEmptyEvent, popMsg, startWrite
    <3>4. CASE startWorker \/ handleReadError
      BY <3>4 DEF startWorker, handleReadError
    <3>5. CASE Server
      BY <3>5 DEF Server, serverListen, serverWrite, serverRead, serverDisconnect,
                  serverClose, ipcVars, workerVars
    <3>. QED BY <3>1, <3>2, <3>3, <3>4, <3>5 DEF Next, Main, Worker
  <2>2. /\ data["server"] = <<>> /\ writeBuff["client"] = NoMsg /\ msg = NoMsg
    BY <2>1, ClientAssumption DEF flushAndClose, OnePlaceEach
  <2>3. Wire = <<>> \o <<>> /\ Queue = <<>> \o <<>>
    BY <2>2, ClientAssumption DEF Wire, Queue, Optional, Peer
  <2>4. Len(Wire) = 0 /\ Len(Queue) = 0
    BY <2>3, ConcatEmptySeq
  <2>5. Len(got) \in Nat
    BY LenProperties DEF TypeInv, TypeOK
  <2>. QED BY <2>4, <2>5 DEF WholeWhileConnected, Accounted
<1>. QED BY <1>1, Invariance, OnePlaceInvariant, WholeInvariant, PTL
         DEF Spec, CloseLosesNoWrite

-----------------------------------------------------------------------------
(***************************************************************************)
(* What NamedPipeIpcLink's proofs use, where a NamedPipeIpc of TYPE_SERVER *)
(* is at the other end.                                                    *)
(***************************************************************************)
ClientInv == TypeInv /\ OneCallOfAKind /\ SomebodyLooks

LEMMA OwnStepsKeep ==
    ASSUME ClientInv, Main \/ Worker
    PROVE  ClientInv' /\ OnlyCompletes("server") /\ ClientCall
<1>. USE ClientAssumption DEF ClientInv
<1>a. /\ TypeOK /\ IpcTypeOK /\ PipeTypeOK
      /\ "server" \in End /\ "client" \in End /\ Peer("server") = "client"
      /\ Peer(m_type) = "server" /\ (startWrite => msg \in Msg)
  BY DEF TypeInv, TypeOK, IpcTypeOK, End, Peer, BuffersFull, startWrite
<1>1. TypeInv' /\ OneCallOfAKind'
  BY <1>a, OpeningTypeInv, IpcMainTypeInv, OthersStartNoCall, IpcWorkerTypeInv,
     ClientWorkerTypeInv, WorkerOneCall DEF Main, Worker
<1>2. SomebodyLooks'
  BY <1>a, OwnSomebodyLooks
<1>3. CASE createFile
  BY <1>1, <1>2, <1>3 DEF createFile, OpenClient, OnlyCompletes, ClientCall
<1>4. CASE createFileBusy \/ createFileFails \/ waitNamedPipe \/ waitNamedPipeFails
           \/ setHandleState
  <2>1. UNCHANGED pipeVars
    BY <1>4 DEF createFileBusy, createFileFails, waitNamedPipe, waitNamedPipeFails,
                setHandleState
  <2>. QED BY <1>1, <1>2, <2>1 DEF pipeVars, OnlyCompletes, ClientCall
<1>5. CASE startWorker \/ handleReadError \/ flushAndClose \/ setHandleStateFails
  <2>1. ReadFile("client") \/ CloseHandle("client")
    BY <1>5 DEF startWorker, handleReadError, flushAndClose, setHandleStateFails
  <2>2. OnlyCompletes("server")
    BY <1>a, <2>1, CallsOnlyComplete
  <2>. QED BY <1>1, <1>2, <2>1, <2>2 DEF ClientCall
<1>6. CASE IpcMain \/ IpcWorker
  <2>1. OnlyCompletes("server")
    BY <1>a, <1>6, IpcOnlyCompletes
  <2>2. CASE rearmRead \/ startWrite \/ ReturnFromMain \/ handleWriteError
    <3>1. \/ ReadFile("client") \/ (\E m \in Msg : WriteFile("client", m))
          \/ CloseHandle("client")
      BY <1>a, <2>2 DEF rearmRead, startWrite, ReturnFromMain, handleWriteError
    <3>. QED BY <1>1, <1>2, <2>1, <3>1 DEF ClientCall
  <2>3. CASE waitRead \/ waitWrite \/ handleReadData
    <3>1. UNCHANGED <<pipeState, data, connectOp, readOp["server"], readBuff["server"]>>
      BY <1>a, <2>3 DEF waitRead, waitWrite, WaitReturns, handleReadData, PipeTypeOK
    <3>. QED BY <1>1, <1>2, <2>1, <3>1 DEF ClientCall
  <2>4. CASE waitStop \/ waitNotEmpty
    <3>1. UNCHANGED <<pipeState, data, connectOp, readOp["server"], readBuff["server"]>>
      BY <2>4 DEF waitStop, waitNotEmpty, WaitReturns
    <3>. QED BY <1>1, <1>2, <2>1, <3>1 DEF ClientCall
  <2>5. CASE \/ sendMsgPush \/ sendMsgSignal \/ getMsgs \/ close
             \/ handleWriteDone \/ handleNotEmptyEvent \/ popMsg
    <3>1. UNCHANGED pipeVars
      BY <2>5 DEF sendMsgPush, sendMsgSignal, getMsgs, close, handleWriteDone,
                  handleNotEmptyEvent, popMsg
    <3>. QED BY <1>1, <1>2, <2>1, <3>1 DEF pipeVars, ClientCall
  <2>. QED BY <1>6, <2>2, <2>3, <2>4, <2>5
           DEF IpcMain, IpcWorker, closeJoined, closeTimedOut
<1>. QED BY <1>3, <1>4, <1>5, <1>6 DEF Main, Worker, Opening

\* The client's process ends wherever its threads are.
LEMMA EndKeeps ==
    ASSUME ClientInv, CloseHandle("client") \/ UNCHANGED pipeVars,
           mainPc' = "returned", workerPc' = "exited",
           UNCHANGED <<queueVars, readMsgsList, stopEvent, bWritting, msg, sent,
                       dispatched, serverVars>>
    PROVE  ClientInv' /\ OnlyCompletes("server") /\ ClientCall
<1>. USE DEF ClientInv
<1>a. /\ "server" \in End /\ "client" \in End /\ PipeTypeOK /\ PipeTypeOK'
      /\ Peer("server") = "client"
  BY CloseHandleType, PipeUnchanged DEF End, Peer, TypeInv, TypeOK, IpcTypeOK
<1>b. \A e \in End :
          /\ readOp'[e] \in {readOp[e], Break(readOp[e])} /\ readBuff'[e] = readBuff[e]
          /\ \/ writeOp'[e] = Break(writeOp[e])
             \/ writeOp'[e] = writeOp[e] /\ writeBuff'[e] = writeBuff[e]
  BY DEF CloseHandle, pipeVars
<1>1. TypeInv'
  BY <1>a, <1>b DEF TypeInv, TypeOK, IpcTypeOK, BuffersFull, queueVars, serverVars, MainPc,
                    WorkerPc, Break
<1>2. OneCallOfAKind'
  BY <1>a, <1>b DEF OneCallOfAKind, Break
<1>3. SomebodyLooks'
  BY DEF SomebodyLooks, queueVars
<1>4. OnlyCompletes("server") /\ ClientCall
  <2>1. CASE CloseHandle("client")
    BY <1>a, <2>1, CallsOnlyComplete DEF ClientCall
  <2>2. CASE UNCHANGED pipeVars
    BY <2>2 DEF pipeVars, OnlyCompletes, ClientCall
  <2>. QED BY <2>1, <2>2
<1>. QED BY <1>1, <1>2, <1>3, <1>4

LEMMA ServerCallsKeep ==
    ASSUME ClientInv, OnlyCompletes("client"), PipeTypeOK',
           (writeOp["server"] = "pending" => writeBuff["server"] \in Msg)',
           UNCHANGED <<ipcVars, serverVars>>
    PROVE  ClientInv'
<1>. USE DEF ClientInv, ipcVars, mainVars, queueVars, workerVars
<1>1. TypeInv'
  BY DEF TypeInv, TypeOK, IpcTypeOK, BuffersFull, OnlyCompletes, serverVars
<1>2. OneCallOfAKind'
  BY DEF OneCallOfAKind, OnlyCompletes
<1>3. SomebodyLooks'
  BY DEF SomebodyLooks
<1>. QED BY <1>1, <1>2, <1>3

\* Before it opens the pipe and when its process or its worker has ended, the
\* client is not in the pipe.
ClientOut ==
    mainPc \in {"opening", "waitPipe", "returned"} \/ workerPc = "exited" => ~ClientInside

LEMMA OwnStepsKeepOut ==
    ASSUME ClientInv, ClientOut, Main \/ Worker
    PROVE  ClientOut'
<1>. USE ClientAssumption DEF mainVars, queueVars, workerVars, pipeVars
<1>1. CASE CloseHandle("client")
  BY <1>1 DEF CloseHandle, AfterClose, ClientOut, ClientInside
<1>2. CASE Opening /\ ~CloseHandle("client")
  BY <1>2 DEF Opening, createFile, OpenClient, createFileBusy, createFileFails, waitNamedPipe,
              waitNamedPipeFails, setHandleState, setHandleStateFails, ClientOut,
              ClientInside, ClientInv, OneCallOfAKind
<1>3. CASE startWorker \/ rearmRead \/ startWrite
  <2>1. pipeState' = pipeState /\ mainPc' = mainPc /\ workerPc' = "wait"
        /\ workerPc \in {"start", "rearm", "write"}
    BY <1>3 DEF startWorker, rearmRead, startWrite, ReadFile, WriteFile
  <2>. QED BY <2>1 DEF ClientOut, ClientInside
<1>4. CASE ReturnFromMain \/ handleWriteError \/ handleReadError \/ flushAndClose
  BY <1>1, <1>4 DEF ReturnFromMain, handleWriteError, handleReadError, flushAndClose
<1>5. CASE sendMsgPush \/ sendMsgSignal \/ getMsgs \/ close
  BY <1>5 DEF sendMsgPush, sendMsgSignal, getMsgs, close, ClientOut, ClientInside
<1>6. CASE \/ waitRead \/ waitWrite \/ waitStop \/ waitNotEmpty \/ handleReadData
           \/ handleWriteDone \/ handleNotEmptyEvent \/ popMsg
  <2>1. pipeState' = pipeState /\ mainPc' = mainPc /\ workerPc' # "exited"
    BY <1>6 DEF waitRead, waitWrite, waitStop, waitNotEmpty, WaitReturns, ReadHandler,
                WriteHandler, handleReadData, handleWriteDone, handleNotEmptyEvent,
                NextWritePc, popMsg
  <2>. QED BY <2>1 DEF ClientOut, ClientInside
<1>. QED BY <1>1, <1>2, <1>3, <1>4, <1>5, <1>6
         DEF Main, Worker, IpcMain, IpcWorker, closeJoined, closeTimedOut

LEMMA OwnBothWays ==
    ASSUME ClientInv, Settled, OwnBuffers, Main \/ Worker
    PROVE  BothWays
<1>. USE ClientAssumption DEF mainVars, queueVars, workerVars
<1>a. IpcTypeOK /\ PipeTypeOK /\ "client" \in End /\ "server" \in End
  BY DEF ClientInv, TypeInv, TypeOK, IpcTypeOK, End
<1>1. CASE IpcMain \/ IpcWorker
  BY <1>1, <1>a, PopAndWrite, IpcBothWays
     DEF ClientInv, TypeInv, BuffersFull, OneCallOfAKind, handleReadData, rearmRead
<1>2. CASE startWorker
  BY <1>2, <1>a, CallsKeepWays DEF startWorker, ClientInv, OneCallOfAKind
<1>3. CASE handleReadError \/ flushAndClose
  BY <1>3, <1>a, CallsKeepWays DEF handleReadError, flushAndClose
<1>4. CASE setHandleStateFails
  <2>1. workerPc = "none"
    BY <1>4 DEF setHandleStateFails, ClientInv, OneCallOfAKind
  <2>. QED BY <1>4, <1>a, <2>1, CallsKeepWays DEF setHandleStateFails
<1>5. CASE createFile
  <2>1. /\ UNCHANGED <<sent, msg, writeMsgsList, dispatched, readMsgsList, data, readBuff,
                       writeBuff, readOp, writeOp, workerPc>>
        /\ pipeState = "listening" /\ pipeState' = "connected"
    BY <1>5 DEF createFile, OpenClient
  <2>2. Settled'
    BY <2>1 DEF Settled, ClientInside
  <2>3. OwnBuffers' /\ \A f \in End : Shortened(Way(f), Way(f)')
    BY <2>1 DEF OwnBuffers, Way, Shortened
  <2>. QED BY <2>1, <2>2, <2>3, WaysKept
<1>6. CASE createFileBusy \/ createFileFails \/ waitNamedPipe \/ waitNamedPipeFails
           \/ setHandleState
  <2>1. UNCHANGED <<pipeVars, sent, msg, writeMsgsList, dispatched, readMsgsList>>
    BY <1>6 DEF createFileBusy, createFileFails, waitNamedPipe, waitNamedPipeFails,
                setHandleState
  <2>2. workerPc' = workerPc \/ (workerPc = "none" /\ workerPc' = "start")
    BY <1>6 DEF createFileBusy, createFileFails, waitNamedPipe, waitNamedPipeFails,
                setHandleState, ClientInv, OneCallOfAKind
  <2>3. OwnBuffers'
    BY <2>1, <2>2 DEF pipeVars, OwnBuffers
  <2>. QED BY <2>1, <2>3, WaysUntouched DEF pipeVars
<1>. QED BY <1>1, <1>2, <1>3, <1>4, <1>5, <1>6 DEF Main, Worker, Opening
=============================================================================
