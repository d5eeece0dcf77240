------------------------ MODULE NamedPipeIpc_proofs -------------------------
(***************************************************************************)
(* What the proofs about a server and about a client of namedpipeipc have  *)
(* in common: the calls on the pipe, the lists a message passes through,   *)
(* the wakeup of the worker, and the way of a message from sendMsg to the  *)
(* pipe.                                                                   *)
(***************************************************************************)
EXTENDS NamedPipeIpc, SequenceTheorems, TLAPS

(***************************************************************************)
(* The calls on the pipe keep its types.                                   *)
(***************************************************************************)
LEMMA TakeMsgType ==
    ASSUME PipeTypeOK, NEW e \in End, TakeMsg(e), data[e] # <<>>,
           writeOp[Peer(e)] = "pending" => writeBuff[Peer(e)] \in Msg
    PROVE  /\ data' \in [End -> Seq(Msg)]
           /\ writeOp' \in [End -> OpStatus]
           /\ writeBuff' \in [End -> Nat]
<1>1. data[e] \in Seq(Msg) /\ Tail(data[e]) \in Seq(Msg)
  BY DEF PipeTypeOK
<1>2. Peer(e) \in End
  BY DEF Peer, End
<1>3. CASE writeOp[Peer(e)] = "pending"
  <2>1. Append(Tail(data[e]), writeBuff[Peer(e)]) \in Seq(Msg)
    BY <1>1, <1>3
  <2>2. /\ data' = [data EXCEPT ![e] = Append(Tail(data[e]), writeBuff[Peer(e)])]
        /\ writeOp' = [writeOp EXCEPT ![Peer(e)] = "success"]
        /\ writeBuff' = [writeBuff EXCEPT ![Peer(e)] = 0]
    BY <1>3 DEF TakeMsg, NoMsg
  <2>3. data' \in [End -> Seq(Msg)]
    BY <2>1, <2>2 DEF PipeTypeOK
  <2>4. writeOp' \in [End -> OpStatus] /\ writeBuff' \in [End -> Nat]
    BY <1>2, <2>2 DEF PipeTypeOK, OpStatus
  <2>. QED BY <2>3, <2>4
<1>4. CASE writeOp[Peer(e)] # "pending"
  BY <1>1, <1>4 DEF TakeMsg, PipeTypeOK
<1>. QED BY <1>3, <1>4

LEMMA ReadFileType ==
    ASSUME PipeTypeOK, NEW e \in End, ReadFile(e),
           writeOp[Peer(e)] = "pending" => writeBuff[Peer(e)] \in Msg
    PROVE  PipeTypeOK' /\ (readOp'[e] = "success" => readBuff'[e] \in Msg)
<1>1. CASE data[e] # <<>>
  <2>1. Head(data[e]) \in Msg
    BY <1>1 DEF PipeTypeOK
  <2>2. TakeMsg(e)
    BY <1>1 DEF ReadFile
  <2>3. /\ data' \in [End -> Seq(Msg)] /\ writeOp' \in [End -> OpStatus]
        /\ writeBuff' \in [End -> Nat]
    BY <1>1, <2>2, TakeMsgType
  <2>4. /\ readOp' = [readOp EXCEPT ![e] = "success"]
        /\ readBuff' = [readBuff EXCEPT ![e] = Head(data[e])]
    BY <1>1 DEF ReadFile
  <2>5. readOp' \in [End -> OpStatus] /\ readBuff' \in [End -> Nat] /\ readBuff'[e] \in Msg
    BY <2>1, <2>4 DEF PipeTypeOK, OpStatus, Msg
  <2>. QED BY <1>1, <2>3, <2>5 DEF ReadFile, PipeTypeOK
<1>2. CASE data[e] = <<>>
  BY <1>2 DEF ReadFile, PipeTypeOK, OpStatus
<1>. QED BY <1>1, <1>2

LEMMA PutMsgType ==
    ASSUME PipeTypeOK, NEW e \in End, NEW m \in Msg, PutMsg(e, m)
    PROVE  /\ data' \in [End -> Seq(Msg)]
           /\ readOp' \in [End -> OpStatus]
           /\ readBuff' \in [End -> Nat]
<1>1. Peer(e) \in End
  BY DEF Peer, End
<1>2. CASE readOp[Peer(e)] = "pending"
  <2>1. /\ readOp' = [readOp EXCEPT ![Peer(e)] = "success"]
        /\ readBuff' = [readBuff EXCEPT ![Peer(e)] = m]
        /\ data' = data
    BY <1>2 DEF PutMsg
  <2>. QED BY <1>1, <2>1 DEF PipeTypeOK, OpStatus, Msg
<1>3. CASE readOp[Peer(e)] # "pending"
  <2>1. Append(data[Peer(e)], m) \in Seq(Msg)
    BY <1>1 DEF PipeTypeOK
  <2>2. data' = [data EXCEPT ![Peer(e)] = Append(data[Peer(e)], m)]
        /\ UNCHANGED <<readOp, readBuff>>
    BY <1>3 DEF PutMsg
  <2>. QED BY <2>1, <2>2 DEF PipeTypeOK
<1>. QED BY <1>2, <1>3

LEMMA WriteFileType ==
    ASSUME PipeTypeOK, NEW e \in End, NEW m \in Msg, WriteFile(e, m)
    PROVE  PipeTypeOK'
<1>1. CASE PutMsg(e, m) /\ UNCHANGED writeBuff
  <2>1. /\ data' \in [End -> Seq(Msg)] /\ readOp' \in [End -> OpStatus]
        /\ readBuff' \in [End -> Nat]
    BY <1>1, PutMsgType
  <2>2. writeOp' \in [End -> OpStatus]
    BY DEF PipeTypeOK, WriteFile, OpStatus
  <2>. QED BY <1>1, <2>1, <2>2 DEF PipeTypeOK, WriteFile
<1>2. CASE UNCHANGED <<data, readOp, readBuff>>
  BY <1>2 DEF PipeTypeOK, WriteFile, OpStatus, Msg
<1>. QED BY <1>1, <1>2 DEF WriteFile

\* What a read and a write of end e find changed at either end.
LEMMA ReadFileTouches ==
    ASSUME PipeTypeOK, NEW e \in End, ReadFile(e)
    PROVE  /\ UNCHANGED <<pipeState, connectOp>>
           /\ writeOp'[e] = writeOp[e] /\ writeBuff'[e] = writeBuff[e]
           /\ readOp'[Peer(e)] = readOp[Peer(e)]
           /\ readBuff'[Peer(e)] = readBuff[Peer(e)]
           /\ data'[Peer(e)] = data[Peer(e)]
           /\ \/ writeOp'[Peer(e)] = writeOp[Peer(e)] /\ writeBuff'[Peer(e)] = writeBuff[Peer(e)]
              \/ writeOp[Peer(e)] = "pending" /\ writeOp'[Peer(e)] = "success"
<1>1. Peer(e) \in End /\ Peer(e) # e
  BY DEF Peer, End
<1>2. CASE data[e] # <<>>
  <2>1. /\ readOp' = [readOp EXCEPT ![e] = "success"]
        /\ readBuff' = [readBuff EXCEPT ![e] = Head(data[e])]
        /\ TakeMsg(e) /\ UNCHANGED <<pipeState, connectOp>>
    BY <1>2 DEF ReadFile
  <2>. QED BY <1>1, <2>1 DEF TakeMsg, PipeTypeOK
<1>3. CASE data[e] = <<>>
  BY <1>1, <1>3 DEF ReadFile, PipeTypeOK
<1>. QED BY <1>2, <1>3

LEMMA WriteFileTouches ==
    ASSUME PipeTypeOK, NEW e \in End, NEW m, WriteFile(e, m)
    PROVE  /\ UNCHANGED <<pipeState, connectOp>>
           /\ readOp'[e] = readOp[e] /\ readBuff'[e] = readBuff[e] /\ data'[e] = data[e]
           /\ writeOp'[Peer(e)] = writeOp[Peer(e)] /\ writeBuff'[Peer(e)] = writeBuff[Peer(e)]
           /\ writeOp'[e] \in {"idle", "success", "pending"}
           /\ writeOp'[e] = "pending" => writeBuff'[e] = m
           /\ \/ readOp'[Peer(e)] = readOp[Peer(e)] /\ readBuff'[Peer(e)] = readBuff[Peer(e)]
                 /\ (readOp[Peer(e)] = "pending" => data' = data)
              \/ /\ readOp[Peer(e)] = "pending" /\ readOp'[Peer(e)] = "success"
                 /\ readBuff'[Peer(e)] = m /\ data' = data
<1>1. Peer(e) \in End /\ Peer(e) # e
  BY DEF Peer, End
<1>2. CASE PutMsg(e, m) /\ writeOp' = [writeOp EXCEPT ![e] = "success"] /\ UNCHANGED writeBuff
  BY <1>1, <1>2 DEF PutMsg, WriteFile, PipeTypeOK
<1>3. CASE UNCHANGED <<data, readOp, readBuff>>
  BY <1>1, <1>3 DEF WriteFile, PipeTypeOK
<1>. QED BY <1>2, <1>3 DEF WriteFile

LEMMA CloseHandleType ==
    ASSUME PipeTypeOK, NEW e \in End, CloseHandle(e)
    PROVE  PipeTypeOK'
BY DEF PipeTypeOK, CloseHandle, AfterClose, Break, PipeStates, OpStatus, End, NoMsg

LEMMA DisconnectType ==
    ASSUME PipeTypeOK, DisconnectNamedPipe
    PROVE  PipeTypeOK'
BY DEF PipeTypeOK, DisconnectNamedPipe, Break, PipeStates, OpStatus, End, NoMsg

LEMMA AppendType ==
    ASSUME NEW S, NEW s \in Seq(S), NEW x \in S
    PROVE  Append(s, x) \in Seq(S) /\ Append(s, x) # <<>>
BY AppendProperties

LEMMA PipeUnchanged ==
    ASSUME PipeTypeOK, UNCHANGED pipeVars
    PROVE  PipeTypeOK'
BY DEF PipeTypeOK, pipeVars

-----------------------------------------------------------------------------
(***************************************************************************)
(* Sequences.                                                              *)
(***************************************************************************)
UpTo(n) == [i \in 1 .. n |-> i]

LEMMA UpToAppend ==
    ASSUME NEW n \in Nat
    PROVE  UpTo(n + 1) = Append(UpTo(n), n + 1)
<1>1. UpTo(n) \in Seq(Nat) /\ UpTo(n + 1) \in Seq(Nat)
      /\ Len(UpTo(n)) = n /\ Len(UpTo(n + 1)) = n + 1
  BY DEF UpTo
<1>2. /\ Append(UpTo(n), n + 1) \in Seq(Nat) /\ Len(Append(UpTo(n), n + 1)) = n + 1
      /\ \A i \in 1 .. n : Append(UpTo(n), n + 1)[i] = UpTo(n)[i]
      /\ Append(UpTo(n), n + 1)[n + 1] = n + 1
  BY <1>1, AppendProperties
<1>3. \A i \in 1 .. n + 1 : UpTo(n + 1)[i] = Append(UpTo(n), n + 1)[i]
  BY <1>2 DEF UpTo
<1>. QED BY <1>1, <1>2, <1>3, SeqEqual

LEMMA OptionalType ==
    ASSUME NEW m \in Nat
    PROVE  /\ Optional(m) \in Seq(Msg)
           /\ m = NoMsg => Optional(m) = <<>>
           /\ m \in Msg => Optional(m) = <<m>>
<1>1. m \in Msg => <<m>> \in Seq(Msg)
  OBVIOUS
<1>2. m \in Msg <=> m # NoMsg
  BY DEF Msg, NoMsg
<1>. QED BY <1>1, <1>2, <<>> \in Seq(Msg) DEF Optional

LEMMA ConcatAppend ==
    ASSUME NEW S, NEW s \in Seq(S), NEW t \in Seq(S), NEW x \in S
    PROVE  s \o Append(t, x) = Append(s \o t, x)
<1>1. Append(t, x) = t \o <<x>> /\ Append(s \o t, x) = (s \o t) \o <<x>>
  BY AppendIsConcat, ConcatProperties
<1>2. <<x>> \in Seq(S)
  OBVIOUS
<1>. QED BY <1>1, <1>2, ConcatAssociative

LEMMA HeadThenTail ==
    ASSUME NEW S, NEW s \in Seq(S), s # <<>>
    PROVE  s = <<Head(s)>> \o Tail(s)
<1>1. Head(s) \in S /\ Tail(s) \in Seq(S) /\ <<Head(s)>> \in Seq(S)
      /\ Len(s) \in Nat \ {0} /\ Len(Tail(s)) = Len(s) - 1
  BY HeadTailProperties
<1>2. <<Head(s)>> \o Tail(s) \in Seq(S) /\ Len(<<Head(s)>> \o Tail(s)) = Len(s)
  BY <1>1, ConcatProperties
<1>3. \A i \in 1 .. Len(s) : (<<Head(s)>> \o Tail(s))[i] = s[i]
  BY <1>1, HeadTailProperties, ConcatProperties
<1>. QED BY <1>2, <1>3, SeqEqual

-----------------------------------------------------------------------------
(***************************************************************************)
(* No wakeup is lost.                                                      *)
(***************************************************************************)
\* NoLostWakeup at every place of the worker: somebody is going to look at a
\* non-empty list, or the worker is past looking.
SomebodyLooks ==
    writeMsgsList # <<>> =>
        \/ notEmptyEvent
        \/ mainPc = "signal" /\ Len(writeMsgsList) = 1
        \/ bWritting
        \/ workerPc \in {"notEmpty", "pop", "write", "writeDone", "stopping", "exited"}

LEMMA IpcMainSomebodyLooks ==
    ASSUME IpcTypeOK, SomebodyLooks, IpcMain
    PROVE  SomebodyLooks'
<1>. USE DEF SomebodyLooks
<1>a. writeMsgsList \in Seq(Msg) /\ sent \in Nat
  BY DEF IpcTypeOK
<1>1. CASE sendMsgPush
  <2>1. writeMsgsList = <<>> => Len(writeMsgsList') = 1
    BY <1>1, <1>a DEF sendMsgPush, Msg
  <2>. QED BY <1>1, <2>1 DEF sendMsgPush, workerVars
<1>2. CASE sendMsgSignal
  BY <1>2 DEF sendMsgSignal, workerVars
<1>3. CASE getMsgs
  BY <1>3 DEF getMsgs, queueVars, workerVars
<1>4. CASE close
  BY <1>4 DEF close, queueVars, workerVars
<1>5. CASE ReturnFromMain
  BY <1>5 DEF ReturnFromMain, queueVars
<1>. QED BY <1>1, <1>2, <1>3, <1>4, <1>5 DEF IpcMain, closeJoined, closeTimedOut

LEMMA IpcWorkerSomebodyLooks ==
    ASSUME SomebodyLooks, IpcWorker
    PROVE  SomebodyLooks'
<1>. USE DEF SomebodyLooks, mainVars, queueVars
<1>1. CASE waitRead \/ waitWrite
  BY <1>1 DEF waitRead, waitWrite, WaitReturns
<1>2. CASE waitStop \/ waitNotEmpty
  BY <1>2 DEF waitStop, waitNotEmpty, WaitReturns
<1>3. CASE handleReadData \/ rearmRead
  BY <1>3 DEF handleReadData, rearmRead
<1>4. CASE handleWriteDone \/ handleNotEmptyEvent
  BY <1>4 DEF handleWriteDone, handleNotEmptyEvent, NextWritePc
<1>5. CASE handleWriteError \/ popMsg \/ startWrite
  BY <1>5 DEF handleWriteError, popMsg, startWrite
<1>. QED BY <1>1, <1>2, <1>3, <1>4, <1>5 DEF IpcWorker

-----------------------------------------------------------------------------
(***************************************************************************)
(* The way of a message from sendMsg to the pipe, as the abstract channel  *)
(* sees it: the message in the worker's hands is still queued, the one of  *)
(* a pending WriteFile is already on the wire.                             *)
(***************************************************************************)
Queue == Optional(msg) \o writeMsgsList
Wire == data[Peer(m_type)] \o Optional(writeBuff[m_type])

\* A place of one message is used only while that message is in it, and the
\* program at the other end reads and writes synchronously.
OnePlaceEach ==
    /\ writeOp[m_type] # "pending" => writeBuff[m_type] = NoMsg
    /\ workerPc \notin {"write", "exited"} => msg = NoMsg
    /\ readOp[Peer(m_type)] = "idle"
    /\ writeOp[Peer(m_type)] = "idle"

\* What the abstract channel calls Lose, or nothing at all.
Shortened(s, t) == t = s \/ \E n \in 0 .. Len(s) - 1 : t = SubSeq(s, 1, n)

LEMMA OutboundParts ==
    ASSUME IpcTypeOK
    PROVE  /\ m_type \in End /\ Peer(m_type) \in End /\ Peer(m_type) # m_type
           /\ Peer(Peer(m_type)) = m_type
           /\ PipeTypeOK
           /\ msg \in Nat /\ writeMsgsList \in Seq(Msg)
           /\ data[Peer(m_type)] \in Seq(Msg) /\ writeBuff[m_type] \in Nat
           /\ Optional(msg) \in Seq(Msg) /\ Optional(writeBuff[m_type]) \in Seq(Msg)
           /\ Queue \in Seq(Msg) /\ Wire \in Seq(Msg)
<1>1. /\ m_type \in End /\ Peer(m_type) \in End /\ Peer(m_type) # m_type
      /\ Peer(Peer(m_type)) = m_type
  BY TypeAssumption DEF End, Peer
<1>2. /\ PipeTypeOK /\ msg \in Nat /\ writeMsgsList \in Seq(Msg)
      /\ data[Peer(m_type)] \in Seq(Msg) /\ writeBuff[m_type] \in Nat
  BY <1>1 DEF IpcTypeOK, PipeTypeOK
<1>3. Optional(msg) \in Seq(Msg) /\ Optional(writeBuff[m_type]) \in Seq(Msg)
  BY <1>2, OptionalType
<1>. QED BY <1>1, <1>2, <1>3, ConcatProperties DEF Queue, Wire

\* A sequence and what follows its first element.
LEMMA TailOfConcat ==
    ASSUME NEW S, NEW s \in Seq(S), NEW t \in Seq(S), s # <<>>
    PROVE  /\ s \o t # <<>> /\ Head(s \o t) = Head(s)
           /\ Tail(s \o t) = Tail(s) \o t
<1>1. /\ Head(s) \in S /\ Tail(s) \in Seq(S) /\ Len(s) \in Nat \ {0}
      /\ Len(Tail(s)) = Len(s) - 1 /\ Len(t) \in Nat
      /\ \A i \in 1 .. Len(s) - 1 : Tail(s)[i] = s[i + 1]
      /\ s[1] = Head(s)
  BY HeadTailProperties, LenProperties
<1>2. /\ s \o t \in Seq(S) /\ Len(s \o t) = Len(s) + Len(t)
      /\ \A i \in 1 .. Len(s) + Len(t) :
            (s \o t)[i] = IF i <= Len(s) THEN s[i] ELSE t[i - Len(s)]
  BY ConcatProperties
<1>3. /\ Tail(s) \o t \in Seq(S) /\ Len(Tail(s) \o t) = Len(s) - 1 + Len(t)
      /\ \A i \in 1 .. Len(s) - 1 + Len(t) :
            (Tail(s) \o t)[i] = IF i <= Len(s) - 1 THEN Tail(s)[i] ELSE t[i - (Len(s) - 1)]
  BY <1>1, ConcatProperties
<1>4. s \o t # <<>>
  BY <1>1, <1>2
<1>5. /\ Head(s \o t) = (s \o t)[1] /\ Tail(s \o t) \in Seq(S)
      /\ Len(Tail(s \o t)) = Len(s) + Len(t) - 1
      /\ \A i \in 1 .. Len(s) + Len(t) - 1 : Tail(s \o t)[i] = (s \o t)[i + 1]
  BY <1>2, <1>4, HeadTailProperties
<1>6. \A i \in 1 .. Len(s) - 1 + Len(t) : Tail(s \o t)[i] = (Tail(s) \o t)[i]
  BY <1>1, <1>2, <1>3, <1>5
<1>7. Tail(s \o t) = Tail(s) \o t
  BY <1>1, <1>3, <1>5, <1>6, SeqEqual
<1>. QED BY <1>1, <1>2, <1>4, <1>5, <1>7

\* sendMsg queues its message.
LEMMA PushQueues ==
    ASSUME IpcTypeOK, sendMsgPush
    PROVE  sent' = sent + 1 /\ Queue' = Append(Queue, sent + 1) /\ Wire' = Wire
<1>1. /\ sent + 1 \in Msg /\ sent' = sent + 1
      /\ writeMsgsList' = Append(writeMsgsList, sent + 1)
      /\ UNCHANGED <<msg, data, writeBuff>>
  BY DEF sendMsgPush, workerVars, pipeVars, IpcTypeOK, Msg
<1>2. Optional(msg) \o Append(writeMsgsList, sent + 1) = Append(Queue, sent + 1)
  <2>1. Optional(msg) \in Seq(Msg) /\ writeMsgsList \in Seq(Msg)
    BY OutboundParts
  <2>. QED BY <1>1, <2>1, ConcatAppend DEF Queue
<1>. QED BY <1>1, <1>2 DEF Queue, Wire

\* Popping moves a message within the queue.
LEMMA PopQueue ==
    ASSUME IpcTypeOK, msg = NoMsg, popMsg, writeMsgsList # <<>>
    PROVE  Queue' = Queue
<1>1. msg' = Head(writeMsgsList) /\ writeMsgsList' = Tail(writeMsgsList)
  BY DEF popMsg
<1>2. Head(writeMsgsList) \in Msg
  BY OutboundParts, HeadTailProperties
<1>3. Queue' = <<Head(writeMsgsList)>> \o Tail(writeMsgsList)
  BY <1>1, <1>2 DEF Queue, Optional, Msg, NoMsg
<1>4. Queue = writeMsgsList
  BY <1>1, OutboundParts, ConcatEmptySeq DEF Queue, Optional
<1>. QED BY <1>3, <1>4, OutboundParts, HeadThenTail

LEMMA PopKeepsQueue ==
    ASSUME IpcTypeOK, OnePlaceEach, popMsg, writeMsgsList # <<>>
    PROVE  sent' = sent /\ Queue' = Queue /\ Wire' = Wire
<1>1. msg = NoMsg /\ UNCHANGED <<sent, data, writeBuff>>
  BY DEF popMsg, OnePlaceEach, pipeVars, mainVars
<1>. QED BY <1>1, PopQueue DEF Wire

\* WriteFile is called with the oldest of the queue, which leaves it.
LEMMA WriteQueue ==
    ASSUME IpcTypeOK, startWrite, msg \in Msg
    PROVE  Queue # <<>> /\ Head(Queue) = msg /\ Queue' = Tail(Queue)
<1>1. msg' = NoMsg /\ writeMsgsList' = writeMsgsList
  BY DEF startWrite, queueVars
<1>2. Queue = <<msg>> \o writeMsgsList /\ Queue' = <<>> \o writeMsgsList
  BY <1>1 DEF Queue, Optional, Msg, NoMsg
<1>3. <<msg>> \in Seq(Msg) /\ <<msg>> # <<>> /\ Head(<<msg>>) = msg /\ Tail(<<msg>>) = <<>>
  OBVIOUS
<1>4. writeMsgsList \in Seq(Msg)
  BY OutboundParts
<1>5. /\ <<msg>> \o writeMsgsList # <<>>
      /\ Head(<<msg>> \o writeMsgsList) = Head(<<msg>>)
      /\ Tail(<<msg>> \o writeMsgsList) = Tail(<<msg>>) \o writeMsgsList
  BY <1>3, <1>4, TailOfConcat
<1>. QED BY <1>2, <1>3, <1>5

\* WriteFile puts the oldest queued message on the wire, or nowhere.
LEMMA WriteTransmits ==
    ASSUME IpcTypeOK, OnePlaceEach, startWrite, msg \in Msg, writeOp[m_type] = "idle"
    PROVE  /\ sent' = sent
           /\ Queue # <<>> /\ Queue' = Tail(Queue)
           /\ \/ Wire' = Append(Wire, Head(Queue))
              \/ Wire' = Wire /\ pipeState # "connected"
<1>. USE OutboundParts
<1>a. data \in [End -> Seq(Msg)] /\ writeBuff \in [End -> Nat]
  BY DEF PipeTypeOK
<1>1. /\ WriteFile(m_type, msg) /\ msg' = NoMsg
      /\ UNCHANGED <<sent, writeMsgsList>>
  BY DEF startWrite, mainVars, queueVars
<1>2. writeBuff[m_type] = NoMsg
  BY DEF OnePlaceEach
<1>3. Wire = data[Peer(m_type)]
  <2>1. Optional(writeBuff[m_type]) = <<>>
    BY <1>2 DEF Optional
  <2>. QED BY <2>1, ConcatEmptySeq DEF Wire
<1>4. Queue # <<>> /\ Head(Queue) = msg /\ Queue' = Tail(Queue)
  BY WriteQueue
<1>5. (Wire' = Wire /\ pipeState # "connected") \/ Wire' = Append(Wire, msg)
  <2>1. CASE PutMsg(m_type, msg) /\ UNCHANGED writeBuff
    <3>1. data' = [data EXCEPT ![Peer(m_type)] = Append(data[Peer(m_type)], msg)]
      BY <2>1 DEF PutMsg, OnePlaceEach
    <3>2. data'[Peer(m_type)] = Append(data[Peer(m_type)], msg)
      BY <1>a, <3>1
    <3>3. Append(data[Peer(m_type)], msg) \in Seq(Msg)
      BY AppendType
    <3>4. Optional(writeBuff'[m_type]) = <<>>
      BY <1>2, <2>1 DEF Optional
    <3>. QED BY <1>3, <3>2, <3>3, <3>4, ConcatEmptySeq DEF Wire
  <2>2. CASE data' = data /\ writeBuff' = [writeBuff EXCEPT ![m_type] = msg]
    <3>1. Optional(writeBuff'[m_type]) = <<msg>>
      BY <1>a, <2>2 DEF Optional, Msg, NoMsg
    <3>2. data[Peer(m_type)] \o <<msg>> = Append(data[Peer(m_type)], msg)
      BY AppendIsConcat
    <3>. QED BY <1>3, <2>2, <3>1, <3>2 DEF Wire
  <2>3. CASE UNCHANGED <<data, writeBuff>> /\ pipeState # "connected"
    BY <2>3 DEF Wire
  <2>. QED BY <1>1, <2>1, <2>2, <2>3 DEF WriteFile
<1>. QED BY <1>1, <1>4, <1>5

\* A read at the other end takes the oldest message off the wire.
LEMMA TakeDelivers ==
    ASSUME IpcTypeOK, TakeMsg(Peer(m_type)), data[Peer(m_type)] # <<>>,
           writeOp[m_type] = "pending" => writeBuff[m_type] \in Msg
    PROVE  /\ Wire # <<>> /\ Head(Wire) = Head(data[Peer(m_type)])
           /\ Wire' = Tail(Wire)
<1>. USE OutboundParts
<1>a. data \in [End -> Seq(Msg)] /\ writeBuff \in [End -> Nat]
  BY DEF PipeTypeOK
<1>b. Tail(data[Peer(m_type)]) \in Seq(Msg)
  BY HeadTailProperties
<1>1. /\ Wire # <<>> /\ Head(Wire) = Head(data[Peer(m_type)])
      /\ Tail(Wire) = Tail(data[Peer(m_type)]) \o Optional(writeBuff[m_type])
  BY TailOfConcat DEF Wire
<1>2. CASE writeOp[m_type] = "pending"
  <2>1. /\ data' = [data EXCEPT ![Peer(m_type)] =
                       Append(Tail(data[Peer(m_type)]), writeBuff[m_type])]
        /\ writeBuff' = [writeBuff EXCEPT ![m_type] = NoMsg]
    BY <1>2 DEF TakeMsg
  <2>2. /\ data'[Peer(m_type)] = Append(Tail(data[Peer(m_type)]), writeBuff[m_type])
        /\ Optional(writeBuff'[m_type]) = <<>>
    BY <1>a, <2>1 DEF Optional
  <2>3. Append(Tail(data[Peer(m_type)]), writeBuff[m_type]) \in Seq(Msg)
    BY <1>b, <1>2, AppendType
  <2>4. Wire' = Append(Tail(data[Peer(m_type)]), writeBuff[m_type])
    BY <2>2, <2>3, ConcatEmptySeq DEF Wire
  <2>5. Optional(writeBuff[m_type]) = <<writeBuff[m_type]>>
    BY <1>2, OptionalType
  <2>6. Tail(data[Peer(m_type)]) \o <<writeBuff[m_type]>>
            = Append(Tail(data[Peer(m_type)]), writeBuff[m_type])
    BY <1>b, <1>2, AppendIsConcat
  <2>. QED BY <1>1, <2>4, <2>5, <2>6
<1>3. CASE writeOp[m_type] # "pending"
  <2>1. data' = [data EXCEPT ![Peer(m_type)] = Tail(data[Peer(m_type)])]
        /\ writeBuff' = writeBuff
    BY <1>3 DEF TakeMsg
  <2>2. data'[Peer(m_type)] = Tail(data[Peer(m_type)])
    BY <1>a, <2>1
  <2>. QED BY <1>1, <2>1, <2>2 DEF Wire
<1>. QED BY <1>2, <1>3

\* Whoever closes or disconnects takes a suffix off the wire, or nothing.
LEMMA ClosingShortens ==
    ASSUME IpcTypeOK,
           DisconnectNamedPipe \/ (\E e \in End : CloseHandle(e))
    PROVE  Shortened(Wire, Wire')
<1>. USE OutboundParts
<1>a. data \in [End -> Seq(Msg)]
  BY DEF PipeTypeOK
<1>1. writeBuff'[m_type] = NoMsg
      /\ data'[Peer(m_type)] \in {<<>>, data[Peer(m_type)]}
  BY <1>a DEF DisconnectNamedPipe, CloseHandle
<1>2. Wire' = data'[Peer(m_type)]
  <2>1. Optional(writeBuff'[m_type]) = <<>>
    BY <1>1 DEF Optional
  <2>2. data'[Peer(m_type)] \in Seq(Msg)
    BY <1>1, <<>> \in Seq(Msg)
  <2>. QED BY <2>1, <2>2, ConcatEmptySeq DEF Wire
<1>3. CASE Wire' = <<>>
  <2>1. CASE Wire = <<>>
    BY <1>3, <2>1 DEF Shortened
  <2>2. CASE Wire # <<>>
    <3>1. 0 \in 0 .. Len(Wire) - 1 /\ SubSeq(Wire, 1, 0) = <<>>
      BY <2>2, LenProperties
    <3>. QED BY <1>3, <3>1 DEF Shortened
  <2>. QED BY <2>1, <2>2
<1>4. CASE Wire' = data[Peer(m_type)]
  <2>1. CASE writeBuff[m_type] = NoMsg
    <3>1. Wire = data[Peer(m_type)]
      BY <2>1, OptionalType, ConcatEmptySeq DEF Wire
    <3>. QED BY <1>4, <3>1 DEF Shortened
  <2>2. CASE writeBuff[m_type] # NoMsg
    <3>. DEFINE d == data[Peer(m_type)]
                n == Len(d)
    <3>1. writeBuff[m_type] \in Msg /\ Optional(writeBuff[m_type]) = <<writeBuff[m_type]>>
      BY <2>2 DEF Msg, NoMsg, Optional
    <3>2. Wire = Append(d, writeBuff[m_type])
      BY <3>1, AppendIsConcat DEF Wire
    <3>3. /\ d \in Seq(Msg) /\ n \in Nat /\ Len(Wire) = n + 1
          /\ \A i \in 1 .. n : Wire[i] = d[i]
      BY <3>1, <3>2, AppendProperties, LenProperties
    <3>4. SubSeq(Wire, 1, n) = d
      <4>1. /\ SubSeq(Wire, 1, n) \in Seq(Msg) /\ Len(SubSeq(Wire, 1, n)) = n
            /\ \A i \in 1 .. n : SubSeq(Wire, 1, n)[i] = Wire[i]
        BY <3>3, SubSeqProperties
      <4>. QED BY <3>3, <4>1, SeqEqual
    <3>5. n \in 0 .. Len(Wire) - 1
      BY <3>3
    <3>. QED BY <1>4, <3>4, <3>5 DEF Shortened
  <2>. QED BY <2>1, <2>2
<1>. QED BY <1>1, <1>2, <1>3, <1>4

LEMMA ClosingDisconnects ==
    ASSUME DisconnectNamedPipe \/ (\E e \in End : CloseHandle(e))
    PROVE  pipeState' # "connected"
BY DEF DisconnectNamedPipe, CloseHandle, AfterClose, End

\* What a step of the object itself does to the channel: it queues a message,
\* writes the oldest one, shortens the wire, or none of these.  Nothing is lost
\* while the pipe is connected.
ChannelStep ==
    \/ sent' = sent + 1 /\ Queue' = Append(Queue, sent + 1) /\ Wire' = Wire
    \/ /\ sent' = sent /\ Queue # <<>> /\ Queue' = Tail(Queue)
       /\ \/ Wire' = Append(Wire, Head(Queue))
          \/ Wire' = Wire /\ pipeState # "connected"
    \/ /\ sent' = sent /\ Queue' = Queue
       /\ Wire' = Wire \/ (Shortened(Wire, Wire') /\ pipeState' # "connected")

LEMMA NothingMoves ==
    ASSUME sent' = sent, msg' = msg, writeMsgsList' = writeMsgsList,
           data'[Peer(m_type)] = data[Peer(m_type)],
           writeBuff'[m_type] = writeBuff[m_type]
    PROVE  ChannelStep
BY DEF ChannelStep, Queue, Wire

\* A read of the object's own end leaves the other direction alone.
LEMMA ReadFileOffWire ==
    ASSUME IpcTypeOK, OnePlaceEach, ReadFile(m_type)
    PROVE  /\ data'[Peer(m_type)] = data[Peer(m_type)]
           /\ UNCHANGED <<writeOp, writeBuff>>
           /\ readOp'[Peer(m_type)] = readOp[Peer(m_type)]
BY OutboundParts DEF ReadFile, TakeMsg, OnePlaceEach, PipeTypeOK

LEMMA IpcChannelStep ==
    ASSUME IpcTypeOK, OnePlaceEach, IpcMain \/ IpcWorker,
           popMsg => writeMsgsList # <<>>,
           startWrite => msg \in Msg /\ writeOp[m_type] = "idle"
    PROVE  ChannelStep
<1>. USE DEF mainVars, queueVars, workerVars, pipeVars
<1>1. CASE sendMsgPush
  BY <1>1, PushQueues DEF ChannelStep
<1>2. CASE popMsg
  BY <1>2, PopKeepsQueue DEF ChannelStep
<1>3. CASE startWrite
  BY <1>3, WriteTransmits DEF ChannelStep
<1>4. CASE ReturnFromMain \/ handleWriteError
  <2>1. CloseHandle(m_type) /\ m_type \in End
    BY <1>4, OutboundParts DEF ReturnFromMain, handleWriteError
  <2>2. Shortened(Wire, Wire') /\ pipeState' # "connected"
    BY <2>1, ClosingShortens, ClosingDisconnects
  <2>3. UNCHANGED <<sent, msg, writeMsgsList>>
    BY <1>4 DEF ReturnFromMain, handleWriteError
  <2>. QED BY <2>2, <2>3 DEF ChannelStep, Queue
<1>5. CASE rearmRead
  <2>1. ReadFile(m_type) /\ UNCHANGED <<sent, msg, writeMsgsList>>
    BY <1>5 DEF rearmRead
  <2>. QED BY <2>1, ReadFileOffWire, NothingMoves
<1>6. CASE sendMsgSignal \/ getMsgs \/ close
  BY <1>6, NothingMoves DEF sendMsgSignal, getMsgs, close
<1>7. CASE waitRead \/ waitWrite \/ waitStop \/ waitNotEmpty
  BY <1>7, NothingMoves DEF waitRead, waitWrite, waitStop, waitNotEmpty, WaitReturns
<1>8. CASE handleReadData \/ handleWriteDone \/ handleNotEmptyEvent
  BY <1>8, NothingMoves DEF handleReadData, handleWriteDone, handleNotEmptyEvent
<1>. QED BY <1>1, <1>2, <1>3, <1>4, <1>5, <1>6, <1>7, <1>8
         DEF IpcMain, IpcWorker, closeJoined, closeTimedOut

\* The calls of one end start nothing at the other ...
LEMMA CallsKeepPeerIdle ==
    ASSUME IpcTypeOK, OnePlaceEach,
           \/ DisconnectNamedPipe \/ (\E e \in End : CloseHandle(e))
           \/ ReadFile(m_type) \/ (\E m \in Msg : WriteFile(m_type, m))
    PROVE  readOp'[Peer(m_type)] = "idle" /\ writeOp'[Peer(m_type)] = "idle"
<1>. USE OutboundParts DEF OnePlaceEach
<1>1. CASE DisconnectNamedPipe \/ (\E e \in End : CloseHandle(e))
  BY <1>1 DEF DisconnectNamedPipe, CloseHandle, Break
<1>2. CASE ReadFile(m_type)
  BY <1>2, ReadFileOffWire
<1>3. CASE \E m \in Msg : WriteFile(m_type, m)
  BY <1>3 DEF WriteFile, PutMsg, PipeTypeOK
<1>. QED BY <1>1, <1>2, <1>3

\* ... and the object's own steps keep to one place for each message.
LEMMA IpcOnePlace ==
    ASSUME IpcTypeOK, OnePlaceEach, IpcMain \/ IpcWorker,
           startWrite => msg \in Msg /\ writeOp[m_type] = "idle"
    PROVE  OnePlaceEach'
<1>. USE OutboundParts DEF mainVars, queueVars, workerVars, pipeVars
<1>1. CASE sendMsgPush \/ sendMsgSignal \/ getMsgs \/ close
  BY <1>1 DEF sendMsgPush, sendMsgSignal, getMsgs, close, OnePlaceEach
<1>2. CASE ReturnFromMain \/ handleWriteError
  <2>1. CloseHandle(m_type) /\ m_type \in End
    BY <1>2 DEF ReturnFromMain, handleWriteError
  <2>2. readOp'[Peer(m_type)] = "idle" /\ writeOp'[Peer(m_type)] = "idle"
    BY <2>1, CallsKeepPeerIdle
  <2>3. writeBuff'[m_type] = NoMsg
    BY <2>1 DEF CloseHandle
  <2>. QED BY <1>2, <2>2, <2>3 DEF ReturnFromMain, handleWriteError, OnePlaceEach
<1>3. CASE waitRead \/ waitWrite
  <2>1. /\ writeOp'[m_type] = "pending" <=> writeOp[m_type] = "pending"
        /\ readOp'[Peer(m_type)] = readOp[Peer(m_type)]
        /\ writeOp'[Peer(m_type)] = writeOp[Peer(m_type)]
    BY <1>3 DEF waitRead, waitWrite, WaitReturns, EventSet, Signaled, PipeTypeOK
  <2>. QED BY <1>3, <2>1
       DEF waitRead, waitWrite, WaitReturns, ReadHandler, WriteHandler, OnePlaceEach
<1>4. CASE waitStop \/ waitNotEmpty
  BY <1>4 DEF waitStop, waitNotEmpty, WaitReturns, OnePlaceEach
<1>5. CASE handleReadData \/ handleWriteDone \/ handleNotEmptyEvent \/ popMsg
  BY <1>5 DEF handleReadData, handleWriteDone, handleNotEmptyEvent, popMsg,
              NextWritePc, OnePlaceEach
<1>6. CASE rearmRead
  <2>1. ReadFile(m_type)
    BY <1>6 DEF rearmRead
  <2>. QED BY <1>6, <2>1, ReadFileOffWire DEF rearmRead, OnePlaceEach
<1>7. CASE startWrite
  <2>1. WriteFile(m_type, msg) /\ msg \in Msg
    BY <1>7 DEF startWrite
  <2>2. readOp'[Peer(m_type)] = "idle" /\ writeOp'[Peer(m_type)] = "idle"
    BY <2>1, CallsKeepPeerIdle
  <2>3. writeOp'[m_type] # "pending" => writeBuff'[m_type] = NoMsg
    BY <1>7, <2>1 DEF WriteFile, PutMsg, OnePlaceEach, PipeTypeOK
  <2>. QED BY <1>7, <2>2, <2>3 DEF startWrite, OnePlaceEach
<1>. QED BY <1>1, <1>2, <1>3, <1>4, <1>5, <1>6, <1>7
         DEF IpcMain, IpcWorker, closeJoined, closeTimedOut

-----------------------------------------------------------------------------
(***************************************************************************)
(* The way of a message from the pipe to the application.                  *)
(***************************************************************************)
Inbound == Received \o data[m_type]

\* The four lists a message passes through, with their types.
LEMMA ReceivedParts ==
    ASSUME IpcTypeOK
    PROVE  /\ m_type \in End /\ Peer(Peer(m_type)) = m_type
           /\ data \in [End -> Seq(Msg)] /\ readBuff \in [End -> Nat]
           /\ dispatched \in Seq(Msg) /\ readMsgsList \in Seq(Msg)
           /\ readBuff[m_type] \in Nat /\ Optional(readBuff[m_type]) \in Seq(Msg)
           /\ data[m_type] \in Seq(Msg)
           /\ dispatched \o readMsgsList \in Seq(Msg)
           /\ Received = (dispatched \o readMsgsList) \o Optional(readBuff[m_type])
           /\ Received \in Seq(Msg)
<1>1. /\ m_type \in End /\ Peer(Peer(m_type)) = m_type
      /\ data \in [End -> Seq(Msg)] /\ readBuff \in [End -> Nat]
      /\ dispatched \in Seq(Msg) /\ readMsgsList \in Seq(Msg)
      /\ readBuff[m_type] \in Nat /\ data[m_type] \in Seq(Msg)
  BY TypeAssumption DEF IpcTypeOK, PipeTypeOK, End, Peer
<1>2. Optional(readBuff[m_type]) \in Seq(Msg)
  BY <1>1, OptionalType
<1>3. dispatched \o readMsgsList \in Seq(Msg)
  BY <1>1, ConcatProperties
<1>. QED BY <1>1, <1>2, <1>3, ConcatProperties DEF Received

\* ReadFile moves a message from the pipe to the buffer.
LEMMA ReadFileInbound ==
    ASSUME IpcTypeOK, writeOp[Peer(m_type)] # "pending", ReadFile(m_type),
           readBuff[m_type] = NoMsg, UNCHANGED <<dispatched, readMsgsList>>
    PROVE  Inbound' = Inbound
<1>. USE DEF Inbound
<1>. DEFINE known == dispatched \o readMsgsList
<1>b. Received = known
  <2>1. Optional(readBuff[m_type]) = <<>>
    BY DEF Optional
  <2>. QED BY <2>1, ReceivedParts, ConcatEmptySeq
<1>c. Received' = known \o Optional(readBuff'[m_type])
  BY DEF Received
<1>1. CASE data[m_type] = <<>>
  <2>1. readBuff' = readBuff /\ data' = data
    BY <1>1 DEF ReadFile
  <2>. QED BY <1>c, <2>1, ReceivedParts
<1>2. CASE data[m_type] # <<>>
  <2>1. data'[m_type] = Tail(data[m_type]) /\ readBuff'[m_type] = Head(data[m_type])
    <3>1. /\ readBuff' = [readBuff EXCEPT ![m_type] = Head(data[m_type])]
          /\ TakeMsg(m_type)
      BY <1>2 DEF ReadFile
    <3>2. data' = [data EXCEPT ![m_type] = Tail(data[m_type])]
      BY <3>1 DEF TakeMsg
    <3>. QED BY <3>1, <3>2, ReceivedParts
  <2>2. /\ Head(data[m_type]) \in Msg /\ Tail(data[m_type]) \in Seq(Msg)
        /\ <<Head(data[m_type])>> \in Seq(Msg)
    BY <1>2, ReceivedParts, HeadTailProperties
  <2>3. Received' = known \o <<Head(data[m_type])>>
    BY <1>c, <2>1, <2>2, OptionalType DEF Msg
  <2>4. data[m_type] = <<Head(data[m_type])>> \o Tail(data[m_type])
    BY <1>2, ReceivedParts, HeadThenTail
  <2>5. (known \o <<Head(data[m_type])>>) \o Tail(data[m_type])
            = known \o (<<Head(data[m_type])>> \o Tail(data[m_type]))
    <3>1. known \in Seq(Msg)
      BY ReceivedParts
    <3>2. \A s, t, u \in Seq(Msg) : (s \o t) \o u = s \o (t \o u)
      BY ConcatAssociative
    <3>. HIDE DEF known
    <3>. QED BY <2>2, <3>1, <3>2, Zenon
  <2>. QED BY <1>b, <2>1, <2>3, <2>4, <2>5
<1>. QED BY <1>1, <1>2

\* The peer's next message goes into the pipe or to the outstanding read.
LEMMA PeerWriteInbound ==
    ASSUME IpcTypeOK, NEW n \in Nat, PutMsg(Peer(m_type), n + 1),
           UNCHANGED <<dispatched, readMsgsList>>,
           readOp[m_type] = "pending" => readBuff[m_type] = NoMsg /\ data[m_type] = <<>>,
           Inbound = UpTo(n)
    PROVE  Inbound' = UpTo(n + 1)
<1>. USE DEF Inbound
<1>. DEFINE known == dispatched \o readMsgsList
            new == n + 1
<1>a. new \in Msg
  BY DEF Msg
<1>c. UpTo(new) = Append(UpTo(n), new)
  BY UpToAppend
<1>e. Received' = known \o Optional(readBuff'[m_type])
  BY DEF Received
<1>1. CASE readOp[m_type] = "pending"
  <2>1. readBuff'[m_type] = new /\ data'[m_type] = <<>>
    BY <1>1, ReceivedParts DEF PutMsg
  <2>2. Optional(readBuff[m_type]) = <<>> /\ Optional(readBuff'[m_type]) = <<new>>
    BY <1>1, <1>a, <2>1 DEF Optional, Msg, NoMsg
  <2>3. Received \o data[m_type] = known
    BY <1>1, <2>2, ReceivedParts, ConcatEmptySeq
  <2>4. <<new>> \in Seq(Msg)
    BY <1>a
  <2>5. known \o <<new>> \in Seq(Msg) /\ known \o <<new>> = Append(known, new)
    BY <1>a, <2>4, ReceivedParts, ConcatProperties, AppendIsConcat
  <2>6. Received' \o data'[m_type] = Append(known, new)
    BY <1>e, <2>1, <2>2, <2>5, ConcatEmptySeq
  <2>. QED BY <1>c, <2>3, <2>6
<1>2. CASE readOp[m_type] # "pending"
  <2>1. readBuff' = readBuff /\ data'[m_type] = Append(data[m_type], new)
    BY <1>2, ReceivedParts DEF PutMsg
  <2>2. Received' = Received
    BY <1>e, <2>1, ReceivedParts
  <2>3. Received \o Append(data[m_type], new) = Append(Received \o data[m_type], new)
    <3>1. Received \in Seq(Msg) /\ data[m_type] \in Seq(Msg)
      BY ReceivedParts
    <3>2. \A s, t \in Seq(Msg) : s \o Append(t, new) = Append(s \o t, new)
      BY <1>a, ConcatAppend
    <3>. HIDE DEF new
    <3>. QED BY <3>1, <3>2, Zenon
  <2>. QED BY <1>c, <2>1, <2>2, <2>3
<1>. QED BY <1>1, <1>2

\* The handler moves it from the buffer to the list.
LEMMA HandleReadDataInbound ==
    ASSUME IpcTypeOK, readBuff[m_type] \in Msg, handleReadData
    PROVE  Inbound' = Inbound
<1>. USE DEF Inbound
<1>. DEFINE m == readBuff[m_type]
<1>1. /\ dispatched' = dispatched /\ readMsgsList' = Append(readMsgsList, m)
      /\ readBuff'[m_type] = NoMsg /\ data' = data
  BY ReceivedParts DEF handleReadData, mainVars
<1>2. Received' = (dispatched \o Append(readMsgsList, m)) \o <<>>
  BY <1>1 DEF Received, Optional
<1>3. /\ Append(readMsgsList, m) \in Seq(Msg)
      /\ dispatched \o Append(readMsgsList, m) = Append(dispatched \o readMsgsList, m)
      /\ Append(dispatched \o readMsgsList, m) = (dispatched \o readMsgsList) \o <<m>>
  <2>1. /\ readMsgsList \in Seq(Msg) /\ dispatched \in Seq(Msg)
        /\ dispatched \o readMsgsList \in Seq(Msg)
    BY ReceivedParts
  <2>2. Append(readMsgsList, m) \in Seq(Msg)
    BY <2>1, AppendProperties
  <2>3. dispatched \o Append(readMsgsList, m) = Append(dispatched \o readMsgsList, m)
    BY <2>1, ConcatAppend
  <2>4. Append(dispatched \o readMsgsList, m) = (dispatched \o readMsgsList) \o <<m>>
    BY <2>1, AppendIsConcat
  <2>. QED BY <2>2, <2>3, <2>4
<1>4. dispatched \o Append(readMsgsList, m) \in Seq(Msg)
  BY <1>3, ReceivedParts, ConcatProperties
<1>5. Received = (dispatched \o readMsgsList) \o <<m>>
  BY ReceivedParts DEF Optional, Msg, NoMsg
<1>. QED BY <1>1, <1>2, <1>3, <1>4, <1>5, ConcatEmptySeq

\* getMsgs moves all of the list to the application.
LEMMA GetMsgsInbound ==
    ASSUME IpcTypeOK, getMsgs
    PROVE  Inbound' = Inbound
<1>1. /\ dispatched' = dispatched \o readMsgsList /\ readMsgsList' = <<>>
      /\ readBuff' = readBuff /\ data' = data
  BY DEF getMsgs, pipeVars
<1>2. (dispatched \o readMsgsList) \o <<>> = dispatched \o readMsgsList
  BY ReceivedParts, ConcatEmptySeq
<1>3. Received' = ((dispatched \o readMsgsList) \o <<>>) \o Optional(readBuff[m_type])
  BY <1>1 DEF Received
<1>. QED BY <1>1, <1>2, <1>3, ReceivedParts DEF Inbound

\* All other steps of the object leave the way in alone or close the handle.
LEMMA IpcInbound ==
    ASSUME IpcTypeOK, IpcMain \/ IpcWorker, ~CloseHandle(m_type),
           writeOp[Peer(m_type)] # "pending",
           handleReadData => readBuff[m_type] \in Msg,
           rearmRead => readBuff[m_type] = NoMsg
    PROVE  Inbound' = Inbound
<1>. USE DEF mainVars, queueVars, pipeVars
<1>1. CASE getMsgs
  BY <1>1, GetMsgsInbound
<1>2. CASE handleReadData
  BY <1>2, HandleReadDataInbound
<1>3. CASE rearmRead
  BY <1>3, ReadFileInbound DEF rearmRead
<1>4. CASE startWrite
  <2>1. data'[m_type] = data[m_type] /\ readBuff'[m_type] = readBuff[m_type]
    BY <1>4, ReceivedParts, OutboundParts DEF startWrite, WriteFile, PutMsg
  <2>. QED BY <1>4, <2>1 DEF startWrite, Inbound, Received
<1>5. CASE sendMsgPush \/ sendMsgSignal \/ close
  BY <1>5 DEF sendMsgPush, sendMsgSignal, close, Inbound, Received
<1>6. CASE waitRead \/ waitWrite \/ waitStop \/ waitNotEmpty
  BY <1>6 DEF waitRead, waitWrite, waitStop, waitNotEmpty, WaitReturns, Inbound, Received
<1>7. CASE handleWriteDone \/ handleNotEmptyEvent \/ popMsg
  BY <1>7 DEF handleWriteDone, handleNotEmptyEvent, popMsg, Inbound, Received
<1>8. CASE ReturnFromMain \/ handleWriteError
  BY <1>8 DEF ReturnFromMain, handleWriteError
<1>. QED BY <1>1, <1>2, <1>3, <1>4, <1>5, <1>6, <1>7, <1>8
         DEF IpcMain, IpcWorker, closeJoined, closeTimedOut

-----------------------------------------------------------------------------
(***************************************************************************)
(* What a step of one end does to the other.                               *)
(***************************************************************************)
\* It completes what is outstanding at end e and starts nothing there.
OnlyCompletes(e) ==
    /\ \/ readOp'[e] = readOp[e] /\ readBuff'[e] = readBuff[e]
       \/ readOp[e] = "pending" /\ readOp'[e] = "success" /\ readBuff'[e] \in Msg
       \/ readOp[e] = "pending" /\ readOp'[e] = "error" /\ readBuff'[e] = readBuff[e]
    /\ \/ writeOp'[e] = writeOp[e] /\ (writeOp[e] = "pending" => writeBuff'[e] = writeBuff[e])
       \/ writeOp[e] = "pending" /\ writeOp'[e] \in {"success", "error"}

LEMMA CallsOnlyComplete ==
    ASSUME PipeTypeOK, NEW e \in End,
           \/ ReadFile(Peer(e)) \/ (\E m \in Msg : WriteFile(Peer(e), m))
           \/ DisconnectNamedPipe \/ (\E x \in End : CloseHandle(x))
    PROVE  OnlyCompletes(e)
<1>1. Peer(e) \in End /\ Peer(Peer(e)) = e
  BY DEF Peer, End
<1>2. CASE ReadFile(Peer(e))
  BY <1>1, <1>2, ReadFileTouches DEF OnlyCompletes
<1>3. CASE \E m \in Msg : WriteFile(Peer(e), m)
  BY <1>1, <1>3, WriteFileTouches DEF OnlyCompletes
<1>4. CASE DisconnectNamedPipe \/ (\E x \in End : CloseHandle(x))
  BY <1>4 DEF DisconnectNamedPipe, CloseHandle, Break, OnlyCompletes
<1>. QED BY <1>2, <1>3, <1>4

LEMMA IpcOnlyCompletes ==
    ASSUME IpcTypeOK, IpcMain \/ IpcWorker, startWrite => msg \in Msg
    PROVE  OnlyCompletes(Peer(m_type))
<1>. USE OutboundParts
<1>1. CASE rearmRead \/ startWrite \/ ReturnFromMain \/ handleWriteError
  <2>1. \/ ReadFile(m_type) \/ (\E m \in Msg : WriteFile(m_type, m))
        \/ \E x \in End : CloseHandle(x)
    BY <1>1 DEF rearmRead, startWrite, ReturnFromMain, handleWriteError
  <2>. QED BY <2>1, CallsOnlyComplete
<1>2. CASE waitRead \/ waitWrite \/ handleReadData
  BY <1>2 DEF waitRead, waitWrite, WaitReturns, handleReadData, PipeTypeOK, OnlyCompletes
<1>3. CASE waitStop \/ waitNotEmpty
  BY <1>3 DEF waitStop, waitNotEmpty, WaitReturns, OnlyCompletes
<1>4. CASE \/ sendMsgPush \/ sendMsgSignal \/ getMsgs \/ close
           \/ handleWriteDone \/ handleNotEmptyEvent \/ popMsg
  BY <1>4 DEF sendMsgPush, sendMsgSignal, getMsgs, close, handleWriteDone,
              handleNotEmptyEvent, popMsg, pipeVars, OnlyCompletes
<1>. QED BY <1>1, <1>2, <1>3, <1>4 DEF IpcMain, IpcWorker, closeJoined, closeTimedOut

-----------------------------------------------------------------------------
(***************************************************************************)
(* Both directions, where the reader at the other end is an object of this *)
(* class as well: a message is on its way until that reader has listed it. *)
(***************************************************************************)
Way(e) == Optional(readBuff[e]) \o data[e] \o Optional(writeBuff[Peer(e)])

\* What is listed, by getMsgs or before it.
Listed == dispatched \o readMsgsList

\* A client has the pipe open.
ClientInside == pipeState \in {"connected", "serverClosed"}

\* A buffer holds a message only as long as that is on its way there, and what
\* is put into the client's buffer is dropped when the client has closed.
Settled ==
    /\ \A e \in End :
          /\ readOp[e] = "pending" => data[e] = <<>>
          /\ readOp[e] \in {"pending", "error"} => readBuff[e] = NoMsg
          /\ writeOp[e] = "pending" => pipeState = "connected" /\ writeBuff[e] \in Msg
          /\ writeOp[e] # "pending" => writeBuff[e] = NoMsg
    /\ data["client"] # <<>> => ClientInside

\* The object's own buffers, at the places of its worker.
OwnBuffers ==
    /\ readBuff[m_type] # NoMsg =>
          readOp[m_type] = "success" \/ workerPc \in {"readData", "exited"}
    /\ workerPc \notin {"write", "exited"} => msg = NoMsg

LEMMA OutboundEnds ==
    m_type \in End /\ Peer(m_type) \in End /\ Peer(m_type) # m_type
    /\ \A e \in End : e = m_type \/ e = Peer(m_type)
BY TypeAssumption DEF End, Peer

LEMMA WayParts ==
    ASSUME PipeTypeOK, NEW e \in End
    PROVE  /\ Peer(e) \in End /\ Peer(e) # e /\ Peer(Peer(e)) = e
           /\ data[e] \in Seq(Msg) /\ readBuff[e] \in Nat /\ writeBuff[Peer(e)] \in Nat
           /\ Optional(readBuff[e]) \in Seq(Msg)
           /\ Optional(writeBuff[Peer(e)]) \in Seq(Msg)
           /\ Optional(readBuff[e]) \o data[e] \in Seq(Msg)
           /\ Way(e) \in Seq(Msg)
<1>1. Peer(e) \in End /\ Peer(e) # e /\ Peer(Peer(e)) = e
  BY DEF End, Peer
<1>2. data[e] \in Seq(Msg) /\ readBuff[e] \in Nat /\ writeBuff[Peer(e)] \in Nat
  BY <1>1 DEF PipeTypeOK
<1>3. Optional(readBuff[e]) \in Seq(Msg) /\ Optional(writeBuff[Peer(e)]) \in Seq(Msg)
  BY <1>2, OptionalType
<1>4. Optional(readBuff[e]) \o data[e] \in Seq(Msg)
  BY <1>2, <1>3, ConcatProperties
<1>. QED BY <1>1, <1>2, <1>3, <1>4, ConcatProperties DEF Way

\* The first part of a sequence, when the rest is taken away.
LEMMA FrontShortens ==
    ASSUME NEW S, NEW s \in Seq(S), NEW t \in Seq(S)
    PROVE  Shortened(s \o t, s)
<1>1. /\ s \o t \in Seq(S) /\ Len(s \o t) = Len(s) + Len(t)
      /\ Len(s) \in Nat /\ Len(t) \in Nat
      /\ \A i \in 1 .. Len(s) : (s \o t)[i] = s[i]
  BY ConcatProperties, LenProperties
<1>2. CASE t = <<>>
  BY <1>2, ConcatEmptySeq DEF Shortened
<1>3. CASE t # <<>>
  <2>1. Len(t) # 0
    BY <1>3
  <2>2. Len(s) \in 0 .. Len(s \o t) - 1
    BY <1>1, <2>1
  <2>3. /\ SubSeq(s \o t, 1, Len(s)) \in Seq(S) /\ Len(SubSeq(s \o t, 1, Len(s))) = Len(s)
        /\ \A i \in 1 .. Len(s) : SubSeq(s \o t, 1, Len(s))[i] = (s \o t)[i]
    BY <1>1, SubSeqProperties
  <2>4. SubSeq(s \o t, 1, Len(s)) = s
    BY <1>1, <2>3, SeqEqual
  <2>. QED BY <2>2, <2>4 DEF Shortened
<1>. QED BY <1>2, <1>3

\* A read moves a message on, on its way to the same end.
LEMMA ReadKeepsWays ==
    ASSUME PipeTypeOK, Settled, NEW e \in End, ReadFile(e), readBuff[e] = NoMsg
    PROVE  Settled' /\ \A f \in End : Way(f)' = Way(f)
<1>. DEFINE p == Peer(e)
<1>a. /\ data \in [End -> Seq(Msg)] /\ readBuff \in [End -> Nat] /\ writeBuff \in [End -> Nat]
      /\ readOp \in [End -> OpStatus] /\ writeOp \in [End -> OpStatus]
      /\ p \in End /\ p # e /\ Peer(p) = e /\ \A f \in End : f = e \/ f = p
  BY WayParts DEF PipeTypeOK, End, Peer
<1>b. Optional(NoMsg) = <<>> /\ <<>> \in Seq(Msg)
  BY DEF Optional
<1>1. CASE data[e] = <<>>
  <2>1. UNCHANGED <<data, writeOp, readBuff, writeBuff, pipeState>>
        /\ readOp' = [readOp EXCEPT ![e] = IF pipeState = "connected" THEN "pending" ELSE "idle"]
    BY <1>1 DEF ReadFile
  <2>2. Settled'
    BY <1>a, <1>1, <2>1 DEF Settled, ClientInside
  <2>. QED BY <2>1, <2>2 DEF Way
<1>2. CASE data[e] # <<>>
  <2>. DEFINE h == Head(data[e])
              r == Tail(data[e])
  <2>1. /\ readOp' = [readOp EXCEPT ![e] = "success"]
        /\ readBuff' = [readBuff EXCEPT ![e] = h]
        /\ TakeMsg(e) /\ pipeState' = pipeState
    BY <1>2 DEF ReadFile
  <2>2. h \in Msg /\ r \in Seq(Msg) /\ <<h>> \in Seq(Msg) /\ data[e] = <<h>> \o r
    BY <1>a, <1>2, HeadTailProperties, HeadThenTail
  <2>3. Optional(readBuff'[e]) = <<h>>
    BY <1>a, <2>1, <2>2, OptionalType DEF Msg
  <2>4. <<>> \o data[e] = data[e]
    BY <1>a, ConcatEmptySeq
  <2>5. Way(e) = data[e] \o Optional(writeBuff[p])
    BY <1>b, <2>4 DEF Way
  <2>6. CASE writeOp[p] = "pending"
    <3>. DEFINE w == writeBuff[p]
    <3>1. w \in Msg /\ Optional(w) = <<w>>
      BY <1>a, <2>6, OptionalType DEF Settled, ClientInside
    <3>2. /\ data' = [data EXCEPT ![e] = Append(r, w)]
          /\ writeOp' = [writeOp EXCEPT ![p] = "success"]
          /\ writeBuff' = [writeBuff EXCEPT ![p] = NoMsg]
      BY <2>1, <2>6 DEF TakeMsg
    <3>3. /\ data'[e] = Append(r, w) /\ writeBuff'[p] = NoMsg
          /\ data'[p] = data[p] /\ writeBuff'[e] = writeBuff[e] /\ readBuff'[p] = readBuff[p]
      BY <1>a, <2>1, <3>2
    <3>4. Settled'
      BY <1>a, <2>1, <3>2, <3>3, <2>6, <3>1, <1>2 DEF Settled, ClientInside
    <3>5. Append(r, w) \in Seq(Msg) /\ <<h>> \o Append(r, w) = Append(<<h>> \o r, w)
      BY <2>2, <3>1, AppendProperties, ConcatAppend
    <3>6. Append(<<h>> \o r, w) = data[e] \o <<w>>
      BY <1>a, <2>2, <3>1, AppendIsConcat
    <3>7. (<<h>> \o Append(r, w)) \o <<>> = <<h>> \o Append(r, w)
      BY <2>2, <3>5, ConcatProperties, ConcatEmptySeq
    <3>8. Way(e)' = (<<h>> \o Append(r, w)) \o <<>>
      BY <1>b, <2>3, <3>3 DEF Way
    <3>9. Way(e)' = Way(e)
      BY <2>5, <3>1, <3>5, <3>6, <3>7, <3>8
    <3>10. Way(p)' = Way(p)
      BY <1>a, <3>3 DEF Way
    <3>. QED BY <1>a, <3>4, <3>9, <3>10
  <2>7. CASE writeOp[p] # "pending"
    <3>1. /\ data' = [data EXCEPT ![e] = r] /\ UNCHANGED <<writeOp, writeBuff>>
      BY <2>1, <2>7 DEF TakeMsg
    <3>2. /\ data'[e] = r /\ data'[p] = data[p] /\ readBuff'[p] = readBuff[p]
      BY <1>a, <2>1, <3>1
    <3>3. Settled'
      BY <1>a, <2>1, <3>1, <3>2, <1>2 DEF Settled, ClientInside
    <3>4. Way(e)' = (<<h>> \o r) \o Optional(writeBuff[p])
      BY <2>3, <3>1, <3>2 DEF Way
    <3>5. Way(e)' = Way(e)
      BY <2>2, <2>5, <3>4
    <3>6. Way(p)' = Way(p)
      BY <1>a, <3>1, <3>2 DEF Way
    <3>. QED BY <1>a, <3>3, <3>5, <3>6
  <2>. QED BY <2>6, <2>7
<1>. QED BY <1>1, <1>2

\* A write adds a message at the end of its way, or fails.
LEMMA WriteAddsToWay ==
    ASSUME PipeTypeOK, Settled, NEW e \in End, NEW m \in Msg, WriteFile(e, m),
           writeOp[e] = "idle"
    PROVE  /\ Settled' /\ Way(e)' = Way(e)
           /\ Way(Peer(e))' = Way(Peer(e)) \/ Way(Peer(e))' = Append(Way(Peer(e)), m)
<1>. DEFINE p == Peer(e)
<1>a. /\ data \in [End -> Seq(Msg)] /\ readBuff \in [End -> Nat] /\ writeBuff \in [End -> Nat]
      /\ readOp \in [End -> OpStatus] /\ writeOp \in [End -> OpStatus]
      /\ p \in End /\ p # e /\ Peer(p) = e /\ \A f \in End : f = e \/ f = p
  BY WayParts DEF PipeTypeOK, End, Peer
<1>b. Optional(NoMsg) = <<>> /\ <<>> \in Seq(Msg) /\ Optional(m) = <<m>> /\ <<m>> \in Seq(Msg)
  BY OptionalType DEF Optional, Msg
<1>c. writeBuff[e] = NoMsg /\ m \in Nat
  BY DEF Settled, ClientInside, Msg
<1>. DEFINE b == Optional(readBuff[p])
<1>d. b \in Seq(Msg) /\ b \o data[p] \in Seq(Msg)
  BY <1>a, WayParts
<1>e. Way(p) = b \o data[p]
  BY <1>a, <1>b, <1>c, <1>d, ConcatEmptySeq DEF Way
<1>1. CASE PutMsg(e, m) /\ readOp[p] = "pending"
  <2>1. /\ readOp' = [readOp EXCEPT ![p] = "success"]
        /\ readBuff' = [readBuff EXCEPT ![p] = m]
        /\ UNCHANGED <<data, writeBuff, pipeState>>
        /\ writeOp' = [writeOp EXCEPT ![e] = "success"]
    BY <1>1 DEF PutMsg, WriteFile
  <2>2. Settled'
    BY <1>a, <1>c, <2>1 DEF Settled, ClientInside
  <2>3. data[p] = <<>> /\ readBuff[p] = NoMsg
    BY <1>1, <1>a DEF Settled, ClientInside
  <2>4. Way(p) = <<>>
    BY <1>b, <1>e, <2>3, ConcatEmptySeq
  <2>5. Way(p)' = (<<m>> \o <<>>) \o <<>>
    BY <1>a, <1>b, <1>c, <2>1, <2>3 DEF Way
  <2>6. (<<m>> \o <<>>) \o <<>> = <<m>> /\ Append(<<>>, m) = <<m>>
    BY <1>b, ConcatEmptySeq
  <2>7. Way(e)' = Way(e)
    BY <1>a, <2>1 DEF Way
  <2>. QED BY <2>2, <2>4, <2>5, <2>6, <2>7
<1>2. CASE PutMsg(e, m) /\ readOp[p] # "pending"
  <2>1. /\ data' = [data EXCEPT ![p] = Append(data[p], m)]
        /\ UNCHANGED <<readOp, readBuff, writeBuff, pipeState>> /\ pipeState = "connected"
        /\ writeOp' = [writeOp EXCEPT ![e] = "success"]
    <3>1. Len(data[p]) \in Nat /\ Len(data[p]) < Quota
      BY <1>a, <1>2, LenProperties DEF PutMsg
    <3>2. ~(Len(data[p]) >= Quota)
      BY <3>1, QuotaAssumption
    <3>. QED BY <1>2, <3>2 DEF PutMsg, WriteFile
  <2>2. Settled'
    BY <1>a, <1>c, <1>2, <2>1 DEF Settled, ClientInside
  <2>3. Append(data[p], m) \in Seq(Msg) /\ b \o Append(data[p], m) = Append(b \o data[p], m)
    BY <1>a, <1>d, AppendProperties, ConcatAppend
  <2>4. Way(p)' = (b \o Append(data[p], m)) \o <<>>
    BY <1>a, <1>b, <1>c, <2>1 DEF Way
  <2>5. (b \o Append(data[p], m)) \o <<>> = b \o Append(data[p], m)
    BY <1>d, <2>3, ConcatProperties, ConcatEmptySeq
  <2>6. Way(e)' = Way(e)
    BY <1>a, <2>1 DEF Way
  <2>. QED BY <1>e, <2>2, <2>3, <2>4, <2>5, <2>6
<1>3. CASE /\ writeOp' = [writeOp EXCEPT ![e] = "pending"] /\ pipeState = "connected"
           /\ writeBuff' = [writeBuff EXCEPT ![e] = m]
           /\ UNCHANGED <<data, readOp, readBuff, pipeState>>
  <2>1. Settled'
    BY <1>a, <1>3 DEF Settled, ClientInside
  <2>2. Way(p)' = (b \o data[p]) \o <<m>>
    BY <1>a, <1>b, <1>3 DEF Way
  <2>3. (b \o data[p]) \o <<m>> = Append(b \o data[p], m)
    BY <1>d, AppendIsConcat
  <2>4. Way(e)' = Way(e)
    BY <1>a, <1>3 DEF Way
  <2>. QED BY <1>e, <2>1, <2>2, <2>3, <2>4
<1>4. CASE /\ writeOp' = [writeOp EXCEPT ![e] = "idle"]
           /\ UNCHANGED <<data, readOp, readBuff, writeBuff, pipeState>>
  BY <1>a, <1>c, <1>4 DEF Settled, ClientInside, Way
<1>. QED BY <1>1, <1>2, <1>3, <1>4 DEF WriteFile

\* Whoever closes or disconnects takes the last part off both ways, or nothing.
LEMMA BreakShortensWays ==
    ASSUME PipeTypeOK, Settled, DisconnectNamedPipe \/ (\E x \in End : CloseHandle(x))
    PROVE  Settled' /\ \A f \in End : Shortened(Way(f), Way(f)')
<1>1. Settled'
  <2>1. /\ \A e \in End : /\ readOp'[e] = Break(readOp[e]) /\ writeOp'[e] = Break(writeOp[e])
                          /\ writeBuff'[e] = NoMsg /\ data'[e] \in {<<>>, data[e]}
        /\ readBuff' = readBuff
    BY DEF DisconnectNamedPipe, CloseHandle, PipeTypeOK
  <2>2. data'["client"] # <<>> => ClientInside'
    <3>1. CASE DisconnectNamedPipe \/ CloseHandle("client")
      BY <3>1 DEF DisconnectNamedPipe, CloseHandle, PipeTypeOK, End
    <3>2. CASE CloseHandle("server")
      BY <3>2 DEF CloseHandle, AfterClose, PipeTypeOK, End, Settled, ClientInside
    <3>. QED BY <3>1, <3>2 DEF End
  <2>. QED BY <2>1, <2>2 DEF Settled, ClientInside, Break
<1>2. ASSUME NEW f \in End
      PROVE  Shortened(Way(f), Way(f)')
  <2>. DEFINE b == Optional(readBuff[f])
              w == Optional(writeBuff[Peer(f)])
  <2>a. /\ b \in Seq(Msg) /\ data[f] \in Seq(Msg) /\ w \in Seq(Msg)
        /\ b \o data[f] \in Seq(Msg) /\ Peer(f) \in End /\ <<>> \in Seq(Msg)
    BY <1>2, WayParts
  <2>b. writeBuff'[Peer(f)] = NoMsg /\ data'[f] \in {<<>>, data[f]} /\ readBuff' = readBuff
    BY <2>a DEF DisconnectNamedPipe, CloseHandle, PipeTypeOK
  <2>c. Way(f)' = (b \o data'[f]) \o <<>>
    BY <2>b DEF Way, Optional
  <2>1. CASE data'[f] = <<>>
    <3>1. Way(f)' = b
      BY <2>a, <2>c, <2>1, ConcatEmptySeq
    <3>2. Way(f) = b \o (data[f] \o w)
      <4>1. (b \o data[f]) \o w = b \o (data[f] \o w)
        <5>. HIDE DEF b, w
        <5>1. \A s, t, u \in Seq(Msg) : (s \o t) \o u = s \o (t \o u)
          BY ConcatAssociative
        <5>. QED BY <2>a, <5>1, Zenon
      <4>. QED BY <4>1 DEF Way
    <3>3. data[f] \o w \in Seq(Msg)
      BY <2>a, ConcatProperties
    <3>. QED BY <2>a, <3>1, <3>2, <3>3, FrontShortens
  <2>2. CASE data'[f] = data[f]
    <3>1. Way(f)' = b \o data[f]
      BY <2>a, <2>c, <2>2, ConcatEmptySeq
    <3>. QED BY <2>a, <3>1, FrontShortens DEF Way
  <2>. QED BY <2>b, <2>1, <2>2
<1>. QED BY <1>1, <1>2

\* What the object's steps do to the way out of its sendMsg ...
SendStep ==
    \/ /\ sent' = sent + 1 /\ Queue' = Append(Queue, sent + 1)
       /\ Way(Peer(m_type))' = Way(Peer(m_type))
    \/ /\ sent' = sent /\ Queue # <<>> /\ Queue' = Tail(Queue)
       /\ \/ Way(Peer(m_type))' = Way(Peer(m_type))
          \/ Way(Peer(m_type))' = Append(Way(Peer(m_type)), Head(Queue))
    \/ sent' = sent /\ Queue' = Queue /\ Shortened(Way(Peer(m_type)), Way(Peer(m_type))')

\* ... and to the way into its received list.
ReceiveStep ==
    \/ /\ Way(m_type) # <<>> /\ Listed' = Append(Listed, Head(Way(m_type)))
       /\ Way(m_type)' = Tail(Way(m_type))
    \/ Listed' = Listed /\ Shortened(Way(m_type), Way(m_type)')

BothWays == Settled' /\ OwnBuffers' /\ SendStep /\ ReceiveStep

\* Steps that list nothing and queue nothing.
LEMMA WaysKept ==
    ASSUME UNCHANGED <<sent, msg, writeMsgsList, dispatched, readMsgsList>>,
           \A f \in End : Shortened(Way(f), Way(f)'),
           Settled', OwnBuffers'
    PROVE  BothWays
BY OutboundEnds DEF BothWays, SendStep, ReceiveStep, Queue, Listed

LEMMA WaysUntouched ==
    ASSUME Settled, OwnBuffers', UNCHANGED <<sent, msg, writeMsgsList, dispatched,
           readMsgsList, pipeState, data, readBuff, writeBuff>>,
           \A e \in End :
              /\ readOp'[e] = readOp[e] \/ (Signaled(readOp[e]) /\ readOp'[e] = "idle")
              /\ writeOp'[e] = writeOp[e] \/ (Signaled(writeOp[e]) /\ writeOp'[e] = "idle")
    PROVE  BothWays
<1>1. Settled'
  BY DEF Settled, ClientInside, Signaled
<1>2. \A f \in End : Shortened(Way(f), Way(f)')
  BY DEF Way, Shortened
<1>. QED BY <1>1, <1>2, WaysKept

\* The handler of a completed read lists the message that has arrived.
LEMMA ListingDelivers ==
    ASSUME IpcTypeOK, Settled, OwnBuffers, handleReadData, readBuff[m_type] \in Msg,
           readOp[m_type] = "idle"
    PROVE  BothWays
<1>. DEFINE m == readBuff[m_type]
            d == data[m_type]
            w == Optional(writeBuff[Peer(m_type)])
<1>a. /\ PipeTypeOK /\ m_type \in End /\ Peer(m_type) \in End /\ Peer(m_type) # m_type
      /\ d \in Seq(Msg) /\ w \in Seq(Msg) /\ Optional(m) = <<m>> /\ <<m>> \in Seq(Msg)
      /\ readMsgsList \in Seq(Msg) /\ dispatched \in Seq(Msg)
      /\ readBuff \in [End -> Nat]
  <2>1. /\ PipeTypeOK /\ m_type \in End /\ Peer(m_type) \in End /\ Peer(m_type) # m_type
        /\ readMsgsList \in Seq(Msg) /\ dispatched \in Seq(Msg)
    BY OutboundEnds DEF IpcTypeOK
  <2>2. d \in Seq(Msg) /\ w \in Seq(Msg)
    BY <2>1, WayParts
  <2>3. Optional(m) = <<m>> /\ <<m>> \in Seq(Msg)
    BY DEF Optional, Msg, NoMsg
  <2>4. readBuff \in [End -> Nat]
    BY <2>1 DEF PipeTypeOK
  <2>. QED BY <2>1, <2>2, <2>3, <2>4
<1>1. /\ readMsgsList' = Append(readMsgsList, m) /\ readBuff' = [readBuff EXCEPT ![m_type] = NoMsg]
      /\ workerPc' = "rearm"
      /\ UNCHANGED <<pipeState, data, readOp, writeOp, writeBuff, sent, dispatched,
                     writeMsgsList, msg>>
  BY DEF handleReadData, mainVars, queueVars
<1>2. readBuff'[m_type] = NoMsg /\ readBuff'[Peer(m_type)] = readBuff[Peer(m_type)]
  BY <1>a, <1>1
<1>3. Settled'
  BY <1>a, <1>1 DEF Settled, ClientInside
<1>4. OwnBuffers'
  BY <1>1, <1>2 DEF OwnBuffers, handleReadData
<1>5. Listed' = Append(Listed, m)
  BY <1>a, <1>1, ConcatAppend DEF Listed
<1>6. Way(m_type) = <<m>> \o (d \o w)
  <2>1. (<<m>> \o d) \o w = <<m>> \o (d \o w)
    <3>. HIDE DEF m, d, w
    <3>1. \A s, t, u \in Seq(Msg) : (s \o t) \o u = s \o (t \o u)
      BY ConcatAssociative
    <3>. QED BY <1>a, <3>1, Zenon
  <2>. QED BY <1>a, <2>1 DEF Way
<1>7. Way(m_type)' = d \o w
  <2>1. Way(m_type)' = (<<>> \o d) \o w
    BY <1>1, <1>2 DEF Way, Optional
  <2>. QED BY <1>a, <2>1, ConcatEmptySeq
<1>8. Way(m_type) # <<>> /\ Head(Way(m_type)) = m /\ Tail(Way(m_type)) = d \o w
  <2>1. d \o w \in Seq(Msg)
    BY <1>a, ConcatProperties
  <2>2. <<m>> # <<>> /\ Head(<<m>>) = m /\ Tail(<<m>>) = <<>>
    OBVIOUS
  <2>3. <<>> \o (d \o w) = d \o w
    BY <2>1, ConcatEmptySeq
  <2>4. /\ <<m>> \o (d \o w) # <<>>
        /\ Head(<<m>> \o (d \o w)) = Head(<<m>>)
        /\ Tail(<<m>> \o (d \o w)) = Tail(<<m>>) \o (d \o w)
    BY <1>a, <2>1, <2>2, TailOfConcat
  <2>. QED BY <1>6, <2>2, <2>3, <2>4
<1>9. ReceiveStep
  BY <1>5, <1>7, <1>8 DEF ReceiveStep
<1>10. SendStep
  <2>1. Way(Peer(m_type))' = Way(Peer(m_type))
    BY <1>1, <1>2 DEF Way
  <2>. QED BY <1>1, <2>1 DEF SendStep, Shortened, Queue
<1>. QED BY <1>3, <1>4, <1>9, <1>10 DEF BothWays

\* The object's reads and the end of its connection.
LEMMA CallsKeepWays ==
    ASSUME IpcTypeOK, Settled, OwnBuffers,
           UNCHANGED <<sent, msg, writeMsgsList, dispatched, readMsgsList>>,
           \/ /\ ReadFile(m_type) /\ readOp[m_type] = "idle"
              /\ workerPc \notin {"readData", "exited", "write"} /\ workerPc' # "exited"
           \/ /\ DisconnectNamedPipe \/ (\E x \in End : CloseHandle(x))
              /\ workerPc \notin {"write", "readData", "exited"} \/ workerPc' = "exited"
    PROVE  BothWays
<1>a. PipeTypeOK /\ m_type \in End
  BY OutboundEnds DEF IpcTypeOK
<1>1. CASE /\ ReadFile(m_type) /\ readOp[m_type] = "idle"
           /\ workerPc \notin {"readData", "exited", "write"} /\ workerPc' # "exited"
  <2>1. readBuff[m_type] = NoMsg /\ msg = NoMsg
    BY <1>1 DEF OwnBuffers
  <2>2. Settled' /\ \A f \in End : Shortened(Way(f), Way(f)')
    BY <1>a, <1>1, <2>1, ReadKeepsWays DEF Shortened
  <2>3. readBuff'[m_type] # NoMsg => readOp'[m_type] = "success"
    BY <1>a, <1>1, <2>1 DEF ReadFile, PipeTypeOK
  <2>. QED BY <2>1, <2>2, <2>3, WaysKept DEF OwnBuffers
<1>2. CASE /\ DisconnectNamedPipe \/ (\E x \in End : CloseHandle(x))
           /\ workerPc \notin {"write", "readData", "exited"} \/ workerPc' = "exited"
  <2>1. Settled' /\ \A f \in End : Shortened(Way(f), Way(f)')
    BY <1>a, <1>2, BreakShortensWays
  <2>2. readBuff' = readBuff /\ readOp'[m_type] = Break(readOp[m_type])
    BY <1>a, <1>2 DEF DisconnectNamedPipe, CloseHandle
  <2>3. OwnBuffers'
    BY <1>2, <2>2 DEF OwnBuffers, Break
  <2>. QED BY <2>1, <2>3, WaysKept
<1>. QED BY <1>1, <1>2

\* All steps both types share.
LEMMA IpcBothWays ==
    ASSUME IpcTypeOK, Settled, OwnBuffers, IpcMain \/ IpcWorker,
           popMsg => writeMsgsList # <<>>,
           startWrite => msg \in Msg /\ writeOp[m_type] = "idle",
           handleReadData => readBuff[m_type] \in Msg,
           handleReadData \/ rearmRead => readOp[m_type] = "idle"
    PROVE  BothWays
<1>. USE DEF mainVars, queueVars, workerVars, pipeVars
<1>a. PipeTypeOK /\ m_type \in End /\ Peer(m_type) \in End /\ Peer(m_type) # m_type
  BY OutboundEnds DEF IpcTypeOK
<1>1. CASE sendMsgPush
  <2>1. UNCHANGED <<pipeVars, dispatched, readMsgsList, workerPc, msg>>
    BY <1>1 DEF sendMsgPush
  <2>2. sent' = sent + 1 /\ Queue' = Append(Queue, sent + 1)
    BY <1>1, PushQueues
  <2>3. \A f \in End : Way(f)' = Way(f)
    BY <2>1 DEF Way
  <2>4. Settled' /\ OwnBuffers'
    BY <2>1 DEF Settled, ClientInside, OwnBuffers
  <2>. QED BY <1>a, <2>1, <2>2, <2>3, <2>4
           DEF BothWays, SendStep, ReceiveStep, Shortened, Listed
<1>2. CASE popMsg
  <2>1. /\ UNCHANGED <<pipeVars, dispatched, readMsgsList, sent>> /\ workerPc' = "write"
        /\ workerPc = "pop"
    BY <1>2 DEF popMsg
  <2>2. Queue' = Queue
    BY <1>2, <2>1, PopQueue DEF OwnBuffers
  <2>3. \A f \in End : Way(f)' = Way(f)
    BY <2>1 DEF Way
  <2>4. Settled' /\ OwnBuffers'
    BY <2>1 DEF Settled, ClientInside, OwnBuffers
  <2>. QED BY <1>a, <2>1, <2>2, <2>3, <2>4
           DEF BothWays, SendStep, ReceiveStep, Shortened, Listed
<1>3. CASE startWrite
  <2>1. /\ WriteFile(m_type, msg) /\ msg \in Msg /\ writeOp[m_type] = "idle"
        /\ UNCHANGED <<sent, dispatched, readMsgsList>> /\ msg' = NoMsg
        /\ workerPc' = "wait" /\ workerPc = "write"
    BY <1>3 DEF startWrite
  <2>2. Queue # <<>> /\ Head(Queue) = msg /\ Queue' = Tail(Queue)
    BY <1>3, <2>1, WriteQueue
  <2>3. /\ Settled' /\ Way(m_type)' = Way(m_type)
        /\ \/ Way(Peer(m_type))' = Way(Peer(m_type))
           \/ Way(Peer(m_type))' = Append(Way(Peer(m_type)), msg)
    BY <1>a, <2>1, WriteAddsToWay
  <2>4. readBuff'[m_type] = readBuff[m_type] /\ readOp'[m_type] = readOp[m_type]
    BY <1>a, <2>1 DEF WriteFile, PutMsg, PipeTypeOK
  <2>5. OwnBuffers'
    BY <2>1, <2>4 DEF OwnBuffers
  <2>. QED BY <2>1, <2>2, <2>3, <2>5 DEF BothWays, SendStep, ReceiveStep, Shortened, Listed
<1>4. CASE ReturnFromMain \/ handleWriteError
  <2>1. /\ CloseHandle(m_type) /\ workerPc' = "exited"
        /\ UNCHANGED <<sent, msg, writeMsgsList, dispatched, readMsgsList>>
    BY <1>4 DEF ReturnFromMain, handleWriteError
  <2>. QED BY <1>a, <2>1, CallsKeepWays
<1>5. CASE rearmRead
  BY <1>5, CallsKeepWays DEF rearmRead
<1>6. CASE handleReadData
  BY <1>6, ListingDelivers
<1>7. CASE getMsgs
  <2>1. UNCHANGED <<pipeVars, sent, msg, writeMsgsList, workerPc>>
    BY <1>7 DEF getMsgs
  <2>2. Listed' = Listed
    <3>1. Listed' = Listed \o <<>> /\ Listed \in Seq(Msg)
      BY <1>7, ConcatProperties DEF getMsgs, Listed, IpcTypeOK
    <3>. QED BY <3>1, ConcatEmptySeq
  <2>3. \A f \in End : Way(f)' = Way(f)
    BY <2>1 DEF Way
  <2>4. Settled' /\ OwnBuffers'
    BY <2>1 DEF Settled, ClientInside, OwnBuffers
  <2>. QED BY <1>a, <2>1, <2>2, <2>3, <2>4
           DEF BothWays, SendStep, ReceiveStep, Shortened, Queue
<1>8. CASE sendMsgSignal \/ close \/ handleWriteDone \/ handleNotEmptyEvent
  <2>1. UNCHANGED <<pipeVars, sent, msg, writeMsgsList, dispatched, readMsgsList>>
    BY <1>8 DEF sendMsgSignal, close, handleWriteDone, handleNotEmptyEvent
  <2>2. OwnBuffers'
    BY <1>8, <2>1 DEF sendMsgSignal, close, handleWriteDone, handleNotEmptyEvent,
                      NextWritePc, OwnBuffers
  <2>. QED BY <2>1, <2>2, WaysUntouched
<1>9. CASE waitRead
  <2>1. /\ UNCHANGED <<pipeState, data, readBuff, writeBuff, writeOp, sent, msg,
                       writeMsgsList, dispatched, readMsgsList>>
        /\ readOp' = [readOp EXCEPT ![m_type] = "idle"] /\ Signaled(readOp[m_type])
        /\ workerPc = "wait" /\ workerPc' = ReadHandler
    BY <1>9 DEF waitRead, WaitReturns, EventSet
  <2>2. OwnBuffers'
    BY <1>a, <2>1 DEF OwnBuffers, ReadHandler, Settled, ClientInside, Signaled, PipeTypeOK
  <2>3. \A e \in End : readOp'[e] = readOp[e] \/ (Signaled(readOp[e]) /\ readOp'[e] = "idle")
    BY <1>a, <2>1 DEF PipeTypeOK
  <2>. QED BY <2>1, <2>2, <2>3, WaysUntouched
<1>10. CASE waitWrite
  <2>1. /\ UNCHANGED <<pipeState, data, readBuff, writeBuff, readOp, sent, msg,
                       writeMsgsList, dispatched, readMsgsList>>
        /\ writeOp' = [writeOp EXCEPT ![m_type] = "idle"] /\ Signaled(writeOp[m_type])
        /\ workerPc = "wait" /\ workerPc' = WriteHandler
    BY <1>10 DEF waitWrite, WaitReturns, EventSet
  <2>2. OwnBuffers'
    BY <2>1 DEF OwnBuffers, WriteHandler
  <2>3. \A e \in End : writeOp'[e] = writeOp[e] \/ (Signaled(writeOp[e]) /\ writeOp'[e] = "idle")
    BY <1>a, <2>1 DEF PipeTypeOK
  <2>. QED BY <2>1, <2>2, <2>3, WaysUntouched
<1>11. CASE waitStop \/ waitNotEmpty
  <2>1. UNCHANGED <<pipeState, data, readBuff, writeBuff, readOp, writeOp, sent, msg,
                    writeMsgsList, dispatched, readMsgsList>>
    BY <1>11 DEF waitStop, waitNotEmpty, WaitReturns
  <2>2. OwnBuffers'
    BY <1>11, <2>1 DEF OwnBuffers, waitStop, waitNotEmpty, WaitReturns
  <2>. QED BY <2>1, <2>2, WaysUntouched
<1>. QED BY <1>1, <1>2, <1>3, <1>4, <1>5, <1>6, <1>7, <1>8, <1>9, <1>10, <1>11
         DEF IpcMain, IpcWorker, closeJoined, closeTimedOut

\* The other end's steps only complete what is outstanding at this one.
LEMMA OthersKeepBuffers ==
    ASSUME Settled, OwnBuffers, OnlyCompletes(m_type), UNCHANGED <<workerPc, msg>>
    PROVE  OwnBuffers'
BY OutboundEnds DEF OwnBuffers, OnlyCompletes, Settled, ClientInside

\* What a client does to the pipe that its server can see.
ClientCall ==
    \/ OpenClient \/ ReadFile("client") \/ (\E m \in Msg : WriteFile("client", m))
    \/ CloseHandle("client")
    \/ UNCHANGED <<pipeState, data, connectOp, readOp["server"], readBuff["server"]>>
=============================================================================
