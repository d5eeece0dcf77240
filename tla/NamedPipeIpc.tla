---------------------------- MODULE NamedPipeIpc ----------------------------
(***************************************************************************)
(* The class NamedPipeIpc of namedpipeipc/shared: what an object of either *)
(* type does alike.  The main thread queues messages with sendMsg, takes   *)
(* received ones with getMsgs and ends with close; the worker thread waits *)
(* for the object's events and does all reading and writing of the pipe.   *)
(* NamedPipeIpcServer and NamedPipeIpcClient add what depends on m_type.   *)
(*                                                                         *)
(* A step of a thread ends at an access another thread or the system can   *)
(* see: a call on the pipe, a wait, an event, a lock, a shared list.       *)
(* A message is the number of the sendMsg call that queued it.             *)
(***************************************************************************)
EXTENDS NamedPipe

CONSTANTS
    m_type,     \* "server" for TYPE_SERVER, "client" for TYPE_CLIENT
    MaxSend     \* bound on the sendMsg calls of the main thread

ASSUME TypeAssumption == m_type \in End
ASSUME MaxSendAssumption == MaxSend \in Nat

VARIABLES
    mainPc,             \* where the main thread is
    writeMsgsList,      \* sendMsg's queue
    writeMsgsListLock,  \* who holds its critical section
    readMsgsList,       \* received, not yet taken by getMsgs
    stopEvent,          \* events[3], manual reset
    notEmptyEvent,      \* events[4], auto reset
    workerPc,           \* where the worker thread is
    bWritting,          \* the worker's flag: a WriteFile has been issued
    msg,                \* popped by writeMsg, not yet given to WriteFile
    sent,               \* history: sendMsg calls so far
    dispatched          \* history: what getMsgs handed to dispatchMsgs

mainVars == <<mainPc, stopEvent, sent, dispatched>>
queueVars == <<writeMsgsList, writeMsgsListLock, notEmptyEvent>>
workerVars == <<workerPc, bWritting, msg>>
ipcVars == <<mainVars, queueVars, readMsgsList, workerVars>>

MainPc == {"opening", "waitPipe", "setMode", "input", "signal", "getMsgs", "join",
           "returned"}
WorkerPc == {"none", "start", "wait", "connectEvent", "readData", "rearm",
             "readError", "reconnect", "writeDone", "writeError", "notEmpty",
             "pop", "write", "stopping", "exited"}

IpcTypeOK ==
    /\ PipeTypeOK
    /\ mainPc \in MainPc
    /\ writeMsgsList \in Seq(Msg)
    /\ writeMsgsListLock \in {"free", "main"}
    /\ readMsgsList \in Seq(Msg)
    /\ stopEvent \in BOOLEAN
    /\ notEmptyEvent \in BOOLEAN
    /\ workerPc \in WorkerPc
    /\ bWritting \in BOOLEAN
    /\ msg \in Nat
    /\ sent \in Nat
    /\ dispatched \in Seq(Msg)

\* A constructed object: empty lists, events not set, no write under way.
IpcInit ==
    /\ writeMsgsList = <<>>
    /\ writeMsgsListLock = "free"
    /\ readMsgsList = <<>>
    /\ stopEvent = FALSE
    /\ notEmptyEvent = FALSE
    /\ bWritting = FALSE
    /\ msg = NoMsg
    /\ sent = 0
    /\ dispatched = <<>>

-----------------------------------------------------------------------------
\* The main thread: one round of its loop queues the line it read, then takes
\* and dispatches what was received.

\* sendMsg up to push_back, the critical section still held.
sendMsgPush ==
    /\ mainPc = "input"
    /\ sent < MaxSend
    /\ writeMsgsListLock = "free"
    /\ writeMsgsListLock' = "main"
    /\ writeMsgsList' = Append(writeMsgsList, sent + 1)
    /\ sent' = sent + 1
    /\ mainPc' = "signal"
    /\ UNCHANGED <<pipeVars, readMsgsList, stopEvent, notEmptyEvent,
                   workerVars, dispatched>>

\* Mutant: signals every message but the one that makes the list non-empty.
sendMsgSignalLate ==
    /\ mainPc = "signal"
    /\ notEmptyEvent' = (notEmptyEvent \/ Len(writeMsgsList) > 1)
    /\ writeMsgsListLock' = "free"
    /\ mainPc' = "getMsgs"
    /\ UNCHANGED <<pipeVars, writeMsgsList, readMsgsList, stopEvent,
                   workerVars, sent, dispatched>>

\* sendMsg from the size test to the release of the critical section.
sendMsgSignal ==
    /\ mainPc = "signal"
    /\ notEmptyEvent' = (notEmptyEvent \/ Len(writeMsgsList) = 1)
    /\ writeMsgsListLock' = "free"
    /\ mainPc' = "getMsgs"
    /\ UNCHANGED <<pipeVars, writeMsgsList, readMsgsList, stopEvent,
                   workerVars, sent, dispatched>>

\* Mutant: the received list is copied out and not emptied.
getMsgsCopy ==
    /\ mainPc = "getMsgs"
    /\ dispatched' = dispatched \o readMsgsList
    /\ mainPc' = "input"
    /\ UNCHANGED <<pipeVars, queueVars, readMsgsList, stopEvent, workerVars,
                   sent>>

\* getMsgs swaps the received list out; dispatchMsgs consumes it.
getMsgs ==
    /\ mainPc = "getMsgs"
    /\ dispatched' = dispatched \o readMsgsList
    /\ readMsgsList' = <<>>
    /\ mainPc' = "input"
    /\ UNCHANGED <<pipeVars, queueVars, stopEvent, workerVars, sent>>

\* Mutant: close() sets events[4] in place of events[3].
closeWrongEvent ==
    /\ mainPc = "input"
    /\ notEmptyEvent' = TRUE
    /\ mainPc' = "join"
    /\ UNCHANGED <<pipeVars, writeMsgsList, writeMsgsListLock, readMsgsList,
                   stopEvent, workerVars, sent, dispatched>>

\* The line "exit": close() sets the stop event and waits for the worker.
close ==
    /\ mainPc = "input"
    /\ stopEvent' = TRUE
    /\ mainPc' = "join"
    /\ UNCHANGED <<pipeVars, queueVars, readMsgsList, workerVars, sent,
                   dispatched>>

\* main returns and the process ends, the worker and the pipe handle with it.
ReturnFromMain ==
    /\ mainPc = "join"
    /\ mainPc' = "returned"
    /\ workerPc' = "exited"
    /\ CloseHandle(m_type)
    /\ UNCHANGED <<queueVars, readMsgsList, stopEvent, bWritting, msg, sent,
                   dispatched>>

\* close()'s WaitForSingleObject returns because the worker ended ...
closeJoined == workerPc = "exited" /\ ReturnFromMain

\* ... or because its 5 s are over.
closeTimedOut == workerPc # "exited" /\ ReturnFromMain

-----------------------------------------------------------------------------
\* The worker thread

\* The five events in the order of the array; a client's events[0] is a
\* placeholder nobody sets.
EventSet(i) ==
    CASE i = 0 -> m_type = "server" /\ Signaled(connectOp)
      [] i = 1 -> Signaled(readOp[m_type])
      [] i = 2 -> Signaled(writeOp[m_type])
      [] i = 3 -> stopEvent
      [] i = 4 -> notEmptyEvent

\* Mutant: the test of Internal is the wrong way round.
ReadHandlerInverted == IF readOp[m_type] = "success" THEN "readError" ELSE "readData"

\* The branches the handlers of a completed read and write take on Internal.
\* It cannot change once the event is set, so the wait dispatches on it.
ReadHandler == IF readOp[m_type] = "success" THEN "readData" ELSE "readError"
WriteHandler == IF writeOp[m_type] = "success" THEN "writeDone" ELSE "writeError"

\* WaitForMultipleObjects returns the lowest event that is set and resets it
\* if it is auto-reset; the thread's loop dispatches on the index.
WaitReturns(i) ==
    /\ workerPc = "wait"
    /\ EventSet(i)
    /\ \A j \in 0 .. i - 1 : ~EventSet(j)
    /\ UNCHANGED <<pipeState, data, readBuff, writeBuff, mainVars,
                   writeMsgsList, writeMsgsListLock, readMsgsList, bWritting,
                   msg>>

waitConnect ==
    /\ WaitReturns(0)
    /\ connectOp' = "idle"
    /\ workerPc' = "connectEvent"
    /\ UNCHANGED <<readOp, writeOp, notEmptyEvent>>

waitRead ==
    /\ WaitReturns(1)
    /\ readOp' = [readOp EXCEPT ![m_type] = "idle"]
    /\ workerPc' = ReadHandler
    /\ UNCHANGED <<connectOp, writeOp, notEmptyEvent>>

waitWrite ==
    /\ WaitReturns(2)
    /\ writeOp' = [writeOp EXCEPT ![m_type] = "idle"]
    /\ workerPc' = WriteHandler
    /\ UNCHANGED <<connectOp, readOp, notEmptyEvent>>

\* A server's worker leaves its loop; a client's first closes its handle.
waitStop ==
    /\ WaitReturns(3)
    /\ workerPc' = IF m_type = "server" THEN "exited" ELSE "stopping"
    /\ UNCHANGED <<connectOp, readOp, writeOp, notEmptyEvent>>

waitNotEmpty ==
    /\ WaitReturns(4)
    /\ notEmptyEvent' = FALSE
    /\ workerPc' = "notEmpty"
    /\ UNCHANGED <<connectOp, readOp, writeOp>>

\* Mutant: the buffer is cleared before the message is assigned from it.
handleReadDataCleared ==
    /\ workerPc = "readData"
    /\ readMsgsList' = Append(readMsgsList, NoMsg)
    /\ readBuff' = [readBuff EXCEPT ![m_type] = NoMsg]
    /\ workerPc' = "rearm"
    /\ UNCHANGED <<pipeState, data, connectOp, readOp, writeOp, writeBuff,
                   mainVars, queueVars, bWritting, msg>>

\* handleReadEventServer and handleReadEventClient on success: the message is
\* listed and the buffer cleared ...
handleReadData ==
    /\ workerPc = "readData"
    /\ readMsgsList' = Append(readMsgsList, readBuff[m_type])
    /\ readBuff' = [readBuff EXCEPT ![m_type] = NoMsg]
    /\ workerPc' = "rearm"
    /\ UNCHANGED <<pipeState, data, connectOp, readOp, writeOp, writeBuff,
                   mainVars, queueVars, bWritting, msg>>

\* Mutant: the next read is not issued.
rearmReadForgotten ==
    /\ workerPc = "rearm"
    /\ workerPc' = "wait"
    /\ UNCHANGED <<pipeVars, mainVars, queueVars, readMsgsList, bWritting, msg>>

\* ... and the next read is issued; nobody looks at what ReadFile returns.
rearmRead ==
    /\ workerPc = "rearm"
    /\ ReadFile(m_type)
    /\ workerPc' = "wait"
    /\ UNCHANGED <<mainVars, queueVars, readMsgsList, bWritting, msg>>

\* writeMsg's empty() test, made without the lock: whether a racing push_back
\* is seen is the order of this step and sendMsgPush.
NextWritePc == IF writeMsgsList = <<>> THEN "wait" ELSE "pop"

\* Mutant: a completed write does not go on with the queue.
handleWriteDoneStops ==
    /\ workerPc = "writeDone"
    /\ bWritting' = FALSE
    /\ workerPc' = "wait"
    /\ UNCHANGED <<pipeVars, mainVars, queueVars, readMsgsList, msg>>

\* handleWriteEvent, success: go on with the queue.
handleWriteDone ==
    /\ workerPc = "writeDone"
    /\ bWritting' = FALSE
    /\ workerPc' = NextWritePc
    /\ UNCHANGED <<pipeVars, mainVars, queueVars, readMsgsList, msg>>

\* handleWriteEvent, failure: the pipe is closed and the worker ends.
handleWriteError ==
    /\ workerPc = "writeError"
    /\ bWritting' = FALSE
    /\ CloseHandle(m_type)
    /\ workerPc' = "exited"
    /\ UNCHANGED <<mainVars, queueVars, readMsgsList, msg>>

\* Mutant: the event starts a write whether or not one is under way.
handleNotEmptyEventUnguarded ==
    /\ workerPc = "notEmpty"
    /\ workerPc' = NextWritePc
    /\ UNCHANGED <<pipeVars, mainVars, queueVars, readMsgsList, bWritting, msg>>

\* The event is ignored while a write is under way: its completion goes on
\* with the queue.
handleNotEmptyEvent ==
    /\ workerPc = "notEmpty"
    /\ workerPc' = IF bWritting THEN "wait" ELSE NextWritePc
    /\ UNCHANGED <<pipeVars, mainVars, queueVars, readMsgsList, bWritting, msg>>

\* Mutant: front without pop_front.
popMsgKeeps ==
    /\ workerPc = "pop"
    /\ writeMsgsListLock = "free"
    /\ msg' = Head(writeMsgsList)
    /\ workerPc' = "write"
    /\ UNCHANGED <<pipeVars, mainVars, queueVars, readMsgsList, bWritting>>

\* writeMsg's locked front and pop_front, into the write buffer.
popMsg ==
    /\ workerPc = "pop"
    /\ writeMsgsListLock = "free"
    /\ msg' = Head(writeMsgsList)
    /\ writeMsgsList' = Tail(writeMsgsList)
    /\ workerPc' = "write"
    /\ UNCHANGED <<pipeVars, mainVars, writeMsgsListLock, readMsgsList,
                   notEmptyEvent, bWritting>>

\* writeMsg's WriteFile, what it returns not looked at.
startWrite ==
    /\ workerPc = "write"
    /\ WriteFile(m_type, msg)
    /\ bWritting' = TRUE
    /\ msg' = NoMsg
    /\ workerPc' = "wait"
    /\ UNCHANGED <<mainVars, queueVars, readMsgsList>>

IpcMain == sendMsgPush \/ sendMsgSignal \/ getMsgs \/ close \/ closeJoined
           \/ closeTimedOut

IpcWorker == waitRead \/ waitWrite \/ waitStop \/ waitNotEmpty \/ handleReadData
             \/ rearmRead \/ handleWriteDone \/ handleWriteError
             \/ handleNotEmptyEvent \/ popMsg \/ startWrite

-----------------------------------------------------------------------------
\* Properties of either type

\* The worker never sleeps on a queued message: sendMsg signals only when the
\* list grows to one, the event is auto-reset and is ignored while a write is
\* under way, and still, with no write under way, a non-empty list means that
\* the event is set or that sendMsg is about to set it.
NoLostWakeup ==
    workerPc = "wait" /\ writeMsgsList # <<>> /\ ~bWritting
        => notEmptyEvent \/ (mainPc = "signal" /\ Len(writeMsgsList) = 1)

\* bWritting is set and there is no write whose completion could clear it.
WriteStuck ==
    bWritting /\ writeOp[m_type] = "idle" /\ workerPc \notin {"writeDone", "writeError"}

Optional(m) == IF m = NoMsg THEN <<>> ELSE <<m>>
SeqHas(s, m) == \E i \in 1 .. Len(s) : s[i] = m

\* Everything received so far, in the order in which it left the pipe.
Received == dispatched \o readMsgsList \o Optional(readBuff[m_type])
=============================================================================
