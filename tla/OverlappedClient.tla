-------------------------- MODULE OverlappedClient --------------------------
(***************************************************************************)
(* overlappeddemo/clientnamedpipe: the main thread starts the worker at    *)
(* once and queues the lines it reads; the worker opens the pipe, creates  *)
(* the events and then does all I/O.  The server at the other end reads,   *)
(* writes, disconnects and closes at any time.                             *)
(*                                                                         *)
(* A message is the number of its line, or of the server's write.  Steps   *)
(* are those of OverlappedServer: a handler at once, but for the           *)
(* ResetEvent of handleNotEmptyEvent.                                      *)
(***************************************************************************)
EXTENDS MessagePipe

CONSTANTS
    MaxSend,        \* bound on the lines queued by main
    MaxServerMsgs,  \* bound on the messages the server writes
    MaxChanges      \* bound on what else happens to the server's instance

VARIABLES
    instance,       \* the server's instance while this client has not opened it
    pipe,           \* this client's end
    mainPc,         \* where the main thread is
    g_mainThreadStop,
    created,        \* the worker has created the events
    stopEvent,      \* events[2]
    notEmptyEvent,  \* events[3]
    writeMsgsList,  \* queued by main
    readMsgsList,   \* received, not yet dispatched
    workerPc,       \* where the worker is; "failed": it returned early
    bWritting,      \* the worker's flag: a WriteFile has been issued
    sent, dispatched,          \* history: lines queued, messages dispatched
    got, serverSent, changes   \* history of the server

mainVars == <<mainPc, sent, dispatched>>
listVars == <<writeMsgsList, readMsgsList, notEmptyEvent>>
workerVars == <<workerPc, created, g_mainThreadStop, bWritting>>
serverVars == <<instance, got, serverSent, changes>>
vars == <<pipe, mainVars, stopEvent, listVars, workerVars, serverVars>>

Msg == Nat \ {0}
Handler == {"read", "write", "stop", "notEmpty"}

TypeOK ==
    /\ instance \in {"listening", "busy", "none"}
    /\ pipe \in Pipe(Msg) /\ Len(pipe.out) <= Quota + 1
    /\ mainPc \in {"loop", "input", "dispatch", "join", "getch", "returned"}
    /\ g_mainThreadStop \in BOOLEAN /\ created \in BOOLEAN
    /\ stopEvent \in BOOLEAN /\ notEmptyEvent \in BOOLEAN
    /\ writeMsgsList \in Seq(Msg) /\ readMsgsList \in Seq(Msg)
    /\ workerPc \in {"open", "waitPipe", "setMode", "create", "wait",
                     "resetNotEmpty", "failed", "exited"} \cup Handler
    /\ bWritting \in BOOLEAN
    /\ sent \in Nat /\ dispatched \in Seq(Msg)
    /\ got \in Seq(Msg) /\ serverSent \in Nat /\ changes \in Nat

Init ==
    /\ instance \in {"listening", "busy", "none"}
    /\ pipe = NewPipe("closed")
    /\ mainPc = "loop"
    /\ g_mainThreadStop = FALSE /\ created = FALSE
    /\ stopEvent = FALSE /\ notEmptyEvent = FALSE
    /\ writeMsgsList = <<>> /\ readMsgsList = <<>>
    /\ workerPc = "open"
    /\ bWritting = FALSE
    /\ sent = 0 /\ dispatched = <<>>
    /\ got = <<>> /\ serverSent = 0 /\ changes = 0

-----------------------------------------------------------------------------
\* The main thread

\* The loop ends with the worker, but only between two lines.
testStop ==
    /\ mainPc = "loop"
    /\ mainPc' = IF g_mainThreadStop THEN "getch" ELSE "input"
    /\ UNCHANGED <<pipe, sent, dispatched, stopEvent, listVars, workerVars, serverVars>>

\* A line other than "exit".  SetEvent on a handle that is still NULL fails.
sendLine ==
    /\ mainPc = "input"
    /\ sent < MaxSend
    /\ sent' = sent + 1
    /\ writeMsgsList' = Append(writeMsgsList, sent + 1)
    /\ notEmptyEvent' = (notEmptyEvent \/ (created /\ Len(writeMsgsList') = 1))
    /\ mainPc' = "dispatch"
    /\ UNCHANGED <<pipe, dispatched, stopEvent, readMsgsList, workerVars, serverVars>>

dispatchMsgs ==
    /\ mainPc = "dispatch"
    /\ dispatched' = dispatched \o readMsgsList
    /\ readMsgsList' = <<>>
    /\ mainPc' = "loop"
    /\ UNCHANGED <<pipe, sent, stopEvent, writeMsgsList, notEmptyEvent, workerVars,
                   serverVars>>

\* The line "exit".
exitLine ==
    /\ mainPc = "input"
    /\ stopEvent' = (stopEvent \/ created)
    /\ mainPc' = "join"
    /\ UNCHANGED <<pipe, sent, dispatched, listVars, workerVars, serverVars>>

\* The wait for the worker ends, after 5 s at the latest.
joinWorker ==
    /\ mainPc = "join"
    /\ mainPc' = "getch"
    /\ UNCHANGED <<pipe, sent, dispatched, stopEvent, listVars, workerVars, serverVars>>

\* _getch returns and the process ends.
returnFromMain ==
    /\ mainPc = "getch"
    /\ mainPc' = "returned"
    /\ workerPc' = "exited"
    /\ pipe' = CloseHandle(pipe)
    /\ UNCHANGED <<sent, dispatched, stopEvent, listVars, created, g_mainThreadStop,
                   bWritting, serverVars>>

-----------------------------------------------------------------------------
\* The worker thread

\* CreateFile succeeds ...
createFile ==
    /\ workerPc = "open" /\ instance = "listening"
    /\ pipe' = NewPipe("connected")
    /\ instance' = "busy"
    /\ workerPc' = "setMode"
    /\ UNCHANGED <<mainVars, stopEvent, listVars, created, g_mainThreadStop,
                   bWritting, got, serverSent, changes>>

\* ... or finds all instances busy, or fails for another reason; WaitNamedPipe
\* sees one listening, or its 20 s are over or there is none; the mode is
\* set, or the server is already gone.  A failure returns at once.
workerMoves(pc, next) ==
    /\ workerPc = pc
    /\ workerPc' = next
    /\ UNCHANGED <<pipe, mainVars, stopEvent, listVars, created, g_mainThreadStop,
                   bWritting, serverVars>>

waitOrFail ==
    \/ workerMoves("open", "waitPipe") /\ instance = "busy"
    \/ workerMoves("open", "failed") /\ instance = "none"
    \/ workerMoves("waitPipe", "open") /\ instance = "listening"
    \/ workerMoves("waitPipe", "failed") /\ instance # "listening"

setHandleState ==
    \/ workerMoves("setMode", "create") /\ pipe.state \in {"connected", "peerClosed"}
    \/ workerMoves("setMode", "failed") /\ pipe.state # "connected"

\* The events are created and the first read is issued.
createEvents ==
    /\ workerPc = "create"
    /\ created' = TRUE
    /\ pipe' = ReadFile(pipe)
    /\ workerPc' = "wait"
    /\ UNCHANGED <<mainVars, stopEvent, listVars, g_mainThreadStop, bWritting, serverVars>>

\* Whether the event of a handler is set, and the order of the array.
EventSet(h) ==
    CASE h \in {"read", "write"} -> Completed(pipe[h])
      [] h = "stop" -> stopEvent
      [] h = "notEmpty" -> notEmptyEvent
Before(h) ==
    CASE h = "read"     -> {}
      [] h = "write"    -> {"read"}
      [] h = "stop"     -> {"read", "write"}
      [] h = "notEmpty" -> {"read", "write", "stop"}

waitForEvent ==
    /\ workerPc = "wait"
    /\ \E h \in Handler :
          /\ EventSet(h)
          /\ \A g \in Before(h) : ~EventSet(g)
          /\ workerPc' = h
    /\ UNCHANGED <<pipe, mainVars, stopEvent, listVars, created, g_mainThreadStop,
                   bWritting, serverVars>>

\* The loop is left: main is told, for its next round.
workerEnds == workerPc' = "exited" /\ g_mainThreadStop' = TRUE /\ UNCHANGED created
workerGoesOn(pc) == workerPc' = pc /\ UNCHANGED <<g_mainThreadStop, created>>

\* Mutant: the handle is closed without FlushFileBuffers.
flushAndCloseUnflushed ==
    /\ workerPc = "stop"
    /\ pipe' = CloseHandle(pipe)
    /\ workerEnds
    /\ UNCHANGED <<mainVars, stopEvent, listVars, bWritting, serverVars>>

\* The stop event: FlushFileBuffers waits until the server has read all that
\* was written, then the handle is closed.
flushAndClose ==
    /\ workerPc = "stop"
    /\ pipe.state = "connected" => pipe.out = <<>>
    /\ pipe' = CloseHandle(pipe)
    /\ workerEnds
    /\ UNCHANGED <<mainVars, stopEvent, listVars, bWritting, serverVars>>

\* handleReadEvent, success: list the message and read on.
handleReadDone ==
    /\ workerPc = "read" /\ pipe.read = "success"
    /\ readMsgsList' = readMsgsList \o pipe.buffer
    /\ pipe' = ReadFile([pipe EXCEPT !.read = "idle", !.buffer = <<>>])
    /\ workerGoesOn("wait")
    /\ UNCHANGED <<mainVars, stopEvent, writeMsgsList, notEmptyEvent, bWritting, serverVars>>

\* Mutant: a failed read is taken for the end of a message.
handleReadErrorIgnored ==
    /\ workerPc = "read" /\ pipe.read = "error"
    /\ pipe' = [pipe EXCEPT !.read = "idle"]
    /\ workerGoesOn("wait")
    /\ UNCHANGED <<mainVars, stopEvent, listVars, bWritting, serverVars>>

\* handleReadEvent, failure: the handle is closed and the worker ends.
handleReadError ==
    /\ workerPc = "read" /\ pipe.read = "error"
    /\ pipe' = [CloseHandle(pipe) EXCEPT !.read = "idle"]
    /\ workerEnds
    /\ UNCHANGED <<mainVars, stopEvent, listVars, bWritting, serverVars>>

\* The oldest message is popped and given to WriteFile, whatever that returns.
writeOldest ==
    /\ pipe' = WriteFile([pipe EXCEPT !.write = "idle"], Head(writeMsgsList))
    /\ writeMsgsList' = Tail(writeMsgsList)
    /\ bWritting' = TRUE

\* Mutant: does not look at bWritting.
handleNotEmptyEventUnguarded ==
    /\ workerPc = "notEmpty"
    /\ writeMsgsList # <<>>
    /\ writeOldest
    /\ workerGoesOn("resetNotEmpty")
    /\ UNCHANGED <<mainVars, stopEvent, readMsgsList, notEmptyEvent, serverVars>>

\* handleNotEmptyEvent, up to its ResetEvent.
handleNotEmptyEvent ==
    /\ workerPc = "notEmpty"
    /\ ~bWritting /\ writeMsgsList # <<>>
    /\ writeOldest
    /\ workerGoesOn("resetNotEmpty")
    /\ UNCHANGED <<mainVars, stopEvent, readMsgsList, notEmptyEvent, serverVars>>

\* Its early return: the event stays set and the caller leaves its loop.
handleNotEmptyEventRefused ==
    /\ workerPc = "notEmpty"
    /\ bWritting \/ writeMsgsList = <<>>
    /\ workerEnds
    /\ UNCHANGED <<pipe, mainVars, stopEvent, listVars, bWritting, serverVars>>

resetNotEmptyEvent ==
    /\ workerPc = "resetNotEmpty"
    /\ notEmptyEvent' = FALSE
    /\ workerGoesOn("wait")
    /\ UNCHANGED <<pipe, mainVars, stopEvent, writeMsgsList, readMsgsList, bWritting,
                   serverVars>>

\* handleWriteEvent, success: go on with the list, if there is anything in it.
handleWriteDone ==
    /\ workerPc = "write" /\ pipe.write = "success"
    /\ \/ writeMsgsList # <<>> /\ writeOldest
       \/ /\ writeMsgsList = <<>>
          /\ pipe' = [pipe EXCEPT !.write = "idle"]
          /\ bWritting' = FALSE
          /\ UNCHANGED writeMsgsList
    /\ workerGoesOn("wait")
    /\ UNCHANGED <<mainVars, stopEvent, readMsgsList, notEmptyEvent, serverVars>>

\* handleWriteEvent, failure: the handle is closed and the worker ends.
handleWriteError ==
    /\ workerPc = "write" /\ pipe.write = "error"
    /\ pipe' = [CloseHandle(pipe) EXCEPT !.write = "idle"]
    /\ bWritting' = FALSE
    /\ workerEnds
    /\ UNCHANGED <<mainVars, stopEvent, listVars, serverVars>>

-----------------------------------------------------------------------------
\* The server: any program that created the pipe

\* Before this client has opened it, the instance may change hands or vanish.
instanceChanges ==
    /\ changes < MaxChanges
    /\ workerPc \in {"open", "waitPipe"}
    /\ instance' \in {"listening", "busy", "none"} \ {instance}
    /\ changes' = changes + 1
    /\ UNCHANGED <<pipe, mainVars, stopEvent, listVars, workerVars, got, serverSent>>

serverRead ==
    /\ pipe.state \in {"connected", "closed"} /\ pipe.out # <<>>
    /\ pipe' = PeerRead(pipe)
    /\ got' = Append(got, Head(pipe.out))
    /\ UNCHANGED <<mainVars, stopEvent, listVars, workerVars, instance, serverSent, changes>>

serverWrite ==
    /\ serverSent < MaxServerMsgs /\ PeerCanWrite(pipe)
    /\ pipe' = PeerWrite(pipe, serverSent + 1)
    /\ serverSent' = serverSent + 1
    /\ UNCHANGED <<mainVars, stopEvent, listVars, workerVars, instance, got, changes>>

serverDisconnect ==
    /\ pipe.state = "connected"
    /\ pipe' = DisconnectNamedPipe(pipe)
    /\ UNCHANGED <<mainVars, stopEvent, listVars, workerVars, serverVars>>

serverClose ==
    /\ pipe.state = "connected"
    /\ pipe' = PeerClose(pipe)
    /\ UNCHANGED <<mainVars, stopEvent, listVars, workerVars, serverVars>>

-----------------------------------------------------------------------------
Main == testStop \/ sendLine \/ dispatchMsgs \/ exitLine \/ joinWorker \/ returnFromMain

Worker == createFile \/ waitOrFail \/ setHandleState \/ createEvents \/ waitForEvent
          \/ flushAndClose \/ handleReadDone \/ handleReadError \/ handleNotEmptyEvent
          \/ handleNotEmptyEventRefused \/ resetNotEmptyEvent \/ handleWriteDone
          \/ handleWriteError

Server == instanceChanges \/ serverRead \/ serverWrite \/ serverDisconnect \/ serverClose

Next == Main \/ Worker \/ Server

Spec == Init /\ [][Next]_vars

\* The threads are scheduled and a server that stays reads what it is sent;
\* nothing obliges the user to type or to press a key.
FairSpec == Spec /\ WF_vars(Worker) /\ WF_vars(testStop \/ dispatchMsgs)
                 /\ WF_vars(serverRead)

-----------------------------------------------------------------------------
\* Properties

\* No call takes an OVERLAPPED that is still outstanding or whose event is not
\* consumed: a message leaves the list, or the first read is issued, only then.
NoOverlappedReuseStep ==
    /\ Len(writeMsgsList') < Len(writeMsgsList)
           => pipe.write = "idle" \/ workerPc = "write"
    /\ workerPc = "create" => pipe.read = "idle"

\* What the server wrote is received in order, without a gap and at most once,
\* whenever main looks; while they are connected nothing of it is lost.
Received == dispatched \o readMsgsList \o pipe.buffer
InboundInOrder ==
    /\ Received = [i \in 1 .. Len(Received) |-> i]
    /\ pipe.state = "connected" => Len(Received \o pipe.in) = serverSent

\* "exit" cuts nothing off: what was written before it is read by the server,
\* unless one of the two goes away first.
ExitFlushes ==
    \A m \in 1 .. MaxSend :
        (\E i \in 1 .. Len(pipe.out) : pipe.out[i] = m) /\ workerPc = "stop"
            ~> (\E i \in 1 .. Len(got) : got[i] = m)
               \/ pipe.state \in {"peerClosed", "disconnected"} \/ mainPc = "returned"
=============================================================================
