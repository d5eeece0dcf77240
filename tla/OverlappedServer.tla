-------------------------- MODULE OverlappedServer --------------------------
(***************************************************************************)
(* overlappeddemo/servernamedpipe: a named-pipe server with one instance,  *)
(* a main thread that queues the lines it reads, and a worker thread that  *)
(* waits for five manual-reset events and does all I/O.  Clients open,     *)
(* write, read and close the other end at any time.                        *)
(*                                                                         *)
(* A message is the number of its line, or of the client's write.  A       *)
(* handler is one step unless another thread can see it half done: only    *)
(* handleNotEmptyEvent can, between its pop and its ResetEvent.  The list  *)
(* and its size test are under a lock in main, so a line is one step too.  *)
(***************************************************************************)
EXTENDS MessagePipe

CONSTANTS
    MaxSend,        \* bound on the lines queued by main
    MaxClientMsgs,  \* bound on the messages all clients write together
    MaxConnects     \* bound on the clients, that come one after another

VARIABLES
    pipe,           \* the instance, with its three OVERLAPPEDs and events
    mainPc,         \* where the main thread is
    stopEvent,      \* events[3]
    notEmptyEvent,  \* events[4]
    writeMsgsList,  \* queued by main
    readMsgsList,   \* received, not yet dispatched
    workerPc,       \* where the worker is: a handler, or between handlers
    bWritting,      \* the worker's flag: a WriteFile has been issued
    sent, dispatched,           \* history: lines queued, messages dispatched
    got, clientSent, connects   \* history of the clients

mainVars == <<mainPc, stopEvent, sent, dispatched>>
listVars == <<writeMsgsList, readMsgsList, notEmptyEvent>>
workerVars == <<workerPc, bWritting>>
clientVars == <<got, clientSent, connects>>
vars == <<pipe, mainVars, listVars, workerVars, clientVars>>

Msg == Nat \ {0}
Handler == {"connect", "read", "write", "stop", "notEmpty"}

TypeOK ==
    /\ pipe \in Pipe(Msg) /\ Len(pipe.out) <= Quota + 1
    /\ mainPc \in {"input", "dispatch", "join", "returned"}
    /\ stopEvent \in BOOLEAN /\ notEmptyEvent \in BOOLEAN
    /\ writeMsgsList \in Seq(Msg) /\ readMsgsList \in Seq(Msg)
    /\ workerPc \in {"start", "wait", "resetNotEmpty", "exited"} \cup Handler
    /\ bWritting \in BOOLEAN
    /\ sent \in Nat /\ dispatched \in Seq(Msg)
    /\ got \in Seq(Msg) /\ clientSent \in Nat /\ connects \in Nat

\* initNamedpipe, then the worker is started.
Init ==
    /\ pipe = NewPipe("listening")
    /\ mainPc = "input"
    /\ stopEvent = FALSE /\ notEmptyEvent = FALSE
    /\ writeMsgsList = <<>> /\ readMsgsList = <<>>
    /\ workerPc = "start"
    /\ bWritting = FALSE
    /\ sent = 0 /\ dispatched = <<>>
    /\ got = <<>> /\ clientSent = 0 /\ connects = 0

-----------------------------------------------------------------------------
\* The main thread

\* A line other than "exit": queued, and signalled if it is the only one.
sendLine ==
    /\ mainPc = "input"
    /\ sent < MaxSend
    /\ sent' = sent + 1
    /\ writeMsgsList' = Append(writeMsgsList, sent + 1)
    /\ notEmptyEvent' = (notEmptyEvent \/ Len(writeMsgsList') = 1)
    /\ mainPc' = "dispatch"
    /\ UNCHANGED <<pipe, stopEvent, dispatched, readMsgsList, workerVars, clientVars>>

dispatchMsgs ==
    /\ mainPc = "dispatch"
    /\ dispatched' = dispatched \o readMsgsList
    /\ readMsgsList' = <<>>
    /\ mainPc' = "input"
    /\ UNCHANGED <<pipe, stopEvent, sent, writeMsgsList, notEmptyEvent, workerVars,
                   clientVars>>

\* The line "exit".
exitLine ==
    /\ mainPc = "input"
    /\ stopEvent' = TRUE
    /\ mainPc' = "join"
    /\ UNCHANGED <<pipe, sent, dispatched, listVars, workerVars, clientVars>>

\* main's wait for the worker ends, after 5 s at the latest, and the process
\* with it.
returnFromMain ==
    /\ mainPc = "join"
    /\ mainPc' = "returned"
    /\ workerPc' = "exited"
    /\ pipe' = CloseHandle(pipe)
    /\ UNCHANGED <<stopEvent, sent, dispatched, listVars, bWritting, clientVars>>

-----------------------------------------------------------------------------
\* The worker thread

\* The last case of ConnectToNewClient: a client that came before the call
\* has its event set by hand.
ConnectToNewClient(p) ==
    LET q == ConnectNamedPipe(p)
    IN  IF ConnectResult(p) = "ERROR_PIPE_CONNECTED"
        THEN [q EXCEPT !.connect = "success"]
        ELSE q

startWorker ==
    /\ workerPc = "start"
    /\ pipe' = ConnectToNewClient(pipe)
    /\ workerPc' = "wait"
    /\ UNCHANGED <<mainVars, listVars, bWritting, clientVars>>

\* Whether the event of a handler is set, and the order of the array.
EventSet(h) ==
    CASE h \in {"connect", "read", "write"} -> Completed(pipe[h])
      [] h = "stop" -> stopEvent
      [] h = "notEmpty" -> notEmptyEvent
Before(h) ==
    CASE h = "connect"  -> {}
      [] h = "read"     -> {"connect"}
      [] h = "write"    -> {"connect", "read"}
      [] h = "stop"     -> {"connect", "read", "write"}
      [] h = "notEmpty" -> {"connect", "read", "write", "stop"}

\* WaitForMultipleObjects returns the first event of the array that is set and
\* resets nothing; the loop calls the handler, or stops.
waitForEvent ==
    /\ workerPc = "wait"
    /\ \E h \in Handler :
          /\ EventSet(h)
          /\ \A g \in Before(h) : ~EventSet(g)
          /\ workerPc' = IF h = "stop" THEN "exited" ELSE h
    /\ UNCHANGED <<pipe, mainVars, listVars, bWritting, clientVars>>

handleConnectEvent ==
    /\ workerPc = "connect"
    /\ pipe' = [ReadFile(pipe) EXCEPT !.connect = "idle"]
    /\ workerPc' = "wait"
    /\ UNCHANGED <<mainVars, listVars, bWritting, clientVars>>

\* handleReadEvent, success: list the message and read on.
handleReadDone ==
    /\ workerPc = "read" /\ pipe.read = "success"
    /\ readMsgsList' = readMsgsList \o pipe.buffer
    /\ pipe' = ReadFile([pipe EXCEPT !.read = "idle", !.buffer = <<>>])
    /\ workerPc' = "wait"
    /\ UNCHANGED <<mainVars, writeMsgsList, notEmptyEvent, bWritting, clientVars>>

\* handleReadEvent, failure: disconnect and wait for the next client.
handleReadError ==
    /\ workerPc = "read" /\ pipe.read = "error"
    /\ pipe' = [ConnectToNewClient(DisconnectNamedPipe(pipe)) EXCEPT !.read = "idle"]
    /\ workerPc' = "wait"
    /\ UNCHANGED <<mainVars, listVars, bWritting, clientVars>>

\* The oldest message is popped and given to WriteFile, whatever that returns.
writeOldest ==
    /\ pipe' = WriteFile([pipe EXCEPT !.write = "idle"], Head(writeMsgsList))
    /\ writeMsgsList' = Tail(writeMsgsList)
    /\ bWritting' = TRUE

\* handleNotEmptyEvent, up to its ResetEvent.
handleNotEmptyEvent ==
    /\ workerPc = "notEmpty"
    /\ ~bWritting /\ writeMsgsList # <<>>
    /\ writeOldest
    /\ workerPc' = "resetNotEmpty"
    /\ UNCHANGED <<mainVars, readMsgsList, notEmptyEvent, clientVars>>

\* Its early return: the event stays set and the caller leaves its loop.
handleNotEmptyEventRefused ==
    /\ workerPc = "notEmpty"
    /\ bWritting \/ writeMsgsList = <<>>
    /\ workerPc' = "exited"
    /\ UNCHANGED <<pipe, mainVars, listVars, bWritting, clientVars>>

resetNotEmptyEvent ==
    /\ workerPc = "resetNotEmpty"
    /\ notEmptyEvent' = FALSE
    /\ workerPc' = "wait"
    /\ UNCHANGED <<pipe, mainVars, writeMsgsList, readMsgsList, bWritting, clientVars>>

\* Mutant: a completed write waits for the next event.
handleWriteDoneStops ==
    /\ workerPc = "write" /\ pipe.write = "success"
    /\ pipe' = [pipe EXCEPT !.write = "idle"]
    /\ bWritting' = FALSE
    /\ workerPc' = "wait"
    /\ UNCHANGED <<mainVars, listVars, clientVars>>

\* handleWriteEvent, success: go on with the list, if there is anything in it.
handleWriteDone ==
    /\ workerPc = "write" /\ pipe.write = "success"
    /\ \/ writeMsgsList # <<>> /\ writeOldest
       \/ /\ writeMsgsList = <<>>
          /\ pipe' = [pipe EXCEPT !.write = "idle"]
          /\ bWritting' = FALSE
          /\ UNCHANGED writeMsgsList
    /\ workerPc' = "wait"
    /\ UNCHANGED <<mainVars, readMsgsList, notEmptyEvent, clientVars>>

\* handleWriteEvent, failure: the pipe is closed and the worker ends.
handleWriteError ==
    /\ workerPc = "write" /\ pipe.write = "error"
    /\ pipe' = [CloseHandle(pipe) EXCEPT !.write = "idle"]
    /\ bWritting' = FALSE
    /\ workerPc' = "exited"
    /\ UNCHANGED <<mainVars, listVars, clientVars>>

-----------------------------------------------------------------------------
\* Clients: any program that opens the pipe

clientOpen ==
    /\ connects < MaxConnects /\ pipe.state = "listening"
    /\ pipe' = PeerOpen(pipe)
    /\ connects' = connects + 1
    /\ UNCHANGED <<mainVars, listVars, workerVars, got, clientSent>>

clientWrite ==
    /\ clientSent < MaxClientMsgs /\ PeerCanWrite(pipe)
    /\ pipe' = PeerWrite(pipe, clientSent + 1)
    /\ clientSent' = clientSent + 1
    /\ UNCHANGED <<mainVars, listVars, workerVars, got, connects>>

clientRead ==
    /\ pipe.out # <<>>
    /\ pipe' = PeerRead(pipe)
    /\ got' = Append(got, Head(pipe.out))
    /\ UNCHANGED <<mainVars, listVars, workerVars, clientSent, connects>>

clientClose ==
    /\ pipe.state = "connected"
    /\ pipe' = PeerClose(pipe)
    /\ UNCHANGED <<mainVars, listVars, workerVars, clientVars>>

-----------------------------------------------------------------------------
Main == sendLine \/ dispatchMsgs \/ exitLine \/ returnFromMain

Worker == startWorker \/ waitForEvent \/ handleConnectEvent \/ handleReadDone
          \/ handleReadError \/ handleNotEmptyEvent \/ handleNotEmptyEventRefused
          \/ resetNotEmptyEvent \/ handleWriteDone \/ handleWriteError

Client == clientOpen \/ clientWrite \/ clientRead \/ clientClose

Next == Main \/ Worker \/ Client

Spec == Init /\ [][Next]_vars

\* The worker is scheduled, main finishes what a line started and waits for
\* the worker only as long as it has to; nothing obliges the user or a client.
FairSpec ==
    /\ Spec
    /\ WF_vars(Worker)
    /\ WF_vars(dispatchMsgs)
    /\ WF_vars(workerPc = "exited" /\ returnFromMain)

-----------------------------------------------------------------------------
\* Properties

\* No call takes an OVERLAPPED that is still outstanding or whose event is not
\* consumed, across clients that leave and writes that outlive their client:
\* a message leaves the list, a read or a connect is issued, only then.
NoOverlappedReuseStep ==
    /\ Len(writeMsgsList') < Len(writeMsgsList)
           => pipe.write = "idle" \/ workerPc = "write"
    /\ workerPc = "connect" => pipe.read = "idle"
    /\ workerPc \in {"start", "read"} => pipe.connect = "idle"

\* What clients wrote is never lost, duplicated or reordered while the server
\* has its pipe, whoever leaves and whenever.
InboundConserved ==
    pipe.state # "closed" =>
        dispatched \o readMsgsList \o pipe.buffer \o pipe.in = [i \in 1 .. clientSent |-> i]

\* A message that main queues between the pop and the ResetEvent of
\* handleNotEmptyEvent has its event reset with the old one, and is not
\* forgotten: the write just issued goes on with the list.
NoLostWakeup ==
    workerPc = "wait" /\ writeMsgsList # <<>> /\ ~bWritting => notEmptyEvent
=============================================================================
