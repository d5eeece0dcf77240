----------------------------- MODULE IocpServer -----------------------------
(***************************************************************************)
(* overlappeddemo/servernamedpipeiocp: OverlappedServer with a completion  *)
(* port in place of the events.  Each operation that completes, at once or *)
(* later, queues a packet; main queues one for the line that makes the     *)
(* list non-empty and one for "exit"; the worker takes them in their order.*)
(*                                                                         *)
(* A handler is one step: main shares only the lists with it, and touches  *)
(* them under their locks.                                                 *)
(***************************************************************************)
EXTENDS MessagePipe

CONSTANTS
    MaxSend,        \* bound on the lines queued by main
    MaxClientMsgs,  \* bound on the messages all clients write together
    MaxConnects     \* bound on the clients, that come one after another

VARIABLES
    pipe,           \* the instance and its OVERLAPPEDs
    iocp,           \* the packets of the completion port, oldest first
    mainPc,         \* where the main thread is
    writeMsgsList,  \* queued by main
    readMsgsList,   \* received, not yet dispatched
    workerPc,       \* where the worker is: GetStatus, or the packet's handler
    bWritting,      \* the worker's flag: a WriteFile has been issued
    sent, dispatched,           \* history: lines queued, messages dispatched
    got, clientSent, connects   \* history of the clients

mainVars == <<mainPc, sent, dispatched>>
listVars == <<writeMsgsList, readMsgsList>>
workerVars == <<workerPc, bWritting>>
clientVars == <<got, clientSent, connects>>
vars == <<pipe, iocp, mainVars, listVars, workerVars, clientVars>>

Msg == Nat \ {0}
Packet == {"connect", "read", "write", "notEmpty", "exit"}

TypeOK ==
    /\ pipe \in Pipe(Msg) /\ Len(pipe.out) <= Quota + 1
    /\ iocp \in Seq(Packet)
    /\ mainPc \in {"connect", "input", "dispatch", "join", "returned"}
    /\ writeMsgsList \in Seq(Msg) /\ readMsgsList \in Seq(Msg)
    /\ workerPc \in {"none", "wait", "exited"} \cup Packet
    /\ bWritting \in BOOLEAN
    /\ sent \in Nat /\ dispatched \in Seq(Msg)
    /\ got \in Seq(Msg) /\ clientSent \in Nat /\ connects \in Nat

\* initNamedpipe: clients can open the pipe before anything else happens.
Init ==
    /\ pipe = NewPipe("listening")
    /\ iocp = <<>>
    /\ mainPc = "connect"
    /\ writeMsgsList = <<>> /\ readMsgsList = <<>>
    /\ workerPc = "none"
    /\ bWritting = FALSE
    /\ sent = 0 /\ dispatched = <<>>
    /\ got = <<>> /\ clientSent = 0 /\ connects = 0

\* The pipe goes from p to q, which queues packets.
CallPipe(p, q) ==
    /\ pipe' = q
    /\ \E s \in Packets(p, q) : iocp' = iocp \o s

-----------------------------------------------------------------------------
\* The main thread

\* ConnectToNewClient: for a client that has come before the call, SetEvent
\* is tried on hEvent, which is NULL, so the call ends like any that failed.
ConnectToNewClient(p) == ConnectNamedPipe(p)

startWorker ==
    /\ mainPc = "connect"
    /\ CallPipe(pipe, ConnectToNewClient(pipe))
    /\ mainPc' = "input"
    /\ workerPc' = "wait"
    /\ UNCHANGED <<sent, dispatched, listVars, bWritting, clientVars>>

\* A line other than "exit": queued, and posted if it is the only one.
sendLine ==
    /\ mainPc = "input"
    /\ sent < MaxSend
    /\ sent' = sent + 1
    /\ writeMsgsList' = Append(writeMsgsList, sent + 1)
    /\ iocp' = IF Len(writeMsgsList') = 1 THEN Append(iocp, "notEmpty") ELSE iocp
    /\ mainPc' = "dispatch"
    /\ UNCHANGED <<pipe, dispatched, readMsgsList, workerVars, clientVars>>

dispatchMsgs ==
    /\ mainPc = "dispatch"
    /\ dispatched' = dispatched \o readMsgsList
    /\ readMsgsList' = <<>>
    /\ mainPc' = "input"
    /\ UNCHANGED <<pipe, iocp, sent, writeMsgsList, workerVars, clientVars>>

\* The line "exit".
exitLine ==
    /\ mainPc = "input"
    /\ iocp' = Append(iocp, "exit")
    /\ mainPc' = "join"
    /\ UNCHANGED <<pipe, sent, dispatched, listVars, workerVars, clientVars>>

\* main's wait for the worker ends, after 5 s at the latest; the port and the
\* pipe are closed with the process.
returnFromMain ==
    /\ mainPc = "join"
    /\ mainPc' = "returned"
    /\ workerPc' = "exited"
    /\ pipe' = CloseHandle(pipe)
    /\ iocp' = <<>>
    /\ UNCHANGED <<sent, dispatched, listVars, bWritting, clientVars>>

-----------------------------------------------------------------------------
\* The worker thread

\* GetStatus takes the oldest packet; CPKEY_EXIT ends the loop.
getStatus ==
    /\ workerPc = "wait"
    /\ iocp # <<>>
    /\ iocp' = Tail(iocp)
    /\ workerPc' = IF Head(iocp) = "exit" THEN "exited" ELSE Head(iocp)
    /\ UNCHANGED <<pipe, mainVars, listVars, bWritting, clientVars>>

\* Mutant: the first read of a client is not issued.
handleConnectEventIdle ==
    /\ workerPc = "connect"
    /\ pipe' = [pipe EXCEPT !.connect = "idle"]
    /\ workerPc' = "wait"
    /\ UNCHANGED <<iocp, mainVars, listVars, bWritting, clientVars>>

handleConnectEvent ==
    /\ workerPc = "connect"
    /\ LET p == [pipe EXCEPT !.connect = "idle"] IN CallPipe(p, ReadFile(p))
    /\ workerPc' = "wait"
    /\ UNCHANGED <<mainVars, listVars, bWritting, clientVars>>

\* handleReadEvent, success: list the message and read on.
handleReadDone ==
    /\ workerPc = "read" /\ pipe.read = "success"
    /\ readMsgsList' = readMsgsList \o pipe.buffer
    /\ LET p == [pipe EXCEPT !.read = "idle", !.buffer = <<>>] IN CallPipe(p, ReadFile(p))
    /\ workerPc' = "wait"
    /\ UNCHANGED <<mainVars, writeMsgsList, bWritting, clientVars>>

\* handleReadEvent, failure: disconnect and wait for the next client.
handleReadError ==
    /\ workerPc = "read" /\ pipe.read = "error"
    /\ LET p == [pipe EXCEPT !.read = "idle"]
       IN  CallPipe(p, ConnectToNewClient(DisconnectNamedPipe(p)))
    /\ workerPc' = "wait"
    /\ UNCHANGED <<mainVars, listVars, bWritting, clientVars>>

\* The oldest message is popped and given to WriteFile, whatever that returns.
writeOldest ==
    /\ LET p == [pipe EXCEPT !.write = "idle"]
       IN  CallPipe(p, WriteFile(p, Head(writeMsgsList)))
    /\ writeMsgsList' = Tail(writeMsgsList)
    /\ bWritting' = TRUE

handleNotEmptyEvent ==
    /\ workerPc = "notEmpty"
    /\ ~bWritting /\ writeMsgsList # <<>>
    /\ writeOldest
    /\ workerPc' = "wait"
    /\ UNCHANGED <<mainVars, readMsgsList, clientVars>>

\* Its early return, on which the caller leaves its loop.
handleNotEmptyEventRefused ==
    /\ workerPc = "notEmpty"
    /\ bWritting \/ writeMsgsList = <<>>
    /\ workerPc' = "exited"
    /\ UNCHANGED <<pipe, iocp, mainVars, listVars, bWritting, clientVars>>

\* Mutant: goes on with the newest message.
handleWriteDoneNewest ==
    /\ workerPc = "write" /\ pipe.write = "success"
    /\ LET p == [pipe EXCEPT !.write = "idle"]
           n == Len(writeMsgsList)
       IN  IF n > 0
           THEN /\ CallPipe(p, WriteFile(p, writeMsgsList[n]))
                /\ writeMsgsList' = SubSeq(writeMsgsList, 1, n - 1)
                /\ UNCHANGED bWritting
           ELSE pipe' = p /\ bWritting' = FALSE /\ UNCHANGED <<iocp, writeMsgsList>>
    /\ workerPc' = "wait"
    /\ UNCHANGED <<mainVars, readMsgsList, clientVars>>

\* handleWriteEvent, success: go on with the list, if there is anything in it.
handleWriteDone ==
    /\ workerPc = "write" /\ pipe.write = "success"
    /\ \/ writeMsgsList # <<>> /\ writeOldest
       \/ /\ writeMsgsList = <<>>
          /\ pipe' = [pipe EXCEPT !.write = "idle"]
          /\ bWritting' = FALSE
          /\ UNCHANGED <<iocp, writeMsgsList>>
    /\ workerPc' = "wait"
    /\ UNCHANGED <<mainVars, readMsgsList, clientVars>>

\* handleWriteEvent, failure: the pipe is closed and the worker ends.
handleWriteError ==
    /\ workerPc = "write" /\ pipe.write = "error"
    /\ LET p == [pipe EXCEPT !.write = "idle"] IN CallPipe(p, CloseHandle(p))
    /\ bWritting' = FALSE
    /\ workerPc' = "exited"
    /\ UNCHANGED <<mainVars, listVars, clientVars>>

-----------------------------------------------------------------------------
\* Clients: any program that opens the pipe

clientOpen ==
    /\ connects < MaxConnects /\ pipe.state = "listening"
    /\ CallPipe(pipe, PeerOpen(pipe))
    /\ connects' = connects + 1
    /\ UNCHANGED <<mainVars, listVars, workerVars, got, clientSent>>

clientWrite ==
    /\ clientSent < MaxClientMsgs /\ PeerCanWrite(pipe)
    /\ CallPipe(pipe, PeerWrite(pipe, clientSent + 1))
    /\ clientSent' = clientSent + 1
    /\ UNCHANGED <<mainVars, listVars, workerVars, got, connects>>

clientRead ==
    /\ pipe.out # <<>>
    /\ CallPipe(pipe, PeerRead(pipe))
    /\ got' = Append(got, Head(pipe.out))
    /\ UNCHANGED <<mainVars, listVars, workerVars, clientSent, connects>>

clientClose ==
    /\ pipe.state = "connected"
    /\ CallPipe(pipe, PeerClose(pipe))
    /\ UNCHANGED <<mainVars, listVars, workerVars, clientVars>>

-----------------------------------------------------------------------------
Main == startWorker \/ sendLine \/ dispatchMsgs \/ exitLine \/ returnFromMain

Worker == getStatus \/ handleConnectEvent \/ handleReadDone \/ handleReadError
          \/ handleNotEmptyEvent \/ handleNotEmptyEventRefused \/ handleWriteDone
          \/ handleWriteError

Client == clientOpen \/ clientWrite \/ clientRead \/ clientClose

Next == Main \/ Worker \/ Client

Spec == Init /\ [][Next]_vars

\* The worker is scheduled, main starts it, finishes what a line started and
\* waits only as long as it has to; nothing obliges the user or a client.
FairSpec ==
    /\ Spec
    /\ WF_vars(Worker)
    /\ WF_vars(startWorker \/ dispatchMsgs)
    /\ WF_vars(workerPc = "exited" /\ returnFromMain)

-----------------------------------------------------------------------------
\* Properties

\* A message leaves the list only when no earlier write is outstanding or has
\* its packet still in the port.
OneWriteStep ==
    Len(writeMsgsList') < Len(writeMsgsList) => pipe.write = "idle" \/ workerPc = "write"

\* What clients wrote is never lost, duplicated or reordered while the server
\* has its pipe, whoever leaves and whenever.
InboundConserved ==
    pipe.state # "closed" =>
        dispatched \o readMsgsList \o pipe.buffer \o pipe.in = [i \in 1 .. clientSent |-> i]

\* Of the packets that carry the client's end forward there is always exactly
\* one, or an operation that will queue one: a client whose connect was seen
\* is never left without a read, until its end of the pipe is closed.
Carried ==
    (IF pipe.connect = "idle" THEN 0 ELSE 1) + (IF pipe.read = "idle" THEN 0 ELSE 1)
CarriedStep ==
    /\ Carried' <= 1
    /\ Carried' < Carried => pipe'.state \in {"peerClosed", "closed"}
=============================================================================
