-------------------------- MODULE IocpServerMulti ---------------------------
(***************************************************************************)
(* overlappeddemo/servernamedpipeiocpmulthread: several instances of the   *)
(* pipe, one completion port, and several worker threads that take its     *)
(* packets.  Main queues a line for one instance or for all of them.       *)
(*                                                                         *)
(* Two workers may handle packets of one instance at once, so what they    *)
(* share of it, bWritting and the list, is read and written in steps of    *)
(* their own.  handleWriteEvent takes the critical section of another      *)
(* index than the list's, so its front and pop_front are two steps; front  *)
(* of an empty list gives NoMsg and pop_front leaves it empty.             *)
(***************************************************************************)
EXTENDS MessagePipe, FiniteSets

CONSTANTS
    INSTANCES,      \* pipe instances
    Worker,         \* the worker threads
    MaxSend,        \* bound on the lines queued by main
    MaxClientMsgs,  \* bound on the messages the clients of an instance write
    MaxConnects     \* bound on the clients of an instance

Inst == 0 .. INSTANCES - 1
NoMsg == 0
Msg == Nat \ {0}

VARIABLES
    pipe,           \* pipe[i]: an instance and its OVERLAPPEDs
    iocp,           \* the packets of the completion port, oldest first
    mainPc,         \* where the main thread is
    index,          \* the instance main's loop is at
    writeMsgsLists, \* writeMsgsLists[i]: queued by main for instance i
    readMsgsLists,  \* readMsgsLists[i]: received, not yet dispatched
    bWritting,      \* bWritting[i]: a WriteFile has been issued
    workerPc,       \* workerPc[w]: where worker w is
    inst,           \* inst[w]: the instance of the packet it handles
    msg,            \* msg[w]: taken from a list, not yet given to WriteFile
    sent, dispatched,       \* history: lines queued, messages dispatched
    clientSent, connects    \* history: of the clients of each instance

mainVars == <<mainPc, index, sent, dispatched>>
listVars == <<writeMsgsLists, readMsgsLists>>
workerVars == <<workerPc, inst, msg>>
clientVars == <<clientSent, connects>>
vars == <<pipe, iocp, mainVars, listVars, bWritting, workerVars, clientVars>>

Notice == {"connect", "read", "write", "notEmpty"}
Exit == [type |-> "exit", inst |-> 0]
Packet == [type : Notice, inst : Inst] \cup {Exit}

TypeOK ==
    /\ pipe \in [Inst -> Pipe(Nat)]
    /\ \A i \in Inst : pipe[i].buffer # <<>> => pipe[i].read = "success"
    /\ iocp \in Seq(Packet)
    /\ mainPc \in {"connect", "input", "broadcast", "dispatch", "join", "returned"}
    /\ index \in Inst
    /\ writeMsgsLists \in [Inst -> Seq(Msg)] /\ readMsgsLists \in [Inst -> Seq(Nat)]
    /\ bWritting \in [Inst -> BOOLEAN]
    /\ workerPc \in [Worker -> {"none", "wait", "pop", "empty", "front", "popFront",
                                "writeFile", "flag", "exited"} \cup Notice]
    /\ inst \in [Worker -> Inst] /\ msg \in [Worker -> Nat]
    /\ sent \in Nat /\ dispatched \in [Inst -> Seq(Nat)]
    /\ clientSent \in [Inst -> Nat] /\ connects \in [Inst -> Nat]

\* initNamedpipe: clients can open an instance before anything else happens.
Init ==
    /\ pipe = [i \in Inst |-> NewPipe("listening")]
    /\ iocp = <<>>
    /\ mainPc = "connect" /\ index = 0
    /\ writeMsgsLists = [i \in Inst |-> <<>>] /\ readMsgsLists = [i \in Inst |-> <<>>]
    /\ bWritting = [i \in Inst |-> FALSE]
    /\ workerPc = [w \in Worker |-> "none"]
    /\ inst = [w \in Worker |-> 0] /\ msg = [w \in Worker |-> NoMsg]
    /\ sent = 0 /\ dispatched = [i \in Inst |-> <<>>]
    /\ clientSent = [i \in Inst |-> 0] /\ connects = [i \in Inst |-> 0]

\* Instance i goes from p to q, which queues packets with its key.
CallPipe(i, p, q) ==
    /\ pipe' = [pipe EXCEPT ![i] = q]
    /\ \E s \in Packets(p, q) :
          iocp' = iocp \o [k \in DOMAIN s |-> [type |-> s[k], inst |-> i]]

-----------------------------------------------------------------------------
\* The main thread

\* Its loop over the instances goes to the next one, or main goes on.
NextInstance(pc) ==
    IF index + 1 < INSTANCES
    THEN index' = index + 1 /\ UNCHANGED mainPc
    ELSE index' = 0 /\ mainPc' = pc

\* One instance after another is connected; with the last the workers start.
\* For a client that has come before, SetEvent on hEvent, NULL, fails.
connectInstances ==
    /\ mainPc = "connect"
    /\ CallPipe(index, pipe[index], ConnectNamedPipe(pipe[index]))
    /\ NextInstance("input")
    /\ workerPc' = IF index + 1 < INSTANCES THEN workerPc ELSE [w \in Worker |-> "wait"]
    /\ UNCHANGED <<sent, dispatched, listVars, bWritting, inst, msg, clientVars>>

\* sendMsg's locked part for one instance.
push(i, m) ==
    /\ writeMsgsLists' = [writeMsgsLists EXCEPT ![i] = Append(@, m)]
    /\ iocp' = IF writeMsgsLists[i] = <<>>
               THEN Append(iocp, [type |-> "notEmpty", inst |-> i])
               ELSE iocp

\* sendMsg of a line that names an instance, or none.
sendMsg ==
    /\ mainPc = "input" /\ sent < MaxSend
    /\ \E i \in Inst : push(i, sent + 1)
    /\ sent' = sent + 1
    /\ mainPc' = "dispatch"
    /\ UNCHANGED <<pipe, index, dispatched, readMsgsLists, bWritting, workerVars, clientVars>>

\* sendMsg of a line with "broadcast" in it: one instance after another.
broadcastStart ==
    /\ mainPc = "input" /\ sent < MaxSend
    /\ sent' = sent + 1
    /\ mainPc' = "broadcast"
    /\ UNCHANGED <<pipe, iocp, index, dispatched, listVars, bWritting, workerVars, clientVars>>

broadcast ==
    /\ mainPc = "broadcast"
    /\ push(index, sent)
    /\ NextInstance("dispatch")
    /\ UNCHANGED <<pipe, sent, dispatched, readMsgsLists, bWritting, workerVars, clientVars>>

dispatchMsgs ==
    /\ mainPc = "dispatch"
    /\ dispatched' = [dispatched EXCEPT ![index] = @ \o readMsgsLists[index]]
    /\ readMsgsLists' = [readMsgsLists EXCEPT ![index] = <<>>]
    /\ NextInstance("input")
    /\ UNCHANGED <<pipe, iocp, sent, writeMsgsLists, bWritting, workerVars, clientVars>>

\* The line "exit": a packet for each worker.
exitLine ==
    /\ mainPc = "input"
    /\ iocp' = iocp \o [k \in 1 .. Cardinality(Worker) |-> Exit]
    /\ mainPc' = "join"
    /\ UNCHANGED <<pipe, index, sent, dispatched, listVars, bWritting, workerVars, clientVars>>

\* main waits for INSTANCES handles of an array of THREAD_SIZE: the wait fails
\* at once on a handle that is none, or ends by the workers or after 5 s.  The
\* process ends with main.
returnFromMain ==
    /\ mainPc = "join"
    /\ mainPc' = "returned"
    /\ workerPc' = [w \in Worker |-> "exited"]
    /\ pipe' = [i \in Inst |-> CloseHandle(pipe[i])]
    /\ iocp' = <<>>
    /\ UNCHANGED <<index, sent, dispatched, listVars, bWritting, inst, msg, clientVars>>

-----------------------------------------------------------------------------
\* Worker w

goTo(w, pc) == workerPc' = [workerPc EXCEPT ![w] = pc]

\* GetStatus takes the oldest packet; CPKEY_EXIT ends the loop.
getStatus(w) ==
    /\ workerPc[w] = "wait" /\ iocp # <<>>
    /\ iocp' = Tail(iocp)
    /\ goTo(w, IF Head(iocp) = Exit THEN "exited" ELSE Head(iocp).type)
    /\ inst' = [inst EXCEPT ![w] = Head(iocp).inst]
    /\ UNCHANGED <<pipe, mainVars, listVars, bWritting, msg, clientVars>>

\* Mutant: the read of the client is issued a second time.
handleConnectEventTwice(w) ==
    /\ workerPc[w] = "connect"
    /\ LET p == [pipe[inst[w]] EXCEPT !.connect = "idle"]
       IN  CallPipe(inst[w], p, ReadFile([ReadFile(p) EXCEPT !.connect = "pending"]))
    /\ goTo(w, "wait")
    /\ UNCHANGED <<mainVars, listVars, bWritting, inst, msg, clientVars>>

handleConnectEvent(w) ==
    /\ workerPc[w] = "connect"
    /\ LET p == [pipe[inst[w]] EXCEPT !.connect = "idle"]
       IN  CallPipe(inst[w], p, ReadFile(p))
    /\ goTo(w, "wait")
    /\ UNCHANGED <<mainVars, listVars, bWritting, inst, msg, clientVars>>

\* Mutant: the message is taken from the buffer after the next ReadFile.
handleReadDoneLate(w) ==
    LET i == inst[w]
        p == [pipe[i] EXCEPT !.read = "idle"]
    IN  /\ workerPc[w] = "read" /\ pipe[i].read = "success"
        /\ CallPipe(i, p, [ReadFile(p) EXCEPT !.buffer = <<>>])
        /\ readMsgsLists' = [readMsgsLists EXCEPT ![i] = @ \o ReadFile(p).buffer]
        /\ goTo(w, "wait")
        /\ UNCHANGED <<mainVars, writeMsgsLists, bWritting, inst, msg, clientVars>>

\* handleReadEvent, success.  No other worker has a read of this instance to
\* handle before the ReadFile at its end (OneIssuer), so it is one step.
handleReadDone(w) ==
    LET i == inst[w]
        p == [pipe[i] EXCEPT !.read = "idle", !.buffer = <<>>]
    IN  /\ workerPc[w] = "read" /\ pipe[i].read = "success"
        /\ readMsgsLists' = [readMsgsLists EXCEPT ![i] = @ \o pipe[i].buffer]
        /\ CallPipe(i, p, ReadFile(p))
        /\ goTo(w, "wait")
        /\ UNCHANGED <<mainVars, writeMsgsLists, bWritting, inst, msg, clientVars>>

\* Mutant: the next client is not awaited.
handleReadErrorNoConnect(w) ==
    LET i == inst[w]
        p == [pipe[i] EXCEPT !.read = "idle"]
    IN  /\ workerPc[w] = "read" /\ pipe[i].read = "error"
        /\ CallPipe(i, p, DisconnectNamedPipe(p))
        /\ goTo(w, "wait")
        /\ UNCHANGED <<mainVars, listVars, bWritting, inst, msg, clientVars>>

\* handleReadEvent, failure: disconnect and wait for the next client.
handleReadError(w) ==
    LET i == inst[w]
        p == [pipe[i] EXCEPT !.read = "idle"]
    IN  /\ workerPc[w] = "read" /\ pipe[i].read = "error"
        /\ CallPipe(i, p, ConnectNamedPipe(DisconnectNamedPipe(p)))
        /\ goTo(w, "wait")
        /\ UNCHANGED <<mainVars, listVars, bWritting, inst, msg, clientVars>>

\* handleNotEmptyEvent's test; the caller leaves its loop if it fails ...
testNotEmpty(w) ==
    /\ workerPc[w] = "notEmpty"
    /\ goTo(w, IF bWritting[inst[w]] \/ writeMsgsLists[inst[w]] = <<>>
               THEN "exited" ELSE "pop")
    /\ UNCHANGED <<pipe, iocp, mainVars, listVars, bWritting, inst, msg, clientVars>>

First(s) == IF s = <<>> THEN NoMsg ELSE Head(s)
Rest(s) == IF s = <<>> THEN <<>> ELSE Tail(s)

\* ... its front and pop_front under the lock of the list.
popMsg(w) ==
    /\ workerPc[w] = "pop"
    /\ msg' = [msg EXCEPT ![w] = First(writeMsgsLists[inst[w]])]
    /\ writeMsgsLists' = [writeMsgsLists EXCEPT ![inst[w]] = Rest(@)]
    /\ goTo(w, "writeFile")
    /\ UNCHANGED <<pipe, iocp, mainVars, readMsgsLists, bWritting, inst, clientVars>>

\* handleWriteEvent: clear bWritting, go on if Internal is 0.  A write issued
\* meanwhile on the same OVERLAPPED makes it STATUS_PENDING, which is not 0.
handleWriteDone(w) ==
    /\ workerPc[w] = "write" /\ pipe[inst[w]].write = "success"
    /\ bWritting' = [bWritting EXCEPT ![inst[w]] = FALSE]
    /\ goTo(w, "empty")
    /\ UNCHANGED <<pipe, iocp, mainVars, listVars, inst, msg, clientVars>>

\* Otherwise the instance is closed and the worker ends.
handleWriteError(w) ==
    LET i == inst[w]
    IN  /\ workerPc[w] = "write" /\ pipe[i].write # "success"
        /\ bWritting' = [bWritting EXCEPT ![i] = FALSE]
        /\ CallPipe(i, pipe[i], CloseHandle(pipe[i]))
        /\ goTo(w, "exited")
        /\ UNCHANGED <<mainVars, listVars, inst, msg, clientVars>>

testEmpty(w) ==
    /\ workerPc[w] = "empty"
    /\ goTo(w, IF writeMsgsLists[inst[w]] = <<>> THEN "wait" ELSE "front")
    /\ UNCHANGED <<pipe, iocp, mainVars, listVars, bWritting, inst, msg, clientVars>>

frontMsg(w) ==
    /\ workerPc[w] = "front"
    /\ msg' = [msg EXCEPT ![w] = First(writeMsgsLists[inst[w]])]
    /\ goTo(w, "popFront")
    /\ UNCHANGED <<pipe, iocp, mainVars, listVars, bWritting, inst, clientVars>>

popFront(w) ==
    /\ workerPc[w] = "popFront"
    /\ writeMsgsLists' = [writeMsgsLists EXCEPT ![inst[w]] = Rest(@)]
    /\ goTo(w, "writeFile")
    /\ UNCHANGED <<pipe, iocp, mainVars, readMsgsLists, bWritting, inst, msg, clientVars>>

\* Either handler's WriteFile, what it returns not looked at ...
writeFile(w) ==
    LET i == inst[w]
    IN  /\ workerPc[w] = "writeFile"
        /\ CallPipe(i, pipe[i], WriteFile(pipe[i], msg[w]))
        /\ msg' = [msg EXCEPT ![w] = NoMsg]
        /\ goTo(w, "flag")
        /\ UNCHANGED <<mainVars, listVars, bWritting, inst, clientVars>>

\* ... and only then the flag.
setWritting(w) ==
    /\ workerPc[w] = "flag"
    /\ bWritting' = [bWritting EXCEPT ![inst[w]] = TRUE]
    /\ goTo(w, "wait")
    /\ UNCHANGED <<pipe, iocp, mainVars, listVars, inst, msg, clientVars>>

-----------------------------------------------------------------------------
\* Clients of instance i

clientOpen(i) ==
    /\ connects[i] < MaxConnects /\ pipe[i].state = "listening"
    /\ CallPipe(i, pipe[i], PeerOpen(pipe[i]))
    /\ connects' = [connects EXCEPT ![i] = @ + 1]
    /\ UNCHANGED <<mainVars, listVars, bWritting, workerVars, clientSent>>

clientWrite(i) ==
    /\ clientSent[i] < MaxClientMsgs /\ PeerCanWrite(pipe[i])
    /\ CallPipe(i, pipe[i], PeerWrite(pipe[i], clientSent[i] + 1))
    /\ clientSent' = [clientSent EXCEPT ![i] = @ + 1]
    /\ UNCHANGED <<mainVars, listVars, bWritting, workerVars, connects>>

clientRead(i) ==
    /\ pipe[i].out # <<>>
    /\ CallPipe(i, pipe[i], PeerRead(pipe[i]))
    /\ UNCHANGED <<mainVars, listVars, bWritting, workerVars, clientVars>>

clientClose(i) ==
    /\ pipe[i].state = "connected"
    /\ CallPipe(i, pipe[i], PeerClose(pipe[i]))
    /\ UNCHANGED <<mainVars, listVars, bWritting, workerVars, clientVars>>

-----------------------------------------------------------------------------
Main == connectInstances \/ sendMsg \/ broadcastStart \/ broadcast \/ dispatchMsgs
        \/ exitLine \/ returnFromMain

Work(w) ==
    \/ getStatus(w) \/ handleConnectEvent(w) \/ handleReadDone(w) \/ handleReadError(w)
    \/ testNotEmpty(w) \/ popMsg(w) \/ handleWriteDone(w) \/ handleWriteError(w)
    \/ testEmpty(w) \/ frontMsg(w) \/ popFront(w) \/ writeFile(w) \/ setWritting(w)

Client(i) == clientOpen(i) \/ clientWrite(i) \/ clientRead(i) \/ clientClose(i)

Next == Main \/ (\E w \in Worker : Work(w)) \/ (\E i \in Inst : Client(i))

Spec == Init /\ [][Next]_vars

\* Each worker is scheduled and main finishes what a line started; nothing
\* obliges the user or a client.
FairSpec ==
    /\ Spec
    /\ \A w \in Worker : WF_vars(Work(w))
    /\ WF_vars(connectInstances \/ broadcast \/ dispatchMsgs)

-----------------------------------------------------------------------------
\* Properties

\* What the clients of an instance wrote is never lost, duplicated or reordered
\* while the server has that instance, whichever worker handles which read.
InboundConserved ==
    \A i \in Inst : pipe[i].state # "closed" =>
        dispatched[i] \o readMsgsLists[i] \o pipe[i].buffer \o pipe[i].in
            = [k \in 1 .. clientSent[i] |-> k]

\* So it is, and every variable keeps its type.
Inv == TypeOK /\ InboundConserved

\* The workers that are about to issue a connect or a read of instance i, and
\* the packets that will make one do so.
Issuers(i) == {w \in Worker : workerPc[w] \in {"connect", "read"} /\ inst[w] = i}
IssuingPackets(i) ==
    {k \in 1 .. Len(iocp) : iocp[k].inst = i /\ iocp[k].type \in {"connect", "read"}}

\* An instance's connect and read are never issued by two workers: of workers
\* about to issue one, packets that will make one do so and operations that
\* will queue such a packet there is at most one.
OneIssuer ==
    \A i \in Inst :
        Cardinality(Issuers(i)) + Cardinality(IssuingPackets(i))
            + (IF pipe[i].connect = "pending" THEN 1 ELSE 0)
            + (IF pipe[i].read = "pending" THEN 1 ELSE 0) <= 1

\* A read that failed makes the instance listen again, or no worker is left.
FailedReadReconnects ==
    \A i \in Inst :
        pipe[i].read = "error"
            ~> (pipe[i].state \in {"listening", "closed"}
                \/ \A w \in Worker : workerPc[w] = "exited")
=============================================================================
