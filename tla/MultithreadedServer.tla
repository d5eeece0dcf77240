------------------------ MODULE MultithreadedServer -------------------------
(***************************************************************************)
(* namedpipedemo: servermultithreaded, whose main thread creates one       *)
(* instance of the pipe after another and starts a thread for each client, *)
(* with its two clients, client and clientinput.  All I/O is synchronous:  *)
(* a call that blocks is an action that waits for its guard.               *)
(*                                                                         *)
(* A client process can be ended from outside at any point.  Requests and  *)
(* replies are those of RequestReply; a request longer than the server's   *)
(* buffer, which only client can send, has number 0.                       *)
(***************************************************************************)
EXTENDS MessagePipe

CONSTANTS
    Client,         \* the client processes
    MaxInst,        \* bound on the instances the server creates
    MaxRequests     \* bound on the requests of a client

\* What the constants are, assumed by MCNamedPipes.
MultithreadedAssumption == MaxInst \in Nat \ {0} /\ MaxRequests \in Nat

Inst == 1 .. MaxInst
Request == {0, 1} \X Nat
NoInst == 0

VARIABLES
    pipe,           \* pipe[k]: the k-th instance created
    mainPc,         \* where the server's main thread is
    hPipe,          \* the instance it created last
    threadPc,       \* threadPc[k]: where the thread of instance k is
    pchRequest,     \* pchRequest[k]: the request it has to answer
    program,        \* program[c]: what client process c runs
    clientPc,       \* clientPc[c]: where it is
    handle,         \* handle[c]: the instance it has opened
    opened, asked, answers      \* history of each instance: clients, requests, replies

serverVars == <<mainPc, hPipe, threadPc, pchRequest>>
processVars == <<program, clientPc, handle>>
historyVars == <<opened, asked, answers>>
vars == <<pipe, serverVars, processVars, historyVars>>

TypeOK ==
    /\ pipe \in [Inst -> Pipe(Request)]
    /\ mainPc \in {"create", "connect", "blocked"}
    /\ hPipe \in Inst \cup {NoInst}
    /\ threadPc \in [Inst -> {"none", "read", "write", "flush", "exited"}]
    /\ pchRequest \in [Inst -> Seq(Request)]
    /\ program \in [Client -> {"client", "clientinput"}]
    /\ clientPc \in [Client -> {"open", "waitPipe", "ask", "read", "key",
                                "noPipe", "timedOut", "hungUp", "closed", "killed"}]
    /\ handle \in [Client -> Inst \cup {NoInst}]
    /\ opened \in [Inst -> 0 .. 1] /\ asked \in [Inst -> Nat]
    /\ answers \in [Inst -> Seq(Request)]

Init ==
    /\ pipe = [k \in Inst |-> NewPipe("closed")]
    /\ mainPc = "create" /\ hPipe = NoInst
    /\ threadPc = [k \in Inst |-> "none"]
    /\ pchRequest = [k \in Inst |-> <<>>]
    /\ program \in [Client -> {"client", "clientinput"}]
    /\ clientPc = [c \in Client |-> "open"]
    /\ handle = [c \in Client |-> NoInst]
    /\ opened = [k \in Inst |-> 0] /\ asked = [k \in Inst |-> 0]
    /\ answers = [k \in Inst |-> <<>>]

-----------------------------------------------------------------------------
\* The server's main thread

CreateNamedPipe ==
    /\ mainPc = "create" /\ hPipe < MaxInst
    /\ hPipe' = hPipe + 1
    /\ pipe' = [pipe EXCEPT ![hPipe'] = NewPipe("listening")]
    /\ mainPc' = "connect"
    /\ UNCHANGED <<threadPc, pchRequest, processVars, historyVars>>

\* ConnectNamedPipe blocks if no client has come yet.
connectBlocks ==
    /\ mainPc = "connect" /\ ConnectResult(pipe[hPipe]) = "ERROR_IO_PENDING"
    /\ pipe' = [pipe EXCEPT ![hPipe] = ConnectNamedPipe(@)]
    /\ mainPc' = "blocked"
    /\ UNCHANGED <<hPipe, threadPc, pchRequest, processVars, historyVars>>

\* With a client there is a thread for it.
createThread ==
    /\ \/ mainPc = "connect" /\ ConnectResult(pipe[hPipe]) = "ERROR_PIPE_CONNECTED"
       \/ mainPc = "blocked" /\ pipe[hPipe].connect = "success"
    /\ pipe' = [pipe EXCEPT ![hPipe].connect = "idle"]
    /\ threadPc' = [threadPc EXCEPT ![hPipe] = "read"]
    /\ mainPc' = "create"
    /\ UNCHANGED <<hPipe, pchRequest, processVars, historyVars>>

\* Mutant: the instance of a client that came and went is kept.
connectFailsKept ==
    /\ mainPc = "connect" /\ ConnectResult(pipe[hPipe]) = "ERROR_NO_DATA"
    /\ mainPc' = "create"
    /\ UNCHANGED <<pipe, hPipe, threadPc, pchRequest, processVars, historyVars>>

\* A client that came and went before the call: the instance is closed.
connectFails ==
    /\ mainPc = "connect" /\ ConnectResult(pipe[hPipe]) = "ERROR_NO_DATA"
    /\ pipe' = [pipe EXCEPT ![hPipe] = CloseHandle(@)]
    /\ mainPc' = "create"
    /\ UNCHANGED <<hPipe, threadPc, pchRequest, processVars, historyVars>>

-----------------------------------------------------------------------------
\* InstanceThread of instance k

\* ReadFile of a request, and GetAnswerToRequest.
readRequest(k) ==
    /\ threadPc[k] = "read" /\ pipe[k].in # <<>> /\ Head(pipe[k].in)[2] # 0
    /\ pipe' = [pipe EXCEPT ![k].in = Tail(@)]
    /\ pchRequest' = [pchRequest EXCEPT ![k] = <<Head(pipe[k].in)>>]
    /\ threadPc' = [threadPc EXCEPT ![k] = "write"]
    /\ UNCHANGED <<mainPc, hPipe, processVars, historyVars>>

\* Mutant: the loop ends only when the pipe is broken.
readFailsBroken(k) ==
    /\ threadPc[k] = "read"
    /\ pipe[k].in = <<>> /\ pipe[k].state # "connected"
    /\ threadPc' = [threadPc EXCEPT ![k] = "flush"]
    /\ UNCHANGED <<pipe, mainPc, hPipe, pchRequest, processVars, historyVars>>

\* A request that is too long, or a client that has left and sent no more.
readFails(k) ==
    /\ threadPc[k] = "read"
    /\ \/ pipe[k].in # <<>> /\ Head(pipe[k].in)[2] = 0
       \/ pipe[k].in = <<>> /\ pipe[k].state # "connected"
    /\ threadPc' = [threadPc EXCEPT ![k] = "flush"]
    /\ UNCHANGED <<pipe, mainPc, hPipe, pchRequest, processVars, historyVars>>

\* Mutant: the loop ends after one reply.
writeReplyOnce(k) ==
    /\ threadPc[k] = "write" /\ pipe[k].state = "connected"
    /\ pipe' = [pipe EXCEPT ![k].out = @ \o pchRequest[k]]
    /\ pchRequest' = [pchRequest EXCEPT ![k] = <<>>]
    /\ threadPc' = [threadPc EXCEPT ![k] = "flush"]
    /\ UNCHANGED <<mainPc, hPipe, processVars, historyVars>>

\* WriteFile of the reply: there is room, the client has read all others.
writeReply(k) ==
    /\ threadPc[k] = "write" /\ pipe[k].state = "connected"
    /\ pipe' = [pipe EXCEPT ![k].out = @ \o pchRequest[k]]
    /\ pchRequest' = [pchRequest EXCEPT ![k] = <<>>]
    /\ threadPc' = [threadPc EXCEPT ![k] = "read"]
    /\ UNCHANGED <<mainPc, hPipe, processVars, historyVars>>

writeFails(k) ==
    /\ threadPc[k] = "write" /\ pipe[k].state # "connected"
    /\ threadPc' = [threadPc EXCEPT ![k] = "flush"]
    /\ UNCHANGED <<pipe, mainPc, hPipe, pchRequest, processVars, historyVars>>

\* FlushFileBuffers waits until the client has read everything or has left.
Flushed(k) == pipe[k].out = <<>> \/ pipe[k].state # "connected"

disconnect(k) ==
    /\ threadPc[k] = "flush" /\ Flushed(k)
    /\ pipe' = [pipe EXCEPT ![k] = CloseHandle(DisconnectNamedPipe(@))]
    /\ pchRequest' = [pchRequest EXCEPT ![k] = <<>>]
    /\ threadPc' = [threadPc EXCEPT ![k] = "exited"]
    /\ UNCHANGED <<mainPc, hPipe, processVars, historyVars>>

-----------------------------------------------------------------------------
\* Client process c

clientGoes(c, pc) == clientPc' = [clientPc EXCEPT ![c] = pc]

Listening == {k \in Inst : pipe[k].state = "listening"}
Existing == {k \in Inst : pipe[k].state # "closed"}

\* CreateFile; SetNamedPipeHandleState cannot fail before the server hangs up.
CreateFile(c) ==
    /\ clientPc[c] = "open"
    /\ \E k \in Listening :
          /\ pipe' = [pipe EXCEPT ![k] = PeerOpen(@)]
          /\ handle' = [handle EXCEPT ![c] = k]
          /\ opened' = [opened EXCEPT ![k] = @ + 1]
    /\ clientGoes(c, "ask")
    /\ UNCHANGED <<serverVars, program, asked, answers>>

\* ERROR_PIPE_BUSY if there are instances, ERROR_FILE_NOT_FOUND if there is none.
CreateFileFails(c) ==
    /\ clientPc[c] = "open" /\ Listening = {}
    /\ clientGoes(c, IF Existing # {} THEN "waitPipe" ELSE "noPipe")
    /\ UNCHANGED <<pipe, serverVars, program, handle, historyVars>>

\* WaitNamedPipe: an instance listens, or 20 s have passed.
WaitNamedPipe(c) ==
    /\ clientPc[c] = "waitPipe"
    /\ \/ Listening # {} /\ clientGoes(c, "open")
       \/ clientGoes(c, "timedOut")
    /\ UNCHANGED <<pipe, serverVars, program, handle, historyVars>>

\* WriteFile of a request.
writeRequest(c) ==
    LET k == handle[c]
    IN  /\ clientPc[c] = "ask" /\ asked[k] < MaxRequests /\ PeerCanWrite(pipe[k])
        /\ pipe' = [pipe EXCEPT ![k] = PeerWrite(@, <<1, asked[k] + 1>>)]
        /\ asked' = [asked EXCEPT ![k] = @ + 1]
        /\ clientGoes(c, "read")
        /\ UNCHANGED <<serverVars, program, handle, opened, answers>>

\* client's argument may be longer than the server's buffer.
writeTooLong(c) ==
    LET k == handle[c]
    IN  /\ clientPc[c] = "ask" /\ program[c] = "client" /\ PeerCanWrite(pipe[k])
        /\ pipe' = [pipe EXCEPT ![k] = PeerWrite(@, <<1, 0>>)]
        /\ clientGoes(c, "read")
        /\ UNCHANGED <<serverVars, program, handle, historyVars>>

\* ReadFile of the reply; client asks once, clientinput for each line.
readReply(c) ==
    LET k == handle[c]
    IN  /\ clientPc[c] = "read" /\ pipe[k].out # <<>>
        /\ answers' = [answers EXCEPT ![k] = Append(@, Head(pipe[k].out))]
        /\ pipe' = [pipe EXCEPT ![k] = PeerRead(@)]
        /\ clientGoes(c, IF program[c] = "client" THEN "key" ELSE "ask")
        /\ UNCHANGED <<serverVars, program, handle, opened, asked>>

\* The server has hung up: return -1.
readReplyFails(c) ==
    /\ clientPc[c] = "read" /\ pipe[handle[c]].out = <<>>
    /\ pipe[handle[c]].state = "closed"
    /\ clientGoes(c, "hungUp")
    /\ UNCHANGED <<pipe, serverVars, program, handle, historyVars>>

\* ENTER, for clientinput after the line "exit".
clientClose(c) ==
    /\ clientPc[c] = (IF program[c] = "client" THEN "key" ELSE "ask")
    /\ pipe' = [pipe EXCEPT ![handle[c]] = PeerClose(@)]
    /\ clientGoes(c, "closed")
    /\ UNCHANGED <<serverVars, program, handle, historyVars>>

\* The process is ended from outside.
clientKilled(c) ==
    /\ clientPc[c] \in {"ask", "read", "key"}
    /\ pipe' = [pipe EXCEPT ![handle[c]] = PeerClose(@)]
    /\ clientGoes(c, "killed")
    /\ UNCHANGED <<serverVars, program, handle, historyVars>>

-----------------------------------------------------------------------------
Main == CreateNamedPipe \/ connectBlocks \/ createThread \/ connectFails

InstanceThread(k) ==
    readRequest(k) \/ readFails(k) \/ writeReply(k) \/ writeFails(k) \/ disconnect(k)

\* What a client process does by itself; its user types and may end it.
ClientProcess(c) ==
    CreateFile(c) \/ CreateFileFails(c) \/ WaitNamedPipe(c) \/ readReply(c) \/ readReplyFails(c)

User(c) == writeRequest(c) \/ writeTooLong(c) \/ clientClose(c) \/ clientKilled(c)

Next ==
    Main \/ (\E k \in Inst : InstanceThread(k))
         \/ (\E c \in Client : ClientProcess(c) \/ User(c))

Spec == Init /\ [][Next]_vars

\* Every thread and process is scheduled; nothing obliges the user.
FairSpec ==
    /\ Spec
    /\ WF_vars(Main)
    /\ \A k \in Inst : WF_vars(InstanceThread(k))
    /\ \A c \in Client : WF_vars(ClientProcess(c))

-----------------------------------------------------------------------------
\* Properties
=============================================================================
