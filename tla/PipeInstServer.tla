--------------------------- MODULE PipeInstServer ---------------------------
(***************************************************************************)
(* namedpipedemo/serveroverlapped: one thread serves several instances of  *)
(* the pipe.  Each instance has one OVERLAPPED, for connect, read and      *)
(* write alike, with one manual-reset event; a state variable says which   *)
(* of the three it is for, and fPendingIO whether its result is still to   *)
(* be fetched.  Clients open, ask, read replies and close at any time.     *)
(*                                                                         *)
(* An iteration of the loop is three steps: the wait, the result of an     *)
(* operation that pended, and the next operation.  Requests and replies    *)
(* are those of RequestReply.                                              *)
(***************************************************************************)
EXTENDS MessagePipe, FiniteSets

CONSTANTS
    INSTANCES,      \* pipe instances
    MaxRequests,    \* bound on the requests of a client
    MaxConnects     \* MaxConnects[k]: bound on the clients of instance k

\* What the constants are, assumed by MCNamedPipes.
InstAssumption ==
    /\ INSTANCES \in Nat \ {0} /\ MaxRequests \in Nat /\ Quota \in Nat \ {0}
    /\ MaxConnects \in [0 .. INSTANCES - 1 -> Nat]

Inst == 0 .. INSTANCES - 1
Request == Nat \X Nat

VARIABLES
    pipe,           \* pipe[i]: an instance and its OVERLAPPED
    dwState,        \* dwState[i]
    fPendingIO,     \* fPendingIO[i]
    chRequest,      \* chRequest[i]: the request read and not yet answered
    pc,             \* where the thread is
    i,              \* the instance it is at
    connects, asked, answers    \* history of the clients of each instance

serverVars == <<dwState, fPendingIO, chRequest, pc, i>>
clientVars == <<connects, asked, answers>>
vars == <<pipe, serverVars, clientVars>>

TypeOK ==
    /\ pipe \in [Inst -> Pipe(Request)]
    /\ dwState \in [Inst -> {"CONNECTING", "READING", "WRITING"}]
    /\ fPendingIO \in [Inst -> BOOLEAN]
    /\ chRequest \in [Inst -> Seq(Request)]
    /\ pc \in {"create", "connect", "wait", "result", "operate"}
    /\ i \in Inst
    /\ connects \in [Inst -> Nat] /\ asked \in [Inst -> Nat]
    /\ answers \in [Inst -> Seq(Request)]

Init ==
    /\ pipe = [k \in Inst |-> NewPipe("closed")]
    /\ dwState = [k \in Inst |-> "CONNECTING"]
    /\ fPendingIO = [k \in Inst |-> FALSE]
    /\ chRequest = [k \in Inst |-> <<>>]
    /\ pc = "create" /\ i = 0
    /\ connects = [k \in Inst |-> 0] /\ asked = [k \in Inst |-> 0]
    /\ answers = [k \in Inst |-> <<>>]

\* A request that was read is answered unless it is empty.
Accepted(buffer) == buffer # <<>> /\ Head(buffer)[2] # 0

\* A call starts with the instance's event reset.
Reset(p) == [p EXCEPT !.connect = "idle", !.read = "idle", !.write = "idle"]
Signaled(p) == Completed(p.connect) \/ Completed(p.read) \/ Completed(p.write)

\* The thread leaves instance i with a result pending or not, in a state.
Leave(p, pending, state, request) ==
    /\ pipe' = [pipe EXCEPT ![i] = p]
    /\ fPendingIO' = [fPendingIO EXCEPT ![i] = pending]
    /\ dwState' = [dwState EXCEPT ![i] = state]
    /\ chRequest' = [chRequest EXCEPT ![i] = request]
    /\ UNCHANGED clientVars

-----------------------------------------------------------------------------
\* The server

\* The instance and its event are created.
createInstance ==
    /\ pc = "create"
    /\ pipe' = [pipe EXCEPT ![i] = NewPipe("listening")]
    /\ pc' = "connect"
    /\ UNCHANGED <<dwState, fPendingIO, chRequest, i, clientVars>>

\* ConnectToNewClient signals the event by hand for a client that came before.
ConnectToNewClient(p) ==
    LET q == ConnectNamedPipe(Reset(p))
    IN  IF ConnectResult(p) = "ERROR_PIPE_CONNECTED"
        THEN [q EXCEPT !.connect = "success"]
        ELSE q

\* The caller goes on in the state its result calls for.
Connect(p) ==
    LET pending == ConnectResult(p) = "ERROR_IO_PENDING"
    IN  Leave(ConnectToNewClient(p), pending,
              IF pending THEN "CONNECTING" ELSE "READING", <<>>)

connectInstance ==
    /\ pc = "connect"
    /\ Connect(pipe[i])
    /\ IF i + 1 < INSTANCES THEN pc' = "create" /\ i' = i + 1
                            ELSE pc' = "wait" /\ UNCHANGED i

DisconnectAndReconnect ==
    Connect([DisconnectNamedPipe(pipe[i]) EXCEPT !.buffer = <<>>])

\* WaitForMultipleObjects returns the first instance whose event is set.
wait ==
    /\ pc = "wait"
    /\ i' \in {k \in Inst : Signaled(pipe[k]) /\ \A j \in 0 .. k - 1 : ~Signaled(pipe[j])}
    /\ pc' = IF fPendingIO[i'] THEN "result" ELSE "operate"
    /\ UNCHANGED <<pipe, dwState, fPendingIO, chRequest, clientVars>>

\* GetOverlappedResult, and the state the operation was for.
ConnectDone == dwState[i] = "CONNECTING" /\ pipe[i].connect = "success"
ReadDone == dwState[i] = "READING" /\ pipe[i].read = "success" /\ Accepted(pipe[i].buffer)
WriteDone == dwState[i] = "WRITING" /\ pipe[i].write = "success"

resultSuccess ==
    /\ pc = "result"
    /\ \/ (ConnectDone \/ WriteDone) /\ Leave(pipe[i], TRUE, "READING", <<>>)
       \/ ReadDone /\ Leave([pipe[i] EXCEPT !.buffer = <<>>], TRUE, "WRITING", pipe[i].buffer)
    /\ pc' = "operate" /\ UNCHANGED i

\* A read or a write that failed, or read nothing; a connect never fails.
resultFailure ==
    /\ pc = "result" /\ ~(ConnectDone \/ ReadDone \/ WriteDone)
    /\ DisconnectAndReconnect
    /\ pc' = "wait" /\ UNCHANGED i

\* Mutant: fPendingIO is not set for a read that pends.
readRequestNotPending ==
    /\ pc = "operate" /\ dwState[i] = "READING"
    /\ LET p == ReadFile(Reset(pipe[i]))
       IN  \/ /\ p.read = "success" /\ Accepted(p.buffer)
              /\ Leave([p EXCEPT !.buffer = <<>>], FALSE, "WRITING", p.buffer)
           \/ p.read = "pending" /\ Leave(p, FALSE, "READING", <<>>)
           \/ /\ p.read = "idle" \/ (p.read = "success" /\ ~Accepted(p.buffer))
              /\ DisconnectAndReconnect
    /\ pc' = "wait" /\ UNCHANGED i

\* The read of a request: done, pending or failed.
readRequest ==
    /\ pc = "operate" /\ dwState[i] = "READING"
    /\ LET p == ReadFile(Reset(pipe[i]))
       IN  \/ /\ p.read = "success" /\ Accepted(p.buffer)
              /\ Leave([p EXCEPT !.buffer = <<>>], FALSE, "WRITING", p.buffer)
           \/ p.read = "pending" /\ Leave(p, TRUE, "READING", <<>>)
           \/ /\ p.read = "idle" \/ (p.read = "success" /\ ~Accepted(p.buffer))
              /\ DisconnectAndReconnect
    /\ pc' = "wait" /\ UNCHANGED i

\* GetAnswerToRequest and the write of the reply.
writeReply ==
    /\ pc = "operate" /\ dwState[i] = "WRITING"
    /\ LET p == WriteFile(Reset(pipe[i]), chRequest[i][1])
       IN  \/ p.write = "success" /\ Leave(p, FALSE, "READING", <<>>)
           \/ p.write = "pending" /\ Leave(p, TRUE, "WRITING", <<>>)
           \/ p.write = "idle" /\ DisconnectAndReconnect
    /\ pc' = "wait" /\ UNCHANGED i

-----------------------------------------------------------------------------
\* The client of instance k

clientOpen(k) ==
    /\ connects[k] < MaxConnects[k] /\ pipe[k].state = "listening"
    /\ pipe' = [pipe EXCEPT ![k] = PeerOpen(@)]
    /\ connects' = [connects EXCEPT ![k] = @ + 1]
    /\ asked' = [asked EXCEPT ![k] = 0] /\ answers' = [answers EXCEPT ![k] = <<>>]
    /\ UNCHANGED serverVars

clientAsk(k) ==
    /\ asked[k] < MaxRequests /\ PeerCanWrite(pipe[k])
    /\ pipe' = [pipe EXCEPT ![k] = PeerWrite(@, <<connects[k], asked[k] + 1>>)]
    /\ asked' = [asked EXCEPT ![k] = @ + 1]
    /\ UNCHANGED <<serverVars, connects, answers>>

\* A request the server does not take: empty, or longer than its buffer.
clientAskNothing(k) ==
    /\ PeerCanWrite(pipe[k])
    /\ pipe' = [pipe EXCEPT ![k] = PeerWrite(@, <<connects[k], 0>>)]
    /\ UNCHANGED <<serverVars, connects, asked, answers>>

clientRead(k) ==
    /\ pipe[k].out # <<>>
    /\ answers' = [answers EXCEPT ![k] = Append(@, Head(pipe[k].out))]
    /\ pipe' = [pipe EXCEPT ![k] = PeerRead(@)]
    /\ UNCHANGED <<serverVars, connects, asked>>

clientClose(k) ==
    /\ pipe[k].state = "connected"
    /\ pipe' = [pipe EXCEPT ![k] = PeerClose(@)]
    /\ UNCHANGED <<serverVars, clientVars>>

-----------------------------------------------------------------------------
Server ==
    createInstance \/ connectInstance \/ wait \/ resultSuccess \/ resultFailure
    \/ readRequest \/ writeReply

ClientOf(k) ==
    clientOpen(k) \/ clientAsk(k) \/ clientAskNothing(k) \/ clientRead(k) \/ clientClose(k)

Next == Server \/ \E k \in Inst : ClientOf(k)

Spec == Init /\ [][Next]_vars

\* The thread is scheduled; a client waits in ReadFile for its reply.
FairSpec == Spec /\ WF_vars(Server) /\ \A k \in Inst : WF_vars(clientRead(k))

-----------------------------------------------------------------------------
\* Properties

\* What instance k has received: what a completed read has left in chRequest is
\* still to be taken until its result is fetched.
Inbox(k) == pipe[k].buffer \o pipe[k].in
=============================================================================
