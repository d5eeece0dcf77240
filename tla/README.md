# windowsipc in TLA+

A verification project for the inter-process communication programs of this
repository: TLA+ modules of their threads, handlers, pipes and completion ports,
TLC runs that check them on small instances, and proofs that TLAPS checks for
every value of the constants.

Every program of the repository is modelled. The class `NamedPipeIpc`, the only
part meant to be reused, is modelled at both ends and composed. Theorems state the
safety of every program.

## 1. Inventory of the repository

The repository is a set of small Windows programs that show one way each of
letting processes talk. There are no automated tests. What the programs promise
is said in the two kinds of text there are, comments and READMEs.

| Program | State it keeps | Operations | Concurrency | What makes it correct |
|---|---|---|---|---|
| `namedpipeipc` (`shared/namepipeipc.cpp`, two `main.cpp`) | send and receive list with a critical section each, five events, three `OVERLAPPED`s with their buffers, `bWritting`, `m_serverConected` | `init`, `sendMsg`, `getMsgs`, `close`; handlers of connect, read, write, not-empty and stop | main thread, worker thread, the process at the other end | messages arrive once and in order; nothing stays queued with nobody to send it; no `OVERLAPPED` is used twice at once; a lost peer is replaced (server) or ends the worker (client) |
| `overlappeddemo/servernamedpipe`, `clientnamedpipe` | as above, in globals, manual-reset events | as above | main thread, one worker | as above; `exit` ends the worker |
| `overlappeddemo/servernamedpipeiocp` | the same for its instance; one completion port | worker loop over the packets | main thread, one worker | as above; every packet leads to exactly one next operation |
| `overlappeddemo/servernamedpipeiocpmulthread` | lists and flags per instance; one completion port | as above, lines for one instance or for all | main thread, two workers on one port | messages are listed in order although two threads handle one instance; one read, one write per instance |
| `overlappeddemo/iocpdemo/FileCopy` | requests with their buffers, two counters, next offset | read completion starts a write, write completion starts a read | the disk completes in any order | every block is copied once, at its offset; the loop ends when nothing is outstanding |
| `overlappeddemo/fileoverlapped`, `filepublicoverlapped` | two `OVERLAPPED`s with an event each | write and read, wait for both | the disk | both results are reported, no event is left set |
| `namedpipedemo/serveroverlapped` | per instance: state (connecting, reading, writing), pending flag, one event | one wait loop, request and reply | clients | one reply for each request, to the client that asked; no instance stays with a client that has gone |
| `namedpipedemo/servermultithreaded`, `client`, `clientinput` | a thread and an instance per client | read a request, write the reply | threads, clients | the same; a client that waits is answered or hung up on |
| `AnonymousPipesDemo` parent and child | send and receive list, two events, stop flags in each | read thread, write thread, main loop | three threads in each of two processes | messages arrive once and in order, nothing stays queued; the end of one is noticed by the other |
| `createprocessdemo` parent and child | two inherited pipes | write all, then read all | two processes | the file comes back whole; neither waits for the other for ever |
| `pipedemo`, `pipewithsizedemo` | two named pipes; the second frames words by size | read thread, write thread | two processes of two threads | words are printed as they were typed |
| `sharememorydemo` | one mapped view | copy a text in, copy it out | two processes | the reader gets the whole text |

Left aside: the vendored headers `CmnHdr.h`, `EnsureCleanup.h` and `Resource.h`
(except `chROUNDUP`), the dialog of `FileCopy`, build files and pictures.

`PROJECT.json` lists every component and, under `hazards`, everything in the
code that is hard to test, each at its line.

### namedpipeipc in detail

* **Main thread** (`main.cpp`): reads a line, calls `sendMsg`, then `getMsgs`
  and `dispatchMsgs`; on `exit` calls `close`, which sets the stop event and
  waits at most 5 s for the worker; then `main` returns and the process ends.
* **Worker thread** (`ThreadOverlappedServer`, `ThreadOverlappedClient`): waits
  for five events. In the order of the array, which is their priority: connect,
  read, write, stop, not-empty.
* **Shared state**: `writeMsgsList` under its lock, except that `writeMsg` calls
  `empty()` without it (`namepipeipc.cpp:421`); `readMsgsList` under its lock;
  the events. `bWritting` is the worker's own.
* **Pipe**: one instance. The server listens, a client opens, either end reads
  and writes overlapped, the client closes, the server disconnects and listens
  again. A message not yet read is lost when the server disconnects and when
  the end it was written to closes.

### How the programs resemble each other

`overlappeddemo` holds the steps that led to `namedpipeipc`: the same lists,
`bWritting` and handlers, first with events, then with a completion port, then
with several workers on it. They differ in what decides whether a message is
forgotten: manual-reset events that a handler resets, packets that are never
lost, a loop that ends when a handler returns `FALSE`. `namedpipedemo` holds
request-reply servers, the rest one-way transfers.

## 2. Modules

| Module | Of the code | What it is |
|---|---|---|
| `MessageChannel` | - | abstract: one direction as a lossy channel. Messages are queued, transmitted, delivered in order, at most once; a broken connection loses a suffix of what was on it. |
| `RequestReply` | - | abstract: one instance of a request-reply server. Each request of a client that stays is answered, in order; the server hangs up only on a client that has left or sent an empty request; a new client finds nothing of the last. |
| `NamedPipe` | external | an instance of a Windows message pipe as variables, both ends alike |
| `MessagePipe` | external | the same as a value, seen from the server's or client's end: each call is a function from pipes to pipes, so that programs with several instances, or handlers that call several functions, stay one step. `Packets(p, q)` is what a change from `p` to `q` queues to a completion port. |
| `NamedPipeIpc` | `namepipeipc.cpp` | main thread and worker thread, everything both types share |
| `NamedPipeIpcServer`, `NamedPipeIpcClient` | `namepipeipc.cpp`, `main.cpp` | the two types, each with an arbitrary peer |
| `NamedPipeIpcLink` | both `main.cpp` | the last two over one pipe, client processes in turn, processes killed |
| `OverlappedServer`, `OverlappedClient` | `overlappeddemo/servernamedpipe`, `clientnamedpipe` | events and one worker |
| `IocpServer`, `IocpServerMulti` | `servernamedpipeiocp`, `servernamedpipeiocpmulthread` | a completion port and one worker, or several |
| `PipeInstServer`, `MultithreadedServer` | `namedpipedemo` | state machines of the instances in one thread; a thread for each client. Both implement `RequestReply`. |
| `AnonymousPipes` | `AnonymousPipesDemo` | two processes, six threads |
| `FileCopy` | `overlappeddemo/iocpdemo` | several I/O requests over one port |
| `CreateProcessDemo`, `TwoPipes`, `FileOverlapped`, `SharedMemory` | the small programs | `TwoPipes` is `pipedemo` and, where `sized` is set, `pipewithsizedemo` |
| `MCOverlapped`, `MCNamedPipes`, `MCFiles` | - | several of these programs in one run, see section 4; their constants are those of the programs, and they are also what is proved about |
| `MCNamedPipeIpcServer`, `MCNamedPipeIpcClient`, `MCIocpServerMulti` | - | claims of comments and READMEs that the code does not keep |
| `*_proofs` | - | theorems, section 6 |

### How state and actions correspond to the code

A variable has the name of the code's variable where there is one
(`writeMsgsList`, `readMsgsList`, `bWritting`, `m_serverConected`). `stopEvent`
and `notEmptyEvent` are `events[3]` and `events[4]`; the first three events are
part of `connectOp`, `readOp` and `writeOp` of `NamedPipe`, each of which is the
state of one `OVERLAPPED` with its event. `mainPc` and `workerPc` are the places
of the two threads. A message is the number of the `sendMsg` call that queued
it: the properties tell messages apart by nothing else.

A step of a thread ends where another thread or the system can see it. So
`sendMsg` is two steps, `sendMsgPush` and `sendMsgSignal`, with the critical
section held in between; `writeMsg` is three: the unlocked `empty()` test (at the
end of the handler that called `writeMsg`), the locked pop (`popMsg`) and the
call of `WriteFile` (`startWrite`); a handler of a completed read is two:
`handleReadData` and `rearmRead`, or `handleReadError` and `reconnect`. What
`ConnectToNewClient`, `ReadFile` and `WriteFile` return is looked at in the model
exactly where the code looks at it, which is nowhere except inside
`ConnectToNewClient`.

`waitRead` and the other wait actions are `WaitForMultipleObjects` with the
dispatch on its index: `WaitReturns(i)` demands that no lower event is set,
and an auto-reset event is consumed. The branch a handler takes on
`OVERLAPPED.Internal` is chosen there too, since `Internal` cannot change once
the event is set.

`ReturnFromMain` is the end of the process: the worker stops wherever it is and
the system closes the pipe handle. `closeTimedOut` is that after the 5 s.
`m_serverConected` is `\in BOOLEAN` initially because no constructor sets it.

The other modules keep these conventions. What is particular to each:

* **`OverlappedServer`, `OverlappedClient`**: main pushes and tests the size
  under one lock, so a line is one step; a handler is one step except where main
  can see it half done, which is `handleNotEmptyEvent` between its pop and its
  `ResetEvent`. A handler that returns `FALSE` ends the worker. In the client the
  worker itself opens the pipe and then makes the events (`created`); `SetEvent`
  before that does nothing.
* **`IocpServer`**: `iocp` is the queue of packets in the order of completion.
  Handlers are single steps, main shares only the lists with them.
* **`IocpServerMulti`**: two workers may handle packets of one instance at once,
  so what they share (`bWritting`, the list) is read and written in steps of
  their own: `testNotEmpty`, `popMsg`, `writeFile` and `setWritting`, and
  `handleWriteDone`, `testEmpty`, `frontMsg` and `popFront`. The critical section
  that `handleWriteEvent` takes is not the list's (`main.cpp:341` uses the wait
  index), so `front` and `pop_front` are two steps there.
* **`PipeInstServer`**: an iteration of the loop is the wait, `GetOverlappedResult`
  of an operation that pended, and the next operation of the instance's state.
* **`MultithreadedServer`**: all I/O is synchronous; a call that blocks is an
  action that waits for its guard. Clients run `CreateFile`, `WaitNamedPipe` and
  retry as the two programs do.
* **`AnonymousPipes`**: `p` in `pushMsg(p)` is the process; the threads of both
  differ in what they do at the end. `CloseHandle` waits for a call another thread
  has outstanding on the same handle, since the pipes are synchronous.
* **`FileCopy`**: unit `k` of the source is the number `k`. `disk` holds the
  requests under way, `port` the packets, `refused` the calls that failed at once
  and are counted all the same. `liNextReadOffset`, the counters and the rounding
  of the size are the code's.
* **`CreateProcessDemo`, `TwoPipes`, `FileOverlapped`, `SharedMemory`**: data are
  numbered units, a copy (`strcpy`, the disk) advances in parts of any length.
  In `TwoPipes` a pipe holds units, since a stream has no messages. One unit comes
  before each of B's words: its size, or in `pipedemo` the beginning of the message,
  which takes no room; `aReadMessage` takes it and as many more as the word has. A
  word may be empty in both programs, which is what `cin` gives B at the end of its
  input; A then prints an empty line, which is not among `aOut`. `SizeOf` is what four bytes give that are not a size. A
  write that pends when its process ends is cancelled, one that has returned is not.

### What is assumed of Windows (`NamedPipe`, `MessagePipe`)

* A call that fails at once signals no event. A call that succeeds at once
  signals its event like one that was pending.
* `ConnectNamedPipe`: pending while listening, `ERROR_PIPE_CONNECTED` when a
  client is there, `ERROR_NO_DATA` when one came and closed.
* A client can open an instance from `CreateNamedPipe` on, and after a
  disconnect only once the server listens again.
* What a closed client had written can still be read; then reads fail.
* `DisconnectNamedPipe` discards what is unread and fails what is outstanding.
* A write is pending while the reader's buffer is full (`Quota` messages) and no
  read waits, and completes when the reader takes one.
* `FlushFileBuffers` returns when the peer has read all or is gone.
* A process that ends closes its handles.

* A completion port hands out packets in the order of completion; operations
  that fail together complete in either order (`Packets`).
* A call refused at once queues no packet; one that succeeds at once does.
* `CloseHandle` on a handle that another thread uses synchronously waits for it.

### Abstracted

Failure of `CreateNamedPipe`, `CreateEvent`, `CreateIoCompletionPort` and thread
creation (the programs end at once), `WAIT_FAILED`, messages longer than the
buffers except where a program reacts to them (`RequestReply`'s empty request),
console output, the editing of lines in `main`. `AnonymousPipes` leaves out the
child's handling of a message `childexit`, which the parent never sends.

## 3. Properties

**`namedpipeipc`, either type**

* `NoLostWakeup`: with no write under way, a non-empty list means that the event
  is set or that `sendMsg` is about to set it. It is hard because the event is
  set only when the size becomes one, is auto-reset, and is dropped by
  `handleNotEmptyEvent` while `bWritting` is set.
* `NoOverlappedReuse`: where the worker is going to issue a call, the last call
  of that kind has completed and been consumed, across disconnects, reconnects
  and writes that outlive their client.
* `InboundConserved`: application, received list, read buffer and pipe hold
  together exactly what the peers wrote, in order.
* `DisconnectsOnlyTheGone` (server): nothing unread is thrown away by the
  server's `DisconnectNamedPipe`.
* `CloseLosesNoWrite` (client, on steps): a `close` that is not cut short by its
  timeout has everything written read by the server.
* `OutboundIsChannel`: the way from `sendMsg` to the peer implements
  `MessageChannel`. The queue is the list behind the popped message, the wire the
  pipe behind the write that pends.
* `FlowsWhileConnected`: what is queued reaches a peer that stays, what the peer
  writes is listed. `FailedReadReconnects` (server), `WorkerEnds` (client: a
  failed operation ends it, and so does `close` without its timeout).
  The server's form excepts the state `WriteStuck`, `bWritting` set with no write
  outstanding: the defect of section 5.

**Both together** (`NamedPipeIpcLink`): `EndsKeepInvariants` (each end's invariants
with the real other end as its peer), `DirectionsAreChannels` (from one
application's `sendMsg` to the other's received list, over several client
processes), `BothDirectionsFlow` (full buffers in both directions never block each
other).

**`overlappeddemo`** (`MCOverlapped`): `Inv` is the type invariant, inbound
conservation and no lost wakeup while the worker lives; `NoOverlappedReuse`;
`OutboundIsChannel`, the same abstract channel for the three programs with one pipe;
`ExactlyOneCarried`, each connect, read or failure of the completion-port server
leads to exactly the one next operation of its kind, also across clients;
`FailedReadIsHandled`; `ExitIsClean`. `IocpServerMulti`: `OneIssuer`, of workers
about to issue a connect or a read of an instance, packets that will make one do
so, and operations that will queue such a packet, there is at most one: this is
why two workers need no lock around `ReadFile`; `Inv` with `InboundConserved`,
which rests on it; `FailedReadReconnects`. `MCOverlapped` states these for the value
`"multi"` of `demo`.

**`namedpipedemo`**: `InstancesReply` and `ThreadsReply`, both servers implement
`RequestReply` per instance; `ClientsAreAnswered`; `GoneClientsLeaveNothing`.
**`pipedemo`, `pipewithsizedemo`**: `WordsArriveWhole` and `NothingLostToB` (in
`Inv`), `SentIsPrinted`.

**`AnonymousPipes`**: `MsgsConserved` and `NoLostWakeup` (in `Inv`): the
manual-reset event is reset by hand after the list was found empty, under no common
lock with `SetEvent`. `ExitEndsChildsReader`: `exit` ends the child's reader. The child's
end, also by being killed, is noticed by the parent (in `ProgramsEnd`).

**Files** (`MCFiles`): `IoIsCounted` (each request is in one operation and the two
counters are the numbers outstanding), `BuffersOutliveIo` (nothing is outstanding
when the buffers are freed), `CopyIsExact` (no block skipped or doubled, and the
copy has the size and contents of the source); in `Inv`, `FileIsEchoed`, that
`createprocessdemo` loses and doubles nothing, and `TextIsRead`; `SmallFileFlows`,
up to twice the pipe's capacity plus one buffer unit the parent and the child do
not wait for each other; `ProgramsEnd`.

## 4. Runs

| Run | Bounds | States | Question |
|---|---|---|---|
| `ipc_server` | quota 1, 3 `sendMsg`, 2 client messages, 3 clients | 181 k | everything about the server, with its refinement and its liveness |
| `ipc_client` | quota 1, 3 `sendMsg`, 2 server messages, server listens 2 more times | 174 k | everything about the client |
| `ipc_link` | quota 1, 2 `sendMsg` of the two processes together, 2 client processes, 1 kill | 186 k | both ends together |
| `overlapped` | `Demos` the three with one pipe: quota 1, 3 lines, 2 messages of the peer, 2 clients | 274 k | the two servers and the client of `overlappeddemo` with one pipe |
| `iocp_multi` | `Demos = {"multi"}`: 1 instance, 2 workers, quota 1, 2 lines, 2 client messages, 2 clients | 310 k | two workers on one completion port |
| `named_pipes` | 2 instances, quota 1, 2 requests (2 clients in turn on one); 2 words of 0 or 2 units, `MAX_PATH` 3 | 121 k | the request-reply servers and the two-pipe programs |
| `files` | 3 requests, `BUFFSIZE` 2, files of 0, 1, 2, 5, 8 and 9 units, 1 fault; `AnonymousPipesDemo`: quota 1, at most 2 messages in all, 2 of the child (its greeting counted) or 1 of each process, the child may be killed; the others as in `MCFiles.cfg` | 259 k | everything that carries a file or a text, and two processes of three threads |
| `ipc_server_queued`, `ipc_server_replaced`, `ipc_client_lost`, `iocp_multi_writing` | the least that shows it | - | claims that fail, section 5 |

**Several programs in one run.** `MCOverlapped`, `MCNamedPipes` and `MCFiles` have
a variable `demo` that is chosen in the initial state and never changes (in
`MCOverlapped` from the constant `Demos`, by which its two runs divide the
programs); a step is
one of that program and leaves the others' variables at their first values. The
state graph is the disjoint union of the programs' graphs, so a property
`demo = "x" => ...` means the same as in a run of its own, and a disjunct of
`Next` that no program takes would be seen. Since one program runs, the weak
fairness of an action of each is that of their disjunction, which is how the
fairness conditions of `MCNamedPipes` and `MCFiles` are grouped.

**Why these bounds are enough.** `Quota = 1` makes a write pend with the second
message nobody reads, the only thing a larger quota would delay. With three
`sendMsg` calls one message is in the pipe, one in a pending write and one in the
list, so the list passes through empty and non-empty in both directions, and the
not-empty event comes before, during and after a write. Two clients give one
reconnect, the third a reconnect after a write that was pending when its client
left. The client's server listens again twice, so that the client meets a pipe
that is busy, then free, then gone. `NamedPipeIpcLink` bounds the messages of
both processes together, so that one run has two from the server, two from a
client, or one from each with both directions full; two client processes, so
that messages queued for the first go to the second; one kill.
`IocpServerMulti`'s workers share state only through one instance, so one instance
has every interleaving of two workers on it, and `broadcast` and the loops over
the instances go round once; several instances add only the product, and the
theorems of section 6 hold for any number of them. What a bound hides: `serveroverlapped`
waits with `WaitForMultipleObjects`, which gives the lowest signalled index, so a client
of the first instance that never stops asking could starve the others; with
`MaxRequests` requests it stops, and `ClientsAreAnswered` says nothing of that.
`FileCopy` has three requests and up to five blocks, so that requests are
used again and the last block is partial or whole. `CreateProcessDemo` has files
below, at and above the size at which both pipes are full.

Every cfg says `CHECK_DEADLOCK FALSE` because the programs really end: after
`main` has returned and the other side has nothing more to do no step is left.
That nobody waits on the other for ever is what the liveness properties say.

**Fairness.** Weak fairness of each worker's next step, because the system
schedules threads and a pending wait returns once an event is set or a packet
queued. Weak fairness of the main thread's steps that finish what a line has
started (`sendMsgSignal`, `getMsgs`, `dispatchMsgs`, the return of the wait for
the worker once that has ended, the end of an open). The disk answers
(`FileCopy`, `FileOverlapped`). The peer of `NamedPipeIpcServer`,
`NamedPipeIpcClient` and `OverlappedClient`, and the client of `PipeInstServer`,
is fair in reading only, which the workers and clients of this repository are;
`NamedPipeIpcLink` checks the liveness with the real peer and without that
assumption. Nothing obliges the user to type a line, a peer to come, write or
leave, a wait to time out, an I/O to fail, or a process to be killed.

## 5. Where the code does not do what its texts say

Each of these is a run that finds the claim violated:

* `QueuedIsSent` (`MCNamedPipeIpcServer`): `writeMsg` sets `bWritting` whatever
  `WriteFile` returned. A `sendMsg` before a client has connected makes
  `WriteFile` fail at once; no completion ever clears the flag and nothing is
  sent any more, to this client or a later one.
* `ClosedClientIsReplaced` (`MCNamedPipeIpcServer`): the server reconnects only
  when an outstanding read completes with an error. The property speaks of a worker
  that has listed a message and is at its next `ReadFile` (`namepipeipc.cpp:365`) with
  the client gone; in the run the client connects, writes one message and closes
  before the worker has listed it. That `ReadFile` fails at once, nobody looks at what
  it returned, and with no event to come the pipe's only instance is never given back.
* `LostServerEndsWorker` (`MCNamedPipeIpcClient`): the same in the client: its
  worker does not end although the pipe is dead.
* `SendsWhenNothingIsSent` (`MCIocpServerMulti`): one worker has the completion of the
  first line's write, the other the not-empty packet of the second line. The first
  clears `bWritting` (`servernamedpipeiocpmulthread/main.cpp:322`), then both find the
  list not empty and nothing being sent (`:261`, and the test before `:338`): clearing,
  testing and taking the front are not one step, and the completion's handler takes
  the front (`:342-343`) under a lock that is not the list's (`:341`). Both copy the
  line and call `WriteFile`, the second over the first's outstanding one.

Also met while modelling, part of the models, and without a run of their own:

* `OverlappedServer`, `IocpServerMulti`: a not-empty event or packet left over
  from a message that was already written makes `handleNotEmptyEvent` return
  `FALSE` and ends the worker (`servernamedpipe/main.cpp:261`,
  `servernamedpipeiocpmulthread/main.cpp:237`); a few of them leave the port
  without a thread. The safety properties hold "while the worker lives", and
  `FailedReadReconnects` excepts the case.
* `OverlappedClient`: `SetEvent` before the worker has made its events is lost,
  and with the list no longer empty no later line signals
  (`clientnamedpipe/main.cpp:102`).
* `IocpServer`, `IocpServerMulti`: for a client that came before
  `ConnectNamedPipe`, `SetEvent` is called on a `NULL` handle and no packet comes:
  that client is never served (`servernamedpipeiocp/main.cpp:164`).
* `NamedPipeIpcServer`: a client that opens and closes while its instance listens but
  `ConnectNamedPipe` has not been called, before the worker starts or between its
  disconnect and its reconnect, makes that call fail with `ERROR_NO_DATA`
  (`namepipeipc.cpp:228-237`, called at `:251` and `:348`): no `ReadFile` is ever
  issued, nothing is pending, and no other client is accepted. The same shape, a
  `ReadFile` that fails at once, is at `:311` for a client that closes before the worker
  has handled its connect event without having written.
* `IocpServerMulti`: `bWritting` is set after `WriteFile` has returned (`:281`, `:354`).
  If the other worker handles the completion before that, the flag stays set with
  nothing outstanding: every later not-empty packet ends its worker at `:261` and
  nothing is sent on that instance any more. `OutboundIsChannel` and the other safety
  properties do not say that a line is sent.
* `PipeInstServer`: after `ERROR_NO_DATA` the instance is reading with nothing
  pending and its event reset, and is never served or offered again
  (`serveroverlapped/main.cpp:313`). `GoneClientsLeaveNothing` therefore speaks of
  instances whose read is outstanding.
* `CreateProcessDemo`: with a file that fills both pipes the parent and the child
  wait for each other (`createprocessdemo`'s parent, the loop of `WriteToPipe`);
  `SmallFileFlows` says up to which size they do not.
* `FileCopy`: an I/O that completes with an error is not looked at, and the copy
  is reported as good; one that is refused at once is counted and its packet
  awaited for ever. `CopyIsExact` and `ProgramsEnd` have these as premises.
* `NamedPipeIpcServer`: an outstanding write of a client that left may be handled
  after the next client was accepted; `handleWriteError` then closes the pipe
  under that client and ends the worker (`namepipeipc.cpp:406`).
* `TwoPipes`: A's reader keeps reading after most errors and never ends by itself.
* `MultithreadedServer`: `FlushFileBuffers` makes no difference to a client that
  waits for its reply before it closes.

## 6. Proofs

`tlapm` checks every leaf; nothing is assumed but the `ASSUME`s of the modules:
the quota (the buffer, the number of requests) is positive, bounds are natural
numbers, `m_type` is the module's type. All theorems are for every value of the
constants.

| Module | Theorem | States |
|---|---|---|
| `NamedPipeIpcServer_proofs` | `TypeCorrect`, `OverlappedSafe`, `WakeupSafe`, `DisconnectSafe`, `InboundSafe` | `Spec => []` of `TypeOK`, `NoOverlappedReuse`, `NoLostWakeup`, `DisconnectsOnlyTheGone`, `InboundConserved` |
| | `OutboundSafe` | `Spec => OutboundIsChannel`: the refinement of `MessageChannel` |
| | `DeliveredInOrder` | clients read at most once and in the order of the `sendMsg` calls |
| `NamedPipeIpcClient_proofs` | `TypeCorrect`, `OverlappedSafe`, `WakeupSafe`, `InboundSafe`, `OutboundSafe`, `DeliveredInOrder` | the same of the client |
| | `CloseSafe` | `Spec => CloseLosesNoWrite`: what was sent before a `close()` that is not cut short is read |
| `MessageChannel_proofs` | `ChannelOrder` | `ChanSpec => []InOrderAtMostOnce` |
| `NamedPipeIpcLink_proofs` | `EndsSafe` | `Spec => []EndsKeepInvariants`, two objects of the code at the two ends of one pipe |
| | `DirectionsSafe` | `Spec => DirectionsAreChannels`: the refinement of `MessageChannel` in both directions, application to application |
| | `DispatchedInOrder` | either application is handed what the other sent in order and at most once |
| `MCOverlapped_proofs` | `InvSafe` | `FairSpec => []Inv`, for the four programs of `MCOverlapped`, `IocpServerMulti` with any number of instances and workers |
| | `OneIssuerSafe` | `FairSpec => []OneIssuer` |
| | `ReuseSafe`, `CarriedSafe` | `FairSpec =>` `NoOverlappedReuse`, `ExactlyOneCarried`, of the three programs with one pipe |
| | `OutboundSafe`, `DeliveredInOrder` | their refinement of `MessageChannel`, and the order of delivery |
| `MCFiles_proofs` | `TypeCorrect`, `CountSafe`, `BuffersSafe`, `CopySafe` | `Spec => []` of `FileCopy`'s `TypeOK`, `IoIsCounted`, `BuffersOutliveIo`, `CopyIsExact` |
| | `EchoSafe`, `EventsSafe` | the same of `CreateProcessDemo`'s `EchoConserved` and `PrintedIsEcho`, and of `FileOverlapped`'s `LeavesNoEventSet` |
| | `PipesSafe` | `AnonymousPipes`' own specification implies `[]` of its `TypeOK`, `MsgsConserved` and `NoLostWakeup` |
| | `FilesSafe`, `FlowSafe`, `FilesCopySafe` | `AnySpec => []` of `Inv`, `SmallFileFlows`, and `FileCopy`'s three again, for the five programs of `MCFiles` |
| `MCNamedPipes_proofs` | `ProgramsSafe` | `Spec => []Inv`, for the three programs of `MCNamedPipes` |
| | `InstancesImplementReply`, `ThreadsImplementReply` | `Spec => InstancesReply`, `Spec => ThreadsReply`: the refinements of `RequestReply` |

`NamedPipeIpc_proofs` holds the lemmas that both types share, with `m_type` left
open: the calls on the pipe keep its types, the lists a message passes through,
the wakeup, and both ways of a message.

### The server and the client

None of the invariants is inductive alone. The strengthening is a conjunction of
named parts, the same for both types up to their program counters:

* `BuffersFull`: where a buffer or the popped message is about to be used as a
  message it holds one, also in a pending write of the other end. Without it the
  type of the lists is not inductive.
* `OneCallOfAKind`: connect and read are never outstanding together, an
  outstanding write implies `bWritting`, and where the worker handles a
  completion the operation is idle. It gives `NoOverlappedReuse`, and
  `BuffersFull` needs it when a buffer is cleared.
* `SomebodyLooks`: `NoLostWakeup` at every place of the worker and not only at
  its wait: a non-empty list implies the event, a `sendMsg` about to signal, a
  write under way, or a worker on its way to the list. The lock is not needed
  for it.
* `ReadState`: an outstanding read means a connected pipe with nothing to read; a
  failed one a peer that has gone; the read buffer is empty where a read is
  issued; and, for the client, nothing was written before the pipe was opened.
* `OnePlaceEach`: what the refinement needs. A popped message exists only where
  it is about to be written, an outstanding write has exactly one message in its
  buffer, so a message is in the queue or on the wire and never in both.

The types with `OneCallOfAKind` are proved first, the others relative to them.
For `InboundConserved` every step either leaves the four lists alone, ends the
connection, or is one of `getMsgs`, `handleReadData`, a `ReadFile` and the peer's
write, each of which has a lemma.

**The refinement.** `OutboundSafe` proves that the initial states map to those of
`MessageChannel` and that every step maps to one of its actions or to a stutter:
`sendMsgPush` is `Send`; `popMsg` is a stutter, since the queue is the popped
message followed by the list; `startWrite` is `Transmit`, or `Refuse` when
`WriteFile` fails at once; the peer's `TakeMsg` is `Deliver`; whatever breaks the
connection is `Lose`, by the lemma that each such call leaves the wire a proper
prefix of itself or as it was; the end of the process is `Abandon` when messages
are still queued. `DeliveredInOrder` then takes `ChannelOrder` through
`INSTANCE MessageChannel_proofs WITH` the same mapping, so the order of delivery
is proved once, of the abstract channel. The invariant there, `InOrder`, says that
delivered, wire and queue are each increasing, each before the next, and hold
only what was sent: a lost suffix of the wire leaves a gap but no disorder.

**`CloseSafe`.** The channel allows a loss at any moment; that a clean `close()` has none
needs `WholeWhileConnected`: while the pipe is connected the number of messages read, on
the wire and queued is the number sent. `ChannelStep` says for either type
that a refused write finds the pipe not connected and that a loss leaves it so, and
`ConnectsOnce` that only the client's `createFile`, before anything is sent, leads back.
When the worker closes the handle `flushAndClose` has seen the wire empty.

### `NamedPipeIpcLink`: two objects at the two ends

The theorems above have each end with a peer that may do at any moment whatever a peer
can do. `EndsSafe` has two objects of this code at the ends, client processes in turn,
and kills, and repeats no proof of either. `SP` and `CP` are the two proof modules
with the server's and the client's variables in place of theirs, and `LinkInv` is the
conjunction of `ServerInv` and `ClientInv`, the whole inductive invariant of
each. A step of one object keeps its own part by that module's `OwnStepsKeep`. For the
other part it is a call on the pipe that touches nothing but the pipe and what is
outstanding at the other end, which it only completes (`OnlyCompletes`), and
`ClientCallsKeep` and `ServerCallsKeep` show that harmless, from the pipe alone. So the
two assumptions, that the peer makes only the calls of its end, are discharged by the
peer's code. What has no counterpart in either module has a lemma here:
`StartClient` (a new process finds its object as at first), `KillClient`,
`KillServer`. The lemmas named `...Same` say that an action of `S` is that of `SP`.

`DirectionsSafe` follows a message to the other object's `readMsgsList`, where the
modules of one end stop at the pipe, and over as many client processes as there are.
`Way(e)` is what is on its way to end `e`: its read buffer, the pipe, the buffer of
the peer's pending write. Three facts are added to `LinkInv` (`WaysInv`): a
buffer holds a message only while that message is on its way there, and the pipe has
nothing for a client that has not opened it (`Settled`, `OwnBuffers`); and outside its
loop the client does not have the pipe open (`ClientOut`). Each call on the pipe has
one lemma about both ways, proved in `NamedPipeIpc_proofs` for either type: a read
moves a message from the pipe to the buffer and leaves the way as it is
(`ReadKeepsWays`), a write adds its message at the end (`WriteAddsToWay`), a break
leaves the front of each way (`BreakShortensWays`), and only the handler of a
completed read takes the first message, into the list (`ListingDelivers`). From them
`IpcBothWays` has every step of one object be, for the way out, `Send`, `Transmit`,
`Refuse`, `Lose` or a stutter, and for the way in `Deliver`, `Lose` or a stutter.
`startClient` is `Abandon` of what the last process had queued in one direction and
`Lose` of the message its buffer still held in the other. `DispatchedInOrder` takes
`ChannelOrder` through the mappings of both directions.

### `MCOverlapped`: two servers and a client with one pipe and one worker

The specification is that of the runs, so the theorems speak of every program of
`Demos`, for every quota and every bound. `IInv` has one part for each value of `demo`
(`ServerInv`, `ClientInv`, `IocpInv`, and `MultiInv`, of the next section), the first
three with `Common` in it: the pipe is
one that the calls of `MessagePipe` can leave behind (`PipeOK`: what lies beyond
the quota belongs to an outstanding write, a pending read has nothing to be read
and a failed one has left nothing, a connect and a read are never both under way),
and a write is outstanding only while `bWritting`. The calls on the pipe have one
lemma each, which the handlers of the three programs share. What each program adds:

* the server: where its worker is about to issue a connect or a read none is under
  way, and the read event is handled once (`ServerPlace`); and `SomebodyLooks`,
  `NoLostWakeup` at every place of the worker;
* the client: before the pipe is opened nothing was written and nothing queued can
  be under way (`NothingYet`), and no call is issued before the events exist
  (`ClientPlace`). Its inbound property is weaker than the servers': of what the
  server wrote a last part may be lost when the connection breaks, which
  `InboundBegun` says with the number that arrived;
* the server with a port: of the packet `"connect"` there is at most one, it is
  there or with the worker only once the connect has completed (`ConnectHeld`),
  and main starts the worker with nothing under way (`IocpPlace`).

`ReuseSafe`, `CarriedSafe` and `OutboundSafe` are about steps: `NextKeeps` proves
for each action that, from `IInv`, it keeps `IInv`, is a step or a stutter of
`MessageChannel`, and reuses nothing.

### `MCFiles`: `FileCopy` and the small programs

The theorems of `FileCopy`, `CreateProcessDemo` and `FileOverlapped` alone are about
their own specifications; `EachKeepsToItsSpec` proves that a behaviour of `AnySpec` is,
on the variables of each program, one of its `Spec`, and so carries them over.

**`FileCopy`.** `CountInv` is `TypeOK`, `OneIoPerRequest`, `CountersAgree` and
`QuietOutsideLoop`. That two completions cannot be confused needs the packets of
the port to be distinct, which is why `OneIoPerRequest` has four parts; the
counters are cardinalities, and each step adds or takes one element.
`BuffersSafe` follows: the loop ends when both counters are zero, hence `Pending`
is empty. `CopyInv` adds, while no fault has happened, that no two requests carry
the same block, that a buffer to be written holds the source's block, and that
every unit below the next offset is in its place or with a request; and, in any
case, that the offsets fit the rounded size. When the loop ends nothing is
carried, so the destination is the source up to the rounding, which the last step
cuts off.

**`CreateProcessDemo`.** `EchoHolds` follows the file through both processes: while
the child copies, what is printed, in `stdout`, in the child's buffer, in `stdin`,
in the parent's buffer and unread in the file are together the units of the file in
order; the greeting follows only after all of them. This needs `BuffersFit`: a buffer
that is being written is not empty and one that is to be filled is, and the parent
closes its end of `stdin` only with the whole file read and written, as long as the
child lives. A killed child leaves the front of an echo. `FlowSafe` is arithmetic on
top of it: with both pipes full and both buffers in use more than
`2 * Quota + 1` units are on their way.

**`FileOverlapped`.** `OverlappedInv`: neither operation is begun twice, an event that
is set says that its operation is done and was not looked at, and what is noted of
the read is the length of what it took. `EventsSafe` is one conjunct of `ProgramsEnd`
that needs no fairness.

**`SharedMemory`.** `SharedInv`: each character of the mapping is 0 or the text's; it
holds the whole text from when B has found A asleep for as long as B has it, even if
A ends or is run again; what B has copied is the beginning of the text, and it does
not stop before its end.

**`AnonymousPipes`.** Its part of `Inv` is made inductive by `AnonPlaces` (what the
places of the threads say of events and buffers: they exist before the loop, a message
is there to be written) and `AnonTold` (the wakeup from the moment the list was taken,
and not only at the wait).

### `MCNamedPipes`: request and reply, and words over two pipes

`AllInv` is the conjunction of one invariant for each program. All variables of an
instance change together, so the two servers' are stated of an instance's record and
the server's own variables as operators (`InstOK`, `MainOK`, `PlaceOK`); each call on
a pipe has a lemma that gives the new record field by field.

**`PipeInstServer`.** `Role(k)` is what the one thread has still to do with instance
`k`, which is all that its place says about that instance. `InstOK` then has one case
for each `dwState`: which operation is the only one under way, that a result which is
pending tells whether the client is there, and that `chRequest` is empty but between
the read and the write of a reply. That no reply goes to the next client needs
`Holds`: an instance that listens or is closed holds nothing of the last one. A step
of the thread or of a client is, for the instance it touches, a step of
`RequestReply` (`InstStep`), and a stutter for the others: `readRequest` is `Take`,
`writeReply` is `Answer`, a disconnect is `HangUp`, allowed because a failed or empty read
says that the client has left or has asked nothing.

**`MultithreadedServer`.** Here the main thread, one thread for each instance and
the client processes share the instances. `MainOK` and `PlaceOK` say what the place of
each means for its instance, `ClientInv` that an instance has one client ever, and
that a client that may ask has read its last reply, hence `AtMostOne` request is
waiting, taken or answered.

**`TwoPipes`.** What has to be shown is that A finds where each of B's words begins,
although two words may lie in the pipe, a read may take fewer units than it asks for
and a write may be cancelled halfway. `Framed` keeps it: there are positions `start`,
as many units apart as the words are long with the one unit before each (its size, or
the beginning of the message), such that the pipe holds
what B has written from some unit on, and A's reader is at the start of a word, or
behind its size and knows it (a message is read by both steps at once); the words between the one printed last and that word are
empty ones. B's last write may be cancelled when a part of it has been read, and then A
waits in the middle of a word for units that never come: `TwoFraming` therefore demands
`Framed` until B has ended and nothing is left in the pipe. `TwoWhole` is
`WordsArriveWhole`. In the other direction `NothingLostToB` is inductive with
`TwoPlaces`, what the places of the threads say of the pipes.

### `IocpServerMulti`, in `MCOverlapped_proofs`

`MultiInv` is `Types`, `Tokens` and `Conserved`; the other programs leave the fourth's
variables alone, so it is proved beside their invariants. Workers of one port take each other's packets, and only one thing keeps two of
them from handling reads of one instance at once: the right to issue its connect
or its read is a token. A call that pends puts it into the operation, the
completion into a packet, `getStatus` into a worker, and the worker's handler
issues the next call. `OneHolder` is `OneIssuer` without counting, which induction
needs; `ReadHeld` says that a completed read is in a packet or with a worker, so
that where a connect is handled no read is left over; `Untouched` that main
connects only instances nobody holds yet; `InstPipeOK` that a pending read has nothing
to be read and a failed one has left nothing. Calls come in two kinds: `InstPassive`
ones (writes, closes, all that a client does) can only complete what pends, and
move the token from an operation to its packet; the others are made by the holder
alone. `InboundConserved` holds relative to that, since only the holder moves a
message from the buffer to the list.

### Only model-checked

Every invariant and action property of the runs is stated by a theorem, and so is
every refinement. What is left is liveness under fairness, which is beyond the prover,
and so is `ENABLED`: the liveness properties of section 3 are checked by the runs only.

## 7. Not modelled

* The dialog of `FileCopy`, the book's headers, resources and build files: no
  state of the programs depends on them.
* The effect of the race on `std::list` nodes in
  `servernamedpipeiocpmulthread`: its lists are modelled at the level of `front`
  and `pop_front`; what two unsynchronised calls can do to the nodes is undefined
  and would make every property of that list void.
* `WaitForMultipleObjects` on more handles than the array holds
  (`servernamedpipeiocpmulthread/main.cpp:129`): the wait may return at once, which
  `returnFromMain` allows.
* Unbounded growth of the send lists and of a line in `main`: the code states no
  bound; the models cap them by `MaxSend` and its likes.
* A run with several instances of `servernamedpipeiocpmulthread`: the module has
  them as a parameter and its safety is proved for every number; liveness and the
  comment the code does not keep are checked with one.
