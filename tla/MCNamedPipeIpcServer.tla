------------------------ MODULE MCNamedPipeIpcServer ------------------------
(***************************************************************************)
(* What the comments and the README of namedpipeipc say of its server and  *)
(* the program does not do: each is checked by a run that must find it     *)
(* violated.                                                               *)
(***************************************************************************)
EXTENDS NamedPipeIpcServer

\* README.md:113: the main thread only queues a message, the worker thread
\* reads the send queue; namepipeipc.cpp:424: when nothing is being sent,
\* sending is triggered.  So a worker at rest with no write outstanding or
\* completed has nothing queued, or has a wakeup coming.
QueuedIsSent ==
    workerPc = "wait" /\ writeOp["server"] = "idle" /\ writeMsgsList # <<>>
        => notEmptyEvent \/ mainPc = "signal"

\* namepipeipc.cpp:342 and 348: when a read fails the client is disconnected
\* and a new connection awaited.  So a client that closed before the worker,
\* having listed its message, reads again (the call at :365) is replaced.
ClosedClientIsReplaced ==
    workerPc = "rearm" /\ pipeState = "clientClosed"
        ~> (pipeState = "listening" \/ workerPc = "exited")
=============================================================================
