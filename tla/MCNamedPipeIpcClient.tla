------------------------ MODULE MCNamedPipeIpcClient ------------------------
(***************************************************************************)
(* What the README of namedpipeipc says of its worker threads and the      *)
(* client does not do, checked by a run that must find it violated.        *)
(***************************************************************************)
EXTENDS NamedPipeIpcClient

\* README.md:210: the loop runs until the exit event, or until an I/O error
\* occurs.  So a client whose server has closed the pipe ends its worker.
LostServerEndsWorker ==
    pipeState = "serverClosed" /\ workerPc # "none" ~> workerPc = "exited"
=============================================================================
