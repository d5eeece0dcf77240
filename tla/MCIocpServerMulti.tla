------------------------- MODULE MCIocpServerMulti --------------------------
(***************************************************************************)
(* What the comments of servernamedpipeiocpmulthread say and it does not   *)
(* do, on the model IocpServerMulti.                                       *)
(***************************************************************************)
EXTENDS IocpServerMulti

\* main.cpp:264 and 338: when nothing is being sent, sending is triggered.  So
\* WriteFile is not called while a write of that instance is outstanding.  The
\* worker with the last completion clears bWritting (:322) and then takes the front
\* of the list under another lock (:341), the one with a not-empty packet tests
\* both in between (:261).
SendsWhenNothingIsSent ==
    \A w \in Worker : workerPc[w] = "writeFile" => pipe[inst[w]].write # "pending"
=============================================================================
