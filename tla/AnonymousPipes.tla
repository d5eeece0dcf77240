--------------------------- MODULE AnonymousPipes ---------------------------
(***************************************************************************)
(* AnonymousPipesDemo: a parent and its child process with two anonymous   *)
(* pipes between them.  Each process has a main thread, a thread that      *)
(* reads one pipe and a thread that writes the other; main queues messages *)
(* for the write thread and takes what the read thread has listed.  Either *)
(* process can be ended from outside.                                      *)
(*                                                                         *)
(* The two processes' threads differ in what they do at the end.  pipe[p]  *)
(* is what p has written and the other has not read; a read takes all of   *)
(* it.  The pipes are synchronous: CloseHandle and FlushFileBuffers wait   *)
(* for a call of another thread on the same handle.  The child's handling  *)
(* of a message "childexit" is left out: the parent never sends it.        *)
(***************************************************************************)
EXTENDS Naturals, Sequences

CONSTANTS
    Quota,          \* messages a pipe holds before a write blocks
    MaxLines,       \* bound on the lines queued in the parent
    MaxChildMsgs,   \* bound on the messages of the child, its greeting counted
    MaxMsgs,        \* bound on the messages of both
    Killable        \* the processes that may be ended from outside

Process == {"parent", "child"}
Other(p) == IF p = "parent" THEN "child" ELSE "parent"

\* Assumed by the module that takes the constants.
PipesAssumption ==
    /\ Quota \in Nat \ {0} /\ MaxLines \in Nat /\ MaxChildMsgs \in Nat /\ MaxMsgs \in Nat
    /\ Killable \subseteq Process

VARIABLES
    pipe,           \* pipe[p]: written by p, not yet read
    wr, rd,         \* wr[p], rd[p]: p's end for writing, for reading is open
    mainPc, readPc, writePc,    \* where the threads of p are
    writeMsgsList,  \* writeMsgsList[p]: queued by main
    tempList,       \* tempList[p]: taken from it by the write thread
    readMsgsList,   \* readMsgsList[p]: received and not yet dispatched
    created,        \* created[p]: how many of events[0], events[1] exist
    exit, notEmpty, \* events[0], events[1] are set
    g_mainThreadStop, g_bWriteThreadStop,
    sent, dispatched            \* history: messages queued, messages dispatched

pipeVars == <<pipe, wr, rd>>
pcVars == <<mainPc, readPc, writePc>>
listVars == <<writeMsgsList, tempList, readMsgsList>>
eventVars == <<created, exit, notEmpty>>
stopVars == <<g_mainThreadStop, g_bWriteThreadStop>>
historyVars == <<sent, dispatched>>
vars == <<pipeVars, pcVars, listVars, eventVars, stopVars, historyVars>>

TypeOK ==
    /\ pipe \in [Process -> Seq(Nat)]
    /\ wr \in [Process -> BOOLEAN] /\ rd \in [Process -> BOOLEAN]
    /\ mainPc \in [Process -> {"start", "loop", "input", "signal", "dispatch", "flush",
                               "closeWr", "setExit", "closeRd", "join", "returned"}]
    /\ readPc \in [Process -> {"none", "read", "reading", "exited"}]
    /\ writePc \in [Process -> {"none", "create", "take", "write", "writing", "wait",
                                "reset", "exited"}]
    /\ writeMsgsList \in [Process -> Seq(Nat)] /\ tempList \in [Process -> Seq(Nat)]
    /\ readMsgsList \in [Process -> Seq(Nat)]
    /\ created \in [Process -> 0 .. 2]
    /\ exit \in [Process -> BOOLEAN] /\ notEmpty \in [Process -> BOOLEAN]
    /\ g_mainThreadStop \in [Process -> BOOLEAN]
    /\ g_bWriteThreadStop \in [Process -> BOOLEAN]
    /\ sent \in [Process -> Nat] /\ dispatched \in [Process -> Seq(Nat)]

\* The parent has created the pipes and the child and closed the child's ends.
Init ==
    /\ pipe = [p \in Process |-> <<>>]
    /\ wr = [p \in Process |-> TRUE] /\ rd = [p \in Process |-> TRUE]
    /\ mainPc = [p \in Process |-> "start"]
    /\ readPc = [p \in Process |-> "none"] /\ writePc = [p \in Process |-> "none"]
    /\ writeMsgsList = [p \in Process |-> <<>>] /\ tempList = [p \in Process |-> <<>>]
    /\ readMsgsList = [p \in Process |-> <<>>]
    /\ created = [p \in Process |-> 0]
    /\ exit = [p \in Process |-> FALSE] /\ notEmpty = [p \in Process |-> FALSE]
    /\ g_mainThreadStop = [p \in Process |-> FALSE]
    /\ g_bWriteThreadStop = [p \in Process |-> FALSE]
    /\ sent = [p \in Process |-> 0] /\ dispatched = [p \in Process |-> <<>>]

\* Process p may queue one more.
MaySend(p) ==
    /\ sent[p] < (IF p = "parent" THEN MaxLines ELSE MaxChildMsgs)
    /\ sent["parent"] + sent["child"] < MaxMsgs

Goes(pc, p, to) == pc' = [pc EXCEPT ![p] = to]

-----------------------------------------------------------------------------
\* The main thread of process p

\* The child writes a greeting; then, as in the parent, the threads start.
startThreads(p) ==
    /\ mainPc[p] = "start"
    /\ IF p = "child"
       THEN /\ sent' = [sent EXCEPT ![p] = 1]
            /\ pipe' = IF rd["parent"] THEN [pipe EXCEPT ![p] = <<1>>] ELSE pipe
       ELSE UNCHANGED <<pipe, sent>>
    /\ Goes(mainPc, p, "loop") /\ Goes(readPc, p, "read") /\ Goes(writePc, p, "create")
    /\ UNCHANGED <<wr, rd, listVars, eventVars, stopVars, dispatched>>

\* The test of the loop; the parent then waits for a line.
testStop(p) ==
    /\ mainPc[p] = "loop"
    /\ Goes(mainPc, p, IF g_mainThreadStop[p] THEN "join" ELSE "input")
    /\ UNCHANGED <<pipeVars, readPc, writePc, listVars, eventVars, stopVars, historyVars>>

\* A line, or the child's message of every second, is queued ...
pushMsg(p) ==
    /\ mainPc[p] = "input" /\ MaySend(p)
    /\ writeMsgsList' = [writeMsgsList EXCEPT ![p] = Append(@, sent[p] + 1)]
    /\ sent' = [sent EXCEPT ![p] = @ + 1]
    /\ Goes(mainPc, p, IF writeMsgsList[p] = <<>> THEN "signal" ELSE "dispatch")
    /\ UNCHANGED <<pipeVars, readPc, writePc, tempList, readMsgsList, eventVars, stopVars,
                   dispatched>>

\* At the bound the child's message is left out and its signal is not.
pushNothing ==
    /\ mainPc["child"] = "input" /\ ~MaySend("child")
    /\ Goes(mainPc, "child", IF writeMsgsList["child"] = <<>> THEN "signal" ELSE "dispatch")
    /\ UNCHANGED <<pipeVars, readPc, writePc, listVars, eventVars, stopVars, historyVars>>

\* ... and the first one signalled; events[1] is NULL until it is created.
setNotEmpty(p) ==
    /\ mainPc[p] = "signal"
    /\ notEmpty' = [notEmpty EXCEPT ![p] = @ \/ created[p] = 2]
    /\ Goes(mainPc, p, "dispatch")
    /\ UNCHANGED <<pipeVars, readPc, writePc, listVars, created, exit, stopVars, historyVars>>

dispatchMsgs(p) ==
    /\ mainPc[p] = "dispatch"
    /\ dispatched' = [dispatched EXCEPT ![p] = @ \o readMsgsList[p]]
    /\ readMsgsList' = [readMsgsList EXCEPT ![p] = <<>>]
    /\ Goes(mainPc, p, "loop")
    /\ UNCHANGED <<pipeVars, readPc, writePc, writeMsgsList, tempList, eventVars, stopVars, sent>>

\* The parent's lines "exit", which closes both ends, and "childexit", which
\* flushes and closes the end for writing.
exitLine ==
    /\ mainPc["parent"] = "input"
    /\ Goes(mainPc, "parent", "closeWr") \/ Goes(mainPc, "parent", "flush")
    /\ UNCHANGED <<pipeVars, readPc, writePc, listVars, eventVars, stopVars, historyVars>>

flushWr ==
    /\ mainPc["parent"] = "flush" /\ writePc["parent"] # "writing"
    /\ pipe["parent"] = <<>> \/ ~rd["child"]
    /\ wr' = [wr EXCEPT !["parent"] = FALSE]
    /\ exit' = [exit EXCEPT !["parent"] = created["parent"] >= 1]
    /\ Goes(mainPc, "parent", "join")
    /\ UNCHANGED <<pipe, rd, readPc, writePc, listVars, created, notEmpty, stopVars, historyVars>>

\* Mutant: the end for writing stays open.
closeWrForgotten ==
    /\ mainPc["parent"] = "closeWr" /\ writePc["parent"] # "writing"
    /\ exit' = [exit EXCEPT !["parent"] = created["parent"] >= 1]
    /\ Goes(mainPc, "parent", "closeRd")
    /\ UNCHANGED <<pipe, rd, wr, readPc, writePc, listVars, created, notEmpty, stopVars,
                   historyVars>>

closeWr ==
    /\ mainPc["parent"] = "closeWr" /\ writePc["parent"] # "writing"
    /\ wr' = [wr EXCEPT !["parent"] = FALSE]
    /\ exit' = [exit EXCEPT !["parent"] = created["parent"] >= 1]
    /\ Goes(mainPc, "parent", "closeRd")
    /\ UNCHANGED <<pipe, rd, readPc, writePc, listVars, created, notEmpty, stopVars, historyVars>>

closeRd ==
    /\ mainPc["parent"] = "closeRd" /\ readPc["parent"] # "reading"
    /\ rd' = [rd EXCEPT !["parent"] = FALSE]
    /\ pipe' = [pipe EXCEPT !["child"] = <<>>]
    /\ Goes(mainPc, "parent", "join")
    /\ UNCHANGED <<wr, readPc, writePc, listVars, eventVars, stopVars, historyVars>>

\* The process ends: what it wrote can still be read, what it has not is gone.
EndProcess(p) ==
    /\ Goes(mainPc, p, "returned") /\ Goes(readPc, p, "exited") /\ Goes(writePc, p, "exited")
    /\ wr' = [wr EXCEPT ![p] = FALSE] /\ rd' = [rd EXCEPT ![p] = FALSE]
    /\ pipe' = [pipe EXCEPT ![Other(p)] = <<>>]
    /\ UNCHANGED <<listVars, eventVars, stopVars, historyVars>>

\* main waits for both threads, the parent 5 s for each, the child 5000 s, a
\* timeout that counts as never.
returnFromMain(p) ==
    /\ mainPc[p] = "join"
    /\ p = "parent" \/ (readPc[p] = "exited" /\ writePc[p] = "exited")
    /\ EndProcess(p)

kill(p) == p \in Killable /\ mainPc[p] # "returned" /\ EndProcess(p)

-----------------------------------------------------------------------------
\* The read thread of process p

ReadFile(p) ==
    /\ readPc[p] = "read" /\ rd[p]
    /\ Goes(readPc, p, "reading")
    /\ UNCHANGED <<pipeVars, mainPc, writePc, listVars, eventVars, stopVars, historyVars>>

readMsgs(p) ==
    /\ readPc[p] = "reading" /\ pipe[Other(p)] # <<>>
    /\ readMsgsList' = [readMsgsList EXCEPT ![p] = @ \o pipe[Other(p)]]
    /\ pipe' = [pipe EXCEPT ![Other(p)] = <<>>]
    /\ Goes(readPc, p, "read")
    /\ UNCHANGED <<wr, rd, mainPc, writePc, writeMsgsList, tempList, eventVars, stopVars,
                   historyVars>>

\* No handle for writing is left: the parent has closed the child's ends.
WriterGone(p) == ~wr[Other(p)]

\* The read fails, by the other's end or after this end was closed.
readFails(p) ==
    /\ \/ readPc[p] = "reading" /\ pipe[Other(p)] = <<>> /\ WriterGone(p)
       \/ readPc[p] = "read" /\ ~rd[p]
    /\ Goes(readPc, p, "exited")
    /\ g_mainThreadStop' = [g_mainThreadStop EXCEPT ![p] = TRUE]
    /\ g_bWriteThreadStop' = [g_bWriteThreadStop EXCEPT ![p] = @ \/ p = "child"]
    /\ UNCHANGED <<pipeVars, mainPc, writePc, listVars, eventVars, historyVars>>

-----------------------------------------------------------------------------
\* The write thread of process p

createEvent(p) ==
    /\ writePc[p] = "create"
    /\ created' = [created EXCEPT ![p] = @ + 1]
    /\ Goes(writePc, p, IF created[p] = 0 THEN "create" ELSE "take")
    /\ UNCHANGED <<pipeVars, mainPc, readPc, listVars, exit, notEmpty, stopVars, historyVars>>

\* The head of the loop: the child's tests its flag; the list is taken whole.
takeList(p) ==
    /\ writePc[p] = "take" /\ ~g_bWriteThreadStop[p]
    /\ tempList' = [tempList EXCEPT ![p] = @ \o writeMsgsList[p]]
    /\ writeMsgsList' = [writeMsgsList EXCEPT ![p] = <<>>]
    /\ Goes(writePc, p, "write")
    /\ UNCHANGED <<pipeVars, mainPc, readPc, readMsgsList, eventVars, stopVars, historyVars>>

writeStopped(p) ==
    /\ writePc[p] = "take" /\ g_bWriteThreadStop[p]
    /\ Goes(writePc, p, "exited")
    /\ UNCHANGED <<pipeVars, mainPc, readPc, listVars, eventVars, stopVars, historyVars>>

\* WriteFile of the oldest message, or nothing is left to write.
WriteFile(p) ==
    /\ writePc[p] = "write" /\ (tempList[p] # <<>> => wr[p] /\ rd[Other(p)])
    /\ Goes(writePc, p, IF tempList[p] = <<>> THEN "wait" ELSE "writing")
    /\ UNCHANGED <<pipeVars, mainPc, readPc, listVars, eventVars, stopVars, historyVars>>

written(p) ==
    /\ writePc[p] = "writing" /\ rd[Other(p)] /\ Len(pipe[p]) < Quota
    /\ pipe' = [pipe EXCEPT ![p] = Append(@, Head(tempList[p]))]
    /\ tempList' = [tempList EXCEPT ![p] = Tail(@)]
    /\ Goes(writePc, p, "write")
    /\ UNCHANGED <<wr, rd, mainPc, readPc, writeMsgsList, readMsgsList, eventVars, stopVars,
                   historyVars>>

\* The other's end or this one is closed: the parent's main is to stop, in the
\* child only this thread.
writeFails(p) ==
    /\ writePc[p] \in {"write", "writing"} /\ tempList[p] # <<>>
    /\ ~wr[p] \/ ~rd[Other(p)]
    /\ Goes(writePc, p, "exited")
    /\ g_mainThreadStop' = [g_mainThreadStop EXCEPT ![p] = @ \/ p = "parent"]
    /\ g_bWriteThreadStop' = [g_bWriteThreadStop EXCEPT ![p] = @ \/ p = "child"]
    /\ UNCHANGED <<pipeVars, mainPc, readPc, listVars, eventVars, historyVars>>

\* WaitForMultipleObjects: the exit event, which only the parent's main sets ...
waitExit(p) ==
    /\ writePc[p] = "wait" /\ exit[p]
    /\ exit' = [exit EXCEPT ![p] = FALSE]
    /\ Goes(writePc, p, "exited")
    /\ UNCHANGED <<pipeVars, mainPc, readPc, listVars, created, notEmpty, stopVars, historyVars>>

\* ... or the list is not empty,
waitNotEmpty(p) ==
    /\ writePc[p] = "wait" /\ ~exit[p] /\ notEmpty[p]
    /\ Goes(writePc, p, "reset")
    /\ UNCHANGED <<pipeVars, mainPc, readPc, listVars, eventVars, stopVars, historyVars>>

\* Mutant: the list is taken before the event is reset.
resetNotEmptyLate(p) ==
    /\ writePc[p] = "reset"
    /\ notEmpty' = [notEmpty EXCEPT ![p] = FALSE]
    /\ Goes(writePc, p, IF writeMsgsList[p] = <<>> THEN "take" ELSE "wait")
    /\ UNCHANGED <<pipeVars, mainPc, readPc, listVars, created, exit, stopVars, historyVars>>

\* and the manual-reset event is reset by hand.
resetNotEmpty(p) ==
    /\ writePc[p] = "reset"
    /\ notEmpty' = [notEmpty EXCEPT ![p] = FALSE]
    /\ Goes(writePc, p, "take")
    /\ UNCHANGED <<pipeVars, mainPc, readPc, listVars, created, exit, stopVars, historyVars>>

-----------------------------------------------------------------------------
Main(p) ==
    startThreads(p) \/ testStop(p) \/ setNotEmpty(p) \/ dispatchMsgs(p) \/ returnFromMain(p)

ParentMain == flushWr \/ closeWr \/ closeRd

\* What main does without its user: the child's queues a message each second.
MainThread(p) ==
    \/ Main(p)
    \/ p = "parent" /\ ParentMain
    \/ p = "child" /\ (pushMsg(p) \/ pushNothing)

ReadThread(p) == ReadFile(p) \/ readMsgs(p) \/ readFails(p)

WriteThread(p) ==
    createEvent(p) \/ takeList(p) \/ writeStopped(p) \/ WriteFile(p) \/ written(p)
    \/ writeFails(p) \/ waitExit(p) \/ waitNotEmpty(p) \/ resetNotEmpty(p)

Next ==
    \/ \E p \in Process : MainThread(p) \/ ReadThread(p) \/ WriteThread(p) \/ kill(p)
    \/ pushMsg("parent") \/ exitLine

Spec == Init /\ [][Next]_vars

\* Every thread is scheduled and the child's Sleep ends; nothing obliges the user.
FairSpec ==
    /\ Spec
    /\ \A p \in Process :
          WF_vars(MainThread(p)) /\ WF_vars(ReadThread(p)) /\ WF_vars(WriteThread(p))

-----------------------------------------------------------------------------
\* Properties

\* While both ends of a pipe are open, what a process queued is dispatched,
\* received, in the pipe, taken or still queued by the other, in that order.
MsgsConserved ==
    \A p \in Process :
        wr[p] /\ rd[Other(p)] =>
            dispatched[Other(p)] \o readMsgsList[Other(p)] \o pipe[p] \o tempList[p]
                \o writeMsgsList[p] = [k \in 1 .. sent[p] |-> k]

\* The write thread never sleeps on a list nobody will tell it of, also when
\* the events were not there yet when main set them.
NoLostWakeup ==
    \A p \in Process :
        writePc[p] = "wait" /\ writeMsgsList[p] # <<>>
            => notEmpty[p] \/ exit[p] \/ mainPc[p] \in {"signal", "returned"}

\* "exit" and "childexit" make the child's read thread end, whatever the parent's
\* other threads are doing with the pipes.
ExitEndsChildsReader ==
    mainPc["parent"] \in {"closeWr", "flush"} ~> readPc["child"] = "exited"

\* What the end of the child, by itself or from outside, leads to: the parent's read
\* thread has ended and its main stops at the next line.
ParentNotices ==
    /\ readPc["parent"] = "exited"
    /\ g_mainThreadStop["parent"] \/ mainPc["parent"] = "returned"
=============================================================================
