------------------------------- MODULE MCFiles -------------------------------
(***************************************************************************)
(* The programs that carry the contents of a file, a text or lines without *)
(* a named pipe, for TLC: FileCopy, CreateProcessDemo, FileOverlapped,     *)
(* SharedMemory and AnonymousPipes, one at a time.  The one that runs is   *)
(* chosen at the beginning, the variables of the others keep their first   *)
(* values.                                                                 *)
(***************************************************************************)
EXTENDS FileCopy

\* The constants of the others, as their modules describe them.
CONSTANTS
    Quota, BUFSIZE, MaxFile,        \* CreateProcessDemo's
    WriteLen, ReadLen,              \* FileOverlapped's
    TextLen, BufLen, MaxRuns,       \* SharedMemory's
    PipeQuota, MaxLines, MaxChildMsgs, MaxMsgs, Killable    \* AnonymousPipes'

VARIABLES
    demo,       \* which program it is
    \* CreateProcessDemo's
    size, filePos, parentPc, childPc, parentBuf, childBuf, stdin, stdout, stdinWr, stdoutRd,
    stdinRd, stdoutWr, printed,
    \* FileOverlapped's
    foPc, file, readBuff, io, hEvent, InternalHigh, writeDone, readDone, cbToWrite, cbRead,
    \* SharedMemory's
    mem, a, b, aPos, szBuffer, whole, runs,
    \* AnonymousPipes'
    pipe, wr, rd, mainPc, readPc, writePc, writeMsgsList, tempList, readMsgsList, created,
    exit, notEmpty, g_mainThreadStop, g_bWriteThreadStop, sent, dispatched

Created == INSTANCE CreateProcessDemo
Overlapped == INSTANCE FileOverlapped WITH pc <- foPc
Shared == INSTANCE SharedMemory
Anon == INSTANCE AnonymousPipes WITH Quota <- PipeQuota

ASSUME FilesAssumption ==
    /\ Created!CreateProcessAssumption
    /\ Overlapped!FileOverlappedAssumption
    /\ Shared!SharedMemoryAssumption
    /\ Anon!PipesAssumption
    /\ 0 \in Sizes

copyVars ==
    <<liFileSizeSrc, dst, pc, nReadsInProgress, nWritesInProgress, liNextReadOffset, offset,
      data, disk, port, refused, bOk, faults>>
createdVars ==
    <<size, filePos, parentPc, childPc, parentBuf, childBuf, stdin, stdout, stdinWr, stdoutRd,
      stdinRd, stdoutWr, printed>>
overlappedVars ==
    <<foPc, file, readBuff, io, hEvent, InternalHigh, writeDone, readDone, cbToWrite,
      cbRead>>
sharedVars == <<mem, a, b, aPos, szBuffer, whole, runs>>
anonVars ==
    <<pipe, wr, rd, mainPc, readPc, writePc, writeMsgsList, tempList, readMsgsList, created,
      exit, notEmpty, g_mainThreadStop, g_bWriteThreadStop, sent, dispatched>>
anyVars == <<demo, copyVars, createdVars, overlappedVars, sharedVars, anonVars>>

AnyInit ==
    /\ demo \in {"copy", "created", "overlapped", "shared", "anonymous"}
    /\ Init /\ (demo # "copy" => liFileSizeSrc = 0)
    /\ Created!Init /\ (demo # "created" => size = 0)
    /\ Overlapped!Init
    /\ Shared!Init
    /\ Anon!Init

\* A step of one of the programs.
OfCopy(A) ==
    /\ demo = "copy" /\ A
    /\ UNCHANGED <<demo, createdVars, overlappedVars, sharedVars, anonVars>>
OfCreated(A) ==
    /\ demo = "created" /\ A
    /\ UNCHANGED <<demo, copyVars, overlappedVars, sharedVars, anonVars>>
OfOverlapped(A) ==
    /\ demo = "overlapped" /\ A
    /\ UNCHANGED <<demo, copyVars, createdVars, sharedVars, anonVars>>
OfShared(A) ==
    /\ demo = "shared" /\ A
    /\ UNCHANGED <<demo, copyVars, createdVars, overlappedVars, anonVars>>
OfAnon(A) ==
    /\ demo = "anonymous" /\ A
    /\ UNCHANGED <<demo, copyVars, createdVars, overlappedVars, sharedVars>>

AnyNext ==
    \/ OfCopy(Next) \/ OfCreated(Created!Next)
    \/ OfOverlapped(Overlapped!Next) \/ OfShared(Shared!Next) \/ OfAnon(Anon!Next)

\* Each program's fairness, as its module states it.  Since one runs, the fairness of
\* an action of each of the first three is that of their disjunction.
Fairness ==
    /\ WF_anyVars(OfCopy(Thread) \/ OfCreated(Created!Parent) \/ OfOverlapped(Overlapped!Main))
    /\ WF_anyVars(OfCopy(Disk) \/ OfCreated(Created!Child) \/ OfOverlapped(Overlapped!Disk))
    /\ \A p \in Anon!Process :
          /\ WF_anonVars(demo = "anonymous" /\ Anon!MainThread(p))
          /\ WF_anonVars(demo = "anonymous" /\ Anon!ReadThread(p))
          /\ WF_anonVars(demo = "anonymous" /\ Anon!WriteThread(p))

AnySpec == AnyInit /\ [][AnyNext]_anyVars /\ Fairness

-----------------------------------------------------------------------------
\* Properties, besides those of FileCopy

AnyTypeOK ==
    TypeOK /\ Created!TypeOK /\ Overlapped!TypeOK /\ Shared!TypeOK /\ Anon!TypeOK

\* createprocessdemo: nothing of the file is lost, doubled or reordered on its way
\* through both processes and both pipes, and what the parent prints is the file.
FileIsEchoed == Created!EchoConserved /\ Created!PrintedIsEcho

\* fileoverlapped: whatever part of the file the read met, what is reported of it is
\* what is in the buffer.  sharememorydemo: B prints all of the text if A had written it.
TextIsRead == Overlapped!ReadIsReported /\ Shared!WholeIfAFirst

\* AnonymousPipesDemo: while both ends of a pipe are open nothing that was queued is
\* lost, doubled or reordered, and no write thread sleeps on a list that is not empty.
LinesArrive == Anon!MsgsConserved /\ Anon!NoLostWakeup

\* What the programs carry arrives as it was, and every variable keeps its type.
Inv == AnyTypeOK /\ FileIsEchoed /\ TextIsRead /\ LinesArrive

\* createprocessdemo: with a file that fits in both pipes and one unit of the child's
\* buffer the two never wait for each other.
SmallFileFlows == Created!SmallFileFlows

\* The program that runs has to end, or to notice that its other process has ended.
MayEnd ==
    \/ demo \in {"copy", "overlapped"}
    \/ demo = "created" /\ size <= 2 * Quota + 1
    \/ demo = "anonymous" /\ mainPc["child"] = "returned"

HasEnded ==
    \/ demo = "copy" /\ (pc = "returned" \/ refused # {})
    \/ demo = "created" /\ parentPc = "exited"
    \/ demo = "overlapped" /\ foPc = "left"
    \/ demo = "anonymous" /\ Anon!ParentNotices

\* FileCopy returns, unless an operation was refused: then it waits for a packet that
\* does not come.  createprocessdemo: copying a file of 2 * Quota + 1 units, the parent
\* ends, also if the child is killed at any point.  fileoverlapped: the loop is left,
\* also when no event comes, with no event set that it has not looked at.
\* AnonymousPipesDemo: once the child's main has returned the parent notices.
ProgramsEnd == (MayEnd ~> HasEnded) /\ Overlapped!LeavesNoEventSet

\* AnonymousPipesDemo: "exit" and "childexit" in the parent end the child's read thread.
ExitEndsChildsReader == Anon!ExitEndsChildsReader
=============================================================================
