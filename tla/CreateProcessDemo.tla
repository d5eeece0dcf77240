------------------------- MODULE CreateProcessDemo --------------------------
(***************************************************************************)
(* createprocessdemo: the parent writes a file into the standard input of  *)
(* a child process, closes it, and then prints what the child has written  *)
(* to its standard output; the child copies its input to its output.  Both *)
(* pipes are synchronous and hold little.                                  *)
(*                                                                         *)
(* A file is a sequence of numbered units.  A write of several units goes  *)
(* on unit by unit as there is room; a read takes what there is, at most   *)
(* BUFSIZE.  The child's printf stays in its runtime's buffer, its output  *)
(* being a pipe, until it exits: it is the unit Greeting.  The parent's    *)
(* own output is never full.  The child can be ended from outside.         *)
(***************************************************************************)
EXTENDS Naturals, Sequences

CONSTANTS
    Quota,      \* units a pipe holds
    BUFSIZE,    \* units of a buffer
    MaxFile     \* bound on the units of the file

\* What the constants are, assumed by MCFiles.
CreateProcessAssumption ==
    Quota \in Nat \ {0} /\ BUFSIZE \in Nat \ {0} /\ MaxFile \in Nat

Greeting == 0

VARIABLES
    size,               \* the units of the input file
    filePos,            \* how many of them the parent has read
    parentPc, childPc,  \* where the two are
    parentBuf, childBuf,        \* read and not yet written
    stdin, stdout,      \* the two pipes
    stdinWr, stdoutRd,  \* the parent's ends are open
    stdinRd, stdoutWr,  \* the child's ends are open
    printed             \* history: what the parent has printed

pipeVars == <<stdin, stdout, stdinWr, stdoutRd, stdinRd, stdoutWr>>
vars == <<size, filePos, parentPc, childPc, parentBuf, childBuf, pipeVars, printed>>

TypeOK ==
    /\ size \in Nat /\ filePos \in 0 .. size
    /\ parentPc \in {"readFile", "writePipe", "closePipe", "readPipe", "print", "exited"}
    /\ childPc \in {"created", "read", "write", "flush", "exited"}
    /\ parentBuf \in Seq(Nat) /\ Len(parentBuf) <= BUFSIZE
    /\ childBuf \in Seq(Nat) /\ Len(childBuf) <= BUFSIZE
    /\ stdin \in Seq(Nat) /\ Len(stdin) <= Quota
    /\ stdout \in Seq(Nat) /\ Len(stdout) <= Quota
    /\ stdinWr \in BOOLEAN /\ stdoutRd \in BOOLEAN
    /\ stdinRd \in BOOLEAN /\ stdoutWr \in BOOLEAN
    /\ printed \in Seq(Nat)

\* After CreateChildProcess: the child's ends are open in the child only.
Init ==
    /\ size \in 0 .. MaxFile /\ filePos = 0
    /\ parentPc = "readFile" /\ childPc = "created"
    /\ parentBuf = <<>> /\ childBuf = <<>>
    /\ stdin = <<>> /\ stdout = <<>>
    /\ stdinWr = TRUE /\ stdoutRd = TRUE /\ stdinRd = TRUE /\ stdoutWr = TRUE
    /\ printed = <<>>

Least(a, b) == IF a <= b THEN a ELSE b

\* The first n units of s, and what is left.
Taken(s, n) == SubSeq(s, 1, Least(n, Len(s)))
Left(s, n) == SubSeq(s, Least(n, Len(s)) + 1, Len(s))

Units(a, b) == [k \in 1 .. (b - a) |-> a + k]

-----------------------------------------------------------------------------
\* The parent

\* WriteToPipe reads the file, a buffer at a time.
readFile ==
    /\ parentPc = "readFile"
    /\ filePos' = Least(filePos + BUFSIZE, size)
    /\ parentBuf' = Units(filePos, filePos')
    /\ parentPc' = IF filePos = size THEN "closePipe" ELSE "writePipe"
    /\ UNCHANGED <<size, childPc, childBuf, pipeVars, printed>>

\* Mutant: the write returns when only part of the buffer is written.
writePipePart ==
    /\ parentPc = "writePipe" /\ stdinRd /\ Len(stdin) < Quota
    /\ stdin' = Append(stdin, Head(parentBuf))
    /\ parentBuf' = <<>>
    /\ parentPc' = "readFile"
    /\ UNCHANGED <<size, filePos, childPc, childBuf, stdout, stdinWr, stdoutRd, stdinRd,
                   stdoutWr, printed>>

\* WriteFile to the child's standard input, unit by unit ...
writePipe ==
    /\ parentPc = "writePipe" /\ stdinRd /\ Len(stdin) < Quota
    /\ stdin' = Append(stdin, Head(parentBuf))
    /\ parentBuf' = Tail(parentBuf)
    /\ parentPc' = IF Len(parentBuf) = 1 THEN "readFile" ELSE "writePipe"
    /\ UNCHANGED <<size, filePos, childPc, childBuf, stdout, stdinWr, stdoutRd, stdinRd,
                   stdoutWr, printed>>

\* ... or it fails: the child is gone.
writePipeFails ==
    /\ parentPc = "writePipe" /\ ~stdinRd
    /\ parentPc' = "closePipe"
    /\ UNCHANGED <<size, filePos, childPc, parentBuf, childBuf, pipeVars, printed>>

closePipe ==
    /\ parentPc = "closePipe"
    /\ stdinWr' = FALSE
    /\ parentPc' = "readPipe"
    /\ UNCHANGED <<size, filePos, childPc, parentBuf, childBuf, stdin, stdout, stdoutRd,
                   stdinRd, stdoutWr, printed>>

\* ReadFromPipe: what the child has written is read ...
readPipe ==
    /\ parentPc = "readPipe" /\ stdout # <<>>
    /\ parentBuf' = Taken(stdout, BUFSIZE) /\ stdout' = Left(stdout, BUFSIZE)
    /\ parentPc' = "print"
    /\ UNCHANGED <<size, filePos, childPc, childBuf, stdin, stdinWr, stdoutRd, stdinRd,
                   stdoutWr, printed>>

\* ... and printed,
print ==
    /\ parentPc = "print"
    /\ printed' = printed \o parentBuf /\ parentBuf' = <<>>
    /\ parentPc' = "readPipe"
    /\ UNCHANGED <<size, filePos, childPc, childBuf, pipeVars>>

\* until no handle for writing is left; the process then ends.
readPipeFails ==
    /\ parentPc = "readPipe" /\ stdout = <<>> /\ ~stdoutWr
    /\ parentPc' = "exited" /\ stdoutRd' = FALSE
    /\ UNCHANGED <<size, filePos, childPc, parentBuf, childBuf, stdin, stdout, stdinWr,
                   stdinRd, stdoutWr, printed>>

-----------------------------------------------------------------------------
\* The child

\* The child runs, some time after it was created.
start ==
    /\ childPc = "created"
    /\ childPc' = "read"
    /\ UNCHANGED <<size, filePos, parentPc, parentBuf, childBuf, pipeVars, printed>>

\* Mutant: what was read stays in the pipe.
childReadKeeps ==
    /\ childPc = "read" /\ stdin # <<>>
    /\ childBuf' = Taken(stdin, BUFSIZE)
    /\ childPc' = "write"
    /\ UNCHANGED <<size, filePos, parentPc, parentBuf, stdin, stdout, stdinWr, stdoutRd, stdinRd,
                   stdoutWr, printed>>

childRead ==
    /\ childPc = "read" /\ stdin # <<>>
    /\ childBuf' = Taken(stdin, BUFSIZE) /\ stdin' = Left(stdin, BUFSIZE)
    /\ childPc' = "write"
    /\ UNCHANGED <<size, filePos, parentPc, parentBuf, stdout, stdinWr, stdoutRd, stdinRd,
                   stdoutWr, printed>>

childReadFails ==
    /\ childPc = "read" /\ stdin = <<>> /\ ~stdinWr
    /\ childPc' = "flush" /\ childBuf' = <<Greeting>>
    /\ UNCHANGED <<size, filePos, parentPc, parentBuf, pipeVars, printed>>

\* WriteFile of what was read, and at exit what printf has left.
childWrite ==
    /\ childPc = "write" \/ (childPc = "flush" /\ childBuf # <<>>)
    /\ Len(stdout) < Quota
    /\ stdout' = Append(stdout, Head(childBuf)) /\ childBuf' = Tail(childBuf)
    /\ childPc' = IF childPc = "write" /\ Len(childBuf) = 1 THEN "read" ELSE childPc
    /\ UNCHANGED <<size, filePos, parentPc, parentBuf, stdin, stdinWr, stdoutRd, stdinRd,
                   stdoutWr, printed>>

\* The process ends, its buffers written or by force.
ChildEnds ==
    /\ childPc' = "exited" /\ childBuf' = <<>>
    /\ stdinRd' = FALSE /\ stdoutWr' = FALSE /\ stdin' = <<>>
    /\ UNCHANGED <<size, filePos, parentPc, parentBuf, stdout, stdinWr, stdoutRd, printed>>

childExit == childPc = "flush" /\ childBuf = <<>> /\ ChildEnds
childKilled == childPc # "exited" /\ ChildEnds

-----------------------------------------------------------------------------
Parent ==
    readFile \/ writePipe \/ writePipeFails \/ closePipe \/ readPipe \/ print \/ readPipeFails

Child == start \/ childRead \/ childReadFails \/ childWrite \/ childExit

Next == Parent \/ Child \/ childKilled

Spec == Init /\ [][Next]_vars

\* Both processes are scheduled.
FairSpec == Spec /\ WF_vars(Parent) /\ WF_vars(Child)

-----------------------------------------------------------------------------
\* Properties

\* What is between the child and the parent's output, what is before the child.
Behind == printed \o (IF parentPc = "print" THEN parentBuf ELSE <<>>) \o stdout
Ahead == (IF parentPc = "writePipe" THEN parentBuf ELSE <<>>) \o Units(filePos, size)

\* Nothing of the file is lost, doubled or reordered on its way through both
\* processes and both pipes as long as the child lives.
EchoConserved ==
    childPc \in {"created", "read", "write"} =>
        Behind \o childBuf \o stdin \o Ahead = Units(0, size)

\* What the parent has printed is the file and then the child's greeting, or
\* less of it if the child was killed.
PrintedIsEcho ==
    Behind = [k \in 1 .. Len(Behind) |-> IF k <= size THEN k ELSE Greeting]

\* A file that fits in both pipes and one unit of the child's buffer never makes
\* the two processes wait for each other, whatever the sizes of the buffers.
SmallFileFlows ==
    size <= 2 * Quota + 1 =>
        ~ /\ parentPc = "writePipe" /\ Len(stdin) = Quota
          /\ childPc = "write" /\ Len(stdout) = Quota
=============================================================================
