---------------------------- MODULE SharedMemory ----------------------------
(***************************************************************************)
(* sharememorydemo: process A creates a named mapping and copies a text    *)
(* into it, process B opens it and copies the text out.  Nothing orders    *)
(* the two copies.                                                         *)
(*                                                                         *)
(* Character k of the text is the number k, 0 is what a new mapping is     *)
(* filled with and what ends a text.  strcpy goes from left to right, any  *)
(* number of characters at a time.  The mapping lives while a process has  *)
(* it; A may be run again, a process may be ended from outside.            *)
(***************************************************************************)
EXTENDS Naturals, Sequences

CONSTANTS
    TextLen,        \* characters of the text
    BufLen,         \* characters of B's buffer
    MaxRuns         \* bound on the runs of each program

\* What the constants are, assumed by MCFiles.
SharedMemoryAssumption ==
    TextLen \in Nat \ {0} /\ BufLen \in Nat /\ BufLen > TextLen /\ MaxRuns \in Nat

VARIABLES
    mem,            \* the characters in the mapping
    a, b,           \* where the processes are
    aPos,           \* how many characters A has copied
    szBuffer,       \* what B has copied
    whole,          \* history: A had copied all before B opened the mapping
    runs            \* history: how often each program was started

vars == <<mem, a, b, aPos, szBuffer, whole, runs>>

Zero == [k \in 1 .. BufLen |-> 0]
Text == [k \in 1 .. TextLen |-> k]

TypeOK ==
    /\ mem \in [1 .. BufLen -> 0 .. TextLen]
    /\ a \in {"out", "copy", "sleep"} /\ b \in {"out", "copy", "print", "error"}
    /\ aPos \in 0 .. TextLen
    /\ szBuffer \in Seq(0 .. TextLen) /\ Len(szBuffer) < BufLen
    /\ whole \in BOOLEAN /\ runs \in [{"a", "b"} -> 0 .. MaxRuns]

Init ==
    /\ mem = Zero /\ a = "out" /\ b = "out" /\ aPos = 0 /\ szBuffer = <<>>
    /\ whole = FALSE /\ runs = [p \in {"a", "b"} |-> 0]

BHolds == b \in {"copy", "print"}

Started(p) == runs[p] < MaxRuns /\ runs' = [runs EXCEPT ![p] = @ + 1]

\* A creates the mapping, or gets the one that B still has ...
aCreate ==
    /\ a = "out" /\ Started("a")
    /\ mem' = IF BHolds THEN mem ELSE Zero
    /\ a' = "copy" /\ aPos' = 0
    /\ UNCHANGED <<b, szBuffer, whole>>

\* ... copies the text into it
aCopy ==
    /\ a = "copy"
    /\ \E n \in aPos + 1 .. TextLen :
           /\ mem' = [k \in 1 .. BufLen |-> IF k \in aPos + 1 .. n THEN k ELSE mem[k]]
           /\ aPos' = n
    /\ a' = IF aPos' = TextLen THEN "sleep" ELSE "copy"
    /\ UNCHANGED <<b, szBuffer, whole, runs>>

\* ... and gives it up after a while; or A ends before.
aEnd ==
    /\ a # "out"
    /\ a' = "out"
    /\ UNCHANGED <<mem, b, aPos, szBuffer, whole, runs>>

\* B opens the mapping, if there is one.
bOpen ==
    /\ b \in {"out", "error"} /\ Started("b")
    /\ b' = IF a = "out" THEN "error" ELSE "copy"
    /\ whole' = (a = "sleep")
    /\ szBuffer' = <<>>
    /\ UNCHANGED <<mem, a, aPos>>

\* B copies up to the first 0.
bCopy ==
    /\ b = "copy"
    /\ LET p == Len(szBuffer) + 1
       IN  IF mem[p] = 0
           THEN b' = "print" /\ UNCHANGED szBuffer
           ELSE szBuffer' = Append(szBuffer, mem[p]) /\ UNCHANGED b
    /\ UNCHANGED <<mem, a, aPos, whole, runs>>

\* B prints what it has, gives the mapping up and ends; or B ends before.
bEnd ==
    /\ BHolds
    /\ b' = "out"
    /\ UNCHANGED <<mem, a, aPos, szBuffer, whole, runs>>

-----------------------------------------------------------------------------
A == aCreate \/ aCopy \/ aEnd
B == bOpen \/ bCopy \/ bEnd

Next == A \/ B

Spec == Init /\ [][Next]_vars

-----------------------------------------------------------------------------
\* Properties

\* If A is run first and B when A has written, B prints all of the text, also
\* when A ends, or starts again, while B copies.
WholeIfAFirst == b = "print" /\ whole => szBuffer = Text
=============================================================================
