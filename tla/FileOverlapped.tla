--------------------------- MODULE FileOverlapped ---------------------------
(***************************************************************************)
(* overlappeddemo/fileoverlapped and filepublicoverlapped: one overlapped  *)
(* write and one overlapped read of the same new file, at the same place,  *)
(* are under way together; a loop waits for the two events, at most five   *)
(* seconds each time.                                                      *)
(*                                                                         *)
(* The write puts the units 1, 2, ... into the file one after the other,   *)
(* the read takes units that are there, stops at the end of the file it    *)
(* meets or is refused at once when the file is still empty.  An operation *)
(* that fails at once leaves its event as it is.  A wait may time out as   *)
(* long as no event is set.                                                *)
(***************************************************************************)
EXTENDS Naturals, Sequences

CONSTANTS
    WriteLen,       \* units of the text that is written
    ReadLen         \* units that are asked for

\* What the constants are, assumed by MCFiles.
FileOverlappedAssumption == WriteLen \in Nat \ {0} /\ ReadLen \in Nat \ {0}

VARIABLES
    pc,                 \* where the program is
    file,               \* how many units the file has
    readBuff,           \* what the read has taken
    io,                 \* the two operations
    hEvent,             \* their events, reset by hand
    InternalHigh,       \* how much an operation that is done has transferred
    writeDone, readDone, cbToWrite, cbRead

vars == <<pc, file, readBuff, io, hEvent, InternalHigh, writeDone, readDone, cbToWrite, cbRead>>

Op == {"write", "read"}

TypeOK ==
    /\ pc \in {"WriteFile", "ReadFile", "wait", "left"}
    /\ file \in 0 .. WriteLen /\ readBuff \in Seq(Nat) /\ Len(readBuff) <= ReadLen
    /\ io \in [Op -> {"none", "pending", "done", "failed"}]
    /\ hEvent \in [Op -> BOOLEAN] /\ InternalHigh \in [Op -> Nat]
    /\ writeDone \in BOOLEAN /\ readDone \in BOOLEAN
    /\ cbToWrite \in 0 .. WriteLen /\ cbRead \in 0 .. ReadLen

Init ==
    /\ pc = "WriteFile" /\ file = 0 /\ readBuff = <<>>
    /\ io = [o \in Op |-> "none"] /\ hEvent = [o \in Op |-> FALSE]
    /\ InternalHigh = [o \in Op |-> 0]
    /\ writeDone = FALSE /\ readDone = FALSE /\ cbToWrite = 0 /\ cbRead = 0

-----------------------------------------------------------------------------
\* The disk

Transfer ==
    /\ \/ io["write"] = "pending" /\ file < WriteLen /\ file' = file + 1 /\ UNCHANGED readBuff
       \/ /\ io["read"] = "pending" /\ Len(readBuff) < ReadLen /\ Len(readBuff) < file
          /\ readBuff' = Append(readBuff, Len(readBuff) + 1) /\ UNCHANGED file
    /\ UNCHANGED <<pc, io, hEvent, InternalHigh, writeDone, readDone, cbToWrite, cbRead>>

\* An operation completes: how much it transferred is noted and its event set.
Complete(o) ==
    /\ io[o] = "pending"
    /\ IF o = "write" THEN file = WriteLen ELSE Len(readBuff) \in {ReadLen, file}
    /\ io' = [io EXCEPT ![o] = "done"] /\ hEvent' = [hEvent EXCEPT ![o] = TRUE]
    /\ InternalHigh' = [InternalHigh EXCEPT ![o] = IF o = "write" THEN file ELSE Len(readBuff)]
    /\ UNCHANGED <<pc, file, readBuff, writeDone, readDone, cbToWrite, cbRead>>

-----------------------------------------------------------------------------
\* The program

\* Both operations are begun; a read of an empty file may be refused.
Begin(o, at, next) ==
    /\ pc = at /\ pc' = next
    /\ \/ io' = [io EXCEPT ![o] = "pending"]
       \/ o = "read" /\ file = 0 /\ io' = [io EXCEPT ![o] = "failed"]
    /\ UNCHANGED <<file, readBuff, hEvent, InternalHigh, writeDone, readDone, cbToWrite, cbRead>>

beginWrite == Begin("write", "WriteFile", "ReadFile")
beginRead == Begin("read", "ReadFile", "wait")

\* The loop waits for the first of the events that is set.
Waits == pc = "wait" /\ ~(writeDone /\ readDone)

\* Result 0, the write's event.
writeEvent ==
    /\ Waits /\ hEvent["write"]
    /\ cbToWrite' = InternalHigh["write"] /\ writeDone' = TRUE
    /\ hEvent' = [hEvent EXCEPT !["write"] = FALSE]
    /\ UNCHANGED <<pc, file, readBuff, io, InternalHigh, readDone, cbRead>>

\* Result 1, the read's event.
readEvent ==
    /\ Waits /\ ~hEvent["write"] /\ hEvent["read"]
    /\ cbRead' = InternalHigh["read"] /\ readDone' = TRUE
    /\ hEvent' = [hEvent EXCEPT !["read"] = FALSE]
    /\ UNCHANGED <<pc, file, readBuff, io, InternalHigh, writeDone, cbToWrite>>

\* Five seconds have passed: the loop is left.
timeout ==
    /\ Waits /\ hEvent = [o \in Op |-> FALSE]
    /\ pc' = "left"
    /\ UNCHANGED <<file, readBuff, io, hEvent, InternalHigh, writeDone, readDone, cbToWrite,
                   cbRead>>

\* Both are done.
leave ==
    /\ pc = "wait" /\ writeDone /\ readDone
    /\ pc' = "left"
    /\ UNCHANGED <<file, readBuff, io, hEvent, InternalHigh, writeDone, readDone, cbToWrite,
                   cbRead>>

-----------------------------------------------------------------------------
Main == beginWrite \/ beginRead \/ writeEvent \/ readEvent \/ timeout \/ leave
Disk == Transfer \/ \E o \in Op : Complete(o)

Next == Main \/ Disk

Spec == Init /\ [][Next]_vars

\* The program runs and the disk answers.
FairSpec == Spec /\ WF_vars(Main) /\ WF_vars(Disk)

-----------------------------------------------------------------------------
\* Properties

\* Whatever part of the file the read met, what the program says it has read is
\* what is in the buffer, and it is the beginning of the text.
ReadIsReported ==
    readDone => /\ cbRead = Len(readBuff)
                /\ readBuff = [k \in 1 .. cbRead |-> k]

\* When the loop is left, with both results or by the timeout, no event is
\* set that it has not looked at.
LeavesNoEventSet == [][pc' = "left" => pc = "left" \/ \A o \in Op : ~hEvent[o]]_vars
=============================================================================
