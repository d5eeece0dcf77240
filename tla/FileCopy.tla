------------------------------ MODULE FileCopy ------------------------------
(***************************************************************************)
(* overlappeddemo/iocpdemo: one thread copies a file with several I/O      *)
(* requests under way at a time, all of them completing to one port.  The  *)
(* completion of a read issues the write of the same block, the completion *)
(* of a write the read of the next block; the loop ends when its two       *)
(* counters are zero.                                                      *)
(*                                                                         *)
(* Unit k of the source file is the number k, a unit never written is 0.   *)
(* The disk completes requests in any order.  A fault is an I/O that is    *)
(* refused at once (no packet will come), one that completes with an       *)
(* error, or the second opening of the destination that fails; MaxFaults   *)
(* bounds them.                                                            *)
(***************************************************************************)
EXTENDS Naturals, Sequences, FiniteSets

CONSTANTS
    MAX_PENDING_IO_REQS,    \* how many requests there are
    BUFFSIZE,               \* units of a buffer
    Sizes,                  \* the sizes a source file may have
    MaxFaults               \* bound on the faults of a copy

ASSUME FileCopyAssumption ==
    /\ MAX_PENDING_IO_REQS \in Nat \ {0} /\ BUFFSIZE \in Nat \ {0}
    /\ Sizes \subseteq Nat /\ MaxFaults \in Nat

Reqs == 1 .. MAX_PENDING_IO_REQS

CK_READ == "CK_READ"
CK_WRITE == "CK_WRITE"
Packet == {CK_READ, CK_WRITE} \X Reqs

VARIABLES
    liFileSizeSrc,      \* the size of the source file
    dst,                \* the destination file
    pc,                 \* where FileCopy is
    nReadsInProgress, nWritesInProgress, liNextReadOffset,
    offset, data,       \* of each request: its Offset and its buffer
    disk,               \* the reads and writes under way
    port,               \* the packets that wait in the completion port
    refused,            \* history: the I/Os that were refused
    bOk,                \* what FileCopy returns
    faults              \* how many faults there were

vars == <<liFileSizeSrc, dst, pc, nReadsInProgress, nWritesInProgress, liNextReadOffset,
          offset, data, disk, port, refused, bOk, faults>>

Block == 1 .. BUFFSIZE

TypeOK ==
    /\ liFileSizeSrc \in Sizes
    /\ dst \in Seq(Nat)
    /\ pc \in {"open", "prime", "loop", "shrink", "returned"}
    /\ nReadsInProgress \in Nat /\ nWritesInProgress \in Nat /\ liNextReadOffset \in Nat
    /\ offset \in [Reqs -> Nat] /\ data \in [Reqs -> [Block -> Nat]]
    /\ disk \subseteq Packet /\ port \in Seq(Packet) /\ refused \subseteq Packet
    /\ bOk \in BOOLEAN /\ faults \in 0 .. MaxFaults

Init ==
    /\ liFileSizeSrc \in Sizes /\ dst = <<>>
    /\ pc = "open"
    /\ nReadsInProgress = 0 /\ nWritesInProgress = 0 /\ liNextReadOffset = 0
    /\ offset = [r \in Reqs |-> 0] /\ data = [r \in Reqs |-> [k \in Block |-> 0]]
    /\ disk = {} /\ port = <<>> /\ refused = {}
    /\ bOk = FALSE /\ faults = 0

\* Mutant: a last block that is not full is cut off.
chROUNDDOWN(value) == value - (value % BUFFSIZE)

chROUNDUP(value) == value - (value % BUFFSIZE) + (IF (value % BUFFSIZE) > 0 THEN BUFFSIZE ELSE 0)

Fault == faults < MaxFaults /\ faults' = faults + 1

-----------------------------------------------------------------------------
\* The disk

\* A read fills the buffer up to the end of the file, a write puts all of the
\* buffer at its place; the packet goes to the port.
Transfer(key, r) ==
    IF key = CK_READ
    THEN /\ data' = [data EXCEPT ![r] = [k \in Block |->
                        IF offset[r] + k <= liFileSizeSrc THEN offset[r] + k ELSE @[k]]]
         /\ UNCHANGED dst
    ELSE /\ dst' = [i \in DOMAIN dst |->
                        IF i - offset[r] \in Block THEN data[r][i - offset[r]] ELSE dst[i]]
         /\ UNCHANGED data

Complete(key, r) ==
    /\ <<key, r>> \in disk
    /\ disk' = disk \ {<<key, r>>} /\ port' = Append(port, <<key, r>>)
    /\ \/ Transfer(key, r) /\ UNCHANGED faults
       \/ Fault /\ UNCHANGED <<data, dst>>
    /\ UNCHANGED <<liFileSizeSrc, pc, nReadsInProgress, nWritesInProgress, liNextReadOffset,
                   offset, refused, bOk>>

-----------------------------------------------------------------------------
\* FileCopy

\* Both files are open, the destination extended to whole buffers ...
open ==
    /\ pc = "open"
    /\ dst' = [i \in 1 .. chROUNDUP(liFileSizeSrc) |-> 0]
    /\ pc' = "prime"
    /\ UNCHANGED <<liFileSizeSrc, nReadsInProgress, nWritesInProgress, liNextReadOffset, offset,
                   data, disk, port, refused, bOk, faults>>

\* ... or one of them cannot be opened.
openFails ==
    /\ pc = "open"
    /\ pc' = "returned"
    /\ UNCHANGED <<liFileSizeSrc, dst, nReadsInProgress, nWritesInProgress, liNextReadOffset,
                   offset, data, disk, port, refused, bOk, faults>>

\* The completion of a write is simulated for every request.
prime ==
    /\ pc = "prime"
    /\ port' = [r \in Reqs |-> <<CK_WRITE, r>>]
    /\ nWritesInProgress' = MAX_PENDING_IO_REQS
    /\ pc' = "loop"
    /\ UNCHANGED <<liFileSizeSrc, dst, nReadsInProgress, liNextReadOffset, offset, data, disk,
                   refused, bOk, faults>>

\* GetStatus takes the packet of request r with the given key.
GetStatus(key, r) ==
    /\ pc = "loop" /\ (nReadsInProgress > 0 \/ nWritesInProgress > 0)
    /\ port # <<>> /\ Head(port) = <<key, r>>
    /\ port' = Tail(port)

\* ReadFile or WriteFile: what it returns is not looked at.
Issue(key, r) ==
    \/ disk' = disk \cup {<<key, r>>} /\ UNCHANGED <<refused, faults>>
    \/ Fault /\ refused' = refused \cup {<<key, r>>} /\ UNCHANGED disk

\* Mutant: the write goes out and the request reads on.
ckReadReadsOn(r) ==
    /\ GetStatus(CK_READ, r)
    /\ nReadsInProgress' = nReadsInProgress
    /\ nWritesInProgress' = nWritesInProgress + 1
    /\ offset' = [offset EXCEPT ![r] = liNextReadOffset]
    /\ liNextReadOffset' = liNextReadOffset + BUFFSIZE
    /\ disk' = disk \cup {<<CK_WRITE, r>>, <<CK_READ, r>>}
    /\ UNCHANGED <<liFileSizeSrc, dst, pc, data, bOk, refused, faults>>

\* case CK_READ: the block goes to the offset it was read from.
ckRead(r) ==
    /\ GetStatus(CK_READ, r)
    /\ nReadsInProgress' = nReadsInProgress - 1
    /\ nWritesInProgress' = nWritesInProgress + 1
    /\ Issue(CK_WRITE, r)
    /\ UNCHANGED <<liFileSizeSrc, dst, pc, liNextReadOffset, offset, data, bOk>>

\* Mutant: at the end of the file the write stays counted.
ckWriteKept(r) ==
    /\ GetStatus(CK_WRITE, r)
    /\ IF liNextReadOffset < Len(dst)
       THEN /\ nReadsInProgress' = nReadsInProgress + 1
            /\ nWritesInProgress' = nWritesInProgress - 1
            /\ offset' = [offset EXCEPT ![r] = liNextReadOffset]
            /\ liNextReadOffset' = liNextReadOffset + BUFFSIZE
            /\ Issue(CK_READ, r)
       ELSE UNCHANGED <<nReadsInProgress, nWritesInProgress, liNextReadOffset, offset, disk,
                        refused, faults>>
    /\ UNCHANGED <<liFileSizeSrc, dst, pc, data, bOk>>

\* case CK_WRITE: the next block is read, unless all were.
ckWrite(r) ==
    /\ GetStatus(CK_WRITE, r)
    /\ nWritesInProgress' = nWritesInProgress - 1
    /\ IF liNextReadOffset < Len(dst)
       THEN /\ nReadsInProgress' = nReadsInProgress + 1
            /\ offset' = [offset EXCEPT ![r] = liNextReadOffset]
            /\ liNextReadOffset' = liNextReadOffset + BUFFSIZE
            /\ Issue(CK_READ, r)
       ELSE UNCHANGED <<nReadsInProgress, liNextReadOffset, offset, disk, refused, faults>>
    /\ UNCHANGED <<liFileSizeSrc, dst, pc, data, bOk>>

\* Mutant: only the reads are waited for.
loopEndsEarly ==
    /\ pc = "loop" /\ nReadsInProgress = 0 /\ liNextReadOffset >= Len(dst)
    /\ bOk' = TRUE
    /\ pc' = "shrink"
    /\ UNCHANGED <<liFileSizeSrc, dst, nReadsInProgress, nWritesInProgress, liNextReadOffset,
                   offset, data, disk, port, refused, faults>>

\* Nothing is outstanding: the buffers, the port and the files are released.
loopEnds ==
    /\ pc = "loop" /\ nReadsInProgress = 0 /\ nWritesInProgress = 0
    /\ bOk' = TRUE
    /\ pc' = "shrink"
    /\ UNCHANGED <<liFileSizeSrc, dst, nReadsInProgress, nWritesInProgress, liNextReadOffset,
                   offset, data, disk, port, refused, faults>>

\* The destination is cut to the size of the source, if it can be opened again.
shrink ==
    /\ pc = "shrink"
    /\ \/ /\ dst' = [k \in 1 .. liFileSizeSrc |-> IF k \in DOMAIN dst THEN dst[k] ELSE 0]
          /\ UNCHANGED faults
       \/ Fault /\ UNCHANGED dst
    /\ pc' = "returned"
    /\ UNCHANGED <<liFileSizeSrc, nReadsInProgress, nWritesInProgress, liNextReadOffset, offset,
                   data, disk, port, refused, bOk>>

-----------------------------------------------------------------------------
Thread ==
    \/ open \/ openFails \/ prime \/ loopEnds \/ shrink
    \/ \E r \in Reqs : ckRead(r) \/ ckWrite(r)

Disk == \E p \in Packet : Complete(p[1], p[2])

Next == Thread \/ Disk

Spec == Init /\ [][Next]_vars

\* The thread is scheduled and the disk answers.
FairSpec == Spec /\ WF_vars(Thread) /\ WF_vars(Disk)

-----------------------------------------------------------------------------
\* Properties

Source == [k \in 1 .. liFileSizeSrc |-> k]

Queued == {port[i] : i \in 1 .. Len(port)}

\* What the thread waits for.
Pending == disk \cup Queued \cup refused

Of(key) == {p \in Pending : p[1] = key}

\* A request is used by one operation at a time: its OVERLAPPED and its buffer
\* are not handed out again before their packet was taken.
OneIoPerRequest ==
    /\ \A p, q \in Pending : p[2] = q[2] => p = q
    /\ disk \cap Queued = {} /\ disk \cap refused = {} /\ Queued \cap refused = {}
    /\ \A i, j \in 1 .. Len(port) : port[i] = port[j] => i = j

\* The two counters are the number of reads and of writes not yet answered for.
CountersAgree ==
    /\ nReadsInProgress = Cardinality(Of(CK_READ))
    /\ nWritesInProgress = Cardinality(Of(CK_WRITE))

\* Both: the requests under way are counted one by one.
IoIsCounted == OneIoPerRequest /\ CountersAgree

\* No buffer is freed and no file closed under an operation.
BuffersOutliveIo == pc \in {"shrink", "returned"} => Pending = {}

\* The operations that still have a block to read or to write.
Carrying == disk \cup Of(CK_READ)

\* Without a fault, no two requests carry the same block, and a block that was
\* asked for and that no request carries is in its place.
BlocksAreCarried ==
    faults = 0 /\ pc = "loop" =>
        /\ \A p, q \in Carrying : offset[p[2]] = offset[q[2]] => p = q
        /\ \A i \in 1 .. liFileSizeSrc :
               \/ i > liNextReadOffset
               \/ dst[i] = i
               \/ \E p \in Carrying : i - offset[p[2]] \in Block

\* Without a fault the copy that is reported is the source, to the last unit, and
\* on the way to it no block is forgotten.
CopyIsExact == BlocksAreCarried /\ (pc = "returned" /\ bOk /\ faults = 0 => dst = Source)
=============================================================================
