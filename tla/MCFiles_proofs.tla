--------------------------- MODULE MCFiles_proofs ---------------------------
(***************************************************************************)
(* Proofs about FileCopy, CreateProcessDemo, FileOverlapped, SharedMemory  *)
(* and AnonymousPipes, each for every value of its constants, and from     *)
(* these about MCFiles, where one of them runs.                            *)
(***************************************************************************)
EXTENDS MCFiles, SequenceTheorems, FiniteSetTheorems, TLAPS

\* The packets in a port, and that none is there twice.
InPort(s) == {s[i] : i \in 1 .. Len(s)}
OnceEach(s) == \A i, j \in 1 .. Len(s) : s[i] = s[j] => i = j

\* Before and after the loop nothing is under way.
QuietOutsideLoop ==
    pc # "loop" => Pending = {} /\ nReadsInProgress = 0 /\ nWritesInProgress = 0

\* The inductive invariant of the counters.
CountInv == TypeOK /\ OneIoPerRequest /\ CountersAgree /\ QuietOutsideLoop

-----------------------------------------------------------------------------
(***************************************************************************)
(* Lemmas about the data                                                   *)
(***************************************************************************)
LEMMA RoundUp ==
    ASSUME NEW v \in Nat
    PROVE  chROUNDUP(v) \in Nat /\ chROUNDUP(v) >= v
<1>1. BUFFSIZE \in Nat \ {0}
  BY FileCopyAssumption
<1>2. /\ v % BUFFSIZE \in 0 .. BUFFSIZE - 1
      /\ v = BUFFSIZE * (v \div BUFFSIZE) + (v % BUFFSIZE)
      /\ v \div BUFFSIZE \in Int
  BY <1>1
<1>3. v % BUFFSIZE <= v
  BY <1>1
<1>. QED BY <1>1, <1>2, <1>3 DEF chROUNDUP

LEMMA PortAppend ==
    ASSUME NEW s \in Seq(Packet), NEW x \in Packet, OnceEach(s), x \notin InPort(s)
    PROVE  /\ Append(s, x) \in Seq(Packet)
           /\ InPort(Append(s, x)) = InPort(s) \cup {x}
           /\ OnceEach(Append(s, x))
<1>1. /\ Append(s, x) \in Seq(Packet)
      /\ Len(Append(s, x)) = Len(s) + 1 /\ Len(s) \in Nat
      /\ \A i \in 1 .. Len(s) : Append(s, x)[i] = s[i]
      /\ Append(s, x)[Len(s) + 1] = x
  OBVIOUS
<1>2. 1 .. Len(s) + 1 = 1 .. Len(s) \cup {Len(s) + 1}
  BY <1>1
<1>3. InPort(Append(s, x)) = InPort(s) \cup {x}
  BY <1>1, <1>2 DEF InPort
<1>4. OnceEach(Append(s, x))
  BY <1>1, <1>2 DEF OnceEach, InPort
<1>. QED BY <1>1, <1>3, <1>4

LEMMA PortTail ==
    ASSUME NEW s \in Seq(Packet), s # <<>>, OnceEach(s)
    PROVE  /\ Tail(s) \in Seq(Packet) /\ Head(s) \in InPort(s)
           /\ InPort(Tail(s)) = InPort(s) \ {Head(s)}
           /\ OnceEach(Tail(s))
<1>1. /\ Tail(s) \in Seq(Packet)
      /\ Len(s) \in Nat \ {0} /\ Len(Tail(s)) = Len(s) - 1
      /\ \A i \in 1 .. Len(s) - 1 : Tail(s)[i] = s[i + 1]
      /\ Head(s) = s[1]
  OBVIOUS
<1>2. Head(s) \in InPort(s)
  BY <1>1 DEF InPort
<1>3. OnceEach(Tail(s))
  BY <1>1 DEF OnceEach
<1>4. InPort(Tail(s)) \subseteq InPort(s) \ {Head(s)}
  BY <1>1 DEF InPort, OnceEach
<1>5. ASSUME NEW p \in InPort(s) \ {Head(s)}
      PROVE  p \in InPort(Tail(s))
  <2>1. PICK i \in 1 .. Len(s) : p = s[i] /\ i # 1
    BY <1>1, <1>5 DEF InPort
  <2>2. i - 1 \in 1 .. Len(s) - 1 /\ s[(i - 1) + 1] = s[i]
    BY <1>1, <2>1
  <2>. QED BY <1>1, <2>1, <2>2 DEF InPort
<1>. QED BY <1>1, <1>2, <1>3, <1>4, <1>5

LEMMA PacketFinite == ASSUME NEW S \in SUBSET Packet PROVE IsFiniteSet(S)
<1>1. IsFiniteSet(Reqs)
  BY FS_Interval, FileCopyAssumption DEF Reqs
<1>2. IsFiniteSet({CK_READ, CK_WRITE})
  <2>1. IsFiniteSet({CK_READ})
    BY FS_Singleton
  <2>2. {CK_READ, CK_WRITE} = {CK_READ} \cup {CK_WRITE}
    OBVIOUS
  <2>. QED BY <2>1, <2>2, FS_AddElement
<1>3. IsFiniteSet(Packet)
  BY <1>1, <1>2, FS_Product DEF Packet
<1>. QED BY <1>3, FS_Subset

LEMMA PendingFinite ==
    ASSUME TypeOK
    PROVE  Pending \subseteq Packet /\ \A key : IsFiniteSet(Of(key))
<1>1. Queued \subseteq Packet
  BY DEF Queued, TypeOK
<1>2. Pending \subseteq Packet
  BY <1>1 DEF Pending, TypeOK
<1>. QED BY <1>2, PacketFinite DEF Of

\* One packet more or less is one more or less to count.
LEMMA CountMoves ==
    ASSUME NEW S \in SUBSET Packet, NEW x
    PROVE  /\ x \notin S => Cardinality(S \cup {x}) = Cardinality(S) + 1
           /\ x \in S => Cardinality(S \ {x}) = Cardinality(S) - 1
           /\ Cardinality(S) \in Nat /\ (Cardinality(S) = 0 <=> S = {})
BY PacketFinite, FS_AddElement, FS_RemoveElement, FS_CardinalityType, FS_EmptySet

-----------------------------------------------------------------------------
(***************************************************************************)
(* Every step keeps the types and what is under way                        *)
(***************************************************************************)

LEMMA InitCount == Init => CountInv
<1>. SUFFICES ASSUME Init PROVE CountInv
  OBVIOUS
<1>1. TypeOK
  <2>1. offset \in [Reqs -> Nat] /\ data \in [Reqs -> [Block -> Nat]]
    BY DEF Init
  <2>2. faults \in 0 .. MaxFaults /\ dst \in Seq(Nat) /\ port \in Seq(Packet)
    BY FileCopyAssumption DEF Init
  <2>. QED BY <2>1, <2>2 DEF Init, TypeOK
<1>2. Queued = {} /\ Pending = {}
  BY DEF Init, Pending, Queued
<1>3. Of(CK_READ) = {} /\ Of(CK_WRITE) = {}
  BY <1>2 DEF Of
<1>4. CountersAgree /\ QuietOutsideLoop
  BY <1>2, <1>3, FS_EmptySet DEF Init, CountersAgree, QuietOutsideLoop
<1>5. OneIoPerRequest
  BY <1>2 DEF Init, OneIoPerRequest, Pending
<1>. QED BY <1>1, <1>4, <1>5 DEF CountInv

\* A packet that goes from the disk to the port is still one that is waited for.
LEMMA CompleteCount ==
    ASSUME CountInv, NEW key \in {CK_READ, CK_WRITE}, NEW r \in Reqs, Complete(key, r)
    PROVE  CountInv' /\ Pending' = Pending
<1>. DEFINE x == <<key, r>>
<1>1. x \in Packet /\ x \in disk /\ x \notin Queued
  BY DEF Complete, Packet, CountInv, OneIoPerRequest
<1>2. /\ port' \in Seq(Packet) /\ InPort(port') = Queued \cup {x} /\ OnceEach(port')
  <2>1. Queued = InPort(port) /\ OnceEach(port) /\ port \in Seq(Packet)
    BY DEF Queued, InPort, OnceEach, CountInv, OneIoPerRequest, TypeOK
  <2>. QED BY <1>1, <2>1, PortAppend DEF Complete
<1>3. Queued' = Queued \cup {x} /\ disk' = disk \ {x} /\ refused' = refused
  BY <1>2 DEF Queued, InPort, Complete
<1>4. Pending' = Pending
  BY <1>1, <1>3 DEF Pending
<1>5. OneIoPerRequest'
  BY <1>1, <1>2, <1>3, <1>4 DEF OneIoPerRequest, OnceEach, CountInv, Pending
<1>6. CountersAgree'
  BY <1>4 DEF CountersAgree, CountInv, Complete, Of
<1>7. QuietOutsideLoop'
  BY <1>4 DEF QuietOutsideLoop, CountInv, Complete
<1>8. TypeOK'
  <2>1. data' \in [Reqs -> [Block -> Nat]]
    <3>1. CASE UNCHANGED data
      BY <3>1 DEF CountInv, TypeOK
    <3>2. CASE data' = [data EXCEPT ![r] = [k \in Block |->
                           IF offset[r] + k <= liFileSizeSrc THEN offset[r] + k ELSE @[k]]]
      <4>1. \A k \in Block : (IF offset[r] + k <= liFileSizeSrc THEN offset[r] + k
                                                              ELSE data[r][k]) \in Nat
        BY FileCopyAssumption DEF CountInv, TypeOK, Block
      <4>. QED BY <3>2, <4>1 DEF CountInv, TypeOK
    <3>. QED BY <3>1, <3>2 DEF Complete, Transfer
  <2>2. dst' \in Seq(Nat)
    <3>1. CASE UNCHANGED dst
      BY <3>1 DEF CountInv, TypeOK
    <3>2. CASE dst' = [i \in DOMAIN dst |->
                          IF i - offset[r] \in Block THEN data[r][i - offset[r]] ELSE dst[i]]
      <4>1. DOMAIN dst = 1 .. Len(dst) /\ Len(dst) \in Nat
        BY DEF CountInv, TypeOK
      <4>2. \A i \in 1 .. Len(dst) : dst[i] \in Nat
        BY DEF CountInv, TypeOK
      <4>3. \A i \in 1 .. Len(dst) : dst'[i] \in Nat
        BY <3>2, <4>1, <4>2 DEF CountInv, TypeOK
      <4>. QED BY <3>2, <4>1, <4>3
    <3>. QED BY <3>1, <3>2 DEF Complete, Transfer
  <2>3. faults' \in 0 .. MaxFaults
    BY FileCopyAssumption DEF Complete, Fault, CountInv, TypeOK
  <2>. QED BY <1>2, <1>3, <2>1, <2>2, <2>3 DEF TypeOK, CountInv, Complete
<1>. QED BY <1>4, <1>5, <1>6, <1>7, <1>8 DEF CountInv

\* The packet that is taken was the only one of its request.
LEMMA TakenCount ==
    ASSUME CountInv, NEW key \in {CK_READ, CK_WRITE}, NEW r \in Reqs, GetStatus(key, r)
    PROVE  /\ <<key, r>> \in Queued /\ Queued' = Queued \ {<<key, r>>}
           /\ port' \in Seq(Packet) /\ OnceEach(port')
           /\ <<key, r>> \notin disk \cup refused
           /\ \A p \in Pending \ {<<key, r>>} : p[2] # r
<1>1. Queued = InPort(port) /\ OnceEach(port) /\ port \in Seq(Packet)
  BY DEF Queued, InPort, OnceEach, CountInv, OneIoPerRequest, TypeOK
<1>2. /\ <<key, r>> \in Queued /\ InPort(port') = Queued \ {<<key, r>>}
      /\ port' \in Seq(Packet) /\ OnceEach(port')
  BY <1>1, PortTail DEF GetStatus
<1>3. Queued' = InPort(port')
  BY DEF Queued, InPort
<1>. QED BY <1>2, <1>3 DEF CountInv, OneIoPerRequest, Pending

\* The request is used again for one operation.
LEMMA IssuedCount ==
    ASSUME CountInv, NEW key \in {CK_READ, CK_WRITE}, NEW r \in Reqs, GetStatus(key, r),
           NEW next \in {CK_READ, CK_WRITE}, Issue(next, r)
    PROVE  /\ Pending' = (Pending \ {<<key, r>>}) \cup {<<next, r>>}
           /\ OneIoPerRequest'
           /\ disk' \subseteq Packet /\ refused' \subseteq Packet /\ port' \in Seq(Packet)
           /\ faults' \in 0 .. MaxFaults
<1>. DEFINE x == <<key, r>>
            y == <<next, r>>
<1>1. /\ x \in Queued /\ Queued' = Queued \ {x} /\ x \notin disk \cup refused
      /\ port' \in Seq(Packet) /\ OnceEach(port')
      /\ \A p \in Pending \ {x} : p[2] # r
  BY TakenCount
<1>2. y \in Packet /\ y[2] = r /\ y \notin Pending \ {x}
  BY <1>1 DEF Packet
<1>3. \/ disk' = disk \cup {y} /\ refused' = refused
      \/ disk' = disk /\ refused' = refused \cup {y}
  BY DEF Issue
<1>4. Pending' = (Pending \ {x}) \cup {y}
  BY <1>1, <1>3 DEF Pending
<1>5. \A p, q \in Pending' : p[2] = q[2] => p = q
  BY <1>1, <1>2, <1>4 DEF CountInv, OneIoPerRequest
<1>6. /\ disk' \cap Queued' = {} /\ disk' \cap refused' = {} /\ Queued' \cap refused' = {}
  BY <1>1, <1>2, <1>3 DEF CountInv, OneIoPerRequest, Pending
<1>7. faults' \in 0 .. MaxFaults
  BY FileCopyAssumption DEF Issue, Fault, CountInv, TypeOK
<1>8. disk' \subseteq Packet /\ refused' \subseteq Packet
  BY <1>2, <1>3 DEF CountInv, TypeOK
<1>9. OneIoPerRequest'
  BY <1>1, <1>5, <1>6 DEF OneIoPerRequest, OnceEach
<1>. QED BY <1>1, <1>4, <1>7, <1>8, <1>9

LEMMA CkReadCount ==
    ASSUME CountInv, NEW r \in Reqs, ckRead(r)
    PROVE  CountInv'
<1>1. GetStatus(CK_READ, r) /\ Issue(CK_WRITE, r) /\ pc' = pc /\ pc = "loop"
  BY DEF ckRead, GetStatus
<1>2. /\ Pending' = (Pending \ {<<CK_READ, r>>}) \cup {<<CK_WRITE, r>>}
      /\ OneIoPerRequest'
      /\ disk' \subseteq Packet /\ refused' \subseteq Packet /\ port' \in Seq(Packet)
      /\ faults' \in 0 .. MaxFaults
  BY <1>1, IssuedCount
<1>3. /\ <<CK_READ, r>> \in Pending
      /\ \A p \in Pending \ {<<CK_READ, r>>} : p[2] # r
  BY <1>1, TakenCount DEF Pending
<1>4. Pending \subseteq Packet /\ Of(CK_READ) \subseteq Packet /\ Of(CK_WRITE) \subseteq Packet
  BY PendingFinite DEF CountInv, Of
<1>5. /\ Of(CK_READ)' = Of(CK_READ) \ {<<CK_READ, r>>}
      /\ <<CK_READ, r>> \in Of(CK_READ)
  BY <1>2, <1>3 DEF Of, CK_READ, CK_WRITE
<1>6. /\ Of(CK_WRITE)' = Of(CK_WRITE) \cup {<<CK_WRITE, r>>}
      /\ <<CK_WRITE, r>> \notin Of(CK_WRITE)
  BY <1>2, <1>3 DEF Of, CK_READ, CK_WRITE
<1>7. CountersAgree'
  BY <1>4, <1>5, <1>6, CountMoves DEF ckRead, CountersAgree, CountInv
<1>8. nReadsInProgress' \in Nat /\ nWritesInProgress' \in Nat
  <2>1. Of(CK_READ)' \subseteq Packet /\ Of(CK_WRITE)' \subseteq Packet
    BY <1>4, <1>5, <1>6 DEF Packet
  <2>. QED BY <1>7, <2>1, CountMoves DEF CountersAgree
<1>9. TypeOK'
  BY <1>2, <1>8 DEF ckRead, CountInv, TypeOK
<1>10. QuietOutsideLoop'
  BY <1>1 DEF QuietOutsideLoop
<1>. QED BY <1>2, <1>7, <1>9, <1>10 DEF CountInv

LEMMA CkWriteCount ==
    ASSUME CountInv, NEW r \in Reqs, ckWrite(r)
    PROVE  CountInv'
<1>1. GetStatus(CK_WRITE, r) /\ pc' = pc /\ pc = "loop"
  BY DEF ckWrite, GetStatus
<1>2. /\ <<CK_WRITE, r>> \in Queued /\ Queued' = Queued \ {<<CK_WRITE, r>>}
      /\ <<CK_WRITE, r>> \notin disk \cup refused
      /\ port' \in Seq(Packet) /\ OnceEach(port')
      /\ \A p \in Pending \ {<<CK_WRITE, r>>} : p[2] # r
  BY <1>1, TakenCount
<1>3. <<CK_WRITE, r>> \in Pending /\ <<CK_WRITE, r>> \in Of(CK_WRITE)
  BY <1>2 DEF Pending, Of
<1>4. Pending \subseteq Packet /\ Of(CK_READ) \subseteq Packet /\ Of(CK_WRITE) \subseteq Packet
  BY PendingFinite DEF CountInv, Of
<1>5. QuietOutsideLoop'
  BY <1>1 DEF QuietOutsideLoop
<1>6. CASE liNextReadOffset < Len(dst)
  <2>1. Issue(CK_READ, r)
    BY <1>6 DEF ckWrite
  <2>2. /\ Pending' = (Pending \ {<<CK_WRITE, r>>}) \cup {<<CK_READ, r>>}
        /\ OneIoPerRequest'
        /\ disk' \subseteq Packet /\ refused' \subseteq Packet
        /\ faults' \in 0 .. MaxFaults
    BY <1>1, <2>1, IssuedCount
  <2>3. Of(CK_WRITE)' = Of(CK_WRITE) \ {<<CK_WRITE, r>>}
    BY <2>2 DEF Of, CK_READ, CK_WRITE
  <2>4. /\ Of(CK_READ)' = Of(CK_READ) \cup {<<CK_READ, r>>}
        /\ <<CK_READ, r>> \notin Of(CK_READ)
    BY <1>2, <2>2 DEF Of, CK_READ, CK_WRITE
  <2>5. CountersAgree'
    <3>1. Cardinality(Of(CK_WRITE)') = Cardinality(Of(CK_WRITE)) - 1
      BY <1>3, <1>4, <2>3, CountMoves
    <3>2. Cardinality(Of(CK_READ)') = Cardinality(Of(CK_READ)) + 1
      BY <1>4, <2>4, CountMoves
    <3>. QED BY <1>6, <3>1, <3>2 DEF ckWrite, CountersAgree, CountInv
  <2>6. nReadsInProgress' \in Nat /\ nWritesInProgress' \in Nat
    <3>1. Of(CK_READ)' \subseteq Packet /\ Of(CK_WRITE)' \subseteq Packet
      BY <1>4, <2>3, <2>4 DEF Packet
    <3>. QED BY <2>5, <3>1, CountMoves DEF CountersAgree
  <2>7. /\ offset' \in [Reqs -> Nat] /\ liNextReadOffset' \in Nat
    BY <1>6, FileCopyAssumption DEF ckWrite, CountInv, TypeOK
  <2>8. TypeOK'
    BY <1>2, <2>2, <2>6, <2>7 DEF ckWrite, CountInv, TypeOK
  <2>. QED BY <1>5, <2>2, <2>5, <2>8 DEF CountInv
<1>7. CASE ~(liNextReadOffset < Len(dst))
  <2>1. UNCHANGED <<nReadsInProgress, liNextReadOffset, offset, disk, refused, faults>>
    BY <1>7 DEF ckWrite
  <2>2. Pending' = Pending \ {<<CK_WRITE, r>>}
    BY <1>2, <2>1 DEF Pending
  <2>3. Of(CK_WRITE)' = Of(CK_WRITE) \ {<<CK_WRITE, r>>} /\ Of(CK_READ)' = Of(CK_READ)
    BY <2>2 DEF Of, CK_READ, CK_WRITE
  <2>4. CountersAgree' /\ nWritesInProgress' \in Nat
    <3>1. Cardinality(Of(CK_WRITE)') = Cardinality(Of(CK_WRITE)) - 1
      BY <1>3, <1>4, <2>3, CountMoves
    <3>2. Cardinality(Of(CK_WRITE)') \in Nat
      BY <1>4, <2>3, CountMoves
    <3>. QED BY <2>1, <2>3, <3>1, <3>2 DEF ckWrite, CountersAgree, CountInv
  <2>5. OneIoPerRequest'
    BY <1>2, <2>1, <2>2 DEF OneIoPerRequest, OnceEach, CountInv
  <2>6. TypeOK'
    BY <1>2, <2>1, <2>4 DEF ckWrite, CountInv, TypeOK
  <2>. QED BY <1>5, <2>4, <2>5, <2>6 DEF CountInv
<1>. QED BY <1>6, <1>7

\* The simulated completions: one for each request.
LEMMA PrimeCount ==
    ASSUME CountInv, prime
    PROVE  CountInv'
<1>. DEFINE f == [r \in Reqs |-> <<CK_WRITE, r>>]
            S == {<<CK_WRITE, r>> : r \in Reqs}
<1>1. MAX_PENDING_IO_REQS \in Nat \ {0} /\ Reqs = 1 .. MAX_PENDING_IO_REQS
  BY FileCopyAssumption DEF Reqs
<1>2. port' = f /\ f \in Seq(Packet) /\ Len(f) = MAX_PENDING_IO_REQS
  BY <1>1 DEF prime, Packet
<1>3. Queued' = S
  BY <1>1, <1>2 DEF Queued
<1>4. disk' = {} /\ refused' = {}
  BY DEF prime, CountInv, QuietOutsideLoop, Pending
<1>5. Pending' = S
  BY <1>3, <1>4 DEF Pending
<1>6. Of(CK_READ)' = {} /\ Of(CK_WRITE)' = S
  BY <1>5 DEF Of, CK_READ, CK_WRITE
<1>7. Cardinality(S) = MAX_PENDING_IO_REQS
  <2>1. f \in Bijection(Reqs, S)
    <3>1. f \in [Reqs -> S] /\ \A r, q \in Reqs : f[r] = f[q] => r = q
      OBVIOUS
    <3>2. \A t \in S : \E r \in Reqs : f[r] = t
      OBVIOUS
    <3>. QED BY <3>1, <3>2 DEF Bijection, Injection, Surjection, IsInjective
  <2>2. IsFiniteSet(Reqs) /\ Cardinality(Reqs) = MAX_PENDING_IO_REQS
    BY <1>1, FS_Interval
  <2>3. ExistsBijection(Reqs, S)
    BY <2>1 DEF ExistsBijection
  <2>. QED BY <2>2, <2>3, FS_Bijection
<1>8. CountersAgree'
  BY <1>6, <1>7, FS_EmptySet DEF prime, CountersAgree, CountInv, QuietOutsideLoop
<1>9. OneIoPerRequest'
  <2>1. \A p, q \in S : p[2] = q[2] => p = q
    OBVIOUS
  <2>2. \A i, j \in 1 .. Len(f) : f[i] = f[j] => i = j
    BY <1>1, <1>2
  <2>. HIDE DEF S, f
  <2>. QED BY <1>2, <1>4, <1>5, <2>1, <2>2 DEF OneIoPerRequest
<1>10. TypeOK'
  BY <1>1, <1>2, <1>4 DEF prime, CountInv, TypeOK
<1>11. QuietOutsideLoop'
  BY DEF prime, QuietOutsideLoop
<1>. QED BY <1>8, <1>9, <1>10, <1>11 DEF CountInv

\* The steps outside of the loop.
LEMMA OutsideCount ==
    ASSUME CountInv, open \/ openFails \/ loopEnds \/ shrink
    PROVE  CountInv'
<1>1. UNCHANGED <<nReadsInProgress, nWritesInProgress, disk, port, refused>>
  BY DEF open, openFails, loopEnds, shrink
<1>2. Queued' = Queued /\ Pending' = Pending
  BY <1>1 DEF Queued, Pending
<1>3. OneIoPerRequest' /\ CountersAgree'
  BY <1>1, <1>2 DEF OneIoPerRequest, CountersAgree, Of, CountInv
<1>4. QuietOutsideLoop'
  <2>1. CASE loopEnds
    <3>1. Of(CK_READ) = {} /\ Of(CK_WRITE) = {}
      BY <2>1, PendingFinite, FS_EmptySet DEF loopEnds, CountersAgree, CountInv
    <3>2. Pending \subseteq Of(CK_READ) \cup Of(CK_WRITE)
      BY PendingFinite DEF CountInv, Of, Packet
    <3>. QED BY <1>1, <1>2, <2>1, <3>1, <3>2 DEF loopEnds, QuietOutsideLoop
  <2>2. CASE open \/ openFails \/ shrink
    BY <1>1, <1>2, <2>2 DEF open, openFails, shrink, QuietOutsideLoop, CountInv
  <2>. QED BY <2>1, <2>2
<1>5. TypeOK'
  <2>1. liFileSizeSrc \in Nat
    BY FileCopyAssumption DEF CountInv, TypeOK
  <2>2. dst' \in Seq(Nat)
    <3>1. CASE open
      BY <2>1, <3>1, RoundUp DEF open
    <3>2. CASE shrink
      <4>1. CASE dst' = [k \in 1 .. liFileSizeSrc |-> IF k \in DOMAIN dst THEN dst[k] ELSE 0]
        <5>1. \A k \in 1 .. liFileSizeSrc : (IF k \in DOMAIN dst THEN dst[k] ELSE 0) \in Nat
          BY DEF CountInv, TypeOK
        <5>. QED BY <2>1, <4>1, <5>1
      <4>. QED BY <3>2, <4>1 DEF shrink, CountInv, TypeOK
    <3>3. CASE openFails \/ loopEnds
      BY <3>3 DEF openFails, loopEnds, CountInv, TypeOK
    <3>. QED BY <3>1, <3>2, <3>3
  <2>3. faults' \in 0 .. MaxFaults
    BY FileCopyAssumption DEF open, openFails, loopEnds, shrink, Fault, CountInv, TypeOK
  <2>. QED BY <2>2, <2>3 DEF open, openFails, loopEnds, shrink, CountInv, TypeOK
<1>. QED BY <1>3, <1>4, <1>5 DEF CountInv

LEMMA NextCount == CountInv /\ [Next]_vars => CountInv'
<1>. SUFFICES ASSUME CountInv, [Next]_vars PROVE CountInv'
  OBVIOUS
<1>1. CASE open \/ openFails \/ loopEnds \/ shrink
  BY <1>1, OutsideCount
<1>2. CASE prime
  BY <1>2, PrimeCount
<1>3. CASE \E r \in Reqs : ckRead(r) \/ ckWrite(r)
  BY <1>3, CkReadCount, CkWriteCount
<1>4. CASE Disk
  BY <1>4, CompleteCount DEF Disk, Packet
<1>5. CASE UNCHANGED vars
  <2>1. Queued' = Queued /\ Pending' = Pending
    BY <1>5 DEF vars, Queued, Pending
  <2>2. TypeOK'
    BY <1>5 DEF vars, CountInv, TypeOK
  <2>3. OneIoPerRequest' /\ QuietOutsideLoop'
    BY <1>5, <2>1 DEF vars, CountInv, OneIoPerRequest, QuietOutsideLoop
  <2>4. CountersAgree'
    BY <1>5, <2>1 DEF vars, CountInv, CountersAgree, Of
  <2>. QED BY <2>2, <2>3, <2>4 DEF CountInv
<1>. QED BY <1>1, <1>2, <1>3, <1>4, <1>5 DEF Next, Thread

-----------------------------------------------------------------------------
\* Every variable keeps its type, for any size of the file.
THEOREM TypeCorrect == Spec => []TypeOK
<1>1. CountInv => TypeOK
  BY DEF CountInv
<1>. QED BY <1>1, InitCount, NextCount, PTL DEF Spec

\* No OVERLAPPED and no buffer is handed out again before the packet of its last
\* operation was taken, and the two counters of the loop are the numbers of reads
\* and of writes not yet answered for.
THEOREM CountSafe == Spec => []IoIsCounted
<1>1. CountInv => IoIsCounted
  BY DEF CountInv, IoIsCounted
<1>. QED BY <1>1, InitCount, NextCount, PTL DEF Spec

\* When FileCopy frees its buffers and closes the files nothing is under way.
THEOREM BuffersSafe == Spec => []BuffersOutliveIo
<1>1. CountInv => BuffersOutliveIo
  BY DEF CountInv, QuietOutsideLoop, BuffersOutliveIo
<1>. QED BY <1>1, InitCount, NextCount, PTL DEF Spec

-----------------------------------------------------------------------------
(***************************************************************************)
(* The copy without a fault                                                *)
(***************************************************************************)

\* The operations whose buffer holds the block they carry.
Holding == {p \in Carrying : p[1] = CK_WRITE \/ p \in Queued}

\* The destination has room for the source, and reading goes on to its end.
Room ==
    /\ pc \in {"open", "prime"} => liNextReadOffset = 0
    /\ pc \in {"prime", "loop", "shrink"} => liFileSizeSrc <= Len(dst)
    /\ pc \in {"loop", "shrink"} /\ liNextReadOffset < Len(dst) => Pending # {}
    /\ bOk => pc \in {"shrink", "returned"}

\* No two operations carry parts of the same block, none one not yet asked for.
Apart ==
    /\ \A p \in Carrying : offset[p[2]] + BUFFSIZE <= liNextReadOffset
    /\ \A p, q \in Carrying :
           \/ p = q
           \/ offset[p[2]] + BUFFSIZE <= offset[q[2]]
           \/ offset[q[2]] + BUFFSIZE <= offset[p[2]]

\* A buffer to be written holds the units of its place in the source.
BuffersAreSource ==
    \A p \in Holding : \A k \in Block :
        offset[p[2]] + k <= liFileSizeSrc => data[p[2]][k] = offset[p[2]] + k

\* A unit is in its place, or carried, or in a block not yet asked for.
UnitsAreSomewhere ==
    pc \in {"loop", "shrink"} =>
        \A i \in 1 .. liFileSizeSrc :
            \/ i > liNextReadOffset
            \/ dst[i] = i
            \/ \E p \in Carrying : i - offset[p[2]] \in Block

Finished == pc = "returned" /\ bOk => dst = Source

\* The inductive invariant of the copy; a fault makes it void but for the room.
Exact == refused = {} /\ Apart /\ BuffersAreSource /\ UnitsAreSomewhere /\ Finished
ExactInv == Room /\ (faults = 0 => Exact)

CopyInv == CountInv /\ ExactInv

LEMMA InitCopy == Init => CopyInv
<1>. SUFFICES ASSUME Init PROVE CopyInv
  OBVIOUS
<1>1. CountInv
  BY InitCount
<1>2. Queued = {} /\ Pending = {} /\ Carrying = {} /\ Holding = {}
  BY DEF Init, Pending, Queued, Carrying, Of, Holding
<1>3. Exact
  BY <1>2 DEF Exact, Init, Apart, BuffersAreSource, UnitsAreSomewhere, Finished
<1>4. Room
  BY DEF Init, Room
<1>. QED BY <1>1, <1>3, <1>4 DEF CopyInv, ExactInv

\* The disk has read a block: it is carried on, now with its contents.
LEMMA ReadExact ==
    ASSUME CountInv, Exact, NEW r \in Reqs, Complete(CK_READ, r), Transfer(CK_READ, r)
    PROVE  Exact'
<1>. DEFINE x == <<CK_READ, r>>
<1>1. /\ x \in disk /\ disk' = disk \ {x} /\ Pending' = Pending
      /\ UNCHANGED <<offset, liFileSizeSrc, liNextReadOffset, pc, bOk, dst, refused>>
  BY CompleteCount DEF Complete, Transfer
<1>2. x \in Of(CK_READ) /\ Of(CK_READ)' = Of(CK_READ)
  BY <1>1 DEF Of, Pending
<1>3. Carrying' = Carrying /\ Carrying \subseteq Pending /\ Pending \subseteq Packet
  BY <1>1, <1>2, PendingFinite DEF Carrying, Of, CountInv, Pending
<1>4. Queued' \subseteq Queued \cup {x}
  <2>1. port \in Seq(Packet) /\ x \in Packet /\ port' = Append(port, x)
    BY DEF CountInv, TypeOK, Complete, Packet
  <2>2. \A i \in 1 .. Len(port') : port'[i] = x \/ (i \in 1 .. Len(port) /\ port'[i] = port[i])
    BY <2>1
  <2>. QED BY <2>2 DEF Queued
<1>5. Holding' \subseteq Holding \cup {x}
  BY <1>3, <1>4 DEF Holding
<1>6. BuffersAreSource'
  <2>. SUFFICES ASSUME NEW p \in Holding', NEW k \in Block, offset[p[2]] + k <= liFileSizeSrc
                PROVE  data'[p[2]][k] = offset[p[2]] + k
    BY <1>1 DEF BuffersAreSource, Block
  <2>0. offset \in [Reqs -> Nat] /\ data \in [Reqs -> [Block -> Nat]]
    BY DEF CountInv, TypeOK
  <2>1. CASE p = x
    BY <2>0, <2>1 DEF Transfer
  <2>2. CASE p # x
    <3>1. p \in Holding /\ p \in Pending /\ x \in Pending /\ p[2] \in Reqs
      BY <1>1, <1>3, <1>5, <2>2 DEF Holding, Pending, Packet
    <3>2. p[2] # r
      BY <2>2, <3>1 DEF CountInv, OneIoPerRequest
    <3>3. data'[p[2]] = data[p[2]]
      BY <2>0, <3>1, <3>2 DEF Transfer
    <3>. QED BY <3>1, <3>3 DEF Exact, BuffersAreSource
  <2>. QED BY <2>1, <2>2
<1>7. Apart' /\ UnitsAreSomewhere' /\ Finished' /\ refused' = {}
  BY <1>1, <1>3 DEF Exact, Apart, UnitsAreSomewhere, Finished, Source, Block
<1>. QED BY <1>6, <1>7 DEF Exact

\* The disk has written a block: its units are in their place.
LEMMA WriteExact ==
    ASSUME CountInv, Room, Exact, NEW r \in Reqs, Complete(CK_WRITE, r), Transfer(CK_WRITE, r)
    PROVE  Exact'
<1>. DEFINE x == <<CK_WRITE, r>>
<1>1. /\ x \in disk /\ disk' = disk \ {x} /\ Pending' = Pending
      /\ UNCHANGED <<offset, liFileSizeSrc, liNextReadOffset, pc, bOk, data, refused>>
      /\ dst' = [i \in DOMAIN dst |->
                    IF i - offset[r] \in Block THEN data[r][i - offset[r]] ELSE dst[i]]
  BY CompleteCount DEF Complete, Transfer, CK_READ, CK_WRITE
<1>2. x \notin Of(CK_READ) /\ Of(CK_READ)' = Of(CK_READ)
  BY <1>1 DEF Of, CK_READ, CK_WRITE
<1>3. Carrying' = Carrying \ {x} /\ x \in Carrying
  BY <1>1, <1>2 DEF Carrying
<1>4. Holding' \subseteq Holding /\ x \in Holding
  <2>1. port \in Seq(Packet) /\ x \in Packet /\ port' = Append(port, x)
    BY DEF CountInv, TypeOK, Complete, Packet
  <2>2. \A i \in 1 .. Len(port') : port'[i] = x \/ (i \in 1 .. Len(port) /\ port'[i] = port[i])
    BY <2>1
  <2>3. Queued' \subseteq Queued \cup {x}
    BY <2>2 DEF Queued
  <2>. QED BY <1>3, <2>3 DEF Holding
<1>5. Apart' /\ refused' = {}
  BY <1>1, <1>3 DEF Exact, Apart
<1>6. BuffersAreSource'
  BY <1>1, <1>4 DEF Exact, BuffersAreSource
<1>7. UnitsAreSomewhere'
  <2>. SUFFICES ASSUME pc \in {"loop", "shrink"}, NEW i \in 1 .. liFileSizeSrc
                PROVE  \/ i > liNextReadOffset \/ dst'[i] = i
                       \/ \E p \in Carrying' : i - offset[p[2]] \in Block
    BY <1>1 DEF UnitsAreSomewhere, Block
  <2>1. /\ offset[r] \in Nat /\ dst \in Seq(Nat) /\ liFileSizeSrc \in Nat
        /\ i \in DOMAIN dst
    <3>1. liFileSizeSrc <= Len(dst) /\ dst \in Seq(Nat) /\ liFileSizeSrc \in Nat
      BY FileCopyAssumption DEF Room, CountInv, TypeOK
    <3>. QED BY <3>1 DEF CountInv, TypeOK
  <2>2. CASE i - offset[r] \in Block
    <3>1. dst'[i] = data[r][i - offset[r]]
      BY <1>1, <2>1, <2>2
    <3>2. offset[r] + (i - offset[r]) = i
      BY <2>1
    <3>3. \A k \in Block : offset[r] + k <= liFileSizeSrc => data[r][k] = offset[r] + k
      BY <1>4 DEF Exact, BuffersAreSource
    <3>4. data[r][i - offset[r]] = offset[r] + (i - offset[r])
      BY <2>1, <2>2, <3>2, <3>3
    <3>. QED BY <3>1, <3>2, <3>4
  <2>3. CASE i - offset[r] \notin Block
    <3>1. dst'[i] = dst[i]
      BY <1>1, <2>1, <2>3
    <3>2. \A p \in Carrying : i - offset[p[2]] \in Block => p \in Carrying'
      BY <1>3, <2>3
    <3>. QED BY <3>1, <3>2 DEF Exact, UnitsAreSomewhere
  <2>. QED BY <2>2, <2>3
<1>8. Finished'
  BY <1>1 DEF Finished, CountInv, QuietOutsideLoop, Pending
<1>. QED BY <1>5, <1>6, <1>7, <1>8 DEF Exact

\* What the request carried as a read it carries as a write.
LEMMA CkReadExact ==
    ASSUME CopyInv, Exact, NEW r \in Reqs, ckRead(r), faults' = 0
    PROVE  Exact'
<1>. DEFINE x == <<CK_READ, r>>
            y == <<CK_WRITE, r>>
<1>1. CountInv /\ GetStatus(CK_READ, r) /\ pc' = pc /\ pc = "loop"
  BY DEF CopyInv, ckRead, GetStatus
<1>2. /\ x \in Queued /\ Queued' = Queued \ {x} /\ x \notin disk
      /\ \A p \in Pending \ {x} : p[2] # r
  BY <1>1, TakenCount
<1>3. /\ disk' = disk \cup {y} /\ refused' = refused
      /\ UNCHANGED <<liFileSizeSrc, dst, liNextReadOffset, offset, data, bOk>>
  BY FileCopyAssumption DEF ckRead, Issue, Fault, CopyInv, CountInv, TypeOK
<1>4. Pending' = (Pending \ {x}) \cup {y} /\ x \in Pending
  BY <1>2, <1>3 DEF Pending, Exact
<1>5. Of(CK_READ)' = Of(CK_READ) \ {x} /\ x \in Of(CK_READ)
  BY <1>4 DEF Of, CK_READ, CK_WRITE
<1>6. Carrying' = (Carrying \ {x}) \cup {y} /\ x \in Carrying /\ x \in Holding
  BY <1>2, <1>3, <1>5 DEF Carrying, Holding
<1>7. Holding' \subseteq (Holding \ {x}) \cup {y}
  BY <1>2, <1>6 DEF Holding
<1>8. Apart'
  BY <1>3, <1>6 DEF Exact, Apart
<1>9. BuffersAreSource'
  BY <1>3, <1>6, <1>7 DEF Exact, BuffersAreSource
<1>10. UnitsAreSomewhere'
  <2>. SUFFICES ASSUME NEW i \in 1 .. liFileSizeSrc, ~(i > liNextReadOffset), dst[i] # i
                PROVE  \E p \in Carrying' : i - offset[p[2]] \in Block
    BY <1>3 DEF UnitsAreSomewhere, Block
  <2>1. PICK p \in Carrying : i - offset[p[2]] \in Block
    BY <1>1 DEF Exact, UnitsAreSomewhere
  <2>2. CASE p = x
    <3>1. y \in Carrying' /\ i - offset[y[2]] \in Block
      BY <1>6, <2>1, <2>2
    <3>. QED BY <3>1
  <2>3. CASE p # x
    BY <1>6, <2>1, <2>3
  <2>. QED BY <2>2, <2>3
<1>. QED BY <1>1, <1>3, <1>8, <1>9, <1>10 DEF Exact, Finished

\* The request carries the next block, which no other does.
LEMMA CkWriteExact ==
    ASSUME CopyInv, Exact, NEW r \in Reqs, ckWrite(r), faults' = 0
    PROVE  Exact'
<1>. DEFINE x == <<CK_WRITE, r>>
            y == <<CK_READ, r>>
<1>1. CountInv /\ GetStatus(CK_WRITE, r) /\ pc' = pc /\ pc = "loop"
  BY DEF CopyInv, ckWrite, GetStatus
<1>2. /\ x \in Queued /\ Queued' = Queued \ {x} /\ x \notin disk
      /\ \A p \in Pending \ {x} : p[2] # r
  BY <1>1, TakenCount
<1>3. UNCHANGED <<liFileSizeSrc, dst, data, bOk>>
  BY DEF ckWrite
<1>4. CASE liNextReadOffset < Len(dst)
  <2>1. /\ disk' = disk \cup {y} /\ refused' = refused
        /\ offset' = [offset EXCEPT ![r] = liNextReadOffset]
        /\ liNextReadOffset' = liNextReadOffset + BUFFSIZE
    BY <1>4, FileCopyAssumption DEF ckWrite, Issue, Fault, CopyInv, CountInv, TypeOK
  <2>2. Pending' = (Pending \ {x}) \cup {y}
    BY <1>2, <2>1 DEF Pending, Exact
  <2>3. Of(CK_READ)' = Of(CK_READ) \cup {y} /\ x \notin Of(CK_READ)
    BY <2>2 DEF Of, CK_READ, CK_WRITE
  <2>4. /\ Carrying' = Carrying \cup {y}
        /\ Carrying \subseteq Pending \ {x} /\ Pending \subseteq Packet
    BY <1>1, <1>2, <2>1, <2>3, PendingFinite DEF Carrying, Of, Pending, CountInv
  <2>5. /\ \A p \in Carrying : p[2] \in Reqs /\ offset'[p[2]] = offset[p[2]]
        /\ offset'[r] = liNextReadOffset
        /\ \A p \in Carrying : offset[p[2]] \in Nat
        /\ liNextReadOffset \in Nat /\ BUFFSIZE \in Nat
    <3>1. \A p \in Carrying : p[2] \in Reqs /\ p[2] # r
      BY <1>2, <2>4 DEF Packet
    <3>. QED BY <1>1, <2>1, <3>1, FileCopyAssumption DEF CountInv, TypeOK
  <2>6. Holding' \subseteq Holding
    <3>1. y \notin Queued'
      BY <1>2 DEF Pending, CK_READ, CK_WRITE
    <3>2. y[1] # CK_WRITE
      BY DEF CK_READ, CK_WRITE
    <3>. QED BY <1>2, <2>4, <3>1, <3>2 DEF Holding
  <2>7. Apart'
    <3>1. \A p \in Carrying' : offset'[p[2]] + BUFFSIZE <= liNextReadOffset'
      BY <2>1, <2>4, <2>5 DEF Exact, Apart
    <3>2. \A p, q \in Carrying' :
             p = q \/ offset'[p[2]] + BUFFSIZE <= offset'[q[2]]
                   \/ offset'[q[2]] + BUFFSIZE <= offset'[p[2]]
      BY <2>4, <2>5 DEF Exact, Apart
    <3>. QED BY <3>1, <3>2 DEF Apart
  <2>8. BuffersAreSource'
    BY <1>3, <2>5, <2>6 DEF Exact, BuffersAreSource, Holding
  <2>9. UnitsAreSomewhere'
    <3>. SUFFICES ASSUME NEW i \in 1 .. liFileSizeSrc
                  PROVE  \/ i > liNextReadOffset' \/ dst[i] = i
                         \/ \E p \in Carrying' : i - offset'[p[2]] \in Block
      BY <1>3 DEF UnitsAreSomewhere, Block
    <3>1. CASE i > liNextReadOffset
      <4>1. i > liNextReadOffset + BUFFSIZE \/ i - liNextReadOffset \in Block
        BY <2>5, <3>1 DEF Block
      <4>2. y \in Carrying' /\ offset'[y[2]] = liNextReadOffset
        BY <2>4, <2>5
      <4>. QED BY <2>1, <4>1, <4>2
    <3>2. CASE ~(i > liNextReadOffset)
      <4>1. CASE dst[i] = i
        BY <4>1
      <4>2. CASE \E p \in Carrying : i - offset[p[2]] \in Block
        <5>1. PICK p \in Carrying : i - offset[p[2]] \in Block
          BY <4>2
        <5>2. p \in Carrying' /\ i - offset'[p[2]] \in Block
          BY <2>4, <2>5, <5>1
        <5>. QED BY <5>2
      <4>. QED BY <1>1, <3>2, <4>1, <4>2 DEF Exact, UnitsAreSomewhere
    <3>. QED BY <3>1, <3>2
  <2>. QED BY <1>1, <2>1, <2>7, <2>8, <2>9 DEF Exact, Finished
<1>5. CASE ~(liNextReadOffset < Len(dst))
  <2>1. UNCHANGED <<liNextReadOffset, offset, disk, refused, faults>>
    BY <1>5 DEF ckWrite
  <2>2. Pending' = Pending \ {x}
    BY <1>2, <2>1 DEF Pending, Exact
  <2>3. Of(CK_READ)' = Of(CK_READ)
    BY <2>2 DEF Of, CK_READ, CK_WRITE
  <2>4. Carrying' = Carrying /\ Holding' \subseteq Holding
    BY <1>2, <2>1, <2>3 DEF Carrying, Holding
  <2>5. Apart' /\ BuffersAreSource' /\ UnitsAreSomewhere'
    BY <1>1, <1>3, <2>1, <2>4 DEF Exact, Apart, BuffersAreSource, UnitsAreSomewhere, Block
  <2>. QED BY <1>1, <2>1, <2>5 DEF Exact, Finished
<1>. QED BY <1>4, <1>5

\* Before the loop nothing was asked for, after it nothing is carried.
LEMMA OutsideExact ==
    ASSUME CopyInv, Exact, open \/ openFails \/ prime \/ loopEnds \/ shrink, faults' = 0
    PROVE  Exact'
<1>1. /\ CountInv' /\ Room /\ TypeOK
      /\ UNCHANGED <<liFileSizeSrc, liNextReadOffset, offset, data, disk, refused>>
  BY OutsideCount, PrimeCount DEF CopyInv, ExactInv, CountInv, open, openFails, prime, loopEnds,
                                  shrink
<1>2. Carrying' = {} /\ Holding' = {}
  <2>1. CASE prime
    <3>1. disk' = {} /\ refused' = {}
      BY <2>1 DEF prime, CopyInv, CountInv, QuietOutsideLoop, Pending
    <3>2. Of(CK_READ)' = {}
      BY <2>1, <3>1 DEF prime, Of, Pending, Queued, CK_READ, CK_WRITE
    <3>. QED BY <3>1, <3>2 DEF Carrying, Holding
  <2>2. CASE ~prime
    <3>1. pc' # "loop"
      BY <2>2 DEF open, openFails, loopEnds, shrink
    <3>2. Pending' = {}
      BY <1>1, <3>1 DEF CountInv, QuietOutsideLoop
    <3>. QED BY <3>2 DEF Pending, Of, Carrying, Holding
  <2>. QED BY <2>1, <2>2
<1>3. Apart' /\ BuffersAreSource' /\ refused' = {}
  BY <1>1, <1>2 DEF Apart, BuffersAreSource, Exact
<1>4. UnitsAreSomewhere'
  <2>1. CASE prime
    <3>1. liNextReadOffset' = 0 /\ \A i \in 1 .. liFileSizeSrc' : i > 0
      BY <1>1, <2>1 DEF prime, Room
    <3>. QED BY <3>1 DEF UnitsAreSomewhere
  <2>2. CASE loopEnds
    <3>1. Carrying = {}
      BY <1>2, <2>2, OutsideCount DEF loopEnds, Carrying, Of, Pending, Queued
    <3>. QED BY <1>1, <2>2, <3>1 DEF loopEnds, UnitsAreSomewhere, Exact
  <2>3. CASE open \/ openFails \/ shrink
    BY <2>3 DEF open, openFails, shrink, UnitsAreSomewhere
  <2>. QED BY <2>1, <2>2, <2>3
<1>5. Finished'
  <2>1. CASE shrink
    <3>1. /\ pc = "shrink"
          /\ dst' = [k \in 1 .. liFileSizeSrc |-> IF k \in DOMAIN dst THEN dst[k] ELSE 0]
      BY <2>1, FileCopyAssumption DEF shrink, Fault, CopyInv, CountInv, TypeOK
    <3>2. Pending = {} /\ Carrying = {}
      BY <3>1 DEF CopyInv, CountInv, QuietOutsideLoop, Pending, Of, Carrying
    <3>3. liFileSizeSrc <= Len(dst) /\ ~(liNextReadOffset < Len(dst))
      BY <1>1, <3>1, <3>2 DEF Room
    <3>4. /\ liFileSizeSrc \in Nat /\ liNextReadOffset \in Nat
          /\ Len(dst) \in Nat /\ DOMAIN dst = 1 .. Len(dst)
      BY <1>1, FileCopyAssumption DEF TypeOK
    <3>5. \A i \in 1 .. liFileSizeSrc : i \in DOMAIN dst /\ dst[i] = i
      BY <3>1, <3>2, <3>3, <3>4 DEF Exact, UnitsAreSomewhere
    <3>6. dst' = [k \in 1 .. liFileSizeSrc |-> k]
      BY <3>1, <3>5
    <3>. QED BY <1>1, <3>6 DEF Finished, Source
  <2>2. CASE openFails
    BY <1>1, <2>2 DEF openFails, Room, Finished
  <2>3. CASE open \/ prime \/ loopEnds
    BY <2>3 DEF open, prime, loopEnds, Finished
  <2>. QED BY <2>1, <2>2, <2>3
<1>. QED BY <1>3, <1>4, <1>5 DEF Exact

\* The destination has room until it is cut, and the loop does not run dry.
LEMMA NextRoom == CopyInv /\ Next => Room'
<1>. SUFFICES ASSUME CopyInv, Next PROVE Room'
  OBVIOUS
<1>1. CountInv /\ TypeOK /\ Room /\ liFileSizeSrc \in Nat /\ CountInv'
  BY NextCount, FileCopyAssumption DEF CopyInv, ExactInv, CountInv, TypeOK
<1>2. CASE open
  <2>1. chROUNDUP(liFileSizeSrc) \in Nat /\ chROUNDUP(liFileSizeSrc) >= liFileSizeSrc
    BY <1>1, RoundUp
  <2>2. Len(dst') = chROUNDUP(liFileSizeSrc)
    BY <1>2, <2>1 DEF open
  <2>. QED BY <1>1, <1>2, <2>1, <2>2 DEF open, Room
<1>3. CASE prime
  <2>1. 1 \in Reqs /\ port' = [r \in Reqs |-> <<CK_WRITE, r>>] /\ Len(port') >= 1
    BY <1>3, FileCopyAssumption DEF prime, Reqs
  <2>2. Pending' # {}
    BY <2>1 DEF Pending, Queued
  <2>. QED BY <1>1, <1>3, <2>2 DEF prime, Room
<1>4. CASE openFails \/ shrink
  BY <1>1, <1>4 DEF openFails, shrink, Room
<1>5. CASE loopEnds
  <2>1. Pending' = {} /\ Pending' = Pending
    BY <1>1, <1>5 DEF loopEnds, CountInv, QuietOutsideLoop, Pending, Queued
  <2>. QED BY <1>1, <1>5, <2>1 DEF loopEnds, Room
<1>6. ASSUME NEW r \in Reqs, ckRead(r) PROVE Room'
  <2>1. Issue(CK_WRITE, r) /\ GetStatus(CK_READ, r)
    BY <1>6 DEF ckRead
  <2>2. Pending' # {}
    BY <1>1, <2>1, IssuedCount
  <2>. QED BY <1>1, <1>6, <2>2 DEF ckRead, GetStatus, Room
<1>7. ASSUME NEW r \in Reqs, ckWrite(r) PROVE Room'
  <2>1. CASE liNextReadOffset < Len(dst)
    <3>1. Issue(CK_READ, r) /\ GetStatus(CK_WRITE, r)
      BY <1>7, <2>1 DEF ckWrite
    <3>2. Pending' # {}
      BY <1>1, <3>1, IssuedCount
    <3>. QED BY <1>1, <1>7, <3>2 DEF ckWrite, GetStatus, Room
  <2>2. CASE ~(liNextReadOffset < Len(dst))
    BY <1>1, <1>7, <2>2 DEF ckWrite, GetStatus, Room
  <2>. QED BY <2>1, <2>2
<1>8. ASSUME NEW key \in {CK_READ, CK_WRITE}, NEW r \in Reqs, Complete(key, r) PROVE Room'
  <2>1. Pending' = Pending /\ UNCHANGED <<pc, liFileSizeSrc, liNextReadOffset, bOk>>
    BY <1>1, <1>8, CompleteCount DEF Complete
  <2>2. Len(dst') = Len(dst)
    <3>1. CASE UNCHANGED dst
      BY <3>1
    <3>2. CASE dst' = [i \in DOMAIN dst |->
                          IF i - offset[r] \in Block THEN data[r][i - offset[r]] ELSE dst[i]]
      <4>1. dst \in Seq(Nat) /\ dst' \in Seq(Nat) /\ DOMAIN dst' = DOMAIN dst
        BY <1>1, <3>2 DEF CountInv, TypeOK
      <4>. QED BY <4>1
    <3>. QED BY <1>8, <3>1, <3>2 DEF Complete, Transfer
  <2>. QED BY <1>1, <2>1, <2>2 DEF Room
<1>. QED BY <1>2, <1>3, <1>4, <1>5, <1>6, <1>7, <1>8 DEF Next, Thread, Disk, Packet

LEMMA NextCopy == CopyInv /\ [Next]_vars => CopyInv'
<1>. SUFFICES ASSUME CopyInv, [Next]_vars PROVE CopyInv'
  OBVIOUS
<1>1. CountInv'
  BY NextCount DEF CopyInv
<1>2. CASE UNCHANGED vars
  <2>1. /\ Queued' = Queued /\ Pending' = Pending /\ Of(CK_READ)' = Of(CK_READ)
    BY <1>2 DEF vars, Queued, Pending, Of
  <2>2. Carrying' = Carrying /\ Holding' = Holding
    BY <1>2, <2>1 DEF vars, Carrying, Holding
  <2>3. Room' /\ (faults' = 0 => Exact')
    BY <1>2, <2>1, <2>2 DEF vars, CopyInv, ExactInv, Room, Exact, Apart, BuffersAreSource,
                            UnitsAreSomewhere, Finished, Source, Block
  <2>. QED BY <1>1, <2>3 DEF CopyInv, ExactInv
<1>3. CASE Next
  <2>1. Room'
    BY <1>3, NextRoom
  <2>2. ASSUME faults' = 0 PROVE Exact'
    <3>1. faults \in Nat
      BY FileCopyAssumption DEF CopyInv, CountInv, TypeOK
    <3>2. faults = 0
      <4>1. \A key, r : Issue(key, r) => faults' \in {faults, faults + 1}
        BY DEF Issue, Fault
      <4>2. CASE open \/ openFails \/ prime \/ loopEnds \/ shrink
        BY <2>2, <3>1, <4>2 DEF open, openFails, prime, loopEnds, shrink, Fault
      <4>3. CASE \E r \in Reqs : ckRead(r) \/ ckWrite(r)
        <5>1. faults' \in {faults, faults + 1}
          BY <4>1, <4>3 DEF ckRead, ckWrite
        <5>. QED BY <2>2, <3>1, <5>1
      <4>4. CASE Disk
        BY <2>2, <3>1, <4>4 DEF Disk, Complete, Fault
      <4>. QED BY <1>3, <4>2, <4>3, <4>4 DEF Next, Thread
    <3>3. CountInv /\ Room /\ Exact
      BY <3>2 DEF CopyInv, ExactInv
    <3>4. CASE open \/ openFails \/ prime \/ loopEnds \/ shrink
      BY <2>2, <3>3, <3>4, OutsideExact
    <3>5. CASE \E r \in Reqs : ckRead(r) \/ ckWrite(r)
      BY <2>2, <3>3, <3>5, CkReadExact, CkWriteExact
    <3>6. ASSUME NEW key \in {CK_READ, CK_WRITE}, NEW r \in Reqs, Complete(key, r)
          PROVE  Exact'
      <4>1. Transfer(key, r)
        BY <2>2, <3>1, <3>2, <3>6 DEF Complete, Fault
      <4>. QED BY <3>3, <3>6, <4>1, ReadExact, WriteExact
    <3>. QED BY <1>3, <3>4, <3>5, <3>6 DEF Next, Thread, Disk, Packet
  <2>. QED BY <1>1, <2>1, <2>2 DEF CopyInv, ExactInv
<1>. QED BY <1>2, <1>3

\* Without a fault the copy FileCopy reports is the source to the last unit, however
\* many requests there are, however long the buffers and the file are, in whatever
\* order the disk answers; and on the way to it no block is forgotten or carried twice.
THEOREM CopySafe == Spec => []CopyIsExact
<1>1. CopyInv => CopyIsExact
  <2>. SUFFICES ASSUME CopyInv, faults = 0 PROVE CopyIsExact
    BY DEF CopyIsExact, BlocksAreCarried
  <2>1. Exact /\ TypeOK /\ BUFFSIZE \in Nat \ {0}
    BY FileCopyAssumption DEF CopyInv, ExactInv, CountInv
  <2>2. Carrying \subseteq Packet
    BY PendingFinite, <2>1 DEF Carrying, Of, Pending
  <2>3. \A p, q \in Carrying : offset[p[2]] = offset[q[2]] => p = q
    <3>1. \A p \in Carrying : offset[p[2]] \in Nat
      BY <2>1, <2>2 DEF TypeOK, Packet
    <3>. QED BY <2>1, <3>1 DEF Exact, Apart
  <2>. QED BY <2>1, <2>3 DEF CopyIsExact, BlocksAreCarried, Exact, UnitsAreSomewhere, Finished
<1>. QED BY <1>1, InitCopy, NextCopy, PTL DEF Spec

-----------------------------------------------------------------------------
(***************************************************************************)
(* Sequences of units                                                      *)
(***************************************************************************)

\* \o by a name of its own, which the provers expand only where they are told to.
Cat(s, t) == s \o t

LEMMA CatTypeGeneral ==
    ASSUME NEW S, NEW s \in Seq(S), NEW t \in Seq(S)
    PROVE  /\ Cat(s, t) \in Seq(S) /\ Len(Cat(s, t)) = Len(s) + Len(t)
           /\ Len(s) \in Nat /\ Len(t) \in Nat
           /\ \A k \in 1 .. Len(s) : Cat(s, t)[k] = s[k]
BY ConcatProperties DEF Cat

LEMMA CatType ==
    \A s, t \in Seq(Nat) :
        /\ Cat(s, t) \in Seq(Nat) /\ Len(Cat(s, t)) = Len(s) + Len(t)
        /\ Len(s) \in Nat /\ Len(t) \in Nat
        /\ \A k \in 1 .. Len(s) : Cat(s, t)[k] = s[k]
BY CatTypeGeneral

LEMMA CatEmpty == \A s \in Seq(Nat) : Cat(s, <<>>) = s /\ Cat(<<>>, s) = s
BY DEF Cat

LEMMA CatAssocGeneral ==
    ASSUME NEW S, NEW s \in Seq(S), NEW t \in Seq(S), NEW u \in Seq(S)
    PROVE  Cat(Cat(s, t), u) = Cat(s, Cat(t, u))
BY ConcatAssociative DEF Cat

LEMMA CatAssoc == \A s, t, u \in Seq(Nat) : Cat(Cat(s, t), u) = Cat(s, Cat(t, u))
BY CatAssocGeneral

\* The first unit of one sequence moves to the end of another.
LEMMA CatMovedGeneral ==
    ASSUME NEW S, NEW s \in Seq(S), NEW t \in Seq(S), t # <<>>
    PROVE  /\ Head(t) \in S /\ Tail(t) \in Seq(S) /\ Append(s, Head(t)) \in Seq(S)
           /\ Len(t) \in Nat \ {0} /\ Len(s) \in Nat
           /\ Len(Tail(t)) = Len(t) - 1 /\ Len(Append(s, Head(t))) = Len(s) + 1
           /\ Cat(Append(s, Head(t)), Tail(t)) = Cat(s, t)
<1>1. /\ Head(t) \in S /\ Tail(t) \in Seq(S) /\ Append(s, Head(t)) \in Seq(S)
      /\ Len(Tail(t)) = Len(t) - 1 /\ Len(Append(s, Head(t))) = Len(s) + 1
      /\ Len(t) \in Nat \ {0} /\ Len(s) \in Nat
  OBVIOUS
<1>2. <<Head(t)>> \in Seq(S) /\ <<Head(t)>> \o Tail(t) = t
  OBVIOUS
<1>3. Append(s, Head(t)) = s \o <<Head(t)>>
  BY <1>1, AppendIsConcat
<1>4. (s \o <<Head(t)>>) \o Tail(t) = s \o (<<Head(t)>> \o Tail(t))
  BY <1>1, <1>2, ConcatAssociative
<1>. QED BY <1>1, <1>2, <1>3, <1>4 DEF Cat

LEMMA CatMoved ==
    \A s, t \in Seq(Nat) : t # <<>> =>
        /\ Head(t) \in Nat /\ Tail(t) \in Seq(Nat) /\ Append(s, Head(t)) \in Seq(Nat)
        /\ Len(t) \in Nat \ {0} /\ Len(s) \in Nat
        /\ Len(Tail(t)) = Len(t) - 1 /\ Len(Append(s, Head(t))) = Len(s) + 1
        /\ Cat(Append(s, Head(t)), Tail(t)) = Cat(s, t)
BY CatMovedGeneral

LEMMA NoUnits == \A s \in Seq(Nat) : Len(s) \in Nat /\ (Len(s) = 0 <=> s = <<>>)
BY EmptySeq

\* What a read takes and what it leaves are what there was.
LEMMA TakenLeftGeneral ==
    ASSUME NEW S, NEW s \in Seq(S), NEW n \in Nat \ {0}
    PROVE  /\ Created!Taken(s, n) \in Seq(S) /\ Created!Left(s, n) \in Seq(S)
           /\ Len(Created!Taken(s, n)) <= n /\ Len(Created!Left(s, n)) <= Len(s)
           /\ Len(s) # 0 => Len(Created!Taken(s, n)) # 0
           /\ Cat(Created!Taken(s, n), Created!Left(s, n)) = s
<1>. DEFINE m == Created!Least(n, Len(s))
<1>0. Len(s) \in Nat
  OBVIOUS
<1>1. m \in Nat /\ m <= n /\ m <= Len(s) /\ (Len(s) # 0 => m # 0)
  BY <1>0 DEF Created!Least
<1>2. Created!Taken(s, n) = SubSeq(s, 1, m) /\ Created!Left(s, n) = SubSeq(s, m + 1, Len(s))
  BY DEF Created!Taken, Created!Left
<1>. HIDE DEF m
<1>3. SubSeq(s, 1, m) \in Seq(S) /\ Len(SubSeq(s, 1, m)) = m
  BY <1>0, <1>1
<1>4. SubSeq(s, m + 1, Len(s)) \in Seq(S) /\ Len(SubSeq(s, m + 1, Len(s))) = Len(s) - m
  BY <1>0, <1>1
<1>5. SubSeq(s, 1, m) \o SubSeq(s, m + 1, Len(s)) = SubSeq(s, 1, Len(s))
  <2>1. /\ 1 \in 1 .. Len(s) + 1 /\ m \in (1 - 1) .. Len(s) /\ Len(s) \in m .. Len(s)
    BY <1>0, <1>1
  <2>. QED BY <2>1, ConcatAdjacentSubSeq
<1>6. SubSeq(s, 1, Len(s)) = s
  BY SubSeqFull
<1>7. Cat(Created!Taken(s, n), Created!Left(s, n)) = s
  BY <1>2, <1>5, <1>6 DEF Cat
<1>. QED BY <1>0, <1>1, <1>2, <1>3, <1>4, <1>7

LEMMA TakenLeft ==
    \A s \in Seq(Nat) : \A n \in Nat \ {0} :
        /\ Created!Taken(s, n) \in Seq(Nat) /\ Created!Left(s, n) \in Seq(Nat)
        /\ Len(Created!Taken(s, n)) <= n /\ Len(Created!Left(s, n)) <= Len(s)
        /\ Len(s) # 0 => Len(Created!Taken(s, n)) # 0
        /\ Cat(Created!Taken(s, n), Created!Left(s, n)) = s
BY TakenLeftGeneral

LEMMA UnitsType ==
    \A i, j \in Nat : i <= j =>
        /\ Created!Units(i, j) \in Seq(Nat) /\ Len(Created!Units(i, j)) = j - i
        /\ \A k \in 1 .. j - i : Created!Units(i, j)[k] = i + k
BY DEF Created!Units

LEMMA FileType ==
    \A n \in Nat :
        /\ Created!Units(0, n) \in Seq(Nat) /\ Len(Created!Units(0, n)) = n
        /\ \A k \in 1 .. n : Created!Units(0, n)[k] = k
<1>. TAKE n \in Nat
<1>1. 0 \in Nat /\ 0 <= n /\ n - 0 = n /\ \A k \in 1 .. n : 0 + k = k
  OBVIOUS
<1>2. /\ Created!Units(0, n) \in Seq(Nat) /\ Len(Created!Units(0, n)) = n - 0
      /\ \A k \in 1 .. n - 0 : Created!Units(0, n)[k] = 0 + k
  BY <1>1, UnitsType
<1>. QED BY <1>1, <1>2

\* Two stretches of the file that meet are one.
LEMMA UnitsMeet ==
    ASSUME NEW i \in Nat, NEW j \in Nat, NEW k \in Nat, i <= j, j <= k
    PROVE  Cat(Created!Units(i, j), Created!Units(j, k)) = Created!Units(i, k)
<1>. DEFINE u == Created!Units(i, k)
            l == SubSeq(u, 1, j - i)
            r == SubSeq(u, (j - i) + 1, k - i)
<1>1. /\ u \in Seq(Nat) /\ Len(u) = k - i /\ k - i \in Nat /\ j - i \in 0 .. k - i
      /\ \A n \in 1 .. k - i : u[n] = i + n
  <2>1. i <= k
    OBVIOUS
  <2>. QED BY <2>1, UnitsType
<1>. HIDE DEF u
<1>2. l \o r = u
  <2>1. SubSeq(u, 1, k - i) = u
    BY <1>1, SubSeqFull
  <2>2. 1 \in 1 .. Len(u) + 1 /\ j - i \in (1 - 1) .. Len(u) /\ k - i \in j - i .. Len(u)
    BY <1>1
  <2>3. l \o r = SubSeq(u, 1, k - i)
    BY <1>1, <2>2, ConcatAdjacentSubSeq
  <2>. QED BY <2>1, <2>3
<1>3. l = Created!Units(i, j)
  <2>1. l = [n \in 1 .. j - i |-> u[n]]
    BY <1>1
  <2>. HIDE DEF l
  <2>. QED BY <1>1, <2>1 DEF Created!Units
<1>4. r = Created!Units(j, k)
  <2>1. /\ r \in Seq(Nat) /\ Len(r) = k - j
        /\ \A n \in 1 .. k - j : r[n] = u[(j - i) + n] /\ (j - i) + n \in 1 .. k - i
    BY <1>1
  <2>. HIDE DEF r
  <2>2. \A n \in 1 .. k - j : r[n] = j + n
    BY <1>1, <2>1
  <2>3. r = [n \in 1 .. k - j |-> r[n]]
    BY <2>1
  <2>. QED BY <2>2, <2>3 DEF Created!Units
<1>. QED BY <1>2, <1>3, <1>4 DEF Cat, u

-----------------------------------------------------------------------------
(***************************************************************************)
(* createprocessdemo: the inductive invariant                              *)
(***************************************************************************)
Living == childPc \in {"created", "read", "write"}

\* A buffer that is being written is not empty, one that is to be filled is; the child
\* has its ends until it exits; the parent closes its end, while the child has the
\* other, only with the whole file read and written.
BuffersFit ==
    /\ parentPc = "writePipe" => parentBuf # <<>>
    /\ childPc = "write" => childBuf # <<>>
    /\ childPc \in {"created", "read"} => childBuf = <<>>
    /\ stdinRd = (childPc # "exited")
    /\ ~stdinWr => parentPc \in {"readPipe", "print", "exited"}
    /\ parentPc \notin {"readFile", "writePipe"} /\ childPc # "exited" => filePos = size

\* Behind and Ahead of CreateProcessDemo, and all the units that are anywhere.
Printing == IF parentPc = "print" THEN parentBuf ELSE <<>>
Writing == IF parentPc = "writePipe" THEN parentBuf ELSE <<>>
Out == Cat(Cat(printed, Printing), stdout)
Coming == Cat(stdin, Cat(Writing, Created!Units(filePos, size)))
Everything == Cat(Out, Cat(childBuf, Coming))

\* The file and then the greeting, or less.
IsEcho(s) == s = [k \in 1 .. Len(s) |-> IF k <= size THEN k ELSE Created!Greeting]

\* What the units are while the child copies, when its input has ended, and at its end.
EchoHolds ==
    /\ Living => Everything = Created!Units(0, size)
    /\ childPc = "flush" => IsEcho(Cat(Out, childBuf))
    /\ childPc = "exited" => IsEcho(Out)

CreatedInv == Created!TypeOK /\ BuffersFit /\ EchoHolds

LEMMA CreatedTypes ==
    ASSUME Created!TypeOK
    PROVE  /\ printed \in Seq(Nat) /\ Printing \in Seq(Nat) /\ Writing \in Seq(Nat)
           /\ stdin \in Seq(Nat) /\ stdout \in Seq(Nat) /\ childBuf \in Seq(Nat)
           /\ Cat(printed, Printing) \in Seq(Nat) /\ Out \in Seq(Nat)
           /\ Created!Units(filePos, size) \in Seq(Nat)
           /\ Len(Created!Units(filePos, size)) = size - filePos
           /\ Cat(Writing, Created!Units(filePos, size)) \in Seq(Nat)
           /\ Coming \in Seq(Nat) /\ Cat(childBuf, Coming) \in Seq(Nat)
           /\ Cat(Out, childBuf) \in Seq(Nat)
<1>1. /\ printed \in Seq(Nat) /\ Printing \in Seq(Nat) /\ Writing \in Seq(Nat)
      /\ stdin \in Seq(Nat) /\ stdout \in Seq(Nat) /\ childBuf \in Seq(Nat)
  BY DEF Created!TypeOK, Printing, Writing
<1>2. /\ Created!Units(filePos, size) \in Seq(Nat)
      /\ Len(Created!Units(filePos, size)) = size - filePos
  <2>1. filePos \in Nat /\ size \in Nat /\ filePos <= size
    BY DEF Created!TypeOK
  <2>. QED BY <2>1, UnitsType
<1>3. Cat(printed, Printing) \in Seq(Nat) /\ Out \in Seq(Nat)
  BY <1>1, CatType, Zenon DEF Out
<1>4. /\ Cat(Writing, Created!Units(filePos, size)) \in Seq(Nat)
      /\ Coming \in Seq(Nat) /\ Cat(childBuf, Coming) \in Seq(Nat)
      /\ Cat(Out, childBuf) \in Seq(Nat)
  BY <1>1, <1>2, <1>3, CatType, Zenon DEF Coming
<1>. QED BY <1>1, <1>2, <1>3, <1>4

LEMMA BehindIsOut == Created!Behind = Out
BY DEF Created!Behind, Out, Cat, Printing

LEMMA EverythingIs ==
    ASSUME Created!TypeOK
    PROVE  ((Created!Behind \o childBuf) \o stdin) \o Created!Ahead = Everything
<1>. DEFINE A == Cat(Writing, Created!Units(filePos, size))
<1>1. ((Created!Behind \o childBuf) \o stdin) \o Created!Ahead
          = Cat(Cat(Cat(Out, childBuf), stdin), A)
  <2>1. Created!Ahead = A
    BY DEF Created!Ahead, Writing, Cat
  <2>. HIDE DEF A
  <2>. QED BY <2>1, BehindIsOut DEF Cat
<1>2. /\ Out \in Seq(Nat) /\ childBuf \in Seq(Nat) /\ stdin \in Seq(Nat) /\ A \in Seq(Nat)
      /\ Cat(Out, childBuf) \in Seq(Nat) /\ Cat(stdin, A) \in Seq(Nat)
  BY CreatedTypes DEF Coming
<1>3. Coming = Cat(stdin, A)
  BY DEF Coming
<1>. HIDE DEF A
<1>4. Cat(Cat(Cat(Out, childBuf), stdin), A) = Cat(Cat(Out, childBuf), Cat(stdin, A))
  BY <1>2, CatAssoc
<1>5. Cat(Cat(Out, childBuf), Cat(stdin, A)) = Cat(Out, Cat(childBuf, Cat(stdin, A)))
  BY <1>2, CatAssoc
<1>. QED BY <1>1, <1>3, <1>4, <1>5 DEF Everything

\* The front of an echo is one, the front of the file is one.
LEMMA EchoFront ==
    ASSUME NEW s \in Seq(Nat), NEW t \in Seq(Nat), IsEcho(Cat(s, t))
    PROVE  IsEcho(s)
<1>1. /\ Len(s) \in Nat /\ Len(t) \in Nat /\ Len(Cat(s, t)) = Len(s) + Len(t)
      /\ \A k \in 1 .. Len(s) : Cat(s, t)[k] = s[k]
  BY CatType
<1>2. \A k \in 1 .. Len(s) : s[k] = IF k <= size THEN k ELSE Created!Greeting
  <2>1. DEFINE c == Cat(s, t)
  <2>2. \A k \in 1 .. Len(c) : c[k] = IF k <= size THEN k ELSE Created!Greeting
    <3>. HIDE DEF c
    <3>1. c = [k \in 1 .. Len(c) |-> IF k <= size THEN k ELSE Created!Greeting]
      BY DEF IsEcho, c
    <3>. QED BY <3>1
  <2>. HIDE DEF c
  <2>. QED BY <1>1, <2>2 DEF c
<1>3. s = [k \in 1 .. Len(s) |-> s[k]]
  OBVIOUS
<1>. QED BY <1>2, <1>3 DEF IsEcho

LEMMA EchoOfFile ==
    ASSUME size \in Nat
    PROVE  IsEcho(Created!Units(0, size))
<1>1. /\ Created!Units(0, size) \in Seq(Nat) /\ Len(Created!Units(0, size)) = size
      /\ \A k \in 1 .. size : Created!Units(0, size)[k] = k
  BY FileType
<1>. DEFINE u == Created!Units(0, size)
<1>2. u = [k \in 1 .. size |-> u[k]]
  BY <1>1
<1>. HIDE DEF u
<1>3. u = [k \in 1 .. Len(u) |-> IF k <= size THEN k ELSE Created!Greeting]
  BY <1>1, <1>2 DEF u
<1>. QED BY <1>3 DEF IsEcho, u

\* The greeting ends it.
LEMMA EchoGreeted ==
    ASSUME size \in Nat
    PROVE  IsEcho(Cat(Created!Units(0, size), <<Created!Greeting>>))
<1>. DEFINE u == Created!Units(0, size)
            c == Cat(u, <<Created!Greeting>>)
<1>1. /\ u \in Seq(Nat) /\ Len(u) = size
      /\ \A k \in 1 .. size : u[k] = k
  BY FileType
<1>. HIDE DEF u
<1>2. /\ c \in Seq(Nat) /\ Len(c) = size + 1
      /\ \A k \in 1 .. size : c[k] = k
      /\ c[size + 1] = Created!Greeting
  BY <1>1 DEF Cat, Created!Greeting
<1>. HIDE DEF c
<1>3. \A k \in 1 .. size + 1 : c[k] = IF k <= size THEN k ELSE Created!Greeting
  BY <1>2
<1>4. c = [k \in 1 .. Len(c) |-> c[k]]
  BY <1>2
<1>5. c = [k \in 1 .. Len(c) |-> IF k <= size THEN k ELSE Created!Greeting]
  BY <1>2, <1>3, <1>4
<1>. QED BY <1>5 DEF IsEcho, c, u

-----------------------------------------------------------------------------
(***************************************************************************)
(* createprocessdemo: the steps                                            *)
(***************************************************************************)
LEMMA CreatedInit == Created!Init => CreatedInv
<1>. SUFFICES ASSUME Created!Init PROVE CreatedInv
  OBVIOUS
<1>1. Created!TypeOK /\ BuffersFit
  <2>1. size \in Nat /\ 0 \in 0 .. size /\ 0 <= BUFSIZE /\ 0 <= Quota
    BY FilesAssumption DEF Created!CreateProcessAssumption, Created!Init
  <2>2. <<>> \in Seq(Nat) /\ Len(<<>>) = 0
    OBVIOUS
  <2>. QED BY <2>1, <2>2, Zenon DEF Created!Init, Created!TypeOK, BuffersFit
<1>2. Everything = Created!Units(0, size) /\ childPc = "created"
  <2>1. /\ printed = <<>> /\ stdin = <<>> /\ stdout = <<>> /\ childBuf = <<>> /\ filePos = 0
        /\ Printing = <<>> /\ Writing = <<>> /\ childPc = "created"
    BY DEF Created!Init, Printing, Writing
  <2>2. <<>> \in Seq(Nat) /\ Created!Units(0, size) \in Seq(Nat)
    BY <2>1, CreatedTypes, <1>1
  <2>3. Cat(<<>>, <<>>) = <<>> /\ Cat(<<>>, Created!Units(0, size)) = Created!Units(0, size)
    BY <2>2, CatEmpty
  <2>. QED BY <2>1, <2>3, Zenon DEF Everything, Out, Coming
<1>. QED BY <1>1, <1>2 DEF CreatedInv, EchoHolds, Living

\* A step after which the child has what it had, and as much is written and to come.
LEMMA EchoCarried ==
    ASSUME EchoHolds, childPc' = childPc, size' = size, Out' = Out, childBuf' = childBuf,
           Living => Coming' = Coming
    PROVE  EchoHolds'
<1>1. IsEcho(Out)' <=> IsEcho(Out)
  BY DEF IsEcho
<1>2. IsEcho(Cat(Out, childBuf))' <=> IsEcho(Cat(Out, childBuf))
  BY DEF IsEcho
<1>3. Living => Everything' = Everything
  BY DEF Everything
<1>4. Living' = Living /\ Created!Units(0, size)' = Created!Units(0, size)
  BY DEF Living
<1>. QED BY <1>1, <1>2, <1>3, <1>4 DEF EchoHolds

LEMMA ReadFileStep ==
    ASSUME CreatedInv, Created!readFile
    PROVE  CreatedInv'
<1>. DEFINE p == filePos'
<1>1. /\ size \in Nat /\ filePos \in Nat /\ filePos <= size /\ BUFSIZE \in Nat \ {0}
      /\ p \in Nat /\ filePos <= p /\ p <= size /\ p - filePos <= BUFSIZE
      /\ filePos # size => p > filePos
      /\ filePos = size => p = filePos
  BY FilesAssumption DEF Created!CreateProcessAssumption, CreatedInv, Created!TypeOK,
     Created!readFile, Created!Least
<1>2. /\ parentBuf' = Created!Units(filePos, p)
      /\ parentBuf' \in Seq(Nat) /\ Len(parentBuf') = p - filePos
  BY <1>1, UnitsType DEF Created!readFile
<1>3. Created!TypeOK'
  <2>. HIDE DEF p
  <2>1. filePos' \in 0 .. size' /\ Len(parentBuf') <= BUFSIZE /\ size' \in Nat
    BY <1>1, <1>2 DEF p, Created!readFile
  <2>2. parentPc' \in {"readFile", "writePipe", "closePipe", "readPipe", "print", "exited"}
    BY DEF Created!readFile
  <2>. QED BY <1>2, <2>1, <2>2 DEF CreatedInv, Created!TypeOK, Created!readFile, Created!pipeVars
<1>4. BuffersFit'
  <2>1. filePos # size => parentBuf' # <<>>
    BY <1>1, <1>2, NoUnits
  <2>. QED BY <1>1, <2>1 DEF CreatedInv, BuffersFit, Created!readFile, Created!pipeVars
<1>5. Coming' = Coming
  <2>1. Cat(Writing, Created!Units(filePos, size))' = Cat(Writing, Created!Units(filePos, size))
    <3>1. Writing = <<>> /\ size' = size
      BY DEF Writing, Created!readFile
    <3>2. Cat(<<>>, Created!Units(filePos, size)) = Created!Units(filePos, size)
      BY <1>1, UnitsType, CatEmpty
    <3>3. CASE filePos = size
      BY <1>1, <3>1, <3>3 DEF Writing, Created!readFile
    <3>4. CASE filePos # size
      <4>1. Writing' = Created!Units(filePos, p)
        BY <1>2, <3>4 DEF Writing, Created!readFile
      <4>2. Cat(Created!Units(filePos, p), Created!Units(p, size))
                = Created!Units(filePos, size)
        BY <1>1, UnitsMeet
      <4>. QED BY <3>1, <3>2, <4>1, <4>2
    <3>. QED BY <3>3, <3>4
  <2>2. stdin' = stdin
    BY DEF Created!readFile, Created!pipeVars
  <2>. QED BY <2>1, <2>2 DEF Coming
<1>6. Out' = Out
  BY DEF Out, Printing, Created!readFile, Created!pipeVars
<1>7. childPc' = childPc /\ size' = size /\ childBuf' = childBuf
  BY DEF Created!readFile
<1>. QED BY <1>3, <1>4, <1>5, <1>6, <1>7, EchoCarried DEF CreatedInv

LEMMA WritePipeStep ==
    ASSUME CreatedInv, Created!writePipe
    PROVE  CreatedInv'
<1>1. /\ stdin \in Seq(Nat) /\ parentBuf \in Seq(Nat) /\ parentBuf # <<>>
      /\ Len(stdin) < Quota /\ Quota \in Nat /\ Len(parentBuf) <= BUFSIZE /\ BUFSIZE \in Nat
      /\ stdin' = Append(stdin, Head(parentBuf)) /\ parentBuf' = Tail(parentBuf)
  BY FilesAssumption DEF Created!CreateProcessAssumption, CreatedInv, Created!TypeOK,
     BuffersFit, Created!writePipe
<1>2. /\ stdin' \in Seq(Nat) /\ parentBuf' \in Seq(Nat)
      /\ Len(parentBuf) \in Nat \ {0} /\ Len(stdin) \in Nat
      /\ Len(parentBuf') = Len(parentBuf) - 1 /\ Len(stdin') = Len(stdin) + 1
      /\ Cat(stdin', parentBuf') = Cat(stdin, parentBuf)
  BY <1>1, CatMoved
<1>3. Created!TypeOK'
  <2>1. Len(stdin') <= Quota /\ Len(parentBuf') <= BUFSIZE
    BY <1>1, <1>2
  <2>. QED BY <1>2, <2>1 DEF CreatedInv, Created!TypeOK, Created!writePipe
<1>4. /\ Len(parentBuf) = 1 => parentBuf' = <<>>
      /\ Len(parentBuf) # 1 => parentBuf' # <<>>
  <2>1. Len(parentBuf') = 0 <=> parentBuf' = <<>>
    BY <1>2, NoUnits
  <2>. QED BY <1>2, <2>1
<1>5. BuffersFit'
  BY <1>4 DEF CreatedInv, BuffersFit, Created!writePipe
<1>6. Coming' = Coming
  <2>1. Writing = parentBuf /\ Writing' = parentBuf'
    BY <1>4 DEF Writing, Created!writePipe
  <2>. DEFINE u == Created!Units(filePos, size)
  <2>2. u' = u /\ u \in Seq(Nat)
    BY CreatedTypes DEF CreatedInv, Created!writePipe
  <2>. HIDE DEF u
  <2>3. Cat(Cat(stdin, parentBuf), u) = Cat(stdin, Cat(parentBuf, u))
    BY <1>1, <2>2, CatAssoc
  <2>5. Cat(Cat(stdin', parentBuf'), u) = Cat(stdin', Cat(parentBuf', u))
    BY <1>2, <2>2, CatAssoc
  <2>4. Coming = Cat(stdin, Cat(parentBuf, u)) /\ Coming' = Cat(stdin', Cat(parentBuf', u))
    BY <2>1, <2>2, Zenon DEF Coming, u
  <2>. QED BY <1>2, <2>3, <2>4, <2>5
<1>7. Out' = Out
  BY DEF Out, Printing, Created!writePipe
<1>8. childPc' = childPc /\ size' = size /\ childBuf' = childBuf
  BY DEF Created!writePipe
<1>. QED BY <1>3, <1>5, <1>6, <1>7, <1>8, EchoCarried DEF CreatedInv

\* The end of the write, failed or not, and the closing of the pipe.
LEMMA ClosePipeStep ==
    ASSUME CreatedInv, Created!writePipeFails \/ Created!closePipe
    PROVE  CreatedInv'
<1>1. Created!TypeOK' /\ BuffersFit'
  BY DEF CreatedInv, Created!TypeOK, BuffersFit, Created!writePipeFails, Created!closePipe,
     Created!pipeVars
<1>2. Living => Coming' = Coming
  <2>1. CASE Created!writePipeFails
    BY <2>1 DEF CreatedInv, BuffersFit, Living, Created!writePipeFails
  <2>2. CASE Created!closePipe
    BY <2>2 DEF Coming, Writing, Created!closePipe
  <2>. QED BY <2>1, <2>2
<1>3. Out' = Out
  BY DEF Out, Printing, Created!writePipeFails, Created!closePipe, Created!pipeVars
<1>4. childPc' = childPc /\ size' = size /\ childBuf' = childBuf
  BY DEF Created!writePipeFails, Created!closePipe
<1>. QED BY <1>1, <1>2, <1>3, <1>4, EchoCarried DEF CreatedInv

LEMMA ReadPipeStep ==
    ASSUME CreatedInv, Created!readPipe
    PROVE  CreatedInv'
<1>1. /\ stdout \in Seq(Nat) /\ Len(stdout) <= Quota /\ Quota \in Nat
      /\ BUFSIZE \in Nat \ {0} /\ printed \in Seq(Nat) /\ printed' = printed
      /\ parentBuf' = Created!Taken(stdout, BUFSIZE) /\ stdout' = Created!Left(stdout, BUFSIZE)
  BY FilesAssumption DEF Created!CreateProcessAssumption, CreatedInv, Created!TypeOK,
     Created!readPipe
<1>2. /\ parentBuf' \in Seq(Nat) /\ stdout' \in Seq(Nat)
      /\ Len(parentBuf') <= BUFSIZE /\ Len(stdout') <= Len(stdout)
      /\ Cat(parentBuf', stdout') = stdout
  BY <1>1, TakenLeft
<1>3. Created!TypeOK'
  <2>1. Len(stdout') <= Quota
    BY <1>1, <1>2, NoUnits
  <2>. QED BY <1>2, <2>1 DEF CreatedInv, Created!TypeOK, Created!readPipe
<1>4. BuffersFit'
  BY DEF CreatedInv, BuffersFit, Created!readPipe
<1>5. Out' = Out
  <2>1. Out = Cat(printed, stdout)
    <3>1. Printing = <<>> /\ Cat(printed, <<>>) = printed
      BY <1>1, CatEmpty DEF Printing, Created!readPipe
    <3>. QED BY <3>1 DEF Out
  <2>2. Out' = Cat(Cat(printed, parentBuf'), stdout')
    BY <1>1 DEF Out, Printing, Created!readPipe
  <2>3. Cat(Cat(printed, parentBuf'), stdout') = Cat(printed, Cat(parentBuf', stdout'))
    BY <1>1, <1>2, CatAssoc
  <2>. QED BY <1>2, <2>1, <2>2, <2>3
<1>6. Coming' = Coming
  BY DEF Coming, Writing, Created!readPipe
<1>7. childPc' = childPc /\ size' = size /\ childBuf' = childBuf
  BY DEF Created!readPipe
<1>. QED BY <1>3, <1>4, <1>5, <1>6, <1>7, EchoCarried DEF CreatedInv

LEMMA PrintStep ==
    ASSUME CreatedInv, Created!print
    PROVE  CreatedInv'
<1>1. /\ printed \in Seq(Nat) /\ parentBuf \in Seq(Nat)
      /\ Printing = parentBuf /\ Printing' = <<>> /\ stdout' = stdout
      /\ printed' = Cat(printed, parentBuf) /\ printed' \in Seq(Nat)
  <2>1. printed \in Seq(Nat) /\ parentBuf \in Seq(Nat)
    BY DEF CreatedInv, Created!TypeOK
  <2>2. Cat(printed, parentBuf) \in Seq(Nat)
    BY <2>1, CatType
  <2>3. printed' = Cat(printed, parentBuf)
    BY DEF Cat, Created!print
  <2>. QED BY <2>1, <2>2, <2>3 DEF Printing, Created!print, Created!pipeVars
<1>2. Created!TypeOK'
  <2>1. BUFSIZE \in Nat
    BY FilesAssumption DEF Created!CreateProcessAssumption
  <2>2. parentBuf' \in Seq(Nat) /\ Len(parentBuf') <= BUFSIZE
    BY <2>1 DEF Created!print
  <2>3. parentPc' = "readPipe"
    BY DEF Created!print
  <2>. QED BY <1>1, <2>2, <2>3 DEF CreatedInv, Created!TypeOK, Created!print, Created!pipeVars
<1>3. BuffersFit'
  BY DEF CreatedInv, BuffersFit, Created!print, Created!pipeVars
<1>4. Out' = Out
  <2>1. Cat(Cat(printed, parentBuf), <<>>) = Cat(printed, parentBuf)
    BY <1>1, CatEmpty
  <2>. QED BY <1>1, <2>1, Zenon DEF Out
<1>5. Coming' = Coming
  BY DEF Coming, Writing, Created!print, Created!pipeVars
<1>6. childPc' = childPc /\ size' = size /\ childBuf' = childBuf
  BY DEF Created!print
<1>. QED BY <1>2, <1>3, <1>4, <1>5, <1>6, EchoCarried DEF CreatedInv

LEMMA ReadPipeFailsStep ==
    ASSUME CreatedInv, Created!readPipeFails
    PROVE  CreatedInv'
<1>1. Created!TypeOK' /\ BuffersFit'
  BY DEF CreatedInv, Created!TypeOK, BuffersFit, Created!readPipeFails
<1>2. Coming' = Coming /\ Out' = Out
  BY DEF Coming, Writing, Out, Printing, Created!readPipeFails
<1>3. childPc' = childPc /\ size' = size /\ childBuf' = childBuf
  BY DEF Created!readPipeFails
<1>. QED BY <1>1, <1>2, <1>3, EchoCarried DEF CreatedInv

LEMMA StartStep ==
    ASSUME CreatedInv, Created!start
    PROVE  CreatedInv'
<1>1. Created!TypeOK' /\ BuffersFit'
  BY DEF CreatedInv, Created!TypeOK, BuffersFit, Created!start, Created!pipeVars
<1>2. Everything' = Everything /\ size' = size
  BY DEF Everything, Coming, Writing, Out, Printing, Created!start, Created!pipeVars
<1>3. Living /\ Living' /\ childPc' = "read"
  BY DEF Living, Created!start
<1>. QED BY <1>1, <1>2, <1>3 DEF CreatedInv, EchoHolds

LEMMA ChildReadStep ==
    ASSUME CreatedInv, Created!childRead
    PROVE  CreatedInv'
<1>1. /\ stdin \in Seq(Nat) /\ Len(stdin) <= Quota /\ Quota \in Nat /\ stdin # <<>>
      /\ BUFSIZE \in Nat \ {0} /\ childBuf = <<>> /\ childPc = "read" /\ childPc' = "write"
      /\ childBuf' = Created!Taken(stdin, BUFSIZE) /\ stdin' = Created!Left(stdin, BUFSIZE)
  BY FilesAssumption DEF Created!CreateProcessAssumption, CreatedInv, Created!TypeOK,
     BuffersFit, Created!childRead
<1>2. /\ childBuf' \in Seq(Nat) /\ stdin' \in Seq(Nat)
      /\ Len(childBuf') <= BUFSIZE /\ Len(stdin') <= Len(stdin)
      /\ Len(stdin) # 0 => Len(childBuf') # 0
      /\ Cat(childBuf', stdin') = stdin
  BY <1>1, TakenLeft
<1>3. Created!TypeOK'
  <2>1. Len(stdin') <= Quota
    BY <1>1, <1>2, NoUnits
  <2>. QED BY <1>2, <2>1 DEF CreatedInv, Created!TypeOK, Created!childRead
<1>4. BuffersFit'
  <2>1. childBuf' # <<>>
    <3>1. Len(stdin) # 0
      BY <1>1, NoUnits
    <3>. QED BY <1>2, <3>1, NoUnits
  <2>. QED BY <2>1 DEF CreatedInv, BuffersFit, Created!childRead
<1>5. Everything' = Everything
  <2>. DEFINE A == Cat(Writing, Created!Units(filePos, size))
  <2>1. A' = A /\ A \in Seq(Nat) /\ Cat(stdin, A) \in Seq(Nat)
    BY CreatedTypes DEF CreatedInv, Coming, Writing, Created!childRead
  <2>2. Coming = Cat(stdin, A) /\ Coming' = Cat(stdin', A')
    BY DEF Coming
  <2>. HIDE DEF A
  <2>3. Cat(childBuf, Cat(stdin, A)) = Cat(stdin, A)
    BY <1>1, <2>1, CatEmpty
  <2>4. Cat(Cat(childBuf', stdin'), A) = Cat(childBuf', Cat(stdin', A))
    BY <1>2, <2>1, CatAssoc
  <2>5. Cat(childBuf', Coming') = Cat(childBuf, Coming)
    BY <1>2, <2>1, <2>2, <2>3, <2>4, Zenon
  <2>6. Out' = Out
    BY DEF Out, Printing, Created!childRead
  <2>. QED BY <2>5, <2>6, Zenon DEF Everything
<1>6. size' = size
  BY DEF Created!childRead
<1>. QED BY <1>1, <1>3, <1>4, <1>5, <1>6 DEF CreatedInv, EchoHolds, Living

LEMMA ChildReadFailsStep ==
    ASSUME CreatedInv, Created!childReadFails
    PROVE  CreatedInv'
<1>1. /\ childBuf = <<>> /\ stdin = <<>> /\ Living /\ Writing = <<>> /\ filePos = size
      /\ size \in Nat /\ childPc' = "flush" /\ childBuf' = <<Created!Greeting>> /\ size' = size
  BY DEF CreatedInv, Created!TypeOK, BuffersFit, Living, Writing, Created!childReadFails
<1>2. Created!TypeOK'
  <2>1. <<Created!Greeting>> \in Seq(Nat) /\ Len(<<Created!Greeting>>) = 1
    BY DEF Created!Greeting
  <2>2. 1 <= BUFSIZE
    BY FilesAssumption DEF Created!CreateProcessAssumption
  <2>3. childBuf' \in Seq(Nat) /\ Len(childBuf') <= BUFSIZE
    BY <1>1, <2>1, <2>2
  <2>. QED BY <1>1, <2>3 DEF CreatedInv, Created!TypeOK, Created!childReadFails,
       Created!pipeVars
<1>3. BuffersFit'
  BY DEF CreatedInv, BuffersFit, Created!childReadFails, Created!pipeVars
<1>4. Out' = Out
  BY DEF Out, Printing, Created!childReadFails, Created!pipeVars
<1>5. Out = Created!Units(0, size)
  <2>1. Created!Units(filePos, size) = <<>>
    <3>1. Created!Units(filePos, size) \in Seq(Nat) /\ Len(Created!Units(filePos, size)) = 0
      BY <1>1, CreatedTypes DEF CreatedInv
    <3>. QED BY <3>1, NoUnits
  <2>2. Out \in Seq(Nat) /\ <<>> \in Seq(Nat)
    BY CreatedTypes DEF CreatedInv
  <2>3. Cat(<<>>, <<>>) = <<>> /\ Cat(Out, <<>>) = Out
    BY <2>2, CatEmpty
  <2>4. Everything = Out
    BY <1>1, <2>1, <2>3, Zenon DEF Everything, Coming
  <2>. QED BY <1>1, <2>4 DEF CreatedInv, EchoHolds
<1>6. IsEcho(Cat(Out, childBuf))'
  <2>1. IsEcho(Cat(Created!Units(0, size), <<Created!Greeting>>))
    BY <1>1, EchoGreeted
  <2>. DEFINE c == Cat(Created!Units(0, size), <<Created!Greeting>>)
  <2>2. Cat(Out, childBuf)' = c
    BY <1>1, <1>4, <1>5
  <2>. HIDE DEF c
  <2>3. IsEcho(c)
    BY <2>1 DEF c
  <2>. QED BY <1>1, <2>2, <2>3 DEF IsEcho
<1>. QED BY <1>1, <1>2, <1>3, <1>6 DEF CreatedInv, EchoHolds, Living

LEMMA ChildWriteStep ==
    ASSUME CreatedInv, Created!childWrite
    PROVE  CreatedInv'
<1>1. /\ stdout \in Seq(Nat) /\ childBuf \in Seq(Nat) /\ childBuf # <<>>
      /\ Len(stdout) < Quota /\ Quota \in Nat /\ Len(childBuf) <= BUFSIZE /\ BUFSIZE \in Nat
      /\ stdout' = Append(stdout, Head(childBuf)) /\ childBuf' = Tail(childBuf)
  BY FilesAssumption DEF Created!CreateProcessAssumption, CreatedInv, Created!TypeOK,
     BuffersFit, Created!childWrite
<1>2. /\ stdout' \in Seq(Nat) /\ childBuf' \in Seq(Nat)
      /\ Len(childBuf) \in Nat \ {0} /\ Len(stdout) \in Nat
      /\ Len(childBuf') = Len(childBuf) - 1 /\ Len(stdout') = Len(stdout) + 1
      /\ Cat(stdout', childBuf') = Cat(stdout, childBuf)
  BY <1>1, CatMoved
<1>3. Created!TypeOK'
  <2>1. Len(stdout') <= Quota /\ Len(childBuf') <= BUFSIZE
    BY <1>1, <1>2
  <2>2. childPc' \in {"created", "read", "write", "flush", "exited"}
    BY DEF CreatedInv, Created!TypeOK, Created!childWrite
  <2>. QED BY <1>2, <2>1, <2>2 DEF CreatedInv, Created!TypeOK, Created!childWrite
<1>4. BuffersFit'
  <2>1. Len(childBuf') = 0 <=> childBuf' = <<>>
    BY <1>2, NoUnits
  <2>2. Len(childBuf) = 1 <=> childBuf' = <<>>
    BY <1>2, <2>1
  <2>. QED BY <2>2 DEF CreatedInv, BuffersFit, Created!childWrite
<1>5. Cat(Out, childBuf)' = Cat(Out, childBuf)
  <2>. DEFINE q == Cat(printed, Printing)
  <2>1. q' = q /\ q \in Seq(Nat)
    BY CreatedTypes DEF CreatedInv, Printing, Created!childWrite
  <2>2. Out = Cat(q, stdout) /\ Out' = Cat(q', stdout')
    BY DEF Out
  <2>. HIDE DEF q
  <2>3. Cat(Cat(q, stdout), childBuf) = Cat(q, Cat(stdout, childBuf))
    BY <1>1, <2>1, CatAssoc
  <2>4. Cat(Cat(q, stdout'), childBuf') = Cat(q, Cat(stdout', childBuf'))
    BY <1>2, <2>1, CatAssoc
  <2>. QED BY <1>2, <2>1, <2>2, <2>3, <2>4
<1>6. Everything' = Everything
  <2>1. Coming' = Coming
    BY DEF Coming, Writing, Created!childWrite
  <2>2. /\ Out \in Seq(Nat) /\ childBuf \in Seq(Nat) /\ Coming \in Seq(Nat)
        /\ Out' \in Seq(Nat) /\ childBuf' \in Seq(Nat)
    <3>1. Cat(printed, Printing)' \in Seq(Nat)
      BY CreatedTypes DEF CreatedInv, Printing, Created!childWrite
    <3>2. Cat(Cat(printed, Printing)', stdout') \in Seq(Nat)
      BY <1>2, <3>1, CatType
    <3>. QED BY <1>1, <1>2, <3>2, CreatedTypes DEF CreatedInv, Out
  <2>3. Cat(Cat(Out, childBuf), Coming) = Cat(Out, Cat(childBuf, Coming))
    BY <2>2, CatAssoc
  <2>4. Cat(Cat(Out', childBuf'), Coming) = Cat(Out', Cat(childBuf', Coming))
    BY <2>2, CatAssoc
  <2>5. Cat(Out', childBuf') = Cat(Out, childBuf)
    BY <1>5
  <2>. QED BY <2>1, <2>3, <2>4, <2>5 DEF Everything
<1>7. EchoHolds'
  <2>1. size' = size
    BY DEF Created!childWrite
  <2>2. CASE childPc = "write"
    <3>1. Living /\ childPc' \in {"read", "write"}
      BY <2>2 DEF Living, Created!childWrite
    <3>. QED BY <1>6, <2>1, <3>1 DEF CreatedInv, EchoHolds, Living
  <2>3. CASE childPc = "flush"
    <3>1. childPc' = "flush" /\ ~Living'
      BY <2>3 DEF Living, Created!childWrite
    <3>2. IsEcho(Cat(Out, childBuf))
      BY <2>3 DEF CreatedInv, EchoHolds
    <3>3. IsEcho(Cat(Out, childBuf))'
      BY <1>5, <2>1, <3>2 DEF IsEcho
    <3>. QED BY <3>1, <3>3 DEF EchoHolds
  <2>. QED BY <2>2, <2>3 DEF Created!childWrite
<1>. QED BY <1>3, <1>4, <1>7 DEF CreatedInv

\* What is behind the child is always a front of the echo.
LEMMA OutIsEcho == CreatedInv => IsEcho(Out)
<1>. SUFFICES ASSUME CreatedInv PROVE IsEcho(Out)
  OBVIOUS
<1>1. /\ Out \in Seq(Nat) /\ childBuf \in Seq(Nat) /\ Cat(childBuf, Coming) \in Seq(Nat)
      /\ size \in Nat
  BY CreatedTypes DEF CreatedInv, Created!TypeOK
<1>2. CASE Living
  <2>1. IsEcho(Created!Units(0, size))
    BY <1>1, EchoOfFile
  <2>2. IsEcho(Cat(Out, Cat(childBuf, Coming)))
    <3>1. Cat(Out, Cat(childBuf, Coming)) = Created!Units(0, size)
      BY <1>2 DEF CreatedInv, EchoHolds, Everything
    <3>. QED BY <2>1, <3>1
  <2>. QED BY <1>1, <2>2, EchoFront
<1>3. CASE childPc = "flush"
  <2>1. IsEcho(Cat(Out, childBuf))
    BY <1>3 DEF CreatedInv, EchoHolds
  <2>. QED BY <1>1, <2>1, EchoFront
<1>4. CASE childPc = "exited"
  BY <1>4 DEF CreatedInv, EchoHolds
<1>. QED BY <1>2, <1>3, <1>4 DEF CreatedInv, Created!TypeOK, Living

LEMMA ChildEndsStep ==
    ASSUME CreatedInv, Created!ChildEnds
    PROVE  CreatedInv'
<1>1. Created!TypeOK'
  <2>1. BUFSIZE \in Nat /\ Quota \in Nat
    BY FilesAssumption DEF Created!CreateProcessAssumption
  <2>2. /\ childBuf' \in Seq(Nat) /\ Len(childBuf') <= BUFSIZE
        /\ stdin' \in Seq(Nat) /\ Len(stdin') <= Quota
    BY <2>1 DEF Created!ChildEnds
  <2>. QED BY <2>2 DEF CreatedInv, Created!TypeOK, Created!ChildEnds
<1>2. BuffersFit'
  BY DEF CreatedInv, BuffersFit, Created!ChildEnds
<1>3. Out' = Out /\ size' = size /\ childPc' = "exited"
  BY DEF Out, Printing, Created!ChildEnds
<1>4. IsEcho(Out)'
  BY <1>3, OutIsEcho DEF IsEcho
<1>. QED BY <1>1, <1>2, <1>3, <1>4 DEF CreatedInv, EchoHolds, Living

LEMMA CreatedNext == CreatedInv /\ [Created!Next]_Created!vars => CreatedInv'
<1>. SUFFICES ASSUME CreatedInv, [Created!Next]_Created!vars PROVE CreatedInv'
  OBVIOUS
<1>1. CASE Created!Parent
  BY <1>1, ReadFileStep, WritePipeStep, ClosePipeStep, ReadPipeStep, PrintStep,
     ReadPipeFailsStep DEF Created!Parent
<1>2. CASE Created!Child
  BY <1>2, StartStep, ChildReadStep, ChildReadFailsStep, ChildWriteStep, ChildEndsStep
     DEF Created!Child, Created!childExit
<1>3. CASE Created!childKilled
  BY <1>3, ChildEndsStep DEF Created!childKilled
<1>4. CASE UNCHANGED Created!vars
  <2>1. Created!TypeOK' /\ BuffersFit'
    BY <1>4 DEF CreatedInv, Created!TypeOK, BuffersFit, Created!vars, Created!pipeVars
  <2>2. Coming' = Coming /\ Out' = Out /\ childPc' = childPc /\ size' = size
        /\ childBuf' = childBuf
    BY <1>4 DEF Coming, Writing, Out, Printing, Created!vars, Created!pipeVars
  <2>. QED BY <2>1, <2>2, EchoCarried DEF CreatedInv
<1>. QED BY <1>1, <1>2, <1>3, <1>4 DEF Created!Next

\* What the invariant says of the units: none is lost, doubled or reordered.
LEMMA EchoFollows == CreatedInv => Created!EchoConserved /\ Created!PrintedIsEcho
<1>. SUFFICES ASSUME CreatedInv PROVE Created!EchoConserved /\ Created!PrintedIsEcho
  OBVIOUS
<1>1. Created!EchoConserved
  BY EverythingIs DEF CreatedInv, EchoHolds, Living, Created!EchoConserved
<1>2. Created!PrintedIsEcho
  BY OutIsEcho, BehindIsOut DEF IsEcho, Created!PrintedIsEcho
<1>. QED BY <1>1, <1>2

\* In the mutual wait 2 * Quota units are in the pipes and one at least in each buffer.
LEMMA FlowFollows == CreatedInv => Created!SmallFileFlows
<1>. SUFFICES ASSUME CreatedInv, size <= 2 * Quota + 1,
                     parentPc = "writePipe", Len(stdin) = Quota,
                     childPc = "write", Len(stdout) = Quota
              PROVE  FALSE
  BY DEF Created!SmallFileFlows
<1>1. /\ parentBuf \in Seq(Nat) /\ parentBuf # <<>> /\ childBuf # <<>>
      /\ Writing = parentBuf /\ size \in Nat /\ Quota \in Nat
  BY FilesAssumption DEF Created!CreateProcessAssumption, CreatedInv, Created!TypeOK,
     BuffersFit, Writing
<1>2. Len(parentBuf) >= 1 /\ Len(childBuf) >= 1
  <2>1. childBuf \in Seq(Nat)
    BY CreatedTypes DEF CreatedInv
  <2>2. Len(parentBuf) \in Nat \ {0} /\ Len(childBuf) \in Nat \ {0}
    BY <1>1, <2>1, EmptySeq
  <2>. QED BY <2>2
<1>3. Len(Everything) = size
  BY <1>1, FileType DEF CreatedInv, EchoHolds, Living
<1>. DEFINE u == Created!Units(filePos, size)
            q == Cat(printed, Printing)
<1>4. /\ Len(Everything) = Len(Out) + Len(Cat(childBuf, Coming))
      /\ Len(Cat(childBuf, Coming)) = Len(childBuf) + Len(Coming)
      /\ Len(Out) = Len(q) + Len(stdout)
      /\ Len(Coming) = Len(stdin) + Len(Cat(Writing, u))
      /\ Len(Cat(Writing, u)) = Len(Writing) + Len(u)
      /\ Len(q) \in Nat /\ Len(u) \in Nat
  <2>1. /\ u \in Seq(Nat) /\ q \in Seq(Nat) /\ Cat(Writing, u) \in Seq(Nat)
        /\ Out \in Seq(Nat) /\ Cat(childBuf, Coming) \in Seq(Nat) /\ childBuf \in Seq(Nat)
        /\ Coming \in Seq(Nat) /\ stdout \in Seq(Nat) /\ stdin \in Seq(Nat)
        /\ Writing \in Seq(Nat)
    BY CreatedTypes DEF CreatedInv
  <2>2. Out = Cat(q, stdout) /\ Coming = Cat(stdin, Cat(Writing, u))
    BY DEF Out, Coming
  <2>. HIDE DEF u, q
  <2>3. \A s, t \in Seq(Nat) :
            Len(Cat(s, t)) = Len(s) + Len(t) /\ Len(s) \in Nat
    BY CatType
  <2>. QED BY <2>1, <2>2, <2>3, Zenon DEF Everything
<1>. HIDE DEF u, q
<1>. QED BY <1>1, <1>2, <1>3, <1>4

-----------------------------------------------------------------------------
(***************************************************************************)
(* fileoverlapped                                                          *)
(***************************************************************************)

\* The buffer holds the beginning of the text; neither operation is begun twice; an
\* event says that its operation is done and has not been looked at; and what is noted
\* of the read is what it took.
OverlappedInv ==
    /\ Overlapped!TypeOK
    /\ readBuff = [k \in 1 .. Len(readBuff) |-> k]
    /\ foPc \in {"WriteFile", "ReadFile"} => io["read"] = "none"
    /\ foPc = "WriteFile" => io["write"] = "none"
    /\ hEvent["read"] => io["read"] = "done"
    /\ hEvent["write"] => io["write"] = "done"
    /\ io["read"] = "done" => InternalHigh["read"] = Len(readBuff)
    /\ readDone =>
          io["read"] = "done" /\ ~hEvent["read"] /\ cbRead = InternalHigh["read"]
    /\ writeDone => io["write"] = "done" /\ ~hEvent["write"]
    /\ InternalHigh["write"] <= WriteLen

LEMMA LensAreNumbers ==
    WriteLen \in Nat \ {0} /\ ReadLen \in Nat \ {0} /\ \A s \in Seq(Nat) : Len(s) \in Nat
BY FilesAssumption DEF Overlapped!FileOverlappedAssumption

LEMMA OverlappedInit == Overlapped!Init => OverlappedInv
<1>. SUFFICES ASSUME Overlapped!Init PROVE OverlappedInv
  OBVIOUS
<1>1. 0 \in 0 .. WriteLen /\ 0 \in 0 .. ReadLen /\ 0 <= ReadLen /\ 0 <= WriteLen
  BY LensAreNumbers
<1>2. readBuff \in Seq(Nat) /\ Len(readBuff) = 0 /\ readBuff = [k \in 1 .. 0 |-> k]
  BY DEF Overlapped!Init
<1>3. Overlapped!TypeOK
  <2>1. /\ io \in [Overlapped!Op -> {"none", "pending", "done", "failed"}]
        /\ hEvent \in [Overlapped!Op -> BOOLEAN] /\ InternalHigh \in [Overlapped!Op -> Nat]
    BY DEF Overlapped!Init
  <2>. QED BY <1>1, <1>2, <2>1 DEF Overlapped!Init, Overlapped!TypeOK
<1>. QED BY <1>1, <1>2, <1>3 DEF OverlappedInv, Overlapped!Init, Overlapped!Op

\* The text is read one unit after the other.
LEMMA ReadGrows ==
    ASSUME NEW s \in Seq(Nat), s = [k \in 1 .. Len(s) |-> k]
    PROVE  LET t == Append(s, Len(s) + 1)
           IN  /\ t \in Seq(Nat) /\ Len(t) = Len(s) + 1
               /\ t = [k \in 1 .. Len(t) |-> k]
<1>. DEFINE t == Append(s, Len(s) + 1)
<1>1. Len(s) \in Nat /\ Len(s) + 1 \in Nat
  OBVIOUS
<1>2. /\ t \in Seq(Nat) /\ Len(t) = Len(s) + 1
      /\ \A k \in 1 .. Len(s) : t[k] = s[k]
      /\ t[Len(s) + 1] = Len(s) + 1
  BY <1>1, AppendProperties
<1>3. \A k \in 1 .. Len(s) : s[k] = k
  OBVIOUS
<1>4. t = [k \in 1 .. Len(t) |-> t[k]]
  BY <1>2
<1>. HIDE DEF t
<1>5. \A k \in 1 .. Len(t) : t[k] = k
  BY <1>1, <1>2, <1>3
<1>6. t = [k \in 1 .. Len(t) |-> k]
  BY <1>4, <1>5
<1>. QED BY <1>2, <1>6 DEF t

LEMMA TransferStep ==
    ASSUME OverlappedInv, Overlapped!Transfer
    PROVE  OverlappedInv'
<1>1. CASE readBuff' = readBuff
  <2>1. file' \in 0 .. WriteLen
    <3>1. file' = file \/ (file < WriteLen /\ file' = file + 1)
      BY DEF Overlapped!Transfer
    <3>2. file \in 0 .. WriteLen
      BY DEF OverlappedInv, Overlapped!TypeOK
    <3>. QED BY <3>1, <3>2, LensAreNumbers
  <2>2. Overlapped!TypeOK'
    BY <1>1, <2>1 DEF OverlappedInv, Overlapped!TypeOK, Overlapped!Transfer
  <2>. QED BY <1>1, <2>2 DEF OverlappedInv, Overlapped!Transfer
<1>2. CASE readBuff' # readBuff
  <2>1. /\ io["read"] = "pending" /\ Len(readBuff) < ReadLen /\ file' = file
        /\ readBuff' = Append(readBuff, Len(readBuff) + 1)
    BY <1>2 DEF Overlapped!Transfer
  <2>2. readBuff \in Seq(Nat) /\ readBuff = [k \in 1 .. Len(readBuff) |-> k]
    BY DEF OverlappedInv, Overlapped!TypeOK
  <2>3. /\ readBuff' \in Seq(Nat) /\ Len(readBuff') = Len(readBuff) + 1
        /\ readBuff' = [k \in 1 .. Len(readBuff') |-> k]
    BY <2>1, <2>2, ReadGrows
  <2>4. Len(readBuff') <= ReadLen
    <3>1. Len(readBuff) \in Nat /\ ReadLen \in Nat
      BY <2>2, FilesAssumption DEF Overlapped!FileOverlappedAssumption
    <3>. QED BY <2>1, <2>3, <3>1
  <2>5. Overlapped!TypeOK'
    BY <2>1, <2>3, <2>4 DEF OverlappedInv, Overlapped!TypeOK, Overlapped!Transfer
  <2>. QED BY <2>1, <2>3, <2>5 DEF OverlappedInv, Overlapped!Transfer
<1>. QED BY <1>1, <1>2

LEMMA OverlappedComplete ==
    ASSUME OverlappedInv, NEW o \in Overlapped!Op, Overlapped!Complete(o)
    PROVE  OverlappedInv'
<1>1. /\ file \in 0 .. WriteLen /\ Len(readBuff) \in Nat /\ WriteLen \in Nat
      /\ file' = file /\ readBuff' = readBuff
  BY LensAreNumbers DEF OverlappedInv, Overlapped!TypeOK, Overlapped!Complete
<1>. DEFINE n == IF o = "write" THEN file ELSE Len(readBuff)
<1>2. n \in Nat /\ (o = "write" => n <= WriteLen) /\ (o = "read" => n = Len(readBuff))
  BY <1>1
<1>3. InternalHigh' = [InternalHigh EXCEPT ![o] = n]
  BY DEF Overlapped!Complete
<1>. HIDE DEF n
<1>4. Overlapped!TypeOK'
  <2>1. /\ io' \in [Overlapped!Op -> {"none", "pending", "done", "failed"}]
        /\ hEvent' \in [Overlapped!Op -> BOOLEAN]
    BY DEF OverlappedInv, Overlapped!TypeOK, Overlapped!Complete
  <2>2. InternalHigh' \in [Overlapped!Op -> Nat]
    BY <1>2, <1>3 DEF OverlappedInv, Overlapped!TypeOK
  <2>. QED BY <2>1, <2>2, Zenon DEF OverlappedInv, Overlapped!TypeOK, Overlapped!Complete
<1>5. o \in {"read", "write"}
  BY DEF Overlapped!Op
<1>. QED BY <1>1, <1>2, <1>3, <1>4, <1>5
     DEF OverlappedInv, Overlapped!TypeOK, Overlapped!Complete, Overlapped!Op

LEMMA OverlappedMain ==
    ASSUME OverlappedInv, Overlapped!Main
    PROVE  OverlappedInv'
<1>1. CASE Overlapped!beginWrite
  <2>1. Overlapped!TypeOK'
    BY <1>1 DEF OverlappedInv, Overlapped!TypeOK, Overlapped!beginWrite, Overlapped!Begin
  <2>. QED BY <1>1, <2>1
       DEF OverlappedInv, Overlapped!TypeOK, Overlapped!beginWrite, Overlapped!Begin,
           Overlapped!Op
<1>2. CASE Overlapped!beginRead
  <2>1. Overlapped!TypeOK'
    BY <1>2 DEF OverlappedInv, Overlapped!TypeOK, Overlapped!beginRead, Overlapped!Begin
  <2>2. io'["read"] # "done" /\ foPc' = "wait" /\ ~readDone /\ ~hEvent["read"]
    BY <1>2 DEF OverlappedInv, Overlapped!TypeOK, Overlapped!beginRead, Overlapped!Begin,
       Overlapped!Op
  <2>3. io'["write"] = io["write"]
    BY <1>2 DEF OverlappedInv, Overlapped!TypeOK, Overlapped!beginRead, Overlapped!Begin,
       Overlapped!Op
  <2>. QED BY <1>2, <2>1, <2>2, <2>3 DEF OverlappedInv, Overlapped!beginRead, Overlapped!Begin
<1>3. CASE Overlapped!writeEvent
  <2>1. InternalHigh["write"] \in 0 .. WriteLen
    BY FilesAssumption DEF Overlapped!FileOverlappedAssumption, OverlappedInv,
       Overlapped!TypeOK, Overlapped!Op
  <2>2. Overlapped!TypeOK'
    BY <1>3, <2>1 DEF OverlappedInv, Overlapped!TypeOK, Overlapped!writeEvent
  <2>3. hEvent'["read"] = hEvent["read"] /\ ~hEvent'["write"]
    BY <1>3 DEF OverlappedInv, Overlapped!TypeOK, Overlapped!writeEvent, Overlapped!Op
  <2>. QED BY <1>3, <2>2, <2>3 DEF OverlappedInv, Overlapped!writeEvent, Overlapped!Waits
<1>4. CASE Overlapped!readEvent
  <2>1. io["read"] = "done" /\ InternalHigh["read"] = Len(readBuff)
    BY <1>4 DEF OverlappedInv, Overlapped!readEvent
  <2>2. cbRead' \in 0 .. ReadLen
    <3>1. cbRead' = Len(readBuff)
      BY <1>4, <2>1 DEF Overlapped!readEvent
    <3>2. readBuff \in Seq(Nat) /\ Len(readBuff) <= ReadLen
      BY DEF OverlappedInv, Overlapped!TypeOK
    <3>. QED BY <3>1, <3>2, LensAreNumbers
  <2>3. Overlapped!TypeOK'
    BY <1>4, <2>2 DEF OverlappedInv, Overlapped!TypeOK, Overlapped!readEvent
  <2>4. hEvent'["write"] = hEvent["write"] /\ ~hEvent'["read"]
    BY <1>4 DEF OverlappedInv, Overlapped!TypeOK, Overlapped!readEvent, Overlapped!Op
  <2>. QED BY <1>4, <2>1, <2>3, <2>4 DEF OverlappedInv, Overlapped!readEvent, Overlapped!Waits
<1>5. CASE Overlapped!timeout \/ Overlapped!leave
  <2>1. Overlapped!TypeOK'
    BY <1>5 DEF OverlappedInv, Overlapped!TypeOK, Overlapped!timeout, Overlapped!leave
  <2>. QED BY <1>5, <2>1 DEF OverlappedInv, Overlapped!timeout, Overlapped!leave
<1>. QED BY <1>1, <1>2, <1>3, <1>4, <1>5 DEF Overlapped!Main

LEMMA OverlappedNext == OverlappedInv /\ [Overlapped!Next]_Overlapped!vars => OverlappedInv'
<1>. SUFFICES ASSUME OverlappedInv, [Overlapped!Next]_Overlapped!vars PROVE OverlappedInv'
  OBVIOUS
<1>1. CASE UNCHANGED Overlapped!vars
  BY <1>1 DEF OverlappedInv, Overlapped!TypeOK, Overlapped!vars
<1>. QED BY <1>1, TransferStep, OverlappedComplete, OverlappedMain
     DEF Overlapped!Next, Overlapped!Disk

LEMMA ReadFollows == OverlappedInv => Overlapped!ReadIsReported
BY DEF OverlappedInv, Overlapped!TypeOK, Overlapped!ReadIsReported

LEMMA EventsLeft == OverlappedInv /\ [Overlapped!Next]_Overlapped!vars =>
    [foPc' = "left" => foPc = "left" \/ \A o \in Overlapped!Op : ~hEvent[o]]_Overlapped!vars
<1>. SUFFICES ASSUME OverlappedInv, Overlapped!Next, foPc' = "left", foPc # "left"
              PROVE  \A o \in Overlapped!Op : ~hEvent[o]
  OBVIOUS
<1>1. foPc' # foPc
  OBVIOUS
<1>2. ~Overlapped!Disk
  BY <1>1 DEF Overlapped!Disk, Overlapped!Transfer, Overlapped!Complete
<1>3. CASE Overlapped!timeout
  BY <1>3 DEF Overlapped!timeout
<1>4. CASE Overlapped!leave
  BY <1>4 DEF OverlappedInv, Overlapped!leave, Overlapped!Op
<1>5. ~ \/ Overlapped!beginWrite \/ Overlapped!beginRead
        \/ Overlapped!writeEvent \/ Overlapped!readEvent
  BY <1>1 DEF Overlapped!beginWrite, Overlapped!beginRead, Overlapped!Begin,
     Overlapped!writeEvent, Overlapped!readEvent
<1>. QED BY <1>2, <1>3, <1>4, <1>5 DEF Overlapped!Next, Overlapped!Main

-----------------------------------------------------------------------------
(***************************************************************************)
(* sharememorydemo                                                         *)
(***************************************************************************)

\* The mapping holds characters of the text at their places and 0 elsewhere, and all
\* that A says it has copied; it holds the whole text from when B has found A asleep as
\* long as B has it; B has the beginning of the text, and with the whole text in
\* the mapping it does not stop before its end.
SharedInv ==
    /\ Shared!TypeOK
    /\ \A k \in 1 .. BufLen : mem[k] \in {0, k} /\ (k > TextLen => mem[k] = 0)
    /\ a # "out" => \A k \in 1 .. aPos : mem[k] = k
    /\ a = "sleep" => aPos = TextLen
    /\ whole /\ Shared!BHolds => \A k \in 1 .. TextLen : mem[k] = k
    /\ Len(szBuffer) <= TextLen
    /\ szBuffer = [k \in 1 .. Len(szBuffer) |-> k]
    /\ whole /\ b = "print" => Len(szBuffer) = TextLen

LEMMA SharedLens ==
    /\ TextLen \in Nat \ {0} /\ BufLen \in Nat /\ TextLen < BufLen /\ MaxRuns \in Nat
    /\ 1 .. TextLen \subseteq 1 .. BufLen
BY FilesAssumption DEF Shared!SharedMemoryAssumption

LEMMA Characters ==
    ASSUME SharedInv
    PROVE  /\ \A k \in 1 .. BufLen : mem[k] \in {0, k} /\ (k > TextLen => mem[k] = 0)
           /\ mem \in [1 .. BufLen -> 0 .. TextLen] /\ aPos \in 0 .. TextLen
BY DEF SharedInv, Shared!TypeOK

LEMMA SharedInit == Shared!Init => SharedInv
<1>. SUFFICES ASSUME Shared!Init PROVE SharedInv
  OBVIOUS
<1>1. szBuffer \in Seq(0 .. TextLen) /\ Len(szBuffer) = 0 /\ szBuffer = [k \in 1 .. 0 |-> k]
  BY DEF Shared!Init
<1>2. mem \in [1 .. BufLen -> 0 .. TextLen] /\ \A k \in 1 .. BufLen : mem[k] = 0
  BY SharedLens DEF Shared!Init, Shared!Zero
<1>3. aPos \in 0 .. TextLen /\ runs \in [{"a", "b"} -> 0 .. MaxRuns] /\ 0 < BufLen
  BY SharedLens DEF Shared!Init
<1>4. Shared!TypeOK
  BY <1>1, <1>2, <1>3, Zenon DEF Shared!Init, Shared!TypeOK
<1>. QED BY <1>1, <1>2, <1>4, SharedLens DEF Shared!Init, SharedInv, Shared!BHolds

LEMMA StartedRuns ==
    ASSUME Shared!TypeOK, NEW p \in {"a", "b"}, Shared!Started(p)
    PROVE  runs' \in [{"a", "b"} -> 0 .. MaxRuns]
<1>1. runs \in [{"a", "b"} -> 0 .. MaxRuns] /\ runs[p] < MaxRuns
  BY DEF Shared!TypeOK, Shared!Started
<1>2. runs[p] + 1 \in 0 .. MaxRuns
  BY <1>1, SharedLens
<1>. QED BY <1>1, <1>2 DEF Shared!Started

LEMMA ACreateStep ==
    ASSUME SharedInv, Shared!aCreate
    PROVE  SharedInv'
<1>1. /\ b' = b /\ szBuffer' = szBuffer /\ whole' = whole /\ a' = "copy" /\ aPos' = 0
      /\ mem' = IF Shared!BHolds THEN mem ELSE Shared!Zero
  BY DEF Shared!aCreate
<1>2. /\ mem' \in [1 .. BufLen -> 0 .. TextLen]
      /\ \A k \in 1 .. BufLen : mem'[k] \in {0, k} /\ (k > TextLen => mem'[k] = 0)
  <2>1. CASE Shared!BHolds
    BY <1>1, <2>1, Characters
  <2>2. CASE ~Shared!BHolds
    <3>1. mem' = [k \in 1 .. BufLen |-> 0]
      BY <1>1, <2>2 DEF Shared!Zero
    <3>. QED BY <3>1, SharedLens
  <2>. QED BY <2>1, <2>2
<1>3. runs' \in [{"a", "b"} -> 0 .. MaxRuns]
  BY StartedRuns DEF SharedInv, Shared!aCreate
<1>4. Shared!TypeOK'
  <2>1. aPos' \in 0 .. TextLen
    BY <1>1, SharedLens
  <2>. QED BY <1>1, <1>2, <1>3, <2>1 DEF SharedInv, Shared!TypeOK
<1>5. Shared!BHolds' = Shared!BHolds
  BY <1>1 DEF Shared!BHolds
<1>. QED BY <1>1, <1>2, <1>4, <1>5 DEF SharedInv

LEMMA ACopyStep ==
    ASSUME SharedInv, Shared!aCopy
    PROVE  SharedInv'
<1>1. PICK n \in aPos + 1 .. TextLen :
          /\ mem' = [k \in 1 .. BufLen |-> IF k \in aPos + 1 .. n THEN k ELSE mem[k]]
          /\ aPos' = n
  BY DEF Shared!aCopy
<1>2. /\ a = "copy" /\ b' = b /\ szBuffer' = szBuffer /\ whole' = whole /\ runs' = runs
      /\ a' \in {"copy", "sleep"} /\ (a' = "sleep" => n = TextLen)
  BY <1>1 DEF Shared!aCopy
<1>3. aPos \in 0 .. TextLen /\ mem \in [1 .. BufLen -> 0 .. TextLen] /\ n \in 0 .. TextLen
  <2>. HIDE DEF SharedInv
  <2>1. aPos \in 0 .. TextLen /\ mem \in [1 .. BufLen -> 0 .. TextLen]
    BY Characters
  <2>2. n \in aPos + 1 .. TextLen
    OBVIOUS
  <2>. QED BY <2>1, <2>2, SharedLens
<1>4. mem' \in [1 .. BufLen -> 0 .. TextLen]
  BY <1>1, <1>3, SharedLens
<1>5. \A k \in 1 .. BufLen : mem'[k] = mem[k] \/ (mem'[k] = k /\ k <= TextLen)
  BY <1>1, <1>3, SharedLens
<1>6. \A k \in 1 .. n : mem'[k] = k
  <2>. SUFFICES ASSUME NEW k \in 1 .. n PROVE mem'[k] = k
    OBVIOUS
  <2>1. k \in 1 .. BufLen
    BY <1>3, SharedLens
  <2>2. k \in 1 .. aPos \/ k \in aPos + 1 .. n
    BY <1>3
  <2>3. k \in 1 .. aPos => mem[k] = k
    BY <1>2 DEF SharedInv
  <2>. QED BY <1>1, <2>1, <2>2, <2>3
<1>7. Shared!TypeOK'
  BY <1>1, <1>2, <1>3, <1>4 DEF SharedInv, Shared!TypeOK
<1>8. Shared!BHolds' = Shared!BHolds
  BY <1>2 DEF Shared!BHolds
<1>9. \A k \in 1 .. TextLen : mem[k] = k => mem'[k] = k
  BY <1>5, SharedLens
<1>10. \A k \in 1 .. BufLen : mem'[k] \in {0, k} /\ (k > TextLen => mem'[k] = 0)
  BY <1>5, SharedLens, Characters
<1>. QED BY <1>1, <1>2, <1>6, <1>7, <1>8, <1>9, <1>10 DEF SharedInv

LEMMA BOpenStep ==
    ASSUME SharedInv, Shared!bOpen
    PROVE  SharedInv'
<1>1. /\ mem' = mem /\ a' = a /\ aPos' = aPos /\ szBuffer' = <<>>
      /\ b' \in {"error", "copy"} /\ whole' = (a = "sleep")
  BY DEF Shared!bOpen
<1>2. runs' \in [{"a", "b"} -> 0 .. MaxRuns]
  BY StartedRuns DEF SharedInv, Shared!bOpen
<1>3. /\ szBuffer' \in Seq(0 .. TextLen) /\ Len(szBuffer') = 0
      /\ szBuffer' = [k \in 1 .. 0 |-> k]
  BY <1>1
<1>4. 0 < BufLen /\ 0 <= TextLen
  BY SharedLens
<1>5. Shared!TypeOK'
  BY <1>1, <1>2, <1>3, <1>4 DEF SharedInv, Shared!TypeOK
<1>6. whole' => \A k \in 1 .. TextLen : mem'[k] = k
  BY <1>1 DEF SharedInv
<1>. QED BY <1>1, <1>3, <1>4, <1>5, <1>6 DEF SharedInv

LEMMA BCopyStep ==
    ASSUME SharedInv, Shared!bCopy
    PROVE  SharedInv'
<1>. DEFINE p == Len(szBuffer) + 1
<1>1. /\ b = "copy" /\ mem' = mem /\ a' = a /\ aPos' = aPos /\ whole' = whole /\ runs' = runs
      /\ IF mem[p] = 0 THEN b' = "print" /\ szBuffer' = szBuffer
         ELSE szBuffer' = Append(szBuffer, mem[p]) /\ b' = b
  BY DEF Shared!bCopy
<1>2. /\ szBuffer \in Seq(0 .. TextLen) /\ Len(szBuffer) \in Nat /\ Len(szBuffer) <= TextLen
      /\ szBuffer = [k \in 1 .. Len(szBuffer) |-> k]
  BY DEF SharedInv, Shared!TypeOK
<1>3. p \in 1 .. BufLen
  BY <1>2, SharedLens
<1>4. Shared!BHolds /\ (Shared!BHolds')
  BY <1>1 DEF Shared!BHolds
<1>5. CASE mem[p] = 0
  <2>1. szBuffer' = szBuffer /\ b' = "print"
    BY <1>1, <1>5
  <2>2. Shared!TypeOK'
    BY <1>1, <2>1 DEF SharedInv, Shared!TypeOK
  <2>3. whole => Len(szBuffer) = TextLen
    <3>. SUFFICES ASSUME whole PROVE Len(szBuffer) = TextLen
      OBVIOUS
    <3>1. p \notin 1 .. TextLen
      <4>1. \A k \in 1 .. TextLen : mem[k] = k
        BY <1>4 DEF SharedInv
      <4>2. p # 0
        BY <1>2
      <4>. HIDE DEF p
      <4>. QED BY <1>5, <4>1, <4>2
    <3>2. Len(szBuffer) \in Nat /\ Len(szBuffer) <= TextLen
      BY <1>2
    <3>. QED BY <3>1, <3>2, SharedLens
  <2>. QED BY <1>1, <1>4, <2>1, <2>2, <2>3 DEF SharedInv
<1>6. CASE mem[p] # 0
  <2>1. szBuffer' = Append(szBuffer, mem[p]) /\ b' = b
    BY <1>1, <1>6
  <2>2. mem[p] = p /\ p <= TextLen
    <3>1. mem[p] \in {0, p} /\ (p > TextLen => mem[p] = 0)
      BY <1>3, Characters
    <3>. QED BY <1>2, <1>6, <3>1, SharedLens
  <2>3. /\ szBuffer' \in Seq(Nat) /\ Len(szBuffer') = p
        /\ szBuffer' = [k \in 1 .. Len(szBuffer') |-> k]
    <3>1. szBuffer \in Seq(Nat)
      BY <1>2, SharedLens
    <3>. QED BY <1>2, <2>1, <2>2, <3>1, ReadGrows
  <2>4. szBuffer' \in Seq(0 .. TextLen)
    <3>1. p \in 0 .. TextLen
      BY <1>2, <2>2, SharedLens
    <3>. QED BY <1>2, <2>1, <2>2, <3>1
  <2>5. Len(szBuffer') <= TextLen /\ Len(szBuffer') < BufLen
    BY <1>2, <2>2, <2>3, SharedLens
  <2>6. Shared!TypeOK'
    BY <1>1, <2>1, <2>4, <2>5 DEF SharedInv, Shared!TypeOK
  <2>. QED BY <1>1, <1>4, <2>1, <2>3, <2>5, <2>6 DEF SharedInv
<1>. QED BY <1>5, <1>6

LEMMA SharedEnd ==
    ASSUME SharedInv, Shared!aEnd \/ Shared!bEnd
    PROVE  SharedInv'
<1>1. Shared!TypeOK'
  BY DEF SharedInv, Shared!TypeOK, Shared!aEnd, Shared!bEnd
<1>2. Shared!BHolds' => Shared!BHolds
  BY DEF Shared!BHolds, Shared!aEnd, Shared!bEnd
<1>. QED BY <1>1, <1>2 DEF SharedInv, Shared!aEnd, Shared!bEnd

LEMMA SharedNext == SharedInv /\ [Shared!Next]_Shared!vars => SharedInv'
<1>. SUFFICES ASSUME SharedInv, [Shared!Next]_Shared!vars PROVE SharedInv'
  OBVIOUS
<1>1. CASE UNCHANGED Shared!vars
  BY <1>1 DEF SharedInv, Shared!TypeOK, Shared!BHolds, Shared!vars
<1>. QED BY <1>1, ACreateStep, ACopyStep, BOpenStep, BCopyStep, SharedEnd
     DEF Shared!Next, Shared!A, Shared!B

LEMMA WholeFollows == SharedInv => Shared!WholeIfAFirst
BY DEF SharedInv, Shared!WholeIfAFirst, Shared!Text

-----------------------------------------------------------------------------
(***************************************************************************)
(* AnonymousPipesDemo: the places of the threads, the wakeups, and the     *)
(* messages on their way                                                   *)
(***************************************************************************)

\* What the places of the threads say of the rest: nothing was sent before main
\* started, the events are made before the loop, a message is there to be written.
AnonPlaces ==
    \A p \in Anon!Process :
        /\ mainPc[p] = "start" => sent[p] = 0 /\ writePc[p] = "none"
        /\ writePc[p] = "none" => created[p] = 0
        /\ writePc[p] = "create" => created[p] \in {0, 1}
        /\ writePc[p] \in {"take", "write", "writing", "wait", "reset"} => created[p] = 2
        /\ writePc[p] = "writing" => tempList[p] # <<>>

\* NoLostWakeup from the moment the list was taken: a message queued since is
\* told of, or is about to be.
AnonTold ==
    \A p \in Anon!Process :
        writePc[p] \in {"write", "writing", "wait"} /\ writeMsgsList[p] # <<>>
            => notEmpty[p] \/ exit[p] \/ mainPc[p] \in {"signal", "returned"}

\* The inductive invariant
AnonInv == Anon!TypeOK /\ AnonPlaces /\ AnonTold /\ Anon!MsgsConserved

-----------------------------------------------------------------------------
LEMMA InitPipes == Anon!Init => AnonInv
<1>. SUFFICES ASSUME Anon!Init PROVE AnonInv
  OBVIOUS
<1>1. Anon!TypeOK
  BY DEF Anon!Init, Anon!TypeOK
<1>2. AnonPlaces /\ AnonTold
  BY DEF Anon!Init, AnonPlaces, AnonTold
<1>3. Anon!MsgsConserved
  <2>. SUFFICES ASSUME NEW p \in Anon!Process
                PROVE  <<>> \o <<>> \o <<>> \o <<>> \o <<>> = [k \in 1 .. 0 |-> k]
    BY DEF Anon!Init, Anon!MsgsConserved, Anon!Process, Anon!Other
  <2>. QED OBVIOUS
<1>. QED BY <1>1, <1>2, <1>3 DEF AnonInv

LEMMA OtherProcess == \A p \in Anon!Process : Anon!Other(p) \in Anon!Process /\ Anon!Other(p) # p
BY DEF Anon!Process, Anon!Other

LEMMA SetPipe ==
    ASSUME Anon!TypeOK, NEW p \in Anon!Process, NEW s \in Seq(Nat)
    PROVE  [pipe EXCEPT ![p] = s] \in [Anon!Process -> Seq(Nat)]
BY DEF Anon!TypeOK

-----------------------------------------------------------------------------
(***************************************************************************)
(* The types and the places                                                *)
(***************************************************************************)
LEMMA PushPlaces ==
    ASSUME Anon!TypeOK, AnonPlaces, NEW p \in Anon!Process, Anon!pushMsg(p)
    PROVE  Anon!TypeOK' /\ AnonPlaces'
<1>1. sent[p] + 1 \in Nat /\ Append(writeMsgsList[p], sent[p] + 1) \in Seq(Nat)
  BY DEF Anon!TypeOK
<1>2. Anon!TypeOK'
  BY <1>1 DEF Anon!pushMsg, Anon!Goes, Anon!TypeOK, Anon!pipeVars, Anon!eventVars,
         Anon!stopVars
<1>3. AnonPlaces'
  BY DEF Anon!pushMsg, Anon!Goes, Anon!TypeOK, AnonPlaces, Anon!eventVars
<1>. QED BY <1>2, <1>3

LEMMA EndPlaces ==
    ASSUME Anon!TypeOK, AnonPlaces, NEW p \in Anon!Process, Anon!EndProcess(p)
    PROVE  Anon!TypeOK' /\ AnonPlaces'
<1>1. pipe' \in [Anon!Process -> Seq(Nat)]
  <2>1. <<>> \in Seq(Nat) /\ Anon!Other(p) \in Anon!Process
    BY OtherProcess
  <2>. QED BY <2>1, SetPipe DEF Anon!EndProcess
<1>. QED BY <1>1 DEF Anon!EndProcess, Anon!Goes, Anon!TypeOK, AnonPlaces, Anon!listVars,
                Anon!eventVars, Anon!stopVars, Anon!historyVars

LEMMA MainPlaces ==
    ASSUME Anon!TypeOK, AnonPlaces, NEW p \in Anon!Process, Anon!MainThread(p)
    PROVE  Anon!TypeOK' /\ AnonPlaces'
<1>1. CASE Anon!startThreads(p)
  <2>1. pipe' \in [Anon!Process -> Seq(Nat)]
    <3>1. <<1>> \in Seq(Nat) /\ pipe \in [Anon!Process -> Seq(Nat)]
      BY DEF Anon!TypeOK
    <3>2. pipe' = pipe \/ pipe' = [pipe EXCEPT ![p] = <<1>>]
      BY <1>1 DEF Anon!startThreads
    <3>. QED BY <3>1, <3>2, SetPipe
  <2>2. sent' \in [Anon!Process -> Nat] /\ \A q \in Anon!Process : q # p => sent'[q] = sent[q]
    <3>1. sent' = sent \/ sent' = [sent EXCEPT ![p] = 1]
      BY <1>1 DEF Anon!startThreads
    <3>2. sent \in [Anon!Process -> Nat]
      BY DEF Anon!TypeOK
    <3>3. CASE sent' = sent
      BY <3>2, <3>3
    <3>4. CASE sent' = [sent EXCEPT ![p] = 1]
      BY <3>2, <3>4
    <3>. QED BY <3>1, <3>3, <3>4
  <2>3. Anon!TypeOK'
    BY <1>1, <2>1, <2>2 DEF Anon!startThreads, Anon!Goes, Anon!TypeOK, Anon!listVars,
           Anon!eventVars, Anon!stopVars
  <2>4. AnonPlaces'
    BY <1>1, <2>2 DEF Anon!startThreads, Anon!Goes, Anon!TypeOK, AnonPlaces, Anon!listVars,
           Anon!eventVars
  <2>. QED BY <2>3, <2>4
<1>2. CASE Anon!testStop(p)
  <2>1. Anon!TypeOK'
    BY <1>2 DEF Anon!testStop, Anon!Goes, Anon!TypeOK, Anon!pipeVars, Anon!listVars,
           Anon!eventVars, Anon!stopVars, Anon!historyVars
  <2>2. AnonPlaces'
    BY <1>2
    DEF Anon!testStop, Anon!Goes, Anon!TypeOK, AnonPlaces, Anon!pipeVars, Anon!listVars,
           Anon!eventVars, Anon!stopVars, Anon!historyVars
  <2>. QED BY <2>1, <2>2
<1>3. CASE Anon!pushMsg(p)
  BY <1>3, PushPlaces
<1>4. CASE Anon!pushNothing
  <2>1. Anon!TypeOK'
    BY <1>4 DEF Anon!pushNothing, Anon!Goes, Anon!TypeOK, Anon!pipeVars, Anon!listVars,
           Anon!eventVars, Anon!stopVars, Anon!historyVars
  <2>2. AnonPlaces'
    BY <1>4
    DEF Anon!pushNothing, Anon!Goes, Anon!TypeOK, AnonPlaces, Anon!pipeVars, Anon!listVars,
           Anon!eventVars, Anon!stopVars, Anon!historyVars
  <2>. QED BY <2>1, <2>2
<1>5. CASE Anon!setNotEmpty(p)
  <2>1. Anon!TypeOK'
    BY <1>5 DEF Anon!setNotEmpty, Anon!Goes, Anon!TypeOK, Anon!pipeVars, Anon!listVars,
           Anon!stopVars, Anon!historyVars
  <2>2. AnonPlaces'
    BY <1>5 DEF Anon!setNotEmpty, Anon!Goes, Anon!TypeOK, AnonPlaces, Anon!pipeVars,
           Anon!listVars, Anon!stopVars, Anon!historyVars
  <2>. QED BY <2>1, <2>2
<1>6. CASE Anon!dispatchMsgs(p)
  <2>1. Anon!TypeOK'
    BY <1>6 DEF Anon!dispatchMsgs, Anon!Goes, Anon!TypeOK, Anon!pipeVars, Anon!eventVars,
           Anon!stopVars
  <2>2. AnonPlaces'
    BY <1>6 DEF Anon!dispatchMsgs, Anon!Goes, Anon!TypeOK, AnonPlaces, Anon!pipeVars,
           Anon!eventVars, Anon!stopVars
  <2>. QED BY <2>1, <2>2
<1>7. CASE Anon!flushWr
  <2>1. (created["parent"] >= 1) \in BOOLEAN /\ "parent" \in Anon!Process
    BY DEF Anon!Process
  <2>2. wr' \in [Anon!Process -> BOOLEAN] /\ exit' \in [Anon!Process -> BOOLEAN]
    BY <1>7, <2>1 DEF Anon!flushWr, Anon!TypeOK
  <2>3. Anon!TypeOK'
    BY <1>7, <2>2 DEF Anon!flushWr, Anon!Goes, Anon!TypeOK, Anon!listVars, Anon!stopVars,
           Anon!historyVars
  <2>4. AnonPlaces'
    BY <1>7 DEF Anon!flushWr, Anon!Goes, Anon!TypeOK, AnonPlaces, Anon!listVars,
           Anon!historyVars
  <2>. QED BY <2>3, <2>4
<1>10. CASE Anon!closeWr
  <2>1. (created["parent"] >= 1) \in BOOLEAN /\ "parent" \in Anon!Process
    BY DEF Anon!Process
  <2>2. wr' \in [Anon!Process -> BOOLEAN] /\ exit' \in [Anon!Process -> BOOLEAN]
    BY <1>10, <2>1 DEF Anon!closeWr, Anon!TypeOK
  <2>3. Anon!TypeOK'
    BY <1>10, <2>2 DEF Anon!closeWr, Anon!Goes, Anon!TypeOK, Anon!listVars, Anon!stopVars,
           Anon!historyVars
  <2>4. AnonPlaces'
    BY <1>10 DEF Anon!closeWr, Anon!Goes, Anon!TypeOK, AnonPlaces, Anon!listVars,
           Anon!historyVars
  <2>. QED BY <2>3, <2>4
<1>8. CASE Anon!closeRd
  <2>1. pipe' \in [Anon!Process -> Seq(Nat)]
    <3>1. <<>> \in Seq(Nat) /\ "child" \in Anon!Process
      BY DEF Anon!Process
    <3>. QED BY <1>8, <3>1, SetPipe DEF Anon!closeRd
  <2>2. Anon!TypeOK'
    BY <1>8, <2>1 DEF Anon!closeRd, Anon!Goes, Anon!TypeOK, Anon!listVars, Anon!eventVars,
           Anon!stopVars, Anon!historyVars
  <2>3. AnonPlaces'
    BY <1>8 DEF Anon!closeRd, Anon!Goes, Anon!TypeOK, AnonPlaces, Anon!listVars,
           Anon!eventVars, Anon!historyVars
  <2>. QED BY <2>2, <2>3
<1>9. CASE Anon!returnFromMain(p)
  BY <1>9, EndPlaces DEF Anon!returnFromMain
<1>. QED BY <1>1, <1>2, <1>3, <1>4, <1>5, <1>6, <1>7, <1>8, <1>9, <1>10
         DEF Anon!MainThread, Anon!Main, Anon!ParentMain

LEMMA ReadPlaces ==
    ASSUME Anon!TypeOK, AnonPlaces, NEW p \in Anon!Process, Anon!ReadThread(p)
    PROVE  Anon!TypeOK' /\ AnonPlaces'
<1>1. CASE Anon!ReadFile(p)
  <2>1. Anon!TypeOK'
    BY <1>1 DEF Anon!ReadFile, Anon!Goes, Anon!TypeOK, Anon!pipeVars, Anon!listVars,
           Anon!eventVars, Anon!stopVars, Anon!historyVars
  <2>2. AnonPlaces'
    BY <1>1
    DEF Anon!ReadFile, Anon!Goes, Anon!TypeOK, AnonPlaces, Anon!pipeVars, Anon!listVars,
           Anon!eventVars, Anon!stopVars, Anon!historyVars
  <2>. QED BY <2>1, <2>2
<1>2. CASE Anon!readMsgs(p)
  <2>1. pipe' \in [Anon!Process -> Seq(Nat)]
    <3>1. <<>> \in Seq(Nat) /\ Anon!Other(p) \in Anon!Process
      BY OtherProcess
    <3>. QED BY <1>2, <3>1, SetPipe DEF Anon!readMsgs
  <2>2. readMsgsList' \in [Anon!Process -> Seq(Nat)]
    BY <1>2, OtherProcess DEF Anon!readMsgs, Anon!TypeOK
  <2>3. Anon!TypeOK'
    BY <1>2, <2>1, <2>2 DEF Anon!readMsgs, Anon!Goes, Anon!TypeOK, Anon!eventVars,
           Anon!stopVars, Anon!historyVars
  <2>4. AnonPlaces'
    BY <1>2 DEF Anon!readMsgs, Anon!Goes, Anon!TypeOK, AnonPlaces, Anon!eventVars,
           Anon!historyVars
  <2>. QED BY <2>3, <2>4
<1>3. CASE Anon!readFails(p)
  <2>1. Anon!TypeOK'
    BY <1>3 DEF Anon!readFails, Anon!Goes, Anon!TypeOK, Anon!pipeVars, Anon!listVars,
           Anon!eventVars, Anon!historyVars
  <2>2. AnonPlaces'
    BY <1>3 DEF Anon!readFails, Anon!Goes, Anon!TypeOK, AnonPlaces, Anon!pipeVars,
           Anon!listVars, Anon!eventVars, Anon!historyVars
  <2>. QED BY <2>1, <2>2
<1>. QED BY <1>1, <1>2, <1>3 DEF Anon!ReadThread

LEMMA WritePlaces ==
    ASSUME Anon!TypeOK, AnonPlaces, NEW p \in Anon!Process, Anon!WriteThread(p)
    PROVE  Anon!TypeOK' /\ AnonPlaces'
<1>1. CASE Anon!createEvent(p)
  <2>1. Anon!TypeOK'
    <3>1. created[p] \in 0 .. 1 /\ created \in [Anon!Process -> 0 .. 2]
      BY <1>1 DEF Anon!createEvent, Anon!TypeOK, AnonPlaces
    <3>2. created' \in [Anon!Process -> 0 .. 2]
      BY <1>1, <3>1 DEF Anon!createEvent
    <3>. QED BY <1>1, <3>2 DEF Anon!createEvent, Anon!Goes, Anon!TypeOK, Anon!pipeVars,
                    Anon!listVars, Anon!stopVars, Anon!historyVars
  <2>2. AnonPlaces'
    BY <1>1 DEF Anon!createEvent, Anon!Goes, Anon!TypeOK, AnonPlaces, Anon!pipeVars,
           Anon!listVars, Anon!stopVars, Anon!historyVars
  <2>. QED BY <2>1, <2>2
<1>2. CASE Anon!takeList(p)
  <2>1. Anon!TypeOK'
    BY <1>2 DEF Anon!takeList, Anon!Goes, Anon!TypeOK, Anon!pipeVars, Anon!eventVars,
           Anon!stopVars, Anon!historyVars
  <2>2. AnonPlaces'
    BY <1>2 DEF Anon!takeList, Anon!Goes, Anon!TypeOK, AnonPlaces, Anon!pipeVars,
           Anon!eventVars, Anon!stopVars, Anon!historyVars
  <2>. QED BY <2>1, <2>2
<1>3. CASE Anon!writeStopped(p)
  <2>1. Anon!TypeOK'
    BY <1>3 DEF Anon!writeStopped, Anon!Goes, Anon!TypeOK, Anon!pipeVars, Anon!listVars,
           Anon!eventVars, Anon!stopVars, Anon!historyVars
  <2>2. AnonPlaces'
    BY <1>3
    DEF Anon!writeStopped, Anon!Goes, Anon!TypeOK, AnonPlaces, Anon!pipeVars,
           Anon!listVars, Anon!eventVars, Anon!stopVars, Anon!historyVars
  <2>. QED BY <2>1, <2>2
<1>4. CASE Anon!WriteFile(p)
  <2>1. Anon!TypeOK'
    BY <1>4 DEF Anon!WriteFile, Anon!Goes, Anon!TypeOK, Anon!pipeVars, Anon!listVars,
           Anon!eventVars, Anon!stopVars, Anon!historyVars
  <2>2. AnonPlaces'
    BY <1>4
    DEF Anon!WriteFile, Anon!Goes, Anon!TypeOK, AnonPlaces, Anon!pipeVars, Anon!listVars,
           Anon!eventVars, Anon!stopVars, Anon!historyVars
  <2>. QED BY <2>1, <2>2
<1>5. CASE Anon!written(p)
  <2>1. tempList[p] \in Seq(Nat) /\ tempList[p] # <<>> /\ pipe[p] \in Seq(Nat)
    BY <1>5 DEF Anon!written, Anon!TypeOK, AnonPlaces
  <2>2. Head(tempList[p]) \in Nat /\ Tail(tempList[p]) \in Seq(Nat)
    BY <2>1
  <2>3. Append(pipe[p], Head(tempList[p])) \in Seq(Nat)
    BY <2>1, <2>2
  <2>4. pipe' \in [Anon!Process -> Seq(Nat)] /\ tempList' \in [Anon!Process -> Seq(Nat)]
    BY <1>5, <2>2, <2>3 DEF Anon!written, Anon!TypeOK
  <2>5. Anon!TypeOK'
    BY <1>5, <2>4 DEF Anon!written, Anon!Goes, Anon!TypeOK, Anon!eventVars, Anon!stopVars,
           Anon!historyVars
  <2>6. AnonPlaces'
    BY <1>5 DEF Anon!written, Anon!Goes, Anon!TypeOK, AnonPlaces, Anon!eventVars,
           Anon!historyVars
  <2>. QED BY <2>5, <2>6
<1>6. CASE Anon!writeFails(p)
  <2>1. Anon!TypeOK'
    BY <1>6 DEF Anon!writeFails, Anon!Goes, Anon!TypeOK, Anon!pipeVars, Anon!listVars,
           Anon!eventVars, Anon!historyVars
  <2>2. AnonPlaces'
    BY <1>6 DEF Anon!writeFails, Anon!Goes, Anon!TypeOK, AnonPlaces, Anon!pipeVars,
           Anon!listVars, Anon!eventVars, Anon!historyVars
  <2>. QED BY <2>1, <2>2
<1>7. CASE Anon!waitExit(p)
  <2>1. Anon!TypeOK'
    BY <1>7 DEF Anon!waitExit, Anon!Goes, Anon!TypeOK, Anon!pipeVars, Anon!listVars,
           Anon!stopVars, Anon!historyVars
  <2>2. AnonPlaces'
    BY <1>7 DEF Anon!waitExit, Anon!Goes, Anon!TypeOK, AnonPlaces, Anon!pipeVars,
           Anon!listVars, Anon!stopVars, Anon!historyVars
  <2>. QED BY <2>1, <2>2
<1>9. CASE Anon!waitNotEmpty(p)
  <2>1. Anon!TypeOK'
    BY <1>9 DEF Anon!waitNotEmpty, Anon!Goes, Anon!TypeOK, Anon!pipeVars, Anon!listVars,
           Anon!eventVars, Anon!stopVars, Anon!historyVars
  <2>2. AnonPlaces'
    BY <1>9
    DEF Anon!waitNotEmpty, Anon!Goes, Anon!TypeOK, AnonPlaces, Anon!pipeVars,
           Anon!listVars, Anon!eventVars, Anon!stopVars, Anon!historyVars
  <2>. QED BY <2>1, <2>2
<1>8. CASE Anon!resetNotEmpty(p)
  <2>1. Anon!TypeOK'
    BY <1>8 DEF Anon!resetNotEmpty, Anon!Goes, Anon!TypeOK, Anon!pipeVars, Anon!listVars,
           Anon!stopVars, Anon!historyVars
  <2>2. AnonPlaces'
    BY <1>8 DEF Anon!resetNotEmpty, Anon!Goes, Anon!TypeOK, AnonPlaces, Anon!pipeVars,
           Anon!listVars, Anon!stopVars, Anon!historyVars
  <2>. QED BY <2>1, <2>2
<1>. QED BY <1>1, <1>2, <1>3, <1>4, <1>5, <1>6, <1>7, <1>8, <1>9 DEF Anon!WriteThread

LEMMA NextPlaces ==
    ASSUME Anon!TypeOK, AnonPlaces, [Anon!Next]_Anon!vars
    PROVE  Anon!TypeOK' /\ AnonPlaces'
<1>1. ASSUME NEW p \in Anon!Process,
             Anon!MainThread(p) \/ Anon!ReadThread(p) \/ Anon!WriteThread(p) \/ Anon!kill(p)
      PROVE  Anon!TypeOK' /\ AnonPlaces'
  BY <1>1, MainPlaces, ReadPlaces, WritePlaces, EndPlaces DEF Anon!kill
<1>2. CASE Anon!pushMsg("parent")
  BY <1>2, PushPlaces DEF Anon!Process
<1>3. CASE Anon!exitLine
  <2>1. Anon!TypeOK'
    BY <1>3 DEF Anon!exitLine, Anon!Goes, Anon!TypeOK, Anon!pipeVars, Anon!listVars,
           Anon!eventVars, Anon!stopVars, Anon!historyVars
  <2>2. AnonPlaces'
    BY <1>3
    DEF Anon!exitLine, Anon!Goes, Anon!TypeOK, AnonPlaces, Anon!pipeVars, Anon!listVars,
           Anon!eventVars, Anon!stopVars, Anon!historyVars
  <2>. QED BY <2>1, <2>2
<1>4. CASE UNCHANGED Anon!vars
  <2>1. Anon!TypeOK'
    BY <1>4 DEF Anon!vars, Anon!pcVars, Anon!TypeOK, Anon!pipeVars, Anon!listVars,
           Anon!eventVars, Anon!stopVars, Anon!historyVars
  <2>2. AnonPlaces'
    BY <1>4 DEF Anon!vars, Anon!pcVars, Anon!TypeOK, AnonPlaces, Anon!pipeVars,
           Anon!listVars, Anon!eventVars, Anon!stopVars, Anon!historyVars
  <2>. QED BY <2>1, <2>2
<1>. QED BY <1>1, <1>2, <1>3, <1>4 DEF Anon!Next

-----------------------------------------------------------------------------
(***************************************************************************)
(* The wakeups                                                             *)
(***************************************************************************)

LEMMA MainTold ==
    ASSUME Anon!TypeOK, AnonPlaces, AnonTold, NEW p \in Anon!Process,
           \/ Anon!MainThread(p) \/ Anon!kill(p)
           \/ p = "parent" /\ (Anon!pushMsg(p) \/ Anon!exitLine)
    PROVE  AnonTold'
<1>1. CASE Anon!startThreads(p)
  BY <1>1 DEF Anon!startThreads, Anon!Goes, Anon!TypeOK, AnonTold, Anon!listVars,
         Anon!eventVars
<1>8. CASE Anon!testStop(p)
  BY <1>8 DEF Anon!testStop, Anon!Goes, Anon!TypeOK, AnonTold, Anon!listVars, Anon!eventVars
<1>2. CASE Anon!pushMsg(p)
  <2>. SUFFICES ASSUME NEW q \in Anon!Process,
                       writePc[q] \in {"write", "writing", "wait"}, writeMsgsList'[q] # <<>>
                PROVE  notEmpty[q] \/ exit[q] \/ mainPc'[q] \in {"signal", "returned"}
    BY <1>2 DEF Anon!pushMsg, AnonTold, Anon!eventVars
  <2>1. CASE q = p
    BY <1>2, <2>1 DEF Anon!pushMsg, Anon!Goes, AnonTold, Anon!TypeOK
  <2>2. CASE q # p
    BY <1>2, <2>2 DEF Anon!pushMsg, Anon!Goes, AnonTold, Anon!TypeOK
  <2>. QED BY <2>1, <2>2
<1>3. CASE Anon!pushNothing
  BY <1>3 DEF Anon!pushNothing, Anon!Goes, Anon!TypeOK, AnonTold, Anon!listVars,
         Anon!eventVars
<1>11. CASE Anon!exitLine
  BY <1>11 DEF Anon!exitLine, Anon!Goes, Anon!TypeOK, AnonTold, Anon!listVars,
         Anon!eventVars
<1>4. CASE Anon!setNotEmpty(p)
  BY <1>4 DEF Anon!setNotEmpty, Anon!Goes, Anon!TypeOK, AnonPlaces, AnonTold, Anon!listVars
<1>5. CASE Anon!dispatchMsgs(p)
  BY <1>5 DEF Anon!dispatchMsgs, Anon!Goes, Anon!TypeOK, AnonTold, Anon!eventVars
<1>6. CASE Anon!flushWr
  BY <1>6, SMTT(20) DEF Anon!flushWr, Anon!Goes, Anon!TypeOK, AnonPlaces, AnonTold,
         Anon!listVars
<1>9. CASE Anon!closeWr
  BY <1>9, SMTT(20) DEF Anon!closeWr, Anon!Goes, Anon!TypeOK, AnonPlaces, AnonTold,
         Anon!listVars
<1>10. CASE Anon!closeRd
  BY <1>10 DEF Anon!closeRd, Anon!Goes, Anon!TypeOK, AnonTold, Anon!listVars, Anon!eventVars
<1>7. CASE Anon!EndProcess(p)
  BY <1>7 DEF Anon!EndProcess, Anon!Goes, Anon!TypeOK, AnonTold, Anon!listVars,
         Anon!eventVars
<1>. QED BY <1>1, <1>2, <1>3, <1>4, <1>5, <1>6, <1>7, <1>8, <1>9, <1>10, <1>11
         DEF Anon!MainThread, Anon!Main, Anon!ParentMain, Anon!returnFromMain, Anon!kill

LEMMA ThreadsTold ==
    ASSUME Anon!TypeOK, AnonTold, NEW p \in Anon!Process, Anon!ReadThread(p) \/ Anon!WriteThread(p)
    PROVE  AnonTold'
<1>1. CASE Anon!ReadThread(p)
  BY <1>1 DEF Anon!ReadThread, Anon!ReadFile, Anon!readMsgs, Anon!readFails, AnonTold,
         Anon!listVars, Anon!eventVars
<1>2. CASE Anon!createEvent(p)
  BY <1>2 DEF Anon!createEvent, Anon!Goes, Anon!TypeOK, AnonTold, Anon!listVars
<1>10. CASE Anon!writeStopped(p)
  BY <1>10 DEF Anon!writeStopped, Anon!Goes, Anon!TypeOK, AnonTold, Anon!listVars,
         Anon!eventVars
<1>3. CASE Anon!takeList(p)
  BY <1>3 DEF Anon!takeList, Anon!Goes, Anon!TypeOK, AnonTold, Anon!eventVars
<1>4. CASE Anon!WriteFile(p)
  BY <1>4 DEF Anon!WriteFile, Anon!Goes, Anon!TypeOK, AnonTold, Anon!listVars,
         Anon!eventVars
<1>5. CASE Anon!written(p)
  BY <1>5 DEF Anon!written, Anon!Goes, Anon!TypeOK, AnonTold, Anon!eventVars
<1>6. CASE Anon!writeFails(p)
  BY <1>6 DEF Anon!writeFails, Anon!Goes, Anon!TypeOK, AnonTold, Anon!listVars,
         Anon!eventVars
<1>7. CASE Anon!waitExit(p)
  BY <1>7 DEF Anon!waitExit, Anon!Goes, Anon!TypeOK, AnonTold, Anon!listVars
<1>8. CASE Anon!waitNotEmpty(p)
  BY <1>8 DEF Anon!waitNotEmpty, Anon!Goes, Anon!TypeOK, AnonTold, Anon!listVars,
         Anon!eventVars
<1>9. CASE Anon!resetNotEmpty(p)
  BY <1>9 DEF Anon!resetNotEmpty, Anon!Goes, Anon!TypeOK, AnonTold, Anon!listVars
<1>. QED BY <1>1, <1>2, <1>3, <1>4, <1>5, <1>6, <1>7, <1>8, <1>9, <1>10 DEF Anon!WriteThread

LEMMA NextTold == Anon!TypeOK /\ AnonPlaces /\ AnonTold /\ [Anon!Next]_Anon!vars => AnonTold'
<1>1. UNCHANGED Anon!vars /\ AnonTold => AnonTold'
  BY DEF Anon!vars, Anon!pcVars, AnonTold, Anon!listVars, Anon!eventVars
<1>. QED BY <1>1, MainTold, ThreadsTold DEF Anon!Next, Anon!Process

-----------------------------------------------------------------------------
(***************************************************************************)
(* The messages                                                            *)
(***************************************************************************)
\* All that p queued, from what the other has dispatched to what still waits.
OnItsWay(p) ==
    LET q == Anon!Other(p)
    IN  Cat(Cat(Cat(Cat(dispatched[q], readMsgsList[q]), pipe[p]), tempList[p]),
            writeMsgsList[p])

UpTo(n) == [k \in 1 .. n |-> k]

Connected(p) == wr[p] /\ rd[Anon!Other(p)]

LEMMA UpToAppend ==
    ASSUME NEW n \in Nat
    PROVE  UpTo(n + 1) = Append(UpTo(n), n + 1)
<1>1. /\ UpTo(n) \in Seq(Nat) /\ UpTo(n + 1) \in Seq(Nat)
      /\ Len(UpTo(n)) = n /\ Len(UpTo(n + 1)) = n + 1
  BY DEF UpTo
<1>2. /\ Append(UpTo(n), n + 1) \in Seq(Nat) /\ Len(Append(UpTo(n), n + 1)) = n + 1
      /\ \A i \in 1 .. n : Append(UpTo(n), n + 1)[i] = UpTo(n)[i]
      /\ Append(UpTo(n), n + 1)[n + 1] = n + 1
  BY <1>1, AppendProperties
<1>3. \A i \in 1 .. n + 1 : UpTo(n + 1)[i] = Append(UpTo(n), n + 1)[i]
  BY <1>2 DEF UpTo
<1>. QED BY <1>1, <1>2, <1>3, SeqEqual

LEMMA CatIsEmpty ==
    ASSUME NEW s \in Seq(Nat), NEW t \in Seq(Nat), Cat(s, t) = <<>>
    PROVE  s = <<>> /\ t = <<>>
BY ConcatEqualIffEmpty DEF Cat

LEMMA PutLast ==
    ASSUME NEW s \in Seq(Nat), NEW t \in Seq(Nat), NEW x \in Nat
    PROVE  Cat(s, Append(t, x)) = Append(Cat(s, t), x)
<1>1. s \o t \in Seq(Nat) /\ <<x>> \in Seq(Nat)
  BY ConcatProperties
<1>2. Append(t, x) = t \o <<x>> /\ Append(s \o t, x) = (s \o t) \o <<x>>
  BY <1>1, AppendIsConcat
<1>. QED BY <1>1, <1>2, ConcatAssociative DEF Cat

\* What moves from the front of one list to the end of the one before stays in order.
LEMMA MoveAll ==
    ASSUME NEW s \in Seq(Nat), NEW t \in Seq(Nat), NEW u \in Seq(Nat)
    PROVE  Cat(Cat(s, Cat(t, u)), <<>>) = Cat(Cat(s, t), u)
<1>1. (s \o t) \o u = s \o (t \o u)
  BY ConcatAssociative, SMTT(20)
<1>2. (s \o t) \o u \in Seq(Nat)
  BY ConcatProperties
<1>3. ((s \o t) \o u) \o <<>> = (s \o t) \o u
  BY <1>2, ConcatEmptySeq
<1>. QED BY <1>1, <1>3 DEF Cat

LEMMA MoveFirst ==
    ASSUME NEW s \in Seq(Nat), NEW t \in Seq(Nat), NEW u \in Seq(Nat), u # <<>>
    PROVE  Cat(Cat(s, Append(t, Head(u))), Tail(u)) = Cat(Cat(s, t), u)
<1>1. Cat(s, t) \in Seq(Nat) /\ Head(u) \in Nat
  BY CatType, HeadTailProperties
<1>2. Cat(s, Append(t, Head(u))) = Append(Cat(s, t), Head(u))
  BY <1>1, PutLast
<1>3. Cat(Append(Cat(s, t), Head(u)), Tail(u)) = Cat(Cat(s, t), u)
  BY <1>1, CatMoved
<1>. QED BY <1>2, <1>3

LEMMA ListTypes ==
    ASSUME Anon!TypeOK, NEW p \in Anon!Process
    PROVE  /\ dispatched[Anon!Other(p)] \in Seq(Nat) /\ readMsgsList[Anon!Other(p)] \in Seq(Nat)
           /\ pipe[p] \in Seq(Nat) /\ tempList[p] \in Seq(Nat) /\ writeMsgsList[p] \in Seq(Nat)
           /\ sent[p] \in Nat /\ Anon!Other(Anon!Other(p)) = p
BY OtherProcess DEF Anon!TypeOK, Anon!Other, Anon!Process

LEMMA Conserved ==
    Anon!MsgsConserved <=> \A p \in Anon!Process : Connected(p) => OnItsWay(p) = UpTo(sent[p])
BY DEF Anon!MsgsConserved, Connected, OnItsWay, UpTo, Cat

\* A message more is queued.
LEMMA PushConserved ==
    ASSUME Anon!TypeOK, NEW p \in Anon!Process, Anon!pushMsg(p), OnItsWay(p) = UpTo(sent[p])
    PROVE  OnItsWay(p)' = UpTo(sent'[p])
<1>. DEFINE front ==
         Cat(Cat(Cat(dispatched[Anon!Other(p)], readMsgsList[Anon!Other(p)]), pipe[p]), tempList[p])
            n == sent[p] + 1
<1>1. front \in Seq(Nat) /\ writeMsgsList[p] \in Seq(Nat) /\ sent[p] \in Nat /\ n \in Nat
  <2>1. writeMsgsList[p] \in Seq(Nat) /\ sent[p] \in Nat /\ n \in Nat
    BY ListTypes
  <2>2. Cat(Cat(dispatched[Anon!Other(p)], readMsgsList[Anon!Other(p)]), pipe[p]) \in Seq(Nat)
    BY ListTypes, CatType
  <2>3. front \in Seq(Nat)
    BY <2>2, ListTypes, CatType
  <2>. QED BY <2>1, <2>3
<1>2. /\ writeMsgsList'[p] = Append(writeMsgsList[p], n) /\ sent'[p] = n
      /\ UNCHANGED <<dispatched, readMsgsList, pipe, tempList>>
  BY DEF Anon!pushMsg, Anon!pipeVars, Anon!TypeOK
<1>3. OnItsWay(p)' = Cat(front, Append(writeMsgsList[p], n))
  BY <1>2 DEF OnItsWay
<1>4. Cat(front, Append(writeMsgsList[p], n)) = Append(Cat(front, writeMsgsList[p]), n)
  BY <1>1, PutLast
<1>5. Cat(front, writeMsgsList[p]) = UpTo(sent[p])
  BY DEF OnItsWay
<1>. QED BY <1>1, <1>2, <1>3, <1>4, <1>5, UpToAppend

\* The write thread moves the queue to its own list, or a message to the pipe.
LEMMA WriteConserved ==
    ASSUME Anon!TypeOK, AnonPlaces, NEW p \in Anon!Process, Anon!takeList(p) \/ Anon!written(p)
    PROVE  OnItsWay(p)' = OnItsWay(p)
<1>. DEFINE got == Cat(dispatched[Anon!Other(p)], readMsgsList[Anon!Other(p)])
            piped == Cat(got, pipe[p])
<1>1. /\ got \in Seq(Nat) /\ pipe[p] \in Seq(Nat) /\ tempList[p] \in Seq(Nat)
      /\ piped \in Seq(Nat) /\ writeMsgsList[p] \in Seq(Nat)
  BY ListTypes, CatType
<1>2. CASE Anon!takeList(p)
  <2>1. /\ tempList'[p] = Cat(tempList[p], writeMsgsList[p]) /\ writeMsgsList'[p] = <<>>
        /\ UNCHANGED <<dispatched, readMsgsList, pipe>>
    BY <1>2 DEF Anon!takeList, Anon!TypeOK, Anon!pipeVars, Anon!historyVars, Cat
  <2>2. OnItsWay(p)' = Cat(Cat(piped, Cat(tempList[p], writeMsgsList[p])), <<>>)
    BY <2>1 DEF OnItsWay
  <2>. QED BY <1>1, <2>2, MoveAll DEF OnItsWay
<1>3. CASE Anon!written(p)
  <2>1. /\ pipe'[p] = Append(pipe[p], Head(tempList[p])) /\ tempList'[p] = Tail(tempList[p])
        /\ UNCHANGED <<dispatched, readMsgsList, writeMsgsList>> /\ tempList[p] # <<>>
    BY <1>3 DEF Anon!written, Anon!TypeOK, Anon!historyVars, AnonPlaces
  <2>2. OnItsWay(p)' = Cat(Cat(Cat(got, Append(pipe[p], Head(tempList[p]))), Tail(tempList[p])),
                           writeMsgsList[p])
    BY <2>1 DEF OnItsWay
  <2>. QED BY <1>1, <2>1, <2>2, MoveFirst DEF OnItsWay
<1>. QED BY <1>2, <1>3

\* The other's read thread takes all of the pipe, its main all of the list.
LEMMA ReadConserved ==
    ASSUME Anon!TypeOK, NEW p \in Anon!Process,
           Anon!readMsgs(Anon!Other(p)) \/ Anon!dispatchMsgs(Anon!Other(p))
    PROVE  OnItsWay(p)' = OnItsWay(p)
<1>. DEFINE q == Anon!Other(p)
<1>1. /\ dispatched[q] \in Seq(Nat) /\ readMsgsList[q] \in Seq(Nat) /\ pipe[p] \in Seq(Nat)
      /\ Cat(dispatched[q], readMsgsList[q]) \in Seq(Nat)
  BY ListTypes, CatType
<1>2. q \in Anon!Process /\ Anon!Other(q) = p
  BY ListTypes, OtherProcess
<1>3. CASE Anon!readMsgs(q)
  <2>1. readMsgsList'[q] = Cat(readMsgsList[q], pipe[p])
    BY <1>2, <1>3 DEF Anon!readMsgs, Anon!TypeOK, Cat
  <2>2. pipe'[p] = <<>> /\ UNCHANGED <<dispatched, tempList, writeMsgsList>>
    BY <1>2, <1>3 DEF Anon!readMsgs, Anon!TypeOK, Anon!historyVars
  <2>3. OnItsWay(p)' = Cat(Cat(Cat(Cat(dispatched[q], Cat(readMsgsList[q], pipe[p])), <<>>),
                               tempList[p]), writeMsgsList[p])
    BY <2>1, <2>2 DEF OnItsWay
  <2>. QED BY <1>1, <2>3, MoveAll DEF OnItsWay
<1>4. CASE Anon!dispatchMsgs(q)
  <2>1. /\ dispatched'[q] = Cat(dispatched[q], readMsgsList[q]) /\ readMsgsList'[q] = <<>>
        /\ UNCHANGED <<pipe, tempList, writeMsgsList>>
    BY <1>2, <1>4 DEF Anon!dispatchMsgs, Anon!TypeOK, Anon!pipeVars, Cat
  <2>2. Cat(Cat(dispatched[q], readMsgsList[q]), <<>>) = Cat(dispatched[q], readMsgsList[q])
    BY <1>1, CatEmpty
  <2>. QED BY <2>1, <2>2 DEF OnItsWay
<1>. QED BY <1>3, <1>4

\* The child's greeting.
LEMMA StartConserved ==
    ASSUME Anon!TypeOK, AnonPlaces, NEW p \in Anon!Process, Anon!startThreads(p),
           OnItsWay(p) = UpTo(sent[p]), Connected(p)
    PROVE  OnItsWay(p)' = UpTo(sent'[p])
<1>1. CASE p = "parent"
  BY <1>1 DEF Anon!startThreads, OnItsWay, Anon!listVars
<1>2. CASE p = "child"
  <2>1. sent[p] = 0 /\ rd["parent"]
    BY <1>2 DEF Anon!startThreads, AnonPlaces, Connected, Anon!Other
  <2>2. OnItsWay(p) = <<>>
    BY <2>1 DEF UpTo
  <2>3. /\ dispatched[Anon!Other(p)] = <<>> /\ readMsgsList[Anon!Other(p)] = <<>>
        /\ tempList[p] = <<>> /\ writeMsgsList[p] = <<>>
    <3>. DEFINE s == dispatched[Anon!Other(p)]
                t == readMsgsList[Anon!Other(p)]
    <3>1. /\ s \in Seq(Nat) /\ t \in Seq(Nat) /\ pipe[p] \in Seq(Nat)
          /\ tempList[p] \in Seq(Nat) /\ writeMsgsList[p] \in Seq(Nat)
          /\ Cat(s, t) \in Seq(Nat) /\ Cat(Cat(s, t), pipe[p]) \in Seq(Nat)
          /\ Cat(Cat(Cat(s, t), pipe[p]), tempList[p]) \in Seq(Nat)
      BY ListTypes, CatType
    <3>. QED BY <2>2, <3>1, CatIsEmpty DEF OnItsWay
  <2>4. /\ sent'[p] = 1 /\ pipe'[p] = <<1>>
        /\ UNCHANGED <<dispatched, readMsgsList, tempList, writeMsgsList>>
    BY <1>2, <2>1 DEF Anon!startThreads, Anon!TypeOK, Anon!listVars
  <2>5. OnItsWay(p)' = <<>> \o <<>> \o <<1>> \o <<>> \o <<>>
    BY <2>3, <2>4 DEF OnItsWay, Cat
  <2>6. <<>> \o <<>> \o <<1>> \o <<>> \o <<>> = [k \in 1 .. 1 |-> k]
    OBVIOUS
  <2>. QED BY <2>4, <2>5, <2>6 DEF UpTo
<1>. QED BY <1>1, <1>2 DEF Anon!Process

\* The other steps touch no list of a direction that is still open, and no step
\* opens one again.
LEMMA OthersConserved ==
    ASSUME Anon!TypeOK, [Anon!Next]_Anon!vars, NEW p \in Anon!Process, Connected(p)',
           ~ Anon!pushMsg(p), ~ Anon!takeList(p), ~ Anon!written(p), ~ Anon!readMsgs(Anon!Other(p)),
           ~ Anon!dispatchMsgs(Anon!Other(p)), ~ Anon!startThreads(p)
    PROVE  OnItsWay(p)' = OnItsWay(p) /\ sent'[p] = sent[p]
<1>. DEFINE Same == /\ dispatched'[Anon!Other(p)] = dispatched[Anon!Other(p)]
                    /\ readMsgsList'[Anon!Other(p)] = readMsgsList[Anon!Other(p)]
                    /\ pipe'[p] = pipe[p] /\ tempList'[p] = tempList[p]
                    /\ writeMsgsList'[p] = writeMsgsList[p] /\ sent'[p] = sent[p]
<1>1. SUFFICES Same
  BY DEF OnItsWay
<1>2. Anon!Other(p) \in Anon!Process /\ \A q \in Anon!Process : q = p \/ q = Anon!Other(p)
  BY DEF Anon!Process, Anon!Other
<1>3. ASSUME NEW q \in Anon!Process, Anon!EndProcess(q) PROVE Same
  <2>1. q = Anon!Other(p) => ~rd'[Anon!Other(p)]
    BY <1>3 DEF Anon!EndProcess, Anon!TypeOK
  <2>2. q = p => ~wr'[p]
    BY <1>3 DEF Anon!EndProcess, Anon!TypeOK
  <2>. QED BY <1>2, <2>1, <2>2 DEF Connected
<1>10. ASSUME NEW q \in Anon!Process, Anon!pushMsg(q) PROVE Same
  <2>1. CASE q = p
    BY <1>10, <2>1 DEF Anon!pushMsg, Anon!TypeOK, Anon!pipeVars
  <2>2. CASE q # p
    BY <1>10, <2>2 DEF Anon!pushMsg, Anon!TypeOK, Anon!pipeVars
  <2>. QED BY <2>1, <2>2
<1>4. ASSUME NEW q \in Anon!Process, Anon!MainThread(q) PROVE Same
  <2>1. CASE Anon!startThreads(q)
    BY <1>2, <2>1 DEF Anon!startThreads, Anon!TypeOK, Anon!listVars
  <2>2. CASE Anon!pushMsg(q)
    BY <1>10, <2>2
  <2>3. CASE Anon!dispatchMsgs(q)
    BY <1>2, <2>3 DEF Anon!dispatchMsgs, Anon!TypeOK, Anon!pipeVars
  <2>4. CASE Anon!closeRd
    BY <2>4 DEF Anon!closeRd, Anon!TypeOK, Connected, Anon!Process, Anon!Other,
           Anon!listVars, Anon!historyVars
  <2>5. CASE \/ Anon!testStop(q) \/ Anon!setNotEmpty(q) \/ Anon!pushNothing
             \/ Anon!flushWr \/ Anon!closeWr
    BY <2>5 DEF Anon!testStop, Anon!setNotEmpty, Anon!pushNothing, Anon!flushWr,
           Anon!closeWr, Anon!pipeVars, Anon!listVars, Anon!historyVars
  <2>6. CASE Anon!EndProcess(q)
    BY <1>3, <2>6
  <2>. QED BY <1>4, <2>1, <2>2, <2>3, <2>4, <2>5, <2>6
           DEF Anon!MainThread, Anon!Main, Anon!ParentMain, Anon!returnFromMain
<1>5. ASSUME NEW q \in Anon!Process, Anon!ReadThread(q) PROVE Same
  <2>1. CASE Anon!readMsgs(q)
    <3>1. q = p
      BY <1>2, <2>1
    <3>. QED BY <2>1, <3>1, OtherProcess DEF Anon!readMsgs, Anon!TypeOK, Anon!historyVars
  <2>2. CASE Anon!ReadFile(q) \/ Anon!readFails(q)
    BY <2>2 DEF Anon!ReadFile, Anon!readFails, Anon!pipeVars, Anon!listVars,
           Anon!historyVars
  <2>. QED BY <1>5, <2>1, <2>2 DEF Anon!ReadThread
<1>6. ASSUME NEW q \in Anon!Process, Anon!WriteThread(q) PROVE Same
  <2>1. CASE Anon!takeList(q)
    BY <1>2, <2>1 DEF Anon!takeList, Anon!TypeOK, Anon!pipeVars, Anon!historyVars
  <2>2. CASE Anon!written(q)
    BY <1>2, <2>2 DEF Anon!written, Anon!TypeOK, Anon!historyVars
  <2>3. CASE ~Anon!takeList(q) /\ ~Anon!written(q)
    BY <1>6, <2>3 DEF Anon!WriteThread, Anon!createEvent, Anon!writeStopped,
           Anon!WriteFile, Anon!writeFails, Anon!waitExit, Anon!waitNotEmpty,
           Anon!resetNotEmpty, Anon!pipeVars, Anon!listVars, Anon!historyVars
  <2>. QED BY <2>1, <2>2, <2>3
<1>7. CASE Anon!pushMsg("parent")
  BY <1>7, <1>10 DEF Anon!Process
<1>8. CASE Anon!exitLine \/ UNCHANGED Anon!vars
  BY <1>8 DEF Anon!exitLine, Anon!vars, Anon!pipeVars, Anon!listVars, Anon!historyVars
<1>. HIDE DEF Same
<1>9. ASSUME NEW q \in Anon!Process, Anon!kill(q) PROVE Same
  BY <1>3, <1>9 DEF Anon!kill
<1>. QED BY <1>4, <1>5, <1>6, <1>7, <1>8, <1>9 DEF Anon!Next

LEMMA StaysClosed ==
    ASSUME Anon!TypeOK, [Anon!Next]_Anon!vars, NEW p \in Anon!Process, Connected(p)'
    PROVE  Connected(p)
<1>. DEFINE Closing == \A q \in Anon!Process : (wr'[q] => wr[q]) /\ (rd'[q] => rd[q])
<1>1. ASSUME NEW q \in Anon!Process, Anon!EndProcess(q) PROVE Closing
  BY <1>1 DEF Anon!EndProcess, Anon!TypeOK
<1>2. ASSUME Anon!flushWr \/ Anon!closeWr PROVE Closing
  BY <1>2 DEF Anon!flushWr, Anon!closeWr, Anon!TypeOK
<1>3. ASSUME Anon!closeRd PROVE Closing
  BY <1>3 DEF Anon!closeRd, Anon!TypeOK
<1>4. ASSUME NEW q \in Anon!Process, Anon!MainThread(q) \/ Anon!pushMsg(q) \/ Anon!exitLine
      PROVE  Closing
  BY <1>1, <1>2, <1>3, <1>4
     DEF Anon!MainThread, Anon!Main, Anon!ParentMain, Anon!startThreads, Anon!testStop,
            Anon!pushMsg, Anon!pushNothing, Anon!setNotEmpty, Anon!dispatchMsgs,
            Anon!exitLine, Anon!returnFromMain, Anon!pipeVars
<1>5. ASSUME NEW q \in Anon!Process, Anon!ReadThread(q) PROVE Closing
  BY <1>5 DEF Anon!ReadThread, Anon!ReadFile, Anon!readMsgs, Anon!readFails, Anon!pipeVars
<1>6. ASSUME NEW q \in Anon!Process, Anon!WriteThread(q) PROVE Closing
  BY <1>6 DEF Anon!WriteThread, Anon!createEvent, Anon!takeList, Anon!writeStopped,
         Anon!WriteFile, Anon!written, Anon!writeFails, Anon!waitExit, Anon!waitNotEmpty,
         Anon!resetNotEmpty, Anon!pipeVars
<1>7. Closing
  BY <1>1, <1>4, <1>5, <1>6 DEF Anon!Next, Anon!kill, Anon!vars, Anon!pipeVars, Anon!Process
<1>. QED BY <1>7, OtherProcess DEF Connected

LEMMA NextConserved ==
    Anon!TypeOK /\ AnonPlaces /\ Anon!MsgsConserved /\ [Anon!Next]_Anon!vars
        => Anon!MsgsConserved'
<1>. SUFFICES ASSUME Anon!TypeOK, AnonPlaces, Anon!MsgsConserved, [Anon!Next]_Anon!vars,
                     NEW p \in Anon!Process, Connected(p)'
              PROVE  OnItsWay(p)' = UpTo(sent'[p])
  BY DEF Anon!MsgsConserved, Connected, OnItsWay, UpTo, Cat
<1>1. Connected(p) /\ OnItsWay(p) = UpTo(sent[p])
  BY StaysClosed, Conserved
<1>2. CASE Anon!pushMsg(p)
  BY <1>1, <1>2, PushConserved
<1>3. CASE Anon!takeList(p) \/ Anon!written(p)
  BY <1>1, <1>3, WriteConserved DEF Anon!takeList, Anon!written, Anon!historyVars
<1>4. CASE Anon!readMsgs(Anon!Other(p)) \/ Anon!dispatchMsgs(Anon!Other(p))
  BY <1>1, <1>4, ReadConserved DEF Anon!readMsgs, Anon!dispatchMsgs, Anon!historyVars
<1>5. CASE Anon!startThreads(p)
  BY <1>1, <1>5, StartConserved
<1>. QED BY <1>1, <1>2, <1>3, <1>4, <1>5, OthersConserved

-----------------------------------------------------------------------------
(***************************************************************************)
(* MCFiles: each of the five keeps to its own specification, whichever of  *)
(* them runs                                                               *)
(***************************************************************************)
LEMMA EachKeepsToItsSpec ==
    AnySpec => Spec /\ Created!Spec /\ Overlapped!Spec /\ Shared!Spec /\ Anon!Spec
<1>1. AnyInit => Init /\ Created!Init /\ Overlapped!Init /\ Shared!Init /\ Anon!Init
  BY DEF AnyInit
<1>2. [AnyNext]_anyVars =>
          [Next]_vars /\ [Created!Next]_Created!vars
          /\ [Overlapped!Next]_Overlapped!vars /\ [Shared!Next]_Shared!vars
          /\ [Anon!Next]_Anon!vars
  <2>. SUFFICES ASSUME [AnyNext]_anyVars
                PROVE  [Next]_vars /\ [Created!Next]_Created!vars
                       /\ [Overlapped!Next]_Overlapped!vars /\ [Shared!Next]_Shared!vars
                       /\ [Anon!Next]_Anon!vars
    OBVIOUS
  <2>1. /\ UNCHANGED copyVars => UNCHANGED vars
        /\ UNCHANGED createdVars => UNCHANGED Created!vars
        /\ UNCHANGED overlappedVars => UNCHANGED Overlapped!vars
        /\ UNCHANGED sharedVars => UNCHANGED Shared!vars
        /\ UNCHANGED anonVars => UNCHANGED Anon!vars
    BY Zenon DEF copyVars, createdVars, overlappedVars, sharedVars, anonVars, vars,
       Created!vars, Created!pipeVars, Overlapped!vars, Shared!vars, Anon!vars,
       Anon!pipeVars, Anon!pcVars, Anon!listVars, Anon!eventVars, Anon!stopVars,
       Anon!historyVars
  <2>2. CASE OfCopy(Next)
    BY <2>1, <2>2, Zenon DEF OfCopy
  <2>3. CASE OfCreated(Created!Next)
    BY <2>1, <2>3, Zenon DEF OfCreated
  <2>4. CASE OfOverlapped(Overlapped!Next)
    BY <2>1, <2>4, Zenon DEF OfOverlapped
  <2>5. CASE OfShared(Shared!Next)
    BY <2>1, <2>5, Zenon DEF OfShared
  <2>6. CASE OfAnon(Anon!Next)
    BY <2>1, <2>6, Zenon DEF OfAnon
  <2>7. CASE UNCHANGED anyVars
    BY <2>1, <2>7, Zenon DEF anyVars
  <2>. QED BY <2>2, <2>3, <2>4, <2>5, <2>6, <2>7 DEF AnyNext
<1>. QED BY <1>1, <1>2, PTL
         DEF AnySpec, Spec, Created!Spec, Overlapped!Spec, Shared!Spec, Anon!Spec

\* createprocessdemo, for every file, every quota and every size of the buffers, and a
\* child that may be killed at any point: nothing of the file is lost, doubled or
\* reordered on its way through both processes and both pipes, and what the parent
\* prints is the file and the greeting, or less of them.
THEOREM EchoSafe == Created!Spec => [](Created!EchoConserved /\ Created!PrintedIsEcho)
BY CreatedInit, CreatedNext, EchoFollows, PTL DEF Created!Spec

\* AnonymousPipesDemo, for every quota, every bound and whichever processes may be
\* killed: while both ends of a pipe are open nothing that was queued is lost, doubled or
\* reordered on its way through the two lists and the pipe; and no write thread sleeps on
\* a list nobody will tell it of, although main may set the events before they exist.
THEOREM PipesSafe == Anon!Spec => [](Anon!TypeOK /\ LinesArrive)
<1>1. AnonInv => Anon!TypeOK /\ LinesArrive
  BY DEF AnonInv, LinesArrive, AnonTold, Anon!NoLostWakeup
<1>2. AnonInv /\ [Anon!Next]_Anon!vars => AnonInv'
  BY NextPlaces, NextTold, NextConserved DEF AnonInv
<1>. QED BY <1>1, <1>2, InitPipes, PTL DEF Anon!Spec

\* The five programs: every variable keeps its type; the file is echoed (EchoSafe);
\* fileoverlapped reports of its read what is in the buffer, which is the beginning of
\* the text, whatever the read met of the write; and B of sharememorydemo prints the
\* whole text if A was asleep when B opened the mapping, also if A ends or is run again
\* meanwhile; and the lines arrive (PipesSafe).
THEOREM FilesSafe == AnySpec => []Inv
<1>1. Spec => []TypeOK
  BY TypeCorrect
<1>2. Created!Spec => []CreatedInv
  BY CreatedInit, CreatedNext, PTL DEF Created!Spec
<1>3. Overlapped!Spec => []OverlappedInv
  BY OverlappedInit, OverlappedNext, PTL DEF Overlapped!Spec
<1>4. Shared!Spec => []SharedInv
  BY SharedInit, SharedNext, PTL DEF Shared!Spec
<1>5. Anon!Spec => [](Anon!TypeOK /\ LinesArrive)
  BY PipesSafe
<1>6. (TypeOK /\ CreatedInv /\ OverlappedInv /\ SharedInv /\ Anon!TypeOK /\ LinesArrive)
          => Inv
  BY EchoFollows, ReadFollows, WholeFollows
     DEF Inv, AnyTypeOK, FileIsEchoed, TextIsRead, CreatedInv, OverlappedInv, SharedInv
<1>. QED BY <1>1, <1>2, <1>3, <1>4, <1>5, <1>6, EachKeepsToItsSpec, PTL

\* fileoverlapped: the loop is never left, with both results or by the timeout, while an
\* event is set that it has not looked at.
THEOREM EventsSafe == Overlapped!Spec => Overlapped!LeavesNoEventSet
<1>1. Overlapped!Spec => []OverlappedInv
  BY OverlappedInit, OverlappedNext, PTL DEF Overlapped!Spec
<1>. QED BY <1>1, EventsLeft, PTL DEF Overlapped!Spec, Overlapped!LeavesNoEventSet

\* createprocessdemo: the parent blocked on a full standard input and the child on a
\* full standard output hold 2 * Quota units in the pipes and one at least in each of
\* their buffers, so that a file of 2 * Quota + 1 units or less never brings them there.
THEOREM FlowSafe == AnySpec => []SmallFileFlows
<1>1. Created!Spec => []Created!SmallFileFlows
  BY CreatedInit, CreatedNext, FlowFollows, PTL DEF Created!Spec
<1>. QED BY <1>1, EachKeepsToItsSpec, PTL DEF SmallFileFlows

\* FileCopy's properties where it is one of the five, as the run of MCFiles checks them.
THEOREM FilesCopySafe == AnySpec => [](IoIsCounted /\ BuffersOutliveIo /\ CopyIsExact)
BY CountSafe, BuffersSafe, CopySafe, EachKeepsToItsSpec, PTL
=============================================================================
