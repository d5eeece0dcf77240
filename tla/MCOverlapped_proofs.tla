------------------------ MODULE MCOverlapped_proofs -------------------------
(***************************************************************************)
(* Proofs about the programs of overlappeddemo, for every quota and every  *)
(* bound.  For the three that have one pipe and one worker the calls on    *)
(* the pipe come first, since all three make the same; then each program,  *)
(* with its inductive invariant and a lemma per kind of step.  The server  *)
(* with any number of instances and of worker threads follows: an          *)
(* instance's connect and read are issued by one worker at a time, and so  *)
(* what its clients write is listed in order.  The theorems come last.     *)
(***************************************************************************)
EXTENDS MCOverlapped, SequenceTheorems, FiniteSetTheorems, TLAPS

\* The calls by their own names: Server, Client and Iocp have the same.
INSTANCE MessagePipe

Msg == Nat \ {0}

\* \o by a name of its own, which the provers expand only where they are told to.
Cat(s, t) == s \o t

\* The first n messages of whoever writes.
UpTo(n) == [k \in 1 .. n |-> k]

\* What this end has received of the pipe and not listed, or can still receive.
Unlisted(p) == Cat(p.buffer, p.in)

\* A message lies beyond the quota only while its write is outstanding; a read that is
\* outstanding has nothing to read, and one that failed has left nothing unread; a
\* connect and a read are never both under way; and what each says of the state.
PipeOK(p) ==
    /\ p \in Pipe(Msg)
    /\ Len(p.out) <= Quota + 1
    /\ Len(p.out) > Quota => p.write = "pending"
    /\ p.state \in {"listening", "disconnected"} => p.in = <<>>
    /\ p.buffer # <<>> => p.read = "success"
    /\ p.read = "pending" => p.state = "connected" /\ p.in = <<>>
    /\ p.read = "success" => p.state # "listening"
    /\ p.read = "error" => p.state \notin {"listening", "connected"} /\ p.in = <<>>
    /\ p.connect # "idle" => p.read = "idle"
    /\ p.connect = "pending" => p.state = "listening"
    /\ p.connect = "success" => p.state \notin {"listening", "disconnected"}
    /\ p.connect = "error" => p.state = "closed"

\* What this end has received and not lost, in the order of listing.
Inbound == Cat(Cat(dispatched, readMsgsList), Unlisted(pipe))
InboundKept == pipe.state # "closed" => Inbound = UpTo(peerSent)

\* What all three programs have: a worker that has not issued a write, or has seen the
\* last one complete, has none outstanding.
Common ==
    /\ PipeOK(pipe)
    /\ writeMsgsList \in Seq(Msg) /\ readMsgsList \in Seq(Msg) /\ dispatched \in Seq(Msg)
    /\ got \in Seq(Msg) /\ sent \in Nat /\ peerSent \in Nat /\ connects \in Nat
    /\ bWritting \in BOOLEAN
    /\ ~bWritting => pipe.write = "idle"

-----------------------------------------------------------------------------
(***************************************************************************)
(* The inductive invariants                                                *)
(***************************************************************************)
ServerTypes ==
    /\ mainPc \in {"input", "dispatch", "join", "returned"}
    /\ stopEvent \in BOOLEAN /\ notEmptyEvent \in BOOLEAN
    /\ workerPc \in {"start", "wait", "resetNotEmpty", "exited"} \cup Server!Handler

\* Where the worker is about to issue a connect or a read, none is under way; the
\* read event is handled once; only a worker that has ended has closed the pipe.
ServerPlace ==
    /\ workerPc = "start" => pipe.connect = "idle"
    /\ workerPc \in {"start", "connect"} => pipe.read = "idle"
    /\ workerPc = "read" => Completed(pipe.read)
    /\ workerPc = "resetNotEmpty" => bWritting
    /\ pipe.state = "closed" => workerPc = "exited"

\* NoLostWakeup wherever the worker is.
SomebodyLooks ==
    writeMsgsList # <<>> /\ ~bWritting /\ workerPc # "exited" => notEmptyEvent

ServerInv == Common /\ ServerTypes /\ ServerPlace /\ SomebodyLooks /\ InboundKept

ClientTypes ==
    /\ instance \in {"listening", "busy", "none"}
    /\ mainPc \in {"loop", "input", "dispatch", "join", "getch", "returned"}
    /\ g_mainThreadStop \in BOOLEAN /\ created \in BOOLEAN
    /\ stopEvent \in BOOLEAN /\ notEmptyEvent \in BOOLEAN
    /\ workerPc \in {"open", "waitPipe", "setMode", "create", "wait",
                     "resetNotEmpty", "failed", "exited"} \cup Client!Handler

\* A client has nothing before it has opened the pipe, ...
NothingYet ==
    workerPc \in {"open", "waitPipe"} =>
        /\ pipe = NewPipe("closed") /\ peerSent = 0
        /\ dispatched = <<>> /\ readMsgsList = <<>>

\* ... and no read before it has the events.
ClientPlace ==
    /\ pipe.connect = "idle"
    /\ workerPc \in {"setMode", "create"} => pipe.read = "idle"

\* What it has or can still get is the first of what the server wrote, and all of it
\* while they are connected.
InboundBegun ==
    \E n \in 0 .. peerSent : Inbound = UpTo(n) /\ (pipe.state = "connected" => n = peerSent)

ClientInv == Common /\ ClientTypes /\ NothingYet /\ ClientPlace /\ InboundBegun

Packet == {"connect", "read", "write", "notEmpty", "exit"}

IocpTypes ==
    /\ iocp \in Seq(Packet)
    /\ mainPc \in {"connect", "input", "dispatch", "join", "returned"}
    /\ workerPc \in {"none", "wait", "exited"} \cup Packet

\* The packets that say a client has come.
HasConnect(s) == \E k \in 1 .. Len(s) : s[k] = "connect"
OneConnect(s) == \A k, l \in 1 .. Len(s) : s[k] = "connect" /\ s[l] = "connect" => k = l

\* A connect that has completed has one packet, which the worker takes once.
ConnectHeld ==
    /\ OneConnect(iocp)
    /\ HasConnect(iocp) => workerPc # "connect" /\ Completed(pipe.connect)
    /\ workerPc = "connect" => Completed(pipe.connect)

IocpPlace ==
    /\ mainPc = "connect" =>
          /\ workerPc = "none" /\ ~HasConnect(iocp)
          /\ pipe.connect = "idle" /\ pipe.read = "idle"
    /\ pipe.state # "disconnected"
    /\ pipe.state = "closed" => workerPc = "exited"

IocpInv == Common /\ IocpTypes /\ ConnectHeld /\ IocpPlace /\ InboundKept

IInv ==
    /\ demo \in AllDemos
    /\ demo = "server" => ServerInv
    /\ demo = "client" => ClientInv
    /\ demo = "iocp" => IocpInv

Op == {"connect", "read", "write"}

\* A call that issues nothing: it can only complete what is outstanding.
Passive(p, q) ==
    /\ PipeOK(q)
    /\ \A op \in Op : q[op] = p[op] \/ (p[op] = "pending" /\ Completed(q[op]))

\* What was written stays, or the connection has broken.
Lost(p, q) == q.out = p.out \/ \E n \in 0 .. Len(p.out) - 1 : q.out = SubSeq(p.out, 1, n)

-----------------------------------------------------------------------------
(***************************************************************************)
(* Sequences                                                               *)
(***************************************************************************)
LEMMA CatGeneral ==
    ASSUME NEW S, NEW s \in Seq(S), NEW t \in Seq(S), NEW u \in Seq(S)
    PROVE  Cat(Cat(s, t), u) = Cat(s, Cat(t, u))
BY ConcatAssociative DEF Cat

LEMMA CatTypeGeneral ==
    ASSUME NEW S, NEW s \in Seq(S), NEW t \in Seq(S)
    PROVE  Cat(s, t) \in Seq(S)
BY ConcatProperties DEF Cat

LEMMA CatAppendGeneral ==
    ASSUME NEW S, NEW s \in Seq(S), NEW t \in Seq(S), NEW x \in S
    PROVE  Cat(s, Append(t, x)) = Append(Cat(s, t), x)
<1>1. <<x>> \in Seq(S) /\ Append(t, x) = t \o <<x>>
  BY AppendIsConcat
<1>2. s \o t \in Seq(S) /\ Append(s \o t, x) = (s \o t) \o <<x>>
  BY ConcatProperties, AppendIsConcat
<1>3. s \o (t \o <<x>>) = (s \o t) \o <<x>>
  BY <1>1, ConcatAssociative
<1>. QED BY <1>1, <1>2, <1>3, Zenon DEF Cat

LEMMA CatTakeGeneral ==
    ASSUME NEW S, NEW s \in Seq(S), s # <<>>
    PROVE  /\ Head(s) \in S /\ Tail(s) \in Seq(S) /\ <<Head(s)>> \in Seq(S)
           /\ Cat(<<Head(s)>>, Tail(s)) = s
BY DEF Cat

\* The same of the sequences of messages.
LEMMA CatType == \A s, t \in Seq(Msg) : Cat(s, t) \in Seq(Msg)
BY CatTypeGeneral

LEMMA CatEmpty == \A s \in Seq(Msg) : Cat(s, <<>>) = s /\ Cat(<<>>, s) = s
BY DEF Cat

LEMMA CatAssociative == \A s, t, u \in Seq(Msg) : Cat(Cat(s, t), u) = Cat(s, Cat(t, u))
BY CatGeneral

LEMMA CatAppend ==
    \A s, t \in Seq(Msg) : \A x \in Msg : Cat(s, Append(t, x)) = Append(Cat(s, t), x)
BY CatAppendGeneral

LEMMA CatTake ==
    \A s \in Seq(Msg) : s # <<>> =>
        /\ Head(s) \in Msg /\ Tail(s) \in Seq(Msg) /\ <<Head(s)>> \in Seq(Msg)
        /\ Cat(<<Head(s)>>, Tail(s)) = s
BY CatTakeGeneral

LEMMA CatLen ==
    \A s, t \in Seq(Msg) :
        /\ Len(s) \in Nat /\ Len(t) \in Nat
        /\ Len(Cat(s, t)) = Len(s) + Len(t)
        /\ \A k \in 1 .. Len(s) : Cat(s, t)[k] = s[k]
<1>. SUFFICES ASSUME NEW S, NEW s \in Seq(S), NEW t \in Seq(S)
              PROVE  /\ Len(s) \in Nat /\ Len(t) \in Nat
                     /\ Len(Cat(s, t)) = Len(s) + Len(t)
                     /\ \A k \in 1 .. Len(s) : Cat(s, t)[k] = s[k]
  OBVIOUS
<1>. QED BY ConcatProperties DEF Cat

LEMMA UpToType == \A n \in Nat : UpTo(n) \in Seq(Msg) /\ Len(UpTo(n)) = n
<1>. TAKE n \in Nat
<1>1. \A k \in 1 .. n : k \in Msg
  BY DEF Msg
<1>. QED BY <1>1 DEF UpTo

LEMMA UpToNext == \A n \in Nat : n + 1 \in Msg /\ Append(UpTo(n), n + 1) = UpTo(n + 1)
<1>. TAKE n \in Nat
<1>. DEFINE s == Append(UpTo(n), n + 1)
<1>1. UpTo(n) \in Seq(Nat) /\ Len(UpTo(n)) = n
  BY DEF UpTo
<1>2. /\ s \in Seq(Nat) /\ Len(s) = n + 1
      /\ \A k \in 1 .. n + 1 : s[k] = k
  <2>1. s \in Seq(Nat) /\ Len(s) = n + 1 /\ s[n + 1] = n + 1
    BY <1>1, AppendProperties
  <2>2. \A k \in 1 .. n : s[k] = UpTo(n)[k] /\ UpTo(n)[k] = k
    BY <1>1, AppendProperties DEF UpTo
  <2>. QED BY <2>1, <2>2
<1>3. s = [k \in 1 .. n + 1 |-> s[k]]
  BY <1>2
<1>. HIDE DEF s
<1>4. s = UpTo(n + 1)
  BY <1>2, <1>3 DEF UpTo
<1>. QED BY <1>4 DEF s, Msg

\* What is at the front of such a sequence is such a sequence.
LEMMA UpToPrefix ==
    ASSUME NEW s \in Seq(Msg), NEW t \in Seq(Msg), NEW n \in Nat, Cat(s, t) = UpTo(n)
    PROVE  s = UpTo(Len(s)) /\ Len(s) + Len(t) = n /\ Len(s) \in 0 .. n
<1>1. /\ Len(s) \in Nat /\ Len(t) \in Nat /\ Len(s) + Len(t) = n
      /\ \A k \in 1 .. Len(s) : Cat(s, t)[k] = s[k]
  BY CatLen, UpToType
<1>2. \A k \in 1 .. Len(s) : s[k] = k
  <2>1. \A k \in 1 .. n : UpTo(n)[k] = k
    BY DEF UpTo
  <2>2. \A k \in 1 .. Len(s) : k \in 1 .. n
    BY <1>1
  <2>. QED BY <1>1, <2>1, <2>2
<1>3. s = [k \in 1 .. Len(s) |-> s[k]]
  OBVIOUS
<1>. QED BY <1>1, <1>2, <1>3 DEF UpTo

\* What main lists or a read has taken keeps its place.
LEMMA Relisted ==
    ASSUME NEW d \in Seq(Msg), NEW r \in Seq(Msg), NEW b \in Seq(Msg), NEW u \in Seq(Msg)
    PROVE  /\ Cat(Cat(Cat(d, r), <<>>), u) = Cat(Cat(d, r), u)
           /\ Cat(Cat(d, Cat(r, b)), u) = Cat(Cat(d, r), Cat(b, u))
           /\ Cat(Cat(Cat(d, r), b), u) = Cat(Cat(d, r), Cat(b, u))
<1>1. Cat(d, r) \in Seq(Msg)
  BY CatType
<1>2. Cat(Cat(d, r), <<>>) = Cat(d, r)
  BY <1>1, CatEmpty
<1>3. Cat(Cat(Cat(d, r), b), u) = Cat(Cat(d, r), Cat(b, u))
  BY <1>1, CatAssociative
<1>4. Cat(d, Cat(r, b)) = Cat(Cat(d, r), b)
  BY CatAssociative
<1>. QED BY <1>2, <1>3, <1>4

-----------------------------------------------------------------------------
(***************************************************************************)
(* The calls on a pipe                                                     *)
(***************************************************************************)
LEMMA Fields ==
    ASSUME NEW p, PipeOK(p)
    PROVE  /\ p.state \in PipeStates /\ p.in \in Seq(Msg) /\ p.out \in Seq(Msg)
           /\ p.connect \in Operation /\ p.read \in Operation /\ p.write \in Operation
           /\ p.buffer \in Seq(Msg)
           /\ p \in Pipe(Msg)
           /\ Len(p.out) \in Nat /\ Quota \in Nat /\ 1 <= Quota
           /\ p["connect"] = p.connect /\ p["read"] = p.read /\ p["write"] = p.write
BY BoundsAssumption DEF PipeOK, Pipe

LEMMA Prefixes ==
    ASSUME NEW S, NEW s \in Seq(S), NEW n \in Nat, n <= Len(s)
    PROVE  /\ SubSeq(s, 1, n) \in Seq(S) /\ Len(SubSeq(s, 1, n)) = n
           /\ n = 0 => SubSeq(s, 1, n) = <<>>
           /\ n = Len(s) => SubSeq(s, 1, n) = s
OBVIOUS

\* All that was written is lost, or all beyond the quota.
LEMMA LostFrom ==
    ASSUME NEW p, PipeOK(p), NEW q,
           \/ q.out = <<>>
           \/ q.out = SubSeq(p.out, 1, IF Len(p.out) < Quota THEN Len(p.out) ELSE Quota)
    PROVE  /\ Lost(p, q)
           /\ q.out \in Seq(Msg) /\ Len(q.out) <= Quota
<1>. DEFINE n == IF q.out = <<>> THEN 0 ELSE IF Len(p.out) < Quota THEN Len(p.out) ELSE Quota
<1>1. p.out \in Seq(Msg) /\ Len(p.out) \in Nat /\ Quota \in Nat
  BY Fields
<1>2. n \in Nat /\ n <= Len(p.out) /\ n <= Quota
  BY <1>1
<1>3. q.out = SubSeq(p.out, 1, n)
  <2>1. SubSeq(p.out, 1, 0) = <<>>
    BY <1>1, Prefixes
  <2>2. CASE q.out = <<>>
    BY <2>1, <2>2
  <2>3. CASE q.out # <<>>
    BY <2>3
  <2>. QED BY <2>2, <2>3
<1>. HIDE DEF n
<1>4. /\ q.out \in Seq(Msg) /\ Len(q.out) = n
      /\ n = Len(p.out) => q.out = p.out
  BY <1>1, <1>2, <1>3, Prefixes
<1>5. n # Len(p.out) => n \in 0 .. Len(p.out) - 1
  BY <1>1, <1>2
<1>. QED BY <1>1, <1>2, <1>3, <1>4, <1>5 DEF Lost

LEMMA OpenOK ==
    ASSUME NEW p, PipeOK(p), p.state = "listening"
    PROVE  LET q == PeerOpen(p)
           IN  /\ Passive(p, q) /\ q.state = "connected"
               /\ q.out = p.out /\ Unlisted(q) = Unlisted(p)
<1>. DEFINE q == PeerOpen(p)
<1>1. /\ q \in Pipe(Msg)
      /\ q.state = "connected" /\ q.in = p.in /\ q.out = p.out
      /\ q.buffer = p.buffer /\ q.read = p.read /\ q.write = p.write
      /\ q.connect = IF p.connect = "pending" THEN "success" ELSE p.connect
  BY Fields DEF PeerOpen, Pipe, PipeStates, Operation
<1>. HIDE DEF q
<1>. QED BY <1>1 DEF q, PipeOK, Passive, Op, Completed, Unlisted

LEMMA PeerWriteOK ==
    ASSUME NEW p, PipeOK(p), PeerCanWrite(p), NEW m \in Msg
    PROVE  LET q == PeerWrite(p, m)
           IN  /\ Passive(p, q) /\ q.state = "connected" /\ p.state = "connected"
               /\ q.out = p.out /\ Unlisted(q) = Append(Unlisted(p), m)
<1>. DEFINE q == PeerWrite(p, m)
<1>a. p.state = "connected" /\ p.in \in Seq(Msg) /\ p.buffer \in Seq(Msg)
  BY Fields DEF PeerCanWrite
<1>1. CASE p.read = "pending"
  <2>1. p.buffer = <<>> /\ p.in = <<>>
    BY <1>1 DEF PipeOK
  <2>2. <<m>> \in Seq(Msg)
    OBVIOUS
  <2>3. /\ q \in Pipe(Msg)
        /\ q.state = "connected" /\ q.in = <<>> /\ q.out = p.out /\ q.buffer = <<m>>
        /\ q.read = "success" /\ q.write = p.write /\ q.connect = p.connect
    BY <1>1, <1>a, <2>1, <2>2, Fields DEF PeerWrite, Pipe, Operation
  <2>4. Cat(<<m>>, <<>>) = Append(Cat(<<>>, <<>>), m)
    BY DEF Cat
  <2>. HIDE DEF q
  <2>5. Unlisted(q) = Append(Unlisted(p), m)
    BY <2>1, <2>3, <2>4 DEF Unlisted
  <2>. QED BY <1>1, <1>a, <2>3, <2>5 DEF q, PipeOK, Passive, Op, Completed
<1>2. CASE p.read # "pending"
  <2>1. Append(p.in, m) \in Seq(Msg)
    BY <1>a, AppendProperties
  <2>2. /\ q \in Pipe(Msg)
        /\ q.state = "connected" /\ q.in = Append(p.in, m) /\ q.out = p.out
        /\ q.buffer = p.buffer
        /\ q.read = p.read /\ q.write = p.write /\ q.connect = p.connect
    <3>1. q = [p EXCEPT !.in = Append(p.in, m)] /\ p \in Pipe(Msg)
      BY <1>2, Fields DEF PeerWrite
    <3>. HIDE DEF q
    <3>2. q \in Pipe(Msg)
      BY <2>1, <3>1 DEF Pipe
    <3>. QED BY <1>a, <3>1, <3>2 DEF Pipe
  <2>3. Cat(p.buffer, Append(p.in, m)) = Append(Cat(p.buffer, p.in), m)
    BY <1>a, CatAppend
  <2>. HIDE DEF q
  <2>4. Unlisted(q) = Append(Unlisted(p), m)
    BY <2>2, <2>3 DEF Unlisted
  <2>. QED BY <1>2, <1>a, <2>2, <2>4 DEF q, PipeOK, Passive, Op, Completed
<1>. QED BY <1>1, <1>2

LEMMA PeerReadOK ==
    ASSUME NEW p, PipeOK(p), p.out # <<>>
    PROVE  LET q == PeerRead(p)
           IN  /\ Passive(p, q) /\ q.state = p.state
               /\ q.out = Tail(p.out) /\ Unlisted(q) = Unlisted(p)
<1>. DEFINE q == PeerRead(p)
<1>1. /\ p.out \in Seq(Msg) /\ Len(p.out) \in Nat /\ Quota \in Nat
      /\ Tail(p.out) \in Seq(Msg) /\ Len(Tail(p.out)) = Len(p.out) - 1
  <2>1. \A S : \A s \in Seq(S) : s # <<>> => Tail(s) \in Seq(S) /\ Len(Tail(s)) = Len(s) - 1
    OBVIOUS
  <2>. QED BY <2>1, Fields
<1>2. /\ q \in Pipe(Msg)
      /\ q.state = p.state /\ q.in = p.in /\ q.out = Tail(p.out) /\ q.buffer = p.buffer
      /\ q.read = p.read /\ q.connect = p.connect
      /\ q.write = IF Len(p.out) > Quota THEN "success" ELSE p.write
  <2>1. /\ q = [p EXCEPT !.out = Tail(p.out),
                        !.write = IF Len(p.out) > Quota THEN "success" ELSE p.write]
        /\ p \in Pipe(Msg) /\ p.write \in Operation
    BY Fields DEF PeerRead
  <2>. HIDE DEF q
  <2>2. q \in Pipe(Msg)
    BY <1>1, <2>1 DEF Pipe, Operation
  <2>. QED BY <2>1, <2>2 DEF Pipe
<1>. HIDE DEF q
<1>. QED BY <1>1, <1>2 DEF q, PipeOK, Passive, Op, Completed, Unlisted

LEMMA BreakIs ==
    ASSUME NEW p, PipeOK(p), NEW x \in PipeStates
    PROVE  LET q == Break(p, x)
           IN  /\ q \in Pipe(Msg)
               /\ q.state = x /\ q.in = <<>> /\ q.out = <<>> /\ q.buffer = p.buffer
               /\ q.connect = Broken(p.connect) /\ q.read = Broken(p.read)
               /\ q.write = Broken(p.write)
<1>1. \A o \in Operation : Broken(o) \in Operation
  BY DEF Broken, Operation
<1>2. <<>> \in Seq(Msg)
  OBVIOUS
<1>. DEFINE q == Break(p, x)
<1>3. /\ q = [p EXCEPT !.state = x, !.in = <<>>, !.out = <<>>,
                      !.connect = Broken(p.connect), !.read = Broken(p.read),
                      !.write = Broken(p.write)]
      /\ p \in Pipe(Msg)
      /\ p.connect \in Operation /\ p.read \in Operation /\ p.write \in Operation
  BY Fields DEF Break
<1>. HIDE DEF q
<1>4. q \in Pipe(Msg)
  BY <1>1, <1>2, <1>3 DEF Pipe
<1>5. /\ q.state = x /\ q.in = <<>> /\ q.out = <<>> /\ q.buffer = p.buffer
      /\ q.connect = Broken(p.connect) /\ q.read = Broken(p.read)
      /\ q.write = Broken(p.write)
  BY <1>3 DEF Pipe
<1>. QED BY <1>4, <1>5 DEF q

\* The connection ends, of which the other end can have kept some: what was outstanding
\* has failed.
LEMMA BrokenOK ==
    ASSUME NEW p, PipeOK(p), NEW q \in Pipe(Msg),
           q.state \in {"peerClosed", "disconnected", "closed"},
           q.in \in {<<>>, p.in}, q.buffer = p.buffer,
           \/ q.out = <<>>
           \/ q.out = SubSeq(p.out, 1, IF Len(p.out) < Quota THEN Len(p.out) ELSE Quota),
           q.connect = Broken(p.connect), q.read = Broken(p.read), q.write = Broken(p.write),
           p.connect \in {"pending", "error"} => q.state = "closed",
           p.connect = "success" => q.state # "disconnected",
           q.state = "disconnected" => q.in = <<>>
    PROVE  Passive(p, q) /\ Lost(p, q)
<1>1. Lost(p, q) /\ Len(q.out) <= Quota /\ Len(q.out) \in Nat /\ Quota \in Nat
  BY LostFrom, Fields
<1>2. p.connect \in Operation /\ p.read \in Operation /\ p.write \in Operation
  BY Fields
<1>3. PipeOK(q)
  BY <1>1, <1>2 DEF PipeOK, Broken, Operation
<1>. QED BY <1>1, <1>2, <1>3 DEF Passive, Op, Broken, Operation, Completed

LEMMA PeerCloseOK ==
    ASSUME NEW p, PipeOK(p), p.state = "connected"
    PROVE  LET q == PeerClose(p)
           IN  /\ Passive(p, q) /\ q.state = "peerClosed"
               /\ Lost(p, q) /\ Unlisted(q) = Unlisted(p)
<1>. DEFINE r == Break(p, "peerClosed")
            q == PeerClose(p)
<1>1. /\ r \in Pipe(Msg) /\ r.state = "peerClosed" /\ r.buffer = p.buffer /\ r.out = <<>>
      /\ r.connect = Broken(p.connect) /\ r.read = Broken(p.read)
      /\ r.write = Broken(p.write)
  BY BreakIs DEF PipeStates
<1>2. q = [r EXCEPT !.in = p.in]
  BY DEF PeerClose
<1>3. p.in \in Seq(Msg) /\ p.connect \in Operation
  BY Fields
<1>. HIDE DEF r, q
<1>4. /\ q \in Pipe(Msg) /\ q.state = "peerClosed" /\ q.buffer = p.buffer /\ q.out = <<>>
      /\ q.in = p.in /\ q.connect = Broken(p.connect) /\ q.read = Broken(p.read)
      /\ q.write = Broken(p.write)
  BY <1>1, <1>2, <1>3 DEF Pipe
<1>5. p.connect \notin {"pending", "error"}
  BY DEF PipeOK
<1>6. Passive(p, q) /\ Lost(p, q)
  BY <1>4, <1>5, BrokenOK
<1>. QED BY <1>4, <1>6 DEF q, Unlisted

\* The server's DisconnectNamedPipe, as its client sees it.
LEMMA PeerDisconnectOK ==
    ASSUME NEW p, PipeOK(p), p.state = "connected", p.connect = "idle"
    PROVE  LET q == DisconnectNamedPipe(p)
           IN  /\ Passive(p, q) /\ q.state = "disconnected"
               /\ Lost(p, q) /\ Unlisted(q) = Cat(p.buffer, <<>>)
<1>. DEFINE q == DisconnectNamedPipe(p)
<1>1. q = Break(p, "disconnected")
  BY DEF DisconnectNamedPipe
<1>2. /\ q \in Pipe(Msg) /\ q.state = "disconnected" /\ q.buffer = p.buffer /\ q.out = <<>>
      /\ q.in = <<>> /\ q.connect = Broken(p.connect) /\ q.read = Broken(p.read)
      /\ q.write = Broken(p.write)
  BY <1>1, BreakIs DEF PipeStates
<1>. HIDE DEF q
<1>3. Passive(p, q) /\ Lost(p, q)
  BY <1>2, BrokenOK
<1>. QED BY <1>2, <1>3 DEF q, Unlisted

LEMMA CloseOK ==
    ASSUME NEW p, PipeOK(p)
    PROVE  LET q == CloseHandle(p)
           IN  /\ Passive(p, q) /\ q.state = "closed"
               /\ Lost(p, q) /\ Unlisted(q) = Cat(p.buffer, <<>>)
<1>. DEFINE r == Break(p, "closed")
            q == CloseHandle(p)
            kept == SubSeq(p.out, 1, IF Len(p.out) < Quota THEN Len(p.out) ELSE Quota)
<1>1. /\ r \in Pipe(Msg) /\ r.state = "closed" /\ r.buffer = p.buffer /\ r.in = <<>>
      /\ r.connect = Broken(p.connect) /\ r.read = Broken(p.read)
      /\ r.write = Broken(p.write)
  BY BreakIs DEF PipeStates
<1>2. q = [r EXCEPT !.out = kept]
  BY DEF CloseHandle
<1>3. kept \in Seq(Msg)
  BY LostFrom, Fields, Prefixes
<1>. HIDE DEF r, q, kept
<1>4. /\ q \in Pipe(Msg) /\ q.state = "closed" /\ q.buffer = p.buffer /\ q.in = <<>>
      /\ q.out = kept /\ q.connect = Broken(p.connect) /\ q.read = Broken(p.read)
      /\ q.write = Broken(p.write)
  BY <1>1, <1>2, <1>3 DEF Pipe
<1>5. Passive(p, q) /\ Lost(p, q)
  BY <1>4, BrokenOK DEF kept
<1>. QED BY <1>4, <1>5 DEF q, Unlisted

\* What a handler consumes before it calls anything.
LEMMA ConnectConsumed ==
    ASSUME NEW p, PipeOK(p)
    PROVE  LET q == [p EXCEPT !.connect = "idle"]
           IN  /\ PipeOK(q) /\ q.connect = "idle"
               /\ q.state = p.state /\ q.read = p.read /\ q.write = p.write
               /\ q.in = p.in /\ q.out = p.out /\ q.buffer = p.buffer
<1>. DEFINE q == [p EXCEPT !.connect = "idle"]
<1>1. q \in Pipe(Msg)
  BY Fields DEF Pipe, Operation
<1>2. /\ q.connect = "idle" /\ q.state = p.state /\ q.read = p.read /\ q.write = p.write
      /\ q.in = p.in /\ q.out = p.out /\ q.buffer = p.buffer
  BY Fields DEF Pipe
<1>. HIDE DEF q
<1>. QED BY <1>1, <1>2 DEF q, PipeOK

LEMMA WriteConsumed ==
    ASSUME NEW p, PipeOK(p), p.write # "pending"
    PROVE  LET q == [p EXCEPT !.write = "idle"]
           IN  /\ PipeOK(q) /\ q.write = "idle"
               /\ q.state = p.state /\ q.read = p.read /\ q.connect = p.connect
               /\ q.out = p.out /\ Unlisted(q) = Unlisted(p)
<1>. DEFINE q == [p EXCEPT !.write = "idle"]
<1>1. q \in Pipe(Msg)
  BY Fields DEF Pipe, Operation
<1>2. /\ q.write = "idle" /\ q.state = p.state /\ q.read = p.read /\ q.connect = p.connect
      /\ q.in = p.in /\ q.out = p.out /\ q.buffer = p.buffer
  BY Fields DEF Pipe
<1>. HIDE DEF q
<1>. QED BY <1>1, <1>2 DEF q, PipeOK, Unlisted

LEMMA ReadConsumed ==
    ASSUME NEW p, PipeOK(p), p.read = "success"
    PROVE  LET q == [p EXCEPT !.read = "idle", !.buffer = <<>>]
           IN  /\ PipeOK(q) /\ q.read = "idle" /\ q.connect = "idle"
               /\ q.state = p.state /\ q.state # "listening" /\ q.write = p.write
               /\ q.out = p.out /\ Unlisted(q) = p.in
<1>. DEFINE q == [p EXCEPT !.read = "idle", !.buffer = <<>>]
<1>a. <<>> \in Seq(Msg) /\ p.in \in Seq(Msg)
  BY Fields
<1>1. q \in Pipe(Msg)
  BY <1>a, Fields DEF Pipe, Operation
<1>2. /\ q.read = "idle" /\ q.buffer = <<>>
      /\ q.state = p.state /\ q.write = p.write /\ q.connect = p.connect
      /\ q.in = p.in /\ q.out = p.out
  BY Fields DEF Pipe
<1>3. Unlisted(q) = p.in
  BY <1>a, <1>2, CatEmpty DEF Unlisted
<1>. HIDE DEF q
<1>. QED BY <1>1, <1>2, <1>3 DEF q, PipeOK

\* A failed read, consumed after the call that breaks the connection or before it.
LEMMA ErrorConsumed ==
    ASSUME NEW p, PipeOK(p), p.read = "error"
    PROVE  LET q == [p EXCEPT !.read = "idle"]
           IN  /\ PipeOK(q) /\ q.read = "idle" /\ q.connect = "idle" /\ p.connect = "idle"
               /\ q.state = p.state /\ q.write = p.write
               /\ q.in = <<>> /\ q.buffer = <<>> /\ p.in = <<>> /\ p.buffer = <<>>
               /\ q.out = p.out /\ Unlisted(q) = Unlisted(p)
<1>. DEFINE q == [p EXCEPT !.read = "idle"]
<1>1. q \in Pipe(Msg)
  BY Fields DEF Pipe, Operation
<1>2. /\ q.read = "idle" /\ q.buffer = p.buffer
      /\ q.state = p.state /\ q.write = p.write /\ q.connect = p.connect
      /\ q.in = p.in /\ q.out = p.out
  BY Fields DEF Pipe
<1>. HIDE DEF q
<1>. QED BY <1>1, <1>2 DEF q, PipeOK, Unlisted

\* The calls that issue an operation, when no other of its kind is under way.
LEMMA WriteFileOK ==
    ASSUME NEW p, PipeOK(p), p.write = "idle", NEW m \in Msg
    PROVE  LET q == WriteFile(p, m)
           IN  /\ PipeOK(q) /\ q.state = p.state /\ q.read = p.read /\ q.connect = p.connect
               /\ q.out = p.out \/ q.out = Append(p.out, m)
               /\ Unlisted(q) = Unlisted(p)
<1>. DEFINE q == WriteFile(p, m)
<1>1. CASE p.state = "connected"
  <2>1. /\ p.out \in Seq(Msg) /\ Len(p.out) \in Nat /\ Quota \in Nat /\ Len(p.out) <= Quota
        /\ Append(p.out, m) \in Seq(Msg) /\ Len(Append(p.out, m)) = Len(p.out) + 1
    BY Fields, AppendProperties DEF PipeOK
  <2>2. /\ q = [p EXCEPT !.out = Append(p.out, m),
                        !.write = IF Len(p.out) < Quota THEN "success" ELSE "pending"]
        /\ p \in Pipe(Msg)
    BY <1>1, Fields DEF WriteFile
  <2>. HIDE DEF q
  <2>3. q \in Pipe(Msg)
    BY <2>1, <2>2 DEF Pipe, Operation
  <2>4. /\ q.out = Append(p.out, m)
        /\ q.write = IF Len(p.out) < Quota THEN "success" ELSE "pending"
        /\ q.state = p.state /\ q.read = p.read /\ q.connect = p.connect
        /\ q.in = p.in /\ q.buffer = p.buffer
    BY <2>2 DEF Pipe
  <2>. QED BY <2>1, <2>3, <2>4 DEF q, PipeOK, Unlisted
<1>2. CASE p.state # "connected"
  <2>1. q = [p EXCEPT !.write = "idle"]
    BY <1>2 DEF WriteFile
  <2>. QED BY <2>1, WriteConsumed
<1>. QED BY <1>1, <1>2

LEMMA ReadFileOK ==
    ASSUME NEW p, PipeOK(p), p.read = "idle", p.connect = "idle"
    PROVE  LET q == ReadFile(p)
           IN  /\ PipeOK(q) /\ q.state = p.state /\ q.connect = "idle" /\ q.write = p.write
               /\ q.read \in {"success", "pending", "idle"}
               /\ q.state = "connected" => q.read # "idle"
               /\ q.out = p.out /\ Unlisted(q) = Unlisted(p)
<1>. DEFINE q == ReadFile(p)
<1>a. p.buffer = <<>> /\ p.in \in Seq(Msg) /\ p \in Pipe(Msg)
  BY Fields DEF PipeOK
<1>1. CASE p.in # <<>>
  <2>0. p.state # "listening"
    BY <1>1 DEF PipeOK
  <2>1. /\ Tail(p.in) \in Seq(Msg) /\ <<Head(p.in)>> \in Seq(Msg)
        /\ Cat(<<Head(p.in)>>, Tail(p.in)) = Cat(<<>>, p.in)
    BY <1>a, <1>1, CatTake, CatEmpty
  <2>2. q = [p EXCEPT !.in = Tail(p.in), !.read = "success", !.buffer = <<Head(p.in)>>]
    BY <1>1 DEF ReadFile
  <2>. HIDE DEF q
  <2>3. q \in Pipe(Msg)
    BY <1>a, <2>1, <2>2 DEF Pipe, Operation
  <2>4. /\ q.in = Tail(p.in) /\ q.read = "success" /\ q.buffer = <<Head(p.in)>>
        /\ q.state = p.state /\ q.connect = p.connect /\ q.write = p.write /\ q.out = p.out
    BY <1>a, <2>2 DEF Pipe
  <2>5. Unlisted(q) = Unlisted(p)
    BY <1>a, <2>1, <2>4 DEF Unlisted
  <2>. QED BY <1>1, <2>0, <2>3, <2>4, <2>5 DEF q, PipeOK
<1>2. CASE p.in = <<>>
  <2>1. q = [p EXCEPT !.read = IF p.state = "connected" THEN "pending" ELSE "idle"]
    BY <1>2 DEF ReadFile
  <2>. HIDE DEF q
  <2>2. q \in Pipe(Msg)
    BY <1>a, <2>1 DEF Pipe, Operation
  <2>3. /\ q.in = p.in /\ q.read = IF p.state = "connected" THEN "pending" ELSE "idle"
        /\ q.buffer = p.buffer
        /\ q.state = p.state /\ q.connect = p.connect /\ q.write = p.write /\ q.out = p.out
    BY <1>a, <2>1 DEF Pipe
  <2>. QED BY <1>2, <1>a, <2>2, <2>3 DEF q, PipeOK, Unlisted
<1>. QED BY <1>1, <1>2

LEMMA ConnectOK ==
    ASSUME NEW p, PipeOK(p), p.read = "idle", p.connect = "idle"
    PROVE  LET q == ConnectNamedPipe(p)
           IN  /\ PipeOK(q) /\ q.read = "idle" /\ q.connect \in {"idle", "pending"}
               /\ q.connect = "idle" => q.state = p.state
               /\ q.connect = "pending" => q.state = "listening"
               /\ p.state \in {"listening", "disconnected"} => q.connect = "pending"
               /\ q.state # "disconnected"
               /\ q.state = "closed" => p.state = "closed"
               /\ q.write = p.write /\ q.out = p.out /\ Unlisted(q) = Unlisted(p)
<1>. DEFINE q == ConnectNamedPipe(p)
<1>a. p \in Pipe(Msg) /\ p.state \in PipeStates
  BY Fields
<1>1. CASE p.state \in {"listening", "disconnected"}
  <2>1. q = [p EXCEPT !.state = "listening", !.connect = "pending"]
    BY <1>1 DEF ConnectNamedPipe, ConnectResult
  <2>. HIDE DEF q
  <2>2. q \in Pipe(Msg)
    BY <1>a, <2>1 DEF Pipe, Operation, PipeStates
  <2>3. /\ q.state = "listening" /\ q.connect = "pending"
        /\ q.in = p.in /\ q.read = p.read /\ q.buffer = p.buffer
        /\ q.write = p.write /\ q.out = p.out
    BY <1>a, <2>1 DEF Pipe
  <2>. QED BY <1>1, <2>2, <2>3 DEF q, PipeOK, Unlisted
<1>2. CASE p.state \notin {"listening", "disconnected"}
  <2>1. q = [p EXCEPT !.connect = "idle"]
    BY <1>a, <1>2 DEF ConnectNamedPipe, ConnectResult, PipeStates
  <2>. QED BY <1>2, <2>1, ConnectConsumed DEF Unlisted
<1>. QED BY <1>1, <1>2

\* The server whose read has failed: it disconnects and listens.
LEMMA RelistenOK ==
    ASSUME NEW p, PipeOK(p), p.read = "error", p.state # "closed"
    PROVE  LET q == ConnectNamedPipe(DisconnectNamedPipe([p EXCEPT !.read = "idle"]))
           IN  /\ PipeOK(q) /\ q.state = "listening"
               /\ q.read = "idle" /\ q.connect = "pending"
               /\ q.write = Broken(p.write)
               /\ Lost(p, q) /\ Unlisted(q) = Unlisted(p)
<1>. DEFINE r == [p EXCEPT !.read = "idle"]
            s == DisconnectNamedPipe(r)
<1>1. /\ PipeOK(r) /\ r.read = "idle" /\ r.connect = "idle"
      /\ r.state = p.state /\ r.write = p.write
      /\ r.in = <<>> /\ r.buffer = <<>> /\ p.in = <<>> /\ p.buffer = <<>> /\ r.out = p.out
  BY ErrorConsumed
<1>. HIDE DEF r
<1>2. s = Break(r, "disconnected")
  BY <1>1 DEF DisconnectNamedPipe
<1>3. /\ s \in Pipe(Msg) /\ s.state = "disconnected" /\ s.buffer = r.buffer
      /\ s.out = <<>> /\ s.in = <<>> /\ s.connect = Broken(r.connect)
      /\ s.read = Broken(r.read) /\ s.write = Broken(r.write)
  BY <1>1, <1>2, BreakIs DEF PipeStates
<1>. HIDE DEF s
<1>4. Passive(r, s) /\ Lost(r, s)
  BY <1>1, <1>3, BrokenOK
<1>5. /\ PipeOK(s) /\ s.read = "idle" /\ s.connect = "idle"
      /\ s.write = Broken(p.write) /\ Lost(p, s)
      /\ Unlisted(s) = Unlisted(p)
  BY <1>1, <1>3, <1>4 DEF Passive, Broken, Lost, Unlisted
<1>. DEFINE q == ConnectNamedPipe(s)
<1>6. /\ PipeOK(q) /\ q.read = "idle" /\ q.state = "listening" /\ q.connect = "pending"
      /\ q.write = s.write /\ q.out = s.out /\ Unlisted(q) = Unlisted(s)
  BY <1>3, <1>5, ConnectOK
<1>. HIDE DEF q
<1>7. Lost(p, q)
  BY <1>5, <1>6 DEF Lost
<1>. QED BY <1>5, <1>6, <1>7 DEF q, s, r

-----------------------------------------------------------------------------
(***************************************************************************)
(* What the three programs do alike                                        *)
(***************************************************************************)
ChannelStep == [Channel!ChanNext]_(Channel!chanVars)

\* A message leaves the list only when no write is outstanding, but in the handler of
\* one that has completed.
PopStep == Len(writeMsgsList') < Len(writeMsgsList) => pipe.write = "idle" \/ workerPc = "write"

\* A call that issues nothing, with the lists and main where they are.
LEMMA PassiveCall ==
    ASSUME Common, Passive(pipe, pipe'),
           UNCHANGED <<writeMsgsList, readMsgsList, dispatched, bWritting>>
    PROVE  /\ ~bWritting' => pipe'.write = "idle"
           /\ pipe.connect = "idle" => pipe'.connect = "idle"
           /\ pipe.read = "idle" => pipe'.read = "idle"
           /\ Completed(pipe.read) => Completed(pipe'.read)
           /\ Completed(pipe.connect) => pipe'.connect = pipe.connect
           /\ pipe'.connect # pipe.connect => pipe.connect = "pending" /\ Completed(pipe'.connect)
           /\ pipe'.read # pipe.read => pipe.read = "pending" /\ Completed(pipe'.read)
           /\ Unlisted(pipe') = Unlisted(pipe) => Inbound' = Inbound
           /\ PopStep
<1>1. /\ pipe'.connect = pipe.connect \/ (pipe.connect = "pending" /\ Completed(pipe'.connect))
      /\ pipe'.read = pipe.read \/ (pipe.read = "pending" /\ Completed(pipe'.read))
      /\ pipe'.write = pipe.write \/ (pipe.write = "pending" /\ Completed(pipe'.write))
  BY Fields DEF Passive, Op, Common
<1>2. Unlisted(pipe') = Unlisted(pipe) => Inbound' = Inbound
  BY DEF Inbound
<1>3. PopStep
  BY LenProperties DEF PopStep, Common
<1>. QED BY <1>1, <1>2, <1>3 DEF Common, Completed

\* A line is queued.
LEMMA LineQueued ==
    ASSUME Common, sent' = sent + 1, writeMsgsList' = Append(writeMsgsList, sent + 1),
           UNCHANGED <<pipe, readMsgsList, dispatched, bWritting, got, peerSent, connects>>
    PROVE  Common' /\ Inbound' = Inbound /\ PopStep /\ ChannelStep
<1>1. /\ sent + 1 \in Msg /\ sent' \in Nat
      /\ writeMsgsList' \in Seq(Msg)
      /\ Len(writeMsgsList') = Len(writeMsgsList) + 1 /\ Len(writeMsgsList) \in Nat
  <2>1. sent \in Nat /\ writeMsgsList \in Seq(Msg)
    BY DEF Common
  <2>2. sent + 1 \in Msg /\ sent' \in Nat
    BY <2>1 DEF Msg
  <2>. QED BY <2>1, <2>2, AppendProperties, LenProperties
<1>2. Common' /\ PopStep /\ Inbound' = Inbound
  BY <1>1 DEF Common, PopStep, Inbound
<1>3. ChannelStep
  BY DEF ChannelStep, Channel!ChanNext, Channel!Send
<1>. QED BY <1>2, <1>3

\* Main takes what was listed.
LEMMA ListTaken ==
    ASSUME Common, dispatched' = dispatched \o readMsgsList, readMsgsList' = <<>>,
           UNCHANGED <<pipe, writeMsgsList, bWritting, sent, got, peerSent, connects>>
    PROVE  Common' /\ Inbound' = Inbound /\ PopStep /\ ChannelStep
<1>1. dispatched' = Cat(dispatched, readMsgsList) /\ readMsgsList' = <<>>
  BY DEF Cat
<1>2. dispatched' \in Seq(Msg) /\ readMsgsList' \in Seq(Msg)
  BY <1>1, CatType DEF Common
<1>3. Unlisted(pipe) \in Seq(Msg)
  BY Fields, CatType DEF Common, Unlisted
<1>4. Inbound' = Inbound
  <2>1. Cat(dispatched, readMsgsList) \in Seq(Msg)
    BY CatType DEF Common
  <2>2. Cat(Cat(dispatched, readMsgsList), <<>>) = Cat(dispatched, readMsgsList)
    BY <2>1, CatEmpty
  <2>. QED BY <1>1, <2>2 DEF Inbound
<1>5. Common'
  BY <1>2 DEF Common
<1>6. PopStep /\ ChannelStep
  BY LenProperties DEF Common, PopStep, ChannelStep, Channel!chanVars
<1>. QED BY <1>4, <1>5, <1>6

\* A read has completed and the next one is issued.
LEMMA ReadListed ==
    ASSUME Common, pipe.read = "success",
           readMsgsList' = readMsgsList \o pipe.buffer,
           pipe' = ReadFile([pipe EXCEPT !.read = "idle", !.buffer = <<>>]),
           UNCHANGED <<writeMsgsList, dispatched, bWritting, sent, got, peerSent, connects>>
    PROVE  /\ Common' /\ Inbound' = Inbound /\ PopStep /\ ChannelStep
           /\ pipe'.state = pipe.state /\ pipe'.state # "listening"
           /\ pipe'.state = "connected" => pipe'.read # "idle"
           /\ pipe.connect = "idle" /\ pipe'.connect = "idle"
<1>. DEFINE r == [pipe EXCEPT !.read = "idle", !.buffer = <<>>]
<1>1. /\ PipeOK(r) /\ r.read = "idle" /\ r.connect = "idle"
      /\ r.state = pipe.state /\ r.state # "listening" /\ r.write = pipe.write
      /\ r.out = pipe.out /\ Unlisted(r) = pipe.in
  BY ReadConsumed DEF Common
<1>. HIDE DEF r
<1>2. /\ PipeOK(pipe') /\ pipe'.state = r.state /\ pipe'.connect = "idle"
      /\ pipe'.write = r.write
      /\ pipe'.state = "connected" => pipe'.read # "idle"
      /\ pipe'.out = r.out /\ Unlisted(pipe') = Unlisted(r)
  BY <1>1, ReadFileOK DEF r
<1>3. /\ pipe.buffer \in Seq(Msg) /\ pipe.in \in Seq(Msg)
      /\ dispatched \in Seq(Msg) /\ readMsgsList \in Seq(Msg)
  BY Fields DEF Common
<1>4. readMsgsList' = Cat(readMsgsList, pipe.buffer) /\ readMsgsList' \in Seq(Msg)
  BY <1>3, CatType DEF Cat
<1>5. Inbound' = Inbound
  BY <1>1, <1>2, <1>3, <1>4, Relisted DEF Inbound, Unlisted
<1>6. Common'
  BY <1>1, <1>2, <1>4 DEF Common
<1>7. PopStep /\ ChannelStep
  BY <1>1, <1>2, LenProperties DEF Common, PopStep, ChannelStep, Channel!chanVars
<1>8. pipe.connect = "idle"
  BY DEF Common, PipeOK
<1>. QED BY <1>1, <1>2, <1>5, <1>6, <1>7, <1>8

\* The oldest message is popped and written.
LEMMA OldestWritten ==
    ASSUME Common, writeMsgsList # <<>>, pipe.write # "pending",
           pipe.write = "idle" \/ workerPc = "write",
           pipe' = WriteFile([pipe EXCEPT !.write = "idle"], Head(writeMsgsList)),
           writeMsgsList' = Tail(writeMsgsList), bWritting' = TRUE,
           UNCHANGED <<readMsgsList, dispatched, sent, got, peerSent, connects>>
    PROVE  /\ Common' /\ Inbound' = Inbound /\ PopStep /\ ChannelStep
           /\ pipe'.state = pipe.state /\ pipe'.read = pipe.read
           /\ pipe'.connect = pipe.connect
<1>. DEFINE r == [pipe EXCEPT !.write = "idle"]
            m == Head(writeMsgsList)
<1>1. m \in Msg /\ Tail(writeMsgsList) \in Seq(Msg)
  BY CatTake DEF Common
<1>2. /\ PipeOK(r) /\ r.write = "idle"
      /\ r.state = pipe.state /\ r.read = pipe.read /\ r.connect = pipe.connect
      /\ r.out = pipe.out /\ Unlisted(r) = Unlisted(pipe)
  BY WriteConsumed DEF Common
<1>. HIDE DEF r, m
<1>3. /\ PipeOK(pipe') /\ pipe'.state = r.state /\ pipe'.read = r.read
      /\ pipe'.connect = r.connect
      /\ pipe'.out = r.out \/ pipe'.out = Append(r.out, m)
      /\ Unlisted(pipe') = Unlisted(r)
  BY <1>1, <1>2, WriteFileOK DEF r, m
<1>4. Inbound' = Inbound
  BY <1>2, <1>3 DEF Inbound
<1>5. Common'
  BY <1>1, <1>3 DEF Common
<1>6. ChannelStep
  <2>1. CASE pipe'.out = pipe.out
    BY <2>1 DEF ChannelStep, Channel!ChanNext, Channel!Refuse
  <2>2. CASE pipe'.out = Append(pipe.out, m)
    BY <2>2 DEF ChannelStep, Channel!ChanNext, Channel!Transmit, m
  <2>. QED BY <1>2, <1>3, <2>1, <2>2
<1>7. PopStep
  BY DEF PopStep
<1>8. pipe'.state = pipe.state /\ pipe'.read = pipe.read /\ pipe'.connect = pipe.connect
  BY <1>2, <1>3
<1>. QED BY <1>4, <1>5, <1>6, <1>7, <1>8

\* A write has completed and the list is empty.
LEMMA WriteDone ==
    ASSUME Common, pipe.write # "pending",
           pipe' = [pipe EXCEPT !.write = "idle"], bWritting' = FALSE,
           UNCHANGED <<writeMsgsList, readMsgsList, dispatched, sent, got, peerSent, connects>>
    PROVE  /\ Common' /\ Inbound' = Inbound /\ PopStep /\ ChannelStep
           /\ pipe'.state = pipe.state /\ pipe'.read = pipe.read
           /\ pipe'.connect = pipe.connect
<1>1. /\ PipeOK(pipe') /\ pipe'.write = "idle"
      /\ pipe'.state = pipe.state /\ pipe'.read = pipe.read /\ pipe'.connect = pipe.connect
      /\ pipe'.out = pipe.out /\ Unlisted(pipe') = Unlisted(pipe)
  BY WriteConsumed DEF Common
<1>2. Common' /\ Inbound' = Inbound
  BY <1>1 DEF Common, Inbound
<1>3. PopStep /\ ChannelStep
  BY <1>1, LenProperties DEF Common, PopStep, ChannelStep, Channel!chanVars
<1>. QED BY <1>1, <1>2, <1>3

\* A call that can lose what was written.
LEMMA ChannelLost ==
    ASSUME Lost(pipe, pipe'), UNCHANGED <<sent, writeMsgsList, got>>
    PROVE  ChannelStep
BY DEF Lost, ChannelStep, Channel!ChanNext, Channel!Lose, Channel!chanVars

\* The other end reads.
LEMMA PeerHasRead ==
    ASSUME Common, pipe.out # <<>>, pipe' = PeerRead(pipe),
           got' = Append(got, Head(pipe.out)),
           UNCHANGED <<writeMsgsList, readMsgsList, dispatched, bWritting, sent, peerSent,
                       connects>>
    PROVE  /\ Common' /\ Passive(pipe, pipe') /\ Inbound' = Inbound /\ PopStep /\ ChannelStep
           /\ pipe'.state = pipe.state
<1>1. /\ Passive(pipe, pipe') /\ pipe'.state = pipe.state
      /\ pipe'.out = Tail(pipe.out) /\ Unlisted(pipe') = Unlisted(pipe)
  BY PeerReadOK DEF Common
<1>2. pipe.out \in Seq(Msg) /\ Head(pipe.out) \in Msg
  BY Fields, CatTake DEF Common
<1>3. got' \in Seq(Msg)
  BY <1>2, AppendProperties DEF Common
<1>4. Common'
  BY <1>1, <1>3, PassiveCall DEF Common, Passive
<1>5. ChannelStep
  BY <1>1 DEF ChannelStep, Channel!ChanNext, Channel!Deliver
<1>. QED BY <1>1, <1>4, <1>5, PassiveCall

\* The other end writes.
LEMMA PeerHasWritten ==
    ASSUME Common, PeerCanWrite(pipe), pipe' = PeerWrite(pipe, peerSent + 1),
           peerSent' = peerSent + 1,
           UNCHANGED <<writeMsgsList, readMsgsList, dispatched, bWritting, sent, got, connects>>
    PROVE  /\ Common' /\ Passive(pipe, pipe') /\ PopStep /\ ChannelStep
           /\ pipe.state = "connected" /\ pipe'.state = "connected"
           /\ Inbound = UpTo(peerSent) => Inbound' = UpTo(peerSent')
<1>1. peerSent + 1 \in Msg /\ Append(UpTo(peerSent), peerSent + 1) = UpTo(peerSent')
  BY UpToNext DEF Common
<1>2. /\ Passive(pipe, pipe') /\ pipe'.state = "connected" /\ pipe.state = "connected"
      /\ pipe'.out = pipe.out /\ Unlisted(pipe') = Append(Unlisted(pipe), peerSent + 1)
  BY <1>1, PeerWriteOK DEF Common
<1>3. Inbound' = Append(Inbound, peerSent + 1)
  <2>1. Cat(dispatched, readMsgsList) \in Seq(Msg) /\ Unlisted(pipe) \in Seq(Msg)
    BY CatType, Fields DEF Common, Unlisted
  <2>2. Cat(Cat(dispatched, readMsgsList), Append(Unlisted(pipe), peerSent + 1))
           = Append(Cat(Cat(dispatched, readMsgsList), Unlisted(pipe)), peerSent + 1)
    BY <1>1, <2>1, CatAppend
  <2>. QED BY <1>2, <2>2 DEF Inbound
<1>4. Common'
  BY <1>2, PassiveCall DEF Common, Passive
<1>5. ChannelStep
  BY <1>2 DEF ChannelStep, Channel!chanVars
<1>. QED BY <1>1, <1>2, <1>3, <1>4, <1>5, PassiveCall

-----------------------------------------------------------------------------
(***************************************************************************)
(* OverlappedServer                                                        *)
(***************************************************************************)
LEMMA ServerCalls ==
    /\ Server!Msg = Msg /\ Server!Pipe(Msg) = Pipe(Msg)
    /\ \A x : Server!NewPipe(x) = NewPipe(x) /\ (Server!Completed(x) <=> Completed(x))
    /\ \A p : /\ Server!ConnectNamedPipe(p) = ConnectNamedPipe(p)
              /\ Server!ConnectResult(p) = ConnectResult(p)
              /\ Server!DisconnectNamedPipe(p) = DisconnectNamedPipe(p)
              /\ Server!ReadFile(p) = ReadFile(p)
              /\ Server!CloseHandle(p) = CloseHandle(p)
              /\ Server!PeerOpen(p) = PeerOpen(p)
              /\ Server!PeerRead(p) = PeerRead(p)
              /\ Server!PeerClose(p) = PeerClose(p)
              /\ Server!PeerCanWrite(p) <=> PeerCanWrite(p)
    /\ \A p, m : /\ Server!WriteFile(p, m) = WriteFile(p, m)
                 /\ Server!PeerWrite(p, m) = PeerWrite(p, m)
<1>1. /\ Server!Msg = Msg /\ Server!Pipe(Msg) = Pipe(Msg)
      /\ \A x : Server!NewPipe(x) = NewPipe(x) /\ (Server!Completed(x) <=> Completed(x))
  BY DEF Server!Msg, Msg, Server!Pipe, Pipe, Server!PipeStates, PipeStates, Server!Operation,
         Operation, Server!NewPipe, NewPipe, Server!Completed, Completed
<1>2. \A p : /\ Server!ConnectNamedPipe(p) = ConnectNamedPipe(p)
             /\ Server!ConnectResult(p) = ConnectResult(p)
  BY DEF Server!ConnectNamedPipe, ConnectNamedPipe, Server!ConnectResult, ConnectResult
<1>3. \A p : /\ Server!DisconnectNamedPipe(p) = DisconnectNamedPipe(p)
             /\ Server!CloseHandle(p) = CloseHandle(p)
             /\ Server!PeerClose(p) = PeerClose(p)
  BY DEF Server!DisconnectNamedPipe, DisconnectNamedPipe, Server!Break, Break, Server!Broken,
         Broken, Server!CloseHandle, CloseHandle, Server!PeerClose, PeerClose
<1>4. \A p : /\ Server!ReadFile(p) = ReadFile(p)
             /\ Server!PeerOpen(p) = PeerOpen(p)
             /\ Server!PeerRead(p) = PeerRead(p)
             /\ Server!PeerCanWrite(p) <=> PeerCanWrite(p)
  BY DEF Server!ReadFile, ReadFile, Server!PeerOpen, PeerOpen, Server!PeerRead, PeerRead,
         Server!PeerCanWrite, PeerCanWrite
<1>5. \A p, m : /\ Server!WriteFile(p, m) = WriteFile(p, m)
                /\ Server!PeerWrite(p, m) = PeerWrite(p, m)
  BY DEF Server!WriteFile, WriteFile, Server!PeerWrite, PeerWrite
<1>. QED BY <1>1, <1>2, <1>3, <1>4, <1>5

ServerKept == ServerInv' /\ PopStep /\ ChannelStep

LEMMA NewPipeOK ==
    ASSUME NEW x \in {"listening", "connected", "closed"}
    PROVE  /\ PipeOK(NewPipe(x)) /\ NewPipe(x).state = x
           /\ NewPipe(x).connect = "idle" /\ NewPipe(x).read = "idle"
           /\ NewPipe(x).write = "idle" /\ NewPipe(x).out = <<>>
           /\ Unlisted(NewPipe(x)) = <<>>
<1>1. <<>> \in Seq(Msg) /\ Len(<<>>) = 0 /\ Cat(<<>>, <<>>) = <<>>
  BY DEF Cat
<1>2. Quota \in Nat \ {0}
  BY BoundsAssumption
<1>. QED BY <1>1, <1>2 DEF PipeOK, NewPipe, Pipe, PipeStates, Operation, Unlisted

LEMMA NothingInbound ==
    ASSUME dispatched = <<>>, readMsgsList = <<>>, Unlisted(pipe) = <<>>
    PROVE  Inbound = UpTo(0)
<1>1. Cat(<<>>, <<>>) = <<>>
  BY DEF Cat
<1>2. UpTo(0) = <<>>
  BY DEF UpTo
<1>. QED BY <1>1, <1>2 DEF Inbound

LEMMA ServerInit == Server!Init => ServerInv /\ Channel!ChanInit
<1>. SUFFICES ASSUME Server!Init PROVE ServerInv /\ Channel!ChanInit
  OBVIOUS
<1>1. /\ pipe = NewPipe("listening") /\ PipeOK(pipe) /\ pipe.state = "listening"
      /\ pipe.connect = "idle" /\ pipe.read = "idle" /\ pipe.write = "idle"
      /\ pipe.out = <<>> /\ Unlisted(pipe) = <<>>
  BY ServerCalls, NewPipeOK DEF Server!Init
<1>2. Common
  <2>1. <<>> \in Seq(Msg)
    OBVIOUS
  <2>. QED BY <1>1, <2>1 DEF Server!Init, Common
<1>3. ServerTypes /\ ServerPlace /\ SomebodyLooks
  BY <1>1 DEF Server!Init, ServerTypes, ServerPlace, SomebodyLooks
<1>4. InboundKept
  BY <1>1, NothingInbound DEF Server!Init, InboundKept
<1>5. Channel!ChanInit
  BY <1>1 DEF Server!Init, Channel!ChanInit
<1>. QED BY <1>2, <1>3, <1>4, <1>5 DEF ServerInv

\* The main thread.
LEMMA ServerSendLine == ServerInv /\ Server!sendLine => ServerKept
<1>. SUFFICES ASSUME ServerInv, Server!sendLine PROVE ServerKept
  OBVIOUS
<1>1. Common' /\ Inbound' = Inbound /\ PopStep /\ ChannelStep
  BY LineQueued DEF ServerInv, Server!sendLine, Server!workerVars, Server!clientVars
<1>2. ServerTypes' /\ ServerPlace' /\ InboundKept'
  BY <1>1 DEF ServerInv, ServerTypes, ServerPlace, InboundKept, Server!sendLine,
              Server!workerVars, Server!clientVars
<1>3. SomebodyLooks'
  <2>1. /\ writeMsgsList \in Seq(Msg) /\ sent + 1 \in Msg
        /\ writeMsgsList' = Append(writeMsgsList, sent + 1)
    BY DEF ServerInv, Common, Msg, Server!sendLine
  <2>2. writeMsgsList = <<>> => Len(writeMsgsList') = 1
    BY <2>1, AppendProperties
  <2>. QED BY <2>2 DEF ServerInv, ServerTypes, SomebodyLooks, Server!sendLine,
                       Server!workerVars, Server!clientVars
<1>. QED BY <1>1, <1>2, <1>3 DEF ServerKept, ServerInv

LEMMA ServerMain ==
    ServerInv /\ (Server!dispatchMsgs \/ Server!exitLine \/ Server!returnFromMain) => ServerKept
<1>. SUFFICES ASSUME ServerInv,
                     Server!dispatchMsgs \/ Server!exitLine \/ Server!returnFromMain
              PROVE  ServerKept
  OBVIOUS
<1>1. CASE Server!dispatchMsgs
  <2>1. Common' /\ Inbound' = Inbound /\ PopStep /\ ChannelStep
    BY <1>1, ListTaken DEF ServerInv, Server!dispatchMsgs, Server!workerVars, Server!clientVars
  <2>2. ServerTypes' /\ ServerPlace' /\ InboundKept' /\ SomebodyLooks'
    BY <1>1, <2>1 DEF ServerInv, ServerTypes, ServerPlace, InboundKept, SomebodyLooks,
              Server!dispatchMsgs, Server!workerVars, Server!clientVars
  <2>. QED BY <2>1, <2>2 DEF ServerKept, ServerInv
<1>2. CASE Server!exitLine
  <2>1. /\ Common' /\ Inbound' = Inbound
        /\ UNCHANGED <<pipe, writeMsgsList, sent, got>>
    BY <1>2 DEF ServerInv, Common, Inbound, Server!exitLine, Server!workerVars,
                Server!clientVars, Server!listVars
  <2>2. ServerTypes' /\ ServerPlace' /\ InboundKept' /\ SomebodyLooks'
    BY <1>2, <2>1 DEF ServerInv, ServerTypes, ServerPlace, InboundKept, SomebodyLooks,
              Server!exitLine, Server!workerVars, Server!clientVars, Server!listVars
  <2>3. PopStep /\ ChannelStep
    BY <2>1, LenProperties DEF ServerInv, Common, PopStep, ChannelStep, Channel!chanVars
  <2>. QED BY <2>1, <2>2, <2>3 DEF ServerKept, ServerInv
<1>3. CASE Server!returnFromMain
  <2>1. /\ Passive(pipe, pipe') /\ pipe'.state = "closed" /\ Lost(pipe, pipe')
        /\ workerPc' = "exited"
        /\ UNCHANGED <<writeMsgsList, readMsgsList, dispatched, bWritting, sent, got,
                       peerSent, connects, stopEvent, notEmptyEvent>>
    BY <1>3, ServerCalls, CloseOK DEF ServerInv, Common, Server!returnFromMain,
       Server!clientVars, Server!listVars
  <2>2. Common' /\ PopStep /\ ChannelStep
    BY <2>1, PassiveCall, ChannelLost DEF ServerInv, Common, Passive
  <2>3. ServerTypes' /\ ServerPlace' /\ InboundKept' /\ SomebodyLooks'
    BY <1>3, <2>1 DEF ServerInv, ServerTypes, ServerPlace, InboundKept, SomebodyLooks,
              Server!returnFromMain
  <2>. QED BY <2>2, <2>3 DEF ServerKept, ServerInv
<1>. QED BY <1>1, <1>2, <1>3

\* The worker.
LEMMA ServerStartWorker == ServerInv /\ Server!startWorker => ServerKept
<1>. SUFFICES ASSUME ServerInv, Server!startWorker PROVE ServerKept
  OBVIOUS
<1>. DEFINE q == ConnectNamedPipe(pipe)
<1>1. /\ PipeOK(pipe) /\ pipe.connect = "idle" /\ pipe.read = "idle"
      /\ workerPc = "start" /\ workerPc' = "wait"
      /\ UNCHANGED <<writeMsgsList, readMsgsList, dispatched, bWritting, sent, got,
                     peerSent, connects, stopEvent, notEmptyEvent, mainPc>>
  BY DEF ServerInv, Common, ServerPlace, Server!startWorker, Server!mainVars,
         Server!listVars, Server!clientVars
<1>2. /\ PipeOK(q) /\ q.read = "idle" /\ q.connect \in {"idle", "pending"}
      /\ q.connect = "idle" => q.state = pipe.state
      /\ q.state = "closed" => pipe.state = "closed"
      /\ q.write = pipe.write /\ q.out = pipe.out /\ Unlisted(q) = Unlisted(pipe)
  BY <1>1, ConnectOK
<1>3. pipe' = IF ConnectResult(pipe) = "ERROR_PIPE_CONNECTED"
              THEN [q EXCEPT !.connect = "success"] ELSE q
  BY ServerCalls DEF Server!startWorker, Server!ConnectToNewClient
<1>4. /\ PipeOK(pipe') /\ pipe'.write = pipe.write /\ pipe'.out = pipe.out
      /\ Unlisted(pipe') = Unlisted(pipe)
      /\ pipe'.state = "closed" => pipe.state = "closed"
  <2>1. CASE ConnectResult(pipe) = "ERROR_PIPE_CONNECTED"
    <3>1. pipe.state = "connected"
      BY <1>1, <2>1, Fields DEF ConnectResult, PipeStates
    <3>2. q = [pipe EXCEPT !.connect = "idle"]
      BY <2>1 DEF ConnectNamedPipe
    <3>3. q.state = "connected" /\ q \in Pipe(Msg)
      BY <1>1, <1>2, <3>1, <3>2, ConnectConsumed DEF PipeOK
    <3>. HIDE DEF q
    <3>4. pipe' = [q EXCEPT !.connect = "success"]
      BY <1>3, <2>1
    <3>5. pipe' \in Pipe(Msg)
      BY <3>3, <3>4 DEF Pipe, Operation
    <3>6. /\ pipe'.connect = "success" /\ pipe'.state = q.state /\ pipe'.in = q.in
          /\ pipe'.out = q.out /\ pipe'.read = q.read /\ pipe'.write = q.write
          /\ pipe'.buffer = q.buffer
      BY <3>3, <3>4 DEF Pipe
    <3>7. PipeOK(pipe')
      BY <1>2, <3>3, <3>5, <3>6 DEF PipeOK
    <3>. QED BY <1>2, <3>1, <3>6, <3>7 DEF Unlisted
  <2>2. CASE ConnectResult(pipe) # "ERROR_PIPE_CONNECTED"
    BY <1>2, <1>3, <2>2
  <2>. QED BY <2>1, <2>2
<1>. HIDE DEF q
<1>5. Common' /\ Inbound' = Inbound
  BY <1>1, <1>4 DEF ServerInv, Common, Inbound
<1>6. ServerTypes' /\ ServerPlace' /\ SomebodyLooks' /\ InboundKept'
  BY <1>1, <1>4, <1>5
     DEF ServerInv, ServerTypes, ServerPlace, SomebodyLooks, InboundKept
<1>7. PopStep /\ ChannelStep
  BY <1>1, <1>4, LenProperties DEF ServerInv, Common, PopStep, ChannelStep, Channel!chanVars
<1>. QED BY <1>5, <1>6, <1>7 DEF ServerKept, ServerInv

\* The worker's steps that call nothing.
LEMMA ServerQuiet ==
    ServerInv /\ (\/ Server!waitForEvent \/ Server!handleNotEmptyEventRefused
                  \/ Server!resetNotEmptyEvent) => ServerKept
<1>. SUFFICES ASSUME ServerInv, \/ Server!waitForEvent \/ Server!handleNotEmptyEventRefused
                                \/ Server!resetNotEmptyEvent
              PROVE  ServerKept
  OBVIOUS
<1>1. /\ UNCHANGED <<pipe, writeMsgsList, readMsgsList, dispatched, bWritting, sent, got,
                     peerSent, connects, stopEvent, mainPc>>
      /\ Common' /\ Inbound' = Inbound /\ PopStep /\ ChannelStep
  <2>1. UNCHANGED <<pipe, writeMsgsList, readMsgsList, dispatched, bWritting, sent, got,
                    peerSent, connects, stopEvent, mainPc>>
    BY DEF Server!waitForEvent, Server!handleNotEmptyEventRefused,
           Server!resetNotEmptyEvent, Server!mainVars, Server!listVars, Server!clientVars
  <2>2. Common' /\ Inbound' = Inbound
    BY <2>1 DEF ServerInv, Common, Inbound
  <2>3. PopStep /\ ChannelStep
    BY <2>1, LenProperties DEF ServerInv, Common, PopStep, ChannelStep, Channel!chanVars
  <2>. QED BY <2>1, <2>2, <2>3
<1>2. CASE Server!waitForEvent
  <2>1. PICK h \in Server!Handler :
            Server!EventSet(h) /\ workerPc' = IF h = "stop" THEN "exited" ELSE h
    BY <1>2 DEF Server!waitForEvent
  <2>2. /\ workerPc = "wait" /\ notEmptyEvent' = notEmptyEvent
        /\ h \in {"connect", "read", "write", "stop", "notEmpty"}
        /\ h = "connect" => Completed(pipe["connect"])
        /\ h = "read" => Completed(pipe["read"])
    BY <1>2, <2>1, ServerCalls DEF Server!waitForEvent, Server!EventSet, Server!Handler,
       Server!listVars
  <2>3. PipeOK(pipe) /\ pipe["connect"] = pipe.connect /\ pipe["read"] = pipe.read
    BY Fields DEF ServerInv, Common
  <2>4. /\ workerPc' = "connect" => pipe.read = "idle"
        /\ workerPc' = "read" => Completed(pipe.read)
    BY <2>1, <2>2, <2>3 DEF Completed, PipeOK
  <2>5. workerPc' \in Server!Handler \cup {"exited"} /\ workerPc' # "start"
        /\ workerPc' # "resetNotEmpty"
    BY <2>1, <2>2 DEF Server!Handler
  <2>6. ServerTypes' /\ ServerPlace'
    BY <1>1, <2>2, <2>4, <2>5 DEF ServerInv, ServerTypes, ServerPlace
  <2>7. SomebodyLooks' /\ InboundKept'
    BY <1>1, <2>2 DEF ServerInv, SomebodyLooks, InboundKept
  <2>. QED BY <1>1, <2>6, <2>7 DEF ServerKept, ServerInv
<1>3. CASE Server!handleNotEmptyEventRefused
  <2>1. ServerTypes' /\ ServerPlace' /\ SomebodyLooks' /\ InboundKept'
    BY <1>1, <1>3 DEF ServerInv, ServerTypes, ServerPlace, SomebodyLooks, InboundKept,
       Server!handleNotEmptyEventRefused, Server!listVars
  <2>. QED BY <1>1, <2>1 DEF ServerKept, ServerInv
<1>4. CASE Server!resetNotEmptyEvent
  <2>1. bWritting' = bWritting /\ bWritting /\ workerPc' = "wait" /\ notEmptyEvent' = FALSE
    BY <1>1, <1>4 DEF ServerInv, ServerPlace, Server!resetNotEmptyEvent
  <2>2. ServerTypes' /\ ServerPlace'
    BY <1>1, <1>4, <2>1 DEF ServerInv, ServerTypes, ServerPlace, Server!resetNotEmptyEvent
  <2>3. SomebodyLooks' /\ InboundKept'
    BY <1>1, <2>1 DEF ServerInv, SomebodyLooks, InboundKept
  <2>. QED BY <1>1, <2>2, <2>3 DEF ServerKept, ServerInv
<1>. QED BY <1>2, <1>3, <1>4

LEMMA ServerConnectEvent == ServerInv /\ Server!handleConnectEvent => ServerKept
<1>. SUFFICES ASSUME ServerInv, Server!handleConnectEvent PROVE ServerKept
  OBVIOUS
<1>. DEFINE r == [pipe EXCEPT !.connect = "idle"]
            q == ReadFile(r)
<1>1. /\ PipeOK(pipe) /\ pipe.read = "idle"
      /\ workerPc = "connect" /\ workerPc' = "wait"
      /\ UNCHANGED <<writeMsgsList, readMsgsList, dispatched, bWritting, sent, got,
                     peerSent, connects, stopEvent, notEmptyEvent, mainPc>>
  BY DEF ServerInv, Common, ServerPlace, Server!handleConnectEvent, Server!mainVars,
         Server!listVars, Server!clientVars
<1>2. /\ PipeOK(r) /\ r.connect = "idle" /\ r.state = pipe.state /\ r.read = "idle"
      /\ r.write = pipe.write /\ r.out = pipe.out /\ Unlisted(r) = Unlisted(pipe)
  BY <1>1, ConnectConsumed DEF Unlisted
<1>3. pipe' = q
  <2>1. pipe' = [ReadFile(pipe) EXCEPT !.connect = "idle"]
    BY ServerCalls DEF Server!handleConnectEvent
  <2>2. pipe \in Pipe(Msg)
    BY <1>1, Fields
  <2>. QED BY <2>1, <2>2 DEF ReadFile, Pipe
<1>. HIDE DEF r
<1>4. /\ PipeOK(q) /\ q.state = r.state /\ q.connect = "idle" /\ q.write = r.write
      /\ q.out = r.out /\ Unlisted(q) = Unlisted(r)
  BY <1>2, ReadFileOK
<1>. HIDE DEF q
<1>5. Common' /\ Inbound' = Inbound /\ pipe'.state = pipe.state
  BY <1>1, <1>2, <1>3, <1>4 DEF ServerInv, Common, Inbound
<1>6. ServerTypes' /\ ServerPlace' /\ SomebodyLooks' /\ InboundKept'
  BY <1>1, <1>5 DEF ServerInv, ServerTypes, ServerPlace, SomebodyLooks, InboundKept
<1>7. PopStep /\ ChannelStep
  BY <1>1, <1>2, <1>3, <1>4, LenProperties
     DEF ServerInv, Common, PopStep, ChannelStep, Channel!chanVars
<1>. QED BY <1>5, <1>6, <1>7 DEF ServerKept, ServerInv

LEMMA ServerReadDone == ServerInv /\ Server!handleReadDone => ServerKept
<1>. SUFFICES ASSUME ServerInv, Server!handleReadDone PROVE ServerKept
  OBVIOUS
<1>1. /\ Common' /\ Inbound' = Inbound /\ PopStep /\ ChannelStep
      /\ pipe'.state = pipe.state
  BY ServerCalls, ReadListed DEF ServerInv, Server!handleReadDone, Server!mainVars,
     Server!clientVars
<1>2. ServerTypes' /\ ServerPlace' /\ SomebodyLooks' /\ InboundKept'
  BY <1>1 DEF ServerInv, ServerTypes, ServerPlace, SomebodyLooks, InboundKept,
     Server!handleReadDone, Server!mainVars, Server!clientVars
<1>. QED BY <1>1, <1>2 DEF ServerKept, ServerInv

LEMMA ServerReadError == ServerInv /\ Server!handleReadError => ServerKept
<1>. SUFFICES ASSUME ServerInv, Server!handleReadError PROVE ServerKept
  OBVIOUS
<1>. DEFINE q == ConnectNamedPipe(DisconnectNamedPipe([pipe EXCEPT !.read = "idle"]))
<1>1. /\ PipeOK(pipe) /\ pipe.read = "error" /\ pipe.state # "closed"
      /\ workerPc = "read" /\ workerPc' = "wait"
      /\ UNCHANGED <<writeMsgsList, readMsgsList, dispatched, bWritting, sent, got,
                     peerSent, connects, stopEvent, notEmptyEvent, mainPc>>
  BY DEF ServerInv, Common, ServerPlace, Server!handleReadError, Server!mainVars,
         Server!listVars, Server!clientVars
<1>2. pipe' = q
  <2>1. DisconnectNamedPipe(pipe) = Break(pipe, "disconnected")
    BY <1>1 DEF DisconnectNamedPipe
  <2>2. pipe \in Pipe(Msg)
    BY <1>1, Fields
  <2>3. Break(pipe, "disconnected").state = "disconnected"
    BY <2>2 DEF Break, Pipe
  <2>4. Server!ConnectToNewClient(DisconnectNamedPipe(pipe))
            = ConnectNamedPipe(Break(pipe, "disconnected"))
    BY <2>1, <2>3, ServerCalls DEF Server!ConnectToNewClient, ConnectResult
  <2>5. pipe' = [ConnectNamedPipe(Break(pipe, "disconnected")) EXCEPT !.read = "idle"]
    BY <2>4, ServerCalls DEF Server!handleReadError
  <2>6. [pipe EXCEPT !.read = "idle"].state # "closed"
    BY <1>1, <2>2 DEF Pipe
  <2>7. q = ConnectNamedPipe(Break([pipe EXCEPT !.read = "idle"], "disconnected"))
    BY <2>6 DEF DisconnectNamedPipe
  <2>8. \A p : p.state = "disconnected" =>
            ConnectNamedPipe(p) = [p EXCEPT !.state = "listening", !.connect = "pending"]
    BY DEF ConnectNamedPipe, ConnectResult
  <2>9. Break([pipe EXCEPT !.read = "idle"], "disconnected").state = "disconnected"
    BY <2>2 DEF Break, Pipe
  <2>10. [Break(pipe, "disconnected") EXCEPT !.state = "listening", !.connect = "pending",
                                             !.read = "idle"]
          = [Break([pipe EXCEPT !.read = "idle"], "disconnected")
                EXCEPT !.state = "listening", !.connect = "pending"]
    BY <2>2 DEF Break, Broken, Pipe
  <2>11. [[Break(pipe, "disconnected") EXCEPT !.state = "listening", !.connect = "pending"]
              EXCEPT !.read = "idle"]
          = [Break(pipe, "disconnected") EXCEPT !.state = "listening", !.connect = "pending",
                                                !.read = "idle"]
    BY <2>2 DEF Break, Pipe
  <2>. QED BY <2>3, <2>5, <2>7, <2>8, <2>9, <2>10, <2>11
<1>3. /\ PipeOK(q) /\ q.state = "listening" /\ q.write = Broken(pipe.write)
      /\ Lost(pipe, q) /\ Unlisted(q) = Unlisted(pipe)
  BY <1>1, RelistenOK
<1>. HIDE DEF q
<1>4. Common' /\ Inbound' = Inbound
  BY <1>1, <1>2, <1>3 DEF ServerInv, Common, Inbound, Broken
<1>5. ServerTypes' /\ ServerPlace' /\ SomebodyLooks' /\ InboundKept'
  BY <1>1, <1>2, <1>3, <1>4
     DEF ServerInv, ServerTypes, ServerPlace, SomebodyLooks, InboundKept
<1>6. PopStep /\ ChannelStep
  BY <1>1, <1>2, <1>3, ChannelLost, LenProperties DEF ServerInv, Common, PopStep
<1>. QED BY <1>4, <1>5, <1>6 DEF ServerKept, ServerInv

LEMMA ServerWrites ==
    ServerInv /\ (Server!handleNotEmptyEvent \/ Server!handleWriteDone) => ServerKept
<1>. SUFFICES ASSUME ServerInv, Server!handleNotEmptyEvent \/ Server!handleWriteDone
              PROVE  ServerKept
  OBVIOUS
<1>1. /\ Common /\ pipe.write # "pending"
      /\ pipe.write = "idle" \/ workerPc = "write"
      /\ workerPc # "exited" /\ workerPc' # "start" /\ workerPc' # "connect"
      /\ workerPc' # "read" /\ workerPc' # "exited"
      /\ workerPc' \in {"wait", "resetNotEmpty"}
      /\ UNCHANGED <<readMsgsList, dispatched, sent, got, peerSent, connects, stopEvent,
                     notEmptyEvent, mainPc>>
  BY DEF ServerInv, Common, Server!handleNotEmptyEvent, Server!handleWriteDone,
         Server!mainVars, Server!clientVars
<1>2. \/ /\ writeMsgsList # <<>>
         /\ pipe' = WriteFile([pipe EXCEPT !.write = "idle"], Head(writeMsgsList))
         /\ writeMsgsList' = Tail(writeMsgsList) /\ bWritting' = TRUE
      \/ /\ writeMsgsList = <<>> /\ writeMsgsList' = <<>>
         /\ pipe' = [pipe EXCEPT !.write = "idle"] /\ bWritting' = FALSE
         /\ workerPc' = "wait"
  BY ServerCalls DEF Server!handleNotEmptyEvent, Server!handleWriteDone, Server!writeOldest
<1>3. /\ Common' /\ Inbound' = Inbound /\ PopStep /\ ChannelStep
      /\ pipe'.state = pipe.state /\ pipe'.read = pipe.read
  <2>1. CASE writeMsgsList # <<>>
    <3>1. /\ pipe' = WriteFile([pipe EXCEPT !.write = "idle"], Head(writeMsgsList))
          /\ writeMsgsList' = Tail(writeMsgsList) /\ bWritting' = TRUE
          /\ UNCHANGED <<readMsgsList, dispatched, sent, got, peerSent, connects>>
      BY <1>1, <1>2, <2>1, Zenon
    <3>. QED BY <1>1, <2>1, <3>1, OldestWritten
  <2>2. CASE writeMsgsList = <<>>
    <3>1. /\ pipe' = [pipe EXCEPT !.write = "idle"] /\ bWritting' = FALSE
          /\ UNCHANGED <<writeMsgsList, readMsgsList, dispatched, sent, got, peerSent, connects>>
      BY <1>1, <1>2, <2>2, Zenon
    <3>. QED BY <1>1, <3>1, WriteDone
  <2>. QED BY <2>1, <2>2
<1>4. ServerTypes' /\ ServerPlace' /\ SomebodyLooks' /\ InboundKept'
  BY <1>1, <1>2, <1>3
     DEF ServerInv, ServerTypes, ServerPlace, SomebodyLooks, InboundKept
<1>. QED BY <1>3, <1>4 DEF ServerKept, ServerInv

LEMMA ServerWriteError == ServerInv /\ Server!handleWriteError => ServerKept
<1>. SUFFICES ASSUME ServerInv, Server!handleWriteError PROVE ServerKept
  OBVIOUS
<1>. DEFINE q == CloseHandle(pipe)
<1>1. /\ PipeOK(pipe) /\ pipe.write = "error" /\ workerPc' = "exited" /\ bWritting' = FALSE
      /\ pipe' = [q EXCEPT !.write = "idle"]
      /\ UNCHANGED <<writeMsgsList, readMsgsList, dispatched, sent, got,
                     peerSent, connects, stopEvent, notEmptyEvent, mainPc>>
  BY ServerCalls DEF ServerInv, Common, Server!handleWriteError, Server!mainVars,
         Server!listVars, Server!clientVars
<1>2. Passive(pipe, q) /\ q.state = "closed" /\ Lost(pipe, q)
  BY <1>1, CloseOK
<1>3. q.write # "pending" /\ PipeOK(q)
  BY <1>1, <1>2, Fields DEF Passive, Op, Completed
<1>. HIDE DEF q
<1>4. /\ PipeOK(pipe') /\ pipe'.write = "idle" /\ pipe'.state = "closed"
      /\ pipe'.out = q.out
  BY <1>1, <1>2, <1>3, WriteConsumed
<1>5. Common' /\ Lost(pipe, pipe')
  BY <1>1, <1>2, <1>4 DEF ServerInv, Common, Lost
<1>6. ServerTypes' /\ ServerPlace' /\ SomebodyLooks' /\ InboundKept'
  BY <1>1, <1>4 DEF ServerInv, ServerTypes, ServerPlace, SomebodyLooks, InboundKept
<1>7. PopStep /\ ChannelStep
  BY <1>1, <1>5, ChannelLost, LenProperties DEF ServerInv, Common, PopStep
<1>. QED BY <1>5, <1>6, <1>7 DEF ServerKept, ServerInv

\* The clients.
LEMMA ServerClient == ServerInv /\ Server!Client => ServerKept
<1>. SUFFICES ASSUME ServerInv, Server!Client PROVE ServerKept
  OBVIOUS
<1>a. UNCHANGED <<writeMsgsList, readMsgsList, dispatched, bWritting, sent, stopEvent,
                  notEmptyEvent, mainPc, workerPc>>
  BY DEF Server!Client, Server!clientOpen, Server!clientWrite, Server!clientRead,
         Server!clientClose, Server!mainVars, Server!listVars, Server!workerVars
<1>b. Common
  BY DEF ServerInv
<1>1. ASSUME Passive(pipe, pipe'), Common', Inbound' = UpTo(peerSent'), PopStep, ChannelStep,
             pipe'.state # "closed"
      PROVE  ServerKept
  <2>1. /\ pipe.connect = "idle" => pipe'.connect = "idle"
        /\ pipe.read = "idle" => pipe'.read = "idle"
        /\ Completed(pipe.read) => Completed(pipe'.read)
    BY <1>a, <1>b, <1>1, PassiveCall
  <2>2. ServerTypes' /\ ServerPlace' /\ SomebodyLooks' /\ InboundKept'
    BY <1>a, <1>1, <2>1
       DEF ServerInv, ServerTypes, ServerPlace, SomebodyLooks, InboundKept
  <2>. QED BY <1>1, <2>2 DEF ServerKept, ServerInv
<1>2. CASE Server!clientOpen
  <2>1. /\ Passive(pipe, pipe') /\ pipe'.state = "connected" /\ pipe.state = "listening"
        /\ pipe'.out = pipe.out /\ Unlisted(pipe') = Unlisted(pipe)
        /\ got' = got /\ peerSent' = peerSent /\ connects' \in Nat
    BY <1>2, ServerCalls, OpenOK DEF ServerInv, Common, Server!clientOpen
  <2>2. Common' /\ Inbound' = Inbound /\ PopStep
    BY <1>a, <1>b, <2>1, PassiveCall DEF Common, Passive
  <2>3. ChannelStep
    BY <1>a, <2>1 DEF ChannelStep, Channel!chanVars
  <2>. QED BY <1>1, <2>1, <2>2, <2>3 DEF ServerInv, InboundKept
<1>3. CASE Server!clientWrite
  <2>1. /\ PeerCanWrite(pipe) /\ pipe' = PeerWrite(pipe, peerSent + 1)
        /\ peerSent' = peerSent + 1 /\ UNCHANGED <<got, connects>>
    BY <1>3, ServerCalls DEF Server!clientWrite
  <2>2. /\ Common' /\ Passive(pipe, pipe') /\ PopStep /\ ChannelStep
        /\ pipe.state = "connected" /\ pipe'.state = "connected"
        /\ Inbound = UpTo(peerSent) => Inbound' = UpTo(peerSent')
    BY <1>a, <1>b, <2>1, PeerHasWritten
  <2>. QED BY <1>1, <2>2 DEF ServerInv, InboundKept
<1>4. CASE Server!clientRead
  <2>0. pipe.out # <<>> /\ pipe' = PeerRead(pipe) /\ got' = Append(got, Head(pipe.out))
        /\ UNCHANGED <<peerSent, connects>>
    BY <1>4, ServerCalls DEF Server!clientRead
  <2>1. /\ Common' /\ Passive(pipe, pipe') /\ Inbound' = Inbound /\ PopStep /\ ChannelStep
        /\ pipe'.state = pipe.state
    BY <1>a, <1>b, <2>0, PeerHasRead
  <2>2. /\ pipe.connect = "idle" => pipe'.connect = "idle"
        /\ pipe.read = "idle" => pipe'.read = "idle"
        /\ Completed(pipe.read) => Completed(pipe'.read)
    BY <1>a, <1>b, <2>1, PassiveCall
  <2>3. ServerTypes' /\ ServerPlace' /\ SomebodyLooks' /\ InboundKept'
    BY <1>a, <2>0, <2>1, <2>2
       DEF ServerInv, ServerTypes, ServerPlace, SomebodyLooks, InboundKept
  <2>. QED BY <2>1, <2>3 DEF ServerKept, ServerInv
<1>5. CASE Server!clientClose
  <2>1. /\ Passive(pipe, pipe') /\ pipe'.state = "peerClosed" /\ pipe.state = "connected"
        /\ Lost(pipe, pipe') /\ Unlisted(pipe') = Unlisted(pipe)
        /\ UNCHANGED <<got, peerSent, connects>>
    BY <1>5, ServerCalls, PeerCloseOK DEF ServerInv, Common, Server!clientClose,
       Server!clientVars
  <2>2. Common' /\ Inbound' = Inbound /\ PopStep
    BY <1>a, <1>b, <2>1, PassiveCall DEF Common, Passive
  <2>3. ChannelStep
    BY <1>a, <2>1, ChannelLost
  <2>. QED BY <1>1, <2>1, <2>2, <2>3 DEF ServerInv, InboundKept
<1>. QED BY <1>2, <1>3, <1>4, <1>5 DEF Server!Client

LEMMA ServerNext == ServerInv /\ Server!Next => ServerKept
BY ServerSendLine, ServerMain, ServerStartWorker, ServerQuiet, ServerConnectEvent,
   ServerReadDone, ServerReadError, ServerWrites, ServerWriteError, ServerClient
   DEF Server!Next, Server!Main, Server!Worker

\* What the run checks follows.
LEMMA ServerReuse == ServerInv /\ PopStep => Server!NoOverlappedReuseStep
BY DEF ServerInv, Common, ServerPlace, PipeOK, PopStep, Completed,
       Server!NoOverlappedReuseStep

LEMMA ServerSafe ==
    ServerInv => Server!TypeOK /\ Server!InboundConserved /\ Server!NoLostWakeup
<1>. SUFFICES ASSUME ServerInv
              PROVE  Server!TypeOK /\ Server!InboundConserved /\ Server!NoLostWakeup
  OBVIOUS
<1>1. Server!TypeOK
  BY ServerCalls DEF ServerInv, Common, PipeOK, ServerTypes, Server!TypeOK
<1>2. Server!InboundConserved
  <2>1. /\ dispatched \in Seq(Msg) /\ readMsgsList \in Seq(Msg)
        /\ pipe.buffer \in Seq(Msg) /\ pipe.in \in Seq(Msg)
    BY Fields DEF ServerInv, Common
  <2>2. Inbound = Cat(Cat(Cat(dispatched, readMsgsList), pipe.buffer), pipe.in)
    BY <2>1, Relisted DEF Inbound, Unlisted
  <2>3. Inbound = dispatched \o readMsgsList \o pipe.buffer \o pipe.in
    BY <2>2 DEF Cat
  <2>. QED BY <2>3 DEF ServerInv, InboundKept, UpTo, Server!InboundConserved
<1>3. Server!NoLostWakeup
  BY DEF ServerInv, SomebodyLooks, Server!NoLostWakeup
<1>. QED BY <1>1, <1>2, <1>3

-----------------------------------------------------------------------------
(***************************************************************************)
(* OverlappedClient                                                        *)
(***************************************************************************)
LEMMA ClientCalls ==
    /\ Client!Msg = Msg /\ Client!Pipe(Msg) = Pipe(Msg)
    /\ \A x : Client!NewPipe(x) = NewPipe(x) /\ (Client!Completed(x) <=> Completed(x))
    /\ \A p : /\ Client!ConnectNamedPipe(p) = ConnectNamedPipe(p)
              /\ Client!ConnectResult(p) = ConnectResult(p)
              /\ Client!DisconnectNamedPipe(p) = DisconnectNamedPipe(p)
              /\ Client!ReadFile(p) = ReadFile(p)
              /\ Client!CloseHandle(p) = CloseHandle(p)
              /\ Client!PeerOpen(p) = PeerOpen(p)
              /\ Client!PeerRead(p) = PeerRead(p)
              /\ Client!PeerClose(p) = PeerClose(p)
              /\ Client!PeerCanWrite(p) <=> PeerCanWrite(p)
    /\ \A p, m : /\ Client!WriteFile(p, m) = WriteFile(p, m)
                 /\ Client!PeerWrite(p, m) = PeerWrite(p, m)
<1>1. /\ Client!Msg = Msg /\ Client!Pipe(Msg) = Pipe(Msg)
      /\ \A x : Client!NewPipe(x) = NewPipe(x) /\ (Client!Completed(x) <=> Completed(x))
  BY DEF Client!Msg, Msg, Client!Pipe, Pipe, Client!PipeStates, PipeStates, Client!Operation,
         Operation, Client!NewPipe, NewPipe, Client!Completed, Completed
<1>2. \A p : /\ Client!ConnectNamedPipe(p) = ConnectNamedPipe(p)
             /\ Client!ConnectResult(p) = ConnectResult(p)
  BY DEF Client!ConnectNamedPipe, ConnectNamedPipe, Client!ConnectResult, ConnectResult
<1>3. \A p : /\ Client!DisconnectNamedPipe(p) = DisconnectNamedPipe(p)
             /\ Client!CloseHandle(p) = CloseHandle(p)
             /\ Client!PeerClose(p) = PeerClose(p)
  BY DEF Client!DisconnectNamedPipe, DisconnectNamedPipe, Client!Break, Break, Client!Broken,
         Broken, Client!CloseHandle, CloseHandle, Client!PeerClose, PeerClose
<1>4. \A p : /\ Client!ReadFile(p) = ReadFile(p)
             /\ Client!PeerOpen(p) = PeerOpen(p)
             /\ Client!PeerRead(p) = PeerRead(p)
             /\ Client!PeerCanWrite(p) <=> PeerCanWrite(p)
  BY DEF Client!ReadFile, ReadFile, Client!PeerOpen, PeerOpen, Client!PeerRead, PeerRead,
         Client!PeerCanWrite, PeerCanWrite
<1>5. \A p, m : /\ Client!WriteFile(p, m) = WriteFile(p, m)
                /\ Client!PeerWrite(p, m) = PeerWrite(p, m)
  BY DEF Client!WriteFile, WriteFile, Client!PeerWrite, PeerWrite
<1>. QED BY <1>1, <1>2, <1>3, <1>4, <1>5

ClientKept == ClientInv' /\ PopStep /\ ChannelStep

LEMMA ClientInit == Client!Init => ClientInv /\ Channel!ChanInit
<1>. SUFFICES ASSUME Client!Init PROVE ClientInv /\ Channel!ChanInit
  OBVIOUS
<1>1. /\ pipe = NewPipe("closed") /\ PipeOK(pipe) /\ pipe.state = "closed"
      /\ pipe.connect = "idle" /\ pipe.read = "idle" /\ pipe.write = "idle"
      /\ pipe.out = <<>> /\ Unlisted(pipe) = <<>>
  BY ClientCalls, NewPipeOK DEF Client!Init
<1>2. Common
  <2>1. <<>> \in Seq(Msg)
    OBVIOUS
  <2>. QED BY <1>1, <2>1 DEF Client!Init, Common
<1>3. ClientTypes /\ NothingYet /\ ClientPlace
  BY <1>1 DEF Client!Init, ClientTypes, NothingYet, ClientPlace
<1>4. InboundBegun
  BY <1>1, NothingInbound DEF Client!Init, InboundBegun
<1>5. Channel!ChanInit
  BY <1>1 DEF Client!Init, Channel!ChanInit
<1>. QED BY <1>2, <1>3, <1>4, <1>5 DEF ClientInv

\* Nothing is lost.
LEMMA BegunHolds ==
    ASSUME ClientInv, Inbound' = Inbound, peerSent' = peerSent,
           pipe'.state = "connected" => pipe.state = "connected"
    PROVE  InboundBegun'
BY DEF ClientInv, InboundBegun

\* A step that leaves the pipe and the lists alone.
LEMMA ClientStill ==
    ASSUME ClientInv, ClientTypes', connects' \in Nat,
           UNCHANGED <<pipe, writeMsgsList, readMsgsList, dispatched, bWritting, sent, got,
                       peerSent>>,
           workerPc' \in {"open", "waitPipe"} => workerPc \in {"open", "waitPipe"},
           workerPc' \in {"setMode", "create"} => workerPc \in {"setMode", "create"}
    PROVE  ClientKept
<1>1. Common' /\ Inbound' = Inbound
  BY DEF ClientInv, Common, Inbound
<1>2. NothingYet' /\ ClientPlace'
  BY DEF ClientInv, NothingYet, ClientPlace
<1>3. InboundBegun'
  BY <1>1, BegunHolds
<1>4. PopStep /\ ChannelStep
  BY LenProperties DEF ClientInv, Common, PopStep, ChannelStep, Channel!chanVars
<1>. QED BY <1>1, <1>2, <1>3, <1>4 DEF ClientKept, ClientInv

\* The connection ends and takes with it what this end has not received.
LEMMA ClientCutOff ==
    ASSUME ClientInv, ClientTypes', bWritting' \in BOOLEAN, PipeOK(pipe'), Lost(pipe, pipe'),
           pipe'.connect = "idle", pipe'.state # "connected",
           Unlisted(pipe') = Cat(pipe.buffer, <<>>),
           ~bWritting' => pipe'.write = "idle",
           workerPc' \notin {"open", "waitPipe"},
           workerPc' \in {"setMode", "create"} => pipe'.read = "idle",
           UNCHANGED <<writeMsgsList, readMsgsList, dispatched, sent, got, peerSent, connects>>
    PROVE  ClientKept
<1>1. Common'
  BY DEF ClientInv, Common
<1>2. NothingYet' /\ ClientPlace'
  BY DEF NothingYet, ClientPlace
<1>3. InboundBegun'
  <2>1. PICK n \in 0 .. peerSent : Inbound = UpTo(n)
    BY DEF ClientInv, InboundBegun
  <2>. DEFINE s == Cat(Cat(dispatched, readMsgsList), pipe.buffer)
  <2>2. /\ dispatched \in Seq(Msg) /\ readMsgsList \in Seq(Msg)
        /\ pipe.buffer \in Seq(Msg) /\ pipe.in \in Seq(Msg) /\ peerSent \in Nat
    BY Fields DEF ClientInv, Common
  <2>3. s \in Seq(Msg) /\ Inbound = Cat(s, pipe.in)
    <3>1. s \in Seq(Msg)
      BY <2>2, CatType
    <3>2. s = Cat(Cat(dispatched, readMsgsList), pipe.buffer)
      OBVIOUS
    <3>. HIDE DEF s
    <3>3. Inbound = Cat(s, pipe.in)
      BY <2>2, <3>2, Relisted DEF Inbound, Unlisted
    <3>. QED BY <3>1, <3>3
  <2>4. s = Inbound'
    <3>1. Cat(pipe.buffer, <<>>) = pipe.buffer
      BY <2>2, CatEmpty
    <3>. QED BY <3>1 DEF Inbound
  <2>. HIDE DEF s
  <2>5. s = UpTo(Len(s)) /\ Len(s) \in 0 .. n
    <3>1. n \in Nat /\ Cat(s, pipe.in) = UpTo(n)
      BY <2>1, <2>2, <2>3
    <3>. QED BY <2>2, <2>3, <3>1, UpToPrefix
  <2>6. Len(s) \in 0 .. peerSent
    BY <2>1, <2>2, <2>5
  <2>. QED BY <2>4, <2>5, <2>6 DEF InboundBegun
<1>4. PopStep /\ ChannelStep
  BY ChannelLost, LenProperties DEF ClientInv, Common, PopStep
<1>. QED BY <1>1, <1>2, <1>3, <1>4 DEF ClientKept, ClientInv

\* The main thread.
LEMMA ClientMain ==
    ClientInv /\ (\/ Client!testStop \/ Client!sendLine \/ Client!dispatchMsgs
                  \/ Client!exitLine \/ Client!joinWorker) => ClientKept
<1>. SUFFICES ASSUME ClientInv, \/ Client!testStop \/ Client!sendLine \/ Client!dispatchMsgs
                                \/ Client!exitLine \/ Client!joinWorker
              PROVE  ClientKept
  OBVIOUS
<1>a. Common /\ connects \in Nat
  BY DEF ClientInv, Common
<1>1. CASE Client!testStop \/ Client!exitLine \/ Client!joinWorker
  <2>1. /\ UNCHANGED <<pipe, writeMsgsList, readMsgsList, dispatched, bWritting, sent, got,
                       peerSent>>
        /\ connects' \in Nat /\ workerPc' = workerPc
    BY <1>1, <1>a DEF Client!testStop, Client!exitLine, Client!joinWorker, Client!listVars,
       Client!workerVars, Client!serverVars
  <2>2. ClientTypes'
    BY <1>1 DEF ClientInv, ClientTypes, Client!testStop, Client!exitLine, Client!joinWorker,
       Client!listVars, Client!workerVars, Client!serverVars
  <2>. QED BY <2>1, <2>2, ClientStill
<1>2. ASSUME Common', Inbound' = Inbound, PopStep, ChannelStep, ClientTypes',
             UNCHANGED <<pipe, peerSent, workerPc>>,
             workerPc \notin {"open", "waitPipe"} \/ UNCHANGED <<dispatched, readMsgsList>>
      PROVE  ClientKept
  <2>1. NothingYet' /\ ClientPlace' /\ InboundBegun'
    BY <1>2, BegunHolds DEF ClientInv, NothingYet, ClientPlace
  <2>. QED BY <1>2, <2>1 DEF ClientKept, ClientInv
<1>3. CASE Client!sendLine
  <2>1. Common' /\ Inbound' = Inbound /\ PopStep /\ ChannelStep
    BY <1>3, LineQueued DEF ClientInv, Client!sendLine, Client!workerVars, Client!serverVars
  <2>2. ClientTypes'
    BY <1>3 DEF ClientInv, ClientTypes, Client!sendLine, Client!workerVars, Client!serverVars
  <2>3. UNCHANGED <<pipe, peerSent, workerPc, dispatched, readMsgsList>>
    BY <1>3 DEF Client!sendLine, Client!workerVars, Client!serverVars
  <2>. QED BY <1>2, <2>1, <2>2, <2>3
<1>4. CASE Client!dispatchMsgs
  <2>1. Common' /\ Inbound' = Inbound /\ PopStep /\ ChannelStep
    BY <1>4, ListTaken DEF ClientInv, Client!dispatchMsgs, Client!workerVars,
       Client!serverVars
  <2>2. ClientTypes'
    BY <1>4 DEF ClientInv, ClientTypes, Client!dispatchMsgs, Client!workerVars,
       Client!serverVars
  <2>3. UNCHANGED <<pipe, peerSent, workerPc>>
    BY <1>4 DEF Client!dispatchMsgs, Client!workerVars, Client!serverVars
  <2>4. workerPc \in {"open", "waitPipe"} => UNCHANGED <<dispatched, readMsgsList>>
    <3>1. Cat(<<>>, <<>>) = <<>>
      BY DEF Cat
    <3>2. /\ dispatched' = Cat(dispatched, readMsgsList) /\ readMsgsList' = <<>>
          /\ workerPc \in {"open", "waitPipe"} => dispatched = <<>> /\ readMsgsList = <<>>
      BY <1>4 DEF ClientInv, NothingYet, Cat, Client!dispatchMsgs
    <3>. QED BY <3>1, <3>2
  <2>. QED BY <1>2, <2>1, <2>2, <2>3, <2>4
<1>. QED BY <1>1, <1>3, <1>4

\* The worker's steps that call nothing, and the instance that changes hands.
LEMMA ClientQuiet ==
    ClientInv /\ (\/ Client!waitOrFail \/ Client!setHandleState \/ Client!waitForEvent
                  \/ Client!handleNotEmptyEventRefused \/ Client!resetNotEmptyEvent
                  \/ Client!instanceChanges) => ClientKept
<1>. SUFFICES ASSUME ClientInv,
                     \/ Client!waitOrFail \/ Client!setHandleState \/ Client!waitForEvent
                     \/ Client!handleNotEmptyEventRefused \/ Client!resetNotEmptyEvent
                     \/ Client!instanceChanges
              PROVE  ClientKept
  OBVIOUS
<1>1. UNCHANGED <<pipe, writeMsgsList, readMsgsList, dispatched, bWritting, sent, got,
                  peerSent, mainPc, stopEvent>>
  BY DEF Client!waitOrFail, Client!setHandleState, Client!workerMoves, Client!waitForEvent,
     Client!handleNotEmptyEventRefused, Client!resetNotEmptyEvent, Client!instanceChanges,
     Client!mainVars, Client!listVars, Client!workerVars, Client!serverVars
<1>2. connects' \in Nat
  BY DEF ClientInv, Common, Client!waitOrFail, Client!setHandleState, Client!workerMoves,
     Client!waitForEvent, Client!handleNotEmptyEventRefused, Client!resetNotEmptyEvent,
     Client!instanceChanges, Client!serverVars
<1>3. /\ instance' \in {"listening", "busy", "none"}
      /\ notEmptyEvent' \in BOOLEAN /\ created' \in BOOLEAN /\ g_mainThreadStop' \in BOOLEAN
  BY DEF ClientInv, ClientTypes, Client!waitOrFail, Client!setHandleState,
     Client!workerMoves, Client!waitForEvent, Client!handleNotEmptyEventRefused,
     Client!resetNotEmptyEvent, Client!instanceChanges, Client!workerEnds,
     Client!workerGoesOn, Client!listVars, Client!workerVars, Client!serverVars
<1>4. /\ workerPc' \in {"open", "waitPipe", "setMode", "create", "wait", "failed", "exited"}
                       \cup Client!Handler
      /\ workerPc' \in {"open", "waitPipe"} => workerPc \in {"open", "waitPipe"}
      /\ workerPc' \in {"setMode", "create"} => workerPc \in {"setMode", "create"}
  BY DEF ClientInv, ClientTypes, Client!waitOrFail, Client!setHandleState,
     Client!workerMoves, Client!waitForEvent, Client!handleNotEmptyEventRefused,
     Client!resetNotEmptyEvent, Client!instanceChanges, Client!workerEnds,
     Client!workerGoesOn, Client!workerVars, Client!Handler
<1>5. ClientTypes'
  BY <1>1, <1>3, <1>4 DEF ClientInv, ClientTypes
<1>. QED BY <1>1, <1>2, <1>4, <1>5, ClientStill

\* The pipe is opened, and the first read issued.
LEMMA ClientCreateFile == ClientInv /\ Client!createFile => ClientKept
<1>. SUFFICES ASSUME ClientInv, Client!createFile PROVE ClientKept
  OBVIOUS
<1>1. /\ pipe' = NewPipe("connected") /\ workerPc' = "setMode" /\ workerPc = "open"
      /\ UNCHANGED <<writeMsgsList, readMsgsList, dispatched, bWritting, sent, got,
                     peerSent, connects>>
  BY ClientCalls DEF Client!createFile, Client!mainVars, Client!listVars
<1>2. /\ PipeOK(pipe') /\ pipe'.state = "connected" /\ pipe'.connect = "idle"
      /\ pipe'.read = "idle" /\ pipe'.write = "idle" /\ pipe'.out = <<>>
      /\ Unlisted(pipe') = <<>>
  BY <1>1, NewPipeOK
<1>3. /\ pipe.out = <<>> /\ peerSent = 0 /\ dispatched = <<>> /\ readMsgsList = <<>>
  BY <1>1 DEF ClientInv, NothingYet, NewPipe
<1>4. Common'
  BY <1>1, <1>2 DEF ClientInv, Common
<1>5. ClientTypes' /\ NothingYet' /\ ClientPlace'
  BY <1>1, <1>2 DEF ClientInv, ClientTypes, NothingYet, ClientPlace, Client!createFile,
     Client!mainVars, Client!listVars
<1>6. InboundBegun'
  <2>1. Inbound' = UpTo(0)
    <3>1. dispatched' = <<>> /\ readMsgsList' = <<>>
      BY <1>1, <1>3
    <3>2. Cat(<<>>, <<>>) = <<>> /\ UpTo(0) = <<>>
      BY DEF Cat, UpTo
    <3>. QED BY <1>2, <3>1, <3>2 DEF Inbound
  <2>. QED BY <1>1, <1>3, <2>1 DEF InboundBegun
<1>7. PopStep /\ ChannelStep
  BY <1>1, <1>2, <1>3, LenProperties
     DEF ClientInv, Common, PopStep, ChannelStep, Channel!chanVars
<1>. QED BY <1>4, <1>5, <1>6, <1>7 DEF ClientKept, ClientInv

LEMMA ClientCreateEvents == ClientInv /\ Client!createEvents => ClientKept
<1>. SUFFICES ASSUME ClientInv, Client!createEvents PROVE ClientKept
  OBVIOUS
<1>1. /\ pipe' = ReadFile(pipe) /\ workerPc' = "wait"
      /\ PipeOK(pipe) /\ pipe.read = "idle" /\ pipe.connect = "idle"
      /\ UNCHANGED <<writeMsgsList, readMsgsList, dispatched, bWritting, sent, got,
                     peerSent, connects>>
  BY ClientCalls DEF ClientInv, Common, ClientPlace, Client!createEvents, Client!mainVars,
     Client!listVars, Client!serverVars
<1>2. /\ PipeOK(pipe') /\ pipe'.state = pipe.state /\ pipe'.connect = "idle"
      /\ pipe'.write = pipe.write /\ pipe'.out = pipe.out
      /\ Unlisted(pipe') = Unlisted(pipe)
  BY <1>1, ReadFileOK
<1>3. Common' /\ Inbound' = Inbound
  BY <1>1, <1>2 DEF ClientInv, Common, Inbound
<1>4. ClientTypes' /\ NothingYet' /\ ClientPlace'
  BY <1>1, <1>2 DEF ClientInv, ClientTypes, NothingYet, ClientPlace, Client!createEvents,
     Client!mainVars, Client!listVars, Client!serverVars
<1>5. InboundBegun'
  BY <1>1, <1>2, <1>3, BegunHolds
<1>6. PopStep /\ ChannelStep
  BY <1>1, <1>2, LenProperties
     DEF ClientInv, Common, PopStep, ChannelStep, Channel!chanVars
<1>. QED BY <1>3, <1>4, <1>5, <1>6 DEF ClientKept, ClientInv

\* The worker's reads and writes that succeed.
LEMMA ClientTransfers ==
    ClientInv /\ (\/ Client!handleReadDone \/ Client!handleNotEmptyEvent
                  \/ Client!handleWriteDone) => ClientKept
<1>. SUFFICES ASSUME ClientInv, \/ Client!handleReadDone \/ Client!handleNotEmptyEvent
                                \/ Client!handleWriteDone
              PROVE  ClientKept
  OBVIOUS
<1>a. /\ Common /\ pipe.connect = "idle"
      /\ workerPc' \in {"wait", "resetNotEmpty"} /\ peerSent' = peerSent
  BY DEF ClientInv, ClientPlace, Client!handleReadDone, Client!handleNotEmptyEvent,
     Client!handleWriteDone, Client!workerGoesOn, Client!serverVars
<1>b. ClientTypes'
  BY DEF ClientInv, ClientTypes, Client!handleReadDone, Client!handleNotEmptyEvent,
     Client!handleWriteDone, Client!workerGoesOn, Client!serverVars, Client!mainVars
<1>1. ASSUME Common', Inbound' = Inbound, PopStep, ChannelStep, pipe'.state = pipe.state,
             pipe'.connect = "idle"
      PROVE  ClientKept
  <2>1. NothingYet' /\ ClientPlace' /\ InboundBegun'
    BY <1>a, <1>1, BegunHolds DEF NothingYet, ClientPlace
  <2>. QED BY <1>b, <1>1, <2>1 DEF ClientKept, ClientInv
<1>2. CASE Client!handleReadDone
  <2>1. /\ Common' /\ Inbound' = Inbound /\ PopStep /\ ChannelStep
        /\ pipe'.state = pipe.state /\ pipe'.connect = "idle"
    BY <1>2, <1>a, ClientCalls, ReadListed DEF Client!handleReadDone, Client!mainVars,
       Client!serverVars
  <2>. QED BY <1>1, <2>1
<1>3. CASE Client!handleNotEmptyEvent \/ Client!handleWriteDone
  <2>1. /\ pipe.write # "pending"
        /\ pipe.write = "idle" \/ workerPc = "write"
        /\ UNCHANGED <<readMsgsList, dispatched, sent, got, peerSent, connects>>
    BY <1>3 DEF ClientInv, Common, Client!handleNotEmptyEvent, Client!handleWriteDone,
           Client!mainVars, Client!serverVars
  <2>2. \/ /\ writeMsgsList # <<>>
           /\ pipe' = WriteFile([pipe EXCEPT !.write = "idle"], Head(writeMsgsList))
           /\ writeMsgsList' = Tail(writeMsgsList) /\ bWritting' = TRUE
        \/ /\ writeMsgsList = <<>> /\ writeMsgsList' = <<>>
           /\ pipe' = [pipe EXCEPT !.write = "idle"] /\ bWritting' = FALSE
    BY <1>3, ClientCalls DEF Client!handleNotEmptyEvent, Client!handleWriteDone,
       Client!writeOldest
  <2>3. CASE writeMsgsList # <<>>
    <3>1. /\ pipe' = WriteFile([pipe EXCEPT !.write = "idle"], Head(writeMsgsList))
          /\ writeMsgsList' = Tail(writeMsgsList) /\ bWritting' = TRUE
          /\ UNCHANGED <<readMsgsList, dispatched, sent, got, peerSent, connects>>
      BY <2>1, <2>2, <2>3, Zenon
    <3>. QED BY <1>a, <1>1, <2>1, <2>3, <3>1, OldestWritten
  <2>4. CASE writeMsgsList = <<>>
    <3>1. /\ pipe' = [pipe EXCEPT !.write = "idle"] /\ bWritting' = FALSE
          /\ UNCHANGED <<writeMsgsList, readMsgsList, dispatched, sent, got, peerSent, connects>>
      BY <2>1, <2>2, <2>4, Zenon
    <3>. QED BY <1>a, <1>1, <2>1, <3>1, WriteDone
  <2>. QED BY <2>3, <2>4
<1>. QED BY <1>2, <1>3

\* The handle is closed: by the stop event, by an error, or with the process.
LEMMA ClientCloses ==
    ClientInv /\ (\/ Client!flushAndClose \/ Client!handleReadError
                  \/ Client!handleWriteError \/ Client!returnFromMain) => ClientKept
<1>. SUFFICES ASSUME ClientInv, \/ Client!flushAndClose \/ Client!handleReadError
                                \/ Client!handleWriteError \/ Client!returnFromMain
              PROVE  ClientKept
  OBVIOUS
<1>. DEFINE q == CloseHandle(pipe)
<1>1. /\ PipeOK(pipe) /\ pipe.connect = "idle"
      /\ ~bWritting => pipe.write = "idle"
      /\ bWritting \in BOOLEAN /\ workerPc' = "exited"
      /\ UNCHANGED <<writeMsgsList, readMsgsList, dispatched, sent, got, peerSent, connects>>
  <2>1. /\ PipeOK(pipe) /\ pipe.connect = "idle"
        /\ ~bWritting => pipe.write = "idle"
        /\ bWritting \in BOOLEAN
    BY DEF ClientInv, Common, ClientPlace
  <2>2. /\ workerPc' = "exited"
        /\ UNCHANGED <<writeMsgsList, readMsgsList, dispatched, sent, got, peerSent, connects>>
    BY DEF Client!flushAndClose, Client!handleReadError, Client!handleWriteError,
       Client!returnFromMain, Client!workerEnds, Client!mainVars, Client!listVars,
       Client!serverVars
  <2>. QED BY <2>1, <2>2
<1>2. ClientTypes'
  BY DEF ClientInv, ClientTypes, Client!flushAndClose, Client!handleReadError,
     Client!handleWriteError, Client!returnFromMain, Client!workerEnds, Client!mainVars,
     Client!listVars, Client!serverVars
<1>3. /\ PipeOK(q) /\ Passive(pipe, q) /\ q.state = "closed" /\ Lost(pipe, q)
      /\ Unlisted(q) = Cat(pipe.buffer, <<>>) /\ q.connect = "idle"
      /\ q.read = pipe.read \/ pipe.read = "pending"
      /\ q.write = pipe.write \/ (pipe.write = "pending" /\ Completed(q.write))
  <2>1. /\ Passive(pipe, q) /\ q.state = "closed" /\ Lost(pipe, q)
        /\ Unlisted(q) = Cat(pipe.buffer, <<>>)
    BY <1>1, CloseOK
  <2>. HIDE DEF q
  <2>2. PipeOK(q) /\ q["connect"] = q.connect /\ q["read"] = q.read /\ q["write"] = q.write
    BY <2>1, Fields DEF Passive
  <2>. QED BY <1>1, <2>1, <2>2, Fields DEF Passive, Op
<1>4. ASSUME PipeOK(pipe'), Lost(pipe, pipe'), pipe'.connect = "idle", pipe'.state = "closed",
             Unlisted(pipe') = Cat(pipe.buffer, <<>>), bWritting' \in BOOLEAN,
             ~bWritting' => pipe'.write = "idle"
      PROVE  ClientKept
  BY <1>1, <1>2, <1>4, ClientCutOff
<1>5. CASE Client!flushAndClose \/ Client!returnFromMain
  <2>1. pipe' = q /\ bWritting' = bWritting
    BY <1>5, ClientCalls DEF Client!flushAndClose, Client!returnFromMain
  <2>. HIDE DEF q
  <2>. QED BY <1>1, <1>3, <1>4, <2>1
<1>6. CASE Client!handleReadError
  <2>1. pipe' = [q EXCEPT !.read = "idle"] /\ bWritting' = bWritting /\ pipe.read = "error"
    BY <1>6, ClientCalls DEF Client!handleReadError
  <2>. HIDE DEF q
  <2>2. /\ PipeOK(pipe') /\ pipe'.connect = "idle" /\ pipe'.state = "closed"
        /\ pipe'.write = q.write /\ pipe'.out = q.out /\ Unlisted(pipe') = Unlisted(q)
    BY <1>3, <2>1, ErrorConsumed
  <2>3. Lost(pipe, pipe')
    BY <1>3, <2>2 DEF Lost
  <2>. QED BY <1>1, <1>3, <1>4, <2>1, <2>2, <2>3
<1>7. CASE Client!handleWriteError
  <2>1. pipe' = [q EXCEPT !.write = "idle"] /\ bWritting' = FALSE /\ pipe.write = "error"
    BY <1>7, ClientCalls DEF Client!handleWriteError
  <2>. HIDE DEF q
  <2>2. /\ PipeOK(pipe') /\ pipe'.connect = "idle" /\ pipe'.state = "closed"
        /\ pipe'.write = "idle" /\ pipe'.out = q.out /\ Unlisted(pipe') = Unlisted(q)
    BY <1>3, <2>1, WriteConsumed
  <2>3. Lost(pipe, pipe')
    BY <1>3, <2>2 DEF Lost
  <2>. QED BY <1>3, <1>4, <2>1, <2>2, <2>3
<1>. QED BY <1>5, <1>6, <1>7

\* The server.
LEMMA ClientServer ==
    ClientInv /\ (\/ Client!serverRead \/ Client!serverWrite \/ Client!serverDisconnect
                  \/ Client!serverClose) => ClientKept
<1>. SUFFICES ASSUME ClientInv, \/ Client!serverRead \/ Client!serverWrite
                                \/ Client!serverDisconnect \/ Client!serverClose
              PROVE  ClientKept
  OBVIOUS
<1>a. UNCHANGED <<writeMsgsList, readMsgsList, dispatched, bWritting, sent, workerPc, connects>>
  BY DEF Client!serverRead, Client!serverWrite, Client!serverDisconnect, Client!serverClose,
     Client!mainVars, Client!listVars, Client!workerVars, Client!serverVars
<1>b. Common /\ pipe.connect = "idle"
  BY DEF ClientInv, ClientPlace
<1>c. ClientTypes'
  BY DEF ClientInv, ClientTypes, Client!serverRead, Client!serverWrite,
     Client!serverDisconnect, Client!serverClose, Client!mainVars, Client!listVars,
     Client!workerVars, Client!serverVars
<1>d. workerPc \notin {"open", "waitPipe"}
  BY ClientCalls DEF ClientInv, NothingYet, NewPipe, PeerCanWrite, Client!serverRead,
     Client!serverWrite, Client!serverDisconnect, Client!serverClose
<1>1. ASSUME Passive(pipe, pipe'), Common', PopStep, ChannelStep, InboundBegun'
      PROVE  ClientKept
  <2>1. NothingYet' /\ ClientPlace'
    BY <1>a, <1>b, <1>d, <1>1, PassiveCall DEF ClientInv, NothingYet, ClientPlace
  <2>. QED BY <1>c, <1>1, <2>1 DEF ClientKept, ClientInv
<1>2. CASE Client!serverRead
  <2>1. /\ pipe.out # <<>> /\ pipe' = PeerRead(pipe) /\ got' = Append(got, Head(pipe.out))
        /\ peerSent' = peerSent
    BY <1>2, ClientCalls DEF Client!serverRead
  <2>2. /\ Common' /\ Passive(pipe, pipe') /\ Inbound' = Inbound /\ PopStep /\ ChannelStep
        /\ pipe'.state = pipe.state
    BY <1>a, <1>b, <2>1, PeerHasRead
  <2>. QED BY <1>1, <2>1, <2>2, BegunHolds
<1>3. CASE Client!serverWrite
  <2>1. /\ PeerCanWrite(pipe) /\ pipe' = PeerWrite(pipe, peerSent + 1)
        /\ peerSent' = peerSent + 1 /\ got' = got
    BY <1>3, ClientCalls DEF Client!serverWrite
  <2>2. /\ Common' /\ Passive(pipe, pipe') /\ PopStep /\ ChannelStep
        /\ pipe.state = "connected" /\ pipe'.state = "connected"
        /\ Inbound = UpTo(peerSent) => Inbound' = UpTo(peerSent')
    BY <1>a, <1>b, <2>1, PeerHasWritten
  <2>3. InboundBegun'
    <3>1. Inbound = UpTo(peerSent)
      BY <2>2 DEF ClientInv, InboundBegun
    <3>2. peerSent' \in 0 .. peerSent'
      BY <2>2 DEF Common
    <3>. QED BY <2>2, <3>1, <3>2 DEF InboundBegun
  <2>. QED BY <1>1, <2>2, <2>3
<1>4. CASE Client!serverDisconnect
  <2>1. pipe.state = "connected" /\ pipe' = DisconnectNamedPipe(pipe) /\ UNCHANGED <<got, peerSent>>
    BY <1>4, ClientCalls DEF Client!serverDisconnect, Client!serverVars
  <2>2. /\ Passive(pipe, pipe') /\ pipe'.state = "disconnected"
        /\ Lost(pipe, pipe') /\ Unlisted(pipe') = Cat(pipe.buffer, <<>>)
    BY <1>b, <2>1, PeerDisconnectOK DEF Common
  <2>3. /\ ~bWritting' => pipe'.write = "idle"
        /\ pipe'.connect = "idle" /\ (pipe.read = "idle" => pipe'.read = "idle")
    BY <1>a, <1>b, <2>2, PassiveCall
  <2>4. /\ workerPc' \notin {"open", "waitPipe"}
        /\ workerPc' \in {"setMode", "create"} => pipe'.read = "idle"
        /\ bWritting' \in BOOLEAN /\ PipeOK(pipe')
    BY <1>a, <1>b, <1>d, <2>2, <2>3 DEF ClientInv, ClientPlace, Common, Passive
  <2>. QED BY <1>a, <1>c, <2>1, <2>2, <2>3, <2>4, ClientCutOff
<1>5. CASE Client!serverClose
  <2>1. /\ Passive(pipe, pipe') /\ pipe'.state = "peerClosed"
        /\ Lost(pipe, pipe') /\ Unlisted(pipe') = Unlisted(pipe)
        /\ UNCHANGED <<got, peerSent>>
    BY <1>5, <1>b, ClientCalls, PeerCloseOK DEF Common, Client!serverClose, Client!serverVars
  <2>2. Common' /\ Inbound' = Inbound /\ PopStep
    BY <1>a, <1>b, <2>1, PassiveCall DEF Common, Passive
  <2>3. ChannelStep
    BY <1>a, <2>1, ChannelLost
  <2>. QED BY <1>1, <2>1, <2>2, <2>3, BegunHolds
<1>. QED BY <1>2, <1>3, <1>4, <1>5

LEMMA ClientNext == ClientInv /\ Client!Next => ClientKept
BY ClientMain, ClientQuiet, ClientCreateFile, ClientCreateEvents, ClientTransfers,
   ClientCloses, ClientServer DEF Client!Next, Client!Main, Client!Worker, Client!Server

\* What the run checks follows.
LEMMA ClientReuse == ClientInv /\ PopStep => Client!NoOverlappedReuseStep
BY DEF ClientInv, ClientPlace, PopStep, Client!NoOverlappedReuseStep

LEMMA ClientSafe == ClientInv => Client!TypeOK /\ Client!InboundInOrder
<1>. SUFFICES ASSUME ClientInv PROVE Client!TypeOK /\ Client!InboundInOrder
  OBVIOUS
<1>1. Client!TypeOK
  BY ClientCalls DEF ClientInv, Common, PipeOK, ClientTypes, Client!TypeOK
<1>2. Client!InboundInOrder
  <2>. DEFINE s == Cat(Cat(dispatched, readMsgsList), pipe.buffer)
  <2>1. /\ dispatched \in Seq(Msg) /\ readMsgsList \in Seq(Msg)
        /\ pipe.buffer \in Seq(Msg) /\ pipe.in \in Seq(Msg)
    BY Fields DEF ClientInv, Common
  <2>2. Inbound = Cat(s, pipe.in) /\ Client!Received = s
    <3>1. Client!Received = s
      BY DEF Client!Received, Cat
    <3>2. s = Cat(Cat(dispatched, readMsgsList), pipe.buffer)
      OBVIOUS
    <3>. HIDE DEF s
    <3>3. Inbound = Cat(s, pipe.in)
      BY <2>1, <3>2, Relisted DEF Inbound, Unlisted
    <3>. QED BY <3>1, <3>3
  <2>3. s \in Seq(Msg)
    BY <2>1, CatType
  <2>4. PICK n \in 0 .. peerSent : Inbound = UpTo(n) /\ (pipe.state = "connected" => n = peerSent)
    BY DEF ClientInv, InboundBegun
  <2>. HIDE DEF s
  <2>5. n \in Nat /\ Cat(s, pipe.in) = UpTo(n)
    BY <2>2, <2>4 DEF ClientInv, Common
  <2>6. s = UpTo(Len(s))
    BY <2>1, <2>3, <2>5, UpToPrefix
  <2>7. Len(Cat(s, pipe.in)) = n
    BY <2>5, UpToType
  <2>. QED BY <2>2, <2>4, <2>6, <2>7 DEF UpTo, Cat, Client!InboundInOrder
<1>. QED BY <1>1, <1>2

-----------------------------------------------------------------------------
(***************************************************************************)
(* IocpServer                                                              *)
(***************************************************************************)
LEMMA IocpCalls ==
    /\ Iocp!Msg = Msg /\ Iocp!Pipe(Msg) = Pipe(Msg)
    /\ \A p, q : Iocp!Packets(p, q) = Packets(p, q)
    /\ \A x : Iocp!NewPipe(x) = NewPipe(x) /\ (Iocp!Completed(x) <=> Completed(x))
    /\ \A p : /\ Iocp!ConnectNamedPipe(p) = ConnectNamedPipe(p)
              /\ Iocp!ConnectResult(p) = ConnectResult(p)
              /\ Iocp!DisconnectNamedPipe(p) = DisconnectNamedPipe(p)
              /\ Iocp!ReadFile(p) = ReadFile(p)
              /\ Iocp!CloseHandle(p) = CloseHandle(p)
              /\ Iocp!PeerOpen(p) = PeerOpen(p)
              /\ Iocp!PeerRead(p) = PeerRead(p)
              /\ Iocp!PeerClose(p) = PeerClose(p)
              /\ Iocp!PeerCanWrite(p) <=> PeerCanWrite(p)
    /\ \A p, m : /\ Iocp!WriteFile(p, m) = WriteFile(p, m)
                 /\ Iocp!PeerWrite(p, m) = PeerWrite(p, m)
<1>1. /\ Iocp!Msg = Msg /\ Iocp!Pipe(Msg) = Pipe(Msg)
      /\ \A x : Iocp!NewPipe(x) = NewPipe(x) /\ (Iocp!Completed(x) <=> Completed(x))
  BY DEF Iocp!Msg, Msg, Iocp!Pipe, Pipe, Iocp!PipeStates, PipeStates, Iocp!Operation,
         Operation, Iocp!NewPipe, NewPipe, Iocp!Completed, Completed
<1>2. \A p : /\ Iocp!ConnectNamedPipe(p) = ConnectNamedPipe(p)
             /\ Iocp!ConnectResult(p) = ConnectResult(p)
  BY DEF Iocp!ConnectNamedPipe, ConnectNamedPipe, Iocp!ConnectResult, ConnectResult
<1>3. \A p : /\ Iocp!DisconnectNamedPipe(p) = DisconnectNamedPipe(p)
             /\ Iocp!CloseHandle(p) = CloseHandle(p)
             /\ Iocp!PeerClose(p) = PeerClose(p)
  BY DEF Iocp!DisconnectNamedPipe, DisconnectNamedPipe, Iocp!Break, Break, Iocp!Broken,
         Broken, Iocp!CloseHandle, CloseHandle, Iocp!PeerClose, PeerClose
<1>4. \A p : /\ Iocp!ReadFile(p) = ReadFile(p)
             /\ Iocp!PeerOpen(p) = PeerOpen(p)
             /\ Iocp!PeerRead(p) = PeerRead(p)
             /\ Iocp!PeerCanWrite(p) <=> PeerCanWrite(p)
  BY DEF Iocp!ReadFile, ReadFile, Iocp!PeerOpen, PeerOpen, Iocp!PeerRead, PeerRead,
         Iocp!PeerCanWrite, PeerCanWrite
<1>5. \A p, m : /\ Iocp!WriteFile(p, m) = WriteFile(p, m)
                /\ Iocp!PeerWrite(p, m) = PeerWrite(p, m)
  BY DEF Iocp!WriteFile, WriteFile, Iocp!PeerWrite, PeerWrite
<1>6. \A p, q : Iocp!Packets(p, q) = Packets(p, q)
  BY DEF Iocp!Packets, Packets, Iocp!WritesCompleted, WritesCompleted, Iocp!Completed, Completed
<1>. QED BY <1>1, <1>2, <1>3, <1>4, <1>5, <1>6

\* Where in a concatenation a packet is.
LEMMA ConnectsCat ==
    ASSUME NEW s \in Seq(Packet), NEW t \in Seq(Packet)
    PROVE  /\ s \o t \in Seq(Packet)
           /\ HasConnect(s \o t) <=> HasConnect(s) \/ HasConnect(t)
           /\ OneConnect(s) /\ ~HasConnect(t) => OneConnect(s \o t)
           /\ OneConnect(t) /\ ~HasConnect(s) => OneConnect(s \o t)
<1>. DEFINE n == Len(s)
            m == Len(t)
            u == s \o t
<1>1. /\ u \in Seq(Packet) /\ n \in Nat /\ m \in Nat /\ Len(u) = n + m
      /\ \A k \in 1 .. n + m : u[k] = IF k <= n THEN s[k] ELSE t[k - n]
  BY ConcatProperties
<1>. HIDE DEF n, m, u
<1>2. /\ \A k \in 1 .. n : k \in 1 .. n + m /\ u[k] = s[k]
      /\ \A k \in 1 .. m : n + k \in 1 .. n + m /\ u[n + k] = t[k]
      /\ \A k \in 1 .. n + m : \/ k \in 1 .. n /\ u[k] = s[k]
                               \/ k - n \in 1 .. m /\ u[k] = t[k - n]
  BY <1>1
<1>3. /\ HasConnect(s) <=> \E k \in 1 .. n : s[k] = "connect"
      /\ HasConnect(t) <=> \E k \in 1 .. m : t[k] = "connect"
      /\ HasConnect(u) <=> \E k \in 1 .. n + m : u[k] = "connect"
  BY <1>1 DEF HasConnect, n, m
<1>4. HasConnect(u) <=> HasConnect(s) \/ HasConnect(t)
  BY <1>2, <1>3
<1>5. ASSUME OneConnect(s), ~HasConnect(t) PROVE OneConnect(u)
  <2>1. \A k, l \in 1 .. n : s[k] = "connect" /\ s[l] = "connect" => k = l
    BY <1>5 DEF OneConnect, n
  <2>2. \A k \in 1 .. n + m : u[k] = "connect" => k \in 1 .. n /\ s[k] = "connect"
    BY <1>2, <1>3, <1>5
  <2>. QED BY <1>1, <2>1, <2>2 DEF OneConnect
<1>6. ASSUME OneConnect(t), ~HasConnect(s) PROVE OneConnect(u)
  <2>1. \A k, l \in 1 .. m : t[k] = "connect" /\ t[l] = "connect" => k = l
    BY <1>6 DEF OneConnect, m
  <2>2. \A k \in 1 .. n + m : u[k] = "connect" => k - n \in 1 .. m /\ t[k - n] = "connect"
    BY <1>2, <1>3, <1>6
  <2>3. \A k, l \in 1 .. n + m : k - n = l - n => k = l
    BY <1>1
  <2>. QED BY <1>1, <2>1, <2>2, <2>3 DEF OneConnect
<1>. QED BY <1>1, <1>4, <1>5, <1>6 DEF u

\* The packets of a call: at most one says that a client has come, and only where the
\* connect has completed.
LEMMA PacketsOf ==
    ASSUME NEW p, PipeOK(p), NEW q, PipeOK(q), NEW s \in Packets(p, q)
    PROVE  /\ s \in Seq(Packet) /\ OneConnect(s)
           /\ HasConnect(s) => ~Completed(p.connect) /\ Completed(q.connect)
<1>. DEFINE One(op) == IF ~Completed(p[op]) /\ Completed(q[op]) THEN <<op>> ELSE <<>>
            others == One("connect") \o One("read")
            n == WritesCompleted(p, q)
            writes == [i \in 1 .. n |-> "write"]
<1>1. n \in Nat
  <2>1. Len(p.out) \in Nat /\ Len(q.out) \in Nat /\ Quota \in Nat
    BY Fields
  <2>. QED BY <2>1 DEF WritesCompleted
<1>2. writes \in Seq(Packet) /\ OneConnect(writes) /\ ~HasConnect(writes)
  <2>. HIDE DEF n
  <2>1. writes \in Seq(Packet) /\ Len(writes) = n /\ \A k \in 1 .. n : writes[k] = "write"
    BY <1>1 DEF Packet
  <2>. QED BY <2>1 DEF OneConnect, HasConnect
<1>3. \A x \in {<<>>, <<"connect">>, <<"read">>} :
          /\ x \in Seq(Packet) /\ OneConnect(x)
          /\ HasConnect(x) <=> x = <<"connect">>
  <2>1. /\ Len(<<>>) = 0 /\ <<>> \in Seq(Packet)
        /\ \A y : Len(<<y>>) = 1 /\ <<y>>[1] = y
        /\ \A y \in Packet : <<y>> \in Seq(Packet)
    OBVIOUS
  <2>2. OneConnect(<<>>) /\ ~HasConnect(<<>>)
    BY <2>1 DEF OneConnect, HasConnect
  <2>3. \A y : OneConnect(<<y>>) /\ (HasConnect(<<y>>) <=> y = "connect")
    BY <2>1 DEF OneConnect, HasConnect
  <2>4. <<"connect">> # <<>> /\ <<"connect">> # <<"read">>
    OBVIOUS
  <2>. QED BY <2>1, <2>2, <2>3, <2>4 DEF Packet
<1>4. /\ One("connect") \in {<<>>, <<"connect">>}
      /\ One("read") \in {<<>>, <<"read">>} /\ <<"read">> # <<"connect">>
      /\ One("connect") = <<"connect">> => ~Completed(p.connect) /\ Completed(q.connect)
  <2>1. /\ <<"read">> # <<"connect">> /\ <<>> # <<"connect">>
        /\ p["connect"] = p.connect /\ q["connect"] = q.connect
    BY Fields
  <2>. QED BY <2>1
<1>5. s = others \o writes \/ s = writes \o others
  BY DEF Packets
<1>. HIDE DEF One, n, writes
<1>6. /\ others \in Seq(Packet) /\ OneConnect(others)
      /\ HasConnect(others) => ~Completed(p.connect) /\ Completed(q.connect)
  <2>1. /\ One("connect") \in Seq(Packet) /\ OneConnect(One("connect"))
        /\ HasConnect(One("connect")) => ~Completed(p.connect) /\ Completed(q.connect)
    BY <1>3, <1>4
  <2>2. One("read") \in Seq(Packet) /\ ~HasConnect(One("read"))
    BY <1>3, <1>4
  <2>. QED BY <2>1, <2>2, ConnectsCat
<1>. HIDE DEF others
<1>7. CASE s = others \o writes
  BY <1>2, <1>6, <1>7, ConnectsCat
<1>8. CASE s = writes \o others
  BY <1>2, <1>6, <1>8, ConnectsCat
<1>. QED BY <1>5, <1>7, <1>8

\* They go to the end of the queue.
LEMMA PacketsQueued ==
    ASSUME iocp \in Seq(Packet), ConnectHeld, NEW p, PipeOK(p), PipeOK(pipe'),
           HasConnect(iocp) => p.connect = pipe.connect,
           \E s \in Packets(p, pipe') : iocp' = iocp \o s
    PROVE  /\ iocp' \in Seq(Packet) /\ OneConnect(iocp')
           /\ HasConnect(iocp') =>
                 HasConnect(iocp) \/ (~Completed(p.connect) /\ Completed(pipe'.connect))
<1>1. PICK s \in Packets(p, pipe') : iocp' = iocp \o s
  OBVIOUS
<1>2. /\ s \in Seq(Packet) /\ OneConnect(s)
      /\ HasConnect(s) => ~Completed(p.connect) /\ Completed(pipe'.connect)
  BY PacketsOf
<1>3. ~HasConnect(iocp) \/ ~HasConnect(s)
  BY <1>2 DEF ConnectHeld
<1>4. OneConnect(iocp)
  BY DEF ConnectHeld
<1>5. /\ iocp \o s \in Seq(Packet) /\ OneConnect(iocp \o s)
      /\ HasConnect(iocp \o s) => HasConnect(iocp) \/ HasConnect(s)
  BY <1>2, <1>3, <1>4, ConnectsCat
<1>. QED BY <1>1, <1>2, <1>5

\* A connect or a read is under way, or has its packet in the port or at the worker.
Carrying(p) == p.connect # "idle" \/ p.read # "idle"
CarriedOn == Carrying(pipe) /\ ~Carrying(pipe') => pipe'.state \in {"peerClosed", "closed"}

IocpKept == IocpInv' /\ PopStep /\ ChannelStep /\ CarriedOn

LEMMA IocpInit == Iocp!Init => IocpInv /\ Channel!ChanInit
<1>. SUFFICES ASSUME Iocp!Init PROVE IocpInv /\ Channel!ChanInit
  OBVIOUS
<1>1. /\ pipe = NewPipe("listening") /\ PipeOK(pipe) /\ pipe.state = "listening"
      /\ pipe.connect = "idle" /\ pipe.read = "idle" /\ pipe.write = "idle"
      /\ pipe.out = <<>> /\ Unlisted(pipe) = <<>>
  BY IocpCalls, NewPipeOK DEF Iocp!Init
<1>2. Common
  <2>1. <<>> \in Seq(Msg)
    OBVIOUS
  <2>. QED BY <1>1, <2>1 DEF Iocp!Init, Common
<1>3. iocp = <<>> /\ <<>> \in Seq(Packet) /\ Len(<<>>) = 0
  BY DEF Iocp!Init
<1>4. OneConnect(iocp) /\ ~HasConnect(iocp)
  BY <1>3 DEF OneConnect, HasConnect
<1>5. IocpTypes /\ ConnectHeld /\ IocpPlace
  BY <1>1, <1>3, <1>4 DEF Iocp!Init, IocpTypes, ConnectHeld, IocpPlace
<1>6. InboundKept
  BY <1>1, NothingInbound DEF Iocp!Init, InboundKept
<1>7. Channel!ChanInit
  BY <1>1 DEF Iocp!Init, Channel!ChanInit
<1>. QED BY <1>2, <1>5, <1>6, <1>7 DEF IocpInv

\* A packet that main posts.
LEMMA Posted ==
    ASSUME iocp \in Seq(Packet), NEW x \in {"notEmpty", "exit"}, iocp' = Append(iocp, x)
    PROVE  /\ iocp' \in Seq(Packet) /\ (HasConnect(iocp') <=> HasConnect(iocp))
           /\ OneConnect(iocp) => OneConnect(iocp')
<1>1. /\ <<x>> \in Seq(Packet) /\ Len(<<x>>) = 1 /\ <<x>>[1] = x
      /\ iocp' = iocp \o <<x>>
  BY AppendIsConcat DEF Packet
<1>2. ~HasConnect(<<x>>)
  BY <1>1 DEF HasConnect
<1>3. /\ iocp \o <<x>> \in Seq(Packet) /\ (HasConnect(iocp \o <<x>>) <=> HasConnect(iocp))
      /\ OneConnect(iocp) => OneConnect(iocp \o <<x>>)
  BY <1>1, <1>2, ConnectsCat
<1>. QED BY <1>1, <1>3, Zenon

\* The main thread.
LEMMA IocpSendLine == IocpInv /\ Iocp!sendLine => IocpKept
<1>. SUFFICES ASSUME IocpInv, Iocp!sendLine PROVE IocpKept
  OBVIOUS
<1>1. Common' /\ Inbound' = Inbound /\ PopStep /\ ChannelStep
  BY LineQueued DEF IocpInv, Iocp!sendLine, Iocp!workerVars, Iocp!clientVars
<1>2. /\ UNCHANGED <<pipe, workerPc, peerSent>> /\ mainPc = "input" /\ mainPc' = "dispatch"
      /\ iocp' = iocp \/ iocp' = Append(iocp, "notEmpty")
  BY DEF Iocp!sendLine, Iocp!workerVars, Iocp!clientVars
<1>3. /\ iocp' \in Seq(Packet) /\ (HasConnect(iocp') <=> HasConnect(iocp)) /\ OneConnect(iocp')
  BY <1>2, Posted DEF IocpInv, IocpTypes, ConnectHeld
<1>4. IocpTypes' /\ ConnectHeld' /\ IocpPlace' /\ InboundKept' /\ CarriedOn
  BY <1>1, <1>2, <1>3 DEF IocpInv, IocpTypes, ConnectHeld, IocpPlace, InboundKept, CarriedOn
<1>. QED BY <1>1, <1>4 DEF IocpKept, IocpInv

LEMMA IocpMain ==
    IocpInv /\ (Iocp!dispatchMsgs \/ Iocp!exitLine \/ Iocp!returnFromMain) => IocpKept
<1>. SUFFICES ASSUME IocpInv, Iocp!dispatchMsgs \/ Iocp!exitLine \/ Iocp!returnFromMain
              PROVE  IocpKept
  OBVIOUS
<1>1. CASE Iocp!dispatchMsgs
  <2>1. Common' /\ Inbound' = Inbound /\ PopStep /\ ChannelStep
    BY <1>1, ListTaken DEF IocpInv, Iocp!dispatchMsgs, Iocp!workerVars, Iocp!clientVars
  <2>2. UNCHANGED <<pipe, iocp, workerPc, peerSent>> /\ mainPc = "dispatch" /\ mainPc' = "input"
    BY <1>1 DEF Iocp!dispatchMsgs, Iocp!workerVars, Iocp!clientVars
  <2>3. IocpTypes' /\ ConnectHeld' /\ IocpPlace' /\ InboundKept' /\ CarriedOn
    BY <2>1, <2>2 DEF IocpInv, IocpTypes, ConnectHeld, IocpPlace, InboundKept, CarriedOn
  <2>. QED BY <2>1, <2>3 DEF IocpKept, IocpInv
<1>2. CASE Iocp!exitLine
  <2>1. /\ UNCHANGED <<pipe, writeMsgsList, readMsgsList, dispatched, bWritting, sent, got,
                       peerSent, connects, workerPc>>
        /\ mainPc' = "join" /\ iocp' = Append(iocp, "exit")
    BY <1>2 DEF Iocp!exitLine, Iocp!workerVars, Iocp!clientVars, Iocp!listVars
  <2>2. Common' /\ Inbound' = Inbound
    BY <2>1 DEF IocpInv, Common, Inbound
  <2>3. /\ iocp' \in Seq(Packet) /\ (HasConnect(iocp') <=> HasConnect(iocp)) /\ OneConnect(iocp')
    BY <2>1, Posted DEF IocpInv, IocpTypes, ConnectHeld
  <2>4. IocpTypes' /\ ConnectHeld' /\ IocpPlace' /\ InboundKept' /\ CarriedOn
    BY <2>1, <2>2, <2>3
       DEF IocpInv, IocpTypes, ConnectHeld, IocpPlace, InboundKept, CarriedOn
  <2>5. PopStep /\ ChannelStep
    BY <2>1, LenProperties DEF IocpInv, Common, PopStep, ChannelStep, Channel!chanVars
  <2>. QED BY <2>2, <2>4, <2>5 DEF IocpKept, IocpInv
<1>3. CASE Iocp!returnFromMain
  <2>1. /\ Passive(pipe, pipe') /\ pipe'.state = "closed" /\ Lost(pipe, pipe')
        /\ workerPc' = "exited" /\ mainPc' = "returned" /\ iocp' = <<>>
        /\ UNCHANGED <<writeMsgsList, readMsgsList, dispatched, bWritting, sent, got,
                       peerSent, connects>>
    BY <1>3, IocpCalls, CloseOK DEF IocpInv, Common, Iocp!returnFromMain,
       Iocp!clientVars, Iocp!listVars
  <2>2. Common' /\ PopStep /\ ChannelStep
    BY <2>1, PassiveCall, ChannelLost DEF IocpInv, Common, Passive
  <2>3. <<>> \in Seq(Packet) /\ OneConnect(<<>>) /\ ~HasConnect(<<>>)
    BY DEF OneConnect, HasConnect
  <2>4. IocpTypes' /\ ConnectHeld' /\ IocpPlace' /\ InboundKept' /\ CarriedOn
    BY <2>1, <2>3
       DEF IocpInv, IocpTypes, ConnectHeld, IocpPlace, InboundKept, CarriedOn
  <2>. QED BY <2>2, <2>4 DEF IocpKept, IocpInv
<1>. QED BY <1>1, <1>2, <1>3

\* The worker takes the oldest packet, or leaves its loop.
LEMMA IocpQuiet ==
    IocpInv /\ (Iocp!getStatus \/ Iocp!handleNotEmptyEventRefused) => IocpKept
<1>. SUFFICES ASSUME IocpInv, Iocp!getStatus \/ Iocp!handleNotEmptyEventRefused
              PROVE  IocpKept
  OBVIOUS
<1>1. UNCHANGED <<pipe, writeMsgsList, readMsgsList, dispatched, bWritting, sent, got,
                  peerSent, connects, mainPc>>
  BY DEF Iocp!getStatus, Iocp!handleNotEmptyEventRefused, Iocp!mainVars, Iocp!listVars,
     Iocp!clientVars
<1>2. Common' /\ Inbound' = Inbound /\ CarriedOn
  BY <1>1 DEF IocpInv, Common, Inbound, CarriedOn
<1>3. PopStep /\ ChannelStep
  BY <1>1, LenProperties DEF IocpInv, Common, PopStep, ChannelStep, Channel!chanVars
<1>4. CASE Iocp!getStatus
  <2>1. /\ workerPc = "wait" /\ iocp # <<>> /\ iocp' = Tail(iocp) /\ iocp \in Seq(Packet)
        /\ workerPc' = IF Head(iocp) = "exit" THEN "exited" ELSE Head(iocp)
        /\ mainPc # "connect"
    BY <1>4 DEF IocpInv, IocpTypes, IocpPlace, Iocp!getStatus
  <2>2. /\ Head(iocp) \in Packet /\ iocp' \in Seq(Packet)
        /\ Len(iocp) \in Nat /\ Len(iocp') = Len(iocp) - 1 /\ Head(iocp) = iocp[1]
        /\ 1 \in 1 .. Len(iocp)
        /\ \A k \in 1 .. Len(iocp') : k + 1 \in 1 .. Len(iocp) /\ iocp'[k] = iocp[k + 1]
    BY <2>1, HeadTailProperties
  <2>3. /\ HasConnect(iocp') => HasConnect(iocp)
        /\ Head(iocp) = "connect" => HasConnect(iocp)
    BY <2>2 DEF HasConnect
  <2>4. OneConnect(iocp')
    <3>1. \A k, l \in 1 .. Len(iocp') : k + 1 = l + 1 => k = l
      BY <2>2
    <3>. QED BY <2>2, <3>1 DEF IocpInv, ConnectHeld, OneConnect
  <2>5. Head(iocp) = "connect" => ~HasConnect(iocp')
    <3>1. \A k \in 1 .. Len(iocp') : k + 1 # 1
      BY <2>2
    <3>. QED BY <2>2, <3>1 DEF IocpInv, ConnectHeld, OneConnect, HasConnect
  <2>6. ConnectHeld'
    BY <1>1, <2>1, <2>3, <2>4, <2>5 DEF IocpInv, ConnectHeld
  <2>7. IocpTypes' /\ IocpPlace' /\ InboundKept'
    BY <1>1, <1>2, <2>1, <2>2 DEF IocpInv, IocpTypes, IocpPlace, InboundKept, Packet
  <2>. QED BY <1>2, <1>3, <2>6, <2>7 DEF IocpKept, IocpInv
<1>5. CASE Iocp!handleNotEmptyEventRefused
  <2>1. workerPc = "notEmpty" /\ workerPc' = "exited" /\ iocp' = iocp
    BY <1>5 DEF Iocp!handleNotEmptyEventRefused
  <2>2. IocpTypes' /\ ConnectHeld' /\ IocpPlace' /\ InboundKept'
    BY <1>1, <1>2, <2>1 DEF IocpInv, IocpTypes, ConnectHeld, IocpPlace, InboundKept
  <2>. QED BY <1>2, <1>3, <2>2 DEF IocpKept, IocpInv
<1>. QED BY <1>4, <1>5

\* A call that queues its packets, where only the worker has moved.
LEMMA IocpCalled ==
    ASSUME IocpInv, NEW p, PipeOK(p), PipeOK(pipe'),
           HasConnect(iocp) => p.connect = pipe.connect,
           \E s \in Packets(p, pipe') : iocp' = iocp \o s,
           HasConnect(iocp) => Completed(pipe'.connect),
           workerPc' \in {"wait", "exited"}
    PROVE  iocp' \in Seq(Packet) /\ ConnectHeld'
<1>1. /\ iocp' \in Seq(Packet) /\ OneConnect(iocp')
      /\ HasConnect(iocp') =>
                 HasConnect(iocp) \/ (~Completed(p.connect) /\ Completed(pipe'.connect))
  BY PacketsQueued DEF IocpInv, IocpTypes
<1>. QED BY <1>1 DEF ConnectHeld

LEMMA IocpStartWorker == IocpInv /\ Iocp!startWorker => IocpKept
<1>. SUFFICES ASSUME IocpInv, Iocp!startWorker PROVE IocpKept
  OBVIOUS
<1>1. /\ PipeOK(pipe) /\ pipe.connect = "idle" /\ pipe.read = "idle"
      /\ workerPc = "none" /\ workerPc' = "wait" /\ mainPc' = "input" /\ ~HasConnect(iocp)
      /\ pipe' = ConnectNamedPipe(pipe)
      /\ \E s \in Packets(pipe, pipe') : iocp' = iocp \o s
      /\ UNCHANGED <<writeMsgsList, readMsgsList, dispatched, bWritting, sent, got,
                     peerSent, connects>>
  BY IocpCalls DEF IocpInv, Common, IocpPlace, Iocp!startWorker, Iocp!CallPipe,
     Iocp!ConnectToNewClient, Iocp!listVars, Iocp!clientVars
<1>2. /\ PipeOK(pipe') /\ pipe'.connect \in {"idle", "pending"}
      /\ pipe'.state # "disconnected"
      /\ pipe'.state = "closed" => pipe.state = "closed"
      /\ pipe'.write = pipe.write /\ pipe'.out = pipe.out
      /\ Unlisted(pipe') = Unlisted(pipe)
  BY <1>1, ConnectOK
<1>3. iocp' \in Seq(Packet) /\ ConnectHeld'
  BY <1>1, <1>2, IocpCalled DEF Completed
<1>4. Common' /\ Inbound' = Inbound
  BY <1>1, <1>2 DEF IocpInv, Common, Inbound
<1>5. IocpTypes' /\ IocpPlace' /\ InboundKept' /\ CarriedOn
  BY <1>1, <1>2, <1>3, <1>4
     DEF IocpInv, IocpTypes, IocpPlace, InboundKept, CarriedOn, Carrying
<1>6. PopStep /\ ChannelStep
  BY <1>1, <1>2, LenProperties DEF IocpInv, Common, PopStep, ChannelStep, Channel!chanVars
<1>. QED BY <1>3, <1>4, <1>5, <1>6 DEF IocpKept, IocpInv

LEMMA IocpConnectEvent == IocpInv /\ Iocp!handleConnectEvent => IocpKept
<1>. SUFFICES ASSUME IocpInv, Iocp!handleConnectEvent PROVE IocpKept
  OBVIOUS
<1>. DEFINE r == [pipe EXCEPT !.connect = "idle"]
<1>1. /\ PipeOK(pipe) /\ Completed(pipe.connect) /\ pipe.read = "idle"
      /\ workerPc = "connect" /\ workerPc' = "wait" /\ mainPc' = mainPc /\ mainPc # "connect"
      /\ ~HasConnect(iocp) /\ pipe.state \in {"connected", "peerClosed"}
      /\ UNCHANGED <<writeMsgsList, readMsgsList, dispatched, bWritting, sent, got,
                     peerSent, connects>>
  <2>1. /\ PipeOK(pipe) /\ Completed(pipe.connect)
        /\ workerPc = "connect" /\ workerPc' = "wait" /\ mainPc' = mainPc /\ mainPc # "connect"
        /\ ~HasConnect(iocp) /\ pipe.state # "closed"
        /\ UNCHANGED <<writeMsgsList, readMsgsList, dispatched, bWritting, sent, got,
                       peerSent, connects>>
    BY DEF IocpInv, Common, ConnectHeld, IocpPlace, Iocp!handleConnectEvent, Iocp!mainVars,
       Iocp!listVars, Iocp!clientVars
  <2>. QED BY <2>1, Fields DEF PipeOK, Completed, PipeStates
<1>2. pipe' = ReadFile(r) /\ \E s \in Packets(r, pipe') : iocp' = iocp \o s
  BY IocpCalls DEF Iocp!handleConnectEvent, Iocp!CallPipe
<1>3. /\ PipeOK(r) /\ r.connect = "idle" /\ r.state = pipe.state /\ r.read = "idle"
      /\ r.write = pipe.write /\ r.out = pipe.out /\ Unlisted(r) = Unlisted(pipe)
  BY <1>1, ConnectConsumed DEF Unlisted
<1>. HIDE DEF r
<1>4. /\ PipeOK(pipe') /\ pipe'.state = r.state /\ pipe'.connect = "idle"
      /\ pipe'.write = r.write /\ pipe'.out = r.out /\ Unlisted(pipe') = Unlisted(r)
      /\ pipe'.state = "connected" => pipe'.read # "idle"
  BY <1>2, <1>3, ReadFileOK
<1>5. iocp' \in Seq(Packet) /\ ConnectHeld'
  BY <1>1, <1>2, <1>3, <1>4, IocpCalled
<1>6. Common' /\ Inbound' = Inbound
  BY <1>1, <1>3, <1>4 DEF IocpInv, Common, Inbound
<1>7. IocpTypes' /\ IocpPlace' /\ InboundKept' /\ CarriedOn
  BY <1>1, <1>3, <1>4, <1>5, <1>6
     DEF IocpInv, IocpTypes, IocpPlace, InboundKept, CarriedOn, Carrying
<1>8. PopStep /\ ChannelStep
  BY <1>1, <1>3, <1>4, LenProperties
     DEF IocpInv, Common, PopStep, ChannelStep, Channel!chanVars
<1>. QED BY <1>5, <1>6, <1>7, <1>8 DEF IocpKept, IocpInv

LEMMA IocpReadDone == IocpInv /\ Iocp!handleReadDone => IocpKept
<1>. SUFFICES ASSUME IocpInv, Iocp!handleReadDone PROVE IocpKept
  OBVIOUS
<1>. DEFINE r == [pipe EXCEPT !.read = "idle", !.buffer = <<>>]
<1>1. /\ pipe.read = "success" /\ readMsgsList' = readMsgsList \o pipe.buffer
      /\ pipe' = ReadFile(r) /\ \E s \in Packets(r, pipe') : iocp' = iocp \o s
      /\ workerPc = "read" /\ workerPc' = "wait" /\ mainPc' = mainPc /\ mainPc # "connect"
      /\ UNCHANGED <<writeMsgsList, dispatched, bWritting, sent, got, peerSent, connects>>
  BY IocpCalls DEF IocpInv, IocpPlace, Iocp!handleReadDone, Iocp!CallPipe, Iocp!mainVars,
     Iocp!clientVars
<1>2. Common /\ PipeOK(pipe)
  BY DEF IocpInv, Common
<1>3. PipeOK(r) /\ r.connect = "idle"
  BY <1>1, <1>2, ReadConsumed
<1>4. /\ Common' /\ Inbound' = Inbound /\ PopStep /\ ChannelStep
      /\ pipe'.state = pipe.state /\ pipe'.state # "listening"
      /\ pipe'.state = "connected" => pipe'.read # "idle"
      /\ pipe.connect = "idle" /\ pipe'.connect = "idle"
  BY <1>1, <1>2, ReadListed
<1>5. ~HasConnect(iocp) /\ PipeOK(pipe')
  BY <1>4 DEF IocpInv, ConnectHeld, Completed, Common
<1>. HIDE DEF r
<1>6. iocp' \in Seq(Packet) /\ ConnectHeld'
  BY <1>1, <1>3, <1>4, <1>5, IocpCalled
<1>7. IocpTypes' /\ IocpPlace' /\ InboundKept'
  BY <1>1, <1>4, <1>6 DEF IocpInv, IocpTypes, IocpPlace, InboundKept
<1>8. CarriedOn
  <2>1. pipe'.state \in PipeStates \ {"listening", "disconnected"}
    BY <1>4, <1>5, <1>7, Fields DEF IocpPlace
  <2>. QED BY <1>4, <2>1 DEF CarriedOn, Carrying, PipeStates
<1>. QED BY <1>4, <1>6, <1>7, <1>8 DEF IocpKept, IocpInv

LEMMA IocpReadError == IocpInv /\ Iocp!handleReadError => IocpKept
<1>. SUFFICES ASSUME IocpInv, Iocp!handleReadError PROVE IocpKept
  OBVIOUS
<1>. DEFINE r == [pipe EXCEPT !.read = "idle"]
<1>1. /\ PipeOK(pipe) /\ pipe.read = "error" /\ pipe.state # "closed"
      /\ workerPc = "read" /\ workerPc' = "wait" /\ mainPc' = mainPc /\ mainPc # "connect"
      /\ pipe' = ConnectNamedPipe(DisconnectNamedPipe(r))
      /\ \E s \in Packets(r, pipe') : iocp' = iocp \o s
      /\ UNCHANGED <<writeMsgsList, readMsgsList, dispatched, bWritting, sent, got,
                     peerSent, connects>>
  BY IocpCalls DEF IocpInv, Common, IocpPlace, Iocp!handleReadError, Iocp!CallPipe,
     Iocp!ConnectToNewClient, Iocp!mainVars, Iocp!listVars, Iocp!clientVars
<1>2. PipeOK(r) /\ r.connect = "idle" /\ pipe.connect = "idle"
  BY <1>1, ErrorConsumed
<1>3. /\ PipeOK(pipe') /\ pipe'.state = "listening" /\ pipe'.connect = "pending"
      /\ pipe'.write = Broken(pipe.write)
      /\ Lost(pipe, pipe') /\ Unlisted(pipe') = Unlisted(pipe)
  BY <1>1, RelistenOK
<1>. HIDE DEF r
<1>4. ~HasConnect(iocp)
  BY <1>2 DEF IocpInv, ConnectHeld, Completed
<1>5. iocp' \in Seq(Packet) /\ ConnectHeld'
  BY <1>1, <1>2, <1>3, <1>4, IocpCalled DEF Completed
<1>6. Common' /\ Inbound' = Inbound
  BY <1>1, <1>3 DEF IocpInv, Common, Inbound, Broken
<1>7. IocpTypes' /\ IocpPlace' /\ InboundKept' /\ CarriedOn
  BY <1>1, <1>3, <1>5, <1>6
     DEF IocpInv, IocpTypes, IocpPlace, InboundKept, CarriedOn, Carrying
<1>8. PopStep /\ ChannelStep
  BY <1>1, <1>3, ChannelLost, LenProperties DEF IocpInv, Common, PopStep
<1>. QED BY <1>5, <1>6, <1>7, <1>8 DEF IocpKept, IocpInv

LEMMA IocpWrites ==
    IocpInv /\ (Iocp!handleNotEmptyEvent \/ Iocp!handleWriteDone) => IocpKept
<1>. SUFFICES ASSUME IocpInv, Iocp!handleNotEmptyEvent \/ Iocp!handleWriteDone
              PROVE  IocpKept
  OBVIOUS
<1>. DEFINE r == [pipe EXCEPT !.write = "idle"]
<1>1. /\ Common /\ PipeOK(pipe) /\ pipe.write # "pending"
      /\ pipe.write = "idle" \/ workerPc = "write"
      /\ workerPc \in {"notEmpty", "write"} /\ workerPc' = "wait"
      /\ mainPc' = mainPc /\ mainPc # "connect"
      /\ UNCHANGED <<readMsgsList, dispatched, sent, got, peerSent, connects>>
  BY DEF IocpInv, Common, IocpPlace, Iocp!handleNotEmptyEvent, Iocp!handleWriteDone,
     Iocp!mainVars, Iocp!clientVars
<1>2. \/ /\ writeMsgsList # <<>>
         /\ pipe' = WriteFile(r, Head(writeMsgsList))
         /\ \E s \in Packets(r, pipe') : iocp' = iocp \o s
         /\ writeMsgsList' = Tail(writeMsgsList) /\ bWritting' = TRUE
      \/ /\ writeMsgsList = <<>> /\ writeMsgsList' = <<>> /\ iocp' = iocp
         /\ pipe' = r /\ bWritting' = FALSE
  BY IocpCalls DEF Iocp!handleNotEmptyEvent, Iocp!handleWriteDone, Iocp!writeOldest,
     Iocp!CallPipe
<1>3. PipeOK(r) /\ r.connect = pipe.connect
  BY <1>1, WriteConsumed
<1>4. /\ Common' /\ Inbound' = Inbound /\ PopStep /\ ChannelStep
      /\ pipe'.state = pipe.state /\ pipe'.read = pipe.read /\ pipe'.connect = pipe.connect
  <2>1. CASE writeMsgsList # <<>>
    <3>1. /\ pipe' = WriteFile([pipe EXCEPT !.write = "idle"], Head(writeMsgsList))
          /\ writeMsgsList' = Tail(writeMsgsList) /\ bWritting' = TRUE
          /\ UNCHANGED <<readMsgsList, dispatched, sent, got, peerSent, connects>>
      BY <1>1, <1>2, <2>1, Zenon
    <3>. QED BY <1>1, <2>1, <3>1, OldestWritten
  <2>2. CASE writeMsgsList = <<>>
    <3>1. /\ pipe' = [pipe EXCEPT !.write = "idle"] /\ bWritting' = FALSE
          /\ UNCHANGED <<writeMsgsList, readMsgsList, dispatched, sent, got, peerSent, connects>>
      BY <1>1, <1>2, <2>2, Zenon
    <3>. QED BY <1>1, <3>1, WriteDone
  <2>. QED BY <2>1, <2>2
<1>. HIDE DEF r
<1>5. iocp' \in Seq(Packet) /\ ConnectHeld'
  <2>1. HasConnect(iocp) => Completed(pipe'.connect)
    BY <1>4 DEF IocpInv, ConnectHeld
  <2>2. PipeOK(pipe')
    BY <1>4 DEF Common
  <2>3. CASE writeMsgsList # <<>>
    BY <1>1, <1>2, <1>3, <2>1, <2>2, <2>3, IocpCalled
  <2>4. CASE writeMsgsList = <<>>
    BY <1>1, <1>2, <1>4, <2>4 DEF IocpInv, IocpTypes, ConnectHeld
  <2>. QED BY <2>3, <2>4
<1>6. IocpTypes' /\ IocpPlace' /\ InboundKept' /\ CarriedOn
  BY <1>1, <1>4, <1>5 DEF IocpInv, IocpTypes, IocpPlace, InboundKept, CarriedOn, Carrying
<1>. QED BY <1>4, <1>5, <1>6 DEF IocpKept, IocpInv

LEMMA IocpWriteError == IocpInv /\ Iocp!handleWriteError => IocpKept
<1>. SUFFICES ASSUME IocpInv, Iocp!handleWriteError PROVE IocpKept
  OBVIOUS
<1>. DEFINE r == [pipe EXCEPT !.write = "idle"]
<1>1. /\ PipeOK(pipe) /\ pipe.write = "error" /\ workerPc' = "exited" /\ bWritting' = FALSE
      /\ workerPc = "write" /\ mainPc' = mainPc /\ mainPc # "connect"
      /\ pipe' = CloseHandle(r) /\ \E s \in Packets(r, pipe') : iocp' = iocp \o s
      /\ UNCHANGED <<writeMsgsList, readMsgsList, dispatched, sent, got, peerSent, connects>>
  BY IocpCalls DEF IocpInv, Common, IocpPlace, Iocp!handleWriteError, Iocp!CallPipe,
     Iocp!mainVars, Iocp!listVars, Iocp!clientVars
<1>2. /\ PipeOK(r) /\ r.write = "idle" /\ r.connect = pipe.connect /\ r.out = pipe.out
  BY <1>1, WriteConsumed
<1>. HIDE DEF r
<1>3. Passive(r, pipe') /\ pipe'.state = "closed" /\ Lost(r, pipe')
  BY <1>1, <1>2, CloseOK
<1>4. /\ PipeOK(pipe') /\ pipe'.write = "idle"
      /\ Completed(pipe.connect) => Completed(pipe'.connect)
  <2>1. PipeOK(pipe')
    BY <1>3 DEF Passive
  <2>2. /\ r["connect"] = r.connect /\ pipe'["connect"] = pipe'.connect
        /\ r["write"] = r.write /\ pipe'["write"] = pipe'.write
    BY <1>2, <2>1, Fields
  <2>. QED BY <1>2, <1>3, <2>1, <2>2 DEF Passive, Op, Completed
<1>5. iocp' \in Seq(Packet) /\ ConnectHeld'
  <2>1. HasConnect(iocp) => Completed(pipe'.connect)
    BY <1>4 DEF IocpInv, ConnectHeld
  <2>. QED BY <1>1, <1>2, <1>4, <2>1, IocpCalled
<1>6. Common' /\ Lost(pipe, pipe')
  BY <1>1, <1>2, <1>3, <1>4 DEF IocpInv, Common, Lost
<1>7. IocpTypes' /\ IocpPlace' /\ InboundKept' /\ CarriedOn
  BY <1>1, <1>3, <1>5 DEF IocpInv, IocpTypes, IocpPlace, InboundKept, CarriedOn
<1>8. PopStep /\ ChannelStep
  BY <1>1, <1>6, ChannelLost, LenProperties DEF IocpInv, Common, PopStep
<1>. QED BY <1>5, <1>6, <1>7, <1>8 DEF IocpKept, IocpInv

\* The clients.
LEMMA IocpClient == IocpInv /\ Iocp!Client => IocpKept
<1>. SUFFICES ASSUME IocpInv, Iocp!Client PROVE IocpKept
  OBVIOUS
<1>a. /\ UNCHANGED <<writeMsgsList, readMsgsList, dispatched, bWritting, sent, mainPc, workerPc>>
      /\ \E s \in Packets(pipe, pipe') : iocp' = iocp \o s
  BY IocpCalls DEF Iocp!Client, Iocp!clientOpen, Iocp!clientWrite, Iocp!clientRead,
     Iocp!clientClose, Iocp!CallPipe, Iocp!mainVars, Iocp!listVars, Iocp!workerVars
<1>b. Common /\ PipeOK(pipe)
  BY DEF IocpInv, Common
<1>1. ASSUME Passive(pipe, pipe'), Common', InboundKept', PopStep, ChannelStep,
             pipe'.state # "disconnected",
             pipe'.state = "closed" => pipe.state = "closed"
      PROVE  IocpKept
  <2>1. /\ pipe.connect = "idle" => pipe'.connect = "idle"
        /\ pipe.read = "idle" => pipe'.read = "idle"
        /\ pipe'.connect # pipe.connect => pipe.connect = "pending" /\ Completed(pipe'.connect)
        /\ pipe'.read # pipe.read => pipe.read = "pending" /\ Completed(pipe'.read)
    BY <1>a, <1>b, <1>1, PassiveCall
  <2>2. /\ iocp' \in Seq(Packet) /\ OneConnect(iocp')
        /\ HasConnect(iocp') =>
              HasConnect(iocp) \/ (~Completed(pipe.connect) /\ Completed(pipe'.connect))
    <3>1. PipeOK(pipe') /\ iocp \in Seq(Packet) /\ ConnectHeld
      BY <1>1 DEF Passive, IocpInv, IocpTypes
    <3>. QED BY <1>a, <1>b, <3>1, PacketsQueued
  <2>3. ConnectHeld'
    BY <1>a, <2>1, <2>2 DEF IocpInv, ConnectHeld, Completed
  <2>4. IocpTypes' /\ IocpPlace'
    BY <1>a, <1>1, <2>1, <2>2 DEF IocpInv, IocpTypes, IocpPlace, Completed
  <2>5. CarriedOn
    BY <2>1 DEF CarriedOn, Carrying, Completed
  <2>. QED BY <1>1, <2>3, <2>4, <2>5 DEF IocpKept, IocpInv
<1>2. CASE Iocp!clientOpen
  <2>1. /\ Passive(pipe, pipe') /\ pipe'.state = "connected" /\ pipe.state = "listening"
        /\ pipe'.out = pipe.out /\ Unlisted(pipe') = Unlisted(pipe)
        /\ got' = got /\ peerSent' = peerSent /\ connects' \in Nat
    BY <1>2, IocpCalls, OpenOK DEF IocpInv, Common, Iocp!clientOpen, Iocp!CallPipe
  <2>2. Common' /\ Inbound' = Inbound /\ PopStep
    BY <1>a, <1>b, <2>1, PassiveCall DEF Common, Passive
  <2>3. ChannelStep
    BY <1>a, <2>1 DEF ChannelStep, Channel!chanVars
  <2>4. InboundKept'
    BY <2>1, <2>2 DEF IocpInv, InboundKept
  <2>. QED BY <1>1, <2>1, <2>2, <2>3, <2>4
<1>3. CASE Iocp!clientWrite
  <2>1. /\ PeerCanWrite(pipe) /\ pipe' = PeerWrite(pipe, peerSent + 1)
        /\ peerSent' = peerSent + 1 /\ UNCHANGED <<got, connects>>
    BY <1>3, IocpCalls DEF Iocp!clientWrite, Iocp!CallPipe
  <2>2. /\ Common' /\ Passive(pipe, pipe') /\ PopStep /\ ChannelStep
        /\ pipe.state = "connected" /\ pipe'.state = "connected"
        /\ Inbound = UpTo(peerSent) => Inbound' = UpTo(peerSent')
    BY <1>a, <1>b, <2>1, PeerHasWritten
  <2>3. InboundKept'
    BY <2>2 DEF IocpInv, InboundKept
  <2>. QED BY <1>1, <2>2, <2>3
<1>4. CASE Iocp!clientRead
  <2>1. pipe.out # <<>> /\ pipe' = PeerRead(pipe) /\ got' = Append(got, Head(pipe.out))
        /\ UNCHANGED <<peerSent, connects>>
    BY <1>4, IocpCalls DEF Iocp!clientRead, Iocp!CallPipe
  <2>2. /\ Common' /\ Passive(pipe, pipe') /\ Inbound' = Inbound /\ PopStep /\ ChannelStep
        /\ pipe'.state = pipe.state
    BY <1>a, <1>b, <2>1, PeerHasRead
  <2>3. InboundKept' /\ pipe'.state # "disconnected"
    BY <2>1, <2>2 DEF IocpInv, InboundKept, IocpPlace
  <2>. QED BY <1>1, <2>2, <2>3
<1>5. CASE Iocp!clientClose
  <2>1. /\ Passive(pipe, pipe') /\ pipe'.state = "peerClosed" /\ pipe.state = "connected"
        /\ Lost(pipe, pipe') /\ Unlisted(pipe') = Unlisted(pipe)
        /\ UNCHANGED <<got, peerSent, connects>>
    BY <1>5, IocpCalls, PeerCloseOK DEF IocpInv, Common, Iocp!clientClose, Iocp!CallPipe,
       Iocp!clientVars
  <2>2. Common' /\ Inbound' = Inbound /\ PopStep
    BY <1>a, <1>b, <2>1, PassiveCall DEF Common, Passive
  <2>3. ChannelStep
    BY <1>a, <2>1, ChannelLost
  <2>4. InboundKept'
    BY <2>1, <2>2 DEF IocpInv, InboundKept
  <2>. QED BY <1>1, <2>1, <2>2, <2>3, <2>4
<1>. QED BY <1>2, <1>3, <1>4, <1>5 DEF Iocp!Client

LEMMA IocpNext == IocpInv /\ Iocp!Next => IocpKept
BY IocpSendLine, IocpMain, IocpStartWorker, IocpQuiet, IocpConnectEvent, IocpReadDone,
   IocpReadError, IocpWrites, IocpWriteError, IocpClient
   DEF Iocp!Next, Iocp!Main, Iocp!Worker

\* What the run checks follows.
LEMMA IocpCarried == IocpInv /\ IocpInv' /\ CarriedOn => Iocp!CarriedStep
<1>. SUFFICES ASSUME IocpInv, IocpInv', CarriedOn PROVE Iocp!CarriedStep
  OBVIOUS
<1>1. PipeOK(pipe) /\ PipeOK(pipe')
  BY DEF IocpInv, Common
<1>2. /\ Iocp!Carried = IF Carrying(pipe) THEN 1 ELSE 0
      /\ Iocp!Carried' = IF Carrying(pipe') THEN 1 ELSE 0
  BY <1>1 DEF Iocp!Carried, Carrying, PipeOK
<1>. QED BY <1>2 DEF CarriedOn, Iocp!CarriedStep

LEMMA IocpSafe == IocpInv => Iocp!TypeOK /\ Iocp!InboundConserved
<1>. SUFFICES ASSUME IocpInv PROVE Iocp!TypeOK /\ Iocp!InboundConserved
  OBVIOUS
<1>1. Iocp!TypeOK
  BY IocpCalls DEF IocpInv, Common, PipeOK, IocpTypes, Packet, Iocp!Packet, Iocp!TypeOK
<1>2. Iocp!InboundConserved
  <2>1. /\ dispatched \in Seq(Msg) /\ readMsgsList \in Seq(Msg)
        /\ pipe.buffer \in Seq(Msg) /\ pipe.in \in Seq(Msg)
    BY Fields DEF IocpInv, Common
  <2>2. Inbound = Cat(Cat(Cat(dispatched, readMsgsList), pipe.buffer), pipe.in)
    BY <2>1, Relisted DEF Inbound, Unlisted
  <2>3. Inbound = dispatched \o readMsgsList \o pipe.buffer \o pipe.in
    BY <2>2 DEF Cat
  <2>. QED BY <2>3 DEF IocpInv, InboundKept, UpTo, Iocp!InboundConserved
<1>. QED BY <1>1, <1>2

-----------------------------------------------------------------------------
(***************************************************************************)
(* The programs with one pipe                                              *)
(***************************************************************************)
ReuseStep ==
    /\ demo = "server" => Server!NoOverlappedReuseStep
    /\ demo = "client" => Client!NoOverlappedReuseStep
    /\ demo = "iocp" => Iocp!OneWriteStep

LEMMA InitInv == Init => IInv /\ Channel!ChanInit
<1>. SUFFICES ASSUME Init PROVE IInv /\ Channel!ChanInit
  OBVIOUS
<1>1. demo \in AllDemos
  BY BoundsAssumption DEF Init
<1>. QED BY <1>1, ServerInit, ClientInit, IocpInit DEF Init, IInv

LEMMA NextKeeps ==
    ASSUME IInv, Next
    PROVE  /\ IInv' /\ ChannelStep /\ ReuseStep
           /\ demo = "iocp" => Iocp!CarriedStep
<1>1. CASE InServer(Server!Next)
  <2>1. ServerInv /\ ServerKept /\ demo = "server" /\ demo' = "server"
    BY <1>1, ServerNext DEF IInv, InServer
  <2>2. IInv'
    BY <2>1 DEF IInv, ServerKept
  <2>. QED BY <2>1, <2>2, ServerReuse DEF ServerKept, ReuseStep
<1>2. CASE InClient(Client!Next)
  <2>1. ClientInv /\ ClientKept /\ demo = "client" /\ demo' = "client"
    BY <1>2, ClientNext DEF IInv, InClient
  <2>2. IInv'
    BY <2>1 DEF IInv, ClientKept
  <2>. QED BY <2>1, <2>2, ClientReuse DEF ClientKept, ReuseStep
<1>3. CASE InIocp(Iocp!Next)
  <2>1. IocpInv /\ IocpKept /\ demo = "iocp" /\ demo' = "iocp"
    BY <1>3, IocpNext DEF IInv, InIocp
  <2>2. IInv'
    BY <2>1 DEF IInv, IocpKept
  <2>3. Iocp!OneWriteStep
    BY <2>1 DEF IocpKept, PopStep, Iocp!OneWriteStep
  <2>. QED BY <2>1, <2>2, <2>3, IocpCarried DEF IocpKept, ReuseStep
<1>4. CASE InMulti(Multi!Next)
  <2>1. demo = "multi" /\ demo' = demo /\ UNCHANGED singleVars
    BY <1>4 DEF InMulti
  <2>. QED BY <2>1 DEF IInv, ChannelStep, Channel!chanVars, singleVars, ReuseStep
<1>. QED BY <1>1, <1>2, <1>3, <1>4 DEF Next

LEMMA StutterKeeps == IInv /\ UNCHANGED vars => IInv' /\ ChannelStep
<1>. SUFFICES ASSUME IInv, UNCHANGED vars PROVE IInv' /\ ChannelStep
  OBVIOUS
<1>1. UNCHANGED <<demo, pipe, mainPc, writeMsgsList, readMsgsList, workerPc, bWritting, sent,
                  dispatched, got, peerSent, connects, stopEvent, notEmptyEvent, instance,
                  created, g_mainThreadStop, iocp>>
  BY DEF vars, singleVars
<1>2. Common' = Common /\ InboundKept' = InboundKept
  BY <1>1 DEF Common, InboundKept, Inbound
<1>3. ServerInv' = ServerInv
  BY <1>1, <1>2 DEF ServerInv, ServerTypes, ServerPlace, SomebodyLooks
<1>4. ClientInv' = ClientInv
  BY <1>1, <1>2 DEF ClientInv, ClientTypes, NothingYet, ClientPlace, InboundBegun, Inbound
<1>5. IocpInv' = IocpInv
  BY <1>1, <1>2 DEF IocpInv, IocpTypes, ConnectHeld, IocpPlace
<1>6. IInv'
  BY <1>1, <1>3, <1>4, <1>5 DEF IInv
<1>. QED BY <1>1, <1>6 DEF ChannelStep, Channel!chanVars

-----------------------------------------------------------------------------
(***************************************************************************)
(* The server with several instances and worker threads                    *)
(***************************************************************************)
\* The operations that are handed from worker to worker.
Handed == {"connect", "read"}

\* A pipe whose read is outstanding has nothing to be read, and a read that failed
\* has left nothing unread.
InstPipeOK(p) ==
    /\ p \in Multi!Pipe(Nat)
    /\ p.buffer # <<>> => p.read = "success"
    /\ p.read = "pending" => p.state = "connected" /\ p.in = <<>>
    /\ p.read = "error" => p.state \notin {"listening", "connected"} /\ p.in = <<>>

\* What the server has received of the pipe or can still receive.
InstUnlisted(p) == Cat(p.buffer, p.in)

\* A call that issues neither a connect nor a read: it can only complete them.
InstPassive(p, q) ==
    /\ \A op \in Handed :
          /\ q[op] = "pending" => p[op] = "pending"
          /\ Multi!Completed(q[op]) /\ ~Multi!Completed(p[op]) => p[op] = "pending"
    /\ Multi!Completed(q.read) /\ ~Multi!Completed(p.read) => p.read = "pending"

-----------------------------------------------------------------------------
(***************************************************************************)
(* The calls on an instance                                                 *)
(***************************************************************************)
\* The same of the sequences the model has.
LEMMA CatTypeNat == \A s, t \in Seq(Nat) : Cat(s, t) \in Seq(Nat)
BY CatTypeGeneral

LEMMA CatEmptyNat == \A s \in Seq(Nat) : Cat(s, <<>>) = s /\ Cat(<<>>, s) = s
BY DEF Cat

LEMMA CatAssociativeNat == \A s, t, u \in Seq(Nat) : Cat(Cat(s, t), u) = Cat(s, Cat(t, u))
BY CatGeneral

LEMMA CatAppendNat ==
    \A s, t \in Seq(Nat) : \A x \in Nat : Cat(s, Append(t, x)) = Append(Cat(s, t), x)
BY CatAppendGeneral

LEMMA ConcatParts ==
    ASSUME NEW S, NEW s \in Seq(S), NEW t \in Seq(S)
    PROVE  /\ s \o t \in Seq(S) /\ Len(s) \in Nat /\ Len(t) \in Nat
           /\ Len(s \o t) = Len(s) + Len(t)
           /\ \A k \in 1 .. Len(s \o t) :
                 (s \o t)[k] = IF k <= Len(s) THEN s[k] ELSE t[k - Len(s)]
BY ConcatProperties

LEMMA InstFields ==
    ASSUME NEW p, InstPipeOK(p)
    PROVE  /\ p.state \in Multi!PipeStates /\ p.in \in Seq(Nat) /\ p.out \in Seq(Nat)
           /\ p.connect \in Multi!Operation /\ p.read \in Multi!Operation
           /\ p.write \in Multi!Operation
           /\ p.buffer \in Seq(Nat)
           /\ p = [state |-> p.state, in |-> p.in, out |-> p.out, connect |-> p.connect,
                   read |-> p.read, write |-> p.write, buffer |-> p.buffer]
BY DEF InstPipeOK, Multi!Pipe

LEMMA InstBreakIs ==
    ASSUME NEW p, InstPipeOK(p), NEW x \in Multi!PipeStates
    PROVE  /\ Multi!Break(p, x) \in Multi!Pipe(Nat)
           /\ Multi!Break(p, x).state = x /\ Multi!Break(p, x).in = <<>>
           /\ Multi!Break(p, x).out = <<>>
           /\ Multi!Break(p, x).buffer = p.buffer
           /\ Multi!Break(p, x).connect = Multi!Broken(p.connect)
           /\ Multi!Break(p, x).read = Multi!Broken(p.read)
<1>. p \in Multi!Pipe(Nat) /\ <<>> \in Seq(Nat)
  BY DEF InstPipeOK
<1>1. \A op \in Multi!Operation : Multi!Broken(op) \in Multi!Operation
  BY DEF Multi!Broken, Multi!Operation
<1>2. Multi!Break(p, x) \in Multi!Pipe(Nat)
  BY <1>1 DEF Multi!Break, Multi!Pipe
<1>3. /\ Multi!Break(p, x).state = x /\ Multi!Break(p, x).in = <<>>
      /\ Multi!Break(p, x).out = <<>>
      /\ Multi!Break(p, x).buffer = p.buffer
  BY DEF Multi!Break, Multi!Pipe
<1>4. /\ Multi!Break(p, x).connect = Multi!Broken(p.connect)
      /\ Multi!Break(p, x).read = Multi!Broken(p.read)
  BY DEF Multi!Break, Multi!Pipe
<1>. QED BY <1>2, <1>3, <1>4

LEMMA InstOpenOK ==
    ASSUME NEW p, InstPipeOK(p), p.state = "listening"
    PROVE  /\ InstPipeOK(Multi!PeerOpen(p)) /\ InstPassive(p, Multi!PeerOpen(p))
           /\ InstUnlisted(Multi!PeerOpen(p)) = InstUnlisted(p)
<1>1. /\ Multi!PeerOpen(p) \in Multi!Pipe(Nat)
      /\ Multi!PeerOpen(p).state = "connected" /\ Multi!PeerOpen(p).in = p.in
      /\ Multi!PeerOpen(p).buffer = p.buffer /\ Multi!PeerOpen(p).read = p.read
      /\ Multi!PeerOpen(p).connect = IF p.connect = "pending" THEN "success" ELSE p.connect
  BY InstFields DEF Multi!PeerOpen, Multi!Pipe, Multi!PipeStates, Multi!Operation, InstPipeOK
<1>. QED BY <1>1, InstFields DEF InstPipeOK, InstPassive, Multi!Completed, Handed, InstUnlisted

LEMMA InstPeerWriteOK ==
    ASSUME NEW p, InstPipeOK(p), Multi!PeerCanWrite(p), NEW m \in Nat
    PROVE  /\ InstPipeOK(Multi!PeerWrite(p, m)) /\ InstPassive(p, Multi!PeerWrite(p, m))
           /\ InstUnlisted(Multi!PeerWrite(p, m)) = Append(InstUnlisted(p), m)
<1>1. CASE p.read = "pending"
  <2>1. p.buffer = <<>> /\ p.in = <<>>
    BY <1>1 DEF InstPipeOK
  <2>2. Multi!PeerWrite(p, m) = [p EXCEPT !.read = "success", !.buffer = <<m>>]
    BY <1>1 DEF Multi!PeerWrite
  <2>3. <<m>> \in Seq(Nat)
    OBVIOUS
  <2>4. InstPipeOK(Multi!PeerWrite(p, m)) /\ InstPassive(p, Multi!PeerWrite(p, m))
    BY <1>1, <2>2, <2>3, InstFields
    DEF InstPipeOK, Multi!Pipe, Multi!PipeStates, Multi!Operation, InstPassive,
        Multi!Completed, Handed
  <2>5. Multi!PeerWrite(p, m).buffer = <<m>> /\ Multi!PeerWrite(p, m).in = <<>>
    BY <2>1, <2>2, InstFields
  <2>6. Cat(<<m>>, <<>>) = Append(Cat(<<>>, <<>>), m)
    BY DEF Cat
  <2>. QED BY <2>1, <2>4, <2>5, <2>6 DEF InstUnlisted
<1>2. CASE p.read # "pending"
  <2>1. Multi!PeerWrite(p, m) = [p EXCEPT !.in = Append(@, m)] /\ p.state = "connected"
    BY <1>2 DEF Multi!PeerWrite, Multi!PeerCanWrite
  <2>2. /\ p.read # "error" /\ p.in \in Seq(Nat) /\ p.buffer \in Seq(Nat)
        /\ Append(p.in, m) \in Seq(Nat)
    BY <2>1, InstFields, AppendProperties DEF InstPipeOK
  <2>3. InstPipeOK(Multi!PeerWrite(p, m)) /\ InstPassive(p, Multi!PeerWrite(p, m))
    BY <1>2, <2>1, <2>2, InstFields
    DEF InstPipeOK, Multi!Pipe, Multi!PipeStates, Multi!Operation, InstPassive,
        Multi!Completed, Handed
  <2>4. Multi!PeerWrite(p, m).buffer = p.buffer /\ Multi!PeerWrite(p, m).in = Append(p.in, m)
    BY <2>1, InstFields
  <2>5. Cat(p.buffer, Append(p.in, m)) = Append(Cat(p.buffer, p.in), m)
    BY <2>2, CatAppendNat
  <2>. QED BY <2>3, <2>4, <2>5 DEF InstUnlisted
<1>. QED BY <1>1, <1>2

LEMMA InstPeerReadOK ==
    ASSUME NEW p, InstPipeOK(p), p.out # <<>>
    PROVE  /\ InstPipeOK(Multi!PeerRead(p)) /\ InstPassive(p, Multi!PeerRead(p))
           /\ Multi!PeerRead(p).state = p.state
           /\ InstUnlisted(Multi!PeerRead(p)) = InstUnlisted(p)
<1>1. Tail(p.out) \in Seq(Nat)
  BY InstFields
<1>. QED BY <1>1, InstFields
  DEF Multi!PeerRead, InstPipeOK, Multi!Pipe, Multi!PipeStates, Multi!Operation,
      InstPassive, Multi!Completed, Handed, InstUnlisted

LEMMA InstPeerCloseOK ==
    ASSUME NEW p, InstPipeOK(p), p.state = "connected"
    PROVE  /\ InstPipeOK(Multi!PeerClose(p)) /\ InstPassive(p, Multi!PeerClose(p))
           /\ InstUnlisted(Multi!PeerClose(p)) = InstUnlisted(p)
<1>. DEFINE r == Multi!Break(p, "peerClosed")
<1>1. /\ r \in Multi!Pipe(Nat) /\ r.state = "peerClosed" /\ r.buffer = p.buffer
      /\ r.connect = Multi!Broken(p.connect) /\ r.read = Multi!Broken(p.read)
  BY InstBreakIs DEF Multi!PipeStates
<1>2. Multi!PeerClose(p) = [r EXCEPT !.in = p.in]
  BY DEF Multi!PeerClose
<1>3. p.in \in Seq(Nat) /\ p.read \in Multi!Operation
  BY InstFields
<1>. HIDE DEF r
<1>4. /\ Multi!PeerClose(p) \in Multi!Pipe(Nat) /\ Multi!PeerClose(p).state = "peerClosed"
      /\ Multi!PeerClose(p).buffer = p.buffer /\ Multi!PeerClose(p).in = p.in
      /\ Multi!PeerClose(p).connect = Multi!Broken(p.connect)
      /\ Multi!PeerClose(p).read = Multi!Broken(p.read)
  BY <1>1, <1>2, <1>3 DEF Multi!Pipe
<1>. QED BY <1>3, <1>4 DEF Multi!Broken, InstPipeOK, Multi!Operation, InstPassive,
    Multi!Completed, Handed, InstUnlisted

LEMMA InstCloseOK ==
    ASSUME NEW p, InstPipeOK(p)
    PROVE  /\ InstPipeOK(Multi!CloseHandle(p)) /\ InstPassive(p, Multi!CloseHandle(p))
           /\ Multi!CloseHandle(p).state = "closed"
<1>1. SubSeq(p.out, 1, IF Len(p.out) < Quota THEN Len(p.out) ELSE Quota) \in Seq(Nat)
  <2>1. p.out \in Seq(Nat) /\ Len(p.out) \in Nat /\ Quota \in Nat
    BY InstFields, BoundsAssumption
  <2>. QED BY <2>1
<1>. DEFINE r == Multi!Break(p, "closed")
            kept == SubSeq(p.out, 1, IF Len(p.out) < Quota THEN Len(p.out) ELSE Quota)
<1>2. /\ r \in Multi!Pipe(Nat) /\ r.state = "closed" /\ r.buffer = p.buffer /\ r.in = <<>>
      /\ r.connect = Multi!Broken(p.connect) /\ r.read = Multi!Broken(p.read)
  BY InstBreakIs DEF Multi!PipeStates
<1>3. Multi!CloseHandle(p) = [r EXCEPT !.out = kept]
  BY DEF Multi!CloseHandle
<1>4. p.read \in Multi!Operation /\ kept \in Seq(Nat)
  BY <1>1, InstFields
<1>. HIDE DEF r, kept
<1>5. /\ Multi!CloseHandle(p) \in Multi!Pipe(Nat) /\ Multi!CloseHandle(p).state = "closed"
      /\ Multi!CloseHandle(p).buffer = p.buffer /\ Multi!CloseHandle(p).in = <<>>
      /\ Multi!CloseHandle(p).connect = Multi!Broken(p.connect)
      /\ Multi!CloseHandle(p).read = Multi!Broken(p.read)
  BY <1>2, <1>3, <1>4 DEF Multi!Pipe
<1>. QED BY <1>4, <1>5 DEF Multi!Broken, InstPipeOK, Multi!Operation, InstPassive,
    Multi!Completed, Handed

LEMMA InstWriteFileOK ==
    ASSUME NEW p, InstPipeOK(p), NEW m \in Nat
    PROVE  /\ InstPipeOK(Multi!WriteFile(p, m)) /\ InstPassive(p, Multi!WriteFile(p, m))
           /\ Multi!WriteFile(p, m).state = p.state
           /\ InstUnlisted(Multi!WriteFile(p, m)) = InstUnlisted(p)
<1>1. Append(p.out, m) \in Seq(Nat)
  BY InstFields
<1>2. /\ Multi!WriteFile(p, m) \in Multi!Pipe(Nat)
      /\ Multi!WriteFile(p, m).state = p.state /\ Multi!WriteFile(p, m).in = p.in
      /\ Multi!WriteFile(p, m).buffer = p.buffer /\ Multi!WriteFile(p, m).read = p.read
      /\ Multi!WriteFile(p, m).connect = p.connect
  BY <1>1, InstFields DEF Multi!WriteFile, Multi!Pipe, Multi!Operation, InstPipeOK
<1>. QED BY <1>2 DEF InstPipeOK, InstPassive, Multi!Completed, Handed, InstUnlisted

\* The calls that issue one of the two, called when neither is under way.
LEMMA InstReadFileOK ==
    ASSUME NEW p, InstPipeOK(p), p.read = "idle"
    PROVE  /\ InstPipeOK(Multi!ReadFile(p)) /\ Multi!ReadFile(p).connect = p.connect
           /\ Multi!ReadFile(p).state = p.state
           /\ InstUnlisted(Multi!ReadFile(p)) = InstUnlisted(p)
<1>1. p.buffer = <<>> /\ p.in \in Seq(Nat)
  BY InstFields DEF InstPipeOK
<1>2. CASE p.in # <<>>
  <2>1.
        /\ Multi!ReadFile(p) = [p EXCEPT !.in = Tail(@), !.read = "success", !.buffer = <<Head(p.in)>>]
        /\ Tail(p.in) \in Seq(Nat) /\ Head(p.in) \in Nat /\ <<Head(p.in)>> \in Seq(Nat)
    BY <1>1, <1>2 DEF Multi!ReadFile
  <2>2. Cat(<<Head(p.in)>>, Tail(p.in)) = Cat(<<>>, p.in)
    BY <1>1, <1>2 DEF Cat
  <2>3. /\ InstPipeOK(Multi!ReadFile(p)) /\ Multi!ReadFile(p).connect = p.connect
        /\ Multi!ReadFile(p).state = p.state
    BY <2>1, InstFields DEF InstPipeOK, Multi!Pipe, Multi!Operation
  <2>4. Multi!ReadFile(p).buffer = <<Head(p.in)>> /\ Multi!ReadFile(p).in = Tail(p.in)
    BY <2>1, InstFields
  <2>. QED BY <1>1, <2>2, <2>3, <2>4 DEF InstUnlisted
<1>3. CASE p.in = <<>>
  BY <1>1, <1>3, InstFields DEF Multi!ReadFile, InstPipeOK, Multi!Pipe, Multi!Operation,
      InstUnlisted
<1>. QED BY <1>2, <1>3

LEMMA InstConnectOK ==
    ASSUME NEW p, InstPipeOK(p), p.read = "idle"
    PROVE  /\ InstPipeOK(Multi!ConnectNamedPipe(p)) /\ Multi!ConnectNamedPipe(p).read = "idle"
           /\ Multi!ConnectNamedPipe(p).connect \in {"idle", "pending"}
           /\ p.state = "closed" => Multi!ConnectNamedPipe(p).state = "closed"
           /\ InstUnlisted(Multi!ConnectNamedPipe(p)) = InstUnlisted(p)
BY InstFields DEF Multi!ConnectNamedPipe, Multi!ConnectResult, InstPipeOK, Multi!Pipe,
    Multi!PipeStates, Multi!Operation, InstUnlisted

LEMMA DisconnectOK ==
    ASSUME NEW p, InstPipeOK(p), p.read = "idle", p.in = <<>>
    PROVE  LET q == Multi!DisconnectNamedPipe(p)
           IN  /\ InstPipeOK(q) /\ q.read = "idle" /\ q.in = <<>>
               /\ p.state = "closed" => q.state = "closed"
               /\ InstUnlisted(q) = InstUnlisted(p)
<1>1. CASE p.state = "closed"
  BY <1>1 DEF Multi!DisconnectNamedPipe
<1>2. CASE p.state # "closed"
  <2>1. /\ Multi!DisconnectNamedPipe(p) = Multi!Break(p, "disconnected")
        /\ "disconnected" \in Multi!PipeStates
    BY <1>2 DEF Multi!DisconnectNamedPipe, Multi!PipeStates
  <2>. DEFINE q == Multi!Break(p, "disconnected")
  <2>2. /\ q \in Multi!Pipe(Nat) /\ q.state = "disconnected" /\ q.in = <<>>
        /\ q.buffer = p.buffer
        /\ q.read = Multi!Broken(p.read)
    BY <2>1, InstBreakIs
  <2>3. q.read = "idle" /\ p.buffer = <<>>
    BY <2>2 DEF Multi!Broken, InstPipeOK
  <2>. HIDE DEF q
  <2>4. InstPipeOK(q) /\ InstUnlisted(q) = InstUnlisted(p)
    BY <2>2, <2>3 DEF InstPipeOK, InstUnlisted
  <2>. QED BY <1>2, <2>1, <2>2, <2>3, <2>4 DEF q
<1>. QED BY <1>1, <1>2

-----------------------------------------------------------------------------
(***************************************************************************)
(* The packets a call queues: one for each operation that it completes     *)
(***************************************************************************)
LEMMA InstPacketsOf ==
    ASSUME NEW p, InstPipeOK(p), NEW q, InstPipeOK(q), NEW s \in Multi!Packets(p, q)
    PROVE  /\ s \in Seq({"connect", "read", "write"})
           /\ \A k \in 1 .. Len(s) : s[k] \in Handed
                 => ~Multi!Completed(p[s[k]]) /\ Multi!Completed(q[s[k]])
           /\ \A k, l \in 1 .. Len(s) : s[k] = s[l] /\ s[k] \in Handed => k = l
           /\ ~Multi!Completed(p.read) /\ Multi!Completed(q.read)
                 => \E k \in 1 .. Len(s) : s[k] = "read"
<1>. DEFINE One(op) == IF ~Multi!Completed(p[op]) /\ Multi!Completed(q[op]) THEN <<op>> ELSE <<>>
            others == One("connect") \o One("read")
            n == Multi!WritesCompleted(p, q)
            writes == [i \in 1 .. n |-> "write"]
            Kinds == {"connect", "read", "write"}
<1>1. n \in Nat
  <2>1. Len(p.out) \in Nat /\ Len(q.out) \in Nat /\ Quota \in Nat
    BY InstFields, BoundsAssumption
  <2>. QED BY <2>1 DEF Multi!WritesCompleted
<1>2. writes \in Seq(Kinds) /\ Len(writes) = n /\ \A k \in 1 .. n : writes[k] = "write"
  BY <1>1
<1>3. /\ others \in Seq(Kinds)
      /\ \A k \in 1 .. Len(others) :
            others[k] \in Handed /\ ~Multi!Completed(p[others[k]]) /\ Multi!Completed(q[others[k]])
      /\ \A k, l \in 1 .. Len(others) : others[k] = others[l] => k = l
      /\ ~Multi!Completed(p.read) /\ Multi!Completed(q.read)
            => \E k \in 1 .. Len(others) : others[k] = "read"
  <2>. DEFINE a == ~Multi!Completed(p["connect"]) /\ Multi!Completed(q["connect"])
              b == ~Multi!Completed(p["read"]) /\ Multi!Completed(q["read"])
  <2>. DEFINE first == IF a THEN <<"connect">> ELSE <<>>
              second == IF b THEN <<"read">> ELSE <<>>
  <2>0. /\ others = first \o second
        /\ first \in {<<"connect">>, <<>>} /\ second \in {<<"read">>, <<>>}
        /\ first = <<"connect">> => a
        /\ second = <<"read">> => b
        /\ second = <<>> => ~b
    OBVIOUS
  <2>. HIDE DEF others, first, second, a, b
  <2>1. CASE first = <<"connect">> /\ second = <<"read">>
    <3>1. <<"connect">> \in Seq(Kinds) /\ <<"read">> \in Seq(Kinds)
      OBVIOUS
    <3>2. others = <<"connect">> \o <<"read">>
      BY <2>0, <2>1, Zenon
    <3>3. /\ others \in Seq(Kinds) /\ Len(others) = 2
          /\ others[1] = "connect" /\ others[2] = "read"
      BY <3>1, <3>2, ConcatParts
    <3>. QED BY <2>0, <2>1, <3>3 DEF Handed, a, b
  <2>2. CASE first = <<"connect">> /\ second = <<>>
    <3>1. <<"connect">> \in Seq(Kinds) /\ <<"connect">> \o <<>> = <<"connect">>
      OBVIOUS
    <3>2. others = <<"connect">>
      BY <2>0, <2>2, <3>1, Zenon
    <3>. QED BY <2>0, <2>2, <3>1, <3>2 DEF Handed, a, b
  <2>3. CASE first = <<>> /\ second = <<"read">>
    <3>1. <<"read">> \in Seq(Kinds) /\ <<>> \o <<"read">> = <<"read">>
      OBVIOUS
    <3>2. others = <<"read">>
      BY <2>0, <2>3, <3>1, Zenon
    <3>. QED BY <2>0, <2>3, <3>1, <3>2 DEF Handed, b
  <2>4. CASE first = <<>> /\ second = <<>>
    <3>1. <<>> \in Seq(Kinds) /\ <<>> \o <<>> = <<>>
      OBVIOUS
    <3>2. others = <<>>
      BY <2>0, <2>4, <3>1, Zenon
    <3>. QED BY <2>0, <2>4, <3>1, <3>2 DEF Handed, b
  <2>5. (first = <<"connect">> \/ first = <<>>) /\ (second = <<"read">> \/ second = <<>>)
    BY <2>0, Zenon
  <2>. QED BY <2>1, <2>2, <2>3, <2>4, <2>5
<1>4. s = others \o writes \/ s = writes \o others
  BY DEF Multi!Packets
<1>. HIDE DEF others, writes, n, Kinds
<1>7. Kinds = {"connect", "read", "write"}
  BY DEF Kinds
<1>5. CASE s = others \o writes
  <2>1. /\ s \in Seq(Kinds) /\ Len(s) = Len(others) + n
        /\ \A k \in 1 .. Len(s) :
              s[k] = IF k <= Len(others) THEN others[k] ELSE writes[k - Len(others)]
    <3>1. others \in Seq(Kinds) /\ writes \in Seq(Kinds) /\ Len(writes) = n
      BY <1>2, <1>3
    <3>. QED BY <1>5, <3>1, ConcatParts
  <2>2. \A k \in 1 .. Len(s) : s[k] \in Handed => k \in 1 .. Len(others) /\ s[k] = others[k]
    BY <1>1, <1>2, <1>3, <2>1 DEF Handed
  <2>3. \A k \in 1 .. Len(others) : k \in 1 .. Len(s) /\ s[k] = others[k]
    BY <1>1, <1>3, <2>1
  <2>. QED BY <1>3, <1>7, <2>1, <2>2, <2>3
<1>6. CASE s = writes \o others
  <2>1. /\ s \in Seq(Kinds) /\ Len(s) = n + Len(others) /\ Len(others) \in Nat
        /\ \A k \in 1 .. Len(s) : s[k] = IF k <= n THEN writes[k] ELSE others[k - n]
    <3>1. others \in Seq(Kinds) /\ writes \in Seq(Kinds) /\ Len(writes) = n
      BY <1>2, <1>3
    <3>. QED BY <1>6, <3>1, ConcatParts
  <2>2. \A k \in 1 .. Len(s) :
            s[k] \in Handed => k - n \in 1 .. Len(others) /\ s[k] = others[k - n]
    BY <1>1, <1>2, <1>3, <2>1 DEF Handed
  <2>3. \A k \in 1 .. Len(others) : n + k \in 1 .. Len(s) /\ s[n + k] = others[k]
    BY <1>1, <1>3, <2>1
  <2>4. \A k, l \in 1 .. Len(s) : s[k] = s[l] /\ s[k] \in Handed => k = l
    <3>. SUFFICES ASSUME NEW k \in 1 .. Len(s), NEW l \in 1 .. Len(s), s[k] = s[l], s[k] \in Handed
                  PROVE  k = l
      OBVIOUS
    <3>1. k - n = l - n
      BY <1>3, <2>2
    <3>. QED BY <1>1, <2>1, <3>1
  <2>. QED BY <1>3, <1>7, <2>1, <2>2, <2>3, <2>4
<1>. QED BY <1>4, <1>5, <1>6

-----------------------------------------------------------------------------
(***************************************************************************)
(* The inductive invariant                                                 *)
(***************************************************************************)
\* The workers start when every instance has been connected and end with main.
Started ==
    /\ mMainPc = "connect" => \A w \in Threads : mWorkerPc[w] = "none"
    /\ mMainPc = "returned" => \A w \in Threads : mWorkerPc[w] = "exited"

\* Main has not come to instance i yet.
Untouched(i) ==
    mMainPc = "connect" /\ mIndex <= i =>
        /\ Multi!IssuingPackets(i) = {}
        /\ mPipe[i].connect = "idle" /\ mPipe[i].read = "idle"

\* OneIssuer of instance i without counting.
OneHolder(i) ==
    /\ \A v, w \in Multi!Issuers(i) : v = w
    /\ \A k, l \in Multi!IssuingPackets(i) : k = l
    /\ Multi!Issuers(i) = {} \/ Multi!IssuingPackets(i) = {}
    /\ mPipe[i].connect = "pending" \/ mPipe[i].read = "pending" =>
          Multi!Issuers(i) = {} /\ Multi!IssuingPackets(i) = {}
    /\ mPipe[i].connect # "pending" \/ mPipe[i].read # "pending"

\* A read that has completed is somebody's to handle.
ReadHeld(i) ==
    mMainPc # "returned" /\ Multi!Completed(mPipe[i].read) =>
        \/ \E k \in Multi!IssuingPackets(i) : mIocp[k].type = "read"
        \/ \E w \in Multi!Issuers(i) : mWorkerPc[w] = "read"

Types ==
    /\ Multi!TypeOK
    /\ \A i \in Multi!Inst : InstPipeOK(mPipe[i])
    /\ mMainPc = "broadcast" => mSent \in Multi!Msg
    /\ Started

Tokens == \A i \in Multi!Inst : Untouched(i) /\ OneHolder(i) /\ ReadHeld(i)

\* InboundConserved, its left side in two parts.
Conserved ==
    \A i \in Multi!Inst : mPipe[i].state # "closed" =>
        Cat(Cat(mDispatched[i], mReadMsgsLists[i]), InstUnlisted(mPipe[i]))
            = [k \in 1 .. mClientSent[i] |-> k]

MultiInv == Types /\ Tokens /\ Conserved

-----------------------------------------------------------------------------
(***************************************************************************)
(* The completion port                                                     *)
(***************************************************************************)
\* IocpServerMulti's sets are counted as they are here.
LEMMA SameCardinality == \A S : Multi!Cardinality(S) = Cardinality(S)
BY DEF Multi!Cardinality, Cardinality

\* Packets t are queued behind what is there.
LEMMA QueuePackets ==
    ASSUME mIocp \in Seq(Multi!Packet), NEW t \in Seq(Multi!Packet), mIocp' = mIocp \o t
    PROVE  /\ mIocp' \in Seq(Multi!Packet)
           /\ Len(mIocp) \in Nat /\ Len(t) \in Nat
           /\ \A k \in 1 .. Len(mIocp) : mIocp'[k] = mIocp[k]
           /\ \A k \in 1 .. Len(t) : mIocp'[Len(mIocp) + k] = t[k]
           /\ \A j : \A k \in Multi!IssuingPackets(j) : k \in Multi!IssuingPackets(j)'
           /\ \A j : \A k \in Multi!IssuingPackets(j)' \ Multi!IssuingPackets(j) :
                 \E l \in 1 .. Len(t) :
                    /\ k = Len(mIocp) + l
                    /\ t[l].inst = j /\ t[l].type \in Handed
           /\ \A j : \A l \in 1 .. Len(t) :
                 t[l].inst = j /\ t[l].type \in Handed
                     => Len(mIocp) + l \in Multi!IssuingPackets(j)' \ Multi!IssuingPackets(j)
<1>. DEFINE n == Len(mIocp)
            m == Len(t)
<1>1. /\ mIocp' \in Seq(Multi!Packet) /\ n \in Nat /\ m \in Nat /\ Len(mIocp') = n + m
      /\ \A k \in 1 .. n + m : mIocp'[k] = IF k <= n THEN mIocp[k] ELSE t[k - n]
  BY ConcatParts
<1>. HIDE DEF m, n
<1>2. /\ \A k \in 1 .. n : k \in 1 .. n + m /\ mIocp'[k] = mIocp[k]
      /\ \A k \in 1 .. m : n + k \in 1 .. n + m /\ mIocp'[n + k] = t[k]
      /\ \A k \in 1 .. n + m : k \in 1 .. n \/ (k - n \in 1 .. m /\ k = n + (k - n))
  <2>1. \A k \in 1 .. n : k \in 1 .. n + m /\ mIocp'[k] = mIocp[k]
    BY <1>1
  <2>2. \A k \in 1 .. m : n + k \in 1 .. n + m /\ ~(n + k <= n) /\ (n + k) - n = k
    BY <1>1
  <2>3. \A k \in 1 .. m : n + k \in 1 .. n + m /\ mIocp'[n + k] = t[k]
    BY <1>1, <2>2
  <2>4. \A k \in 1 .. n + m : k \in 1 .. n \/ (k - n \in 1 .. m /\ k = n + (k - n))
    BY <1>1
  <2>. QED BY <2>1, <2>3, <2>4
<1>3. \A j : Multi!IssuingPackets(j) = {k \in 1 .. n : mIocp[k].inst = j /\ mIocp[k].type \in Handed}
  BY DEF Multi!IssuingPackets, Handed, n
<1>4. \A j : Multi!IssuingPackets(j)'
                = {k \in 1 .. n + m : mIocp'[k].inst = j /\ mIocp'[k].type \in Handed}
  BY <1>1 DEF Multi!IssuingPackets, Handed
<1>5. \A j : \A k \in Multi!IssuingPackets(j) : k \in Multi!IssuingPackets(j)'
  BY <1>2, <1>3, <1>4
<1>6. ASSUME NEW j, NEW k \in Multi!IssuingPackets(j)' \ Multi!IssuingPackets(j)
      PROVE  \E l \in 1 .. m : k = n + l /\ t[l].inst = j /\ t[l].type \in Handed
  <2>1. k \in 1 .. n + m /\ mIocp'[k].inst = j /\ mIocp'[k].type \in Handed
    BY <1>4, <1>6
  <2>2. k \notin 1 .. n
    BY <1>2, <1>3, <1>6, <2>1
  <2>3. k - n \in 1 .. m /\ k = n + (k - n)
    BY <1>2, <2>1, <2>2
  <2>. QED BY <1>2, <2>1, <2>3
<1>7. ASSUME NEW j, NEW l \in 1 .. m, t[l].inst = j, t[l].type \in Handed
      PROVE  n + l \in Multi!IssuingPackets(j)' \ Multi!IssuingPackets(j)
  <2>1. n + l \notin 1 .. n
    BY <1>1
  <2>. QED BY <1>2, <1>3, <1>4, <1>7, <2>1
<1>. QED BY <1>1, <1>2, <1>5, <1>6, <1>7 DEF m, n

\* Notices and exits make nobody issue a connect or a read.
LEMMA QueueOthers ==
    ASSUME mIocp \in Seq(Multi!Packet), NEW t \in Seq(Multi!Packet), mIocp' = mIocp \o t,
           \A k \in 1 .. Len(t) : t[k].type \notin Handed
    PROVE  /\ mIocp' \in Seq(Multi!Packet)
           /\ \A j : Multi!IssuingPackets(j)' = Multi!IssuingPackets(j)
           /\ \A j : \A k \in Multi!IssuingPackets(j) : mIocp'[k] = mIocp[k]
<1>1. /\ mIocp' \in Seq(Multi!Packet)
      /\ \A k \in 1 .. Len(mIocp) : mIocp'[k] = mIocp[k]
      /\ \A j : \A k \in Multi!IssuingPackets(j) : k \in Multi!IssuingPackets(j)'
      /\ \A j : \A k \in Multi!IssuingPackets(j)' \ Multi!IssuingPackets(j) :
            \E l \in 1 .. Len(t) : t[l].type \in Handed
  BY QueuePackets
<1>2. ASSUME NEW j PROVE Multi!IssuingPackets(j)' = Multi!IssuingPackets(j)
  <2>1. \A k : k \in Multi!IssuingPackets(j) => k \in Multi!IssuingPackets(j)'
    BY <1>1
  <2>2. \A k : k \in Multi!IssuingPackets(j)' => k \in Multi!IssuingPackets(j)
    BY <1>1
  <2>. QED BY <2>1, <2>2, Zenon
<1>3. \A j : Multi!IssuingPackets(j) \subseteq 1 .. Len(mIocp)
  BY DEF Multi!IssuingPackets
<1>. QED BY <1>1, <1>2, <1>3

\* What a call on instance i queues.
LEMMA CallQueues ==
    ASSUME Multi!TypeOK, NEW i \in Multi!Inst, NEW p, InstPipeOK(p), NEW q, InstPipeOK(q),
           Multi!CallPipe(i, p, q)
    PROVE  /\ mPipe' = [mPipe EXCEPT ![i] = q]
           /\ mIocp' \in Seq(Multi!Packet)
           /\ \A j : \A k \in Multi!IssuingPackets(j) : k \in Multi!IssuingPackets(j)' /\ mIocp'[k] = mIocp[k]
           /\ \A j : j # i => Multi!IssuingPackets(j)' = Multi!IssuingPackets(j)
           /\ \A k \in Multi!IssuingPackets(i)' \ Multi!IssuingPackets(i) :
                 /\ mIocp'[k].type \in Handed
                 /\ ~Multi!Completed(p[mIocp'[k].type]) /\ Multi!Completed(q[mIocp'[k].type])
           /\ \A k, l \in Multi!IssuingPackets(i)' \ Multi!IssuingPackets(i) :
                 mIocp'[k].type = mIocp'[l].type => k = l
           /\ ~Multi!Completed(p.read) /\ Multi!Completed(q.read) =>
                 \E k \in Multi!IssuingPackets(i)' \ Multi!IssuingPackets(i) : mIocp'[k].type = "read"
<1>1. mIocp \in Seq(Multi!Packet)
  BY DEF Multi!TypeOK
<1>2. PICK s \in Multi!Packets(p, q) : mIocp' = mIocp \o [k \in DOMAIN s |-> [type |-> s[k], inst |-> i]]
  BY DEF Multi!CallPipe
<1>. DEFINE t == [k \in DOMAIN s |-> [type |-> s[k], inst |-> i]]
            n == Len(mIocp)
<1>3. /\ s \in Seq({"connect", "read", "write"})
      /\ \A k \in 1 .. Len(s) : s[k] \in Handed
            => ~Multi!Completed(p[s[k]]) /\ Multi!Completed(q[s[k]])
      /\ \A k, l \in 1 .. Len(s) : s[k] = s[l] /\ s[k] \in Handed => k = l
      /\ ~Multi!Completed(p.read) /\ Multi!Completed(q.read)
            => \E k \in 1 .. Len(s) : s[k] = "read"
  BY InstPacketsOf
<1>4. /\ t \in Seq(Multi!Packet) /\ Len(t) = Len(s)
      /\ \A k \in 1 .. Len(s) : t[k].type = s[k] /\ t[k].inst = i
  <2>1. Len(s) \in Nat /\ DOMAIN s = 1 .. Len(s)
    BY <1>3
  <2>2. \A k \in 1 .. Len(s) : [type |-> s[k], inst |-> i] \in Multi!Packet
    BY <1>3 DEF Multi!Packet, Multi!Notice
  <2>. QED BY <2>1, <2>2
<1>5. mIocp' = mIocp \o t
  BY <1>2
<1>. HIDE DEF t
<1>6. /\ mIocp' \in Seq(Multi!Packet) /\ n \in Nat
      /\ \A k \in 1 .. n : mIocp'[k] = mIocp[k]
      /\ \A k \in 1 .. Len(s) : mIocp'[n + k] = t[k]
      /\ \A j : \A k \in Multi!IssuingPackets(j) : k \in Multi!IssuingPackets(j)'
      /\ \A j : \A k \in Multi!IssuingPackets(j)' \ Multi!IssuingPackets(j) :
            \E l \in 1 .. Len(s) : k = n + l /\ t[l].inst = j /\ t[l].type \in Handed
      /\ \A j : \A l \in 1 .. Len(s) :
            t[l].inst = j /\ t[l].type \in Handed
                => n + l \in Multi!IssuingPackets(j)' \ Multi!IssuingPackets(j)
  BY <1>1, <1>4, <1>5, QueuePackets, SMTT(60)
<1>7. \A j : \A k \in Multi!IssuingPackets(j) : mIocp'[k] = mIocp[k]
  BY <1>6 DEF Multi!IssuingPackets
<1>. HIDE DEF n
<1>8. ASSUME NEW j, j # i
      PROVE  Multi!IssuingPackets(j)' = Multi!IssuingPackets(j)
  <2>1. \A k : k \in Multi!IssuingPackets(j) => k \in Multi!IssuingPackets(j)'
    BY <1>6
  <2>2. \A k : k \in Multi!IssuingPackets(j)' => k \in Multi!IssuingPackets(j)
    BY <1>4, <1>6, <1>8
  <2>. QED BY <2>1, <2>2, Zenon
<1>9. \A k \in Multi!IssuingPackets(i)' \ Multi!IssuingPackets(i) :
          \E l \in 1 .. Len(s) : k = n + l /\ mIocp'[k].type = s[l] /\ s[l] \in Handed
  BY <1>4, <1>6
<1>10. \A k, l \in Multi!IssuingPackets(i)' \ Multi!IssuingPackets(i) :
           mIocp'[k].type = mIocp'[l].type => k = l
  BY <1>3, <1>9
<1>11. ASSUME ~Multi!Completed(p.read), Multi!Completed(q.read)
       PROVE  \E k \in Multi!IssuingPackets(i)' \ Multi!IssuingPackets(i) : mIocp'[k].type = "read"
  <2>1. PICK l \in 1 .. Len(s) : s[l] = "read"
    BY <1>3, <1>11
  <2>2. t[l].type = "read" /\ t[l].inst = i /\ mIocp'[n + l] = t[l]
    BY <1>4, <1>6, <2>1
  <2>3. n + l \in Multi!IssuingPackets(i)' \ Multi!IssuingPackets(i)
    BY <1>6, <2>2 DEF Handed
  <2>. QED BY <2>2, <2>3
<1>12. mPipe' = [mPipe EXCEPT ![i] = q]
  BY DEF Multi!CallPipe
<1>13. ASSUME NEW k \in Multi!IssuingPackets(i)' \ Multi!IssuingPackets(i)
       PROVE  /\ mIocp'[k].type \in Handed
              /\ ~Multi!Completed(p[mIocp'[k].type]) /\ Multi!Completed(q[mIocp'[k].type])
  BY <1>3, <1>9
<1>14. \A j : \A k \in Multi!IssuingPackets(j) : k \in Multi!IssuingPackets(j)' /\ mIocp'[k] = mIocp[k]
  BY <1>6, <1>7
<1>. QED BY <1>6, <1>8, <1>10, <1>11, <1>12, <1>13, <1>14, Zenon

-----------------------------------------------------------------------------
(***************************************************************************)
(* What kinds of steps do to the tokens                                    *)
(***************************************************************************)
\* Main does not go back to connecting, nor the instances it connects back.
Forward ==
    /\ mMainPc' = "connect" => mMainPc = "connect" /\ mIndex <= mIndex'
    /\ mMainPc' # "returned" => mMainPc # "returned"

\* The workers that issue connects and reads of instance j stay where they are.
IssuersStay(j) ==
    Multi!Issuers(j)' = Multi!Issuers(j) /\ \A w \in Multi!Issuers(j) : mWorkerPc'[w] = mWorkerPc[w]
PacketsStay(j) ==
    Multi!IssuingPackets(j)' = Multi!IssuingPackets(j) /\ \A k \in Multi!IssuingPackets(j) : mIocp'[k] = mIocp[k]

Token(i) == Untouched(i) /\ OneHolder(i) /\ ReadHeld(i)

\* An instance a step has nothing to do with.
LEMMA OtherInstance ==
    ASSUME Multi!TypeOK, Multi!TypeOK', NEW j \in Multi!Inst, Token(j), Forward,
           IssuersStay(j), PacketsStay(j),
           mPipe'[j] = mPipe[j]
    PROVE  Token(j)'
<1>1. Untouched(j)'
  <2>1. mIndex \in Nat /\ mIndex' \in Nat /\ j \in Nat
    BY BoundsAssumption DEF Multi!TypeOK, Multi!Inst
  <2>2. mIndex <= mIndex' /\ mIndex' <= j => mIndex <= j
    BY <2>1
  <2>. QED BY <2>2 DEF Token, Untouched, Forward, PacketsStay
<1>2. OneHolder(j)'
  BY DEF Token, OneHolder, IssuersStay, PacketsStay
<1>3. ReadHeld(j)'
  BY DEF Token, ReadHeld, IssuersStay, PacketsStay, Forward
<1>. QED BY <1>1, <1>2, <1>3 DEF Token

\* A step that calls nothing and queues neither a connect nor a read.
LEMMA QuietStep ==
    ASSUME Multi!TypeOK, Multi!TypeOK', Tokens, Forward, UNCHANGED mPipe,
           \A j \in Multi!Inst : IssuersStay(j) /\ PacketsStay(j)
    PROVE  Tokens'
BY OtherInstance DEF Tokens, Token

\* A call that issues neither.
LEMMA PassiveStep ==
    ASSUME Multi!TypeOK, Multi!TypeOK', Tokens, Forward, \A j \in Multi!Inst : IssuersStay(j),
           NEW i \in Multi!Inst, InstPipeOK(mPipe[i]), NEW q, InstPipeOK(q),
           InstPassive(mPipe[i], q),
           Multi!CallPipe(i, mPipe[i], q)
    PROVE  Tokens'
<1>. DEFINE p == mPipe[i]
            new == Multi!IssuingPackets(i)' \ Multi!IssuingPackets(i)
<1>1. /\ mPipe' = [mPipe EXCEPT ![i] = q]
      /\ \A j : \A k \in Multi!IssuingPackets(j) : k \in Multi!IssuingPackets(j)' /\ mIocp'[k] = mIocp[k]
      /\ \A j : j # i => Multi!IssuingPackets(j)' = Multi!IssuingPackets(j)
      /\ \A k \in new :
            /\ mIocp'[k].type \in Handed
            /\ ~Multi!Completed(p[mIocp'[k].type]) /\ Multi!Completed(q[mIocp'[k].type])
      /\ \A k, l \in new : mIocp'[k].type = mIocp'[l].type => k = l
      /\ ~Multi!Completed(p.read) /\ Multi!Completed(q.read)
            => \E k \in new : mIocp'[k].type = "read"
  BY CallQueues
<1>2. mPipe'[i] = q /\ \A j \in Multi!Inst : j # i => mPipe'[j] = mPipe[j]
  BY <1>1 DEF Multi!TypeOK
<1>3. ASSUME NEW j \in Multi!Inst, j # i
      PROVE  Token(j)'
  BY <1>1, <1>2, <1>3, OtherInstance DEF Tokens, Token, PacketsStay
<1>4. Token(i) /\ IssuersStay(i) /\ p \in Multi!Pipe(Nat) /\ q \in Multi!Pipe(Nat)
  BY DEF Tokens, Token, InstPipeOK
<1>. HIDE DEF new
<1>5. \A k \in new :
          \/ mIocp'[k].type = "connect" /\ p.connect = "pending" /\ q.connect # "pending"
          \/ mIocp'[k].type = "read" /\ p.read = "pending" /\ q.read # "pending"
  <2>. TAKE k \in new
  <2>. DEFINE op == mIocp'[k].type
  <2>1. op \in Handed /\ ~Multi!Completed(p[op]) /\ Multi!Completed(q[op])
    BY <1>1
  <2>2. p[op] = "pending" /\ q[op] # "pending"
    BY <2>1 DEF InstPassive, Multi!Completed
  <2>3. op = "connect" \/ op = "read"
    BY <2>1 DEF Handed
  <2>. HIDE DEF op
  <2>4. CASE op = "connect"
    <3>1. p["connect"] = "pending" /\ q["connect"] # "pending"
      BY <2>2, <2>4
    <3>. QED BY <2>4, <3>1 DEF op
  <2>5. CASE op = "read"
    <3>1. p["read"] = "pending" /\ q["read"] # "pending"
      BY <2>2, <2>5
    <3>. QED BY <2>5, <3>1 DEF op
  <2>. QED BY <2>3, <2>4, <2>5
<1>6. /\ q.connect = "pending" => p.connect = "pending"
      /\ q.read = "pending" => p.read = "pending"
  BY DEF InstPassive, Handed
<1>7. Untouched(i)'
  <2>. SUFFICES ASSUME mMainPc' = "connect", mIndex' <= i
                PROVE  Multi!IssuingPackets(i)' = {} /\ q.connect = "idle" /\ q.read = "idle"
    BY <1>2 DEF Untouched
  <2>1. mIndex \in Nat /\ mIndex' \in Nat /\ i \in Nat
    BY BoundsAssumption DEF Multi!TypeOK, Multi!Inst
  <2>2. mMainPc = "connect" /\ mIndex <= i
    BY <2>1 DEF Forward
  <2>3. Multi!IssuingPackets(i) = {} /\ p.connect = "idle" /\ p.read = "idle"
    BY <1>4, <2>2 DEF Token, Untouched
  <2>4. new = {} /\ Multi!IssuingPackets(i)' = {}
    BY <1>5, <2>3 DEF new
  <2>5. q.connect \in Multi!Operation /\ q.read \in Multi!Operation
    BY <1>4 DEF Multi!Pipe
  <2>6. ~Multi!Completed(q.connect) /\ ~Multi!Completed(q.read)
    BY <2>3 DEF InstPassive, Handed, Multi!Completed
  <2>. QED BY <1>6, <2>3, <2>4, <2>5, <2>6 DEF Multi!Operation, Multi!Completed
<1>8. OneHolder(i)'
  <2>1. OneHolder(i)
    BY <1>4 DEF Token
  <2>2. CASE new = {}
    <3>1. \A k : k \in Multi!IssuingPackets(i)' <=> k \in Multi!IssuingPackets(i)
      BY <1>1, <2>2 DEF new
    <3>2. Multi!IssuingPackets(i)' = Multi!IssuingPackets(i)
      BY <3>1, Zenon
    <3>. QED BY <1>2, <1>4, <1>6, <2>1, <3>2 DEF OneHolder, IssuersStay
  <2>3. CASE new # {}
    <3>1. PICK k \in new : TRUE
      BY <2>3
    <3>2. p.connect = "pending" \/ p.read = "pending"
      BY <1>5, <3>1
    <3>3. Multi!Issuers(i) = {} /\ Multi!IssuingPackets(i) = {}
      BY <2>1, <3>2 DEF OneHolder
    <3>4. \A l \in new : mIocp'[l].type = mIocp'[k].type
      BY <1>5, <2>1, <3>1 DEF OneHolder
    <3>5. \A l, m \in Multi!IssuingPackets(i)' : l = m
      BY <1>1, <3>1, <3>3, <3>4 DEF new
    <3>6. q.connect # "pending" /\ q.read # "pending"
      BY <1>5, <1>6, <2>1, <3>1 DEF OneHolder
    <3>. QED BY <1>2, <1>4, <3>3, <3>5, <3>6 DEF OneHolder, IssuersStay
  <2>. QED BY <2>2, <2>3
<1>9. ReadHeld(i)'
  <2>. SUFFICES ASSUME mMainPc' # "returned", Multi!Completed(q.read)
                PROVE  \/ \E k \in Multi!IssuingPackets(i)' : mIocp'[k].type = "read"
                       \/ \E w \in Multi!Issuers(i)' : mWorkerPc'[w] = "read"
    BY <1>2 DEF ReadHeld
  <2>1. CASE Multi!Completed(p.read)
    <3>1. \/ \E k \in Multi!IssuingPackets(i) : mIocp[k].type = "read"
          \/ \E w \in Multi!Issuers(i) : mWorkerPc[w] = "read"
      BY <1>4, <2>1 DEF Token, ReadHeld, Forward
    <3>. QED BY <1>1, <1>4, <3>1 DEF IssuersStay
  <2>2. CASE ~Multi!Completed(p.read)
    BY <1>1, <2>2 DEF new
  <2>. QED BY <2>1, <2>2
<1>. QED BY <1>3, <1>7, <1>8, <1>9 DEF Tokens, Token

\* A connect or a read issued by the one worker that may, or by main before the
\* workers start.
LEMMA IssuingStep ==
    ASSUME Multi!TypeOK, Multi!TypeOK', Tokens, Forward,
           NEW i \in Multi!Inst, NEW p, InstPipeOK(p), NEW q, InstPipeOK(q), Multi!CallPipe(i,
           p, q),
           \A j \in Multi!Inst : j # i => IssuersStay(j),
           Multi!Issuers(i)' = {}, Multi!IssuingPackets(i) = {},
           ~(mMainPc' = "connect" /\ mIndex' <= i),
           p.read = "idle",
           \/ q.connect = p.connect /\ q.connect # "pending"
           \/ q.connect \in {"idle", "pending"} /\ q.read = "idle"
    PROVE  Tokens'
<1>1. /\ mPipe' = [mPipe EXCEPT ![i] = q]
      /\ \A j : \A k \in Multi!IssuingPackets(j) : k \in Multi!IssuingPackets(j)' /\ mIocp'[k] = mIocp[k]
      /\ \A j : j # i => Multi!IssuingPackets(j)' = Multi!IssuingPackets(j)
      /\ \A k \in Multi!IssuingPackets(i)' :
            /\ mIocp'[k].type \in Handed
            /\ ~Multi!Completed(p[mIocp'[k].type]) /\ Multi!Completed(q[mIocp'[k].type])
      /\ \A k, l \in Multi!IssuingPackets(i)' : mIocp'[k].type = mIocp'[l].type => k = l
      /\ ~Multi!Completed(p.read) /\ Multi!Completed(q.read) =>
            \E k \in Multi!IssuingPackets(i)' : mIocp'[k].type = "read"
  BY CallQueues
<1>2. mPipe'[i] = q /\ \A j \in Multi!Inst : j # i => mPipe'[j] = mPipe[j]
  BY <1>1 DEF Multi!TypeOK
<1>3. ASSUME NEW j \in Multi!Inst, j # i
      PROVE  Token(j)'
  BY <1>1, <1>2, <1>3, OtherInstance DEF Tokens, Token, PacketsStay
<1>4. \A k \in Multi!IssuingPackets(i)' : mIocp'[k].type = "read" /\ Multi!Completed(q.read)
  BY <1>1 DEF Handed, Multi!Completed
<1>5. Untouched(i)'
  BY DEF Untouched
<1>6. OneHolder(i)'
  <2>1. \A k, l \in Multi!IssuingPackets(i)' : k = l
    BY <1>1, <1>4
  <2>2. q.connect = "pending" \/ q.read = "pending" => Multi!IssuingPackets(i)' = {}
    BY <1>4 DEF Multi!Completed
  <2>. QED BY <1>2, <2>1, <2>2 DEF OneHolder
<1>7. ReadHeld(i)'
  BY <1>1, <1>2 DEF ReadHeld, Multi!Completed
<1>. QED BY <1>3, <1>5, <1>6, <1>7 DEF Tokens, Token

-----------------------------------------------------------------------------
(***************************************************************************)
(* Parts of steps                                                          *)
(***************************************************************************)
LEMMA CallTypes ==
    ASSUME Types, NEW i \in Multi!Inst, NEW p, InstPipeOK(p), NEW q, InstPipeOK(q),
           Multi!CallPipe(i, p, q)
    PROVE  /\ mPipe' \in [Multi!Inst -> Multi!Pipe(Nat)] /\ \A j \in Multi!Inst : InstPipeOK(mPipe'[j])
           /\ \A j \in Multi!Inst : mPipe'[j].buffer # <<>> => mPipe'[j].read = "success"
           /\ mIocp' \in Seq(Multi!Packet)
           /\ mPipe'[i] = q /\ \A j \in Multi!Inst : j # i => mPipe'[j] = mPipe[j]
<1>1. mPipe' = [mPipe EXCEPT ![i] = q] /\ mIocp' \in Seq(Multi!Packet)
  BY CallQueues DEF Types
<1>2. mPipe \in [Multi!Inst -> Multi!Pipe(Nat)] /\ q \in Multi!Pipe(Nat)
  BY DEF Types, Multi!TypeOK, InstPipeOK
<1>3. \A j \in Multi!Inst : InstPipeOK(mPipe'[j])
  BY <1>1, <1>2 DEF Types
<1>. QED BY <1>1, <1>2, <1>3 DEF InstPipeOK

\* An instance whose call leaves what can be received of it as it is.
LEMMA CallConserves ==
    ASSUME Conserved, NEW i \in Multi!Inst, NEW q,
           mPipe'[i] = q, \A j \in Multi!Inst : j # i => mPipe'[j] = mPipe[j],
           UNCHANGED <<mDispatched, mReadMsgsLists, mClientSent>>,
           q.state # "closed"
                 => mPipe[i].state # "closed" /\ InstUnlisted(q) = InstUnlisted(mPipe[i])
    PROVE  Conserved'
<1>1. ASSUME NEW j \in Multi!Inst, mPipe'[j].state # "closed"
      PROVE  mPipe[j].state # "closed" /\ InstUnlisted(mPipe'[j]) = InstUnlisted(mPipe[j])
  BY <1>1
<1>. QED BY <1>1 DEF Conserved

\* Worker w goes on: if it was the holder of its instance, it no longer is.
LEMMA WorkerMoves ==
    ASSUME Multi!TypeOK, NEW w \in Threads, NEW pc, pc \notin Handed, Multi!goTo(w, pc),
           UNCHANGED mInst
    PROVE  /\ \A j : j # mInst[w] => IssuersStay(j)
           /\ mWorkerPc[w] \notin Handed => \A j : IssuersStay(j)
           /\ Multi!Issuers(mInst[w]) = {w} => Multi!Issuers(mInst[w])' = {}
<1>1. mWorkerPc'[w] = pc /\ \A v \in Threads : v # w => mWorkerPc'[v] = mWorkerPc[v]
  BY DEF Multi!goTo, Multi!TypeOK
<1>2. \A j : Multi!Issuers(j) = {v \in Threads : mWorkerPc[v] \in Handed /\ mInst[v] = j}
  BY DEF Multi!Issuers, Handed
<1>3. \A j : Multi!Issuers(j)' = {v \in Threads : mWorkerPc'[v] \in Handed /\ mInst[v] = j}
  BY DEF Multi!Issuers, Handed
<1>4. ASSUME NEW j, j # mInst[w] \/ mWorkerPc[w] \notin Handed
      PROVE  IssuersStay(j)
  <2>1. Multi!Issuers(j)' = Multi!Issuers(j)
    BY <1>1, <1>2, <1>3, <1>4
  <2>2. \A v \in Multi!Issuers(j) : v # w /\ v \in Threads
    BY <1>2, <1>4
  <2>. QED BY <1>1, <2>1, <2>2 DEF IssuersStay
<1>5. ASSUME Multi!Issuers(mInst[w]) = {w}
      PROVE  Multi!Issuers(mInst[w])' = {}
  BY <1>1, <1>2, <1>3, <1>5
<1>. QED BY <1>4, <1>5

LEMMA MainMoves ==
    ASSUME Multi!TypeOK, NEW pc, Multi!NextInstance(pc)
    PROVE  /\ mIndex' \in Multi!Inst
           /\ \/ mMainPc' = mMainPc /\ mIndex' = mIndex + 1 /\ mIndex + 1 < INSTANCES
              \/ mMainPc' = pc /\ ~(mIndex + 1 < INSTANCES)
<1>1. INSTANCES \in Nat \ {0} /\ mIndex \in 0 .. INSTANCES - 1
  BY BoundsAssumption DEF Multi!TypeOK, Multi!Inst
<1>2. CASE mIndex + 1 < INSTANCES
  BY <1>1, <1>2 DEF Multi!NextInstance, Multi!Inst
<1>3. CASE ~(mIndex + 1 < INSTANCES)
  <2>1. mIndex' = 0 /\ mMainPc' = pc
    BY <1>3, Zenon DEF Multi!NextInstance
  <2>2. 0 \in Multi!Inst
    BY <1>1 DEF Multi!Inst
  <2>. QED BY <1>3, <2>1, <2>2
<1>. QED BY <1>2, <1>3

\* The worker that may issue a connect or a read of its instance.
LEMMA Holder ==
    ASSUME Types, Tokens, NEW w \in Threads, mWorkerPc[w] \in Handed
    PROVE  LET i == mInst[w]
           IN  /\ i \in Multi!Inst /\ InstPipeOK(mPipe[i])
               /\ Multi!Issuers(i) = {w} /\ Multi!IssuingPackets(i) = {}
               /\ mPipe[i].connect # "pending" /\ mPipe[i].read # "pending"
               /\ mMainPc # "connect"
               /\ mWorkerPc[w] = "connect" => mPipe[i].read = "idle"
<1>. DEFINE i == mInst[w]
<1>1. i \in Multi!Inst /\ InstPipeOK(mPipe[i])
  BY DEF Types, Multi!TypeOK
<1>2. Untouched(i) /\ OneHolder(i) /\ ReadHeld(i)
  BY <1>1 DEF Tokens
<1>3. w \in Multi!Issuers(i) /\ Multi!Issuers(i) \subseteq Threads
  BY DEF Multi!Issuers, Handed
<1>. HIDE DEF i
<1>4. /\ Multi!Issuers(i) = {w} /\ Multi!IssuingPackets(i) = {}
      /\ mPipe[i].connect # "pending" /\ mPipe[i].read # "pending"
  BY <1>2, <1>3 DEF OneHolder
<1>5. mMainPc # "connect" /\ mMainPc # "returned"
  BY DEF Types, Started, Handed
<1>6. ASSUME mWorkerPc[w] = "connect"
      PROVE  mPipe[i].read = "idle"
  <2>1. ~Multi!Completed(mPipe[i].read)
    BY <1>2, <1>4, <1>5, <1>6 DEF ReadHeld
  <2>2. mPipe[i].read \in Multi!Operation
    BY <1>1, InstFields
  <2>. QED BY <1>4, <2>1, <2>2 DEF Multi!Operation, Multi!Completed
<1>. QED BY <1>1, <1>4, <1>5, <1>6 DEF i

-----------------------------------------------------------------------------
(***************************************************************************)
(* Each action preserves the invariant                                     *)
(***************************************************************************)
\* The places of a worker, and those at which it runs and holds no connect or read.
Running == {"wait", "pop", "empty", "front", "popFront", "writeFile", "flag", "write", "notEmpty"}

Place == {"none", "wait", "pop", "empty", "front", "popFront", "writeFile", "flag", "exited"}
         \cup Multi!Notice

\* Steps that call nothing and leave the messages of the clients where they are.
LEMMA QuietKeeps ==
    ASSUME MultiInv, Types', Forward, UNCHANGED <<mPipe, mDispatched, mReadMsgsLists,
           mClientSent>>,
           \A j \in Multi!Inst : IssuersStay(j) /\ PacketsStay(j)
    PROVE  MultiInv'
<1>1. Tokens'
  BY QuietStep DEF MultiInv, Types
<1>2. Conserved'
  BY DEF MultiInv, Conserved
<1>. QED BY <1>1, <1>2 DEF MultiInv

LEMMA NothingQueued ==
    ASSUME UNCHANGED mIocp
    PROVE  \A j : PacketsStay(j)
BY DEF PacketsStay, Multi!IssuingPackets

LEMMA WorkersStay ==
    ASSUME UNCHANGED <<mWorkerPc, mInst>>
    PROVE  \A j : IssuersStay(j)
BY DEF IssuersStay, Multi!Issuers

\* A worker between two of its calls.
LEMMA WorkKeeps ==
    ASSUME MultiInv, NEW w \in Threads,
           Multi!testNotEmpty(w) \/ Multi!popMsg(w) \/ Multi!handleWriteDone(w) \/ Multi!testEmpty(w) \/ Multi!frontMsg(w)
               \/ Multi!popFront(w) \/ Multi!setWritting(w)
    PROVE  MultiInv'
<1>1. Multi!TypeOK /\ mInst[w] \in Multi!Inst
  BY DEF MultiInv, Types, Multi!TypeOK
<1>2. \A s \in Seq(Multi!Msg) : Multi!First(s) \in Nat /\ Multi!Rest(s) \in Seq(Multi!Msg)
  BY DEF Multi!First, Multi!Rest, Multi!Msg, Multi!NoMsg
<1>3. /\ UNCHANGED <<mPipe, mIocp, Multi!mainVars, mReadMsgsLists, mInst, Multi!clientVars>>
      /\ \E pc \in Running \cup {"exited"} : Multi!goTo(w, pc)
      /\ mWorkerPc[w] \in Running \cup {"empty"}
      /\ mWriteMsgsLists' \in [Multi!Inst -> Seq(Multi!Msg)]
      /\ mWritting' \in [Multi!Inst -> BOOLEAN]
      /\ mMsg' \in [Threads -> Nat]
  <2>0. /\ mWriteMsgsLists \in [Multi!Inst -> Seq(Multi!Msg)]
        /\ mWritting \in [Multi!Inst -> BOOLEAN]
        /\ mMsg \in [Threads -> Nat]
    BY <1>1 DEF Multi!TypeOK
  <2>1. CASE Multi!testNotEmpty(w)
    BY <2>0, <2>1 DEF Multi!testNotEmpty, Running, Multi!listVars
  <2>2. CASE Multi!popMsg(w)
    BY <1>1, <1>2, <2>0, <2>2 DEF Multi!popMsg, Running
  <2>3. CASE Multi!handleWriteDone(w)
    BY <1>1, <2>0, <2>3 DEF Multi!handleWriteDone, Running, Multi!listVars
  <2>4. CASE Multi!testEmpty(w)
    BY <2>0, <2>4 DEF Multi!testEmpty, Running, Multi!listVars
  <2>5. CASE Multi!frontMsg(w)
    BY <1>1, <1>2, <2>0, <2>5 DEF Multi!frontMsg, Running, Multi!listVars
  <2>6. CASE Multi!popFront(w)
    BY <1>1, <1>2, <2>0, <2>6 DEF Multi!popFront, Running
  <2>7. CASE Multi!setWritting(w)
    BY <1>1, <2>0, <2>7 DEF Multi!setWritting, Running, Multi!listVars
  <2>. QED BY <2>1, <2>2, <2>3, <2>4, <2>5, <2>6, <2>7
<1>4. PICK pc \in Running \cup {"exited"} : Multi!goTo(w, pc)
  BY <1>3
<1>5. pc \notin Handed /\ mWorkerPc[w] \notin Handed
  BY <1>3 DEF Running, Handed
<1>6. \A j : IssuersStay(j) /\ PacketsStay(j)
  BY <1>1, <1>3, <1>4, <1>5, WorkerMoves, NothingQueued
<1>7. Multi!TypeOK'
  <2>1. mWorkerPc' \in [Threads -> Place]
    BY <1>1, <1>4 DEF Multi!TypeOK, Multi!goTo, Running, Place, Multi!Notice
  <2>2. /\ mPipe' = mPipe /\ mIocp' = mIocp /\ mMainPc' = mMainPc /\ mIndex' = mIndex
        /\ mSent' = mSent
        /\ mDispatched' = mDispatched /\ mReadMsgsLists' = mReadMsgsLists /\ mInst' = mInst
        /\ mClientSent' = mClientSent /\ mConnects' = mConnects
    BY <1>3 DEF Multi!mainVars, Multi!clientVars
  <2>. QED BY <1>1, <1>3, <2>1, <2>2 DEF Multi!TypeOK, Place
<1>8. mMainPc # "connect" /\ mMainPc # "returned"
  BY <1>3 DEF MultiInv, Types, Started, Running
<1>9. Types'
  BY <1>3, <1>7, <1>8 DEF MultiInv, Types, Started, Multi!mainVars
<1>10. Forward
  BY <1>3, <1>8 DEF Forward, Multi!mainVars
<1>. QED BY <1>3, <1>6, <1>9, <1>10, QuietKeeps DEF Multi!mainVars, Multi!clientVars

LEMMA PushKeeps ==
    ASSUME Types, NEW i \in Multi!Inst, NEW m \in Multi!Msg, Multi!push(i, m)
    PROVE  /\ mWriteMsgsLists' \in [Multi!Inst -> Seq(Multi!Msg)] /\ mIocp' \in Seq(Multi!Packet)
           /\ \A j : PacketsStay(j)
<1>1. mIocp \in Seq(Multi!Packet) /\ mWriteMsgsLists \in [Multi!Inst -> Seq(Multi!Msg)]
  BY DEF Types, Multi!TypeOK
<1>2. mWriteMsgsLists' \in [Multi!Inst -> Seq(Multi!Msg)]
  BY <1>1 DEF Multi!push
<1>3. CASE mIocp' = mIocp
  BY <1>1, <1>2, <1>3, NothingQueued
<1>4. CASE mIocp' = Append(mIocp, [type |-> "notEmpty", inst |-> i])
  <2>. DEFINE x == [type |-> "notEmpty", inst |-> i]
  <2>1. x \in Multi!Packet /\ x.type \notin Handed
    BY DEF Multi!Packet, Multi!Notice, Handed
  <2>. HIDE DEF x
  <2>2. /\ <<x>> \in Seq(Multi!Packet) /\ mIocp' = mIocp \o <<x>>
        /\ \A k \in 1 .. Len(<<x>>) : <<x>>[k] = x
    BY <1>1, <1>4, <2>1, AppendIsConcat DEF x
  <2>3. /\ mIocp' \in Seq(Multi!Packet)
        /\ \A j : Multi!IssuingPackets(j)' = Multi!IssuingPackets(j)
        /\ \A j : \A k \in Multi!IssuingPackets(j) : mIocp'[k] = mIocp[k]
    BY <1>1, <2>1, <2>2, QueueOthers
  <2>. QED BY <1>2, <2>3 DEF PacketsStay
<1>. QED BY <1>3, <1>4 DEF Multi!push

\* Main without the pipes.
LEMMA MainKeeps ==
    ASSUME MultiInv, Multi!sendMsg \/ Multi!broadcastStart \/ Multi!broadcast \/ Multi!exitLine
    PROVE  MultiInv'
<1>1. Multi!TypeOK /\ mSent \in Nat /\ mIndex \in Multi!Inst
  BY DEF MultiInv, Types, Multi!TypeOK
<1>2. /\ mWriteMsgsLists' \in [Multi!Inst -> Seq(Multi!Msg)] /\ mIocp' \in Seq(Multi!Packet)
      /\ \A j : PacketsStay(j)
      /\ mSent' \in Nat /\ mIndex' \in Multi!Inst
      /\ mMainPc' = "broadcast" => mSent' \in Multi!Msg
      /\ mMainPc' \in {"broadcast", "dispatch", "join"}
      /\ mMainPc \notin {"connect", "returned"}
      /\ UNCHANGED <<mPipe, mReadMsgsLists, mDispatched, mWritting, Multi!workerVars, Multi!clientVars>>
  <2>0. mSent + 1 \in Multi!Msg /\ mSent + 1 \in Nat
    BY <1>1 DEF Multi!Msg
  <2>1. CASE Multi!sendMsg
    <3>1. PICK i \in Multi!Inst : Multi!push(i, mSent + 1)
      BY <2>1 DEF Multi!sendMsg
    <3>. QED BY <1>1, <2>0, <2>1, <3>1, PushKeeps DEF Multi!sendMsg, MultiInv
  <2>2. CASE Multi!broadcastStart
    <3>1. \A j : PacketsStay(j)
      BY <2>2, NothingQueued DEF Multi!broadcastStart
    <3>. QED BY <1>1, <2>0, <2>2, <3>1 DEF Multi!broadcastStart, Multi!listVars, Multi!TypeOK
  <2>3. CASE Multi!broadcast
    <3>1. /\ mSent \in Multi!Msg /\ Multi!NextInstance("dispatch")
          /\ Multi!push(mIndex, mSent) /\ mMainPc = "broadcast"
      BY <2>3 DEF Multi!broadcast, MultiInv, Types
    <3>2. mIndex' \in Multi!Inst /\ mMainPc' \in {"broadcast", "dispatch"}
      BY <1>1, <3>1, MainMoves
    <3>. QED BY <1>1, <2>3, <3>1, <3>2, PushKeeps DEF Multi!broadcast, MultiInv
  <2>4. CASE Multi!exitLine
    <3>. DEFINE t == [k \in 1 .. Cardinality(Threads) |-> Multi!Exit]
    <3>1. /\ Multi!Exit \in Multi!Packet /\ Multi!Exit.type \notin Handed
          /\ Cardinality(Threads) \in Nat
      BY BoundsAssumption, FS_CardinalityType DEF Multi!Exit, Multi!Packet, Handed
    <3>. HIDE DEF Multi!Exit
    <3>2. t \in Seq(Multi!Packet) /\ \A k \in 1 .. Len(t) : t[k].type \notin Handed
      BY <3>1
    <3>3. mIocp' = mIocp \o t /\ mIocp \in Seq(Multi!Packet)
      <4>1. mIocp' = mIocp \o t
        BY <2>4, SameCardinality DEF Multi!exitLine
      <4>. QED BY <1>1, <4>1 DEF Multi!TypeOK
    <3>. HIDE DEF t
    <3>4. mIocp' \in Seq(Multi!Packet) /\ \A j : PacketsStay(j)
      BY <3>2, <3>3, QueueOthers DEF PacketsStay
    <3>. QED BY <1>1, <2>4, <3>4 DEF Multi!exitLine, Multi!listVars, Multi!TypeOK
  <2>. QED BY <2>1, <2>2, <2>3, <2>4
<1>3. Multi!TypeOK'
  BY <1>1, <1>2 DEF Multi!TypeOK, Multi!workerVars, Multi!clientVars
<1>4. Types'
  BY <1>2, <1>3 DEF MultiInv, Types, Started
<1>5. Forward
  BY <1>2 DEF Forward
<1>6. \A j : IssuersStay(j)
  BY <1>2, WorkersStay DEF Multi!workerVars
<1>. QED BY <1>2, <1>4, <1>5, <1>6, QuietKeeps DEF Multi!clientVars

\* Main takes what was received.
LEMMA DispatchKeeps ==
    ASSUME MultiInv, Multi!dispatchMsgs
    PROVE  MultiInv'
<1>1. /\ Multi!TypeOK /\ mIndex \in Multi!Inst /\ mMainPc = "dispatch"
      /\ mDispatched \in [Multi!Inst -> Seq(Nat)] /\ mReadMsgsLists \in [Multi!Inst -> Seq(Nat)]
      /\ UNCHANGED <<mPipe, mIocp, mSent, mWriteMsgsLists, mWritting, Multi!workerVars, Multi!clientVars>>
  BY DEF MultiInv, Types, Multi!TypeOK, Multi!dispatchMsgs
<1>2. mIndex' \in Multi!Inst /\ mMainPc' \in {"dispatch", "input"}
  BY <1>1, MainMoves DEF Multi!dispatchMsgs
<1>. DEFINE d == mDispatched[mIndex]
            r == mReadMsgsLists[mIndex]
<1>3. /\ mDispatched' = [mDispatched EXCEPT ![mIndex] = Cat(d, r)]
      /\ mReadMsgsLists' = [mReadMsgsLists EXCEPT ![mIndex] = <<>>]
  BY DEF Multi!dispatchMsgs, Cat
<1>4. d \in Seq(Nat) /\ r \in Seq(Nat) /\ Cat(d, r) \in Seq(Nat)
  BY <1>1, CatTypeNat
<1>5. mDispatched' \in [Multi!Inst -> Seq(Nat)] /\ mReadMsgsLists' \in [Multi!Inst -> Seq(Nat)]
  BY <1>1, <1>3, <1>4
<1>6. Multi!TypeOK'
  BY <1>1, <1>2, <1>5 DEF Multi!TypeOK, Multi!workerVars, Multi!clientVars
<1>7. Types'
  BY <1>1, <1>2, <1>6 DEF MultiInv, Types, Started
<1>8. Tokens'
  <2>1. Forward
    BY <1>1, <1>2 DEF Forward
  <2>2. \A j : IssuersStay(j) /\ PacketsStay(j)
    BY <1>1, WorkersStay, NothingQueued DEF Multi!workerVars
  <2>. QED BY <1>1, <1>6, <2>1, <2>2, QuietStep DEF MultiInv
<1>9. Conserved'
  <2>. SUFFICES ASSUME NEW i \in Multi!Inst
                PROVE  Cat(Cat(mDispatched'[i], mReadMsgsLists'[i]), InstUnlisted(mPipe[i]))
                           = Cat(Cat(mDispatched[i], mReadMsgsLists[i]), InstUnlisted(mPipe[i]))
    BY <1>1 DEF MultiInv, Conserved, Multi!clientVars
  <2>1. CASE i # mIndex
    BY <1>1, <1>3, <2>1
  <2>2. CASE i = mIndex
    <3>1. mDispatched'[i] = Cat(d, r) /\ mReadMsgsLists'[i] = <<>>
      BY <1>1, <1>3, <2>2
    <3>2. Cat(Cat(d, r), <<>>) = Cat(d, r)
      BY <1>4, CatEmptyNat
    <3>. QED BY <2>2, <3>1, <3>2, Zenon
  <2>. QED BY <2>1, <2>2
<1>. QED BY <1>7, <1>8, <1>9 DEF MultiInv

\* Main connects an instance before any worker runs.
LEMMA ConnectKeeps ==
    ASSUME MultiInv, Multi!connectInstances
    PROVE  MultiInv'
<1>. DEFINE i == mIndex
            p == mPipe[i]
            q == Multi!ConnectNamedPipe(p)
<1>1. /\ Multi!TypeOK /\ i \in Multi!Inst /\ i \in Nat /\ InstPipeOK(p) /\ mMainPc = "connect"
      /\ \A w \in Threads : mWorkerPc[w] = "none"
  BY DEF MultiInv, Types, Multi!TypeOK, Started, Multi!connectInstances, Multi!Inst
<1>2. Multi!IssuingPackets(i) = {} /\ p.connect = "idle" /\ p.read = "idle"
  BY <1>1 DEF MultiInv, Tokens, Untouched
<1>3. /\ InstPipeOK(q) /\ q.read = "idle" /\ q.connect \in {"idle", "pending"}
      /\ p.state = "closed" => q.state = "closed"
      /\ InstUnlisted(q) = InstUnlisted(p)
  BY <1>1, <1>2, InstConnectOK
<1>4. /\ Multi!CallPipe(i, p, q) /\ Multi!NextInstance("input")
      /\ mWorkerPc' = IF mIndex + 1 < INSTANCES THEN mWorkerPc ELSE [w \in Threads |-> "wait"]
      /\ UNCHANGED <<mSent, mDispatched, Multi!listVars, mWritting, mInst, mMsg, Multi!clientVars>>
  BY DEF Multi!connectInstances
<1>. HIDE DEF p, q
<1>5. /\ mIndex' \in Multi!Inst
      /\ \/ mMainPc' = "connect" /\ mIndex' = mIndex + 1 /\ mWorkerPc' = mWorkerPc
         \/ mMainPc' = "input" /\ mWorkerPc' = [w \in Threads |-> "wait"]
  BY <1>1, <1>4, MainMoves
<1>6. /\ mPipe' \in [Multi!Inst -> Multi!Pipe(Nat)] /\ \A j \in Multi!Inst : InstPipeOK(mPipe'[j])
      /\ \A j \in Multi!Inst : mPipe'[j].buffer # <<>> => mPipe'[j].read = "success"
      /\ mIocp' \in Seq(Multi!Packet)
      /\ mPipe'[i] = q /\ \A j \in Multi!Inst : j # i => mPipe'[j] = mPipe[j]
  BY <1>1, <1>3, <1>4, CallTypes DEF MultiInv
<1>7. Multi!TypeOK'
  BY <1>1, <1>4, <1>5, <1>6 DEF Multi!TypeOK, Multi!listVars, Multi!clientVars
<1>8. Types'
  BY <1>1, <1>5, <1>6, <1>7 DEF Types, Started
<1>9. Tokens'
  <2>1. \A j : Multi!Issuers(j) = {} /\ Multi!Issuers(j)' = {}
    BY <1>1, <1>5 DEF Multi!Issuers
  <2>2. \A j : IssuersStay(j)
    BY <2>1 DEF IssuersStay
  <2>3. Forward /\ ~(mMainPc' = "connect" /\ mIndex' <= i)
    BY <1>1, <1>5 DEF Forward
  <2>. HIDE DEF i
  <2>4. p.read = "idle" /\ Tokens
    BY <1>2 DEF MultiInv
  <2>. QED BY <1>1, <1>2, <1>3, <1>4, <1>7, <2>1, <2>2, <2>3, <2>4, IssuingStep
<1>10. Conserved'
  BY <1>1, <1>3, <1>4, <1>6, CallConserves DEF MultiInv, Multi!listVars, Multi!clientVars, p
<1>. QED BY <1>8, <1>9, <1>10 DEF MultiInv

\* The end of the process.
LEMMA ReturnKeeps ==
    ASSUME MultiInv, Multi!returnFromMain
    PROVE  MultiInv'
<1>1. /\ Multi!TypeOK /\ Tokens /\ mMainPc' = "returned"
      /\ mWorkerPc' = [w \in Threads |-> "exited"]
      /\ mPipe' = [i \in Multi!Inst |-> Multi!CloseHandle(mPipe[i])] /\ mIocp' = <<>>
      /\ UNCHANGED <<mIndex, mSent, mDispatched, Multi!listVars, mWritting, mInst, mMsg, Multi!clientVars>>
  BY DEF MultiInv, Types, Multi!returnFromMain
<1>2. \A i \in Multi!Inst : /\ InstPipeOK(mPipe'[i]) /\ InstPassive(mPipe[i], mPipe'[i])
                      /\ mPipe'[i].state = "closed"
  BY <1>1, InstCloseOK DEF MultiInv, Types
<1>3. /\ mPipe' \in [Multi!Inst -> Multi!Pipe(Nat)]
      /\ \A j \in Multi!Inst : mPipe'[j].buffer # <<>> => mPipe'[j].read = "success"
  <2>1. \A i \in Multi!Inst : Multi!CloseHandle(mPipe[i]) \in Multi!Pipe(Nat)
    BY <1>1, <1>2 DEF InstPipeOK
  <2>2. mPipe' \in [Multi!Inst -> Multi!Pipe(Nat)]
    BY <1>1, <2>1
  <2>. QED BY <1>2, <2>2 DEF InstPipeOK
<1>4. Multi!TypeOK'
  BY <1>1, <1>3 DEF Multi!TypeOK, Multi!listVars, Multi!clientVars
<1>5. Types'
  BY <1>1, <1>2, <1>4 DEF Types, Started
<1>6. ASSUME NEW i \in Multi!Inst
      PROVE  Untouched(i)' /\ OneHolder(i)' /\ ReadHeld(i)'
  <2>1. Multi!Issuers(i)' = {} /\ Multi!IssuingPackets(i)' = {}
    BY <1>1 DEF Multi!Issuers, Multi!IssuingPackets
  <2>2. OneHolder(i)'
    BY <1>1, <1>2, <2>1 DEF OneHolder, Tokens, InstPassive, Handed
  <2>. QED BY <1>1, <2>2 DEF Untouched, ReadHeld
<1>7. Conserved'
  BY <1>2 DEF Conserved
<1>. QED BY <1>5, <1>6, <1>7 DEF MultiInv, Tokens

\* A worker or a client makes a call that issues neither a connect nor a read.
LEMMA PassiveKeeps ==
    ASSUME MultiInv, NEW i \in Multi!Inst, NEW q, InstPipeOK(q), InstPassive(mPipe[i], q),
           Multi!CallPipe(i, mPipe[i], q),
           UNCHANGED <<mMainPc, mIndex, mSent, mDispatched, mReadMsgsLists, mWriteMsgsLists,
           mClientSent>>,

                     q.state # "closed" => mPipe[i].state # "closed" /\ InstUnlisted(q) = InstUnlisted(mPipe[i]),
           mWritting' \in [Multi!Inst -> BOOLEAN], mConnects' \in [Multi!Inst -> Nat],
           mWorkerPc' \in [Threads -> Place], mInst' \in [Threads -> Multi!Inst],
           mMsg' \in [Threads -> Nat],
           \A j : IssuersStay(j), Started'
    PROVE  MultiInv'
<1>1. Multi!TypeOK /\ InstPipeOK(mPipe[i])
  BY DEF MultiInv, Types
<1>2. /\ mPipe' \in [Multi!Inst -> Multi!Pipe(Nat)] /\ \A j \in Multi!Inst : InstPipeOK(mPipe'[j])
      /\ \A j \in Multi!Inst : mPipe'[j].buffer # <<>> => mPipe'[j].read = "success"
      /\ mIocp' \in Seq(Multi!Packet)
      /\ mPipe'[i] = q /\ \A j \in Multi!Inst : j # i => mPipe'[j] = mPipe[j]
  BY <1>1, CallTypes DEF MultiInv
<1>3. Multi!TypeOK'
  BY <1>1, <1>2 DEF Multi!TypeOK, Place
<1>4. Types'
  BY <1>2, <1>3 DEF MultiInv, Types
<1>5. Tokens'
  <2>1. Forward
    <3>1. mIndex \in Nat
      BY <1>1 DEF Multi!TypeOK, Multi!Inst
    <3>. QED BY <3>1 DEF Forward
  <2>. QED BY <1>1, <1>3, <2>1, PassiveStep DEF MultiInv
<1>6. Conserved'
  BY <1>2, CallConserves DEF MultiInv
<1>. QED BY <1>4, <1>5, <1>6 DEF MultiInv

\* A worker writes, or closes the instance since its write failed.
LEMMA WriteKeeps ==
    ASSUME MultiInv, NEW w \in Threads, Multi!writeFile(w) \/ Multi!handleWriteError(w)
    PROVE  MultiInv'
<1>. DEFINE i == mInst[w]
<1>1. /\ Multi!TypeOK /\ i \in Multi!Inst /\ InstPipeOK(mPipe[i]) /\ mMsg[w] \in Nat
      /\ mWritting \in [Multi!Inst -> BOOLEAN] /\ mMsg \in [Threads -> Nat]
      /\ mWorkerPc \in [Threads -> Place]
  BY DEF MultiInv, Types, Multi!TypeOK, Place
<1>2. PICK q :
        /\ InstPipeOK(q) /\ InstPassive(mPipe[i], q) /\ Multi!CallPipe(i, mPipe[i], q)
        /\ q.state # "closed"
              => mPipe[i].state # "closed" /\ InstUnlisted(q) = InstUnlisted(mPipe[i])
        /\ mWritting' \in [Multi!Inst -> BOOLEAN] /\ mMsg' \in [Threads -> Nat]
  <2>1. CASE Multi!writeFile(w)
    <3>1. Multi!CallPipe(i, mPipe[i], Multi!WriteFile(mPipe[i], mMsg[w]))
      BY <2>1 DEF Multi!writeFile
    <3>2. /\ InstPipeOK(Multi!WriteFile(mPipe[i], mMsg[w]))
          /\ InstPassive(mPipe[i], Multi!WriteFile(mPipe[i], mMsg[w]))
          /\ Multi!WriteFile(mPipe[i], mMsg[w]).state = mPipe[i].state
          /\ InstUnlisted(Multi!WriteFile(mPipe[i], mMsg[w])) = InstUnlisted(mPipe[i])
      BY <1>1, InstWriteFileOK
    <3>3. mWritting' \in [Multi!Inst -> BOOLEAN] /\ mMsg' \in [Threads -> Nat]
      BY <1>1, <2>1 DEF Multi!writeFile, Multi!NoMsg
    <3>. QED BY <3>1, <3>2, <3>3
  <2>2. CASE Multi!handleWriteError(w)
    <3>1. Multi!CallPipe(i, mPipe[i], Multi!CloseHandle(mPipe[i]))
      BY <2>2 DEF Multi!handleWriteError
    <3>2. /\ InstPipeOK(Multi!CloseHandle(mPipe[i]))
          /\ InstPassive(mPipe[i], Multi!CloseHandle(mPipe[i]))
          /\ Multi!CloseHandle(mPipe[i]).state = "closed"
      BY <1>1, InstCloseOK
    <3>3. mWritting' \in [Multi!Inst -> BOOLEAN] /\ mMsg' \in [Threads -> Nat]
      BY <1>1, <2>2 DEF Multi!handleWriteError
    <3>. QED BY <3>1, <3>2, <3>3
  <2>. QED BY <2>1, <2>2
<1>3. /\ mWorkerPc[w] \in {"writeFile", "write"}
      /\ UNCHANGED <<mMainPc, mIndex, mSent, mDispatched, mReadMsgsLists, mWriteMsgsLists,
                     mClientSent, mConnects, mInst>>
  BY DEF Multi!writeFile, Multi!handleWriteError, Multi!mainVars, Multi!listVars,
      Multi!clientVars
<1>4. PICK pc \in {"flag", "exited"} : Multi!goTo(w, pc)
  BY DEF Multi!writeFile, Multi!handleWriteError
<1>5. mWorkerPc' \in [Threads -> Place]
  BY <1>1, <1>4 DEF Multi!goTo, Place
<1>6. \A j : IssuersStay(j)
  <2>1. pc \notin Handed /\ mWorkerPc[w] \notin Handed
    BY <1>3 DEF Handed
  <2>. QED BY <1>1, <1>3, <1>4, <2>1, WorkerMoves
<1>7. Started'
  <2>1. mMainPc # "connect" /\ mMainPc # "returned"
    BY <1>3 DEF MultiInv, Types, Started
  <2>. QED BY <1>3, <2>1 DEF Started
<1>8. mConnects' \in [Multi!Inst -> Nat] /\ mInst' \in [Threads -> Multi!Inst]
  BY <1>1, <1>3 DEF Multi!TypeOK
<1>. HIDE DEF i
<1>. QED BY <1>1, <1>2, <1>3, <1>5, <1>6, <1>7, <1>8, PassiveKeeps

\* The other calls of a client.
LEMMA ClientKeeps ==
    ASSUME MultiInv, NEW i \in Multi!Inst,
           Multi!clientOpen(i) \/ Multi!clientRead(i) \/ Multi!clientClose(i)
    PROVE  MultiInv'
<1>. DEFINE p == mPipe[i]
<1>1. Multi!TypeOK /\ InstPipeOK(p) /\ mConnects \in [Multi!Inst -> Nat]
  BY DEF MultiInv, Types, Multi!TypeOK
<1>2. /\ UNCHANGED <<Multi!mainVars, Multi!listVars, mWritting, Multi!workerVars, mClientSent>>
      /\ mConnects' \in [Multi!Inst -> Nat]
  BY <1>1 DEF Multi!clientOpen, Multi!clientRead, Multi!clientClose, Multi!clientVars
<1>3. PICK q : /\ InstPipeOK(q) /\ InstPassive(p, q) /\ Multi!CallPipe(i, p, q)
               /\ q.state # "closed" => p.state # "closed"
               /\ InstUnlisted(q) = InstUnlisted(p)
  <2>1. CASE Multi!clientOpen(i)
    <3>1. p.state = "listening" /\ Multi!CallPipe(i, p, Multi!PeerOpen(p))
      BY <2>1 DEF Multi!clientOpen
    <3>. QED BY <1>1, <3>1, InstOpenOK
  <2>2. CASE Multi!clientRead(i)
    <3>1. p.out # <<>> /\ Multi!CallPipe(i, p, Multi!PeerRead(p))
      BY <2>2 DEF Multi!clientRead
    <3>. QED BY <1>1, <3>1, InstPeerReadOK
  <2>3. CASE Multi!clientClose(i)
    <3>1. p.state = "connected" /\ Multi!CallPipe(i, p, Multi!PeerClose(p))
      BY <2>3 DEF Multi!clientClose
    <3>. QED BY <1>1, <3>1, InstPeerCloseOK
  <2>. QED BY <2>1, <2>2, <2>3
<1>4. /\ \A j : IssuersStay(j)
      /\ mWorkerPc' \in [Threads -> Place] /\ mInst' \in [Threads -> Multi!Inst]
      /\ mMsg' \in [Threads -> Nat]
      /\ mWritting' \in [Multi!Inst -> BOOLEAN]
  BY <1>1, <1>2, WorkersStay DEF Multi!workerVars, Multi!TypeOK, Place
<1>5. Started'
  BY <1>2 DEF MultiInv, Types, Started, Multi!workerVars, Multi!mainVars
<1>. HIDE DEF p
<1>6. UNCHANGED <<mMainPc, mIndex, mSent, mDispatched, mReadMsgsLists, mWriteMsgsLists, mClientSent>>
  BY <1>2 DEF Multi!mainVars, Multi!listVars
<1>. QED BY <1>2, <1>3, <1>4, <1>5, <1>6, PassiveKeeps DEF p

\* The one step that adds to what is to be received.
LEMMA ClientWriteKeeps ==
    ASSUME MultiInv, NEW i \in Multi!Inst, Multi!clientWrite(i)
    PROVE  MultiInv'
<1>. DEFINE p == mPipe[i]
            n == mClientSent[i]
            q == Multi!PeerWrite(p, n + 1)
<1>1. /\ Multi!TypeOK /\ InstPipeOK(p) /\ n \in Nat /\ Multi!PeerCanWrite(p)
      /\ Multi!CallPipe(i, p, q)
      /\ mClientSent' = [mClientSent EXCEPT ![i] = n + 1] /\ mClientSent \in [Multi!Inst -> Nat]
      /\ UNCHANGED <<Multi!mainVars, Multi!listVars, mWritting, Multi!workerVars, mConnects>>
  BY DEF MultiInv, Types, Multi!TypeOK, Multi!clientWrite
<1>2. InstPipeOK(q) /\ InstPassive(p, q) /\ InstUnlisted(q) = Append(InstUnlisted(p), n + 1)
  BY <1>1, InstPeerWriteOK
<1>. HIDE DEF p, q
<1>3. /\ mPipe' \in [Multi!Inst -> Multi!Pipe(Nat)] /\ \A j \in Multi!Inst : InstPipeOK(mPipe'[j])
      /\ \A j \in Multi!Inst : mPipe'[j].buffer # <<>> => mPipe'[j].read = "success"
      /\ mIocp' \in Seq(Multi!Packet)
      /\ mPipe'[i] = q /\ \A j \in Multi!Inst : j # i => mPipe'[j] = mPipe[j]
  BY <1>1, <1>2, CallTypes DEF MultiInv
<1>4. mClientSent' \in [Multi!Inst -> Nat]
  BY <1>1
<1>. HIDE DEF n
<1>5. Multi!TypeOK'
  BY <1>1, <1>3, <1>4 DEF Multi!TypeOK, Multi!mainVars, Multi!listVars, Multi!workerVars
<1>6. Types'
  BY <1>1, <1>3, <1>5 DEF MultiInv, Types, Started, Multi!mainVars, Multi!workerVars
<1>7. Tokens'
  <2>1. \A j : IssuersStay(j)
    BY <1>1, WorkersStay DEF Multi!workerVars
  <2>2. Forward
    <3>1. mIndex \in Nat
      BY <1>1 DEF Multi!TypeOK, Multi!Inst
    <3>. QED BY <1>1, <3>1 DEF Forward, Multi!mainVars
  <2>. QED BY <1>1, <1>2, <1>5, <2>1, <2>2, PassiveStep DEF MultiInv, p
<1>8. Conserved'
  <2>. SUFFICES ASSUME NEW j \in Multi!Inst, mPipe'[j].state # "closed"
                PROVE  Cat(Cat(mDispatched[j], mReadMsgsLists[j]), InstUnlisted(mPipe'[j]))
                           = [k \in 1 .. mClientSent'[j] |-> k]
    BY <1>1 DEF Conserved, Multi!mainVars, Multi!listVars
  <2>1. CASE j # i
    BY <1>1, <1>3, <2>1 DEF MultiInv, Conserved
  <2>2. CASE j = i
    <3>. DEFINE l == Cat(mDispatched[i], mReadMsgsLists[i])
                u == InstUnlisted(p)
                c == [k \in 1 .. n |-> k]
    <3>1. l \in Seq(Nat) /\ u \in Seq(Nat)
      BY <1>1, InstFields, CatTypeNat DEF Multi!TypeOK, InstUnlisted
    <3>2. p.state # "closed"
      BY <1>1 DEF Multi!PeerCanWrite
    <3>3. Cat(l, u) = c
      BY <3>2 DEF MultiInv, Conserved, p, n
    <3>. HIDE DEF l, u
    <3>4. Cat(l, Append(u, n + 1)) = Append(Cat(l, u), n + 1)
      BY <1>1, <3>1, CatAppendNat
    <3>5. Append(c, n + 1) = [k \in 1 .. n + 1 |-> k]
      BY <1>1
    <3>6. Cat(l, Append(u, n + 1)) = [k \in 1 .. n + 1 |-> k]
      BY <3>3, <3>4, <3>5
    <3>7. InstUnlisted(mPipe'[j]) = Append(u, n + 1) /\ mClientSent'[j] = n + 1
      BY <1>1, <1>2, <1>3, <2>2 DEF u
    <3>. QED BY <2>2, <3>6, <3>7 DEF l
  <2>. QED BY <2>1, <2>2
<1>. QED BY <1>6, <1>7, <1>8 DEF MultiInv

\* The worker that handles a connect or a read issues the next one.
LEMMA HolderIssues ==
    ASSUME MultiInv, NEW w \in Threads, mWorkerPc[w] \in Handed, Multi!goTo(w, "wait"),
           NEW i \in Multi!Inst, i = mInst[w],
           UNCHANGED <<Multi!mainVars, mWritting, mInst, mMsg, mWriteMsgsLists,
           Multi!clientVars>>,
           mReadMsgsLists' \in [Multi!Inst -> Seq(Nat)],
           NEW p, InstPipeOK(p), p.read = "idle",
           NEW q, InstPipeOK(q), Multi!CallPipe(i, p, q),
           \/ q.connect = p.connect /\ q.connect # "pending"
           \/ q.connect \in {"idle", "pending"} /\ q.read = "idle"
    PROVE  /\ Types' /\ Tokens'
           /\ mPipe'[i] = q /\ \A j \in Multi!Inst : j # i => mPipe'[j] = mPipe[j]
<1>1. /\ Multi!TypeOK /\ i \in Multi!Inst /\ Multi!Issuers(i) = {w}
      /\ Multi!IssuingPackets(i) = {}
      /\ mMainPc # "connect" /\ mMainPc # "returned"
  <2>1. mMainPc # "returned"
    BY DEF MultiInv, Types, Started, Handed
  <2>. QED BY <2>1, Holder DEF MultiInv, Types
<1>2. /\ mPipe' \in [Multi!Inst -> Multi!Pipe(Nat)] /\ \A j \in Multi!Inst : InstPipeOK(mPipe'[j])
      /\ \A j \in Multi!Inst : mPipe'[j].buffer # <<>> => mPipe'[j].read = "success"
      /\ mIocp' \in Seq(Multi!Packet)
      /\ mPipe'[i] = q /\ \A j \in Multi!Inst : j # i => mPipe'[j] = mPipe[j]
  BY <1>1, CallTypes DEF MultiInv
<1>3. /\ "wait" \notin Handed /\ mWorkerPc' \in [Threads -> Place]
  BY <1>1 DEF Multi!goTo, Multi!TypeOK, Handed, Place
<1>4. (\A j : j # i => IssuersStay(j)) /\ Multi!Issuers(i)' = {}
  <2>1. Multi!Issuers(mInst[w]) = {w}
    BY <1>1
  <2>2. (\A j : j # mInst[w] => IssuersStay(j)) /\ Multi!Issuers(mInst[w])' = {}
    BY <1>1, <1>3, <2>1, WorkerMoves
  <2>. QED BY <2>2
<1>5. Multi!TypeOK'
  BY <1>1, <1>2, <1>3 DEF Multi!TypeOK, Place, Multi!mainVars, Multi!clientVars
<1>6. Types'
  BY <1>1, <1>2, <1>5 DEF MultiInv, Types, Started, Multi!mainVars
<1>7. Forward /\ mMainPc' # "connect"
  BY <1>1 DEF Forward, Multi!mainVars
<1>8. Tokens'
  <2>1. Tokens /\ Multi!TypeOK /\ i \in Multi!Inst /\ Multi!IssuingPackets(i) = {}
    BY <1>1 DEF MultiInv
  <2>2. ~(mMainPc' = "connect" /\ mIndex' <= i) /\ Forward
    BY <1>7
  <2>3. (\A j \in Multi!Inst : j # i => IssuersStay(j)) /\ Multi!Issuers(i)' = {}
    BY <1>4
  <2>. QED BY <1>5, <2>1, <2>2, <2>3, IssuingStep
<1>. QED BY <1>2, <1>6, <1>8

\* A client has come: its first read.
LEMMA ConnectEventKeeps ==
    ASSUME MultiInv, NEW w \in Threads, Multi!handleConnectEvent(w)
    PROVE  MultiInv'
<1>1. /\ mWorkerPc[w] = "connect" /\ Multi!goTo(w, "wait")
      /\ UNCHANGED <<Multi!mainVars, Multi!listVars, mWritting, mInst, mMsg, Multi!clientVars>>
      /\ LET r == [mPipe[mInst[w]] EXCEPT !.connect = "idle"] IN Multi!CallPipe(mInst[w], r, Multi!ReadFile(r))
  BY DEF Multi!handleConnectEvent
<1>2. PICK i \in Multi!Inst : i = mInst[w]
  BY DEF MultiInv, Types, Multi!TypeOK
<1>3. /\ InstPipeOK(mPipe[i]) /\ mPipe[i].read = "idle"
      /\ mReadMsgsLists \in [Multi!Inst -> Seq(Nat)]
  BY <1>1, <1>2, Holder DEF MultiInv, Types, Multi!TypeOK, Handed
<1>. DEFINE p == [mPipe[i] EXCEPT !.connect = "idle"]
            q == Multi!ReadFile(p)
<1>4. /\ InstPipeOK(p) /\ p.connect = "idle" /\ p.read = "idle" /\ p.state = mPipe[i].state
      /\ InstUnlisted(p) = InstUnlisted(mPipe[i])
  BY <1>3, InstFields DEF InstPipeOK, Multi!Pipe, Multi!Operation, InstUnlisted
<1>5. Multi!CallPipe(i, p, q)
  BY <1>1, <1>2
<1>. HIDE DEF p
<1>6. /\ InstPipeOK(q) /\ q.connect = p.connect /\ q.state = p.state
      /\ InstUnlisted(q) = InstUnlisted(p)
  BY <1>4, InstReadFileOK
<1>. HIDE DEF q
<1>7. /\ mWorkerPc[w] \in Handed /\ mReadMsgsLists' \in [Multi!Inst -> Seq(Nat)]
      /\ UNCHANGED <<Multi!mainVars, mWritting, mInst, mMsg, mWriteMsgsLists, Multi!clientVars>>
      /\ UNCHANGED <<mDispatched, mReadMsgsLists, mClientSent>>
  BY <1>1, <1>3 DEF Handed, Multi!listVars, Multi!mainVars, Multi!clientVars
<1>8. /\ Types' /\ Tokens'
      /\ mPipe'[i] = q /\ \A j \in Multi!Inst : j # i => mPipe'[j] = mPipe[j]
  BY <1>1, <1>2, <1>4, <1>5, <1>6, <1>7, HolderIssues
<1>9. Conserved'
  BY <1>4, <1>6, <1>7, <1>8, CallConserves DEF MultiInv
<1>. QED BY <1>8, <1>9 DEF MultiInv

\* A failed read: disconnect, and connect for the next client.
LEMMA ReadErrorKeeps ==
    ASSUME MultiInv, NEW w \in Threads, Multi!handleReadError(w)
    PROVE  MultiInv'
<1>1. /\ mWorkerPc[w] = "read" /\ mPipe[mInst[w]].read = "error" /\ Multi!goTo(w, "wait")
      /\ UNCHANGED <<Multi!mainVars, Multi!listVars, mWritting, mInst, mMsg, Multi!clientVars>>
      /\ LET r == [mPipe[mInst[w]] EXCEPT !.read = "idle"]
         IN  Multi!CallPipe(mInst[w], r, Multi!ConnectNamedPipe(Multi!DisconnectNamedPipe(r)))
  BY DEF Multi!handleReadError
<1>2. PICK i \in Multi!Inst : i = mInst[w]
  BY DEF MultiInv, Types, Multi!TypeOK
<1>3. /\ InstPipeOK(mPipe[i]) /\ mPipe[i].read = "error"
      /\ mReadMsgsLists \in [Multi!Inst -> Seq(Nat)]
  BY <1>1, <1>2 DEF MultiInv, Types, Multi!TypeOK
<1>. DEFINE p == [mPipe[i] EXCEPT !.read = "idle"]
            d == Multi!DisconnectNamedPipe(p)
            q == Multi!ConnectNamedPipe(d)
<1>4. /\ InstPipeOK(p) /\ p.read = "idle" /\ p.in = <<>> /\ p.state = mPipe[i].state
      /\ InstUnlisted(p) = InstUnlisted(mPipe[i])
  BY <1>3, InstFields DEF InstPipeOK, Multi!Pipe, Multi!Operation, InstUnlisted
<1>5. Multi!CallPipe(i, p, q)
  BY <1>1, <1>2
<1>. HIDE DEF p
<1>6. /\ InstPipeOK(d) /\ d.read = "idle" /\ InstUnlisted(d) = InstUnlisted(p)
      /\ p.state = "closed" => d.state = "closed"
  BY <1>4, DisconnectOK
<1>. HIDE DEF d
<1>7. /\ InstPipeOK(q) /\ q.read = "idle" /\ q.connect \in {"idle", "pending"}
      /\ InstUnlisted(q) = InstUnlisted(d)
      /\ d.state = "closed" => q.state = "closed"
  BY <1>6, InstConnectOK
<1>. HIDE DEF q
<1>8. /\ mWorkerPc[w] \in Handed /\ mReadMsgsLists' \in [Multi!Inst -> Seq(Nat)]
      /\ UNCHANGED <<Multi!mainVars, mWritting, mInst, mMsg, mWriteMsgsLists, Multi!clientVars>>
      /\ UNCHANGED <<mDispatched, mReadMsgsLists, mClientSent>>
  BY <1>1, <1>3 DEF Handed, Multi!listVars, Multi!mainVars, Multi!clientVars
<1>9. /\ Types' /\ Tokens'
      /\ mPipe'[i] = q /\ \A j \in Multi!Inst : j # i => mPipe'[j] = mPipe[j]
  BY <1>1, <1>2, <1>4, <1>5, <1>7, <1>8, HolderIssues
<1>10. Conserved'
  <2>1. q.state # "closed"
        => mPipe[i].state # "closed" /\ InstUnlisted(q) = InstUnlisted(mPipe[i])
    BY <1>4, <1>6, <1>7
  <2>. QED BY <1>8, <1>9, <2>1, CallConserves DEF MultiInv
<1>. QED BY <1>9, <1>10 DEF MultiInv

\* What was read goes from the buffer to the list, and the next read is issued.
LEMMA ReadDoneKeeps ==
    ASSUME MultiInv, NEW w \in Threads, Multi!handleReadDone(w)
    PROVE  MultiInv'
<1>1. /\ mWorkerPc[w] = "read" /\ mPipe[mInst[w]].read = "success" /\ Multi!goTo(w, "wait")
      /\ UNCHANGED <<Multi!mainVars, mWriteMsgsLists, mWritting, mInst, mMsg, Multi!clientVars>>
      /\ mReadMsgsLists' = [mReadMsgsLists EXCEPT ![mInst[w]] = @ \o mPipe[mInst[w]].buffer]
      /\ LET r == [mPipe[mInst[w]] EXCEPT !.read = "idle", !.buffer = <<>>]
         IN  Multi!CallPipe(mInst[w], r, Multi!ReadFile(r))
  BY DEF Multi!handleReadDone
<1>2. PICK i \in Multi!Inst : i = mInst[w]
  BY DEF MultiInv, Types, Multi!TypeOK
<1>3. /\ InstPipeOK(mPipe[i]) /\ mPipe[i].connect # "pending"
      /\ mReadMsgsLists \in [Multi!Inst -> Seq(Nat)] /\ mDispatched \in [Multi!Inst -> Seq(Nat)]
  BY <1>1, <1>2, Holder DEF MultiInv, Types, Multi!TypeOK, Handed
<1>. DEFINE p == [mPipe[i] EXCEPT !.read = "idle", !.buffer = <<>>]
            q == Multi!ReadFile(p)
<1>4. /\ InstPipeOK(p) /\ p.connect # "pending" /\ p.read = "idle" /\ p.state = mPipe[i].state
      /\ p.in = mPipe[i].in /\ p.buffer = <<>>
  <2>0. /\ mPipe[i] \in Multi!Pipe(Nat) /\ <<>> \in Seq(Nat)
        /\ p = [mPipe[i] EXCEPT !.read = "idle", !.buffer = <<>>]
    BY <1>3 DEF InstPipeOK
  <2>. HIDE DEF p
  <2>1. /\ p \in Multi!Pipe(Nat)
        /\ p.connect = mPipe[i].connect /\ p.read = "idle" /\ p.state = mPipe[i].state
        /\ p.in = mPipe[i].in /\ p.buffer = <<>>
    BY <2>0 DEF Multi!Pipe, Multi!Operation
  <2>. QED BY <1>3, <2>1 DEF InstPipeOK
<1>5. Multi!CallPipe(i, p, q)
  BY <1>1, <1>2
<1>. HIDE DEF p
<1>6. /\ InstPipeOK(q) /\ q.connect = p.connect /\ q.state = p.state
      /\ InstUnlisted(q) = InstUnlisted(p)
  BY <1>4, InstReadFileOK
<1>. HIDE DEF q
<1>. DEFINE d == mDispatched[i]
            r == mReadMsgsLists[i]
            b == mPipe[i].buffer
            u == mPipe[i].in
<1>7. d \in Seq(Nat) /\ r \in Seq(Nat) /\ b \in Seq(Nat) /\ u \in Seq(Nat)
  BY <1>3, InstFields
<1>8. mReadMsgsLists' = [mReadMsgsLists EXCEPT ![i] = Cat(r, b)]
  BY <1>1, <1>2 DEF Cat
<1>9. mReadMsgsLists' \in [Multi!Inst -> Seq(Nat)]
  <2>1. Cat(r, b) \in Seq(Nat)
    BY <1>7, CatTypeNat
  <2>. QED BY <1>3, <1>8, <2>1
<1>10. /\ mWorkerPc[w] \in Handed
       /\ UNCHANGED <<Multi!mainVars, mWritting, mInst, mMsg, mWriteMsgsLists, Multi!clientVars>>
  BY <1>1 DEF Handed
<1>11. /\ Types' /\ Tokens'
       /\ mPipe'[i] = q /\ \A j \in Multi!Inst : j # i => mPipe'[j] = mPipe[j]
  BY <1>1, <1>2, <1>4, <1>5, <1>6, <1>9, <1>10, HolderIssues
<1>12. Conserved'
  <2>. SUFFICES ASSUME NEW j \in Multi!Inst, mPipe'[j].state # "closed"
                PROVE  Cat(Cat(mDispatched[j], mReadMsgsLists'[j]), InstUnlisted(mPipe'[j]))
                           = [k \in 1 .. mClientSent[j] |-> k]
    BY <1>10 DEF Conserved, Multi!mainVars, Multi!clientVars
  <2>1. CASE j # i
    BY <1>3, <1>8, <1>11, <2>1 DEF MultiInv, Conserved
  <2>2. CASE j = i
    <3>1. Cat(Cat(d, r), Cat(b, u)) = [k \in 1 .. mClientSent[i] |-> k]
      BY <1>4, <1>6, <1>11, <2>2 DEF MultiInv, Conserved, InstUnlisted
    <3>2. InstUnlisted(mPipe'[j]) = u
      BY <1>4, <1>6, <1>7, <1>11, <2>2, CatEmptyNat DEF InstUnlisted
    <3>3. mReadMsgsLists'[i] = Cat(r, b)
      BY <1>3, <1>8
    <3>. HIDE DEF d, r, b, u
    <3>4. Cat(Cat(d, Cat(r, b)), u) = Cat(Cat(d, r), Cat(b, u))
      BY <1>7, CatTypeNat, CatAssociativeNat
    <3>6. Cat(Cat(d, mReadMsgsLists'[i]), InstUnlisted(mPipe'[j])) = [k \in 1 .. mClientSent[i] |-> k]
      BY <3>1, <3>2, <3>3, <3>4
    <3>. QED BY <2>2, <3>6 DEF d
  <2>. QED BY <2>1, <2>2
<1>. QED BY <1>11, <1>12 DEF MultiInv

\* A worker takes the oldest packet and with it the right to issue.
LEMMA GetStatusKeeps ==
    ASSUME MultiInv, NEW w \in Threads, Multi!getStatus(w)
    PROVE  MultiInv'
<1>. DEFINE h == Head(mIocp)
            pc == IF h = Multi!Exit THEN "exited" ELSE h.type
<1>1. /\ mWorkerPc[w] = "wait" /\ mIocp # <<>> /\ mIocp' = Tail(mIocp) /\ Multi!goTo(w, pc)
      /\ mInst' = [mInst EXCEPT ![w] = h.inst]
      /\ UNCHANGED <<mPipe, Multi!mainVars, Multi!listVars, mWritting, mMsg, Multi!clientVars>>
  BY DEF Multi!getStatus
<1>2. /\ Multi!TypeOK /\ mIocp \in Seq(Multi!Packet) /\ mInst \in [Threads -> Multi!Inst]
      /\ mWorkerPc \in [Threads -> Place]
  BY DEF MultiInv, Types, Multi!TypeOK, Place
<1>3. h \in Multi!Packet
  BY <1>1, <1>2
<1>4. /\ h.inst \in Multi!Inst /\ pc \in Place
      /\ pc \in Handed <=> h.type \in Handed
      /\ h.type \in Handed => pc = h.type
      /\ pc # "none"
  <2>1. 0 \in Multi!Inst
    BY BoundsAssumption DEF Multi!Inst
  <2>2. CASE h = Multi!Exit
    BY <2>1, <2>2 DEF Multi!Exit, Place, Handed
  <2>3. CASE h # Multi!Exit
    BY <1>3, <2>3 DEF Multi!Packet, Place, Multi!Notice, Handed
  <2>. QED BY <2>2, <2>3
<1>. HIDE DEF pc
<1>5. /\ mWorkerPc'[w] = pc /\ mInst'[w] = h.inst
      /\ \A v \in Threads : v # w => mWorkerPc'[v] = mWorkerPc[v] /\ mInst'[v] = mInst[v]
      /\ mWorkerPc' \in [Threads -> Place] /\ mInst' \in [Threads -> Multi!Inst]
  BY <1>1, <1>2, <1>4 DEF Multi!goTo
<1>6. /\ mIocp' \in Seq(Multi!Packet)
      /\ Len(mIocp) \in Nat /\ Len(mIocp) >= 1 /\ Len(mIocp') = Len(mIocp) - 1
      /\ h = mIocp[1]
      /\ \A k \in 1 .. Len(mIocp) - 1 : mIocp'[k] = mIocp[k + 1]
  BY <1>1, <1>2
<1>. HIDE DEF h
<1>7. mMainPc # "connect" /\ mMainPc # "returned" /\ UNCHANGED mMainPc
  BY <1>1 DEF MultiInv, Types, Started, Multi!mainVars
<1>8. Multi!TypeOK'
  BY <1>1, <1>2, <1>5, <1>6 DEF Multi!TypeOK, Place, Multi!mainVars, Multi!listVars,
      Multi!clientVars
<1>9. Types'
  BY <1>1, <1>7, <1>8 DEF MultiInv, Types, Started, Multi!mainVars
<1>10. \A j : \A k :
          k \in Multi!IssuingPackets(j)' <=> k \in 1 .. Len(mIocp) - 1 /\ k + 1 \in Multi!IssuingPackets(j)
  <2>1. \A j : Multi!IssuingPackets(j)
                  = {k \in 1 .. Len(mIocp) : mIocp[k].inst = j /\ mIocp[k].type \in Handed}
    BY DEF Multi!IssuingPackets, Handed
  <2>2. \A j : Multi!IssuingPackets(j)'
                  = {k \in 1 .. Len(mIocp) - 1 : mIocp'[k].inst = j /\ mIocp'[k].type \in Handed}
    BY <1>6 DEF Multi!IssuingPackets, Handed
  <2>3. \A k \in 1 .. Len(mIocp) - 1 : k + 1 \in 1 .. Len(mIocp)
    BY <1>6
  <2>. QED BY <1>6, <2>1, <2>2, <2>3
<1>11. /\ \A j : 1 \in Multi!IssuingPackets(j) <=> h.inst = j /\ h.type \in Handed
       /\ \A j : Multi!IssuingPackets(j) \subseteq 1 .. Len(mIocp)
  BY <1>6 DEF Multi!IssuingPackets, Handed
<1>12. \A j : \A v :
          v \in Multi!Issuers(j)' <=> v \in Multi!Issuers(j) \/ (v = w /\ h.inst = j /\ h.type \in Handed)
  <2>1. \A j : Multi!Issuers(j) = {v \in Threads : mWorkerPc[v] \in Handed /\ mInst[v] = j}
    BY DEF Multi!Issuers, Handed
  <2>2. \A j : Multi!Issuers(j)' = {v \in Threads : mWorkerPc'[v] \in Handed /\ mInst'[v] = j}
    BY DEF Multi!Issuers, Handed
  <2>3. mWorkerPc[w] \notin Handed
    BY <1>1 DEF Handed
  <2>. QED BY <1>4, <1>5, <2>1, <2>2, <2>3
<1>13. ASSUME NEW j \in Multi!Inst
       PROVE  Untouched(j)' /\ OneHolder(j)' /\ ReadHeld(j)'
  <2>1. OneHolder(j) /\ ReadHeld(j) /\ mPipe'[j] = mPipe[j]
    BY <1>1 DEF MultiInv, Tokens
  <2>2. Untouched(j)'
    BY <1>7 DEF Untouched
  <2>3. CASE 1 \in Multi!IssuingPackets(j)
    <3>1. /\ Multi!Issuers(j) = {} /\ \A k \in Multi!IssuingPackets(j) : k = 1
          /\ mPipe[j].connect # "pending" /\ mPipe[j].read # "pending"
      BY <2>1, <2>3 DEF OneHolder
    <3>2. Multi!IssuingPackets(j)' = {}
      <4>1. \A k \in 1 .. Len(mIocp) - 1 : k + 1 # 1
        BY <1>6
      <4>. QED BY <1>10, <3>1, <4>1
    <3>3. \A v : v \in Multi!Issuers(j)' <=> v = w
      BY <1>11, <1>12, <2>3, <3>1
    <3>4. OneHolder(j)'
      BY <2>1, <3>1, <3>2, <3>3 DEF OneHolder
    <3>5. ReadHeld(j)'
      <4>. SUFFICES ASSUME Multi!Completed(mPipe[j].read)
                    PROVE  \E v \in Multi!Issuers(j)' : mWorkerPc'[v] = "read"
        BY <2>1 DEF ReadHeld
      <4>1. PICK k \in Multi!IssuingPackets(j) : mIocp[k].type = "read"
        BY <1>7, <2>1, <3>1 DEF ReadHeld
      <4>2. h.type = "read" /\ "read" \in Handed
        BY <1>6, <3>1, <4>1 DEF Handed
      <4>. QED BY <1>4, <1>5, <3>3, <4>2
    <3>. QED BY <2>2, <3>4, <3>5
  <2>4. CASE 1 \notin Multi!IssuingPackets(j)
    <3>1. Multi!Issuers(j)' = Multi!Issuers(j)
      <4>1. \A v : v \in Multi!Issuers(j)' <=> v \in Multi!Issuers(j)
        BY <1>11, <1>12, <2>4
      <4>. QED BY <4>1, Zenon
    <3>2. \A k, l \in Multi!IssuingPackets(j)' : k = l
      <4>. SUFFICES ASSUME NEW k \in Multi!IssuingPackets(j)', NEW l \in Multi!IssuingPackets(j)'
                    PROVE  k = l
        OBVIOUS
      <4>1. k \in 1 .. Len(mIocp) - 1 /\ l \in 1 .. Len(mIocp) - 1 /\ k + 1 = l + 1
        BY <1>10, <2>1 DEF OneHolder
      <4>. QED BY <1>6, <4>1
    <3>3. Multi!IssuingPackets(j) = {} => Multi!IssuingPackets(j)' = {}
      BY <1>10
    <3>4. OneHolder(j)'
      BY <2>1, <3>1, <3>2, <3>3 DEF OneHolder
    <3>5. ReadHeld(j)'
      <4>. SUFFICES ASSUME Multi!Completed(mPipe[j].read)
                    PROVE  \/ \E k \in Multi!IssuingPackets(j)' : mIocp'[k].type = "read"
                           \/ \E v \in Multi!Issuers(j)' : mWorkerPc'[v] = "read"
        BY <2>1 DEF ReadHeld
      <4>1. CASE \E k \in Multi!IssuingPackets(j) : mIocp[k].type = "read"
        <5>1. PICK k \in Multi!IssuingPackets(j) : mIocp[k].type = "read"
          BY <4>1
        <5>2. k \in 1 .. Len(mIocp) /\ k # 1
          BY <1>11, <2>4
        <5>3. k - 1 \in 1 .. Len(mIocp) - 1 /\ (k - 1) + 1 = k
          BY <1>6, <5>2
        <5>4. k - 1 \in Multi!IssuingPackets(j)' /\ mIocp'[k - 1] = mIocp[k]
          BY <1>6, <1>10, <5>3
        <5>. QED BY <5>1, <5>4
      <4>2. CASE \E v \in Multi!Issuers(j) : mWorkerPc[v] = "read"
        <5>1. PICK v \in Multi!Issuers(j) : mWorkerPc[v] = "read"
          BY <4>2
        <5>2. v \in Threads /\ v # w
          BY <1>1, <5>1 DEF Multi!Issuers
        <5>. QED BY <1>5, <3>1, <5>1, <5>2
      <4>. QED BY <1>7, <2>1, <4>1, <4>2 DEF ReadHeld
    <3>. QED BY <2>2, <3>4, <3>5
  <2>. QED BY <2>3, <2>4
<1>14. Conserved'
  BY <1>1 DEF MultiInv, Conserved, Multi!mainVars, Multi!listVars, Multi!clientVars
<1>. QED BY <1>9, <1>13, <1>14 DEF MultiInv, Tokens

-----------------------------------------------------------------------------
(***************************************************************************)
(* The specification                                                       *)
(***************************************************************************)
LEMMA MultiInit == Multi!Init => MultiInv
<1>. SUFFICES ASSUME Multi!Init PROVE MultiInv
  OBVIOUS
<1>1. INSTANCES \in Nat \ {0} /\ 0 \in Multi!Inst
  BY BoundsAssumption DEF Multi!Inst
<1>2. \A i \in Multi!Inst :
          /\ mPipe[i] = Multi!NewPipe("listening") /\ mDispatched[i] = <<>>
          /\ mReadMsgsLists[i] = <<>>
          /\ mClientSent[i] = 0
  BY DEF Multi!Init
<1>. DEFINE new == Multi!NewPipe("listening")
<1>3. InstPipeOK(new) /\ new.connect = "idle" /\ new.read = "idle" /\ InstUnlisted(new) = <<>>
  BY DEF Multi!NewPipe, InstPipeOK, Multi!Pipe, Multi!PipeStates, Multi!Operation,
      InstUnlisted, Cat
<1>. HIDE DEF new
<1>4. Multi!TypeOK
  <2>1. /\ mPipe \in [Multi!Inst -> Multi!Pipe(Nat)]
        /\ \A i \in Multi!Inst : mPipe[i].buffer # <<>> => mPipe[i].read = "success"
    BY <1>2, <1>3 DEF Multi!Init, InstPipeOK, new
  <2>2. mIocp \in Seq(Multi!Packet)
    BY DEF Multi!Init
  <2>. QED BY <1>1, <2>1, <2>2 DEF Multi!Init, Multi!TypeOK, Multi!Msg, Multi!NoMsg
<1>5. Types
  BY <1>2, <1>3, <1>4 DEF Multi!Init, Types, Started, new
<1>6. Tokens
  <2>1. \A i : Multi!Issuers(i) = {} /\ Multi!IssuingPackets(i) = {}
    BY DEF Multi!Init, Multi!Issuers, Multi!IssuingPackets
  <2>. QED BY <1>2, <1>3, <2>1 DEF Tokens, Untouched, OneHolder, ReadHeld, Multi!Completed, new
<1>7. Conserved
  <2>1. [k \in 1 .. 0 |-> k] = <<>> /\ Cat(Cat(<<>>, <<>>), <<>>) = <<>>
    BY DEF Cat
  <2>. QED BY <1>2, <1>3, <2>1 DEF Conserved, new
<1>. QED BY <1>5, <1>6, <1>7 DEF MultiInv

LEMMA MultiStep == MultiInv /\ [Multi!Next]_(Multi!vars) => MultiInv'
<1>. SUFFICES ASSUME MultiInv, [Multi!Next]_(Multi!vars) PROVE MultiInv'
  OBVIOUS
<1>1. CASE Multi!Main
  BY <1>1, ConnectKeeps, MainKeeps, DispatchKeeps, ReturnKeeps DEF Multi!Main
<1>2. ASSUME NEW w \in Threads, Multi!Work(w)
      PROVE  MultiInv'
  BY <1>2, GetStatusKeeps, ConnectEventKeeps, ReadDoneKeeps, ReadErrorKeeps, WorkKeeps,
      WriteKeeps
  DEF Multi!Work
<1>3. ASSUME NEW i \in Multi!Inst, Multi!Client(i)
      PROVE  MultiInv'
  BY <1>3, ClientKeeps, ClientWriteKeeps DEF Multi!Client
<1>4. CASE UNCHANGED Multi!vars
  <2>. USE <1>4 DEF Multi!vars, Multi!mainVars, Multi!listVars, Multi!workerVars,
      Multi!clientVars
  <2>1. Types'
    BY DEF MultiInv, Types, Multi!TypeOK, Started
  <2>2. \A j : IssuersStay(j) /\ PacketsStay(j)
    BY WorkersStay, NothingQueued
  <2>3. Forward
    <3>1. mIndex \in Nat
      BY DEF MultiInv, Types, Multi!TypeOK, Multi!Inst
    <3>. QED BY <3>1 DEF Forward
  <2>. QED BY <2>1, <2>2, <2>3, QuietKeeps
<1>. QED BY <1>1, <1>2, <1>3, <1>4 DEF Multi!Next

\* Every step of the other programs leaves this one's variables alone.
LEMMA MultiInvAlways == FairSpec => []MultiInv
<1>1. Init => MultiInv
  BY MultiInit DEF Init
<1>2. [Next]_vars => [Multi!Next]_(Multi!vars)
  BY DEF vars, multiVars, Next, InServer, InClient, InIocp, InMulti, Multi!vars,
         Multi!mainVars, Multi!listVars, Multi!workerVars, Multi!clientVars
<1>. QED BY <1>1, <1>2, MultiStep, PTL DEF FairSpec

LEMMA MultiSafe == MultiInv => Multi!Inv
<1>. SUFFICES ASSUME MultiInv PROVE Multi!InboundConserved
  BY DEF MultiInv, Types, Multi!Inv
<1>. SUFFICES ASSUME NEW i \in Multi!Inst, mPipe[i].state # "closed"
              PROVE  mDispatched[i] \o mReadMsgsLists[i] \o mPipe[i].buffer \o mPipe[i].in
                         = [k \in 1 .. mClientSent[i] |-> k]
  BY DEF Multi!InboundConserved
<1>. DEFINE d == mDispatched[i]
            r == mReadMsgsLists[i]
            b == mPipe[i].buffer
            u == mPipe[i].in
<1>1. d \in Seq(Nat) /\ r \in Seq(Nat) /\ b \in Seq(Nat) /\ u \in Seq(Nat)
  BY InstFields DEF MultiInv, Types, Multi!TypeOK
<1>2. Cat(Cat(d, r), Cat(b, u)) = [k \in 1 .. mClientSent[i] |-> k]
  BY DEF MultiInv, Conserved, InstUnlisted
<1>. HIDE DEF d, r, b, u
<1>3. Cat(Cat(Cat(d, r), b), u) = Cat(Cat(d, r), Cat(b, u))
  BY <1>1, CatTypeNat, CatAssociativeNat
<1>. QED BY <1>2, <1>3, Zenon DEF d, r, b, u, Cat

LEMMA OneIssuerHolds == MultiInv => Multi!OneIssuer
<1>. SUFFICES ASSUME MultiInv, NEW i \in Multi!Inst
              PROVE  Cardinality(Multi!Issuers(i)) + Cardinality(Multi!IssuingPackets(i))
                         + (IF mPipe[i].connect = "pending" THEN 1 ELSE 0)
                         + (IF mPipe[i].read = "pending" THEN 1 ELSE 0) <= 1
  BY SameCardinality DEF Multi!OneIssuer
<1>1. OneHolder(i)
  BY DEF MultiInv, Tokens
<1>2. ASSUME NEW S, \A x, y \in S : x = y
      PROVE  IF S = {} THEN Cardinality(S) = 0 ELSE Cardinality(S) = 1
  <2>1. CASE S = {}
    BY <2>1, FS_EmptySet
  <2>2. CASE S # {}
    <3>1. PICK x \in S : TRUE
      BY <2>2
    <3>2. S = {x}
      BY <1>2, <3>1
    <3>. QED BY <2>2, <3>2, FS_Singleton
  <2>. QED BY <2>1, <2>2
<1>3. /\ IF Multi!Issuers(i) = {} THEN Cardinality(Multi!Issuers(i)) = 0 ELSE Cardinality(Multi!Issuers(i)) = 1
      /\ IF Multi!IssuingPackets(i) = {}
         THEN Cardinality(Multi!IssuingPackets(i)) = 0 ELSE Cardinality(Multi!IssuingPackets(i)) = 1
  BY <1>1, <1>2 DEF OneHolder
<1>. QED BY <1>1, <1>3 DEF OneHolder

-----------------------------------------------------------------------------
(***************************************************************************)
(* The theorems                                                            *)
(***************************************************************************)
LEMMA InvAlways == FairSpec => []IInv
<1>1. IInv /\ [Next]_vars => IInv'
  BY NextKeeps, StutterKeeps
<1>. QED BY InitInv, <1>1, PTL DEF FairSpec

\* Type correctness of all four programs; what the other end wrote reaches main whole and
\* in order, whoever leaves and whenever, for the servers over any number of clients, for
\* the one with several instances whichever workers handle the reads, and for the client
\* over its one connection; and the server's worker never sleeps over a message that main
\* has queued.
THEOREM InvSafe == FairSpec => []Inv
<1>1. IInv /\ MultiInv => Inv
  BY ServerSafe, ClientSafe, IocpSafe, MultiSafe
     DEF IInv, Inv, TypeOK, InboundConserved, NoLostWakeup, Multi!Inv
<1>. QED BY <1>1, InvAlways, MultiInvAlways, PTL

\* However many instances and workers there are, no two workers issue the connect or the
\* read of one instance: the right to do so goes from the call to its packet and from the
\* packet to the worker that takes it (WorkerThread and its handlers, main.cpp).
THEOREM OneIssuerSafe == FairSpec => []OneIssuer
<1>1. MultiInv => OneIssuer
  BY OneIssuerHolds DEF OneIssuer
<1>. QED BY <1>1, MultiInvAlways, PTL

\* No OVERLAPPED of handleNotEmptyEvent, handleWriteEvent, handleReadEvent and
\* ConnectToNewClient is given to a call while it is still outstanding or its completion
\* not yet consumed, in any of the three programs.
THEOREM ReuseSafe == FairSpec => NoOverlappedReuse
<1>1. IInv /\ [Next]_vars => [ReuseStep]_vars
  BY NextKeeps
<1>2. FairSpec => [][ReuseStep]_vars
  BY <1>1, InvAlways, PTL DEF FairSpec
<1>. QED BY <1>2 DEF NoOverlappedReuse, ReuseStep

\* The server with a completion port never has two connects or reads under way or
\* completed and not yet handled, and it gives up the one it has only when the client or
\* the server itself has closed.
THEOREM CarriedSafe == FairSpec => ExactlyOneCarried
<1>1. IInv /\ [Next]_vars => [demo = "iocp" => Iocp!CarriedStep]_vars
  BY NextKeeps
<1>. QED BY <1>1, InvAlways, PTL DEF FairSpec, ExactlyOneCarried

\* The way from main's list over the worker and the pipe to the other end implements the
\* abstract channel, in all three programs: what breaks off is a suffix.
THEOREM OutboundSafe == FairSpec => OutboundIsChannel
<1>1. IInv /\ [Next]_vars => [Channel!ChanNext]_(Channel!chanVars)
  BY NextKeeps, StutterKeeps DEF ChannelStep
<1>2. Init => Channel!ChanInit
  BY InitInv
<1>. QED BY <1>1, <1>2, InvAlways, PTL DEF FairSpec, OutboundIsChannel, Channel!ChanSpec

\* What the abstract channel promises, of the channel implemented here.
ChannelProofs == INSTANCE MessageChannel_proofs WITH
    queue <- writeMsgsList, wire <- pipe.out

\* The other end reads the lines in the order in which main queued them, each at most once,
\* whatever connections are lost on the way.
THEOREM DeliveredInOrder == FairSpec => []Channel!InOrderAtMostOnce
<1>1. ChannelProofs!ChanSpec => []ChannelProofs!InOrderAtMostOnce
  BY ChannelProofs!ChannelOrder
<1>2. Channel!ChanInit => ChannelProofs!ChanInit
  BY DEF Channel!ChanInit, ChannelProofs!ChanInit
<1>3. [Channel!ChanNext]_(Channel!chanVars) => [ChannelProofs!ChanNext]_(ChannelProofs!chanVars)
  BY DEF Channel!ChanNext, Channel!chanVars, Channel!Send, Channel!Transmit,
         Channel!Refuse, Channel!Deliver, Channel!Lose, Channel!Abandon,
         ChannelProofs!ChanNext, ChannelProofs!chanVars, ChannelProofs!Send,
         ChannelProofs!Transmit, ChannelProofs!Refuse, ChannelProofs!Deliver,
         ChannelProofs!Lose, ChannelProofs!Abandon
<1>4. ChannelProofs!InOrderAtMostOnce => Channel!InOrderAtMostOnce
  BY DEF Channel!InOrderAtMostOnce, Channel!Increasing, ChannelProofs!InOrderAtMostOnce,
         ChannelProofs!Increasing
<1>. QED BY <1>1, <1>2, <1>3, <1>4, OutboundSafe, PTL
         DEF OutboundIsChannel, Channel!ChanSpec, ChannelProofs!ChanSpec
=============================================================================
