------------------------- MODULE MCNamedPipes_proofs -------------------------
(***************************************************************************)
(* Proofs about PipeInstServer, MultithreadedServer and TwoPipes, each for *)
(* every value of its constants, and from these about MCNamedPipes, where  *)
(* one of them runs.                                                       *)
(***************************************************************************)
EXTENDS MCNamedPipes, SequenceTheorems, TLAPS

-----------------------------------------------------------------------------
(***************************************************************************)
(* serveroverlapped: one instance                                          *)
(***************************************************************************)
InstPipes == Insts!Pipe(Insts!Request)

\* What the thread has to do with instance k: it has not created it, has not yet
\* connected it, is about to issue its next operation, or is somewhere else.
Role(k) ==
    CASE (pc = "create" /\ k >= i) \/ (pc = "connect" /\ k > i) -> "uncreated"
      [] pc = "connect" /\ k = i                                -> "created"
      [] pc = "operate" /\ k = i                                -> "operate"
      [] OTHER                                                  -> "served"

\* Before its first ConnectNamedPipe.
Begins(p, request, role) ==
    /\ role = "uncreated" => p.state = "closed" /\ p.in = <<>>
    /\ role # "uncreated" => p.state \in {"listening", "connected", "peerClosed"}
    /\ role \in {"uncreated", "created"} =>
          /\ p.connect = "idle" /\ p.read = "idle" /\ p.write = "idle"
          /\ p.buffer = <<>> /\ p.out = <<>> /\ request = <<>>

\* The operation the state is for is the only one under way, and a result that is
\* pending says whether the client is there.
Connects(p, state, request, role) ==
    role = "served" /\ state = "CONNECTING" =>
        /\ p.connect \in {"pending", "success"}
        /\ p.read = "idle" /\ p.write = "idle"
        /\ p.buffer = <<>> /\ request = <<>>

Reads(p, state, pending, request, role) ==
    role = "served" /\ state = "READING" =>
        /\ request = <<>> /\ p.write # "pending"
        /\ pending => /\ p.connect = "idle" /\ p.write = "idle" /\ p.read # "idle"
                      /\ p.read = "error" => p.state # "connected"
                      /\ p.read = "success" <=> p.buffer # <<>>
        /\ ~pending => p.read = "idle" /\ p.buffer = <<>>

Writes(p, state, pending, request, role) ==
    role = "served" /\ state = "WRITING" =>
        /\ p.buffer = <<>>
        /\ pending => /\ p.connect = "idle" /\ p.read = "idle" /\ request = <<>>
                      /\ p.write = "error" => p.state # "connected"
        /\ ~pending => request # <<>> /\ p.read # "pending" /\ p.write # "pending"

Operates(p, state, request, role) ==
    role = "operate" =>
        /\ p.buffer = <<>> /\ p.read # "pending" /\ p.write # "pending"
        /\ state = "READING" => request = <<>>
        /\ state = "WRITING" => request # <<>>

\* A read that is outstanding has found nothing, a write that is outstanding is the one
\* there is no room for; an instance that listens is empty.
Holds(p, request) ==
    /\ Len(p.buffer) <= 1 /\ Len(request) <= 1
    /\ Len(p.out) <= IF p.write = "pending" THEN Quota + 1 ELSE Quota
    /\ p.read = "pending" => p.in = <<>> /\ p.buffer = <<>>
    /\ p.connect = "pending" => p.state = "listening"
    /\ p.connect # "error"
    /\ p.state = "listening" =>
          /\ p.in = <<>> /\ p.buffer = <<>> /\ request = <<>>
          /\ p.read = "idle" /\ p.write = "idle"
    /\ p.state # "connected" => p.out = <<>>

InstOK(p, state, pending, request, role) ==
    /\ Begins(p, request, role)
    /\ Connects(p, state, request, role)
    /\ Reads(p, state, pending, request, role)
    /\ Writes(p, state, pending, request, role)
    /\ Operates(p, state, request, role)
    /\ Holds(p, request)

InstInv(k) == InstOK(pipe[k], dwState[k], fPendingIO[k], chRequest[k], Role(k))

InstsInv ==
    /\ Insts!TypeOK /\ \A k \in Insts!Inst : InstInv(k)
    /\ pc = "result" => fPendingIO[i] /\ Insts!Signaled(pipe[i])

-----------------------------------------------------------------------------
LEMMA ConcatAppend ==
    ASSUME NEW S, NEW s \in Seq(S), NEW u \in Seq(S), NEW x \in S
    PROVE  s \o Append(u, x) = Append(s \o u, x)
<1>1. <<x>> \in Seq(S) /\ Append(u, x) = u \o <<x>>
  BY AppendIsConcat
<1>2. s \o u \in Seq(S) /\ Append(s \o u, x) = (s \o u) \o <<x>>
  BY ConcatProperties, AppendIsConcat
<1>3. s \o (u \o <<x>>) = (s \o u) \o <<x>>
  BY <1>1, ConcatAssociative
<1>. QED BY <1>1, <1>2, <1>3, Zenon

LEMMA InstQuota == Quota \in Nat
BY ProgramsAssumption DEF Insts!InstAssumption

LEMMA LenOne ==
    ASSUME NEW S, NEW s \in Seq(S), s # <<>>, Len(s) <= 1
    PROVE  Len(s) = 1 /\ s = <<s[1]>> /\ s[1] \in S
<1>1. Len(s) \in Nat /\ Len(s) # 0
  OBVIOUS
<1>2. Len(s) = 1
  BY <1>1
<1>. QED BY <1>2

LEMMA InstAppend ==
    \A s, t \in Seq(Insts!Request) : \A x \in Insts!Request :
        s \o Append(t, x) = Append(s \o t, x)
<1>1. \A S : \A s, t \in Seq(S) : \A x \in S : s \o Append(t, x) = Append(s \o t, x)
  BY ConcatAppend
<1>. QED BY <1>1

\* The calls on an instance, field by field
LEMMA InstFields ==
    ASSUME NEW p \in InstPipes
    PROVE  /\ p.state \in Insts!PipeStates /\ p.in \in Seq(Insts!Request)
           /\ p.out \in Seq(Insts!Request) /\ p.connect \in Insts!Operation
           /\ p.read \in Insts!Operation /\ p.write \in Insts!Operation
           /\ p.buffer \in Seq(Insts!Request)
BY DEF InstPipes, Insts!Pipe

LEMMA InstRequests ==
    /\ \A s \in Seq(Insts!Request) : s # <<>> =>
          /\ Head(s) \in Insts!Request /\ Tail(s) \in Seq(Insts!Request)
          /\ <<Head(s)>> \in Seq(Insts!Request)
    /\ \A s \in Seq(Insts!Request), m \in Insts!Request :
          Append(s, m) \in Seq(Insts!Request) /\ <<m>> \in Seq(Insts!Request)
<1>1. ASSUME NEW S, NEW s \in Seq(S), NEW m \in S
      PROVE  /\ Append(s, m) \in Seq(S) /\ <<m>> \in Seq(S)
             /\ s # <<>> => Head(s) \in S /\ Tail(s) \in Seq(S)
  OBVIOUS
<1>. QED BY <1>1

LEMMA InstIs ==
    ASSUME NEW p \in InstPipes
    PROVE  p = [state |-> p.state, in |-> p.in, out |-> p.out, connect |-> p.connect,
                read |-> p.read, write |-> p.write, buffer |-> p.buffer]
BY DEF InstPipes, Insts!Pipe

LEMMA InstReset ==
    ASSUME NEW p \in InstPipes
    PROVE  LET r == Insts!Reset(p)
           IN  /\ r \in InstPipes
               /\ r = [state |-> p.state, in |-> p.in, out |-> p.out, connect |-> "idle",
                       read |-> "idle", write |-> "idle", buffer |-> p.buffer]
<1>1. Insts!Reset(p) = [state |-> p.state, in |-> p.in, out |-> p.out, connect |-> "idle",
                        read |-> "idle", write |-> "idle", buffer |-> p.buffer]
  <2>1. Insts!Reset(p) = [p EXCEPT !.connect = "idle", !.read = "idle", !.write = "idle"]
    BY DEF Insts!Reset
  <2>. QED BY <2>1, InstIs, ZenonT(60)
<1>. QED BY <1>1, InstFields DEF InstPipes, Insts!Pipe, Insts!Operation

LEMMA InstRead ==
    ASSUME NEW p \in InstPipes
    PROVE  LET q == Insts!ReadFile(Insts!Reset(p))
           IN  /\ q \in InstPipes
               /\ q.state = p.state /\ q.out = p.out
               /\ q.connect = "idle" /\ q.write = "idle"
               /\ p.in # <<>> => /\ q.in = Tail(p.in) /\ q.read = "success"
                                 /\ q.buffer = <<Head(p.in)>>
               /\ p.in = <<>> =>
                     /\ q.in = <<>> /\ q.buffer = p.buffer
                     /\ q.read = IF p.state = "connected" THEN "pending" ELSE "idle"
<1>. DEFINE r == Insts!Reset(p)
<1>1. r = [state |-> p.state, in |-> p.in, out |-> p.out, connect |-> "idle",
           read |-> "idle", write |-> "idle", buffer |-> p.buffer]
  BY InstReset
<1>. HIDE DEF r
<1>2. CASE p.in # <<>>
  <2>1. Insts!ReadFile(r) =
           [state |-> p.state, in |-> Tail(p.in), out |-> p.out, connect |-> "idle",
            read |-> "success", write |-> "idle", buffer |-> <<Head(p.in)>>]
    BY <1>1, <1>2 DEF Insts!ReadFile
  <2>. QED BY <1>2, <2>1, InstFields, InstRequests DEF r, InstPipes, Insts!Pipe, Insts!Operation
<1>3. CASE p.in = <<>>
  <2>1. Insts!ReadFile(r) =
           [state |-> p.state, in |-> <<>>, out |-> p.out, connect |-> "idle",
            read |-> IF p.state = "connected" THEN "pending" ELSE "idle", write |-> "idle",
            buffer |-> p.buffer]
    BY <1>1, <1>3 DEF Insts!ReadFile
  <2>. QED BY <1>3, <2>1, InstFields DEF r, InstPipes, Insts!Pipe, Insts!Operation
<1>. QED BY <1>2, <1>3

LEMMA InstWrite ==
    ASSUME NEW p \in InstPipes, NEW m \in Insts!Request
    PROVE  LET q == Insts!WriteFile(Insts!Reset(p), m)
           IN  /\ q \in InstPipes
               /\ q.state = p.state /\ q.in = p.in /\ q.buffer = p.buffer
               /\ q.connect = "idle" /\ q.read = "idle"
               /\ p.state = "connected" =>
                     /\ q.out = Append(p.out, m)
                     /\ q.write = IF Len(p.out) < Quota THEN "success" ELSE "pending"
               /\ p.state # "connected" => q.out = p.out /\ q.write = "idle"
<1>. DEFINE r == Insts!Reset(p)
<1>1. r = [state |-> p.state, in |-> p.in, out |-> p.out, connect |-> "idle",
           read |-> "idle", write |-> "idle", buffer |-> p.buffer]
  BY InstReset
<1>. HIDE DEF r
<1>2. CASE p.state = "connected"
  <2>1. Insts!WriteFile(r, m) =
           [state |-> p.state, in |-> p.in, out |-> Append(p.out, m), connect |-> "idle",
            read |-> "idle",
            write |-> IF Len(p.out) < Quota THEN "success" ELSE "pending",
            buffer |-> p.buffer]
    BY <1>1, <1>2 DEF Insts!WriteFile
  <2>. QED BY <1>2, <2>1, InstFields, InstRequests DEF r, InstPipes, Insts!Pipe, Insts!Operation
<1>3. CASE p.state # "connected"
  <2>1. Insts!WriteFile(r, m) = r
    BY <1>1, <1>3 DEF Insts!WriteFile
  <2>. QED BY <1>1, <1>3, <2>1, InstFields DEF r, InstPipes, Insts!Pipe, Insts!Operation
<1>. QED BY <1>2, <1>3

LEMMA InstConnect ==
    ASSUME NEW p \in InstPipes, p.state # "closed"
    PROVE  LET q == Insts!ConnectToNewClient(p)
               pending == Insts!ConnectResult(p) = "ERROR_IO_PENDING"
           IN  /\ q \in InstPipes
               /\ q.in = p.in /\ q.out = p.out /\ q.buffer = p.buffer
               /\ q.read = "idle" /\ q.write = "idle"
               /\ pending \in BOOLEAN
               /\ pending <=> p.state \in {"listening", "disconnected"}
               /\ pending => q.state = "listening" /\ q.connect = "pending"
               /\ ~pending => /\ q.state = p.state
                              /\ q.connect = IF p.state = "connected" THEN "success" ELSE "idle"
<1>. DEFINE r == Insts!Reset(p)
<1>1. /\ r \in InstPipes /\ r.state = p.state /\ r.in = p.in /\ r.out = p.out
      /\ r.buffer = p.buffer /\ r.connect = "idle" /\ r.read = "idle" /\ r.write = "idle"
  BY InstFields DEF InstPipes, Insts!Pipe, Insts!Reset, Insts!Operation
<1>. HIDE DEF r
<1>2. p.state \in {"listening", "connected", "peerClosed", "disconnected"}
  BY InstFields DEF Insts!PipeStates
<1>3. /\ Insts!ConnectToNewClient(p) =
            IF Insts!ConnectResult(p) = "ERROR_PIPE_CONNECTED"
            THEN [Insts!ConnectNamedPipe(r) EXCEPT !.connect = "success"]
            ELSE Insts!ConnectNamedPipe(r)
  BY DEF r, Insts!ConnectToNewClient
<1>4. CASE p.state \in {"listening", "disconnected"}
  <2>1. Insts!ConnectResult(p) = "ERROR_IO_PENDING" /\ Insts!ConnectResult(r) = "ERROR_IO_PENDING"
    BY <1>1, <1>4 DEF Insts!ConnectResult
  <2>. QED BY <1>1, <1>3, <1>4, <2>1, ZenonT(60)
           DEF InstPipes, Insts!Pipe, Insts!ConnectNamedPipe, Insts!Operation, Insts!PipeStates
<1>5. CASE p.state = "connected"
  <2>1. /\ Insts!ConnectResult(p) = "ERROR_PIPE_CONNECTED"
        /\ Insts!ConnectResult(r) = "ERROR_PIPE_CONNECTED"
    BY <1>1, <1>5 DEF Insts!ConnectResult
  <2>. QED BY <1>1, <1>3, <1>5, <2>1, ZenonT(60)
           DEF InstPipes, Insts!Pipe, Insts!ConnectNamedPipe, Insts!Operation, Insts!PipeStates
<1>6. CASE p.state = "peerClosed"
  <2>1. Insts!ConnectResult(p) = "ERROR_NO_DATA" /\ Insts!ConnectResult(r) = "ERROR_NO_DATA"
    BY <1>1, <1>6 DEF Insts!ConnectResult
  <2>. QED BY <1>1, <1>3, <1>6, <2>1
           DEF InstPipes, Insts!Pipe, Insts!ConnectNamedPipe, Insts!Operation, Insts!PipeStates
<1>. QED BY <1>2, <1>4, <1>5, <1>6

\* The instance that DisconnectAndReconnect connects again is empty.
LEMMA InstBreak ==
    ASSUME NEW p \in InstPipes, NEW s \in Insts!PipeStates
    PROVE  /\ Insts!Break(p, s) =
                 [state |-> s, in |-> <<>>, out |-> <<>>, connect |-> Insts!Broken(p.connect),
                  read |-> Insts!Broken(p.read), write |-> Insts!Broken(p.write),
                  buffer |-> p.buffer]
           /\ Insts!Broken(p.connect) \in Insts!Operation
           /\ Insts!Broken(p.read) \in Insts!Operation
           /\ Insts!Broken(p.write) \in Insts!Operation
<1>1. /\ Insts!Broken(p.connect) \in Insts!Operation /\ Insts!Broken(p.read) \in Insts!Operation
      /\ Insts!Broken(p.write) \in Insts!Operation
  BY InstFields DEF Insts!Broken, Insts!Operation
<1>2. Insts!Break(p, s) =
         [p EXCEPT !.state = s, !.in = <<>>, !.out = <<>>, !.connect = Insts!Broken(p.connect),
                   !.read = Insts!Broken(p.read), !.write = Insts!Broken(p.write)]
  BY DEF Insts!Break
<1>. QED BY <1>1, <1>2 DEF InstPipes, Insts!Pipe

\* The instance that DisconnectAndReconnect connects again is empty.
LEMMA InstDisconnect ==
    ASSUME NEW p \in InstPipes, p.state # "closed"
    PROVE  LET q == [Insts!DisconnectNamedPipe(p) EXCEPT !.buffer = <<>>]
           IN  /\ q \in InstPipes /\ q.state = "disconnected"
               /\ q.in = <<>> /\ q.out = <<>> /\ q.buffer = <<>>
<1>1. "disconnected" \in Insts!PipeStates
  BY DEF Insts!PipeStates
<1>2. Insts!DisconnectNamedPipe(p) =
         [state |-> "disconnected", in |-> <<>>, out |-> <<>>,
          connect |-> Insts!Broken(p.connect), read |-> Insts!Broken(p.read),
          write |-> Insts!Broken(p.write), buffer |-> p.buffer]
  BY <1>1, InstBreak DEF Insts!DisconnectNamedPipe
<1>3. [Insts!DisconnectNamedPipe(p) EXCEPT !.buffer = <<>>] =
         [state |-> "disconnected", in |-> <<>>, out |-> <<>>,
          connect |-> Insts!Broken(p.connect), read |-> Insts!Broken(p.read),
          write |-> Insts!Broken(p.write), buffer |-> <<>>]
  BY <1>2
<1>4. <<>> \in Seq(Insts!Request)
  OBVIOUS
<1>. QED BY <1>1, <1>3, <1>4, InstBreak DEF InstPipes, Insts!Pipe

LEMMA InstOpen ==
    ASSUME NEW p \in InstPipes
    PROVE  LET q == Insts!PeerOpen(p)
           IN  /\ q \in InstPipes /\ q.state = "connected"
               /\ q.in = p.in /\ q.out = p.out /\ q.buffer = p.buffer
               /\ q.read = p.read /\ q.write = p.write
               /\ q.connect = IF p.connect = "pending" THEN "success" ELSE p.connect
BY InstFields DEF InstPipes, Insts!Pipe, Insts!PeerOpen, Insts!Operation, Insts!PipeStates

LEMMA InstPeerWrite ==
    ASSUME NEW p \in InstPipes, NEW m \in Insts!Request
    PROVE  LET q == Insts!PeerWrite(p, m)
           IN  /\ q \in InstPipes /\ q.state = p.state /\ q.out = p.out
               /\ q.connect = p.connect /\ q.write = p.write
               /\ p.read = "pending" => q.read = "success" /\ q.buffer = <<m>> /\ q.in = p.in
               /\ p.read # "pending" => /\ q.read = p.read /\ q.buffer = p.buffer
                                        /\ q.in = Append(p.in, m)
<1>1. CASE p.read = "pending"
  <2>1. Insts!PeerWrite(p, m) =
           [state |-> p.state, in |-> p.in, out |-> p.out, connect |-> p.connect,
            read |-> "success", write |-> p.write, buffer |-> <<m>>]
    BY <1>1 DEF Insts!PeerWrite, InstPipes, Insts!Pipe
  <2>. QED BY <1>1, <2>1, InstFields, InstRequests DEF InstPipes, Insts!Pipe, Insts!Operation
<1>2. CASE p.read # "pending"
  <2>1. Insts!PeerWrite(p, m) =
           [state |-> p.state, in |-> Append(p.in, m), out |-> p.out, connect |-> p.connect,
            read |-> p.read, write |-> p.write, buffer |-> p.buffer]
    BY <1>2 DEF Insts!PeerWrite, InstPipes, Insts!Pipe
  <2>. QED BY <1>2, <2>1, InstFields, InstRequests DEF InstPipes, Insts!Pipe
<1>. QED BY <1>1, <1>2

LEMMA InstPeerRead ==
    ASSUME NEW p \in InstPipes, p.out # <<>>
    PROVE  LET q == Insts!PeerRead(p)
           IN  /\ q \in InstPipes /\ q.state = p.state /\ q.in = p.in /\ q.buffer = p.buffer
               /\ q.connect = p.connect /\ q.read = p.read
               /\ q.write = IF Len(p.out) > Quota THEN "success" ELSE p.write
               /\ q.out = Tail(p.out)
<1>. DEFINE w == IF Len(p.out) > Quota THEN "success" ELSE p.write
<1>1. Insts!PeerRead(p) =
         [state |-> p.state, in |-> p.in, out |-> Tail(p.out), connect |-> p.connect,
          read |-> p.read, write |-> w, buffer |-> p.buffer]
  <2>1. Insts!PeerRead(p) = [p EXCEPT !.out = Tail(p.out), !.write = w]
    BY DEF Insts!PeerRead
  <2>. HIDE DEF w
  <2>. QED BY <2>1, InstIs, ZenonT(60)
<1>2. w \in {"success", p.write}
  OBVIOUS
<1>3. w = IF Len(p.out) > Quota THEN "success" ELSE p.write
  OBVIOUS
<1>. HIDE DEF w
<1>. QED BY <1>2, <1>3, <1>1, InstFields, InstRequests DEF InstPipes, Insts!Pipe, Insts!Operation

LEMMA InstPeerClose ==
    ASSUME NEW p \in InstPipes, p.state = "connected"
    PROVE  LET q == Insts!PeerClose(p)
           IN  /\ q \in InstPipes /\ q.state = "peerClosed"
               /\ q.in = p.in /\ q.out = <<>> /\ q.buffer = p.buffer
               /\ q.connect = Insts!Broken(p.connect) /\ q.read = Insts!Broken(p.read)
               /\ q.write = Insts!Broken(p.write)
<1>1. "peerClosed" \in Insts!PipeStates
  BY DEF Insts!PipeStates
<1>2. Insts!PeerClose(p) =
         [state |-> "peerClosed", in |-> p.in, out |-> <<>>,
          connect |-> Insts!Broken(p.connect), read |-> Insts!Broken(p.read),
          write |-> Insts!Broken(p.write), buffer |-> p.buffer]
  BY <1>1, InstBreak DEF Insts!PeerClose
<1>. QED BY <1>1, <1>2, InstBreak, InstFields DEF InstPipes, Insts!Pipe

-----------------------------------------------------------------------------
\* What the steps of the thread and of the client do to an instance
LEMMA InstConnected ==
    ASSUME NEW p \in InstPipes, p.state \in {"listening", "connected", "peerClosed", "disconnected"},
           p.buffer = <<>>, p.state \in {"listening", "disconnected"} => p.in = <<>>,
           p.state # "connected" => p.out = <<>>, Len(p.out) <= Quota
    PROVE  LET q == Insts!ConnectToNewClient(p)
               pending == Insts!ConnectResult(p) = "ERROR_IO_PENDING"
           IN  /\ q \in InstPipes /\ q.in = p.in /\ q.out = p.out /\ q.buffer = <<>>
               /\ pending \in BOOLEAN
               /\ q.state = IF p.state = "disconnected" THEN "listening" ELSE p.state
               /\ InstOK(q, IF pending THEN "CONNECTING" ELSE "READING", pending, <<>>, "served")
<1>. DEFINE q == Insts!ConnectToNewClient(p)
            pending == Insts!ConnectResult(p) = "ERROR_IO_PENDING"
<1>1. /\ q \in InstPipes
      /\ q.in = p.in /\ q.out = p.out /\ q.buffer = p.buffer
      /\ q.read = "idle" /\ q.write = "idle"
      /\ pending \in BOOLEAN
      /\ pending <=> p.state \in {"listening", "disconnected"}
      /\ pending => q.state = "listening" /\ q.connect = "pending"
      /\ ~pending => /\ q.state = p.state
                     /\ q.connect = IF p.state = "connected" THEN "success" ELSE "idle"
  BY InstConnect
<1>. HIDE DEF q, pending
<1>2. Len(<<>>) = 0 /\ Quota \in Nat
  BY InstQuota
<1>3. InstOK(q, IF pending THEN "CONNECTING" ELSE "READING", pending, <<>>, "served")
  BY <1>1, <1>2 DEF InstOK, Begins, Connects, Reads, Writes, Operates, Holds
<1>. QED BY <1>1, <1>3 DEF q, pending

LEMMA InstReconnected ==
    ASSUME NEW p \in InstPipes, p.state # "closed"
    PROVE  LET r == [Insts!DisconnectNamedPipe(p) EXCEPT !.buffer = <<>>]
               q == Insts!ConnectToNewClient(r)
               pending == Insts!ConnectResult(r) = "ERROR_IO_PENDING"
           IN  /\ q \in InstPipes /\ q.in = <<>> /\ q.out = <<>> /\ q.buffer = <<>>
               /\ q.state = "listening" /\ pending \in BOOLEAN
               /\ InstOK(q, IF pending THEN "CONNECTING" ELSE "READING", pending, <<>>, "served")
<1>. DEFINE r == [Insts!DisconnectNamedPipe(p) EXCEPT !.buffer = <<>>]
<1>1. /\ r \in InstPipes /\ r.state = "disconnected"
      /\ r.in = <<>> /\ r.out = <<>> /\ r.buffer = <<>>
  BY InstDisconnect
<1>2. Len(<<>>) = 0 /\ 0 <= Quota
  BY InstQuota
<1>. HIDE DEF r
<1>. QED BY <1>1, <1>2, InstConnected DEF r

LEMMA InstGoesOn ==
    ASSUME NEW p \in InstPipes, NEW state, NEW request,
           InstOK(p, state, TRUE, request, "served"),
           \/ state = "CONNECTING" /\ p.connect = "success"
           \/ state = "WRITING" /\ p.write = "success"
    PROVE  request = <<>> /\ InstOK(p, "READING", TRUE, <<>>, "operate")
BY DEF InstOK, Begins, Connects, Reads, Writes, Operates, Holds

LEMMA InstHasRead ==
    ASSUME NEW p \in InstPipes, NEW request,
           InstOK(p, "READING", TRUE, request, "served"),
           p.read = "success", Insts!Accepted(p.buffer)
    PROVE  LET q == [p EXCEPT !.buffer = <<>>]
           IN  /\ q \in InstPipes /\ q.state = p.state /\ q.in = p.in /\ q.out = p.out
               /\ q.buffer = <<>> /\ Insts!Signaled(q)
               /\ request = <<>> /\ p.buffer = <<Head(p.buffer)>>
               /\ InstOK(q, "WRITING", TRUE, p.buffer, "operate")
<1>. DEFINE q == [p EXCEPT !.buffer = <<>>]
<1>1. q = [state |-> p.state, in |-> p.in, out |-> p.out, connect |-> p.connect,
           read |-> p.read, write |-> p.write, buffer |-> <<>>]
  BY InstIs
<1>2. q \in InstPipes
  <2>1. <<>> \in Seq(Insts!Request)
    OBVIOUS
  <2>. QED BY <1>1, <2>1, InstFields DEF InstPipes, Insts!Pipe
<1>3. p.buffer # <<>> /\ p.buffer \in Seq(Insts!Request) /\ Len(p.buffer) <= 1
  BY InstFields DEF Insts!Accepted, InstOK, Holds
<1>4. p.buffer = <<Head(p.buffer)>>
  BY <1>3
<1>. HIDE DEF q
<1>5. InstOK(q, "WRITING", TRUE, p.buffer, "operate") /\ request = <<>>
  BY <1>1, <1>3 DEF InstOK, Begins, Connects, Reads, Writes, Operates, Holds
<1>6. Insts!Signaled(q)
  BY <1>1 DEF Insts!Signaled, Insts!Completed
<1>. QED BY <1>1, <1>2, <1>4, <1>5, <1>6 DEF q

\* Where DisconnectAndReconnect is called for a result: the client has gone or has
\* sent an empty request.
LEMMA InstFails ==
    ASSUME NEW p \in InstPipes, NEW state \in {"CONNECTING", "READING", "WRITING"}, NEW request,
           InstOK(p, state, TRUE, request, "served"), Insts!Signaled(p),
           ~(state = "CONNECTING" /\ p.connect = "success"),
           ~(state = "READING" /\ p.read = "success" /\ Insts!Accepted(p.buffer)),
           ~(state = "WRITING" /\ p.write = "success")
    PROVE  p.state # "connected" \/ (p.buffer # <<>> /\ Head(p.buffer)[2] = 0)
<1>1. p.connect \in Insts!Operation /\ p.read \in Insts!Operation /\ p.write \in Insts!Operation
  BY InstFields
<1>. QED BY <1>1 DEF InstOK, Begins, Connects, Reads, Writes, Operates, Holds, Insts!Signaled,
              Insts!Completed, Insts!Accepted, Insts!Operation

\* The wait returns for an instance whose result is not pending.
LEMMA InstWoken ==
    ASSUME NEW p \in InstPipes, NEW state \in {"CONNECTING", "READING", "WRITING"}, NEW request,
           InstOK(p, state, FALSE, request, "served")
    PROVE  InstOK(p, state, FALSE, request, "operate")
BY DEF InstOK, Begins, Connects, Reads, Writes, Operates, Holds

LEMMA InstReadsOn ==
    ASSUME NEW p \in InstPipes, NEW pending \in BOOLEAN, NEW request,
           InstOK(p, "READING", pending, request, "operate")
    PROVE  LET q == Insts!ReadFile(Insts!Reset(p))
               r == [q EXCEPT !.buffer = <<>>]
           IN  /\ q \in InstPipes /\ q.state = p.state /\ q.out = p.out
               /\ p.buffer = <<>> /\ request = <<>>
               /\ q.read = "success" =>
                     /\ p.in # <<>> /\ q.in = Tail(p.in) /\ q.buffer = <<Head(p.in)>>
                     /\ r \in InstPipes /\ r.state = p.state /\ r.in = Tail(p.in)
                     /\ r.out = p.out /\ r.buffer = <<>>
                     /\ InstOK(r, "WRITING", FALSE, q.buffer, "served")
               /\ q.read = "pending" =>
                     /\ q.in = p.in /\ q.buffer = <<>>
                     /\ InstOK(q, "READING", TRUE, <<>>, "served")
               /\ q.read = "idle" => p.state # "connected"
<1>. DEFINE q == Insts!ReadFile(Insts!Reset(p))
            r == [q EXCEPT !.buffer = <<>>]
<1>1. /\ q \in InstPipes
      /\ q.state = p.state /\ q.out = p.out
      /\ q.connect = "idle" /\ q.write = "idle"
      /\ p.in # <<>> => q.in = Tail(p.in) /\ q.read = "success" /\ q.buffer = <<Head(p.in)>>
      /\ p.in = <<>> => /\ q.in = <<>> /\ q.buffer = p.buffer
                        /\ q.read = IF p.state = "connected" THEN "pending" ELSE "idle"
  BY InstRead
<1>. HIDE DEF q
<1>2. /\ p.buffer = <<>> /\ request = <<>>
      /\ p.state \in {"listening", "connected", "peerClosed"}
      /\ p.state = "listening" => p.in = <<>>
      /\ p.state # "connected" => p.out = <<>>
  BY DEF InstOK, Begins, Operates, Holds
<1>3. ASSUME q.read = "success"
      PROVE  /\ r \in InstPipes /\ r.state = p.state /\ r.in = Tail(p.in)
             /\ r.out = p.out /\ r.buffer = <<>> /\ p.in # <<>>
             /\ InstOK(r, "WRITING", FALSE, q.buffer, "served")
  <2>1. p.in # <<>>
    BY <1>1, <1>3
  <2>2. r = [state |-> q.state, in |-> q.in, out |-> q.out, connect |-> q.connect,
             read |-> q.read, write |-> q.write, buffer |-> <<>>]
    BY <1>1, InstIs
  <2>3. r \in InstPipes
    <3>1. <<>> \in Seq(Insts!Request)
      OBVIOUS
    <3>. QED BY <1>1, <2>2, <3>1, InstFields DEF InstPipes, Insts!Pipe
  <2>4. Len(q.buffer) = 1 /\ q.buffer # <<>> /\ Len(<<>>) = 0
    <3>1. q.buffer = <<Head(p.in)>>
      BY <1>1, <2>1
    <3>. QED BY <3>1
  <2>. HIDE DEF r
  <2>5. InstOK(r, "WRITING", FALSE, q.buffer, "served")
    BY <1>1, <1>2, <1>3, <2>1, <2>2, <2>4
       DEF InstOK, Begins, Connects, Reads, Writes, Operates, Holds
  <2>. QED BY <1>1, <2>1, <2>2, <2>3, <2>5
<1>4. ASSUME q.read = "pending"
      PROVE  /\ q.in = p.in /\ q.buffer = <<>>
             /\ InstOK(q, "READING", TRUE, <<>>, "served")
  <2>1. Len(<<>>) = 0
    OBVIOUS
  <2>. QED BY <1>1, <1>2, <1>4, <2>1
           DEF InstOK, Begins, Connects, Reads, Writes, Operates, Holds
<1>. HIDE DEF r
<1>. QED BY <1>1, <1>2, <1>3, <1>4 DEF q, r

LEMMA InstWritesOn ==
    ASSUME NEW p \in InstPipes, NEW pending \in BOOLEAN, NEW request \in Seq(Insts!Request),
           InstOK(p, "WRITING", pending, request, "operate")
    PROVE  LET q == Insts!WriteFile(Insts!Reset(p), request[1])
           IN  /\ request # <<>> /\ request = <<request[1]>> /\ request[1] \in Insts!Request
               /\ q \in InstPipes /\ q.state = p.state /\ q.in = p.in
               /\ p.buffer = <<>> /\ q.buffer = <<>>
               /\ q.write \in {"success", "pending"} =>
                     p.state = "connected" /\ q.out = Append(p.out, request[1])
               /\ q.write = "success" => InstOK(q, "READING", FALSE, <<>>, "served")
               /\ q.write = "pending" => InstOK(q, "WRITING", TRUE, <<>>, "served")
               /\ q.write = "idle" => p.state # "connected"
<1>1. /\ p.buffer = <<>> /\ request # <<>> /\ Len(request) <= 1
      /\ p.state \in {"listening", "connected", "peerClosed"}
      /\ p.state = "listening" => request = <<>>
      /\ p.state # "connected" => p.out = <<>>
  BY DEF InstOK, Begins, Operates, Holds
<1>2. request = <<request[1]>> /\ request[1] \in Insts!Request
  BY <1>1, LenOne
<1>. DEFINE q == Insts!WriteFile(Insts!Reset(p), request[1])
<1>3. /\ q \in InstPipes
      /\ q.state = p.state /\ q.in = p.in /\ q.buffer = p.buffer
      /\ q.connect = "idle" /\ q.read = "idle"
      /\ p.state = "connected" =>
            /\ q.out = Append(p.out, request[1])
            /\ q.write = IF Len(p.out) < Quota THEN "success" ELSE "pending"
      /\ p.state # "connected" => q.out = p.out /\ q.write = "idle"
  BY <1>2, InstWrite
<1>. HIDE DEF q
<1>4. /\ Len(<<>>) = 0 /\ Quota \in Nat /\ Len(p.out) \in Nat /\ Len(p.out) <= Quota
      /\ Len(Append(p.out, request[1])) = Len(p.out) + 1
  <2>1. \A s : \A S : s \in Seq(S) => \A x \in S : Len(Append(s, x)) = Len(s) + 1 /\ Len(s) \in Nat
    OBVIOUS
  <2>2. p.out \in Seq(Insts!Request)
    BY InstFields
  <2>3. Len(p.out) <= Quota
    BY DEF InstOK, Operates, Holds
  <2>. QED BY <1>2, <2>1, <2>2, <2>3, InstQuota
<1>5. /\ q.write = "success" => InstOK(q, "READING", FALSE, <<>>, "served")
      /\ q.write = "pending" => InstOK(q, "WRITING", TRUE, <<>>, "served")
  BY <1>1, <1>3, <1>4 DEF InstOK, Begins, Connects, Reads, Writes, Operates, Holds
<1>. QED BY <1>1, <1>2, <1>3, <1>5 DEF q

Roles == {"uncreated", "created", "operate", "served"}

LEMMA InstOpened ==
    ASSUME NEW p \in InstPipes, p.state = "listening", NEW state, NEW pending, NEW request,
           NEW role \in Roles, InstOK(p, state, pending, request, role)
    PROVE  /\ InstOK(Insts!PeerOpen(p), state, pending, request, role)
           /\ p.in = <<>> /\ p.buffer = <<>> /\ request = <<>> /\ p.out = <<>>
<1>. DEFINE q == Insts!PeerOpen(p)
<1>1. /\ q \in InstPipes /\ q.state = "connected"
      /\ q.in = p.in /\ q.out = p.out /\ q.buffer = p.buffer
      /\ q.read = p.read /\ q.write = p.write
      /\ q.connect = IF p.connect = "pending" THEN "success" ELSE p.connect
  BY InstOpen
<1>. HIDE DEF q
<1>2. InstOK(q, state, pending, request, role)
  BY <1>1 DEF InstOK, Begins, Connects, Reads, Writes, Operates, Holds, Roles
<1>. QED BY <1>2 DEF q, InstOK, Holds

LEMMA InstAsked ==
    ASSUME NEW p \in InstPipes, p.state = "connected", NEW m \in Insts!Request,
           NEW state \in {"CONNECTING", "READING", "WRITING"}, NEW pending \in BOOLEAN,
           NEW request, NEW role \in Roles, InstOK(p, state, pending, request, role)
    PROVE  LET q == Insts!PeerWrite(p, m)
           IN  /\ InstOK(q, state, pending, request, role)
               /\ q.buffer \o q.in = Append(p.buffer \o p.in, m)
<1>. DEFINE q == Insts!PeerWrite(p, m)
<1>1. /\ q \in InstPipes /\ q.state = p.state /\ q.out = p.out
      /\ q.connect = p.connect /\ q.write = p.write
      /\ p.read = "pending" => q.read = "success" /\ q.buffer = <<m>> /\ q.in = p.in
      /\ p.read # "pending" => /\ q.read = p.read /\ q.buffer = p.buffer
                               /\ q.in = Append(p.in, m)
  BY InstPeerWrite
<1>. HIDE DEF q
<1>2. Len(<<m>>) = 1 /\ <<m>> # <<>>
  OBVIOUS
<1>3. CASE p.read = "pending"
  <2>1. p.in = <<>> /\ p.buffer = <<>>
    BY <1>3 DEF InstOK, Holds
  <2>2. InstOK(q, state, pending, request, role)
    <3>1. q.buffer # <<>> /\ Len(q.buffer) = 1
      BY <1>1, <1>2, <1>3
    <3>2. /\ q.state = "connected" /\ q.out = p.out /\ q.connect = p.connect
          /\ q.write = p.write /\ q.read = "success" /\ q.in = p.in
      BY <1>1, <1>3
    <3>. QED BY <1>3, <2>1, <3>1, <3>2
             DEF InstOK, Begins, Connects, Reads, Writes, Operates, Holds, Roles
  <2>3. q.buffer \o q.in = Append(p.buffer \o p.in, m)
    <3>1. q.buffer = <<m>> /\ q.in = <<>>
      BY <1>1, <1>3, <2>1
    <3>2. <<m>> \o <<>> = Append(<<>> \o <<>>, m)
      OBVIOUS
    <3>. QED BY <2>1, <3>1, <3>2
  <2>. QED BY <2>2, <2>3 DEF q
<1>4. CASE p.read # "pending"
  <2>1. InstOK(q, state, pending, request, role)
    BY <1>1, <1>4 DEF InstOK, Begins, Connects, Reads, Writes, Operates, Holds, Roles
  <2>2. p.buffer \in Seq(Insts!Request) /\ p.in \in Seq(Insts!Request)
    BY InstFields
  <2>4. p.buffer \o Append(p.in, m) = Append(p.buffer \o p.in, m)
    BY <2>2, InstAppend
  <2>. QED BY <1>1, <1>4, <2>1, <2>4 DEF q
<1>. QED BY <1>3, <1>4

LEMMA InstAnswered ==
    ASSUME NEW p \in InstPipes, p.out # <<>>,
           NEW state \in {"CONNECTING", "READING", "WRITING"}, NEW pending \in BOOLEAN,
           NEW request, NEW role \in Roles, InstOK(p, state, pending, request, role)
    PROVE  InstOK(Insts!PeerRead(p), state, pending, request, role)
<1>. DEFINE q == Insts!PeerRead(p)
<1>1. /\ q \in InstPipes /\ q.state = p.state /\ q.in = p.in /\ q.buffer = p.buffer
      /\ q.connect = p.connect /\ q.read = p.read
      /\ q.write = IF Len(p.out) > Quota THEN "success" ELSE p.write
      /\ q.out = Tail(p.out)
  BY InstPeerRead
<1>. HIDE DEF q
<1>2. Len(q.out) \in Nat /\ Len(p.out) \in Nat /\ Len(q.out) = Len(p.out) - 1 /\ Quota \in Nat
  <2>1. \A s : \A S : s \in Seq(S) /\ s # <<>> =>
           Len(Tail(s)) = Len(s) - 1 /\ Len(s) \in Nat /\ Len(Tail(s)) \in Nat
    OBVIOUS
  <2>2. p.out \in Seq(Insts!Request)
    BY InstFields
  <2>. QED BY <1>1, <2>1, <2>2, InstQuota
<1>. QED BY <1>1, <1>2 DEF q, InstOK, Begins, Connects, Reads, Writes, Operates, Holds, Roles

LEMMA InstDeserted ==
    ASSUME NEW p \in InstPipes, p.state = "connected",
           NEW state \in {"CONNECTING", "READING", "WRITING"}, NEW pending \in BOOLEAN,
           NEW request, NEW role \in Roles, InstOK(p, state, pending, request, role)
    PROVE  InstOK(Insts!PeerClose(p), state, pending, request, role)
<1>. DEFINE q == Insts!PeerClose(p)
<1>1. /\ q \in InstPipes /\ q.state = "peerClosed"
      /\ q.in = p.in /\ q.out = <<>> /\ q.buffer = p.buffer
      /\ q.connect = Insts!Broken(p.connect) /\ q.read = Insts!Broken(p.read)
      /\ q.write = Insts!Broken(p.write)
  BY InstPeerClose
<1>. HIDE DEF q
<1>2. Len(<<>>) = 0 /\ Quota \in Nat
  BY InstQuota
<1>. QED BY <1>1, <1>2 DEF q, InstOK, Begins, Connects, Reads, Writes, Operates, Holds, Roles,
              Insts!Broken

-----------------------------------------------------------------------------
\* The thread and all clients

InstStates == {"CONNECTING", "READING", "WRITING"}

\* What the clients of instance k see of a step.
InstStep(k) == [Reply(k)!RRNext]_(Reply(k)!rrVars)

\* An instance that a step leaves alone.
LEMMA InstKept ==
    ASSUME InstsInv, NEW k \in Insts!Inst, Role(k)' = Role(k), pipe'[k] = pipe[k],
           dwState'[k] = dwState[k], fPendingIO'[k] = fPendingIO[k], chRequest'[k] = chRequest[k],
           connects'[k] = connects[k], asked'[k] = asked[k], answers'[k] = answers[k]
    PROVE  InstInv(k)' /\ InstStep(k)
<1>1. InstInv(k)'
  BY DEF InstsInv, InstInv
<1>2. UNCHANGED Reply(k)!rrVars
  BY DEF Reply!rrVars, Insts!Inbox
<1>. QED BY <1>1, <1>2 DEF InstStep

LEMMA InstTypes ==
    ASSUME Insts!TypeOK, NEW k \in Insts!Inst
    PROVE  /\ pipe[k] \in InstPipes /\ dwState[k] \in InstStates /\ fPendingIO[k] \in BOOLEAN
           /\ chRequest[k] \in Seq(Insts!Request) /\ connects[k] \in Nat /\ asked[k] \in Nat
           /\ answers[k] \in Seq(Insts!Request)
           /\ k \in Nat /\ 0 <= k /\ k < INSTANCES /\ INSTANCES \in Nat
           /\ Role(k) \in Roles
<1>1. INSTANCES \in Nat
  BY ProgramsAssumption DEF Insts!InstAssumption
<1>2. Role(k) \in Roles
  BY DEF Role, Roles
<1>. QED BY <1>1, <1>2 DEF Insts!TypeOK, InstPipes, InstStates, Insts!Inst

\* The thread leaves instance k in a state of its own.
LEMMA InstLeft ==
    ASSUME InstsInv, NEW k \in Insts!Inst, k = i,
           NEW p \in InstPipes, NEW pending \in BOOLEAN, NEW state \in InstStates,
           NEW request \in Seq(Insts!Request), Insts!Leave(p, pending, state, request),
           pc' \in {"create", "connect", "wait", "operate"}, i' \in Insts!Inst,
           \A j \in Insts!Inst : j # k => Role(j)' = Role(j),
           InstOK(p, state, pending, request, Role(k)'),
           InstStep(k)
    PROVE  InstsInv' /\ \A j \in Insts!Inst : InstStep(j)
<1>1. /\ pipe' = [pipe EXCEPT ![k] = p] /\ fPendingIO' = [fPendingIO EXCEPT ![k] = pending]
      /\ dwState' = [dwState EXCEPT ![k] = state]
      /\ chRequest' = [chRequest EXCEPT ![k] = request]
      /\ connects' = connects /\ asked' = asked /\ answers' = answers
  BY DEF Insts!Leave, Insts!clientVars
<1>2. /\ pipe \in [Insts!Inst -> InstPipes] /\ dwState \in [Insts!Inst -> InstStates]
      /\ fPendingIO \in [Insts!Inst -> BOOLEAN]
      /\ chRequest \in [Insts!Inst -> Seq(Insts!Request)]
  BY DEF InstsInv, Insts!TypeOK, InstPipes, InstStates
<1>3. /\ pipe' \in [Insts!Inst -> InstPipes] /\ dwState' \in [Insts!Inst -> InstStates]
      /\ fPendingIO' \in [Insts!Inst -> BOOLEAN]
      /\ chRequest' \in [Insts!Inst -> Seq(Insts!Request)]
  BY <1>1, <1>2
<1>4. Insts!TypeOK'
  BY <1>1, <1>3 DEF InstsInv, Insts!TypeOK, InstPipes, InstStates
<1>5. /\ pipe'[k] = p /\ dwState'[k] = state /\ fPendingIO'[k] = pending
      /\ chRequest'[k] = request
  BY <1>1, <1>2
<1>6. InstInv(k)'
  BY <1>5 DEF InstInv
<1>7. ASSUME NEW j \in Insts!Inst, j # k
      PROVE  InstInv(j)' /\ InstStep(j)
  BY <1>1, <1>2, <1>7, InstKept
<1>. QED BY <1>4, <1>6, <1>7 DEF InstsInv

\* A client changes instance k.
LEMMA InstClient ==
    ASSUME InstsInv, NEW k \in Insts!Inst, NEW p \in InstPipes,
           pipe' = [pipe EXCEPT ![k] = p], UNCHANGED <<dwState, fPendingIO, chRequest, pc, i>>,
           connects' \in [Insts!Inst -> Nat], asked' \in [Insts!Inst -> Nat],
           answers' \in [Insts!Inst -> Seq(Insts!Request)],
           \A j \in Insts!Inst \ {k} :
              connects'[j] = connects[j] /\ asked'[j] = asked[j] /\ answers'[j] = answers[j],
           InstOK(p, dwState[k], fPendingIO[k], chRequest[k], Role(k)),
           Insts!Signaled(pipe[k]) => Insts!Signaled(p),
           InstStep(k)
    PROVE  InstsInv' /\ \A j \in Insts!Inst : InstStep(j)
<1>1. pipe \in [Insts!Inst -> InstPipes]
  BY DEF InstsInv, Insts!TypeOK, InstPipes
<1>2. pipe' \in [Insts!Inst -> InstPipes] /\ pipe'[k] = p
  BY <1>1
<1>3. Insts!TypeOK'
  BY <1>2 DEF InstsInv, Insts!TypeOK, InstPipes
<1>4. \A j \in Insts!Inst : Role(j)' = Role(j)
  BY DEF Role
<1>5. InstInv(k)'
  BY <1>2, <1>4 DEF InstInv
<1>6. ASSUME NEW j \in Insts!Inst, j # k
      PROVE  InstInv(j)' /\ InstStep(j)
  BY <1>1, <1>4, <1>6, InstKept
<1>7. ASSUME pc' = "result" PROVE fPendingIO'[i'] /\ Insts!Signaled(pipe[i])'
  <2>1. fPendingIO[i] /\ Insts!Signaled(pipe[i]) /\ i \in Insts!Inst
    BY <1>7 DEF InstsInv, Insts!TypeOK
  <2>2. CASE i = k
    BY <1>2, <2>1, <2>2 DEF Insts!Signaled
  <2>3. CASE i # k
    BY <1>1, <2>1, <2>3 DEF Insts!Signaled
  <2>. QED BY <2>1, <2>2, <2>3
<1>. QED BY <1>3, <1>5, <1>6, <1>7 DEF InstsInv

LEMMA InstConcats ==
    \A s \in Seq(Insts!Request) :
       /\ <<>> \o s = s
       /\ \A t \in Seq(Insts!Request) : t # <<>> =>
             t \o s # <<>> /\ Head(t \o s) = Head(t)
       /\ \A x \in Insts!Request : Tail(<<x>> \o s) = s
<1>1. \A S : \A s \in Seq(S) :
         /\ <<>> \o s = s
         /\ \A t \in Seq(S) : t # <<>> => t \o s # <<>> /\ Head(t \o s) = Head(t)
  OBVIOUS
<1>2. \A S : \A s \in Seq(S) : \A x \in S : Tail(<<x>> \o s) = s
  OBVIOUS
<1>. QED BY <1>1, <1>2

\* The server hangs up on the client of instance k.
LEMMA InstHangsUp ==
    ASSUME Insts!TypeOK, NEW k \in Insts!Inst,
           pipe[k].state # "connected" \/ (Insts!Inbox(k) # <<>> /\ Head(Insts!Inbox(k))[2] = 0),
           pipe'[k].state = "listening", pipe'[k].in = <<>>, pipe'[k].buffer = <<>>,
           pipe'[k].out = <<>>, chRequest'[k] = <<>>, UNCHANGED Insts!clientVars
    PROVE  InstStep(k)
<1>1. Insts!Inbox(k)' = <<>>
  <2>1. <<>> \o <<>> = <<>>
    OBVIOUS
  <2>. QED BY <2>1 DEF Insts!Inbox
<1>2. Reply(k)!HangUp
  BY <1>1 DEF Reply!HangUp, Insts!clientVars
<1>. QED BY <1>2 DEF InstStep, Reply!RRNext

\* It takes the next request of that client.
LEMMA InstTakes ==
    ASSUME Insts!TypeOK, NEW k \in Insts!Inst, NEW m \in Insts!Request, m[2] # 0,
           Insts!Inbox(k) # <<>>, Head(Insts!Inbox(k)) = m,
           chRequest[k] = <<>>, chRequest'[k] = <<m>>,
           pipe'[k].buffer \o pipe'[k].in = Tail(Insts!Inbox(k)),
           pipe'[k].state = pipe[k].state, pipe'[k].out = pipe[k].out,
           UNCHANGED Insts!clientVars
    PROVE  InstStep(k)
<1>1. Reply(k)!Take
  BY DEF Reply!Take, Insts!clientVars, Insts!Inbox
<1>. QED BY <1>1 DEF InstStep, Reply!RRNext

\* It does nothing that the client sees.
LEMMA InstIdles ==
    ASSUME NEW k \in Insts!Inst, chRequest'[k] = chRequest[k],
           Insts!Inbox(k)' = Insts!Inbox(k),
           (pipe'[k].state = "connected") <=> (pipe[k].state = "connected"),
           pipe'[k].out = pipe[k].out, UNCHANGED Insts!clientVars
    PROVE  InstStep(k)
<1>1. (pipe'[k].state = "connected") = (pipe[k].state = "connected")
  OBVIOUS
<1>2. UNCHANGED Reply(k)!rrVars
  BY <1>1 DEF Reply!rrVars, Insts!clientVars
<1>. QED BY <1>2 DEF InstStep

LEMMA InstCreate ==
    ASSUME InstsInv, Insts!createInstance
    PROVE  InstsInv' /\ \A j \in Insts!Inst : InstStep(j)
<1>0. PICK k \in Insts!Inst : k = i
  BY DEF InstsInv, Insts!TypeOK
<1>. DEFINE p == Insts!NewPipe("listening")
<1>1. /\ p \in InstPipes /\ p.state = "listening" /\ p.in = <<>> /\ p.out = <<>>
      /\ p.buffer = <<>> /\ p.connect = "idle" /\ p.read = "idle" /\ p.write = "idle"
  <2>1. <<>> \in Seq(Insts!Request)
    OBVIOUS
  <2>. QED BY <2>1 DEF InstPipes, Insts!Pipe, Insts!NewPipe, Insts!Operation, Insts!PipeStates
<1>2. /\ pipe \in [Insts!Inst -> InstPipes] /\ pc = "create" /\ pc' = "connect"
      /\ pipe' = [pipe EXCEPT ![k] = p]
      /\ UNCHANGED <<dwState, fPendingIO, chRequest, i, connects, asked, answers>>
  BY <1>0 DEF InstsInv, Insts!TypeOK, InstPipes, Insts!createInstance, Insts!clientVars
<1>. HIDE DEF p
<1>3. pipe' \in [Insts!Inst -> InstPipes] /\ pipe'[k] = p
  BY <1>1, <1>2
<1>4. Insts!TypeOK'
  BY <1>2, <1>3 DEF InstsInv, Insts!TypeOK, InstPipes
<1>5. Role(k) = "uncreated" /\ Role(k)' = "created"
  BY <1>0, <1>2, InstTypes DEF InstsInv, Role
<1>6. InstInv(k)' /\ InstStep(k)
  <2>1. InstOK(pipe[k], dwState[k], fPendingIO[k], chRequest[k], "uncreated")
    BY <1>5 DEF InstsInv, InstInv
  <2>2. /\ pipe[k].state = "closed" /\ pipe[k].in = <<>> /\ pipe[k].buffer = <<>>
        /\ pipe[k].out = <<>> /\ chRequest[k] = <<>>
    BY <2>1 DEF InstOK, Begins
  <2>3. Len(<<>>) = 0 /\ Quota \in Nat
    BY InstQuota
  <2>4. InstOK(p, dwState[k], fPendingIO[k], chRequest[k], "created")
    BY <1>1, <2>2, <2>3 DEF InstOK, Begins, Connects, Reads, Writes, Operates, Holds
  <2>5. InstInv(k)'
    BY <1>2, <1>3, <1>5, <2>4 DEF InstInv
  <2>6. InstStep(k)
    BY <1>1, <1>2, <1>3, <2>2, InstIdles DEF Insts!Inbox, Insts!clientVars
  <2>. QED BY <2>5, <2>6
<1>7. ASSUME NEW j \in Insts!Inst, j # k
      PROVE  InstInv(j)' /\ InstStep(j)
  <2>1. Role(j)' = Role(j)
    BY <1>0, <1>2, <1>7, InstTypes DEF InstsInv, Role
  <2>. QED BY <1>2, <1>7, <2>1, InstKept
<1>. QED BY <1>2, <1>4, <1>6, <1>7 DEF InstsInv

\* The call is made on an instance as p describes it.
LEMMA InstConnectCall ==
    ASSUME InstsInv, NEW k \in Insts!Inst, k = i, NEW p, Insts!Connect(p),
           LET q == Insts!ConnectToNewClient(p)
               pending == Insts!ConnectResult(p) = "ERROR_IO_PENDING"
           IN  /\ q \in InstPipes /\ pending \in BOOLEAN
               /\ InstOK(q, IF pending THEN "CONNECTING" ELSE "READING", pending, <<>>, "served"),
           pc' \in {"create", "connect", "wait", "operate"}, i' \in Insts!Inst,
           \A j \in Insts!Inst : j # k => Role(j)' = Role(j),
           Role(k)' = "served", InstStep(k)
    PROVE  InstsInv' /\ \A j \in Insts!Inst : InstStep(j)
<1>. DEFINE q == Insts!ConnectToNewClient(p)
            pending == Insts!ConnectResult(p) = "ERROR_IO_PENDING"
            state == IF pending THEN "CONNECTING" ELSE "READING"
<1>1. /\ q \in InstPipes /\ pending \in BOOLEAN /\ state \in InstStates
      /\ InstOK(q, state, pending, <<>>, Role(k)') /\ Insts!Leave(q, pending, state, <<>>)
      /\ <<>> \in Seq(Insts!Request)
  BY DEF Insts!Connect, InstStates
<1>. HIDE DEF q, pending, state
<1>. QED BY <1>1, InstLeft

LEMMA InstConnectFirst ==
    ASSUME InstsInv, Insts!connectInstance
    PROVE  InstsInv' /\ \A j \in Insts!Inst : InstStep(j)
<1>0. PICK k \in Insts!Inst : k = i
  BY DEF InstsInv, Insts!TypeOK
<1>1. /\ pc = "connect" /\ Insts!Connect(pipe[k])
      /\ (i + 1 < INSTANCES /\ pc' = "create" /\ i' = i + 1)
            \/ (~(i + 1 < INSTANCES) /\ pc' = "wait" /\ i' = i)
  BY <1>0 DEF Insts!connectInstance
<1>2. /\ pipe \in [Insts!Inst -> InstPipes] /\ Insts!TypeOK
      /\ k \in Nat /\ INSTANCES \in Nat /\ k < INSTANCES /\ Role(k) = "created"
  BY <1>0, <1>1, InstTypes DEF InstsInv, Insts!TypeOK, InstPipes, Role
<1>3. i' \in Insts!Inst
  BY <1>0, <1>1, <1>2 DEF Insts!Inst
<1>4. Role(k)' = "served"
  BY <1>0, <1>1, <1>2 DEF Role
<1>5. ASSUME NEW j \in Insts!Inst, j # k PROVE Role(j)' = Role(j)
  BY <1>0, <1>1, <1>2, <1>5, InstTypes DEF Role
<1>6. InstOK(pipe[k], dwState[k], fPendingIO[k], chRequest[k], "created")
  BY <1>2 DEF InstsInv, InstInv
<1>7. /\ pipe[k].state \in {"listening", "connected", "peerClosed"}
      /\ pipe[k].buffer = <<>> /\ chRequest[k] = <<>> /\ pipe[k].out = <<>>
      /\ pipe[k].state = "listening" => pipe[k].in = <<>>
  BY <1>6 DEF InstOK, Begins, Holds
<1>. DEFINE q == Insts!ConnectToNewClient(pipe[k])
            pending == Insts!ConnectResult(pipe[k]) = "ERROR_IO_PENDING"
<1>8. /\ q \in InstPipes /\ q.in = pipe[k].in /\ q.out = pipe[k].out /\ q.buffer = <<>>
      /\ pending \in BOOLEAN
      /\ q.state = IF pipe[k].state = "disconnected" THEN "listening" ELSE pipe[k].state
      /\ InstOK(q, IF pending THEN "CONNECTING" ELSE "READING", pending, <<>>, "served")
  <2>1. Len(<<>>) <= Quota
    BY InstQuota
  <2>2. Len(pipe[k].out) <= Quota
    BY <1>7, <2>1
  <2>. QED BY <1>2, <1>7, <2>2, InstConnected
<1>9. InstStep(k)
  <2>1. /\ pipe'[k] = q /\ chRequest'[k] = <<>> /\ UNCHANGED Insts!clientVars
    <3>1. /\ pipe' = [pipe EXCEPT ![k] = q] /\ chRequest' = [chRequest EXCEPT ![k] = <<>>]
          /\ UNCHANGED Insts!clientVars
      BY <1>0, <1>1 DEF Insts!Connect, Insts!Leave
    <3>2. chRequest \in [Insts!Inst -> Seq(Insts!Request)]
      BY <1>2 DEF Insts!TypeOK
    <3>. HIDE DEF q
    <3>. QED BY <1>2, <3>1, <3>2
  <2>. HIDE DEF q
  <2>. QED BY <1>7, <1>8, <2>1, InstIdles DEF Insts!Inbox
<1>10. pc' \in {"create", "connect", "wait", "operate"}
  BY <1>1
<1>. QED BY <1>0, <1>1, <1>3, <1>4, <1>5, <1>8, <1>9, <1>10, InstConnectCall

\* DisconnectAndReconnect, from wherever it is called.
LEMMA InstHangsUpAndWaits ==
    ASSUME InstsInv, NEW k \in Insts!Inst, k = i, Role(k) \in {"served", "operate"},
           pc \in {"result", "operate"}, Insts!DisconnectAndReconnect, pc' = "wait", i' = i,
           pipe[k].state # "connected" \/ (Insts!Inbox(k) # <<>> /\ Head(Insts!Inbox(k))[2] = 0)
    PROVE  InstsInv' /\ \A j \in Insts!Inst : InstStep(j)
<1>. DEFINE r == [Insts!DisconnectNamedPipe(pipe[k]) EXCEPT !.buffer = <<>>]
            q == Insts!ConnectToNewClient(r)
            pending == Insts!ConnectResult(r) = "ERROR_IO_PENDING"
<1>1. Insts!TypeOK /\ pipe[k] \in InstPipes
  BY InstTypes DEF InstsInv
<1>2. pipe[k].state # "closed"
  BY DEF InstsInv, InstInv, InstOK, Begins
<1>3. /\ q \in InstPipes /\ q.in = <<>> /\ q.out = <<>> /\ q.buffer = <<>>
      /\ q.state = "listening" /\ pending \in BOOLEAN
      /\ InstOK(q, IF pending THEN "CONNECTING" ELSE "READING", pending, <<>>, "served")
  BY <1>1, <1>2, InstReconnected
<1>4. Insts!Connect(r)
  BY DEF Insts!DisconnectAndReconnect
<1>5. /\ Role(k)' = "served" /\ i' \in Insts!Inst
      /\ \A j \in Insts!Inst : j # k => Role(j)' = Role(j)
  BY DEF Role
<1>6. InstStep(k)
  <2>1. /\ pipe' = [pipe EXCEPT ![k] = q] /\ chRequest' = [chRequest EXCEPT ![k] = <<>>]
        /\ UNCHANGED Insts!clientVars
    BY <1>4 DEF Insts!Connect, Insts!Leave
  <2>2. /\ pipe \in [Insts!Inst -> InstPipes] /\ chRequest \in [Insts!Inst -> Seq(Insts!Request)]
    BY <1>1 DEF Insts!TypeOK, InstPipes
  <2>. HIDE DEF q
  <2>3. pipe'[k] = q /\ chRequest'[k] = <<>>
    BY <2>1, <2>2
  <2>. QED BY <1>1, <1>3, <2>1, <2>3, InstHangsUp
<1>. HIDE DEF r
<1>. QED BY <1>3, <1>4, <1>5, <1>6, InstConnectCall

LEMMA InstWaits ==
    ASSUME InstsInv, Insts!wait
    PROVE  InstsInv' /\ \A j \in Insts!Inst : InstStep(j)
<1>1. /\ pc = "wait" /\ i' \in Insts!Inst /\ Insts!Signaled(pipe[i'])
      /\ pc' = IF fPendingIO[i'] THEN "result" ELSE "operate"
      /\ UNCHANGED <<pipe, dwState, fPendingIO, chRequest, connects, asked, answers>>
  BY DEF Insts!wait, Insts!clientVars
<1>2. Insts!TypeOK'
  BY <1>1 DEF InstsInv, Insts!TypeOK
<1>3. ASSUME NEW j \in Insts!Inst
      PROVE  InstInv(j)' /\ InstStep(j)
  <2>1. Role(j) = "served" /\ Insts!TypeOK
    BY <1>1 DEF Role, InstsInv
  <2>2. InstStep(j)
    BY <1>1, InstIdles DEF Insts!Inbox, Insts!clientVars
  <2>3. CASE Role(j)' = "served"
    <3>1. InstOK(pipe[j], dwState[j], fPendingIO[j], chRequest[j], "served")
      BY <2>1 DEF InstsInv, InstInv
    <3>2. InstInv(j)'
      BY <1>1, <2>3, <3>1 DEF InstInv
    <3>. QED BY <2>2, <3>2
  <2>4. CASE Role(j)' # "served"
    <3>1. pc' = "operate" /\ j = i' /\ Role(j)' = "operate"
      BY <1>1, <2>4 DEF Role
    <3>2. fPendingIO[j] = FALSE
      BY <1>1, <2>1, <3>1, InstTypes
    <3>3. InstOK(pipe[j], dwState[j], fPendingIO[j], chRequest[j], "served")
      BY <2>1 DEF InstsInv, InstInv
    <3>4. InstOK(pipe[j], dwState[j], FALSE, chRequest[j], "operate")
      BY <2>1, <3>2, <3>3, InstTypes, InstWoken DEF InstStates
    <3>. QED BY <1>1, <2>2, <3>1, <3>2, <3>4 DEF InstInv
  <2>. QED BY <2>2, <2>3, <2>4
<1>4. pc' = "result" => fPendingIO'[i'] /\ Insts!Signaled(pipe[i])'
  BY <1>1 DEF Insts!Signaled
<1>. QED BY <1>2, <1>3, <1>4 DEF InstsInv

\* Where the thread is when it has waited for instance k.
LEMMA InstHere ==
    ASSUME InstsInv, NEW k \in Insts!Inst, k = i, pc \in {"result", "operate"}
    PROVE  /\ Role(k) = IF pc = "operate" THEN "operate" ELSE "served"
           /\ pc = "result" => fPendingIO[k] = TRUE /\ Insts!Signaled(pipe[k])
           /\ InstOK(pipe[k], dwState[k], fPendingIO[k], chRequest[k], Role(k))
           /\ Insts!TypeOK /\ pipe[k] \in InstPipes /\ dwState[k] \in InstStates
           /\ fPendingIO[k] \in BOOLEAN /\ chRequest[k] \in Seq(Insts!Request)
           /\ pipe \in [Insts!Inst -> InstPipes]
           /\ chRequest \in [Insts!Inst -> Seq(Insts!Request)]
<1>1. Insts!TypeOK /\ fPendingIO[k] \in BOOLEAN
  BY InstTypes DEF InstsInv
<1>2. pipe \in [Insts!Inst -> InstPipes] /\ chRequest \in [Insts!Inst -> Seq(Insts!Request)]
  BY <1>1 DEF Insts!TypeOK, InstPipes
<1>3. Role(k) = IF pc = "operate" THEN "operate" ELSE "served"
  BY DEF Role
<1>. QED BY <1>1, <1>2, <1>3, InstTypes DEF InstsInv, InstInv

LEMMA InstSucceeds ==
    ASSUME InstsInv, Insts!resultSuccess
    PROVE  InstsInv' /\ \A j \in Insts!Inst : InstStep(j)
<1>0. PICK k \in Insts!Inst : k = i
  BY DEF InstsInv, Insts!TypeOK
<1>1. pc = "result" /\ pc' = "operate" /\ i' = i
  BY DEF Insts!resultSuccess
<1>2. /\ Role(k)' = "operate" /\ i' \in Insts!Inst
      /\ \A j \in Insts!Inst : j # k => Role(j)' = Role(j)
  BY <1>0, <1>1 DEF Role
<1>3. /\ InstOK(pipe[k], dwState[k], TRUE, chRequest[k], "served")
      /\ Insts!TypeOK /\ pipe[k] \in InstPipes /\ dwState[k] \in InstStates
      /\ chRequest[k] \in Seq(Insts!Request)
      /\ pipe \in [Insts!Inst -> InstPipes]
      /\ chRequest \in [Insts!Inst -> Seq(Insts!Request)]
  BY <1>0, <1>1, InstHere
<1>4. CASE (Insts!ConnectDone \/ Insts!WriteDone) /\ Insts!Leave(pipe[i], TRUE, "READING", <<>>)
  <2>1. Insts!Leave(pipe[k], TRUE, "READING", <<>>)
    BY <1>0, <1>4
  <2>2. \/ dwState[k] = "CONNECTING" /\ pipe[k].connect = "success"
        \/ dwState[k] = "WRITING" /\ pipe[k].write = "success"
    BY <1>0, <1>4 DEF Insts!ConnectDone, Insts!WriteDone
  <2>3. chRequest[k] = <<>> /\ InstOK(pipe[k], "READING", TRUE, <<>>, "operate")
    BY <1>3, <2>2, InstGoesOn
  <2>4. InstStep(k)
    <3>1. pipe'[k] = pipe[k] /\ chRequest'[k] = <<>> /\ UNCHANGED Insts!clientVars
      BY <1>0, <1>3, <2>1 DEF Insts!Leave
    <3>. QED BY <2>3, <3>1, InstIdles DEF Insts!Inbox
  <2>5. <<>> \in Seq(Insts!Request) /\ "READING" \in InstStates /\ TRUE \in BOOLEAN
    BY DEF InstStates
  <2>6. InstOK(pipe[k], "READING", TRUE, <<>>, Role(k)') /\ pc' \in {"create", "connect", "wait", "operate"}
    BY <1>1, <1>2, <2>3
  <2>. QED BY <1>0, <1>2, <1>3, <2>1, <2>4, <2>5, <2>6, InstLeft
<1>5. CASE Insts!ReadDone
           /\ Insts!Leave([pipe[i] EXCEPT !.buffer = <<>>], TRUE, "WRITING", pipe[i].buffer)
  <2>. DEFINE p == pipe[k]
              q == [p EXCEPT !.buffer = <<>>]
  <2>1. Insts!Leave(q, TRUE, "WRITING", p.buffer)
    BY <1>0, <1>5
  <2>2. dwState[k] = "READING" /\ p.read = "success" /\ Insts!Accepted(p.buffer)
    BY <1>0, <1>5 DEF Insts!ReadDone
  <2>3. /\ q \in InstPipes /\ q.state = p.state /\ q.in = p.in /\ q.out = p.out
        /\ q.buffer = <<>>
        /\ chRequest[k] = <<>> /\ p.buffer = <<Head(p.buffer)>>
        /\ InstOK(q, "WRITING", TRUE, p.buffer, "operate")
    BY <1>3, <2>2, InstHasRead, ZenonT(60)
  <2>4. p.in \in Seq(Insts!Request) /\ p.buffer \in Seq(Insts!Request) /\ p.buffer # <<>>
    BY <1>3, <2>2, InstFields DEF Insts!Accepted
  <2>5. InstStep(k)
    <3>1. pipe' = [pipe EXCEPT ![k] = q] /\ chRequest' = [chRequest EXCEPT ![k] = p.buffer]
          /\ UNCHANGED Insts!clientVars
      BY <1>0, <2>1 DEF Insts!Leave
    <3>. DEFINE m == Head(p.buffer)
    <3>2. m \in Insts!Request /\ m[2] # 0
      BY <2>2, <2>4, InstRequests DEF Insts!Accepted
    <3>3. p.buffer \o p.in # <<>> /\ Head(p.buffer \o p.in) = m
      BY <2>4, InstConcats
    <3>. HIDE DEF m
    <3>. HIDE DEF q
    <3>4. pipe'[k] = q /\ chRequest'[k] = <<m>>
      BY <1>3, <2>3, <3>1 DEF m
    <3>5. pipe'[k].buffer \o pipe'[k].in = Tail(p.buffer \o p.in)
      <4>1. p.buffer = <<m>>
        BY <2>3 DEF m
      <4>2. Tail(<<m>> \o p.in) = p.in /\ <<>> \o p.in = p.in
        BY <2>4, <3>2, InstConcats
      <4>. QED BY <2>3, <3>4, <4>1, <4>2
    <3>. QED BY <1>3, <2>3, <3>1, <3>2, <3>3, <3>4, <3>5, InstTakes DEF Insts!Inbox
  <2>6. "WRITING" \in InstStates /\ TRUE \in BOOLEAN /\ pc' \in {"create", "connect", "wait", "operate"}
    BY <1>1 DEF InstStates
  <2>7. InstOK(q, "WRITING", TRUE, p.buffer, Role(k)')
    BY <1>2, <2>3
  <2>. HIDE DEF q
  <2>. QED BY <1>0, <1>2, <1>3, <2>1, <2>3, <2>4, <2>5, <2>6, <2>7, InstLeft
<1>. QED BY <1>4, <1>5 DEF Insts!resultSuccess

LEMMA InstGivesUp ==
    ASSUME InstsInv, Insts!resultFailure
    PROVE  InstsInv' /\ \A j \in Insts!Inst : InstStep(j)
<1>0. PICK k \in Insts!Inst : k = i
  BY DEF InstsInv, Insts!TypeOK
<1>1. pc = "result" /\ pc' = "wait" /\ i' = i /\ Insts!DisconnectAndReconnect
  BY DEF Insts!resultFailure
<1>2. /\ InstOK(pipe[k], dwState[k], TRUE, chRequest[k], "served") /\ Role(k) = "served"
      /\ Insts!Signaled(pipe[k]) /\ pipe[k] \in InstPipes /\ dwState[k] \in InstStates
  BY <1>0, <1>1, InstHere
<1>3. /\ ~(dwState[k] = "CONNECTING" /\ pipe[k].connect = "success")
      /\ ~(dwState[k] = "READING" /\ pipe[k].read = "success" /\ Insts!Accepted(pipe[k].buffer))
      /\ ~(dwState[k] = "WRITING" /\ pipe[k].write = "success")
  BY <1>0 DEF Insts!resultFailure, Insts!ConnectDone, Insts!ReadDone, Insts!WriteDone
<1>4. pipe[k].state # "connected" \/ (pipe[k].buffer # <<>> /\ Head(pipe[k].buffer)[2] = 0)
  BY <1>2, <1>3, InstFails DEF InstStates
<1>5. pipe[k].in \in Seq(Insts!Request) /\ pipe[k].buffer \in Seq(Insts!Request)
  BY <1>2, InstFields
<1>6. pipe[k].state # "connected" \/ (Insts!Inbox(k) # <<>> /\ Head(Insts!Inbox(k))[2] = 0)
  BY <1>4, <1>5, InstConcats DEF Insts!Inbox
<1>. QED BY <1>0, <1>1, <1>2, <1>6, InstHangsUpAndWaits

LEMMA InstReadsRequest ==
    ASSUME InstsInv, Insts!readRequest
    PROVE  InstsInv' /\ \A j \in Insts!Inst : InstStep(j)
<1>0. PICK k \in Insts!Inst : k = i
  BY DEF InstsInv, Insts!TypeOK
<1>. DEFINE p == pipe[k]
            q == Insts!ReadFile(Insts!Reset(p))
            r == [q EXCEPT !.buffer = <<>>]
<1>1. /\ pc = "operate" /\ pc' = "wait" /\ i' = i /\ dwState[k] = "READING"
      /\ \/ /\ q.read = "success" /\ Insts!Accepted(q.buffer)
            /\ Insts!Leave(r, FALSE, "WRITING", q.buffer)
         \/ q.read = "pending" /\ Insts!Leave(q, TRUE, "READING", <<>>)
         \/ /\ q.read = "idle" \/ (q.read = "success" /\ ~Insts!Accepted(q.buffer))
            /\ Insts!DisconnectAndReconnect
  BY <1>0 DEF Insts!readRequest
<1>2. /\ InstOK(p, "READING", fPendingIO[k], chRequest[k], "operate") /\ Role(k) = "operate"
      /\ Insts!TypeOK /\ p \in InstPipes /\ fPendingIO[k] \in BOOLEAN
      /\ pipe \in [Insts!Inst -> InstPipes]
      /\ chRequest \in [Insts!Inst -> Seq(Insts!Request)]
  BY <1>0, <1>1, InstHere
<1>3. /\ q \in InstPipes /\ q.state = p.state /\ q.out = p.out
      /\ p.buffer = <<>> /\ chRequest[k] = <<>>
      /\ q.read = "success" =>
            /\ p.in # <<>> /\ q.in = Tail(p.in) /\ q.buffer = <<Head(p.in)>>
            /\ r \in InstPipes /\ r.state = p.state /\ r.in = Tail(p.in)
            /\ r.out = p.out /\ r.buffer = <<>>
            /\ InstOK(r, "WRITING", FALSE, q.buffer, "served")
      /\ q.read = "pending" =>
            /\ q.in = p.in /\ q.buffer = <<>>
            /\ InstOK(q, "READING", TRUE, <<>>, "served")
      /\ q.read = "idle" => p.state # "connected"
  BY <1>2, InstReadsOn
<1>. HIDE DEF q, r
<1>4. /\ Role(k)' = "served" /\ i' \in Insts!Inst
      /\ \A j \in Insts!Inst : j # k => Role(j)' = Role(j)
      /\ pc' \in {"create", "connect", "wait", "operate"}
  BY <1>0, <1>1 DEF Role
<1>5. p.in \in Seq(Insts!Request) /\ q.buffer \in Seq(Insts!Request)
      /\ <<>> \in Seq(Insts!Request) /\ "READING" \in InstStates /\ "WRITING" \in InstStates
  BY <1>2, <1>3, InstFields DEF InstStates
<1>6. Insts!Inbox(k) = p.in
  BY <1>3, <1>5, InstConcats DEF Insts!Inbox
<1>7. ASSUME q.read = "success"
      PROVE  /\ p.in # <<>> /\ q.buffer # <<>> /\ Head(q.buffer) = Head(p.in)
             /\ Head(p.in) \in Insts!Request /\ Tail(p.in) \in Seq(Insts!Request)
  <2>1. p.in # <<>> /\ q.buffer = <<Head(p.in)>>
    BY <1>3, <1>7
  <2>2. \A x : <<x>> # <<>> /\ Head(<<x>>) = x
    OBVIOUS
  <2>. QED BY <1>5, <2>1, <2>2, InstRequests
<1>8. CASE /\ q.read = "success" /\ Insts!Accepted(q.buffer)
           /\ Insts!Leave(r, FALSE, "WRITING", q.buffer)
  <2>1. InstStep(k)
    <3>1. /\ pipe' = [pipe EXCEPT ![k] = r] /\ chRequest' = [chRequest EXCEPT ![k] = q.buffer]
          /\ UNCHANGED Insts!clientVars
      BY <1>0, <1>8 DEF Insts!Leave
    <3>2. pipe'[k] = r /\ chRequest'[k] = <<Head(p.in)>>
      BY <1>2, <1>3, <1>8, <3>1
    <3>3. Head(p.in)[2] # 0
      BY <1>7, <1>8 DEF Insts!Accepted
    <3>4. pipe'[k].buffer \o pipe'[k].in = Tail(p.in)
      BY <1>3, <1>7, <1>8, <3>2, InstConcats
    <3>. QED BY <1>2, <1>3, <1>6, <1>7, <1>8, <3>1, <3>2, <3>3, <3>4, InstTakes
  <2>2. InstOK(r, "WRITING", FALSE, q.buffer, Role(k)') /\ r \in InstPipes
        /\ FALSE \in BOOLEAN
    BY <1>3, <1>4, <1>8
  <2>. QED BY <1>0, <1>4, <1>5, <1>8, <2>1, <2>2, InstLeft
<1>9. CASE q.read = "pending" /\ Insts!Leave(q, TRUE, "READING", <<>>)
  <2>1. InstStep(k)
    <3>1. /\ pipe' = [pipe EXCEPT ![k] = q] /\ chRequest' = [chRequest EXCEPT ![k] = <<>>]
          /\ UNCHANGED Insts!clientVars
      BY <1>0, <1>9 DEF Insts!Leave
    <3>2. pipe'[k] = q /\ chRequest'[k] = <<>>
      BY <1>2, <3>1
    <3>. QED BY <1>3, <1>9, <3>1, <3>2, InstIdles DEF Insts!Inbox
  <2>2. InstOK(q, "READING", TRUE, <<>>, Role(k)') /\ TRUE \in BOOLEAN
    BY <1>3, <1>4, <1>9
  <2>. QED BY <1>0, <1>3, <1>4, <1>5, <1>9, <2>1, <2>2, InstLeft
<1>10. CASE /\ q.read = "idle" \/ (q.read = "success" /\ ~Insts!Accepted(q.buffer))
            /\ Insts!DisconnectAndReconnect
  <2>1. p.state # "connected" \/ (Insts!Inbox(k) # <<>> /\ Head(Insts!Inbox(k))[2] = 0)
    BY <1>3, <1>6, <1>7, <1>10 DEF Insts!Accepted
  <2>. QED BY <1>0, <1>1, <1>2, <1>10, <2>1, InstHangsUpAndWaits
<1>. QED BY <1>1, <1>8, <1>9, <1>10

LEMMA InstWritesReply ==
    ASSUME InstsInv, Insts!writeReply
    PROVE  InstsInv' /\ \A j \in Insts!Inst : InstStep(j)
<1>0. PICK k \in Insts!Inst : k = i
  BY DEF InstsInv, Insts!TypeOK
<1>. DEFINE p == pipe[k]
            m == chRequest[k][1]
            q == Insts!WriteFile(Insts!Reset(p), m)
<1>1. /\ pc = "operate" /\ pc' = "wait" /\ i' = i /\ dwState[k] = "WRITING"
      /\ \/ q.write = "success" /\ Insts!Leave(q, FALSE, "READING", <<>>)
         \/ q.write = "pending" /\ Insts!Leave(q, TRUE, "WRITING", <<>>)
         \/ q.write = "idle" /\ Insts!DisconnectAndReconnect
  BY <1>0 DEF Insts!writeReply
<1>2. /\ InstOK(p, "WRITING", fPendingIO[k], chRequest[k], "operate") /\ Role(k) = "operate"
      /\ Insts!TypeOK /\ p \in InstPipes /\ fPendingIO[k] \in BOOLEAN
      /\ chRequest[k] \in Seq(Insts!Request)
      /\ pipe \in [Insts!Inst -> InstPipes]
      /\ chRequest \in [Insts!Inst -> Seq(Insts!Request)]
  BY <1>0, <1>1, InstHere
<1>3. /\ chRequest[k] # <<>> /\ chRequest[k] = <<m>> /\ m \in Insts!Request
      /\ q \in InstPipes /\ q.state = p.state /\ q.in = p.in
      /\ p.buffer = <<>> /\ q.buffer = <<>>
      /\ q.write \in {"success", "pending"} =>
            p.state = "connected" /\ q.out = Append(p.out, m)
      /\ q.write = "success" => InstOK(q, "READING", FALSE, <<>>, "served")
      /\ q.write = "pending" => InstOK(q, "WRITING", TRUE, <<>>, "served")
      /\ q.write = "idle" => p.state # "connected"
  BY <1>2, InstWritesOn, ZenonT(60)
<1>4. /\ Role(k)' = "served" /\ i' \in Insts!Inst
      /\ \A j \in Insts!Inst : j # k => Role(j)' = Role(j)
      /\ pc' \in {"create", "connect", "wait", "operate"}
  BY <1>0, <1>1 DEF Role
<1>5. p.out \in Seq(Insts!Request) /\ <<>> \in Seq(Insts!Request)
      /\ "READING" \in InstStates /\ "WRITING" \in InstStates
  BY <1>2, InstFields DEF InstStates
<1>. HIDE DEF m, q
<1>6. ASSUME NEW pending, NEW state, Insts!Leave(q, pending, state, <<>>),
             q.write \in {"success", "pending"}
      PROVE  InstStep(k)
  <2>1. /\ pipe' = [pipe EXCEPT ![k] = q] /\ chRequest' = [chRequest EXCEPT ![k] = <<>>]
        /\ UNCHANGED Insts!clientVars
    BY <1>0, <1>6 DEF Insts!Leave
  <2>2. pipe'[k] = q /\ chRequest'[k] = <<>>
    BY <1>2, <2>1
  <2>3. Append(p.out, m) = p.out \o <<m>>
    BY <1>3, <1>5, AppendIsConcat
  <2>4. Reply(k)!Answer
    BY <1>3, <1>6, <2>1, <2>2, <2>3 DEF Reply!Answer, Insts!Inbox, Insts!clientVars
  <2>. QED BY <2>4 DEF InstStep, Reply!RRNext
<1>7. CASE q.write = "success" /\ Insts!Leave(q, FALSE, "READING", <<>>)
  <2>1. InstStep(k)
    BY <1>6, <1>7
  <2>2. InstOK(q, "READING", FALSE, <<>>, Role(k)') /\ FALSE \in BOOLEAN
    BY <1>3, <1>4, <1>7
  <2>. QED BY <1>0, <1>3, <1>4, <1>5, <1>7, <2>1, <2>2, InstLeft
<1>8. CASE q.write = "pending" /\ Insts!Leave(q, TRUE, "WRITING", <<>>)
  <2>1. InstStep(k)
    BY <1>6, <1>8
  <2>2. InstOK(q, "WRITING", TRUE, <<>>, Role(k)') /\ TRUE \in BOOLEAN
    BY <1>3, <1>4, <1>8
  <2>. QED BY <1>0, <1>3, <1>4, <1>5, <1>8, <2>1, <2>2, InstLeft
<1>9. CASE q.write = "idle" /\ Insts!DisconnectAndReconnect
  BY <1>0, <1>1, <1>2, <1>3, <1>9, InstHangsUpAndWaits
<1>. QED BY <1>1, <1>7, <1>8, <1>9

\* What the client of instance k is about to change.
LEMMA InstThere ==
    ASSUME InstsInv, NEW k \in Insts!Inst
    PROVE  /\ InstOK(pipe[k], dwState[k], fPendingIO[k], chRequest[k], Role(k))
           /\ pipe[k] \in InstPipes /\ dwState[k] \in InstStates /\ fPendingIO[k] \in BOOLEAN
           /\ connects[k] \in Nat /\ asked[k] \in Nat /\ answers[k] \in Seq(Insts!Request)
           /\ Role(k) \in Roles /\ pipe \in [Insts!Inst -> InstPipes]
           /\ connects \in [Insts!Inst -> Nat] /\ asked \in [Insts!Inst -> Nat]
           /\ answers \in [Insts!Inst -> Seq(Insts!Request)]
BY InstTypes DEF InstsInv, InstInv, Insts!TypeOK, InstPipes

LEMMA InstClientOpens ==
    ASSUME InstsInv, NEW k \in Insts!Inst, Insts!clientOpen(k)
    PROVE  InstsInv' /\ \A j \in Insts!Inst : InstStep(j)
<1>. DEFINE p == pipe[k]
            q == Insts!PeerOpen(p)
<1>1. /\ p.state = "listening" /\ pipe' = [pipe EXCEPT ![k] = q]
      /\ connects' = [connects EXCEPT ![k] = connects[k] + 1]
      /\ asked' = [asked EXCEPT ![k] = 0] /\ answers' = [answers EXCEPT ![k] = <<>>]
      /\ UNCHANGED <<dwState, fPendingIO, chRequest, pc, i>>
  BY DEF Insts!clientOpen, Insts!serverVars
<1>2. /\ InstOK(q, dwState[k], fPendingIO[k], chRequest[k], Role(k))
      /\ p.in = <<>> /\ p.buffer = <<>> /\ chRequest[k] = <<>> /\ p.out = <<>>
  BY <1>1, InstThere, InstOpened
<1>3. /\ q \in InstPipes /\ q.state = "connected"
      /\ q.in = p.in /\ q.out = p.out /\ q.buffer = p.buffer
      /\ q.read = p.read /\ q.write = p.write
      /\ q.connect = IF p.connect = "pending" THEN "success" ELSE p.connect
  BY InstThere, InstOpen
<1>. HIDE DEF q
<1>4. Insts!Signaled(p) => Insts!Signaled(q)
  BY <1>3 DEF Insts!Signaled, Insts!Completed
<1>5. /\ connects' \in [Insts!Inst -> Nat] /\ asked' \in [Insts!Inst -> Nat]
      /\ answers' \in [Insts!Inst -> Seq(Insts!Request)]
      /\ \A j \in Insts!Inst \ {k} :
            connects'[j] = connects[j] /\ asked'[j] = asked[j] /\ answers'[j] = answers[j]
      /\ connects'[k] = connects[k] + 1 /\ asked'[k] = 0 /\ answers'[k] = <<>>
      /\ pipe'[k] = q
  <2>1. <<>> \in Seq(Insts!Request) /\ 0 \in Nat /\ connects[k] + 1 \in Nat
    BY InstThere
  <2>. QED BY <1>1, <2>1, InstThere
<1>6. InstStep(k)
  <2>1. Reply(k)!Open
    BY <1>1, <1>2, <1>3, <1>5 DEF Reply!Open, Insts!Inbox
  <2>. QED BY <2>1 DEF InstStep, Reply!RRNext
<1>. QED BY <1>1, <1>2, <1>3, <1>4, <1>5, <1>6, InstClient

LEMMA InstClientAsks ==
    ASSUME InstsInv, NEW k \in Insts!Inst, Insts!clientAsk(k) \/ Insts!clientAskNothing(k)
    PROVE  InstsInv' /\ \A j \in Insts!Inst : InstStep(j)
<1>1. ASSUME NEW m \in Insts!Request, pipe[k].state = "connected",
             pipe' = [pipe EXCEPT ![k] = Insts!PeerWrite(pipe[k], m)],
             UNCHANGED <<dwState, fPendingIO, chRequest, pc, i, connects, answers>>,
             \/ m = <<connects[k], asked[k] + 1>> /\ asked' = [asked EXCEPT ![k] = asked[k] + 1]
             \/ m = <<connects[k], 0>> /\ asked' = asked
      PROVE  InstsInv' /\ \A j \in Insts!Inst : InstStep(j)
  <2>. DEFINE p == pipe[k]
              q == Insts!PeerWrite(p, m)
  <2>1. /\ InstOK(q, dwState[k], fPendingIO[k], chRequest[k], Role(k))
        /\ q.buffer \o q.in = Append(p.buffer \o p.in, m)
    <3>1. /\ p \in InstPipes /\ p.state = "connected" /\ fPendingIO[k] \in BOOLEAN
          /\ dwState[k] \in {"CONNECTING", "READING", "WRITING"} /\ Role(k) \in Roles
          /\ InstOK(p, dwState[k], fPendingIO[k], chRequest[k], Role(k))
      BY <1>1, InstThere DEF InstStates
    <3>. HIDE DEF p
    <3>. QED BY <1>1, <3>1, InstAsked
  <2>2. /\ q \in InstPipes /\ q.state = p.state /\ q.out = p.out
        /\ q.connect = p.connect /\ q.write = p.write
        /\ p.read = "pending" => q.read = "success"
        /\ p.read # "pending" => q.read = p.read
    BY InstThere, InstPeerWrite
  <2>. HIDE DEF q
  <2>3. Insts!Signaled(p) => Insts!Signaled(q)
    BY <2>2 DEF Insts!Signaled, Insts!Completed
  <2>4. pipe'[k] = q
    BY <1>1, InstThere DEF q
  <2>5. /\ connects' \in [Insts!Inst -> Nat] /\ asked' \in [Insts!Inst -> Nat]
        /\ answers' \in [Insts!Inst -> Seq(Insts!Request)]
        /\ \A j \in Insts!Inst \ {k} :
              connects'[j] = connects[j] /\ asked'[j] = asked[j] /\ answers'[j] = answers[j]
    BY <1>1, InstThere
  <2>6. InstStep(k)
    <3>1. Insts!Inbox(k)' = Append(Insts!Inbox(k), m)
      BY <2>1, <2>4 DEF Insts!Inbox
    <3>2. CASE m = <<connects[k], asked[k] + 1>> /\ asked' = [asked EXCEPT ![k] = asked[k] + 1]
      <4>1. Reply(k)!Ask
        BY <1>1, <2>2, <2>4, <3>1, <3>2, InstThere DEF Reply!Ask
      <4>. QED BY <4>1 DEF InstStep, Reply!RRNext
    <3>3. CASE m = <<connects[k], 0>> /\ asked' = asked
      <4>1. Reply(k)!AskNothing
        BY <1>1, <2>2, <2>4, <3>1, <3>3 DEF Reply!AskNothing
      <4>. QED BY <4>1 DEF InstStep, Reply!RRNext
    <3>. QED BY <1>1, <3>2, <3>3
  <2>. QED BY <1>1, <2>1, <2>2, <2>3, <2>5, <2>6, InstClient DEF q
<1>2. /\ pipe[k].state = "connected"
      /\ <<connects[k], asked[k] + 1>> \in Insts!Request /\ <<connects[k], 0>> \in Insts!Request
  BY InstThere DEF Insts!clientAsk, Insts!clientAskNothing, Insts!PeerCanWrite, Insts!Request
<1>3. CASE Insts!clientAsk(k)
  BY <1>1, <1>2, <1>3 DEF Insts!clientAsk, Insts!serverVars
<1>4. CASE Insts!clientAskNothing(k)
  BY <1>1, <1>2, <1>4 DEF Insts!clientAskNothing, Insts!serverVars
<1>. QED BY <1>3, <1>4

LEMMA InstClientReads ==
    ASSUME InstsInv, NEW k \in Insts!Inst, Insts!clientRead(k)
    PROVE  InstsInv' /\ \A j \in Insts!Inst : InstStep(j)
<1>. DEFINE p == pipe[k]
            q == Insts!PeerRead(p)
<1>1. /\ p.out # <<>> /\ pipe' = [pipe EXCEPT ![k] = q]
      /\ answers' = [answers EXCEPT ![k] = Append(answers[k], Head(p.out))]
      /\ UNCHANGED <<dwState, fPendingIO, chRequest, pc, i, connects, asked>>
  BY DEF Insts!clientRead, Insts!serverVars
<1>2. InstOK(q, dwState[k], fPendingIO[k], chRequest[k], Role(k))
  BY <1>1, InstThere, InstAnswered DEF InstStates
<1>3. /\ q \in InstPipes /\ q.state = p.state /\ q.in = p.in /\ q.buffer = p.buffer
      /\ q.connect = p.connect /\ q.read = p.read /\ q.write \in {"success", p.write}
      /\ q.out = Tail(p.out)
  BY <1>1, InstThere, InstPeerRead
<1>. HIDE DEF q
<1>4. Insts!Signaled(p) => Insts!Signaled(q)
  BY <1>3 DEF Insts!Signaled, Insts!Completed
<1>5. Append(answers[k], Head(p.out)) \in Seq(Insts!Request)
  BY <1>1, InstThere, InstFields, InstRequests
<1>6. /\ answers' \in [Insts!Inst -> Seq(Insts!Request)] /\ pipe'[k] = q
      /\ answers'[k] = Append(answers[k], Head(p.out))
      /\ \A j \in Insts!Inst \ {k} : answers'[j] = answers[j]
  BY <1>1, <1>5, InstThere
<1>7. InstStep(k)
  <2>1. Reply(k)!Receive
    BY <1>1, <1>3, <1>6 DEF Reply!Receive, Insts!Inbox
  <2>. QED BY <2>1 DEF InstStep, Reply!RRNext
<1>8. connects' \in [Insts!Inst -> Nat] /\ asked' \in [Insts!Inst -> Nat]
  BY <1>1, InstThere
<1>. QED BY <1>1, <1>2, <1>3, <1>4, <1>6, <1>7, <1>8, InstClient

LEMMA InstClientCloses ==
    ASSUME InstsInv, NEW k \in Insts!Inst, Insts!clientClose(k)
    PROVE  InstsInv' /\ \A j \in Insts!Inst : InstStep(j)
<1>. DEFINE p == pipe[k]
            q == Insts!PeerClose(p)
<1>1. /\ p.state = "connected" /\ pipe' = [pipe EXCEPT ![k] = q]
      /\ UNCHANGED <<dwState, fPendingIO, chRequest, pc, i, connects, asked, answers>>
  BY DEF Insts!clientClose, Insts!serverVars, Insts!clientVars
<1>2. InstOK(q, dwState[k], fPendingIO[k], chRequest[k], Role(k))
  BY <1>1, InstThere, InstDeserted DEF InstStates
<1>3. /\ q \in InstPipes /\ q.state = "peerClosed"
      /\ q.in = p.in /\ q.out = <<>> /\ q.buffer = p.buffer
      /\ q.connect = Insts!Broken(p.connect) /\ q.read = Insts!Broken(p.read)
      /\ q.write = Insts!Broken(p.write)
  BY <1>1, InstThere, InstPeerClose
<1>. HIDE DEF q
<1>4. Insts!Signaled(p) => Insts!Signaled(q)
  BY <1>3 DEF Insts!Signaled, Insts!Completed, Insts!Broken
<1>5. pipe'[k] = q
  BY <1>1, InstThere
<1>6. InstStep(k)
  <2>1. Reply(k)!Leave
    BY <1>1, <1>3, <1>5 DEF Reply!Leave, Insts!Inbox
  <2>. QED BY <2>1 DEF InstStep, Reply!RRNext
<1>7. /\ connects' \in [Insts!Inst -> Nat] /\ asked' \in [Insts!Inst -> Nat]
      /\ answers' \in [Insts!Inst -> Seq(Insts!Request)]
  BY <1>1, InstThere
<1>. QED BY <1>1, <1>2, <1>3, <1>4, <1>6, <1>7, InstClient

LEMMA InstsStart == Insts!Init => InstsInv /\ \A k \in Insts!Inst : Reply(k)!RRInit
<1>. SUFFICES ASSUME Insts!Init PROVE InstsInv /\ \A k \in Insts!Inst : Reply(k)!RRInit
  OBVIOUS
<1>. DEFINE p == Insts!NewPipe("closed")
<1>1. /\ p \in InstPipes /\ p.state = "closed" /\ p.in = <<>> /\ p.out = <<>>
      /\ p.buffer = <<>> /\ p.connect = "idle" /\ p.read = "idle" /\ p.write = "idle"
      /\ <<>> \in Seq(Insts!Request)
  <2>1. <<>> \in Seq(Insts!Request)
    OBVIOUS
  <2>. QED BY <2>1 DEF InstPipes, Insts!Pipe, Insts!NewPipe, Insts!Operation, Insts!PipeStates
<1>2. /\ pipe = [k \in Insts!Inst |-> p] /\ dwState = [k \in Insts!Inst |-> "CONNECTING"]
      /\ fPendingIO = [k \in Insts!Inst |-> FALSE] /\ chRequest = [k \in Insts!Inst |-> <<>>]
      /\ pc = "create" /\ i = 0 /\ connects = [k \in Insts!Inst |-> 0]
      /\ asked = [k \in Insts!Inst |-> 0] /\ answers = [k \in Insts!Inst |-> <<>>]
  BY DEF Insts!Init
<1>. HIDE DEF p
<1>3. 0 \in Insts!Inst /\ \A k \in Insts!Inst : k >= 0
  BY ProgramsAssumption DEF Insts!InstAssumption, Insts!Inst
<1>4. Insts!TypeOK
  BY <1>1, <1>2, <1>3 DEF Insts!TypeOK, InstPipes
<1>5. ASSUME NEW k \in Insts!Inst PROVE InstInv(k) /\ Reply(k)!RRInit
  <2>1. Role(k) = "uncreated"
    BY <1>2, <1>3 DEF Role
  <2>2. pipe[k] = p /\ chRequest[k] = <<>> /\ connects[k] = 0 /\ asked[k] = 0 /\ answers[k] = <<>>
    BY <1>2
  <2>3. Len(<<>>) = 0 /\ Quota \in Nat /\ <<>> \o <<>> = <<>>
    BY InstQuota
  <2>4. InstInv(k)
    BY <1>1, <2>1, <2>2, <2>3
       DEF InstInv, InstOK, Begins, Connects, Reads, Writes, Operates, Holds
  <2>5. Reply(k)!RRInit
    <3>1. (pipe[k].state = "connected") = FALSE
      BY <1>1, <2>2
    <3>. QED BY <1>1, <2>2, <2>3, <3>1 DEF Reply!RRInit, Insts!Inbox
  <2>. QED BY <2>4, <2>5
<1>. QED BY <1>2, <1>4, <1>5 DEF InstsInv

LEMMA InstsNext ==
    ASSUME InstsInv, [Insts!Next]_(Insts!vars)
    PROVE  InstsInv' /\ \A k \in Insts!Inst : InstStep(k)
<1>1. CASE Insts!Server
  <2>1. \/ Insts!createInstance \/ Insts!connectInstance \/ Insts!wait
        \/ Insts!resultSuccess \/ Insts!resultFailure \/ Insts!readRequest \/ Insts!writeReply
    BY <1>1 DEF Insts!Server
  <2>. QED BY <2>1, InstCreate, InstConnectFirst, InstWaits, InstSucceeds, InstGivesUp,
              InstReadsRequest, InstWritesReply
<1>2. ASSUME NEW k \in Insts!Inst, Insts!ClientOf(k)
      PROVE  InstsInv' /\ \A j \in Insts!Inst : InstStep(j)
  <2>1. \/ Insts!clientOpen(k) \/ Insts!clientAsk(k) \/ Insts!clientAskNothing(k)
        \/ Insts!clientRead(k) \/ Insts!clientClose(k)
    BY <1>2 DEF Insts!ClientOf
  <2>. QED BY <2>1, InstClientOpens, InstClientAsks, InstClientReads, InstClientCloses
<1>3. CASE UNCHANGED Insts!vars
  <2>1. UNCHANGED <<pipe, dwState, fPendingIO, chRequest, pc, i, connects, asked, answers>>
    BY <1>3 DEF Insts!vars, Insts!serverVars, Insts!clientVars
  <2>2. InstsInv'
    <3>1. ASSUME NEW k \in Insts!Inst PROVE InstInv(k)'
      BY <2>1 DEF InstsInv, InstInv, Role
    <3>2. Insts!TypeOK' /\ (pc' = "result" => fPendingIO'[i'] /\ Insts!Signaled(pipe[i])')
      BY <2>1 DEF InstsInv, Insts!TypeOK, Insts!Signaled
    <3>. QED BY <3>1, <3>2 DEF InstsInv
  <2>3. ASSUME NEW k \in Insts!Inst PROVE InstStep(k)
    BY <2>1, InstIdles DEF Insts!Inbox, Insts!clientVars
  <2>. QED BY <2>2, <2>3
<1>. QED BY <1>1, <1>2, <1>3 DEF Insts!Next

-----------------------------------------------------------------------------
(***************************************************************************)
(* servermultithreaded: one instance                                       *)
(***************************************************************************)
ThreadPipes == Threads!Pipe(Threads!Request)
ThreadPlaces == {"none", "read", "write", "flush", "exited"}

\* What the main thread has to do with instance k: it has not created it, is in its
\* ConnectNamedPipe or before it, or has left it.
Stage(k) ==
    CASE k > hPipe                       -> "uncreated"
      [] k = hPipe /\ mainPc = "connect" -> "connect"
      [] k = hPipe /\ mainPc = "blocked" -> "blocked"
      [] OTHER                           -> "left"
Stages == {"uncreated", "connect", "blocked", "left"}

\* A client asks when it has read the last reply: a request is waiting, taken or answered.
AtMostOne(in, request, out) ==
    \/ in = <<>> /\ request = <<>> /\ out = <<>>
    \/ \E m \in Threads!Request :
          \/ in = <<m>> /\ request = <<>> /\ out = <<>>
          \/ in = <<>> /\ request = <<m>> /\ out = <<>>
          \/ in = <<>> /\ request = <<>> /\ out = <<m>>

\* Nothing is overlapped except the connect the main thread is blocked in.
MainOK(p, place, clients, stage) ==
    /\ p.buffer = <<>> /\ p.read = "idle" /\ p.write = "idle"
    /\ p.state \in {"listening", "connected", "peerClosed", "closed"}
    /\ p.state = "listening" => clients = 0
    /\ stage = "uncreated" => p.state = "closed" /\ clients = 0
    /\ stage # "left" => place = "none"
    /\ stage # "blocked" => p.connect = "idle"
    /\ stage = "blocked" =>
          \/ p.connect = "pending" /\ p.state = "listening"
          \/ p.connect = "success" /\ p.state \in {"connected", "peerClosed"}

\* Where the instance's thread is; it hangs up only on a client that has left or has
\* sent a request it cannot take.
PlaceOK(p, request, place) ==
    /\ p.state \in {"listening", "closed"} => p.in = <<>> /\ request = <<>>
    /\ p.state # "connected" => p.out = <<>>
    /\ AtMostOne(p.in, request, p.out)
    /\ place \in {"none", "read", "exited"} => request = <<>>
    /\ place = "write" => request # <<>>
    /\ place \in {"read", "write", "flush"} => p.state \in {"connected", "peerClosed"}
    /\ place = "flush" => p.state # "connected" \/ (p.in # <<>> /\ Head(p.in)[2] = 0)

ThreadInv(k) ==
    /\ MainOK(thPipe[k], threadPc[k], opened[k], Stage(k))
    /\ PlaceOK(thPipe[k], pchRequest[k], threadPc[k])
    /\ opened[k] = 0 => thAsked[k] = 0 /\ thAnswers[k] = <<>>

Empty(p, request) == p.in = <<>> /\ request = <<>> /\ p.out = <<>>

\* An instance has one client ever; a client that may ask has had its last reply.
ClientInv(c) ==
    /\ handle[c] # Threads!NoInst =>
          /\ opened[handle[c]] = 1
          /\ \A d \in Client : d # c => handle[d] # handle[c]
    /\ clientPc[c] \in {"ask", "read", "key"} => handle[c] # Threads!NoInst
    /\ clientPc[c] = "ask" => Empty(thPipe[handle[c]], pchRequest[handle[c]])

ThreadsInv ==
    /\ Threads!TypeOK
    /\ mainPc # "create" => hPipe # Threads!NoInst
    /\ \A k \in Threads!Inst : ThreadInv(k)
    /\ \A c \in Client : ClientInv(c)

ThreadStep(k) == [ThreadReply(k)!RRNext]_(ThreadReply(k)!rrVars)

-----------------------------------------------------------------------------
LEMMA ThreadIs ==
    ASSUME NEW p \in ThreadPipes
    PROVE  /\ p = [state |-> p.state, in |-> p.in, out |-> p.out, connect |-> p.connect,
                   read |-> p.read, write |-> p.write, buffer |-> p.buffer]
           /\ p.state \in Threads!PipeStates /\ p.in \in Seq(Threads!Request)
           /\ p.out \in Seq(Threads!Request) /\ p.connect \in Threads!Operation
           /\ p.read \in Threads!Operation /\ p.write \in Threads!Operation
           /\ p.buffer \in Seq(Threads!Request)
BY DEF ThreadPipes, Threads!Pipe

LEMMA ThreadCalls ==
    ASSUME NEW p \in ThreadPipes
    PROVE  /\ Threads!PeerOpen(p) =
                 [state |-> "connected", in |-> p.in, out |-> p.out,
                  connect |-> IF p.connect = "pending" THEN "success" ELSE p.connect,
                  read |-> p.read, write |-> p.write, buffer |-> p.buffer]
           /\ Threads!Break(p, "disconnected") =
                 [state |-> "disconnected", in |-> <<>>, out |-> <<>>,
                  connect |-> Threads!Broken(p.connect), read |-> Threads!Broken(p.read),
                  write |-> Threads!Broken(p.write), buffer |-> p.buffer]
<1>1. Threads!PeerOpen(p) =
         [p EXCEPT !.state = "connected",
                   !.connect = IF p.connect = "pending" THEN "success" ELSE p.connect]
  BY DEF Threads!PeerOpen
<1>2. Threads!Break(p, "disconnected") =
         [p EXCEPT !.state = "disconnected", !.in = <<>>, !.out = <<>>,
                   !.connect = Threads!Broken(p.connect),
                   !.read = Threads!Broken(p.read), !.write = Threads!Broken(p.write)]
  BY DEF Threads!Break
<1>. QED BY <1>1, <1>2 DEF ThreadPipes, Threads!Pipe

LEMMA ThreadTypes ==
    ASSUME ThreadsInv, NEW k \in Threads!Inst
    PROVE  /\ Threads!TypeOK
           /\ thPipe \in [Threads!Inst -> ThreadPipes] /\ thPipe[k] \in ThreadPipes
           /\ threadPc \in [Threads!Inst -> ThreadPlaces] /\ threadPc[k] \in ThreadPlaces
           /\ pchRequest \in [Threads!Inst -> Seq(Threads!Request)]
           /\ pchRequest[k] \in Seq(Threads!Request)
           /\ opened \in [Threads!Inst -> 0 .. 1] /\ opened[k] \in 0 .. 1
           /\ thAsked \in [Threads!Inst -> Nat] /\ thAsked[k] \in Nat
           /\ thAnswers \in [Threads!Inst -> Seq(Threads!Request)]
           /\ thAnswers[k] \in Seq(Threads!Request)
           /\ k \in Nat /\ k >= 1 /\ hPipe \in Nat /\ Stage(k) \in Stages
<1>1. MaxInst \in Nat
  BY ProgramsAssumption DEF Threads!MultithreadedAssumption
<1>2. Stage(k) \in Stages
  BY DEF Stage, Stages
<1>3. hPipe \in Nat
  BY <1>1 DEF ThreadsInv, Threads!TypeOK, Threads!Inst, Threads!NoInst
<1>. QED BY <1>1, <1>2, <1>3 DEF ThreadsInv, Threads!TypeOK, ThreadPipes, ThreadPlaces, Threads!Inst

LEMMA ThreadKept ==
    ASSUME ThreadsInv, NEW k \in Threads!Inst, Stage(k)' = Stage(k), thPipe'[k] = thPipe[k],
           threadPc'[k] = threadPc[k], pchRequest'[k] = pchRequest[k],
           opened'[k] = opened[k], thAsked'[k] = thAsked[k], thAnswers'[k] = thAnswers[k]
    PROVE  ThreadInv(k)' /\ ThreadStep(k)
<1>1. ThreadInv(k)'
  BY DEF ThreadsInv, ThreadInv
<1>2. UNCHANGED ThreadReply(k)!rrVars
  BY DEF ThreadReply!rrVars
<1>. QED BY <1>1, <1>2 DEF ThreadStep

\* Nothing the client of instance k sees has changed.
LEMMA ThreadIdles ==
    ASSUME NEW k \in Threads!Inst, pchRequest'[k] = pchRequest[k],
           (thPipe'[k].state = "connected") <=> (thPipe[k].state = "connected"),
           thPipe'[k].in = thPipe[k].in, thPipe'[k].out = thPipe[k].out,
           UNCHANGED Threads!historyVars
    PROVE  ThreadStep(k)
<1>1. (thPipe'[k].state = "connected") = (thPipe[k].state = "connected")
  OBVIOUS
<1>2. UNCHANGED ThreadReply(k)!rrVars
  BY <1>1 DEF ThreadReply!rrVars, Threads!historyVars
<1>. QED BY <1>2 DEF ThreadStep

\* A thread of the server changes instance k.
LEMMA ThreadServes ==
    ASSUME ThreadsInv, NEW k \in Threads!Inst, NEW p \in ThreadPipes,
           NEW request \in Seq(Threads!Request), NEW place \in ThreadPlaces,
           thPipe' = [thPipe EXCEPT ![k] = p], pchRequest' = [pchRequest EXCEPT ![k] = request],
           threadPc' = [threadPc EXCEPT ![k] = place],
           UNCHANGED <<Threads!processVars, Threads!historyVars>>,
           mainPc' \in {"create", "connect", "blocked"},
           hPipe' \in Threads!Inst \cup {Threads!NoInst},
           mainPc' # "create" => hPipe' # Threads!NoInst,
           \A j \in Threads!Inst : j # k => Stage(j)' = Stage(j),
           MainOK(p, place, opened[k], Stage(k)'), PlaceOK(p, request, place),
           Empty(thPipe[k], pchRequest[k]) => Empty(p, request),
           ThreadStep(k)
    PROVE  ThreadsInv' /\ \A j \in Threads!Inst : ThreadStep(j)
<1>1. /\ thPipe' \in [Threads!Inst -> ThreadPipes] /\ threadPc' \in [Threads!Inst -> ThreadPlaces]
      /\ pchRequest' \in [Threads!Inst -> Seq(Threads!Request)]
      /\ thPipe'[k] = p /\ threadPc'[k] = place /\ pchRequest'[k] = request
  BY ThreadTypes
<1>2. UNCHANGED <<program, clientPc, handle, opened, thAsked, thAnswers>>
  BY DEF Threads!processVars, Threads!historyVars
<1>3. Threads!TypeOK'
  BY <1>1, <1>2 DEF ThreadsInv, Threads!TypeOK, ThreadPipes, ThreadPlaces
<1>4. ThreadInv(k)'
  BY <1>1, <1>2 DEF ThreadsInv, ThreadInv
<1>5. ASSUME NEW j \in Threads!Inst, j # k
      PROVE  /\ ThreadInv(j)' /\ ThreadStep(j)
             /\ thPipe'[j] = thPipe[j] /\ pchRequest'[j] = pchRequest[j]
  BY <1>2, <1>5, ThreadTypes, ThreadKept
<1>6. ASSUME NEW c \in Client PROVE ClientInv(c)'
  <2>1. ClientInv(c) /\ handle[c] \in Threads!Inst \cup {Threads!NoInst}
    BY DEF ThreadsInv, Threads!TypeOK
  <2>2. ASSUME clientPc[c] = "ask"
        PROVE  Empty(thPipe'[handle[c]], pchRequest'[handle[c]])
    <3>1. handle[c] \in Threads!Inst /\ Empty(thPipe[handle[c]], pchRequest[handle[c]])
      BY <2>1, <2>2 DEF ClientInv
    <3>2. CASE handle[c] = k
      BY <1>1, <3>1, <3>2
    <3>3. CASE handle[c] # k
      BY <1>5, <3>1, <3>3
    <3>. QED BY <3>2, <3>3
  <2>3. Empty(thPipe[handle[c]], pchRequest[handle[c]])'
           <=> Empty(thPipe'[handle[c]], pchRequest'[handle[c]])
    BY <1>2 DEF Empty
  <2>. QED BY <1>2, <2>1, <2>2, <2>3 DEF ClientInv
<1>. QED BY <1>3, <1>4, <1>5, <1>6 DEF ThreadsInv

\* A process changes instance k, of which it is the client.
LEMMA ThreadClient ==
    ASSUME ThreadsInv, NEW k \in Threads!Inst, NEW p \in ThreadPipes, NEW c \in Client,
           thPipe' = [thPipe EXCEPT ![k] = p], UNCHANGED <<Threads!serverVars, program>>,
           clientPc' \in [Client -> {"open", "waitPipe", "ask", "read", "key", "noPipe",
                                     "timedOut", "hungUp", "closed", "killed"}],
           handle' = [handle EXCEPT ![c] = k],
           opened' \in [Threads!Inst -> 0 .. 1], thAsked' \in [Threads!Inst -> Nat],
           thAnswers' \in [Threads!Inst -> Seq(Threads!Request)],
           \A j \in Threads!Inst \ {k} :
              opened'[j] = opened[j] /\ thAsked'[j] = thAsked[j] /\ thAnswers'[j] = thAnswers[j],
           opened'[k] = 1, \A d \in Client \ {c} : clientPc'[d] = clientPc[d] /\ handle[d] # k,
           MainOK(p, threadPc[k], 1, Stage(k)), PlaceOK(p, pchRequest[k], threadPc[k]),
           clientPc'[c] = "ask" => Empty(p, pchRequest[k]),
           ThreadStep(k)
    PROVE  ThreadsInv' /\ \A j \in Threads!Inst : ThreadStep(j)
<1>1. thPipe' \in [Threads!Inst -> ThreadPipes] /\ thPipe'[k] = p
  BY ThreadTypes
<1>2. UNCHANGED <<mainPc, hPipe, threadPc, pchRequest>>
  BY DEF Threads!serverVars
<1>3. handle' \in [Client -> Threads!Inst \cup {Threads!NoInst}]
      /\ handle \in [Client -> Threads!Inst \cup {Threads!NoInst}] /\ handle'[c] = k
  BY DEF ThreadsInv, Threads!TypeOK
<1>4. Threads!TypeOK'
  BY <1>1, <1>2, <1>3 DEF ThreadsInv, Threads!TypeOK, ThreadPipes
<1>5. \A j \in Threads!Inst : Stage(j)' = Stage(j)
  BY <1>2 DEF Stage
<1>6. ThreadInv(k)'
  BY <1>1, <1>2, <1>5 DEF ThreadInv
<1>7. ASSUME NEW j \in Threads!Inst, j # k
      PROVE  ThreadInv(j)' /\ ThreadStep(j) /\ thPipe'[j] = thPipe[j]
  BY <1>2, <1>5, <1>7, ThreadTypes, ThreadKept
<1>8. k # Threads!NoInst
  BY ThreadTypes DEF Threads!NoInst
<1>9. ClientInv(c)'
  <2>1. \A d \in Client : d # c => handle'[d] # handle'[c]
    BY <1>3
  <2>2. clientPc'[c] = "ask" => Empty(thPipe[handle[c]], pchRequest[handle[c]])'
    BY <1>1, <1>2, <1>3 DEF Empty
  <2>. QED BY <1>3, <1>8, <2>1, <2>2 DEF ClientInv
<1>10. ASSUME NEW d \in Client, d # c PROVE ClientInv(d)'
  <2>1. /\ ClientInv(d) /\ handle[d] \in Threads!Inst \cup {Threads!NoInst} /\ handle'[d] = handle[d]
        /\ clientPc'[d] = clientPc[d] /\ handle[d] # k
    BY <1>3, <1>10 DEF ThreadsInv
  <2>2. handle[d] # Threads!NoInst =>
           /\ thPipe'[handle[d]] = thPipe[handle[d]] /\ opened'[handle[d]] = opened[handle[d]]
    BY <1>7, <2>1
  <2>3. handle[d] # Threads!NoInst =>
           opened'[handle'[d]] = 1 /\ \A e \in Client : e # d => handle'[e] # handle'[d]
    <3>1. ASSUME handle[d] # Threads!NoInst, NEW e \in Client, e # d
          PROVE  handle'[e] # handle'[d]
      <4>1. CASE e = c
        BY <1>3, <2>1, <4>1
      <4>2. CASE e # c
        BY <1>3, <2>1, <3>1, <4>2 DEF ClientInv
      <4>. QED BY <4>1, <4>2
    <3>. QED BY <2>1, <2>2, <3>1 DEF ClientInv
  <2>4. clientPc'[d] = "ask" => Empty(thPipe[handle[d]], pchRequest[handle[d]])'
    BY <1>2, <2>1, <2>2 DEF ClientInv, Empty
  <2>. QED BY <2>1, <2>3, <2>4 DEF ClientInv
<1>11. mainPc' # "create" => hPipe' # Threads!NoInst
  BY <1>2 DEF ThreadsInv
<1>. QED BY <1>4, <1>6, <1>7, <1>9, <1>10, <1>11 DEF ThreadsInv

-----------------------------------------------------------------------------
\* The main thread

\* What is known of an instance before a step.
LEMMA ThreadThere ==
    ASSUME ThreadsInv, NEW k \in Threads!Inst
    PROVE  /\ MainOK(thPipe[k], threadPc[k], opened[k], Stage(k))
           /\ PlaceOK(thPipe[k], pchRequest[k], threadPc[k])
           /\ opened[k] = 0 => thAsked[k] = 0 /\ thAnswers[k] = <<>>
BY DEF ThreadsInv, ThreadInv

LEMMA ThreadCreates ==
    ASSUME ThreadsInv, Threads!CreateNamedPipe
    PROVE  ThreadsInv' /\ \A j \in Threads!Inst : ThreadStep(j)
<1>1. /\ mainPc = "create" /\ hPipe < MaxInst /\ hPipe' = hPipe + 1 /\ mainPc' = "connect"
      /\ thPipe' = [thPipe EXCEPT ![hPipe'] = Threads!NewPipe("listening")]
      /\ UNCHANGED <<threadPc, pchRequest, Threads!processVars, Threads!historyVars>>
  BY DEF Threads!CreateNamedPipe
<1>2. hPipe + 1 \in Threads!Inst /\ hPipe \in Nat /\ MaxInst \in Nat
  BY <1>1, ProgramsAssumption
     DEF ThreadsInv, Threads!TypeOK, Threads!Inst, Threads!NoInst, Threads!MultithreadedAssumption
<1>3. PICK k \in Threads!Inst : k = hPipe + 1
  BY <1>2
<1>. DEFINE p == Threads!NewPipe("listening")
<1>4. /\ p = [state |-> "listening", in |-> <<>>, out |-> <<>>, connect |-> "idle",
              read |-> "idle", write |-> "idle", buffer |-> <<>>]
      /\ p \in ThreadPipes
  <2>1. <<>> \in Seq(Threads!Request)
    OBVIOUS
  <2>. QED BY <2>1 DEF ThreadPipes, Threads!Pipe, Threads!NewPipe, Threads!Operation,
                       Threads!PipeStates
<1>5. thPipe' = [thPipe EXCEPT ![k] = p]
  BY <1>1, <1>3
<1>. HIDE DEF p
<1>6. Stage(k) = "uncreated" /\ Stage(k)' = "connect"
  BY <1>1, <1>2, <1>3 DEF Stage
<1>7. /\ thPipe[k].state = "closed" /\ opened[k] = 0 /\ threadPc[k] = "none"
      /\ Empty(thPipe[k], pchRequest[k])
  BY <1>6, ThreadThere DEF MainOK, PlaceOK, Empty
<1>8. ASSUME NEW j \in Threads!Inst, j # k PROVE Stage(j)' = Stage(j)
  BY <1>1, <1>2, <1>3, <1>8, ThreadTypes DEF Stage
<1>9. MainOK(p, threadPc[k], opened[k], Stage(k)') /\ PlaceOK(p, pchRequest[k], threadPc[k])
  BY <1>4, <1>6, <1>7 DEF MainOK, PlaceOK, AtMostOne, Empty
<1>10. ThreadStep(k)
  <2>1. thPipe'[k] = p
    BY <1>5, ThreadTypes
  <2>. QED BY <1>1, <1>4, <1>7, <2>1, ThreadIdles DEF Empty
<1>11. /\ pchRequest' = [pchRequest EXCEPT ![k] = pchRequest[k]]
       /\ threadPc' = [threadPc EXCEPT ![k] = threadPc[k]]
       /\ pchRequest[k] \in Seq(Threads!Request) /\ threadPc[k] \in ThreadPlaces
  BY <1>1, ThreadTypes
<1>12. /\ mainPc' \in {"create", "connect", "blocked"}
       /\ hPipe' \in Threads!Inst \cup {Threads!NoInst} /\ hPipe' # Threads!NoInst
  BY <1>1, <1>2 DEF Threads!NoInst
<1>13. Empty(thPipe[k], pchRequest[k]) => Empty(p, pchRequest[k])
  BY <1>4 DEF Empty
<1>. QED BY <1>1, <1>4, <1>5, <1>8, <1>9, <1>10, <1>11, <1>12, <1>13, ThreadServes

\* The main thread is done with its ConnectNamedPipe, or blocks in it.
LEMMA ThreadMain ==
    ASSUME ThreadsInv, mainPc \in {"connect", "blocked"}, hPipe' = hPipe,
           mainPc' \in {"create", "blocked"}
    PROVE  \E k \in Threads!Inst :
              /\ k = hPipe /\ Stage(k) = mainPc
              /\ Stage(k)' = IF mainPc' = "create" THEN "left" ELSE "blocked"
              /\ \A j \in Threads!Inst : j # k => Stage(j)' = Stage(j)
              /\ mainPc' \in {"create", "connect", "blocked"}
              /\ hPipe' \in Threads!Inst \cup {Threads!NoInst}
              /\ mainPc' # "create" => hPipe' # Threads!NoInst
<1>1. hPipe \in Threads!Inst
  BY DEF ThreadsInv, Threads!TypeOK
<1>2. PICK k \in Threads!Inst : k = hPipe
  BY <1>1
<1>3. Stage(k) = mainPc /\ Stage(k)' = IF mainPc' = "create" THEN "left" ELSE "blocked"
  BY <1>2, ThreadTypes DEF Stage
<1>4. ASSUME NEW j \in Threads!Inst, j # k PROVE Stage(j)' = Stage(j)
  BY <1>2, <1>4, ThreadTypes DEF Stage
<1>5. hPipe # Threads!NoInst
  BY DEF ThreadsInv
<1>. QED BY <1>1, <1>2, <1>3, <1>4, <1>5

LEMMA ThreadBlocks ==
    ASSUME ThreadsInv, Threads!connectBlocks
    PROVE  ThreadsInv' /\ \A j \in Threads!Inst : ThreadStep(j)
<1>1. /\ mainPc = "connect" /\ Threads!ConnectResult(thPipe[hPipe]) = "ERROR_IO_PENDING"
      /\ thPipe' = [thPipe EXCEPT ![hPipe] = Threads!ConnectNamedPipe(thPipe[hPipe])]
      /\ mainPc' = "blocked" /\ hPipe' = hPipe
      /\ UNCHANGED <<threadPc, pchRequest, Threads!processVars, Threads!historyVars>>
  BY DEF Threads!connectBlocks
<1>2. PICK k \in Threads!Inst :
         /\ k = hPipe /\ Stage(k) = "connect" /\ Stage(k)' = "blocked"
         /\ \A j \in Threads!Inst : j # k => Stage(j)' = Stage(j)
         /\ mainPc' \in {"create", "connect", "blocked"}
         /\ hPipe' \in Threads!Inst \cup {Threads!NoInst}
         /\ mainPc' # "create" => hPipe' # Threads!NoInst
  BY <1>1, ThreadMain
<1>. DEFINE p == thPipe[k]
            q == Threads!ConnectNamedPipe(p)
<1>3. MainOK(p, threadPc[k], opened[k], "connect") /\ PlaceOK(p, pchRequest[k], threadPc[k])
      /\ p \in ThreadPipes
  BY <1>2, ThreadThere, ThreadTypes
<1>4. p.state = "listening"
  BY <1>1, <1>2, <1>3 DEF MainOK, Threads!ConnectResult
<1>5. q = [state |-> "listening", in |-> p.in, out |-> p.out, connect |-> "pending",
           read |-> p.read, write |-> p.write, buffer |-> p.buffer]
  BY <1>1, <1>2, <1>3 DEF Threads!ConnectNamedPipe, ThreadPipes, Threads!Pipe
<1>6. thPipe' = [thPipe EXCEPT ![k] = q]
  BY <1>1, <1>2
<1>. HIDE DEF q
<1>7. q \in ThreadPipes
  BY <1>3, <1>5, ThreadIs DEF ThreadPipes, Threads!Pipe, Threads!Operation, Threads!PipeStates
<1>8. MainOK(q, threadPc[k], opened[k], "blocked") /\ PlaceOK(q, pchRequest[k], threadPc[k])
  BY <1>3, <1>4, <1>5 DEF MainOK, PlaceOK
<1>9. ThreadStep(k)
  <2>1. thPipe'[k] = q
    BY <1>6, ThreadTypes
  <2>. QED BY <1>1, <1>4, <1>5, <2>1, ThreadIdles
<1>10. /\ pchRequest' = [pchRequest EXCEPT ![k] = pchRequest[k]]
       /\ threadPc' = [threadPc EXCEPT ![k] = threadPc[k]]
       /\ pchRequest[k] \in Seq(Threads!Request) /\ threadPc[k] \in ThreadPlaces
  BY <1>1, ThreadTypes
<1>11. Empty(p, pchRequest[k]) => Empty(q, pchRequest[k])
  BY <1>5 DEF Empty
<1>. QED BY <1>1, <1>2, <1>6, <1>7, <1>8, <1>9, <1>10, <1>11, ThreadServes

LEMMA ThreadStarts ==
    ASSUME ThreadsInv, Threads!createThread
    PROVE  ThreadsInv' /\ \A j \in Threads!Inst : ThreadStep(j)
<1>1. /\ \/ mainPc = "connect" /\ Threads!ConnectResult(thPipe[hPipe]) = "ERROR_PIPE_CONNECTED"
         \/ mainPc = "blocked" /\ thPipe[hPipe].connect = "success"
      /\ thPipe' = [thPipe EXCEPT ![hPipe] = [thPipe[hPipe] EXCEPT !.connect = "idle"]]
      /\ threadPc' = [threadPc EXCEPT ![hPipe] = "read"]
      /\ mainPc' = "create" /\ hPipe' = hPipe
      /\ UNCHANGED <<pchRequest, Threads!processVars, Threads!historyVars>>
  BY DEF Threads!createThread
<1>2. PICK k \in Threads!Inst :
         /\ k = hPipe /\ Stage(k) = mainPc /\ Stage(k)' = "left"
         /\ \A j \in Threads!Inst : j # k => Stage(j)' = Stage(j)
         /\ mainPc' \in {"create", "connect", "blocked"}
         /\ hPipe' \in Threads!Inst \cup {Threads!NoInst}
         /\ mainPc' # "create" => hPipe' # Threads!NoInst
  BY <1>1, ThreadMain
<1>. DEFINE p == thPipe[k]
            q == [p EXCEPT !.connect = "idle"]
<1>3. MainOK(p, threadPc[k], opened[k], mainPc) /\ PlaceOK(p, pchRequest[k], threadPc[k])
      /\ p \in ThreadPipes
  BY <1>2, ThreadThere, ThreadTypes
<1>4. p.state \in {"connected", "peerClosed"} /\ threadPc[k] = "none" /\ pchRequest[k] = <<>>
  BY <1>1, <1>2, <1>3 DEF MainOK, PlaceOK, Threads!ConnectResult
<1>5. q = [state |-> p.state, in |-> p.in, out |-> p.out, connect |-> "idle",
           read |-> p.read, write |-> p.write, buffer |-> p.buffer]
  BY <1>3, ThreadIs
<1>6. thPipe' = [thPipe EXCEPT ![k] = q] /\ threadPc' = [threadPc EXCEPT ![k] = "read"]
  BY <1>1, <1>2
<1>. HIDE DEF q
<1>7. q \in ThreadPipes
  BY <1>3, <1>5, ThreadIs DEF ThreadPipes, Threads!Pipe, Threads!Operation
<1>8. MainOK(q, "read", opened[k], "left") /\ PlaceOK(q, pchRequest[k], "read")
  BY <1>3, <1>4, <1>5 DEF MainOK, PlaceOK
<1>9. ThreadStep(k)
  <2>1. thPipe'[k] = q
    BY <1>6, ThreadTypes
  <2>. QED BY <1>1, <1>5, <2>1, ThreadIdles
<1>10. /\ pchRequest' = [pchRequest EXCEPT ![k] = pchRequest[k]]
       /\ pchRequest[k] \in Seq(Threads!Request) /\ "read" \in ThreadPlaces
  BY <1>1, ThreadTypes DEF ThreadPlaces
<1>11. Empty(p, pchRequest[k]) => Empty(q, pchRequest[k])
  BY <1>5 DEF Empty
<1>. QED BY <1>1, <1>2, <1>6, <1>7, <1>8, <1>9, <1>10, <1>11, ThreadServes

\* The server hangs up and closes its handle.
LEMMA ThreadCloses ==
    ASSUME NEW p \in ThreadPipes, p.connect = "idle", p.read = "idle", p.write = "idle",
           p.out = <<>>, p.buffer = <<>>
    PROVE  /\ Threads!CloseHandle(p) = Threads!NewPipe("closed")
           /\ Threads!NewPipe("closed") \in ThreadPipes
           /\ Threads!NewPipe("closed") =
                 [state |-> "closed", in |-> <<>>, out |-> <<>>, connect |-> "idle",
                  read |-> "idle", write |-> "idle", buffer |-> <<>>]
<1>1. Len(p.out) = 0 /\ SubSeq(p.out, 1, 0) = <<>> /\ <<>> \in Seq(Threads!Request)
  <2>1. \A S : \A s \in Seq(S) : s = <<>> => Len(s) = 0 /\ SubSeq(s, 1, 0) = <<>>
    OBVIOUS
  <2>. QED BY <2>1, ThreadIs
<1>2. Quota \in Nat \ {0}
  BY ProgramsAssumption DEF Insts!InstAssumption
<1>3. SubSeq(p.out, 1, IF Len(p.out) < Quota THEN Len(p.out) ELSE Quota) = <<>>
  BY <1>1, <1>2
<1>4. Threads!Break(p, "closed") =
         [state |-> "closed", in |-> <<>>, out |-> <<>>, connect |-> "idle",
          read |-> "idle", write |-> "idle", buffer |-> <<>>]
  <2>1. Threads!Break(p, "closed") =
           [p EXCEPT !.state = "closed", !.in = <<>>, !.out = <<>>,
                     !.connect = Threads!Broken(p.connect), !.read = Threads!Broken(p.read),
                     !.write = Threads!Broken(p.write)]
    BY DEF Threads!Break
  <2>2. Threads!Broken("idle") = "idle"
    BY DEF Threads!Broken
  <2>. QED BY <2>1, <2>2, ThreadIs, ZenonT(60)
<1>5. Threads!CloseHandle(p) = [Threads!Break(p, "closed") EXCEPT !.out = <<>>]
  BY <1>3 DEF Threads!CloseHandle
<1>6. Threads!NewPipe("closed") \in ThreadPipes
  BY <1>1 DEF ThreadPipes, Threads!Pipe, Threads!NewPipe, Threads!Operation, Threads!PipeStates
<1>. QED BY <1>4, <1>5, <1>6 DEF Threads!NewPipe

\* The server hangs up on the client of instance k, if it is not gone then for a
\* request that is too long.
LEMMA ThreadHangsUp ==
    ASSUME ThreadsInv, NEW k \in Threads!Inst, NEW place \in {"none", "exited"},
           thPipe' = [thPipe EXCEPT ![k] = Threads!NewPipe("closed")],
           threadPc' = [threadPc EXCEPT ![k] = place],
           pchRequest' = [pchRequest EXCEPT ![k] = <<>>],
           UNCHANGED <<Threads!processVars, Threads!historyVars>>,
           mainPc' \in {"create", "connect", "blocked"},
           hPipe' \in Threads!Inst \cup {Threads!NoInst},
           mainPc' # "create" => hPipe' # Threads!NoInst,
           \A j \in Threads!Inst : j # k => Stage(j)' = Stage(j), Stage(k)' = "left",
           \/ thPipe[k].state # "connected"
           \/ thPipe[k].in # <<>> /\ Head(thPipe[k].in)[2] = 0
    PROVE  ThreadsInv' /\ \A j \in Threads!Inst : ThreadStep(j)
<1>. DEFINE q == Threads!NewPipe("closed")
<1>1. /\ q = [state |-> "closed", in |-> <<>>, out |-> <<>>, connect |-> "idle",
              read |-> "idle", write |-> "idle", buffer |-> <<>>]
      /\ q \in ThreadPipes /\ <<>> \in Seq(Threads!Request)
  <2>1. <<>> \in Seq(Threads!Request)
    OBVIOUS
  <2>. QED BY <2>1 DEF ThreadPipes, Threads!Pipe, Threads!NewPipe, Threads!Operation,
                       Threads!PipeStates
<1>. HIDE DEF q
<1>2. MainOK(q, place, opened[k], "left") /\ PlaceOK(q, <<>>, place)
  BY <1>1 DEF MainOK, PlaceOK, AtMostOne
<1>3. ThreadStep(k)
  <2>1. thPipe'[k] = q /\ pchRequest'[k] = <<>>
    BY ThreadTypes DEF q
  <2>2. ThreadReply(k)!HangUp
    BY <1>1, <2>1 DEF ThreadReply!HangUp, Threads!historyVars
  <2>. QED BY <2>2 DEF ThreadStep, ThreadReply!RRNext
<1>4. Empty(q, <<>>) /\ place \in ThreadPlaces
  BY <1>1 DEF Empty, ThreadPlaces
<1>. QED BY <1>1, <1>2, <1>3, <1>4, ThreadServes DEF q

LEMMA ThreadRefuses ==
    ASSUME ThreadsInv, Threads!connectFails
    PROVE  ThreadsInv' /\ \A j \in Threads!Inst : ThreadStep(j)
<1>1. /\ mainPc = "connect" /\ Threads!ConnectResult(thPipe[hPipe]) = "ERROR_NO_DATA"
      /\ thPipe' = [thPipe EXCEPT ![hPipe] = Threads!CloseHandle(thPipe[hPipe])]
      /\ mainPc' = "create" /\ hPipe' = hPipe
      /\ UNCHANGED <<threadPc, pchRequest, Threads!processVars, Threads!historyVars>>
  BY DEF Threads!connectFails
<1>2. PICK k \in Threads!Inst :
         /\ k = hPipe /\ Stage(k) = "connect" /\ Stage(k)' = "left"
         /\ \A j \in Threads!Inst : j # k => Stage(j)' = Stage(j)
         /\ mainPc' \in {"create", "connect", "blocked"}
         /\ hPipe' \in Threads!Inst \cup {Threads!NoInst}
         /\ mainPc' # "create" => hPipe' # Threads!NoInst
  BY <1>1, ThreadMain
<1>. DEFINE p == thPipe[k]
<1>3. MainOK(p, threadPc[k], opened[k], "connect") /\ PlaceOK(p, pchRequest[k], threadPc[k])
      /\ p \in ThreadPipes
  BY <1>2, ThreadThere, ThreadTypes
<1>4. p.state = "peerClosed" /\ p.out = <<>> /\ threadPc[k] = "none" /\ pchRequest[k] = <<>>
      /\ p.connect = "idle" /\ p.read = "idle" /\ p.write = "idle" /\ p.buffer = <<>>
  BY <1>1, <1>2, <1>3 DEF MainOK, PlaceOK, Threads!ConnectResult
<1>5. Threads!CloseHandle(p) = Threads!NewPipe("closed")
  BY <1>3, <1>4, ThreadCloses
<1>6. /\ thPipe' = [thPipe EXCEPT ![k] = Threads!NewPipe("closed")]
      /\ pchRequest' = [pchRequest EXCEPT ![k] = <<>>]
      /\ threadPc' = [threadPc EXCEPT ![k] = "none"]
  BY <1>1, <1>2, <1>4, <1>5, ThreadTypes
<1>. QED BY <1>1, <1>2, <1>4, <1>6, ThreadHangsUp

-----------------------------------------------------------------------------
\* The thread of an instance, and the instance's client

LEMMA ThreadOnes ==
    /\ \A m : Tail(<<m>>) = <<>> /\ Head(<<m>>) = m /\ <<m>> # <<>> /\ <<>> \o <<m>> = <<m>>
    /\ \A m : <<m>> \in Seq({m}) /\ Append(<<>>, m) = <<m>>
    /\ \A m \in Threads!Request : <<m>> \in Seq(Threads!Request)
    /\ <<>> \in Seq(Threads!Request)
<1>1. \A m : Tail(<<m>>) = <<>> /\ Head(<<m>>) = m /\ <<m>> # <<>> /\ <<>> \o <<m>> = <<m>>
  OBVIOUS
<1>2. \A m : <<m>> \in Seq({m}) /\ Append(<<>>, m) = <<m>>
  OBVIOUS
<1>3. \A m \in Threads!Request : <<m>> \in Seq(Threads!Request)
  OBVIOUS
<1>4. <<>> \in Seq(Threads!Request)
  OBVIOUS
<1>. QED BY <1>1, <1>2, <1>3, <1>4

\* Where a thread that runs is.
LEMMA ThreadRuns ==
    ASSUME ThreadsInv, NEW k \in Threads!Inst, threadPc[k] \in {"read", "write", "flush"},
           UNCHANGED <<mainPc, hPipe>>
    PROVE  /\ MainOK(thPipe[k], threadPc[k], opened[k], "left")
           /\ thPipe[k].state \in {"connected", "peerClosed"}
           /\ thPipe[k].connect = "idle" /\ thPipe[k].read = "idle" /\ thPipe[k].write = "idle"
           /\ thPipe[k].buffer = <<>>
           /\ Stage(k)' = "left" /\ \A j \in Threads!Inst : Stage(j)' = Stage(j)
           /\ mainPc' \in {"create", "connect", "blocked"}
           /\ hPipe' \in Threads!Inst \cup {Threads!NoInst}
           /\ mainPc' # "create" => hPipe' # Threads!NoInst
<1>1. Stage(k) = "left" /\ MainOK(thPipe[k], threadPc[k], opened[k], "left")
  BY ThreadThere DEF MainOK
<1>2. \A j \in Threads!Inst : Stage(j)' = Stage(j)
  BY DEF Stage
<1>3. thPipe[k].state \in {"connected", "peerClosed"}
  BY ThreadThere DEF PlaceOK
<1>4. /\ mainPc' \in {"create", "connect", "blocked"}
      /\ hPipe' \in Threads!Inst \cup {Threads!NoInst}
      /\ mainPc' # "create" => hPipe' # Threads!NoInst
  BY DEF ThreadsInv, Threads!TypeOK
<1>. QED BY <1>1, <1>2, <1>3, <1>4 DEF MainOK

LEMMA ThreadTakes ==
    ASSUME ThreadsInv, NEW k \in Threads!Inst, Threads!readRequest(k)
    PROVE  ThreadsInv' /\ \A j \in Threads!Inst : ThreadStep(j)
<1>. DEFINE p == thPipe[k]
            m == Head(p.in)
            q == [p EXCEPT !.in = Tail(p.in)]
<1>1. /\ threadPc[k] = "read" /\ p.in # <<>> /\ m[2] # 0
      /\ thPipe' = [thPipe EXCEPT ![k] = q] /\ pchRequest' = [pchRequest EXCEPT ![k] = <<m>>]
      /\ threadPc' = [threadPc EXCEPT ![k] = "write"]
      /\ UNCHANGED <<mainPc, hPipe, Threads!processVars, Threads!historyVars>>
  BY DEF Threads!readRequest
<1>2. /\ MainOK(p, "read", opened[k], "left") /\ PlaceOK(p, pchRequest[k], "read")
      /\ p \in ThreadPipes
  BY <1>1, ThreadRuns, ThreadThere, ThreadTypes
<1>3. /\ m \in Threads!Request /\ p.in = <<m>> /\ pchRequest[k] = <<>> /\ p.out = <<>>
      /\ Tail(p.in) = <<>> /\ <<m>> # <<>> /\ <<m>> \in Seq(Threads!Request)
  <2>1. PICK n \in Threads!Request : p.in = <<n>> /\ pchRequest[k] = <<>> /\ p.out = <<>>
    BY <1>1, <1>2 DEF PlaceOK, AtMostOne
  <2>. QED BY <2>1, ThreadOnes
<1>4. q = [state |-> p.state, in |-> <<>>, out |-> <<>>, connect |-> p.connect,
           read |-> p.read, write |-> p.write, buffer |-> p.buffer]
  BY <1>2, <1>3, ThreadIs
<1>. HIDE DEF q, m
<1>5. q \in ThreadPipes
  BY <1>2, <1>4, ThreadIs, ThreadOnes DEF ThreadPipes, Threads!Pipe
<1>6. MainOK(q, "write", opened[k], "left")
  BY <1>2, <1>4 DEF MainOK
<1>7. PlaceOK(q, <<m>>, "write")
  BY <1>1, <1>2, <1>3, <1>4 DEF PlaceOK, AtMostOne
<1>8. ThreadStep(k)
  <2>1. thPipe'[k] = q /\ pchRequest'[k] = <<m>>
    BY <1>1, ThreadTypes
  <2>2. (q.state = "connected") = (p.state = "connected")
    BY <1>4
  <2>3. /\ opened' = opened /\ thAsked' = thAsked /\ thAnswers' = thAnswers
        /\ p.in # <<>> /\ Head(p.in) = m /\ m[2] # 0 /\ q.in = Tail(p.in) /\ q.out = p.out
    BY <1>1, <1>3, <1>4 DEF m, Threads!historyVars
  <2>4. ThreadReply(k)!Take
    BY <1>3, <2>1, <2>2, <2>3 DEF ThreadReply!Take
  <2>. QED BY <2>4 DEF ThreadStep, ThreadReply!RRNext
<1>9. ~Empty(p, pchRequest[k]) /\ "write" \in ThreadPlaces
  BY <1>1 DEF Empty, ThreadPlaces
<1>. QED BY <1>1, <1>3, <1>5, <1>6, <1>7, <1>8, <1>9, ThreadRuns, ThreadServes

\* The thread goes to FlushFileBuffers.
LEMMA ThreadEnds ==
    ASSUME ThreadsInv, NEW k \in Threads!Inst, Threads!readFails(k) \/ Threads!writeFails(k)
    PROVE  ThreadsInv' /\ \A j \in Threads!Inst : ThreadStep(j)
<1>. DEFINE p == thPipe[k]
<1>1. /\ \/ /\ threadPc[k] = "read"
            /\ (p.in # <<>> /\ Head(p.in)[2] = 0) \/ p.state # "connected"
         \/ threadPc[k] = "write" /\ p.state # "connected"
      /\ threadPc' = [threadPc EXCEPT ![k] = "flush"]
      /\ UNCHANGED <<thPipe, pchRequest, mainPc, hPipe, Threads!processVars, Threads!historyVars>>
  BY DEF Threads!readFails, Threads!writeFails
<1>2. /\ MainOK(p, threadPc[k], opened[k], "left") /\ PlaceOK(p, pchRequest[k], threadPc[k])
      /\ p \in ThreadPipes
  BY <1>1, ThreadRuns, ThreadThere, ThreadTypes
<1>3. MainOK(p, "flush", opened[k], "left")
  BY <1>2 DEF MainOK
<1>4. PlaceOK(p, pchRequest[k], "flush")
  BY <1>1, <1>2 DEF PlaceOK
<1>5. ThreadStep(k)
  BY <1>1, ThreadIdles
<1>6. /\ thPipe' = [thPipe EXCEPT ![k] = p]
      /\ pchRequest' = [pchRequest EXCEPT ![k] = pchRequest[k]]
      /\ pchRequest[k] \in Seq(Threads!Request) /\ "flush" \in ThreadPlaces
  BY <1>1, ThreadTypes DEF ThreadPlaces
<1>. QED BY <1>1, <1>2, <1>3, <1>4, <1>5, <1>6, ThreadRuns, ThreadServes

LEMMA ThreadAnswers ==
    ASSUME ThreadsInv, NEW k \in Threads!Inst, Threads!writeReply(k)
    PROVE  ThreadsInv' /\ \A j \in Threads!Inst : ThreadStep(j)
<1>. DEFINE p == thPipe[k]
            q == [p EXCEPT !.out = p.out \o pchRequest[k]]
<1>1. /\ threadPc[k] = "write" /\ p.state = "connected"
      /\ thPipe' = [thPipe EXCEPT ![k] = q] /\ pchRequest' = [pchRequest EXCEPT ![k] = <<>>]
      /\ threadPc' = [threadPc EXCEPT ![k] = "read"]
      /\ UNCHANGED <<mainPc, hPipe, Threads!processVars, Threads!historyVars>>
  BY DEF Threads!writeReply
<1>2. /\ MainOK(p, "write", opened[k], "left") /\ PlaceOK(p, pchRequest[k], "write")
      /\ p \in ThreadPipes
  BY <1>1, ThreadRuns, ThreadThere, ThreadTypes
<1>3. PICK m \in Threads!Request : p.in = <<>> /\ pchRequest[k] = <<m>> /\ p.out = <<>>
  BY <1>2 DEF PlaceOK, AtMostOne
<1>4. p.out \o pchRequest[k] = <<m>> /\ <<m>> # <<>> /\ <<m>> \in Seq(Threads!Request)
  BY <1>3, ThreadOnes
<1>5. q = [state |-> p.state, in |-> p.in, out |-> <<m>>, connect |-> p.connect,
           read |-> p.read, write |-> p.write, buffer |-> p.buffer]
  BY <1>2, <1>4, ThreadIs
<1>6. thPipe'[k] = q
  BY <1>1, ThreadTypes
<1>. HIDE DEF q
<1>7. q \in ThreadPipes
  BY <1>2, <1>4, <1>5, ThreadIs DEF ThreadPipes, Threads!Pipe
<1>8. MainOK(q, "read", opened[k], "left")
  BY <1>2, <1>5 DEF MainOK
<1>9. PlaceOK(q, <<>>, "read")
  BY <1>1, <1>3, <1>5 DEF PlaceOK, AtMostOne
<1>10. ThreadStep(k)
  <2>1. pchRequest'[k] = <<>>
    BY <1>1, ThreadTypes
  <2>2. (q.state = "connected") = (p.state = "connected") /\ p.state = "connected"
    BY <1>1, <1>5
  <2>3. pchRequest[k] # <<>> /\ q.out = p.out \o pchRequest[k] /\ q.in = p.in
    BY <1>3, <1>4, <1>5
  <2>4. ThreadReply(k)!Answer
    BY <1>1, <1>6, <2>1, <2>2, <2>3 DEF ThreadReply!Answer, Threads!historyVars
  <2>. QED BY <2>4 DEF ThreadStep, ThreadReply!RRNext
<1>11. ~Empty(p, pchRequest[k]) /\ "read" \in ThreadPlaces /\ <<>> \in Seq(Threads!Request)
  BY <1>3, <1>4, ThreadOnes DEF Empty, ThreadPlaces
<1>. QED BY <1>1, <1>7, <1>8, <1>9, <1>10, <1>11, ThreadRuns, ThreadServes

LEMMA ThreadDisconnects ==
    ASSUME ThreadsInv, NEW k \in Threads!Inst, Threads!disconnect(k)
    PROVE  ThreadsInv' /\ \A j \in Threads!Inst : ThreadStep(j)
<1>. DEFINE p == thPipe[k]
            r == Threads!DisconnectNamedPipe(p)
<1>1. /\ threadPc[k] = "flush" /\ thPipe' = [thPipe EXCEPT ![k] = Threads!CloseHandle(r)]
      /\ pchRequest' = [pchRequest EXCEPT ![k] = <<>>]
      /\ threadPc' = [threadPc EXCEPT ![k] = "exited"]
      /\ UNCHANGED <<mainPc, hPipe, Threads!processVars, Threads!historyVars>>
  BY DEF Threads!disconnect
<1>2. /\ p.state \in {"connected", "peerClosed"} /\ PlaceOK(p, pchRequest[k], "flush")
      /\ p.connect = "idle" /\ p.read = "idle" /\ p.write = "idle" /\ p.buffer = <<>>
      /\ p \in ThreadPipes
  BY <1>1, ThreadRuns, ThreadThere, ThreadTypes
<1>3. r = [state |-> "disconnected", in |-> <<>>, out |-> <<>>, connect |-> "idle",
           read |-> "idle", write |-> "idle", buffer |-> <<>>]
  <2>1. r = Threads!Break(p, "disconnected")
    BY <1>2 DEF Threads!DisconnectNamedPipe
  <2>2. Threads!Broken("idle") = "idle"
    BY DEF Threads!Broken
  <2>. HIDE DEF p, r
  <2>. QED BY <1>2, <2>1, <2>2, ThreadCalls
<1>. HIDE DEF r
<1>4. r \in ThreadPipes
  BY <1>3, ThreadOnes DEF ThreadPipes, Threads!Pipe, Threads!Operation, Threads!PipeStates
<1>5. Threads!CloseHandle(r) = Threads!NewPipe("closed")
  BY <1>3, <1>4, ThreadCloses
<1>6. p.state # "connected" \/ (p.in # <<>> /\ Head(p.in)[2] = 0)
  BY <1>2 DEF PlaceOK
<1>. QED BY <1>1, <1>5, <1>6, ThreadRuns, ThreadHangsUp

LEMMA ThreadOpens ==
    ASSUME ThreadsInv, NEW c \in Client, Threads!CreateFile(c)
    PROVE  ThreadsInv' /\ \A j \in Threads!Inst : ThreadStep(j)
<1>1. PICK k \in Threads!Inst :
         /\ thPipe[k].state = "listening"
         /\ thPipe' = [thPipe EXCEPT ![k] = Threads!PeerOpen(thPipe[k])]
         /\ handle' = [handle EXCEPT ![c] = k]
         /\ opened' = [opened EXCEPT ![k] = opened[k] + 1]
  BY DEF Threads!CreateFile, Threads!Listening
<1>2. /\ clientPc' = [clientPc EXCEPT ![c] = "ask"]
      /\ UNCHANGED <<Threads!serverVars, program, thAsked, thAnswers>>
      /\ UNCHANGED <<mainPc, hPipe, threadPc, pchRequest>>
  BY DEF Threads!CreateFile, Threads!clientGoes, Threads!serverVars
<1>. DEFINE p == thPipe[k]
            q == Threads!PeerOpen(p)
<1>3. MainOK(p, threadPc[k], opened[k], Stage(k)) /\ PlaceOK(p, pchRequest[k], threadPc[k])
      /\ p \in ThreadPipes /\ Stage(k) \in Stages
  BY ThreadThere, ThreadTypes
<1>4. opened[k] = 0 /\ Empty(p, pchRequest[k])
  BY <1>1, <1>3 DEF MainOK, PlaceOK, Empty
<1>5. q = [state |-> "connected", in |-> p.in, out |-> p.out,
           connect |-> IF p.connect = "pending" THEN "success" ELSE p.connect,
           read |-> p.read, write |-> p.write, buffer |-> p.buffer]
  BY <1>3, ThreadCalls
<1>6. thPipe'[k] = q
  BY <1>1, ThreadTypes
<1>. HIDE DEF q
<1>7. q \in ThreadPipes
  BY <1>3, <1>5, ThreadIs DEF ThreadPipes, Threads!Pipe, Threads!Operation, Threads!PipeStates
<1>8. MainOK(q, threadPc[k], 1, Stage(k))
  BY <1>1, <1>3, <1>5 DEF MainOK, Stages
<1>9. PlaceOK(q, pchRequest[k], threadPc[k])
  <2>1. threadPc[k] # "flush"
    BY <1>1, <1>3 DEF PlaceOK
  <2>. QED BY <1>1, <1>3, <1>4, <1>5, <2>1 DEF PlaceOK, Empty
<1>10. opened' \in [Threads!Inst -> 0 .. 1] /\ opened'[k] = 1
       /\ \A j \in Threads!Inst \ {k} : opened'[j] = opened[j]
  BY <1>1, <1>4, ThreadTypes
<1>11. ThreadStep(k)
  <2>1. thPipe[k].state # "connected" /\ (thPipe'[k].state = "connected") = TRUE
        /\ (thPipe[k].state = "connected") = FALSE
    BY <1>1, <1>5, <1>6
  <2>2. /\ pchRequest[k] = <<>> /\ p.in = <<>> /\ p.out = <<>>
        /\ thPipe'[k].in = <<>> /\ thPipe'[k].out = <<>> /\ pchRequest'[k] = <<>>
        /\ opened'[k] = opened[k] + 1
    BY <1>2, <1>4, <1>5, <1>6, <1>10 DEF Empty
  <2>3. thAsked[k] = 0 /\ thAnswers[k] = <<>>
    BY <1>4, ThreadThere
  <2>4. ThreadReply(k)!Open
    BY <1>2, <2>1, <2>2, <2>3 DEF ThreadReply!Open
  <2>. QED BY <2>4 DEF ThreadStep, ThreadReply!RRNext
<1>12. /\ handle \in [Client -> Threads!Inst \cup {Threads!NoInst}]
       /\ clientPc' \in [Client -> {"open", "waitPipe", "ask", "read", "key", "noPipe",
                                    "timedOut", "hungUp", "closed", "killed"}]
       /\ thAsked \in [Threads!Inst -> Nat] /\ thAnswers \in [Threads!Inst -> Seq(Threads!Request)]
       /\ \A d \in Client \ {c} : clientPc'[d] = clientPc[d]
  BY <1>2 DEF ThreadsInv, Threads!TypeOK
<1>13. \A d \in Client \ {c} : handle[d] # k
  <2>1. k # Threads!NoInst
    BY ThreadTypes DEF Threads!NoInst
  <2>. QED BY <1>4, <2>1 DEF ThreadsInv, ClientInv
<1>14. Empty(q, pchRequest[k])
  BY <1>4, <1>5 DEF Empty
<1>. QED BY <1>1, <1>2, <1>5, <1>6, <1>7, <1>8, <1>9, <1>10, <1>11, <1>12, <1>13, <1>14,
            ThreadClient DEF q

\* A process that has an instance open is its only client.
LEMMA ThreadHas ==
    ASSUME ThreadsInv, NEW c \in Client, clientPc[c] \in {"ask", "read", "key"}
    PROVE  \E k \in Threads!Inst :
              /\ handle[c] = k /\ opened[k] = 1 /\ handle = [handle EXCEPT ![c] = k]
              /\ \A d \in Client \ {c} : handle[d] # k
              /\ clientPc[c] = "ask" => Empty(thPipe[k], pchRequest[k])
              /\ MainOK(thPipe[k], threadPc[k], 1, Stage(k))
              /\ PlaceOK(thPipe[k], pchRequest[k], threadPc[k])
              /\ thPipe[k] \in ThreadPipes /\ thAsked[k] \in Nat /\ Stage(k) \in Stages
<1>1. ClientInv(c) /\ handle \in [Client -> Threads!Inst \cup {Threads!NoInst}]
  BY DEF ThreadsInv, Threads!TypeOK
<1>2. handle[c] \in Threads!Inst /\ handle[c] # Threads!NoInst
  BY <1>1 DEF ClientInv
<1>3. PICK k \in Threads!Inst : k = handle[c]
  BY <1>2
<1>4. /\ opened[k] = 1 /\ \A d \in Client \ {c} : handle[d] # k
      /\ clientPc[c] = "ask" => Empty(thPipe[k], pchRequest[k])
  BY <1>1, <1>2, <1>3 DEF ClientInv
<1>5. handle = [handle EXCEPT ![c] = k]
  BY <1>1, <1>3
<1>. QED BY <1>3, <1>4, <1>5, ThreadThere, ThreadTypes

LEMMA ThreadAsks ==
    ASSUME ThreadsInv, NEW c \in Client, Threads!writeRequest(c) \/ Threads!writeTooLong(c)
    PROVE  ThreadsInv' /\ \A j \in Threads!Inst : ThreadStep(j)
<1>0. clientPc[c] = "ask"
  BY DEF Threads!writeRequest, Threads!writeTooLong
<1>1. PICK k \in Threads!Inst :
         /\ handle[c] = k /\ opened[k] = 1 /\ handle = [handle EXCEPT ![c] = k]
         /\ \A d \in Client \ {c} : handle[d] # k
         /\ clientPc[c] = "ask" => Empty(thPipe[k], pchRequest[k])
         /\ MainOK(thPipe[k], threadPc[k], 1, Stage(k))
         /\ PlaceOK(thPipe[k], pchRequest[k], threadPc[k])
         /\ thPipe[k] \in ThreadPipes /\ thAsked[k] \in Nat /\ Stage(k) \in Stages
  BY <1>0, ThreadHas
<1>. DEFINE p == thPipe[k]
<1>2. ASSUME NEW m \in Threads!Request, p.state = "connected",
             thPipe' = [thPipe EXCEPT ![k] = Threads!PeerWrite(p, m)],
             clientPc' = [clientPc EXCEPT ![c] = "read"],
             UNCHANGED <<Threads!serverVars, program, handle, opened, thAnswers>>,
             \/ m = <<1, thAsked[k] + 1>> /\ thAsked' = [thAsked EXCEPT ![k] = thAsked[k] + 1]
             \/ m = <<1, 0>> /\ thAsked' = thAsked
      PROVE  ThreadsInv' /\ \A j \in Threads!Inst : ThreadStep(j)
  <2>. DEFINE q == Threads!PeerWrite(p, m)
  <2>1. p.in = <<>> /\ pchRequest[k] = <<>> /\ p.out = <<>> /\ p.read = "idle"
    BY <1>0, <1>1 DEF Empty, MainOK
  <2>2. Append(p.in, m) = <<m>> /\ <<m>> \in Seq(Threads!Request) /\ <<m>> # <<>>
    BY <2>1, ThreadOnes
  <2>3. q = [state |-> p.state, in |-> <<m>>, out |-> p.out, connect |-> p.connect,
             read |-> p.read, write |-> p.write, buffer |-> p.buffer]
    <3>1. q = [p EXCEPT !.in = Append(p.in, m)]
      BY <2>1 DEF Threads!PeerWrite
    <3>. QED BY <1>1, <2>2, <3>1, ThreadIs
  <2>4. thPipe'[k] = q
    BY <1>2, ThreadTypes
  <2>. HIDE DEF q
  <2>5. q \in ThreadPipes
    BY <1>1, <2>2, <2>3, ThreadIs DEF ThreadPipes, Threads!Pipe
  <2>6. MainOK(q, threadPc[k], 1, Stage(k))
    BY <1>1, <2>3 DEF MainOK
  <2>7. PlaceOK(q, pchRequest[k], threadPc[k])
    BY <1>1, <1>2, <2>1, <2>3 DEF PlaceOK, AtMostOne
  <2>8. UNCHANGED <<mainPc, hPipe, threadPc, pchRequest>>
    BY <1>2 DEF Threads!serverVars
  <2>9. /\ thAsked' \in [Threads!Inst -> Nat] /\ opened' \in [Threads!Inst -> 0 .. 1]
        /\ thAnswers' \in [Threads!Inst -> Seq(Threads!Request)] /\ opened'[k] = 1
        /\ \A j \in Threads!Inst \ {k} : /\ opened'[j] = opened[j] /\ thAsked'[j] = thAsked[j]
                                         /\ thAnswers'[j] = thAnswers[j]
        /\ m = <<1, thAsked[k] + 1>> \/ m = <<1, 0>>
        /\ m = <<1, thAsked[k] + 1>> => m # <<1, 0>> /\ thAsked'[k] = thAsked[k] + 1
        /\ m = <<1, 0>> => thAsked'[k] = thAsked[k]
    <3>1. thAsked[k] + 1 \in Nat /\ thAsked[k] + 1 # 0
      BY <1>1
    <3>2. <<1, thAsked[k] + 1>> # <<1, 0>>
      BY <3>1
    <3>3. /\ thAsked \in [Threads!Inst -> Nat] /\ opened \in [Threads!Inst -> 0 .. 1]
          /\ thAnswers \in [Threads!Inst -> Seq(Threads!Request)]
      BY ThreadTypes
    <3>4. UNCHANGED <<opened, thAnswers>>
      BY <1>2
    <3>5. CASE m = <<1, thAsked[k] + 1>> /\ thAsked' = [thAsked EXCEPT ![k] = thAsked[k] + 1]
      BY <1>1, <3>1, <3>2, <3>3, <3>4, <3>5
    <3>6. CASE m = <<1, 0>> /\ thAsked' = thAsked
      BY <1>1, <3>2, <3>3, <3>4, <3>6
    <3>. QED BY <1>2, <3>5, <3>6
  <2>10. ThreadStep(k)
    <3>1. /\ pchRequest'[k] = pchRequest[k] /\ thPipe'[k].in = Append(thPipe[k].in, m)
          /\ thPipe'[k].out = thPipe[k].out /\ thPipe'[k].state = thPipe[k].state
          /\ opened'[k] = opened[k] /\ thAnswers'[k] = thAnswers[k] /\ opened[k] = 1
          /\ thPipe[k].state = "connected"
      BY <1>1, <1>2, <2>2, <2>3, <2>4, <2>8
    <3>2. CASE m = <<1, thAsked[k] + 1>>
      <4>1. ThreadReply(k)!Ask
        BY <2>9, <3>1, <3>2 DEF ThreadReply!Ask
      <4>. QED BY <4>1 DEF ThreadStep, ThreadReply!RRNext
    <3>3. CASE m = <<1, 0>>
      <4>1. ThreadReply(k)!AskNothing
        BY <2>9, <3>1, <3>3 DEF ThreadReply!AskNothing
      <4>. QED BY <4>1 DEF ThreadStep, ThreadReply!RRNext
    <3>. QED BY <2>9, <3>2, <3>3
  <2>11. /\ clientPc' \in [Client -> {"open", "waitPipe", "ask", "read", "key", "noPipe",
                                      "timedOut", "hungUp", "closed", "killed"}]
         /\ clientPc'[c] = "read" /\ \A d \in Client \ {c} : clientPc'[d] = clientPc[d]
    BY <1>2 DEF ThreadsInv, Threads!TypeOK
  <2>12. /\ thPipe' = [thPipe EXCEPT ![k] = q] /\ UNCHANGED <<Threads!serverVars, program>>
         /\ handle' = [handle EXCEPT ![c] = k] /\ clientPc'[c] # "ask"
         /\ \A d \in Client \ {c} : clientPc'[d] = clientPc[d] /\ handle[d] # k
    BY <1>1, <1>2, <2>11 DEF q
  <2>. QED BY <2>5, <2>6, <2>7, <2>9, <2>10, <2>11, <2>12, ThreadClient
<1>3. <<1, thAsked[k] + 1>> \in Threads!Request /\ <<1, 0>> \in Threads!Request
  BY <1>1 DEF Threads!Request
<1>4. CASE Threads!writeRequest(c)
  BY <1>1, <1>2, <1>3, <1>4
     DEF Threads!writeRequest, Threads!PeerCanWrite, Threads!clientGoes
<1>5. CASE Threads!writeTooLong(c)
  BY <1>1, <1>2, <1>3, <1>5
     DEF Threads!writeTooLong, Threads!PeerCanWrite, Threads!clientGoes, Threads!historyVars
<1>. QED BY <1>4, <1>5

LEMMA ThreadReceives ==
    ASSUME ThreadsInv, NEW c \in Client, Threads!readReply(c)
    PROVE  ThreadsInv' /\ \A j \in Threads!Inst : ThreadStep(j)
<1>0. clientPc[c] = "read"
  BY DEF Threads!readReply
<1>1. PICK k \in Threads!Inst :
         /\ handle[c] = k /\ opened[k] = 1 /\ handle = [handle EXCEPT ![c] = k]
         /\ \A d \in Client \ {c} : handle[d] # k
         /\ MainOK(thPipe[k], threadPc[k], 1, Stage(k))
         /\ PlaceOK(thPipe[k], pchRequest[k], threadPc[k])
         /\ thPipe[k] \in ThreadPipes
  BY <1>0, ThreadHas
<1>. DEFINE p == thPipe[k]
            q == Threads!PeerRead(p)
<1>2. /\ p.out # <<>>
      /\ thAnswers' = [thAnswers EXCEPT ![k] = Append(thAnswers[k], Head(p.out))]
      /\ thPipe' = [thPipe EXCEPT ![k] = q]
      /\ clientPc' = [clientPc EXCEPT ![c] = IF program[c] = "client" THEN "key" ELSE "ask"]
      /\ UNCHANGED <<Threads!serverVars, program, handle, opened, thAsked>>
      /\ UNCHANGED <<mainPc, hPipe, threadPc, pchRequest>>
  BY <1>1 DEF Threads!readReply, Threads!clientGoes, Threads!serverVars
<1>3. PICK m \in Threads!Request : p.in = <<>> /\ pchRequest[k] = <<>> /\ p.out = <<m>>
  BY <1>1, <1>2 DEF PlaceOK, AtMostOne
<1>4. Tail(p.out) = <<>> /\ Head(p.out) = m /\ <<>> \in Seq(Threads!Request)
  BY <1>3, ThreadOnes
<1>5. ~(Len(p.out) > Quota)
  <2>1. Len(<<m>>) = 1
    OBVIOUS
  <2>2. Quota \in Nat \ {0}
    BY ProgramsAssumption DEF Insts!InstAssumption
  <2>. QED BY <1>3, <2>1, <2>2
<1>6. q = [state |-> p.state, in |-> p.in, out |-> <<>>, connect |-> p.connect,
           read |-> p.read, write |-> p.write, buffer |-> p.buffer]
  <2>1. q = [p EXCEPT !.out = Tail(p.out), !.write = p.write]
    BY <1>5 DEF Threads!PeerRead
  <2>. QED BY <1>1, <1>4, <2>1, ThreadIs, ZenonT(60)
<1>7. thPipe'[k] = q
  BY <1>2, ThreadTypes
<1>. HIDE DEF q
<1>8. q \in ThreadPipes
  BY <1>1, <1>4, <1>6, ThreadIs DEF ThreadPipes, Threads!Pipe
<1>9. MainOK(q, threadPc[k], 1, Stage(k)) /\ Empty(q, pchRequest[k])
  BY <1>1, <1>3, <1>6 DEF MainOK, Empty
<1>10. PlaceOK(q, pchRequest[k], threadPc[k])
  BY <1>1, <1>3, <1>6 DEF PlaceOK, AtMostOne
<1>11. /\ thAnswers' \in [Threads!Inst -> Seq(Threads!Request)]
       /\ thAnswers'[k] = Append(thAnswers[k], Head(p.out))
       /\ \A j \in Threads!Inst \ {k} : thAnswers'[j] = thAnswers[j]
  <2>1. \A S : \A s \in Seq(S), x \in S : Append(s, x) \in Seq(S)
    OBVIOUS
  <2>2. Append(thAnswers[k], Head(p.out)) \in Seq(Threads!Request)
    BY <1>4, <2>1, ThreadTypes
  <2>. QED BY <1>2, <2>2, ThreadTypes
<1>12. ThreadStep(k)
  <2>1. /\ thPipe'[k].out = Tail(p.out) /\ thPipe'[k].in = p.in
        /\ (thPipe'[k].state = "connected") = (p.state = "connected")
    BY <1>4, <1>6, <1>7
  <2>2. UNCHANGED <<opened, thAsked, pchRequest>>
    BY <1>2
  <2>3. ThreadReply(k)!Receive
    BY <1>2, <1>11, <2>1, <2>2 DEF ThreadReply!Receive
  <2>. QED BY <2>3 DEF ThreadStep, ThreadReply!RRNext
<1>13. /\ clientPc' \in [Client -> {"open", "waitPipe", "ask", "read", "key", "noPipe",
                                    "timedOut", "hungUp", "closed", "killed"}]
       /\ \A d \in Client \ {c} : clientPc'[d] = clientPc[d]
  BY <1>2 DEF ThreadsInv, Threads!TypeOK
<1>14. opened' \in [Threads!Inst -> 0 .. 1] /\ thAsked' \in [Threads!Inst -> Nat]
       /\ opened'[k] = 1 /\ handle' = [handle EXCEPT ![c] = k]
  BY <1>1, <1>2, ThreadTypes
<1>. QED BY <1>1, <1>2, <1>8, <1>9, <1>10, <1>11, <1>12, <1>13, <1>14, ThreadClient DEF q

\* The process closes its handle or is ended.
LEMMA ThreadLeaves ==
    ASSUME ThreadsInv, NEW c \in Client, Threads!clientClose(c) \/ Threads!clientKilled(c)
    PROVE  ThreadsInv' /\ \A j \in Threads!Inst : ThreadStep(j)
<1>0. clientPc[c] \in {"ask", "read", "key"}
  BY DEF Threads!clientClose, Threads!clientKilled
<1>1. PICK k \in Threads!Inst :
         /\ handle[c] = k /\ opened[k] = 1 /\ handle = [handle EXCEPT ![c] = k]
         /\ \A d \in Client \ {c} : handle[d] # k
         /\ MainOK(thPipe[k], threadPc[k], 1, Stage(k))
         /\ PlaceOK(thPipe[k], pchRequest[k], threadPc[k])
         /\ thPipe[k] \in ThreadPipes /\ Stage(k) \in Stages
  BY <1>0, ThreadHas
<1>. DEFINE p == thPipe[k]
            q == Threads!PeerClose(p)
<1>2. /\ thPipe' = [thPipe EXCEPT ![k] = q]
      /\ clientPc' = [clientPc EXCEPT ![c] = "closed"] \/ clientPc' = [clientPc EXCEPT ![c] = "killed"]
      /\ UNCHANGED <<Threads!serverVars, program, handle, Threads!historyVars>>
      /\ UNCHANGED <<mainPc, hPipe, threadPc, pchRequest, opened, thAsked, thAnswers>>
  BY <1>1 DEF Threads!clientClose, Threads!clientKilled, Threads!clientGoes, Threads!serverVars,
              Threads!historyVars
<1>3. p.connect # "pending" /\ p.read = "idle" /\ p.write = "idle" /\ p.buffer = <<>>
      /\ p.state # "listening" /\ p.connect \in {"idle", "success"}
  BY <1>1 DEF MainOK, Stages
<1>4. q = [state |-> IF p.state = "connected" THEN "peerClosed" ELSE p.state,
           in |-> p.in, out |-> <<>>, connect |-> p.connect,
           read |-> p.read, write |-> p.write, buffer |-> p.buffer]
  <2>1. CASE p.state = "connected"
    <3>1. q = [[p EXCEPT !.state = "peerClosed", !.in = <<>>, !.out = <<>>,
                         !.connect = Threads!Broken(p.connect), !.read = Threads!Broken(p.read),
                         !.write = Threads!Broken(p.write)] EXCEPT !.in = p.in]
      BY <2>1 DEF Threads!PeerClose, Threads!Break
    <3>2. /\ Threads!Broken(p.connect) = p.connect /\ Threads!Broken(p.read) = p.read
          /\ Threads!Broken(p.write) = p.write
      BY <1>3 DEF Threads!Broken
    <3>. QED BY <1>1, <2>1, <3>1, <3>2, ThreadIs, ZenonT(60)
  <2>2. CASE p.state # "connected"
    <3>1. q = [p EXCEPT !.out = <<>>]
      BY <2>2 DEF Threads!PeerClose
    <3>. QED BY <1>1, <2>2, <3>1, ThreadIs, SMTT(20)
  <2>. QED BY <2>1, <2>2
<1>5. thPipe'[k] = q
  BY <1>2, ThreadTypes
<1>. HIDE DEF q
<1>6. q \in ThreadPipes
  BY <1>1, <1>4, ThreadIs, ThreadOnes DEF ThreadPipes, Threads!Pipe, Threads!PipeStates
<1>7. MainOK(q, threadPc[k], 1, Stage(k))
  <2>1. q.state \in {"connected", "peerClosed", "closed"} /\ q.state # "listening"
    BY <1>1, <1>3, <1>4 DEF MainOK
  <2>. QED BY <1>1, <1>3, <1>4, <2>1 DEF MainOK
<1>8. PlaceOK(q, pchRequest[k], threadPc[k])
  BY <1>1, <1>3, <1>4 DEF PlaceOK, AtMostOne
<1>9. ThreadStep(k)
  <2>1. CASE p.state = "connected"
    <3>1. ThreadReply(k)!Leave
      BY <1>2, <1>4, <1>5, <2>1 DEF ThreadReply!Leave
    <3>. QED BY <3>1 DEF ThreadStep, ThreadReply!RRNext
  <2>2. CASE p.state # "connected"
    <3>1. p.out = <<>>
      BY <1>1, <2>2 DEF PlaceOK
    <3>. QED BY <1>2, <1>4, <1>5, <2>2, <3>1, ThreadIdles
  <2>. QED BY <2>1, <2>2
<1>10. /\ clientPc' \in [Client -> {"open", "waitPipe", "ask", "read", "key", "noPipe",
                                    "timedOut", "hungUp", "closed", "killed"}]
       /\ clientPc'[c] # "ask" /\ \A d \in Client \ {c} : clientPc'[d] = clientPc[d]
  BY <1>2 DEF ThreadsInv, Threads!TypeOK
<1>11. /\ opened' \in [Threads!Inst -> 0 .. 1] /\ thAsked' \in [Threads!Inst -> Nat]
       /\ thAnswers' \in [Threads!Inst -> Seq(Threads!Request)] /\ opened'[k] = 1
       /\ handle' = [handle EXCEPT ![c] = k]
       /\ \A j \in Threads!Inst \ {k} : /\ opened'[j] = opened[j] /\ thAsked'[j] = thAsked[j]
                                        /\ thAnswers'[j] = thAnswers[j]
  BY <1>1, <1>2, ThreadTypes
<1>12. /\ thPipe' = [thPipe EXCEPT ![k] = q] /\ UNCHANGED <<Threads!serverVars, program>>
       /\ \A d \in Client \ {c} : clientPc'[d] = clientPc[d] /\ handle[d] # k
       /\ clientPc'[c] = "ask" => Empty(q, pchRequest[k])
  BY <1>1, <1>2, <1>10
<1>. QED BY <1>6, <1>7, <1>8, <1>9, <1>10, <1>11, <1>12, ThreadClient

\* The process finds no instance, waits for one, or finds that it was hung up on.
LEMMA ThreadGoes ==
    ASSUME ThreadsInv, NEW c \in Client,
           Threads!CreateFileFails(c) \/ Threads!WaitNamedPipe(c) \/ Threads!readReplyFails(c)
    PROVE  ThreadsInv' /\ \A j \in Threads!Inst : ThreadStep(j)
<1>1. PICK place \in {"waitPipe", "noPipe", "open", "timedOut", "hungUp"} :
         clientPc' = [clientPc EXCEPT ![c] = place]
  BY DEF Threads!CreateFileFails, Threads!WaitNamedPipe, Threads!readReplyFails,
         Threads!clientGoes
<1>2. UNCHANGED <<thPipe, mainPc, hPipe, threadPc, pchRequest, program, handle, opened,
                  thAsked, thAnswers>>
  BY DEF Threads!CreateFileFails, Threads!WaitNamedPipe, Threads!readReplyFails,
         Threads!serverVars, Threads!historyVars
<1>3. ASSUME NEW k \in Threads!Inst PROVE ThreadInv(k)' /\ ThreadStep(k)
  BY <1>2, ThreadKept DEF Stage
<1>4. Threads!TypeOK'
  BY <1>1, <1>2 DEF ThreadsInv, Threads!TypeOK
<1>5. ASSUME NEW d \in Client PROVE ClientInv(d)'
  <2>1. ClientInv(d) /\ (clientPc'[d] = clientPc[d] \/ clientPc'[d] = place)
    BY <1>1 DEF ThreadsInv, Threads!TypeOK
  <2>. QED BY <1>2, <2>1 DEF ClientInv, Empty
<1>. QED BY <1>2, <1>3, <1>4, <1>5 DEF ThreadsInv

LEMMA ThreadsStart == Threads!Init => ThreadsInv /\ \A k \in Threads!Inst : ThreadReply(k)!RRInit
<1>. SUFFICES ASSUME Threads!Init
              PROVE  ThreadsInv /\ \A k \in Threads!Inst : ThreadReply(k)!RRInit
  OBVIOUS
<1>. DEFINE p == Threads!NewPipe("closed")
<1>1. /\ p = [state |-> "closed", in |-> <<>>, out |-> <<>>, connect |-> "idle",
              read |-> "idle", write |-> "idle", buffer |-> <<>>]
      /\ p \in ThreadPipes
  BY ThreadOnes DEF ThreadPipes, Threads!Pipe, Threads!NewPipe, Threads!Operation,
                    Threads!PipeStates
<1>2. /\ thPipe = [k \in Threads!Inst |-> p] /\ mainPc = "create" /\ hPipe = Threads!NoInst
      /\ threadPc = [k \in Threads!Inst |-> "none"]
      /\ pchRequest = [k \in Threads!Inst |-> <<>>]
      /\ program \in [Client -> {"client", "clientinput"}]
      /\ clientPc = [c \in Client |-> "open"] /\ handle = [c \in Client |-> Threads!NoInst]
      /\ opened = [k \in Threads!Inst |-> 0] /\ thAsked = [k \in Threads!Inst |-> 0]
      /\ thAnswers = [k \in Threads!Inst |-> <<>>]
  BY DEF Threads!Init
<1>. HIDE DEF p
<1>3. Threads!TypeOK
  BY <1>1, <1>2, ThreadOnes DEF Threads!TypeOK, ThreadPipes
<1>4. ASSUME NEW k \in Threads!Inst PROVE ThreadInv(k) /\ ThreadReply(k)!RRInit
  <2>1. Stage(k) = "uncreated"
    BY <1>2 DEF Stage, Threads!Inst, Threads!NoInst
  <2>2. /\ thPipe[k] = p /\ threadPc[k] = "none" /\ pchRequest[k] = <<>> /\ opened[k] = 0
        /\ thAsked[k] = 0 /\ thAnswers[k] = <<>> /\ (thPipe[k].state = "connected") = FALSE
    BY <1>1, <1>2
  <2>. QED BY <1>1, <2>1, <2>2 DEF ThreadInv, MainOK, PlaceOK, AtMostOne, ThreadReply!RRInit
<1>5. ASSUME NEW c \in Client PROVE ClientInv(c)
  BY <1>2 DEF ClientInv
<1>. QED BY <1>2, <1>3, <1>4, <1>5 DEF ThreadsInv

LEMMA ThreadsNext ==
    ASSUME ThreadsInv, [Threads!Next]_(Threads!vars)
    PROVE  ThreadsInv' /\ \A k \in Threads!Inst : ThreadStep(k)
<1>1. CASE Threads!Main
  BY <1>1, ThreadCreates, ThreadBlocks, ThreadStarts, ThreadRefuses DEF Threads!Main
<1>2. ASSUME NEW k \in Threads!Inst, Threads!InstanceThread(k)
      PROVE  ThreadsInv' /\ \A j \in Threads!Inst : ThreadStep(j)
  <2>1. \/ Threads!readRequest(k) \/ Threads!readFails(k) \/ Threads!writeReply(k)
        \/ Threads!writeFails(k) \/ Threads!disconnect(k)
    BY <1>2 DEF Threads!InstanceThread
  <2>. QED BY <2>1, ThreadTakes, ThreadEnds, ThreadAnswers, ThreadDisconnects
<1>3. ASSUME NEW c \in Client, Threads!ClientProcess(c) \/ Threads!User(c)
      PROVE  ThreadsInv' /\ \A j \in Threads!Inst : ThreadStep(j)
  <2>1. \/ Threads!CreateFile(c)
        \/ Threads!CreateFileFails(c) \/ Threads!WaitNamedPipe(c) \/ Threads!readReplyFails(c)
        \/ Threads!readReply(c)
        \/ Threads!writeRequest(c) \/ Threads!writeTooLong(c)
        \/ Threads!clientClose(c) \/ Threads!clientKilled(c)
    BY <1>3 DEF Threads!ClientProcess, Threads!User
  <2>. QED BY <2>1, ThreadOpens, ThreadGoes, ThreadReceives, ThreadAsks, ThreadLeaves
<1>4. CASE UNCHANGED Threads!vars
  <2>1. UNCHANGED <<thPipe, mainPc, hPipe, threadPc, pchRequest, program, clientPc, handle,
                    opened, thAsked, thAnswers>>
    BY <1>4 DEF Threads!vars, Threads!serverVars, Threads!processVars, Threads!historyVars
  <2>2. ASSUME NEW k \in Threads!Inst PROVE ThreadInv(k)' /\ ThreadStep(k)
    BY <2>1, ThreadKept DEF Stage
  <2>3. ASSUME NEW c \in Client PROVE ClientInv(c)'
    BY <2>1 DEF ThreadsInv, ClientInv, Empty
  <2>4. Threads!TypeOK'
    BY <2>1 DEF ThreadsInv, Threads!TypeOK
  <2>. QED BY <2>1, <2>2, <2>3, <2>4 DEF ThreadsInv
<1>. QED BY <1>1, <1>2, <1>3, <1>4 DEF Threads!Next

-----------------------------------------------------------------------------
(***************************************************************************)
(* pipedemo and pipewithsizedemo: how what B has written lies in its pipe  *)
(***************************************************************************)

\* Where each of B's W words starts in all that B has written: one unit, its size or the
\* beginning of the message, and then the word.
Starts(W, words, start) ==
    /\ start \in [1 .. W + 1 -> Nat]
    /\ \A n \in 1 .. W : start[n + 1] = start[n] + words[n] + 1
    /\ \A n \in 1 .. W, h \in 1 .. W + 1 : n < h => start[n] + words[n] + 1 <= start[h]

\* The pipe holds L units, what A has not read, from unit c on, of the words before
\* word w.
InPipe(W, words, start, c, w, L, q) ==
    /\ c \in Nat /\ w \in 1 .. W + 1 /\ L = start[w] - c
    /\ \A n \in 1 .. W : \A k \in 0 .. words[n] :
          start[n] + k + 1 - c \in 1 .. L => q[start[n] + k + 1 - c] = <<n, k>>

\* A's reader is at the beginning of word m, or has read its size.
ReaderAt(W, words, start, c, w, m, reader, size) ==
    /\ m \in 1 .. W + 1 /\ m <= w
    /\ reader # "body" => c = start[m]
    /\ reader = "body" => c = start[m] + 1 /\ m < w /\ size = words[m] /\ size > 0

\* The words between the one that was printed last and word m are empty.
Between(words, printed, m) ==
    printed < m /\ \A n \in printed + 1 .. m - 1 : words[n] = 0

AreLens(W, words) == \A n \in 1 .. W : words[n] \in Nat
Same(N, s, t) == \A n \in 1 .. N : t[n] = s[n]

Framed(W, words, L, q, writer, reader, size, printed) ==
    \E start, c, w, m :
       /\ Starts(W, words, start) /\ InPipe(W, words, start, c, w, L, q)
       /\ ReaderAt(W, words, start, c, w, m, reader, size)
       /\ Between(words, printed, m) /\ (writer # "ended" => w = W + 1)

\* Word m, of len units, is the next to be read; when it is, the reader is at the next
\* after that.
WordAt(W, words, L, q, writer, size, printed, m, len) ==
    /\ m \in 1 .. W /\ len = words[m] /\ len <= L /\ \A k \in 1 .. len : q[k] = <<m, k>>
    /\ Between(words, printed, m)
    /\ \A r : (\A j \in 1 .. L - len : r[j] = q[len + j]) =>
          Framed(W, words, L - len, r, writer, "wait", size, m)

\* The size of word m is.
SizeAt(W, words, L, q, writer, printed, m) ==
    /\ m \in 1 .. W /\ q[1] = <<m, 0>>
    /\ \A r : (\A j \in 1 .. L - 1 : r[j] = q[1 + j]) =>
          Framed(W, words, L - 1, r, writer, IF words[m] > 0 THEN "body" ELSE "wait",
                 words[m], printed)

-----------------------------------------------------------------------------
LEMMA TwoTaken ==
    ASSUME NEW S, NEW s \in Seq(S), NEW n \in Nat
    PROVE  /\ Two!Taken(s, n) \in Seq(S) /\ Two!Left(s, n) \in Seq(S)
           /\ Two!Taken(s, n) \o Two!Left(s, n) = s
           /\ n <= Len(s) =>
                 /\ Len(Two!Taken(s, n)) = n /\ Len(Two!Left(s, n)) = Len(s) - n
                 /\ \A j \in 1 .. n : Two!Taken(s, n)[j] = s[j]
                 /\ \A j \in 1 .. Len(s) - n : Two!Left(s, n)[j] = s[n + j]
<1>. DEFINE l == Two!Least(n, Len(s))
<1>1. Len(s) \in Nat /\ l \in Nat /\ l <= Len(s) /\ (n <= Len(s) => l = n)
  BY DEF Two!Least
<1>. HIDE DEF l
<1>2. Two!Taken(s, n) = SubSeq(s, 1, l) /\ Two!Left(s, n) = SubSeq(s, l + 1, Len(s))
  BY DEF l, Two!Taken, Two!Left
<1>3. \A j \in 1 .. Len(s) : s[j] \in S
  OBVIOUS
<1>4. /\ SubSeq(s, 1, l) \in Seq(S)
      /\ Len(SubSeq(s, 1, l)) = IF 1 <= l THEN l - 1 + 1 ELSE 0
      /\ \A j \in 1 .. l - 1 + 1 : SubSeq(s, 1, l)[j] = s[1 + j - 1]
  <2>1. 1 \in Int /\ l \in Int /\ \A j \in 1 .. l : s[j] \in S
    BY <1>1, <1>3
  <2>. QED BY <2>1, SubSeqProperties
<1>5. /\ SubSeq(s, l + 1, Len(s)) \in Seq(S)
      /\ Len(SubSeq(s, l + 1, Len(s))) = IF l + 1 <= Len(s) THEN Len(s) - (l + 1) + 1 ELSE 0
      /\ \A j \in 1 .. Len(s) - (l + 1) + 1 : SubSeq(s, l + 1, Len(s))[j] = s[l + 1 + j - 1]
  <2>1. l + 1 \in Int /\ Len(s) \in Int /\ \A j \in l + 1 .. Len(s) : s[j] \in S
    BY <1>1, <1>3
  <2>. QED BY <2>1, SubSeqProperties
<1>6. SubSeq(s, 1, l) \o SubSeq(s, l + 1, Len(s)) = s
  <2>1. /\ 1 \in 1 .. Len(s) + 1 /\ l \in 1 - 1 .. Len(s) /\ Len(s) \in l .. Len(s)
    BY <1>1
  <2>2. SubSeq(s, 1, l) \o SubSeq(s, l + 1, Len(s)) = SubSeq(s, 1, Len(s))
    BY <2>1, ConcatAdjacentSubSeq
  <2>. QED BY <2>2, SubSeqFull
<1>7. ASSUME n <= Len(s)
      PROVE  /\ Len(SubSeq(s, 1, l)) = n /\ Len(SubSeq(s, l + 1, Len(s))) = Len(s) - n
             /\ \A j \in 1 .. n : SubSeq(s, 1, l)[j] = s[j]
             /\ \A j \in 1 .. Len(s) - n : SubSeq(s, l + 1, Len(s))[j] = s[n + j]
  <2>1. l = n
    BY <1>1, <1>7
  <2>2. Len(SubSeq(s, 1, l)) = n /\ Len(SubSeq(s, l + 1, Len(s))) = Len(s) - n
    BY <1>1, <1>4, <1>5, <2>1
  <2>3. ASSUME NEW j \in 1 .. n PROVE SubSeq(s, 1, l)[j] = s[j]
    <3>1. j \in 1 .. l - 1 + 1 /\ 1 + j - 1 = j
      BY <2>1
    <3>. QED BY <1>4, <3>1
  <2>4. ASSUME NEW j \in 1 .. Len(s) - n PROVE SubSeq(s, l + 1, Len(s))[j] = s[n + j]
    <3>1. j \in 1 .. Len(s) - (l + 1) + 1 /\ l + 1 + j - 1 = n + j
      BY <1>1, <2>1
    <3>. QED BY <1>5, <3>1
  <2>. QED BY <2>2, <2>3, <2>4
<1>. QED BY <1>2, <1>4, <1>5, <1>6, <1>7

\* Behind L units there are those of word n.
Written(L, r, n, len) == \A k \in 0 .. len : r[L + k + 1] = <<n, k>>

\* A word is written.
LEMMA FrameWritten ==
    ASSUME NEW W \in Nat, NEW words, AreLens(W, words),
           NEW L \in Nat, NEW q, NEW reader, NEW size, NEW printed \in Nat,
           Framed(W, words, L, q, "type", reader, size, printed),
           NEW len \in Nat, NEW more, Same(W, words, more), more[W + 1] = len,
           NEW r, Same(L, q, r),
           Written(L, r, W + 1, len)
    PROVE  Framed(W + 1, more, L + len + 1, r, "write", reader, size, printed)
<1>0. /\ \A n \in 1 .. W : words[n] \in Nat /\ more[n] = words[n]
      /\ \A j \in 1 .. L : r[j] = q[j]
      /\ \A k \in 0 .. len : r[L + k + 1] = <<W + 1, k>>
  BY DEF AreLens, Same, Written
<1>1. PICK start, c, w, m :
          /\ Starts(W, words, start) /\ InPipe(W, words, start, c, w, L, q)
          /\ ReaderAt(W, words, start, c, w, m, reader, size)
          /\ Between(words, printed, m) /\ w = W + 1
  BY DEF Framed
<1>2. /\ start \in [1 .. W + 1 -> Nat] /\ c \in Nat /\ L = start[W + 1] - c
      /\ m \in 1 .. W + 1
  BY <1>1 DEF Starts, InPipe, ReaderAt
<1>. DEFINE after == [n \in 1 .. W + 2 |-> IF n = W + 2 THEN start[W + 1] + len + 1
                                                      ELSE start[n]]
<1>3. W + 1 + 1 = W + 2
  OBVIOUS
<1>4. after \in [1 .. W + 2 -> Nat] /\ after[W + 2] = start[W + 1] + len + 1
      /\ \A n \in 1 .. W + 1 : after[n] = start[n] /\ start[n] \in Nat
  <2>1. start[W + 1] \in Nat
    BY <1>2
  <2>2. start[W + 1] + len + 1 \in Nat
    BY <1>3, <2>1
  <2>3. \A n \in 1 .. W + 2 : n # W + 2 => n \in 1 .. W + 1
    OBVIOUS
  <2>4. \A n \in 1 .. W + 1 : n \in 1 .. W + 2 /\ n # W + 2
    OBVIOUS
  <2>5. W + 2 \in 1 .. W + 2
    OBVIOUS
  <2>. QED BY <1>2, <2>1, <2>2, <2>3, <2>4, <2>5
<1>. HIDE DEF after
<1>5. \A n \in 1 .. W : start[n + 1] = start[n] + words[n] + 1
  BY <1>1 DEF Starts
<1>6. \A n \in 1 .. W, h \in 1 .. W + 1 : n < h => start[n] + words[n] + 1 <= start[h]
  BY <1>1 DEF Starts
<1>7. start[W + 1] \in Nat /\ L = start[W + 1] - c /\ c \in Nat
  BY <1>2
<1>8. Starts(W + 1, more, after)
  <2>1. ASSUME NEW n \in 1 .. W + 1 PROVE after[n + 1] = after[n] + more[n] + 1
    <3>1. CASE n = W + 1
      BY <1>4, <3>1
    <3>2. CASE n # W + 1
      <4>1. n \in 1 .. W /\ n + 1 \in 1 .. W + 1
        BY <3>2
      <4>2. after[n] = start[n] /\ after[n + 1] = start[n + 1] /\ more[n] = words[n]
        BY <1>0, <1>4, <4>1
      <4>. QED BY <1>5, <4>1, <4>2
    <3>. QED BY <3>1, <3>2
  <2>2. ASSUME NEW n \in 1 .. W + 1, NEW h \in 1 .. W + 2, n < h
        PROVE  after[n] + more[n] + 1 <= after[h]
    <3>1. CASE h # W + 2
      <4>1. n \in 1 .. W /\ h \in 1 .. W + 1
        BY <2>2, <3>1
      <4>2. after[n] = start[n] /\ after[h] = start[h] /\ more[n] = words[n]
        BY <1>0, <1>4, <4>1
      <4>. QED BY <1>6, <2>2, <4>1, <4>2
    <3>2. CASE h = W + 2 /\ n = W + 1
      BY <1>4, <1>7, <3>2, SMTT(20)
    <3>3. CASE h = W + 2 /\ n # W + 1
      <4>1. n \in 1 .. W /\ W + 1 \in 1 .. W + 1 /\ n < W + 1
        BY <3>3
      <4>2. start[n] + words[n] + 1 <= start[W + 1]
        BY <1>6, <4>1
      <4>3. /\ after[n] = start[n] /\ more[n] = words[n] /\ start[n] \in Nat
            /\ words[n] \in Nat /\ after[h] = start[W + 1] + len + 1
        BY <1>0, <1>4, <3>3, <4>1
      <4>. QED BY <1>3, <1>7, <4>2, <4>3
    <3>. QED BY <3>1, <3>2, <3>3
  <2>. QED BY <1>3, <1>4, <2>1, <2>2 DEF Starts
<1>9. InPipe(W + 1, more, after, c, W + 2, L + len + 1, r)
  <2>1. ASSUME NEW n \in 1 .. W + 1, NEW k \in 0 .. more[n],
               after[n] + k + 1 - c \in 1 .. L + len + 1
        PROVE  r[after[n] + k + 1 - c] = <<n, k>>
    <3>1. CASE n = W + 1
      <4>1. after[n] = start[W + 1] /\ k \in 0 .. len
        BY <1>4, <3>1
      <4>2. k \in Int
        BY <1>3, <4>1
      <4>3. after[n] + k + 1 - c = L + k + 1
        BY <1>3, <1>7, <4>1, <4>2
      <4>4. r[L + k + 1] = <<W + 1, k>>
        BY <1>0, <4>1
      <4>. QED BY <3>1, <4>3, <4>4
    <3>2. CASE n # W + 1
      <4>1. n \in 1 .. W /\ W + 1 \in 1 .. W + 1 /\ n < W + 1
        BY <3>2
      <4>2. /\ more[n] = words[n] /\ words[n] \in Nat /\ after[n] = start[n]
            /\ start[n] \in Nat
        BY <1>0, <1>4, <4>1
      <4>3. start[n] + words[n] + 1 <= start[W + 1]
        BY <1>6, <4>1
      <4>4. k \in 0 .. words[n] /\ k \in Int /\ k <= words[n]
        BY <1>3, <4>2
      <4>5. PICK j \in Int : j = start[n] + k + 1 - c
        BY <1>3, <1>7, <4>2, <4>4
      <4>6. 1 <= j
        BY <2>1, <4>2, <4>5
      <4>7. j <= L
        BY <1>3, <1>7, <4>2, <4>3, <4>4, <4>5
      <4>8. j \in 1 .. L
        BY <4>6, <4>7
      <4>9. q[j] = <<n, k>>
        BY <1>1, <4>1, <4>4, <4>5, <4>8 DEF InPipe
      <4>. QED BY <1>0, <4>2, <4>5, <4>8, <4>9
    <3>. QED BY <3>1, <3>2
  <2>2. L + len + 1 = after[W + 2] - c
    <3>1. after[W + 2] = start[W + 1] + len + 1
      BY <1>4
    <3>. QED BY <1>3, <1>7, <3>1
  <2>3. W + 2 \in 1 .. W + 1 + 1 /\ c \in Nat
    BY <1>2, <1>3
  <2>. QED BY <2>1, <2>2, <2>3 DEF InPipe
<1>10. ReaderAt(W + 1, more, after, c, W + 2, m, reader, size)
  <2>1. after[m] = start[m] /\ m \in 1 .. W + 1 + 1 /\ m <= W + 2
    BY <1>2, <1>4
  <2>2. reader = "body" => m \in 1 .. W /\ more[m] = words[m] /\ m < W + 2
    BY <1>0, <1>1, <1>2 DEF ReaderAt
  <2>. QED BY <1>1, <2>1, <2>2 DEF ReaderAt
<1>11. Between(more, printed, m)
  <2>1. printed < m /\ \A n \in printed + 1 .. m - 1 : words[n] = 0
    BY <1>1 DEF Between
  <2>2. \A n \in printed + 1 .. m - 1 : n \in 1 .. W
    BY <1>2
  <2>. QED BY <1>0, <2>1, <2>2 DEF Between
<1>. QED BY <1>3, <1>8, <1>9, <1>10, <1>11 DEF Framed

\* n units are read.
LEMMA FrameShift ==
    ASSUME NEW W \in Nat, NEW words, AreLens(W, words),
           NEW L \in Nat, NEW q, NEW start, NEW c, NEW w,
           Starts(W, words, start), InPipe(W, words, start, c, w, L, q),
           NEW x \in Nat, x <= L, NEW r, \A j \in 1 .. L - x : r[j] = q[x + j]
    PROVE  InPipe(W, words, start, c + x, w, L - x, r)
<1>. USE DEF AreLens
<1>1. /\ start \in [1 .. W + 1 -> Nat] /\ c \in Nat /\ w \in 1 .. W + 1 /\ L = start[w] - c
      /\ start[w] \in Nat
  BY DEF Starts, InPipe
<1>2. c + x \in Nat /\ L - x = start[w] - (c + x)
  BY <1>1
<1>3. ASSUME NEW n \in 1 .. W, NEW k \in 0 .. words[n],
             start[n] + k + 1 - (c + x) \in 1 .. L - x
      PROVE  r[start[n] + k + 1 - (c + x)] = <<n, k>>
  <2>1. k \in Int /\ start[n] \in Nat /\ words[n] \in Nat
    BY <1>1
  <2>2. PICK j \in 1 .. L - x : j = start[n] + k + 1 - (c + x)
    BY <1>3
  <2>3. x + j = start[n] + k + 1 - c
    <3>1. x \in Nat /\ j \in Int /\ c \in Nat
      BY <1>1, <2>2
    <3>. QED BY <2>1, <2>2, <3>1
  <2>4. x + j \in 1 .. L
    <3>1. x \in Nat /\ j \in Int /\ 1 <= j /\ j <= L - x /\ L \in Nat
      BY <2>2
    <3>. QED BY <3>1
  <2>5. start[n] + k + 1 - c \in 1 .. L
    BY <2>3, <2>4
  <2>6. q[start[n] + k + 1 - c] = <<n, k>>
    BY <2>5 DEF InPipe
  <2>. QED BY <2>2, <2>3, <2>6
<1>. QED BY <1>1, <1>2, <1>3 DEF InPipe

\* What is not read yet begins with the word the reader is at.
LEMMA FrameHead ==
    ASSUME NEW W \in Nat, NEW words, AreLens(W, words),
           NEW L \in Nat \ {0}, NEW q, NEW start, NEW c, NEW w, NEW m, NEW reader,
           NEW size, Starts(W, words, start), InPipe(W, words, start, c, w, L, q),
           ReaderAt(W, words, start, c, w, m, reader, size)
    PROVE  /\ m \in 1 .. W /\ m + 1 \in 1 .. W + 1 /\ m + 1 <= w
           /\ start[m + 1] - c <= L /\ start[m + 1] = start[m] + words[m] + 1
           /\ start[m] \in Nat /\ words[m] \in Nat /\ c \in Nat
<1>. USE DEF AreLens
<1>1. /\ start \in [1 .. W + 1 -> Nat] /\ c \in Nat /\ w \in 1 .. W + 1 /\ L = start[w] - c
      /\ m \in 1 .. W + 1 /\ m <= w /\ start[w] \in Nat /\ start[m] \in Nat
  BY DEF Starts, InPipe, ReaderAt
<1>2. c >= start[m]
  <2>1. CASE reader = "body"
    BY <1>1, <2>1 DEF ReaderAt
  <2>2. CASE reader # "body"
    BY <1>1, <2>2 DEF ReaderAt
  <2>. QED BY <2>1, <2>2
<1>3. m # w
  BY <1>1, <1>2
<1>4. m \in 1 .. W /\ m + 1 \in 1 .. W + 1 /\ m + 1 <= w
  BY <1>1, <1>3
<1>5. start[m + 1] = start[m] + words[m] + 1 /\ start[m + 1] \in Nat
  BY <1>1, <1>4 DEF Starts
<1>6. start[m + 1] <= start[w]
  <2>1. start[m] + words[m] + 1 <= start[w]
    BY <1>1, <1>4, SMTT(20) DEF Starts
  <2>. QED BY <1>5, <2>1
<1>. QED BY <1>1, <1>4, <1>5, <1>6

\* The size of a word, or the beginning of a message, is read.
LEMMA FrameSize ==
    ASSUME NEW W \in Nat, NEW words, AreLens(W, words),
           NEW L \in Nat \ {0}, NEW q, NEW writer, NEW size, NEW printed \in Nat,
           Framed(W, words, L, q, writer, "read", size, printed)
    PROVE  \E m : SizeAt(W, words, L, q, writer, printed, m)
<1>. USE DEF AreLens
<1>1. PICK start, c, w, m :
          /\ Starts(W, words, start) /\ InPipe(W, words, start, c, w, L, q)
          /\ ReaderAt(W, words, start, c, w, m, "read", size)
          /\ Between(words, printed, m) /\ (writer # "ended" => w = W + 1)
  BY DEF Framed
<1>2. /\ m \in 1 .. W /\ m + 1 \in 1 .. W + 1 /\ m + 1 <= w
      /\ start[m + 1] - c <= L /\ start[m + 1] = start[m] + words[m] + 1
      /\ start[m] \in Nat /\ words[m] \in Nat /\ c \in Nat
  BY <1>1, FrameHead
<1>3. c = start[m]
  BY <1>1 DEF ReaderAt
<1>4. q[1] = <<m, 0>>
  <2>1. start[m] + 0 + 1 - c = 1 /\ 1 \in 1 .. L /\ 0 \in 0 .. words[m]
    BY <1>2, <1>3
  <2>. QED BY <1>1, <1>2, <2>1 DEF InPipe
<1>5. ASSUME NEW r, \A j \in 1 .. L - 1 : r[j] = q[1 + j]
      PROVE  Framed(W, words, L - 1, r, writer,
                           IF words[m] > 0 THEN "body" ELSE "wait", words[m], printed)
  <2>1. InPipe(W, words, start, c + 1, w, L - 1, r)
    <3>1. 1 \in Nat /\ L \in Nat /\ 1 <= L
      OBVIOUS
    <3>. QED BY <1>1, <1>5, <3>1, FrameShift
  <2>2. CASE words[m] > 0
    <3>1. ReaderAt(W, words, start, c + 1, w, m, "body", words[m])
      <4>1. w \in 1 .. W + 1
        BY <1>1 DEF InPipe
      <4>. QED BY <1>2, <1>3, <2>2, <4>1 DEF ReaderAt
    <3>. QED BY <1>1, <2>1, <2>2, <3>1 DEF Framed
  <2>3. CASE ~(words[m] > 0)
    <3>1. words[m] = 0 /\ start[m + 1] = c + 1
      BY <1>2, <1>3, <2>3
    <3>2. ReaderAt(W, words, start, c + 1, w, m + 1, "wait", words[m])
      BY <1>2, <3>1 DEF ReaderAt
    <3>3. Between(words, printed, m + 1)
      BY <1>1, <1>2, <3>1 DEF Between
    <3>. QED BY <1>1, <2>1, <2>3, <3>2, <3>3 DEF Framed
  <2>. QED BY <2>2, <2>3
<1>. QED BY <1>2, <1>4, <1>5 DEF SizeAt

\* The word is read after its size.
LEMMA FrameBody ==
    ASSUME NEW W \in Nat, NEW words, AreLens(W, words),
           NEW L \in Nat \ {0}, NEW q, NEW writer, NEW size, NEW printed \in Nat,
           Framed(W, words, L, q, writer, "body", size, printed)
    PROVE  \E m : size > 0 /\ WordAt(W, words, L, q, writer, size, printed, m, size)
<1>. USE DEF AreLens
<1>1. PICK start, c, w, m :
          /\ Starts(W, words, start) /\ InPipe(W, words, start, c, w, L, q)
          /\ ReaderAt(W, words, start, c, w, m, "body", size)
          /\ Between(words, printed, m) /\ (writer # "ended" => w = W + 1)
  BY DEF Framed
<1>2. /\ m \in 1 .. W /\ m + 1 \in 1 .. W + 1 /\ m + 1 <= w
      /\ start[m + 1] - c <= L /\ start[m + 1] = start[m] + words[m] + 1
      /\ start[m] \in Nat /\ words[m] \in Nat /\ c \in Nat
  BY <1>1, FrameHead
<1>3. c = start[m] + 1 /\ size = words[m] /\ size > 0 /\ size \in Nat
  BY <1>1, <1>2 DEF ReaderAt
<1>4. size <= L /\ start[m + 1] = c + size
  BY <1>2, <1>3
<1>5. ASSUME NEW k \in 1 .. size PROVE q[k] = <<m, k>>
  <2>1. start[m] + k + 1 - c = k /\ k \in 1 .. L /\ k \in 0 .. words[m]
    BY <1>2, <1>3, <1>4
  <2>. QED BY <1>1, <1>2, <2>1 DEF InPipe
<1>6. ASSUME NEW r, \A j \in 1 .. L - size : r[j] = q[size + j]
      PROVE  Framed(W, words, L - size, r, writer, "wait", size, m)
  <2>1. InPipe(W, words, start, c + size, w, L - size, r)
    <3>1. L \in Nat /\ size \in Nat /\ size <= L
      BY <1>3, <1>4
    <3>. QED BY <1>1, <1>6, <3>1, FrameShift
  <2>2. ReaderAt(W, words, start, c + size, w, m + 1, "wait", size)
    BY <1>2, <1>4 DEF ReaderAt
  <2>3. Between(words, m, m + 1)
    BY <1>2 DEF Between
  <2>. QED BY <1>1, <2>1, <2>2, <2>3 DEF Framed
<1>. QED BY <1>1, <1>2, <1>3, <1>4, <1>5, <1>6 DEF WordAt

\* A word whose size was read is still there.
LEMMA FrameRest ==
    ASSUME NEW W \in Nat, NEW words, AreLens(W, words),
           NEW L \in Nat, NEW q, NEW writer, NEW size, NEW printed \in Nat,
           Framed(W, words, L, q, writer, "body", size, printed)
    PROVE  L # 0
<1>. USE DEF AreLens
<1>1. PICK start, c, w, m :
          /\ Starts(W, words, start) /\ InPipe(W, words, start, c, w, L, q)
          /\ ReaderAt(W, words, start, c, w, m, "body", size)
  BY DEF Framed
<1>2. /\ c = start[m] + 1 /\ m \in 1 .. W /\ w \in 1 .. W + 1 /\ m < w
      /\ size = words[m] /\ size > 0 /\ L = start[w] - c
  BY <1>1 DEF InPipe, ReaderAt
<1>3. start[m] \in Nat /\ start[w] \in Nat /\ words[m] \in Nat
  BY <1>1, <1>2 DEF Starts
<1>4. start[m] + words[m] + 1 <= start[w]
  BY <1>1, <1>2, SMTT(20) DEF Starts
<1>. QED BY <1>2, <1>3, <1>4

\* What was read as a size matters only before the word is read.
LEMMA FrameSizeless ==
    ASSUME NEW W, NEW words, NEW L, NEW q, NEW writer, NEW size, NEW other, NEW printed,
           Framed(W, words, L, q, writer, "wait", size, printed)
    PROVE  Framed(W, words, L, q, writer, "wait", other, printed)
<1>1. PICK start, c, w, m :
          /\ Starts(W, words, start) /\ InPipe(W, words, start, c, w, L, q)
          /\ ReaderAt(W, words, start, c, w, m, "wait", size)
          /\ Between(words, printed, m) /\ (writer # "ended" => w = W + 1)
  BY DEF Framed
<1>2. ReaderAt(W, words, start, c, w, m, "wait", other)
  BY <1>1 DEF ReaderAt
<1>. QED BY <1>1, <1>2 DEF Framed

\* A message is read: r is what comes after its beginning.
LEMMA FrameMessage ==
    ASSUME NEW W \in Nat, NEW words, AreLens(W, words),
           NEW L \in Nat \ {0}, NEW q, NEW writer, NEW size, NEW printed \in Nat,
           Framed(W, words, L, q, writer, "read", size, printed),
           NEW r, \A j \in 1 .. L - 1 : r[j] = q[1 + j]
    PROVE  \E m, n \in 1 .. W :
              /\ q[1] = <<m, 0>>
              /\ words[m] = 0 => Framed(W, words, L - 1, r, writer, "wait", size, printed)
              /\ words[m] > 0 =>
                    WordAt(W, words, L - 1, r, writer, size, printed, n, words[m])
<1>1. PICK m : SizeAt(W, words, L, q, writer, printed, m)
  BY FrameSize
<1>2. /\ m \in 1 .. W /\ q[1] = <<m, 0>>
      /\ Framed(W, words, L - 1, r, writer, IF words[m] > 0 THEN "body" ELSE "wait",
                words[m], printed)
  BY <1>1 DEF SizeAt
<1>3. CASE words[m] > 0
  <2>1. Framed(W, words, L - 1, r, writer, "body", words[m], printed)
    BY <1>2, <1>3
  <2>2. L - 1 \in Nat
    OBVIOUS
  <2>3. L - 1 \in Nat \ {0}
    BY <2>1, <2>2, FrameRest
  <2>4. PICK n : WordAt(W, words, L - 1, r, writer, words[m], printed, n, words[m])
    BY <2>1, <2>3, FrameBody
  <2>5. WordAt(W, words, L - 1, r, writer, size, printed, n, words[m])
    <3>1. ASSUME NEW s,
                 Framed(W, words, L - 1 - words[m], s, writer, "wait", words[m], n)
          PROVE  Framed(W, words, L - 1 - words[m], s, writer, "wait", size, n)
      BY <3>1, FrameSizeless
    <3>. QED BY <2>4, <3>1 DEF WordAt
  <2>6. n \in 1 .. W
    BY <2>4 DEF WordAt
  <2>. QED BY <1>2, <1>3, <2>5, <2>6
<1>4. CASE ~(words[m] > 0)
  <2>1. Framed(W, words, L - 1, r, writer, "wait", words[m], printed)
    BY <1>2, <1>4
  <2>2. Framed(W, words, L - 1, r, writer, "wait", size, printed)
    BY <2>1, FrameSizeless
  <2>. QED BY <1>2, <1>4, <2>2
<1>. QED BY <1>3, <1>4

\* B ends, and its last word is cancelled.
LEMMA FrameCancelled ==
    ASSUME NEW W \in Nat \ {0}, NEW words, AreLens(W, words),
           NEW L \in Nat, NEW q, NEW reader, NEW size, NEW printed \in Nat,
           Framed(W, words, L, q, "write", reader, size, printed),
           words[W] + 1 < L, NEW r, Same(L - (words[W] + 1), q, r)
    PROVE  Framed(W, words, L - (words[W] + 1), r, "ended", reader, size, printed)
<1>. USE DEF AreLens, Same
<1>1. PICK start, c, w, m :
          /\ Starts(W, words, start) /\ InPipe(W, words, start, c, w, L, q)
          /\ ReaderAt(W, words, start, c, w, m, reader, size)
          /\ Between(words, printed, m) /\ w = W + 1
  BY DEF Framed
<1>2. /\ start \in [1 .. W + 1 -> Nat] /\ c \in Nat /\ L = start[W + 1] - c
      /\ m \in 1 .. W + 1 /\ W \in 1 .. W /\ W + 1 \in 1 .. W + 1 /\ W \in 1 .. W + 1
      /\ words[W] \in Nat /\ start[W] \in Nat /\ start[W + 1] \in Nat
  <2>1. start \in [1 .. W + 1 -> Nat]
    BY <1>1 DEF Starts
  <2>2. c \in Nat /\ L = start[W + 1] - c /\ m \in 1 .. W + 1
    BY <1>1 DEF InPipe, ReaderAt
  <2>3. W \in 1 .. W /\ W + 1 \in 1 .. W + 1 /\ W \in 1 .. W + 1
    OBVIOUS
  <2>. QED BY <2>1, <2>2, <2>3
<1>3. start[W + 1] = start[W] + words[W] + 1
  BY <1>1, <1>2 DEF Starts
<1>. DEFINE l == L - (words[W] + 1)
<1>4. l = start[W] - c /\ l \in Nat /\ l <= L /\ c < start[W]
  <2>1. words[W] \in Nat /\ L \in Nat /\ words[W] + 1 < L
    BY <1>2
  <2>2. start[W] \in Nat /\ c \in Nat
    BY <1>2
  <2>3. L = start[W] + words[W] + 1 - c
    <3>1. L = start[W + 1] - c
      BY <1>2
    <3>2. \A s, n, x \in Nat : (s + n + 1) - x = s + n + 1 - x
      OBVIOUS
    <3>. QED BY <1>3, <2>1, <2>2, <3>1, <3>2
  <2>4. l = start[W] - c
    BY <2>1, <2>2, <2>3
  <2>5. l \in Nat /\ l <= L /\ l > 0
    BY <2>1
  <2>. HIDE DEF l
  <2>6. c < start[W]
    BY <2>2, <2>4, <2>5
  <2>. QED BY <2>4, <2>5, <2>6
<1>5. InPipe(W, words, start, c, W, l, r)
  <2>1. ASSUME NEW n \in 1 .. W, NEW k \in 0 .. words[n],
               start[n] + k + 1 - c \in 1 .. l
        PROVE  r[start[n] + k + 1 - c] = <<n, k>>
    <3>. DEFINE j == start[n] + k + 1 - c
    <3>1. j \in 1 .. l
      BY <2>1
    <3>. HIDE DEF j
    <3>2. j \in 1 .. L
      BY <1>2, <1>4, <3>1
    <3>3. q[j] = <<n, k>>
      BY <1>1, <3>2 DEF InPipe, j
    <3>. QED BY <3>1, <3>3 DEF j
  <2>. QED BY <1>2, <1>4, <2>1 DEF InPipe
<1>6. m <= W /\ (reader = "body" => m < W)
  <2>1. m # W + 1
    <3>1. start[m] <= c
      <4>1. start[m] \in Nat
        BY <1>2
      <4>2. CASE reader = "body"
        BY <1>1, <1>2, <4>1, <4>2 DEF ReaderAt
      <4>3. CASE reader # "body"
        BY <1>1, <1>2, <4>1, <4>3 DEF ReaderAt
      <4>. QED BY <4>2, <4>3
    <3>. QED BY <1>2, <1>3, <1>4, <3>1
  <2>2. reader = "body" => m # W
    BY <1>1, <1>2, <1>4 DEF ReaderAt
  <2>. QED BY <1>2, <2>1, <2>2
<1>7. ReaderAt(W, words, start, c, W, m, reader, size)
  BY <1>1, <1>2, <1>6 DEF ReaderAt
<1>. QED BY <1>1, <1>5, <1>7 DEF Framed

-----------------------------------------------------------------------------
(***************************************************************************)
(* pipedemo and pipewithsizedemo: the lines that A has printed             *)
(***************************************************************************)

\* The number of the word that line k is.
Of(out, k) == IF k = 0 THEN 0 ELSE out[k][1][1]

\* Two!WordsArriveWhole of the first N lines.
Whole(N, out, W, words) ==
    \A k \in 1 .. N :
        /\ out[k] # <<>>
        /\ Of(out, k) \in Of(out, k - 1) + 1 .. W
        /\ out[k] = Two!Word(Of(out, k), words[Of(out, k)])
        /\ \A n \in Of(out, k - 1) + 1 .. Of(out, k) - 1 : words[n] = 0

Numbered(N, out) == \A k \in 0 .. N : Of(out, k) \in Nat

\* A line is printed.
LEMMA LineAdded ==
    ASSUME NEW N \in Nat, NEW out, NEW W \in Nat, NEW words, Whole(N, out, W, words),
           Numbered(N, out),
           NEW m \in 1 .. W, words[m] \in Nat \ {0}, Between(words, Of(out, N), m),
           NEW more, Same(N, out, more),
           more[N + 1] = Two!Word(m, words[m])
    PROVE  Whole(N + 1, more, W, words) /\ Of(more, N + 1) = m
<1>. USE DEF Numbered, Same
<1>1. /\ Two!Word(m, words[m]) = [k \in 1 .. words[m] |-> <<m, k>>]
      /\ 1 \in 1 .. words[m]
  BY DEF Two!Word
<1>2. Two!Word(m, words[m])[1] = <<m, 1>> /\ Two!Word(m, words[m]) # <<>>
  <2>1. Two!Word(m, words[m])[1] = <<m, 1>>
    BY <1>1
  <2>2. DOMAIN Two!Word(m, words[m]) = 1 .. words[m]
    BY <1>1
  <2>3. DOMAIN <<>> = {}
    BY SMT
  <2>. QED BY <1>1, <2>1, <2>2, <2>3
<1>3. N + 1 # 0 /\ Of(more, N + 1) = m
  BY <1>2 DEF Of
<1>4. \A k \in 0 .. N : Of(more, k) = Of(out, k)
  BY DEF Of
<1>5. ASSUME NEW k \in 1 .. N + 1
      PROVE  /\ more[k] # <<>>
             /\ Of(more, k) \in Of(more, k - 1) + 1 .. W
             /\ more[k] = Two!Word(Of(more, k), words[Of(more, k)])
             /\ \A n \in Of(more, k - 1) + 1 .. Of(more, k) - 1 : words[n] = 0
  <2>1. CASE k = N + 1
    <3>1. k - 1 = N /\ Of(more, k - 1) = Of(out, N) /\ Of(out, N) \in Nat
      BY <1>4, <2>1
    <3>2. Of(out, N) < m /\ \A n \in Of(out, N) + 1 .. m - 1 : words[n] = 0
      BY DEF Between
    <3>. QED BY <1>2, <1>3, <2>1, <3>1, <3>2
  <2>2. CASE k # N + 1
    <3>1. k \in 1 .. N /\ k \in 0 .. N /\ k - 1 \in 0 .. N
      BY <2>2
    <3>2. Of(more, k) = Of(out, k) /\ Of(more, k - 1) = Of(out, k - 1) /\ more[k] = out[k]
      BY <1>4, <3>1
    <3>. QED BY <3>1, <3>2 DEF Whole
  <2>. QED BY <2>1, <2>2
<1>. QED BY <1>3, <1>5 DEF Whole

LEMMA LineAddedTo ==
    \A N, W \in Nat : \A out, more, words, m :
        (/\ Whole(N, out, W, words) /\ Numbered(N, out) /\ m \in 1 .. W
         /\ words[m] \in Nat \ {0} /\ Between(words, Of(out, N), m)
         /\ Same(N, out, more) /\ more[N + 1] = Two!Word(m, words[m]))
        => Whole(N + 1, more, W, words) /\ Of(more, N + 1) = m
BY LineAdded

\* A word is written.
LEMMA WordAdded ==
    ASSUME NEW N \in Nat, NEW out, NEW W \in Nat, NEW words, Whole(N, out, W, words),
           Numbered(N, out),
           NEW more, Same(W, words, more)
    PROVE  Whole(N, out, W + 1, more)
<1>. USE DEF Numbered, Same
<1>1. ASSUME NEW k \in 1 .. N
      PROVE  /\ Of(out, k) \in Of(out, k - 1) + 1 .. W + 1
             /\ out[k] = Two!Word(Of(out, k), more[Of(out, k)])
             /\ \A n \in Of(out, k - 1) + 1 .. Of(out, k) - 1 : more[n] = 0
  <2>1. k \in 0 .. N /\ k - 1 \in 0 .. N
    OBVIOUS
  <2>2. Of(out, k) \in Nat /\ Of(out, k - 1) \in Nat
    BY <2>1
  <2>3. /\ Of(out, k) \in Of(out, k - 1) + 1 .. W
        /\ out[k] = Two!Word(Of(out, k), words[Of(out, k)])
        /\ \A n \in Of(out, k - 1) + 1 .. Of(out, k) - 1 : words[n] = 0
    BY DEF Whole
  <2>4. Of(out, k) \in 1 .. W /\ Of(out, k) \in Of(out, k - 1) + 1 .. W + 1
    BY <2>2, <2>3
  <2>5. ASSUME NEW n \in Of(out, k - 1) + 1 .. Of(out, k) - 1 PROVE more[n] = 0
    <3>1. n \in 1 .. W
      BY <2>2, <2>4
    <3>. QED BY <2>3, <3>1
  <2>. QED BY <2>3, <2>4, <2>5
<1>. QED BY <1>1 DEF Whole

-----------------------------------------------------------------------------
(***************************************************************************)
(* pipedemo and pipewithsizedemo: the invariant                            *)
(***************************************************************************)

\* What the places of the threads say of the pipes and of the histories.
TwoPlaces ==
    /\ aReader # "killed" => Two!AAlive
    /\ aWriter = "write" => aWords # <<>>
    /\ bWriter = "write" => bWords # <<>>
    /\ Two!AAlive /\ bWriter \in {"type", "write"} => up.state = "connected"
    /\ bWriter = "open" => bWords = <<>>
    /\ Two!AAlive /\ bReader = "open" =>
          aSent = <<>> /\ bOut = <<>> /\ down.q = <<>> /\ down.state # "connected"


\* As long as A is there, its pipe holds B's words, one unit before each, in order, and A's
\* reader is where one begins, or after the size of one; it is no longer so when B has
\* ended and nothing is left, since the last word may have been cancelled halfway.
TwoFraming ==
    Two!AAlive /\ ~(up.q = <<>> /\ bWriter = "ended") =>
        Framed(Len(bWords), bWords, Len(up.q), up.q, bWriter, aReader,
               aSize, Of(aOut, Len(aOut)))

TwoWhole == Whole(Len(aOut), aOut, Len(bWords), bWords)

TwoInv ==
    Two!TypeOK /\ TwoPlaces /\ TwoFraming /\ TwoWhole /\ Two!NothingLostToB

LEMMA TwoWholeIs == TwoWhole <=> Two!WordsArriveWhole
BY DEF TwoWhole, Whole, Of, Two!WordsArriveWhole, Two!WordOf

\* What the lemmas on lengths need of the types.
TwoTypes ==
    /\ Len(bWords) \in Nat /\ \A n \in 1 .. Len(bWords) : bWords[n] \in Nat
    /\ Len(up.q) \in Nat /\ Len(aOut) \in Nat
    /\ \A k \in 0 .. Len(aOut) : Of(aOut, k) \in Nat
    /\ (up.q = <<>>) <=> (Len(up.q) = 0)

LEMMA TwoTyped == ASSUME TwoInv PROVE TwoTypes
<1>1. Two!TypeOK /\ TwoWhole
  BY DEF TwoInv
<1>2. /\ bWords \in Seq(Lens) /\ aOut \in Seq(Seq(Two!Unit)) /\ up \in Two!Pipe
  BY <1>1 DEF Two!TypeOK
<1>3. Lens \subseteq Nat
  <2>1. Lens \subseteq 0 .. MAX_PATH /\ MAX_PATH \in Nat
    BY ProgramsAssumption DEF Two!TwoPipesAssumption
  <2>. QED BY <2>1
<1>4. Len(bWords) \in Nat /\ \A n \in 1 .. Len(bWords) : bWords[n] \in Lens
  BY <1>2
<1>5. up.q \in Seq(Two!Unit)
  BY <1>2 DEF Two!Pipe
<1>6. Len(up.q) \in Nat /\ ((up.q = <<>>) <=> (Len(up.q) = 0))
  BY <1>5
<1>7. Len(aOut) \in Nat /\ \A k \in 1 .. Len(aOut) : aOut[k] \in Seq(Two!Unit)
  BY <1>2
<1>8. ASSUME NEW k \in 0 .. Len(aOut) PROVE Of(aOut, k) \in Nat
  <2>1. CASE k = 0
    BY <2>1 DEF Of
  <2>2. CASE k # 0
    <3>1. k \in 1 .. Len(aOut)
      BY <1>7, <2>2
    <3>2. aOut[k] \in Seq(Two!Unit) /\ aOut[k] # <<>>
      BY <1>1, <1>7, <3>1 DEF TwoWhole, Whole
    <3>3. aOut[k][1] \in Two!Unit
      BY <3>2
    <3>. QED BY <2>2, <3>3 DEF Of, Two!Unit
  <2>. QED BY <2>1, <2>2
<1>. QED BY <1>3, <1>4, <1>6, <1>7, <1>8 DEF TwoTypes

LEMMA TwoStart == Two!Init => TwoInv
<1>. SUFFICES ASSUME Two!Init PROVE TwoInv
  OBVIOUS
<1>. USE DEF Two!Init
<1>1. Len(<<>>) = 0
  OBVIOUS
<1>2. Two!TypeOK
  <2>1. MaxWords \in Nat
    BY ProgramsAssumption DEF Two!TwoPipesAssumption
  <2>2. down \in Two!Pipe /\ up \in Two!Pipe
    BY DEF Two!Pipe, Two!State
  <2>3. aWords \in Seq(Lens) /\ bWords \in Seq(Lens)
    OBVIOUS
  <2>4. typed \in Len(aWords) .. MaxWords
    BY <1>1, <2>1
  <2>. QED BY <2>2, <2>3, <2>4 DEF Two!TypeOK
<1>3. TwoPlaces
  BY DEF TwoPlaces, Two!AAlive
<1>4. TwoWhole
  BY <1>1 DEF TwoWhole, Whole
<1>5. TwoFraming
  <2>. DEFINE start == [n \in 1 .. 1 |-> 0]
  <2>1. Of(aOut, Len(aOut)) = 0 /\ Len(bWords) = 0 /\ Len(up.q) = 0
    BY <1>1 DEF Of
  <2>2. Starts(0, bWords, start)
    BY DEF Starts
  <2>3. InPipe(0, bWords, start, 0, 1, 0, up.q)
    BY DEF InPipe
  <2>4. ReaderAt(0, bWords, start, 0, 1, 1, "wait", aSize)
    BY DEF ReaderAt
  <2>5. Between(bWords, 0, 1)
    BY DEF Between
  <2>6. Framed(0, bWords, 0, up.q, "open", "wait", aSize, 0)
    <3>. HIDE DEF start
    <3>1. 1 = 0 + 1
      OBVIOUS
    <3>. QED BY <2>2, <2>3, <2>4, <2>5, <3>1, Zenon DEF Framed
  <2>. QED BY <2>1, <2>6 DEF TwoFraming
<1>6. Two!NothingLostToB
  BY DEF Two!NothingLostToB
<1>. QED BY <1>2, <1>3, <1>4, <1>5, <1>6 DEF TwoInv

-----------------------------------------------------------------------------
LEMMA TwoLens ==
    /\ Quota \in Nat /\ MAX_PATH \in Nat \ {0} /\ MaxWords \in Nat
    /\ Lens \subseteq 0 .. MAX_PATH
<1>1. /\ Lens \subseteq 0 .. MAX_PATH
      /\ MAX_PATH \in Nat \ {0} /\ MaxWords \in Nat
  BY ProgramsAssumption DEF Two!TwoPipesAssumption
<1>2. Quota \in Nat
  BY ProgramsAssumption DEF Insts!InstAssumption
<1>. QED BY <1>1, <1>2

LEMMA TwoPipeIs ==
    ASSUME NEW p \in Two!Pipe
    PROVE  /\ p.state \in Two!State /\ p.q \in Seq(Two!Unit)
           /\ \A s : [p EXCEPT !.q = s] = [state |-> p.state, q |-> s]
           /\ \A t : [p EXCEPT !.state = t] = [state |-> t, q |-> p.q]
BY DEF Two!Pipe

LEMMA TwoPipeOf ==
    ASSUME NEW t \in Two!State, NEW s \in Seq(Two!Unit)
    PROVE  /\ [state |-> t, q |-> s] \in Two!Pipe
           /\ [state |-> t, q |-> s].state = t /\ [state |-> t, q |-> s].q = s
BY DEF Two!Pipe

LEMMA TwoWord ==
    ASSUME NEW n \in Nat, NEW len \in Nat
    PROVE  /\ Two!Word(n, len) \in Seq(Two!Unit) /\ Len(Two!Word(n, len)) = len
           /\ \A k \in 1 .. len : Two!Word(n, len)[k] = <<n, k>>
<1>1. Two!Word(n, len) = [k \in 1 .. len |-> <<n, k>>]
  BY DEF Two!Word
<1>2. \A k \in 1 .. len : <<n, k>> \in Two!Unit
  BY DEF Two!Unit
<1>. QED BY <1>1, <1>2

LEMMA TwoFrame ==
    ASSUME NEW n \in Nat, NEW len \in Nat
    PROVE  /\ Two!Frame(n, len) \in Seq(Two!Unit) /\ Len(Two!Frame(n, len)) = len + 1
           /\ \A k \in 0 .. len : Two!Frame(n, len)[k + 1] = <<n, k>>
<1>. DEFINE f == <<<<n, 0>>>>
            g == Two!Word(n, len)
<1>1. /\ g \in Seq(Two!Unit) /\ Len(g) = len /\ \A k \in 1 .. len : g[k] = <<n, k>>
  BY TwoWord
<1>2. f \in Seq(Two!Unit) /\ Len(f) = 1 /\ f[1] = <<n, 0>>
  <2>1. <<n, 0>> \in Two!Unit
    BY DEF Two!Unit
  <2>. QED BY <2>1
<1>3. Two!Frame(n, len) = f \o g
  BY DEF Two!Frame
<1>. HIDE DEF f, g
<1>4. /\ f \o g \in Seq(Two!Unit) /\ Len(f \o g) = Len(f) + Len(g)
      /\ \A k \in 1 .. Len(f) + Len(g) :
            (f \o g)[k] = IF k <= Len(f) THEN f[k] ELSE g[k - Len(f)]
  BY <1>1, <1>2, ConcatProperties
<1>5. ASSUME NEW k \in 0 .. len PROVE (f \o g)[k + 1] = <<n, k>>
  <2>1. k + 1 \in 1 .. Len(f) + Len(g) /\ k + 1 - Len(f) = k /\ (k + 1 <= Len(f) <=> k = 0)
    BY <1>1, <1>2
  <2>2. (f \o g)[k + 1] = IF k = 0 THEN f[k + 1] ELSE g[k]
    BY <1>4, <2>1
  <2>3. CASE k = 0
    <3>1. k + 1 = 1
      BY <2>3
    <3>. QED BY <1>2, <2>2, <2>3, <3>1
  <2>4. CASE k # 0
    <3>1. k \in 1 .. len
      BY <2>4
    <3>. QED BY <1>1, <2>2, <2>4, <3>1
  <2>. QED BY <2>3, <2>4
<1>6. Len(f \o g) = len + 1
  BY <1>1, <1>2, <1>4
<1>. QED BY <1>3, <1>4, <1>5, <1>6

LEMMA TwoCancelled ==
    ASSUME NEW q \in Seq(Two!Unit), NEW len \in Nat
    PROVE  /\ Two!Cancelled(q, len) \in Seq(Two!Unit)
           /\ Len(q) <= len => Two!Cancelled(q, len) = <<>>
           /\ len < Len(q) =>
                 /\ Len(Two!Cancelled(q, len)) = Len(q) - len
                 /\ \A j \in 1 .. Len(q) - len : Two!Cancelled(q, len)[j] = q[j]
<1>. DEFINE l == Len(q) - Two!Least(len, Len(q))
<1>1. /\ Len(q) \in Nat /\ l \in Nat /\ l <= Len(q) /\ (len < Len(q) => l = Len(q) - len)
      /\ (Len(q) <= len => l = 0)
  BY DEF Two!Least
<1>. HIDE DEF l
<1>2. Two!Cancelled(q, len) = SubSeq(q, 1, l)
  BY DEF l, Two!Cancelled
<1>3. /\ SubSeq(q, 1, l) \in Seq(Two!Unit)
      /\ Len(SubSeq(q, 1, l)) = IF 1 <= l THEN l - 1 + 1 ELSE 0
      /\ \A j \in 1 .. l - 1 + 1 : SubSeq(q, 1, l)[j] = q[1 + j - 1]
  <2>1. 1 \in Int /\ l \in Int /\ \A j \in 1 .. l : q[j] \in Two!Unit
    BY <1>1
  <2>. QED BY <2>1, SubSeqProperties
<1>4. ASSUME Len(q) <= len PROVE SubSeq(q, 1, l) = <<>>
  <2>1. l = 0
    BY <1>1, <1>4
  <2>2. Len(SubSeq(q, 1, l)) = 0
    BY <1>3, <2>1
  <2>. QED BY <1>3, <2>2
<1>5. ASSUME len < Len(q)
      PROVE  /\ Len(SubSeq(q, 1, l)) = Len(q) - len
             /\ \A j \in 1 .. Len(q) - len : SubSeq(q, 1, l)[j] = q[j]
  <2>1. l = Len(q) - len /\ 1 <= l
    BY <1>1, <1>5
  <2>2. l - 1 + 1 = l /\ \A j \in 1 .. l : 1 + j - 1 = j
    BY <1>1
  <2>. QED BY <1>3, <2>1, <2>2
<1>. QED BY <1>2, <1>3, <1>4, <1>5

\* The pipe from B to A is as it was, A's reader not at another place.
LEMMA TwoKept ==
    ASSUME TwoInv, UNCHANGED <<sized, bWords, aOut, aSize>>, up'.q = up.q,
           Two!AAlive' => Two!AAlive, bWriter = "ended" => bWriter' = "ended",
           (aReader' = "body") <=> (aReader = "body")
    PROVE  TwoFraming' /\ TwoWhole'
<1>1. TwoWhole'
  BY DEF TwoInv, TwoWhole
<1>2. ASSUME Two!AAlive', ~(up.q = <<>> /\ bWriter' = "ended")
      PROVE  Framed(Len(bWords'), bWords', Len(up'.q), up'.q, bWriter', aReader',
                    aSize', Of(aOut', Len(aOut')))
  <2>1. Framed(Len(bWords), bWords, Len(up.q), up.q, bWriter, aReader,
               aSize, Of(aOut, Len(aOut)))
    BY <1>2 DEF TwoInv, TwoFraming
  <2>2. PICK start, c, w, m :
           /\ Starts(Len(bWords), bWords, start)
           /\ InPipe(Len(bWords), bWords, start, c, w, Len(up.q), up.q)
           /\ ReaderAt(Len(bWords), bWords, start, c, w, m, aReader, aSize)
           /\ Between(bWords, Of(aOut, Len(aOut)), m)
           /\ (bWriter # "ended" => w = Len(bWords) + 1)
    BY <2>1 DEF Framed
  <2>3. ReaderAt(Len(bWords), bWords, start, c, w, m, aReader', aSize)
    BY <2>2 DEF ReaderAt
  <2>4. bWriter' # "ended" => w = Len(bWords) + 1
    BY <2>2
  <2>5. Framed(Len(bWords), bWords, Len(up.q), up.q, bWriter', aReader', aSize,
               Of(aOut, Len(aOut)))
    BY <2>2, <2>3, <2>4 DEF Framed
  <2>. QED BY <2>5
<1>. QED BY <1>1, <1>2 DEF TwoFraming

-----------------------------------------------------------------------------
LEMMA TwoAWrites ==
    ASSUME TwoInv, Two!aWriterWait \/ Two!aWritten PROVE TwoInv'
<1>1. /\ UNCHANGED <<sized, down, up, aReader, aWords, typed, aSize, aOut, aSent, bWriter,
                     bReader, bWords, bOut>>
      /\ aWriter # "killed" /\ aWriter' \in {"wait", "type"}
  BY DEF Two!aWriterWait, Two!aWritten, Two!bVars
<1>2. Two!AAlive' /\ Two!AAlive
  BY <1>1 DEF Two!AAlive
<1>3. TwoFraming' /\ TwoWhole'
  BY <1>1, <1>2, TwoKept
<1>4. TwoPlaces'
  BY <1>1, <1>2 DEF TwoInv, TwoPlaces
<1>5. Two!TypeOK'
  BY <1>1 DEF TwoInv, Two!TypeOK
<1>6. Two!NothingLostToB'
  BY <1>1, <1>2 DEF TwoInv, Two!NothingLostToB
<1>. QED BY <1>3, <1>4, <1>5, <1>6 DEF TwoInv

LEMMA TwoATypes ==
    ASSUME TwoInv, NEW len \in Lens, Two!aType(len) PROVE TwoInv'
<1>1. /\ UNCHANGED <<sized, up, aReader, aSize, aOut, bWriter, bReader, bWords, bOut>>
      /\ aWriter = "type" /\ typed < MaxWords /\ typed' = typed + 1
  BY DEF Two!aType, Two!bVars
<1>2. /\ down \in Two!Pipe /\ aSent \in Seq(Two!Unit) /\ bOut \in Seq(Two!Unit)
      /\ aWords \in Seq(Lens) /\ typed \in Len(aWords) .. MaxWords /\ MaxWords \in Nat
      /\ Len(aWords) \in Nat
  BY TwoLens DEF TwoInv, Two!TypeOK
<1>3. aWriter' # "killed"
  BY DEF Two!aType
<1>4. Two!AAlive' /\ Two!AAlive
  BY <1>1, <1>3 DEF Two!AAlive
<1>5. TwoFraming' /\ TwoWhole'
  BY <1>1, <1>4, TwoKept
<1>6. CASE down.state = "connected"
  <2>. DEFINE word == Two!Word(Len(aWords) + 1, len)
  <2>1. len \in Nat
    BY TwoLens
  <2>2. word \in Seq(Two!Unit)
    BY <1>2, <2>1, TwoWord
  <2>3. /\ down' = [down EXCEPT !.q = down.q \o word] /\ aSent' = aSent \o word
        /\ aWords' = Append(aWords, len) /\ aWriter' = "write"
    BY <1>6 DEF Two!aType
  <2>. HIDE DEF word
  <2>4. /\ down' = [state |-> down.state, q |-> down.q \o word] /\ down.q \in Seq(Two!Unit)
        /\ down.state \in Two!State
    BY <1>2, <2>3, TwoPipeIs
  <2>5. down.q \o word \in Seq(Two!Unit) /\ aSent \o word \in Seq(Two!Unit)
    BY <1>2, <2>2, <2>4, ConcatProperties
  <2>6. down' \in Two!Pipe /\ down'.q = down.q \o word /\ down'.state = down.state
    BY <2>4, <2>5, TwoPipeOf
  <2>7. aWords' \in Seq(Lens) /\ aWords' # <<>> /\ Len(aWords') = Len(aWords) + 1
    BY <1>2, <2>3
  <2>8. typed' \in Len(aWords') .. MaxWords
    BY <1>1, <1>2, <2>7
  <2>9. Two!TypeOK'
    <3>1. aSent' \in Seq(Two!Unit) /\ aWords' \in Seq(Lens)
      BY <1>1, <2>3, <2>5, <2>7
    <3>2. /\ sized' \in BOOLEAN /\ up' \in Two!Pipe
          /\ aReader' \in {"wait", "read", "body", "killed"}
          /\ bWriter' \in {"open", "type", "write", "ended"}
          /\ bReader' \in {"open", "read", "ended"}
          /\ bWords' \in Seq(Lens) /\ aSize' \in Nat
          /\ aOut' \in Seq(Seq(Two!Unit)) /\ bOut' \in Seq(Two!Unit)
      BY <1>1 DEF TwoInv, Two!TypeOK
    <3>. QED BY <2>3, <2>6, <2>8, <3>1, <3>2 DEF Two!TypeOK
  <2>10. TwoPlaces'
    BY <1>1, <1>4, <1>6, <2>3, <2>7 DEF TwoInv, TwoPlaces
  <2>11. Two!NothingLostToB'
    <3>1. SUFFICES ASSUME bReader = "read" PROVE bOut \o (down.q \o word) = aSent \o word
      BY <1>1, <2>3, <2>6 DEF Two!NothingLostToB
    <3>2. bOut \o down.q = aSent
      BY <1>4, <3>1 DEF TwoInv, Two!NothingLostToB
    <3>3. \A s, t, u \in Seq(Two!Unit) : (s \o t) \o u = s \o (t \o u)
      BY ConcatAssociative
    <3>4. (bOut \o down.q) \o word = bOut \o (down.q \o word)
      BY <1>2, <2>2, <2>4, <3>3
    <3>. QED BY <3>2, <3>4
  <2>. QED BY <1>5, <2>9, <2>10, <2>11 DEF TwoInv
<1>7. CASE down.state # "connected"
  <2>1. aWriter' = "wait" /\ UNCHANGED <<down, aSent, aWords>>
    BY <1>7 DEF Two!aType
  <2>2. typed' \in Len(aWords') .. MaxWords
    BY <1>1, <1>2, <2>1
  <2>3. Two!TypeOK'
    BY <1>1, <2>1, <2>2 DEF TwoInv, Two!TypeOK
  <2>4. TwoPlaces'
    BY <1>1, <1>4, <2>1 DEF TwoInv, TwoPlaces
  <2>5. Two!NothingLostToB'
    BY <1>1, <1>4, <2>1 DEF TwoInv, Two!NothingLostToB
  <2>. QED BY <1>5, <2>3, <2>4, <2>5 DEF TwoInv
<1>. QED BY <1>6, <1>7

-----------------------------------------------------------------------------
\* A step of A's reader.
LEMMA TwoReads ==
    ASSUME TwoInv, up' \in Two!Pipe, up'.state = up.state,
           aReader # "killed", aReader' \in {"wait", "read", "body"},
           UNCHANGED <<sized, down, aWriter, aWords, typed, aSent, bWriter, bReader, bWords,
                       bOut>>,
           aSize' \in Nat, aOut' \in Seq(Seq(Two!Unit)), TwoFraming', TwoWhole'
    PROVE  TwoInv'
<1>1. Two!AAlive
  BY DEF TwoInv, TwoPlaces
<1>2. Two!TypeOK'
  BY DEF TwoInv, Two!TypeOK
<1>3. TwoPlaces'
  BY <1>1 DEF TwoInv, TwoPlaces, Two!AAlive
<1>4. Two!NothingLostToB'
  BY DEF TwoInv, Two!NothingLostToB, Two!AAlive
<1>. QED BY <1>2, <1>3, <1>4 DEF TwoInv

LEMMA TwoAReadsNothing ==
    ASSUME TwoInv, Two!aReaderWait \/ Two!aReadFails PROVE TwoInv'
<1>1. /\ UNCHANGED <<sized, down, up, aWriter, aWords, typed, aSize, aOut, aSent, bWriter,
                     bReader, bWords, bOut>>
      /\ aReader # "killed" /\ aReader' \in {"wait", "read"}
  BY DEF Two!aReaderWait, Two!aReadFails, Two!bVars
<1>2. up \in Two!Pipe /\ aSize \in Nat /\ aOut \in Seq(Seq(Two!Unit))
  BY DEF TwoInv, Two!TypeOK
<1>3. Two!AAlive /\ Two!AAlive'
  BY <1>1 DEF TwoInv, TwoPlaces, Two!AAlive
<1>4. CASE aReader # "body"
  <2>1. (aReader' = "body") <=> (aReader = "body")
    BY <1>1, <1>4
  <2>2. TwoFraming' /\ TwoWhole'
    BY <1>1, <1>3, <2>1, TwoKept
  <2>. QED BY <1>1, <1>2, <2>2, TwoReads
<1>5. CASE aReader = "body"
  <2>1. up.q = <<>> /\ up.state # "connected"
    BY <1>5 DEF Two!aReaderWait, Two!aReadFails
  <2>2. bWriter = "ended"
    <3>1. SUFFICES ASSUME bWriter # "ended" PROVE FALSE
      OBVIOUS
    <3>2. bWriter = "open" /\ bWords = <<>>
      BY <1>3, <2>1, <3>1 DEF TwoInv, Two!TypeOK, TwoPlaces
    <3>3. Framed(Len(bWords), bWords, Len(up.q), up.q, bWriter, aReader,
                 aSize, Of(aOut, Len(aOut)))
      BY <1>3, <3>1 DEF TwoInv, TwoFraming
    <3>4. PICK start, c, w, m :
             /\ InPipe(Len(bWords), bWords, start, c, w, Len(up.q), up.q)
             /\ ReaderAt(Len(bWords), bWords, start, c, w, m, aReader, aSize)
      BY <3>3 DEF Framed
    <3>5. Len(bWords) = 0
      BY <3>2
    <3>6. w \in 1 .. 0 + 1 /\ m \in 1 .. 0 + 1 /\ m < w
      BY <1>5, <3>4, <3>5 DEF InPipe, ReaderAt
    <3>. QED BY <3>6
  <2>3. TwoFraming'
    BY <1>1, <2>1, <2>2 DEF TwoFraming
  <2>4. TwoWhole'
    BY <1>1 DEF TwoInv, TwoWhole
  <2>. QED BY <1>1, <1>2, <2>3, <2>4, TwoReads
<1>. QED BY <1>4, <1>5

\* A word is read and printed: q begins with it.
LEMMA TwoPrints ==
    ASSUME TwoInv, aReader \in {"read", "body"}, aReader' = "wait",
           NEW q \in Seq(Two!Unit), NEW m, NEW len \in Nat \ {0},
           WordAt(Len(bWords), bWords, Len(q), q, bWriter, aSize, Of(aOut, Len(aOut)), m,
                  len),
           aOut' = Append(aOut, Two!Taken(q, len)),
           up' = [up EXCEPT !.q = Two!Left(q, len)],
           UNCHANGED <<sized, down, aWriter, aWords, typed, aSent, aSize, bWriter, bReader,
                       bWords, bOut>>
    PROVE  TwoInv'
<1>1. TwoTypes
  BY TwoTyped
<1>2. up \in Two!Pipe /\ aOut \in Seq(Seq(Two!Unit)) /\ aSize \in Nat
  BY DEF TwoInv, Two!TypeOK
<1>3. up.state \in Two!State
  BY <1>2, TwoPipeIs
<1>. DEFINE taken == Two!Taken(q, len)
            left == Two!Left(q, len)
<1>4. /\ taken \in Seq(Two!Unit) /\ left \in Seq(Two!Unit)
      /\ Len(taken) = len /\ Len(left) = Len(q) - len
      /\ \A j \in 1 .. len : taken[j] = q[j]
      /\ \A j \in 1 .. Len(q) - len : left[j] = q[len + j]
  <2>1. \A s \in Seq(Two!Unit), n \in Nat : n <= Len(s) =>
           /\ Two!Taken(s, n) \in Seq(Two!Unit) /\ Two!Left(s, n) \in Seq(Two!Unit)
           /\ Len(Two!Taken(s, n)) = n /\ Len(Two!Left(s, n)) = Len(s) - n
           /\ \A j \in 1 .. n : Two!Taken(s, n)[j] = s[j]
           /\ \A j \in 1 .. Len(s) - n : Two!Left(s, n)[j] = s[n + j]
    BY TwoTaken
  <2>2. len \in Nat
    OBVIOUS
  <2>3. len <= Len(q)
    BY DEF WordAt
  <2>. QED BY <2>1, <2>2, <2>3
<1>5. up' = [state |-> up.state, q |-> left]
  BY <1>2, TwoPipeIs
<1>6. aOut' = Append(aOut, taken)
  OBVIOUS
<1>. HIDE DEF taken, left
<1>7. up' \in Two!Pipe /\ up'.state = up.state /\ up'.q = left
  <2>1. PICK t \in Two!State : t = up.state
    BY <1>3
  <2>2. PICK u \in Seq(Two!Unit) : u = left
    BY <1>4
  <2>3. /\ [state |-> t, q |-> u] \in Two!Pipe
        /\ [state |-> t, q |-> u].state = t /\ [state |-> t, q |-> u].q = u
    BY TwoPipeOf
  <2>. QED BY <1>5, <2>1, <2>2, <2>3
<1>8. taken = Two!Word(m, len)
  <2>1. m \in Nat /\ len \in Nat
    BY <1>1 DEF TwoTypes, WordAt
  <2>2. /\ Two!Word(m, len) \in Seq(Two!Unit) /\ Len(Two!Word(m, len)) = len
        /\ \A k \in 1 .. len : Two!Word(m, len)[k] = <<m, k>>
    BY <2>1, TwoWord
  <2>3. \A k \in 1 .. len : taken[k] = Two!Word(m, len)[k]
    BY <1>4, <2>2 DEF WordAt
  <2>4. \A s, t \in Seq(Two!Unit) :
           Len(s) = Len(t) /\ (\A k \in 1 .. Len(s) : s[k] = t[k]) => s = t
    BY SeqEqual
  <2>. QED BY <1>4, <2>2, <2>3, <2>4
<1>9. /\ aOut' \in Seq(Seq(Two!Unit)) /\ Len(aOut') = Len(aOut) + 1
      /\ aOut'[Len(aOut) + 1] = taken /\ \A k \in 1 .. Len(aOut) : aOut'[k] = aOut[k]
  BY <1>2, <1>4, <1>6
<1>10. Whole(Len(aOut) + 1, aOut', Len(bWords), bWords) /\ Of(aOut', Len(aOut) + 1) = m
  <2>1. Whole(Len(aOut), aOut, Len(bWords), bWords)
    BY DEF TwoInv, TwoWhole
  <2>2. bWords[m] \in Nat \ {0} /\ aOut'[Len(aOut) + 1] = Two!Word(m, bWords[m])
    BY <1>8, <1>9 DEF WordAt
  <2>3. /\ Len(aOut) \in Nat /\ Len(bWords) \in Nat
        /\ Numbered(Len(aOut), aOut)
    BY <1>1 DEF TwoTypes, Numbered
  <2>4. m \in 1 .. Len(bWords) /\ Between(bWords, Of(aOut, Len(aOut)), m)
    BY DEF WordAt
  <2>5. Same(Len(aOut), aOut, aOut')
    BY <1>9 DEF Same
  <2>. QED BY <2>1, <2>2, <2>3, <2>4, <2>5, LineAddedTo
<1>11. TwoWhole'
  BY <1>9, <1>10 DEF TwoWhole
<1>12. TwoFraming'
  <2>1. Framed(Len(bWords), bWords, Len(q) - len, left, bWriter, "wait",
               aSize, m)
    BY <1>4 DEF WordAt
  <2>2. aReader' = "wait" /\ Len(up'.q) = Len(q) - len
    BY <1>4, <1>7
  <2>3. Of(aOut', Len(aOut')) = m
    BY <1>9, <1>10
  <2>. QED BY <1>7, <2>1, <2>2, <2>3 DEF TwoFraming
<1>. QED BY <1>2, <1>7, <1>9, <1>11, <1>12, TwoReads

LEMMA TwoAReadsMessage == ASSUME TwoInv, Two!aReadMessage PROVE TwoInv'
<1>1. aReader = "read" /\ up.q # <<>> /\ aReader' = "wait"
  BY DEF Two!aReadMessage
<1>2. UNCHANGED <<sized, down, aWriter, aWords, typed, aSent, aSize, bWriter, bReader,
                  bWords, bOut>>
  BY DEF Two!aReadMessage, Two!bVars
<1>3. TwoTypes /\ up \in Two!Pipe /\ aOut \in Seq(Seq(Two!Unit)) /\ aSize \in Nat
  BY TwoTyped DEF TwoInv, Two!TypeOK
<1>4. Framed(Len(bWords), bWords, Len(up.q), up.q, bWriter, "read",
             aSize, Of(aOut, Len(aOut)))
  <2>1. Framed(Len(bWords), bWords, Len(up.q), up.q, bWriter, aReader,
               aSize, Of(aOut, Len(aOut)))
    BY <1>1 DEF TwoInv, TwoPlaces, TwoFraming
  <2>. QED BY <1>1, <2>1
<1>5. /\ Len(bWords) \in Nat /\ AreLens(Len(bWords), bWords)
      /\ Len(up.q) \in Nat \ {0} /\ Of(aOut, Len(aOut)) \in Nat
  <2>1. Len(aOut) \in 0 .. Len(aOut)
    BY <1>3 DEF TwoTypes
  <2>. QED BY <1>1, <1>3, <2>1 DEF TwoTypes, AreLens
<1>6. up.q \in Seq(Two!Unit) /\ up.state \in Two!State
  BY <1>3, TwoPipeIs
<1>. DEFINE q == Tail(up.q)
<1>7. /\ Head(up.q) = up.q[1] /\ q \in Seq(Two!Unit) /\ Len(q) = Len(up.q) - 1
      /\ \A j \in 1 .. Len(up.q) - 1 : q[j] = up.q[1 + j]
  <2>1. \A j \in 1 .. Len(up.q) - 1 : q[j] = up.q[j + 1]
    BY <1>1, <1>6
  <2>2. \A j \in 1 .. Len(up.q) - 1 : 1 + j = j + 1
    OBVIOUS
  <2>3. Head(up.q) = up.q[1] /\ q \in Seq(Two!Unit) /\ Len(q) = Len(up.q) - 1
    BY <1>1, <1>6
  <2>. HIDE DEF q
  <2>. QED BY <2>1, <2>2, <2>3
<1>8. /\ aOut' = IF bWords[up.q[1][1]] > 0
                 THEN Append(aOut, Two!Taken(q, bWords[up.q[1][1]])) ELSE aOut
      /\ up' = [up EXCEPT !.q = Two!Left(q, bWords[up.q[1][1]])]
  BY <1>7 DEF Two!aReadMessage
<1>. HIDE DEF q
<1>9. PICK m \in 1 .. Len(bWords), n \in 1 .. Len(bWords) :
         /\ up.q[1] = <<m, 0>>
         /\ bWords[m] = 0 => Framed(Len(bWords), bWords, Len(up.q) - 1, q, bWriter, "wait",
                                    aSize, Of(aOut, Len(aOut)))
         /\ bWords[m] > 0 => WordAt(Len(bWords), bWords, Len(up.q) - 1, q, bWriter, aSize,
                                    Of(aOut, Len(aOut)), n, bWords[m])
  <2>1. PICK W, words, L, s, printed :
           /\ W = Len(bWords) /\ words = bWords /\ L = Len(up.q) /\ s = up.q
           /\ printed = Of(aOut, Len(aOut))
    OBVIOUS
  <2>2. /\ AreLens(W, words) /\ Framed(W, words, L, s, bWriter, "read", aSize, printed)
        /\ W \in Nat /\ L \in Nat \ {0} /\ printed \in Nat
    BY <1>4, <1>5, <2>1
  <2>3. \A j \in 1 .. L - 1 : q[j] = s[1 + j]
    BY <1>7, <2>1
  <2>4. \E m, n \in 1 .. W :
           /\ s[1] = <<m, 0>>
           /\ words[m] = 0 => Framed(W, words, L - 1, q, bWriter, "wait", aSize, printed)
           /\ words[m] > 0 =>
                 WordAt(W, words, L - 1, q, bWriter, aSize, printed, n, words[m])
    BY <2>2, <2>3, FrameMessage
  <2>. QED BY <2>1, <2>4
<1>10. bWords[m] \in Nat /\ up.q[1][1] = m
  BY <1>5, <1>9 DEF AreLens
<1>11. CASE bWords[m] > 0
  <2>1. bWords[m] \in Nat \ {0}
    BY <1>10, <1>11
  <2>2. /\ aOut' = Append(aOut, Two!Taken(q, bWords[m]))
        /\ up' = [up EXCEPT !.q = Two!Left(q, bWords[m])]
    BY <1>8, <1>10, <1>11
  <2>3. WordAt(Len(bWords), bWords, Len(q), q, bWriter, aSize, Of(aOut, Len(aOut)), n,
               bWords[m])
    BY <1>7, <1>9, <1>11
  <2>. QED BY <1>1, <1>2, <1>7, <2>1, <2>2, <2>3, TwoPrints
<1>12. CASE bWords[m] = 0
  <2>1. aOut' = aOut /\ up' = [up EXCEPT !.q = Two!Left(q, 0)]
    BY <1>8, <1>10, <1>12
  <2>2. Two!Left(q, 0) = q
    <3>1. Len(q) \in Nat /\ Two!Least(0, Len(q)) = 0
      BY <1>7 DEF Two!Least
    <3>. QED BY <1>7, <3>1, SubSeqFull DEF Two!Left
  <2>3. up' = [state |-> up.state, q |-> q]
    BY <1>3, <2>1, <2>2, TwoPipeIs
  <2>4. up' \in Two!Pipe /\ up'.state = up.state /\ up'.q = q
    BY <1>6, <1>7, <2>3, TwoPipeOf
  <2>5. TwoFraming'
    BY <1>1, <1>2, <1>7, <1>9, <1>12, <2>1, <2>4 DEF TwoFraming
  <2>6. TwoWhole'
    BY <1>2, <2>1 DEF TwoInv, TwoWhole
  <2>. QED BY <1>1, <1>2, <1>3, <2>1, <2>4, <2>5, <2>6, TwoReads
<1>. QED BY <1>10, <1>11, <1>12

LEMMA TwoAReadsBody == ASSUME TwoInv, Two!aReadBody PROVE TwoInv'
<1>1. aReader = "body" /\ up.q # <<>> /\ aReader' = "wait"
  BY DEF Two!aReadBody
<1>2. /\ UNCHANGED <<sized, down, aWriter, aWords, typed, aSent, aSize, bWriter, bReader,
                     bWords, bOut>>
      /\ aOut' = Append(aOut, Two!Taken(up.q, aSize))
      /\ up' = [up EXCEPT !.q = Two!Left(up.q, aSize)]
  BY DEF Two!aReadBody, Two!bVars
<1>3. TwoTypes
  BY TwoTyped
<1>4. Framed(Len(bWords), bWords, Len(up.q), up.q, bWriter, aReader,
             aSize, Of(aOut, Len(aOut)))
  BY <1>1 DEF TwoInv, TwoPlaces, TwoFraming
<1>5. /\ Len(bWords) \in Nat /\ \A n \in 1 .. Len(bWords) : bWords[n] \in Nat
      /\ Len(up.q) \in Nat \ {0} /\ Of(aOut, Len(aOut)) \in Nat
  BY <1>1, <1>3 DEF TwoTypes
<1>6. Framed(Len(bWords), bWords, Len(up.q), up.q, bWriter, "body", aSize,
             Of(aOut, Len(aOut)))
  BY <1>1, <1>4
<1>7. PICK m :
         /\ aSize > 0
         /\ WordAt(Len(bWords), bWords, Len(up.q), up.q, bWriter, aSize,
                   Of(aOut, Len(aOut)), m, aSize)
  <2>1. AreLens(Len(bWords), bWords)
    BY <1>5 DEF AreLens
  <2>. QED BY <1>5, <1>6, <2>1, FrameBody
<1>8. aSize \in Nat \ {0}
  BY <1>7 DEF TwoInv, Two!TypeOK
<1>9. up.q \in Seq(Two!Unit)
  <2>1. up \in Two!Pipe
    BY DEF TwoInv, Two!TypeOK
  <2>. QED BY <2>1, TwoPipeIs
<1>. QED BY <1>1, <1>2, <1>7, <1>8, <1>9, TwoPrints

LEMMA TwoAReadsSize == ASSUME TwoInv, Two!aReadSize PROVE TwoInv'
<1>1. aReader = "read" /\ sized /\ up.q # <<>>
  BY DEF Two!aReadSize
<1>2. /\ UNCHANGED <<sized, down, aWriter, aWords, typed, aSent, aOut, bWriter, bReader,
                     bWords, bOut>>
      /\ aSize' = Two!SizeOf(Head(up.q)) /\ up' = [up EXCEPT !.q = Tail(up.q)]
      /\ aReader' = IF aSize' > 0 THEN "body" ELSE "wait"
  BY DEF Two!aReadSize, Two!bVars
<1>3. TwoTypes /\ up \in Two!Pipe /\ aOut \in Seq(Seq(Two!Unit))
  BY TwoTyped DEF TwoInv, Two!TypeOK
<1>4. Framed(Len(bWords), bWords, Len(up.q), up.q, bWriter, aReader,
             aSize, Of(aOut, Len(aOut)))
  BY <1>1 DEF TwoInv, TwoPlaces, TwoFraming
<1>6. /\ Len(bWords) \in Nat /\ \A n \in 1 .. Len(bWords) : bWords[n] \in Nat
      /\ Len(up.q) \in Nat \ {0} /\ Of(aOut, Len(aOut)) \in Nat
  <2>1. Len(bWords) \in Nat /\ \A n \in 1 .. Len(bWords) : bWords[n] \in Nat
    BY <1>3, Zenon DEF TwoTypes
  <2>2. Len(up.q) \in Nat /\ Len(up.q) # 0 /\ Len(aOut) \in Nat
    BY <1>1, <1>3, Zenon DEF TwoTypes
  <2>3. \A k \in 0 .. Len(aOut) : Of(aOut, k) \in Nat
    BY <1>3, Zenon DEF TwoTypes
  <2>4. Len(aOut) \in 0 .. Len(aOut)
    BY <2>2
  <2>5. Of(aOut, Len(aOut)) \in Nat
    BY <2>3, <2>4, Zenon
  <2>. QED BY <2>1, <2>2, <2>5
<1>7. Framed(Len(bWords), bWords, Len(up.q), up.q, bWriter, "read", aSize,
             Of(aOut, Len(aOut)))
  BY <1>1, <1>4
<1>8. PICK m : SizeAt(Len(bWords), bWords, Len(up.q), up.q, bWriter, Of(aOut, Len(aOut)), m)
  <2>1. AreLens(Len(bWords), bWords)
    BY <1>6 DEF AreLens
  <2>. QED BY <1>6, <1>7, <2>1, FrameSize
<1>9. up.q \in Seq(Two!Unit) /\ up.state \in Two!State
  BY <1>3, TwoPipeIs
<1>10. /\ Head(up.q) = up.q[1] /\ Tail(up.q) \in Seq(Two!Unit)
       /\ Len(Tail(up.q)) = Len(up.q) - 1
       /\ \A j \in 1 .. Len(up.q) - 1 : Tail(up.q)[j] = up.q[j + 1]
  BY <1>1, <1>9
<1>11. aSize' = bWords[m] /\ aSize' \in Nat
  BY <1>2, <1>6, <1>8, <1>10 DEF Two!SizeOf, SizeAt
<1>12. up' \in Two!Pipe /\ up'.state = up.state /\ up'.q = Tail(up.q)
  <2>1. up' = [state |-> up.state, q |-> Tail(up.q)]
    BY <1>2, <1>3, TwoPipeIs
  <2>. QED BY <1>9, <1>10, <2>1, TwoPipeOf
<1>13. TwoFraming'
  <2>1. \A j \in 1 .. Len(up.q) - 1 : Tail(up.q)[j] = up.q[1 + j]
    <3>1. \A j \in 1 .. Len(up.q) - 1 : 1 + j = j + 1
      OBVIOUS
    <3>. QED BY <1>10, <3>1
  <2>2. Framed(Len(bWords), bWords, Len(up.q) - 1, Tail(up.q), bWriter,
               IF bWords[m] > 0 THEN "body" ELSE "wait", bWords[m], Of(aOut, Len(aOut)))
    BY <1>8, <2>1 DEF SizeAt
  <2>3. aReader' = (IF bWords[m] > 0 THEN "body" ELSE "wait")
    BY <1>2, <1>11
  <2>. QED BY <1>2, <1>10, <1>11, <1>12, <2>2, <2>3 DEF TwoFraming
<1>14. TwoWhole'
  BY <1>2 DEF TwoInv, TwoWhole
<1>15. aReader' \in {"wait", "read", "body"}
  BY <1>2
<1>. QED BY <1>1, <1>2, <1>3, <1>11, <1>12, <1>13, <1>14, <1>15, TwoReads

-----------------------------------------------------------------------------
LEMMA TwoBWrites ==
    ASSUME TwoInv, Two!bWriterOpen \/ Two!bWritten \/ Two!bWriteFails PROVE TwoInv'
<1>1. /\ UNCHANGED <<sized, down, aWriter, aReader, aWords, typed, aSize, aOut, aSent,
                     bReader, bWords, bOut>>
      /\ bWriter \in {"open", "type", "write"} /\ bWriter' \in {"type", "ended"}
      /\ \/ up' = up \/ up' = [up EXCEPT !.state = "connected"]
      /\ bWriter' = "type" => up'.state = "connected"
  <2>1. up \in Two!Pipe
    BY DEF TwoInv, Two!TypeOK
  <2>2. [up EXCEPT !.state = "connected"] = [state |-> "connected", q |-> up.q]
    BY <2>1, TwoPipeIs
  <2>3. [state |-> "connected", q |-> up.q].state = "connected"
    OBVIOUS
  <2>. QED BY <2>2, <2>3 DEF Two!bWriterOpen, Two!bWritten, Two!bWriteFails, Two!aVars
<1>2. up' \in Two!Pipe /\ up'.q = up.q
  <2>1. up \in Two!Pipe
    BY DEF TwoInv, Two!TypeOK
  <2>2. up.q \in Seq(Two!Unit) /\ [up EXCEPT !.state = "connected"] =
                                     [state |-> "connected", q |-> up.q]
    BY <2>1, TwoPipeIs
  <2>3. "connected" \in Two!State
    BY DEF Two!State
  <2>4. /\ [state |-> "connected", q |-> up.q] \in Two!Pipe
        /\ [state |-> "connected", q |-> up.q].q = up.q
    BY <2>2, <2>3, TwoPipeOf
  <2>. QED BY <1>1, <2>1, <2>2, <2>4
<1>3. TwoFraming' /\ TwoWhole'
  <2>1. Two!AAlive' => Two!AAlive
    BY <1>1 DEF Two!AAlive
  <2>. QED BY <1>1, <1>2, <2>1, TwoKept
<1>4. TwoPlaces'
  BY <1>1 DEF TwoInv, TwoPlaces, Two!AAlive
<1>5. Two!TypeOK'
  BY <1>1, <1>2 DEF TwoInv, Two!TypeOK
<1>6. Two!NothingLostToB'
  BY <1>1 DEF TwoInv, Two!NothingLostToB, Two!AAlive
<1>. QED BY <1>3, <1>4, <1>5, <1>6 DEF TwoInv

LEMMA TwoBTypes ==
    ASSUME TwoInv, NEW len \in Lens, Two!bType(len) PROVE TwoInv'
<1>. DEFINE W == Len(bWords)
            frame == Two!Frame(W + 1, len)
<1>1. /\ UNCHANGED <<sized, down, aWriter, aReader, aWords, typed, aSize, aOut, aSent,
                     bReader, bOut>>
      /\ bWriter = "type" /\ bWriter' = "write" /\ up.state = "connected"
      /\ up' = [up EXCEPT !.q = up.q \o frame] /\ bWords' = Append(bWords, len)
  BY DEF Two!bType, Two!aVars
<1>2. TwoTypes
  BY TwoTyped
<1>3. up \in Two!Pipe /\ bWords \in Seq(Lens)
  BY DEF TwoInv, Two!TypeOK
<1>4. W \in Nat /\ len \in Nat /\ Len(up.q) \in Nat
  BY <1>2, TwoLens DEF TwoTypes
<1>5. /\ up.q \in Seq(Two!Unit) /\ up.state \in Two!State
      /\ up' = [state |-> up.state, q |-> up.q \o frame]
  BY <1>1, <1>3, TwoPipeIs
<1>6. /\ frame \in Seq(Two!Unit) /\ Len(frame) = len + 1
      /\ \A k \in 0 .. len : frame[k + 1] = <<W + 1, k>>
  <2>1. \A n, l \in Nat :
           /\ Two!Frame(n, l) \in Seq(Two!Unit) /\ Len(Two!Frame(n, l)) = l + 1
           /\ \A k \in 0 .. l : Two!Frame(n, l)[k + 1] = <<n, k>>
    BY TwoFrame
  <2>2. W + 1 \in Nat
    BY <1>4
  <2>. QED BY <1>4, <2>1, <2>2
<1>. HIDE DEF frame
<1>. DEFINE r == up.q \o frame
<1>7. /\ r \in Seq(Two!Unit) /\ Len(r) = Len(up.q) + Len(frame)
      /\ \A j \in 1 .. Len(up.q) + Len(frame) :
            r[j] = IF j <= Len(up.q) THEN up.q[j] ELSE frame[j - Len(up.q)]
  BY <1>5, <1>6, ConcatProperties
<1>. HIDE DEF r
<1>8. up' \in Two!Pipe /\ up'.q = r /\ up'.state = "connected"
  <2>1. up' = [state |-> up.state, q |-> r]
    BY <1>5 DEF r
  <2>2. /\ [state |-> up.state, q |-> r] \in Two!Pipe
        /\ [state |-> up.state, q |-> r].state = up.state
        /\ [state |-> up.state, q |-> r].q = r
    BY <1>5, <1>7, TwoPipeOf
  <2>. QED BY <1>1, <2>1, <2>2
<1>9. /\ bWords' \in Seq(Lens) /\ Len(bWords') = W + 1 /\ bWords'[W + 1] = len
      /\ \A n \in 1 .. W : bWords'[n] = bWords[n]
      /\ bWords' # <<>>
  BY <1>1, <1>3
<1>10. AreLens(W, bWords) /\ Same(W, bWords, bWords')
  BY <1>2, <1>9 DEF AreLens, Same, TwoTypes
<1>. HIDE DEF W
<1>11. Same(Len(up.q), up.q, r)
  <2>1. \A j \in 1 .. Len(up.q) : j \in 1 .. Len(up.q) + (len + 1) /\ j <= Len(up.q)
    <3>1. \A L, l \in Nat : \A j \in 1 .. L : j \in 1 .. L + (l + 1) /\ j <= L
      OBVIOUS
    <3>. QED BY <1>4, <3>1
  <2>. QED BY <1>6, <1>7, <2>1 DEF Same
<1>12. Written(Len(up.q), r, W + 1, len)
  <2>1. ASSUME NEW k \in 0 .. len PROVE r[Len(up.q) + k + 1] = <<W + 1, k>>
    <3>. DEFINE j == Len(up.q) + k + 1
    <3>1. k \in Int /\ k >= 0 /\ k <= len
      BY <1>4
    <3>2. /\ j \in 1 .. Len(up.q) + (len + 1) /\ ~(j <= Len(up.q))
          /\ j - Len(up.q) = k + 1
      <4>1. PICK L \in Nat, l \in Nat : L = Len(up.q) /\ l = len
        BY <1>4
      <4>2. k \in Int /\ k >= 0 /\ k <= l
        BY <3>1, <4>1
      <4>3. L + k + 1 \in 1 .. L + (l + 1) /\ ~(L + k + 1 <= L) /\ L + k + 1 - L = k + 1
        BY <4>2
      <4>4. j = L + k + 1
        BY <4>1
      <4>. HIDE DEF j
      <4>5. j \in 1 .. L + (l + 1) /\ ~(j <= L) /\ j - L = k + 1
        BY <4>3, <4>4
      <4>. QED BY <4>1, <4>5
    <3>. HIDE DEF j
    <3>3. r[j] = frame[k + 1]
      BY <1>6, <1>7, <3>2
    <3>. QED BY <1>6, <3>3 DEF j
  <2>. QED BY <2>1 DEF Written
<1>13. TwoFraming'
  <2>1. CASE Two!AAlive
    <3>1. Framed(W, bWords, Len(up.q), up.q, "type", aReader, aSize,
                 Of(aOut, Len(aOut)))
      BY <1>1, <2>1 DEF TwoInv, TwoFraming, W
    <3>2. Of(aOut, Len(aOut)) \in Nat
      <4>1. Len(aOut) \in 0 .. Len(aOut)
        BY <1>2 DEF TwoTypes
      <4>. QED BY <1>2, <4>1 DEF TwoTypes
    <3>3. Framed(W + 1, bWords', Len(up.q) + len + 1, r, "write", aReader, aSize,
                 Of(aOut, Len(aOut)))
      BY <1>4, <1>9, <1>10, <1>11, <1>12, <3>1, <3>2, FrameWritten
    <3>4. Len(up'.q) = Len(up.q) + len + 1
      BY <1>4, <1>6, <1>7, <1>8
    <3>. QED BY <1>1, <1>8, <1>9, <3>3, <3>4 DEF TwoFraming
  <2>2. CASE ~Two!AAlive
    BY <1>1, <2>2 DEF TwoFraming, Two!AAlive
  <2>. QED BY <2>1, <2>2
<1>14. TwoWhole'
  <2>1. Whole(Len(aOut), aOut, W, bWords) /\ Len(aOut) \in Nat /\ Numbered(Len(aOut), aOut)
    BY <1>2 DEF TwoInv, TwoWhole, TwoTypes, Numbered, W
  <2>2. Whole(Len(aOut), aOut, W + 1, bWords')
    BY <1>4, <1>10, <2>1, WordAdded
  <2>. QED BY <1>1, <1>9, <2>2 DEF TwoWhole
<1>15. TwoPlaces'
  BY <1>1, <1>8, <1>9 DEF TwoInv, TwoPlaces, Two!AAlive
<1>16. Two!TypeOK'
  <2>1. bWords' \in Seq(Lens)
    BY <1>1, <1>9
  <2>2. /\ sized' \in BOOLEAN /\ down' \in Two!Pipe
        /\ aWriter' \in {"wait", "type", "write", "killed"}
        /\ aReader' \in {"wait", "read", "body", "killed"}
        /\ bReader' \in {"open", "read", "ended"}
        /\ aWords' \in Seq(Lens) /\ typed' \in Len(aWords') .. MaxWords
        /\ aSize' \in Nat /\ aOut' \in Seq(Seq(Two!Unit)) /\ aSent' \in Seq(Two!Unit)
        /\ bOut' \in Seq(Two!Unit)
    BY <1>1 DEF TwoInv, Two!TypeOK
  <2>. QED BY <1>1, <1>8, <2>1, <2>2 DEF Two!TypeOK
<1>17. Two!NothingLostToB'
  BY <1>1 DEF TwoInv, Two!NothingLostToB, Two!AAlive
<1>. QED BY <1>13, <1>14, <1>15, <1>16, <1>17 DEF TwoInv

-----------------------------------------------------------------------------
LEMMA TwoBReads ==
    ASSUME TwoInv, Two!bReaderOpen \/ Two!bRead \/ Two!bReadFails PROVE TwoInv'
<1>1. /\ UNCHANGED <<sized, up, aWriter, aReader, aWords, typed, aSize, aOut, aSent,
                     bWriter, bWords>>
      /\ bReader' # "open"
  BY DEF Two!bReaderOpen, Two!bRead, Two!bReadFails, Two!aVars
<1>2. down \in Two!Pipe /\ bOut \in Seq(Two!Unit) /\ aSent \in Seq(Two!Unit)
  BY DEF TwoInv, Two!TypeOK
<1>3. /\ down.q \in Seq(Two!Unit) /\ down.state \in Two!State
      /\ \A s : [down EXCEPT !.q = s] = [state |-> down.state, q |-> s]
      /\ \A t : [down EXCEPT !.state = t] = [state |-> t, q |-> down.q]
  BY <1>2, TwoPipeIs
<1>4. /\ down' \in Two!Pipe /\ bReader' \in {"read", "ended"} /\ bOut' \in Seq(Two!Unit)
      /\ Two!NothingLostToB'
  <2>1. CASE Two!bReaderOpen
    <3>1. /\ bReader = "open" /\ bReader' = "read" /\ bOut' = bOut
          /\ down' = [state |-> "connected", q |-> down.q]
      BY <1>3, <2>1 DEF Two!bReaderOpen
    <3>2. down' \in Two!Pipe /\ down'.q = down.q
      <4>1. "connected" \in Two!State
        BY DEF Two!State
      <4>. QED BY <1>3, <3>1, <4>1, TwoPipeOf
    <3>3. Two!NothingLostToB'
      <4>1. SUFFICES ASSUME Two!AAlive' PROVE bOut' \o down'.q = aSent'
        BY DEF Two!NothingLostToB
      <4>2. aSent = <<>> /\ bOut = <<>> /\ down.q = <<>>
        BY <1>1, <3>1, <4>1 DEF TwoInv, TwoPlaces, Two!AAlive
      <4>3. <<>> \o <<>> = <<>>
        OBVIOUS
      <4>. QED BY <1>1, <3>1, <3>2, <4>2, <4>3
    <3>. QED BY <1>2, <3>1, <3>2, <3>3
  <2>2. CASE Two!bRead
    <3>. DEFINE taken == Two!Taken(down.q, MAX_PATH)
                left == Two!Left(down.q, MAX_PATH)
    <3>1. /\ bReader = "read" /\ bReader' = "read" /\ bOut' = bOut \o taken
          /\ down' = [state |-> down.state, q |-> left]
      BY <1>3, <2>2 DEF Two!bRead
    <3>2. taken \in Seq(Two!Unit) /\ left \in Seq(Two!Unit) /\ taken \o left = down.q
      <4>1. MAX_PATH \in Nat
        BY TwoLens
      <4>. QED BY <1>3, <4>1, TwoTaken
    <3>. HIDE DEF taken, left
    <3>3. down' \in Two!Pipe /\ down'.q = left
      BY <1>3, <3>1, <3>2, TwoPipeOf
    <3>4. bOut \o taken \in Seq(Two!Unit)
      BY <1>2, <3>2, ConcatProperties
    <3>5. \A s, t, u \in Seq(Two!Unit) : (s \o t) \o u = s \o (t \o u)
      BY ConcatAssociative
    <3>6. (bOut \o taken) \o left = bOut \o down.q
      <4>1. (bOut \o taken) \o left = bOut \o (taken \o left)
        BY <1>2, <3>2, <3>5
      <4>. QED BY <3>2, <4>1
    <3>7. Two!NothingLostToB'
      BY <1>1, <3>1, <3>3, <3>6 DEF TwoInv, Two!NothingLostToB, Two!AAlive
    <3>. QED BY <3>1, <3>3, <3>4, <3>7
  <2>3. CASE Two!bReadFails
    BY <1>2, <2>3 DEF Two!bReadFails, Two!NothingLostToB
  <2>. QED BY <2>1, <2>2, <2>3
<1>5. TwoFraming' /\ TwoWhole'
  <2>1. Two!AAlive' => Two!AAlive
    BY <1>1 DEF Two!AAlive
  <2>. QED BY <1>1, <2>1, TwoKept
<1>6. TwoPlaces'
  BY <1>1 DEF TwoInv, TwoPlaces, Two!AAlive
<1>7. Two!TypeOK'
  BY <1>1, <1>4 DEF TwoInv, Two!TypeOK
<1>. QED BY <1>4, <1>5, <1>6, <1>7 DEF TwoInv

-----------------------------------------------------------------------------
LEMMA TwoAKilled == ASSUME TwoInv, Two!AKilled PROVE TwoInv'
<1>1. /\ UNCHANGED <<sized, aWords, typed, aSize, aOut, aSent, bWriter, bReader, bWords,
                     bOut>>
      /\ aWriter' = "killed" /\ aReader' = "killed"
      /\ up' = [state |-> "serverGone", q |-> <<>>]
      /\ down' = [state |-> "serverGone",
                  q |-> IF aWriter = "write" /\ Len(down.q) > MAX_PATH
                        THEN Two!Cancelled(down.q, aWords[Len(aWords)]) ELSE down.q]
  BY DEF Two!AKilled, Two!bVars
<1>2. "serverGone" \in Two!State /\ <<>> \in Seq(Two!Unit)
  BY DEF Two!State
<1>3. up' \in Two!Pipe
  BY <1>1, <1>2, TwoPipeOf
<1>4. down' \in Two!Pipe
  <2>1. down \in Two!Pipe /\ aWords \in Seq(Lens)
    BY DEF TwoInv, Two!TypeOK
  <2>2. down.q \in Seq(Two!Unit)
    BY <2>1, TwoPipeIs
  <2>3. aWriter = "write" => Two!Cancelled(down.q, aWords[Len(aWords)]) \in Seq(Two!Unit)
    <3>1. SUFFICES ASSUME aWriter = "write"
                   PROVE  Two!Cancelled(down.q, aWords[Len(aWords)]) \in Seq(Two!Unit)
      OBVIOUS
    <3>2. aWords # <<>>
      BY <3>1 DEF TwoInv, TwoPlaces
    <3>3. aWords[Len(aWords)] \in Lens
      BY <2>1, <3>2
    <3>4. \A len \in Lens : len \in Nat
      BY TwoLens
    <3>. QED BY <2>2, <3>3, <3>4, TwoCancelled
  <2>. DEFINE q == IF aWriter = "write" /\ Len(down.q) > MAX_PATH
                   THEN Two!Cancelled(down.q, aWords[Len(aWords)]) ELSE down.q
  <2>4. q \in Seq(Two!Unit)
    BY <2>2, <2>3
  <2>5. down' = [state |-> "serverGone", q |-> q]
    BY <1>1
  <2>. HIDE DEF q
  <2>. QED BY <1>2, <2>4, <2>5, TwoPipeOf
<1>5. Two!TypeOK'
  BY <1>1, <1>3, <1>4 DEF TwoInv, Two!TypeOK
<1>6. TwoPlaces' /\ TwoFraming' /\ Two!NothingLostToB'
  BY <1>1 DEF TwoInv, TwoPlaces, TwoFraming, Two!NothingLostToB, Two!AAlive
<1>7. TwoWhole'
  BY <1>1 DEF TwoInv, TwoWhole
<1>. QED BY <1>5, <1>6, <1>7 DEF TwoInv

LEMMA TwoBKilled == ASSUME TwoInv, Two!BKilled PROVE TwoInv'
<1>. DEFINE W == Len(bWords)
            last == bWords[W] + 1
            r == IF bWriter = "write" /\ Two!Room(up.q) > MAX_PATH
                 THEN Two!Cancelled(up.q, last) ELSE up.q
<1>1. /\ UNCHANGED <<sized, aWriter, aReader, aWords, typed, aSize, aOut, aSent, bWords,
                     bOut>>
      /\ bWriter' = "ended" /\ bReader' = "ended"
      /\ down' = [state |-> Two!Gone(down.state), q |-> <<>>]
      /\ up' = [state |-> Two!Gone(up.state), q |-> r]
  BY DEF Two!BKilled, Two!aVars
<1>2. TwoTypes /\ down \in Two!Pipe /\ up \in Two!Pipe /\ bWords \in Seq(Lens)
  BY TwoTyped DEF TwoInv, Two!TypeOK
<1>3. /\ up.q \in Seq(Two!Unit) /\ Two!Gone(up.state) \in Two!State
      /\ Two!Gone(down.state) \in Two!State /\ <<>> \in Seq(Two!Unit)
  <2>1. down.state \in Two!State /\ up.state \in Two!State /\ up.q \in Seq(Two!Unit)
    BY <1>2, TwoPipeIs
  <2>. QED BY <2>1 DEF Two!Gone, Two!State
<1>4. ASSUME bWriter = "write"
      PROVE  /\ W \in Nat \ {0} /\ bWords[W] \in Nat /\ last = bWords[W] + 1 /\ last \in Nat
  <2>1. bWords # <<>>
    BY <1>4 DEF TwoInv, TwoPlaces
  <2>2. W \in Nat \ {0}
    BY <1>2, <2>1
  <2>3. W \in 1 .. W
    BY <2>2
  <2>4. bWords[W] \in Nat
    BY <1>2, <2>3 DEF TwoTypes
  <2>. QED BY <2>2, <2>4
<1>. HIDE DEF last
<1>5. r \in Seq(Two!Unit)
  BY <1>3, <1>4, TwoCancelled
<1>6. /\ r = up.q
      \/ r = <<>>
      \/ /\ bWriter = "write" /\ last < Len(up.q)
         /\ Len(r) = Len(up.q) - last /\ Same(Len(up.q) - last, up.q, r)
  <2>1. CASE ~(bWriter = "write" /\ Two!Room(up.q) > MAX_PATH)
    BY <2>1
  <2>2. CASE bWriter = "write" /\ Two!Room(up.q) > MAX_PATH
    <3>1. r = Two!Cancelled(up.q, last) /\ last \in Nat
      BY <1>4, <2>2
    <3>2. /\ Len(up.q) <= last => Two!Cancelled(up.q, last) = <<>>
          /\ last < Len(up.q) =>
                /\ Len(Two!Cancelled(up.q, last)) = Len(up.q) - last
                /\ \A j \in 1 .. Len(up.q) - last : Two!Cancelled(up.q, last)[j] = up.q[j]
      BY <1>3, <3>1, TwoCancelled
    <3>3. Len(up.q) <= last \/ last < Len(up.q)
      BY <1>2, <3>1 DEF TwoTypes
    <3>. QED BY <2>2, <3>1, <3>2, <3>3 DEF Same
  <2>. QED BY <2>1, <2>2
<1>. HIDE DEF r
<1>7. up' \in Two!Pipe /\ down' \in Two!Pipe /\ up'.q = r
  BY <1>1, <1>3, <1>5, TwoPipeOf
<1>8. TwoFraming'
  <2>1. SUFFICES ASSUME Two!AAlive, r # <<>>
                 PROVE  Framed(W, bWords, Len(r), r, "ended", aReader, aSize,
                               Of(aOut, Len(aOut)))
    <3>1. (Two!AAlive' <=> Two!AAlive)
      BY <1>1 DEF Two!AAlive
    <3>. QED BY <1>1, <1>7, <3>1 DEF TwoFraming
  <2>2. CASE r = up.q
    <3>1. Framed(W, bWords, Len(r), r, bWriter, aReader, aSize, Of(aOut, Len(aOut)))
      BY <2>1, <2>2 DEF TwoInv, TwoFraming
    <3>. QED BY <3>1 DEF Framed
  <2>3. CASE /\ bWriter = "write" /\ last < Len(up.q)
             /\ Len(r) = Len(up.q) - last /\ Same(Len(up.q) - last, up.q, r)
    <3>1. Framed(W, bWords, Len(up.q), up.q, "write", aReader, aSize,
                 Of(aOut, Len(aOut)))
      BY <2>1, <2>3 DEF TwoInv, TwoFraming
    <3>2. /\ Of(aOut, Len(aOut)) \in Nat /\ Len(up.q) \in Nat
          /\ AreLens(W, bWords)
      <4>1. Len(aOut) \in 0 .. Len(aOut)
        BY <1>2 DEF TwoTypes
      <4>. QED BY <1>2, <4>1 DEF TwoTypes, AreLens
    <3>3. W \in Nat \ {0} /\ last = bWords[W] + 1
      BY <1>4, <2>3
    <3>. HIDE DEF W
    <3>4. Framed(W, bWords, Len(up.q) - (bWords[W] + 1), r, "ended", aReader, aSize,
                 Of(aOut, Len(aOut)))
      BY <2>3, <3>1, <3>2, <3>3, FrameCancelled
    <3>. QED BY <2>3, <3>3, <3>4
  <2>. QED BY <1>6, <2>1, <2>2, <2>3
<1>9. TwoWhole'
  BY <1>1 DEF TwoInv, TwoWhole
<1>10. TwoPlaces'
  BY <1>1 DEF TwoInv, TwoPlaces, Two!AAlive
<1>11. Two!TypeOK'
  BY <1>1, <1>7 DEF TwoInv, Two!TypeOK
<1>12. Two!NothingLostToB'
  BY <1>1 DEF Two!NothingLostToB
<1>. QED BY <1>8, <1>9, <1>10, <1>11, <1>12 DEF TwoInv

-----------------------------------------------------------------------------
LEMMA TwoNext == ASSUME TwoInv, [Two!Next]_(Two!vars) PROVE TwoInv'
<1>1. CASE Two!AWriter
  BY <1>1, TwoAWrites, TwoATypes DEF Two!AWriter
<1>2. CASE Two!AReader
  BY <1>2, TwoAReadsNothing, TwoAReadsMessage, TwoAReadsSize, TwoAReadsBody DEF Two!AReader
<1>3. CASE Two!BWriter
  BY <1>3, TwoBWrites, TwoBTypes DEF Two!BWriter
<1>4. CASE Two!BReader
  BY <1>4, TwoBReads DEF Two!BReader
<1>5. CASE Two!AKilled \/ Two!BKilled
  BY <1>5, TwoAKilled, TwoBKilled
<1>6. CASE UNCHANGED Two!vars
  <2>1. UNCHANGED <<sized, down, up, aWriter, aReader, bWriter, bReader, aWords, bWords,
                    typed, aSize, aOut, aSent, bOut>>
    BY <1>6 DEF Two!vars, Two!aVars, Two!bVars
  <2>2. Two!TypeOK'
    BY <2>1 DEF TwoInv, Two!TypeOK
  <2>3. TwoPlaces' /\ Two!NothingLostToB' /\ TwoWhole'
    BY <2>1 DEF TwoInv, TwoPlaces, Two!NothingLostToB, Two!AAlive, TwoWhole
  <2>4. TwoFraming'
    BY <2>1 DEF TwoInv, TwoFraming, Two!AAlive
  <2>. QED BY <2>2, <2>3, <2>4 DEF TwoInv
<1>. QED BY <1>1, <1>2, <1>3, <1>4, <1>5, <1>6 DEF Two!Next

-----------------------------------------------------------------------------
(***************************************************************************)
(* The programs one at a time                                              *)
(***************************************************************************)

AllInv == InstsInv /\ ThreadsInv /\ TwoInv

InstsReplyNext == \A k \in Insts!Inst : [Reply(k)!RRNext]_(Reply(k)!rrVars)
ThreadsReplyNext == \A k \in Threads!Inst : [ThreadReply(k)!RRNext]_(ThreadReply(k)!rrVars)

LEMMA AllStart ==
    ASSUME Init
    PROVE  /\ AllInv
           /\ \A k \in Insts!Inst : Reply(k)!RRInit
           /\ \A k \in Threads!Inst : ThreadReply(k)!RRInit
BY InstsStart, ThreadsStart, TwoStart DEF Init, AllInv

\* A step of one program is none of the others.
LEMMA OneSteps ==
    ASSUME [Next]_vars
    PROVE  [Insts!Next]_(Insts!vars) /\ [Threads!Next]_(Threads!vars) /\ [Two!Next]_(Two!vars)
<1>1. UNCHANGED instsVars => UNCHANGED Insts!vars
  BY DEF instsVars, Insts!vars, Insts!serverVars, Insts!clientVars
<1>2. UNCHANGED threadsVars => UNCHANGED Threads!vars
  BY DEF threadsVars, Threads!vars, Threads!serverVars, Threads!processVars,
         Threads!historyVars
<1>3. UNCHANGED twoVars => UNCHANGED Two!vars
  BY DEF twoVars, Two!vars, Two!aVars, Two!bVars
<1>4. CASE OfInsts(Insts!Next)
  BY <1>2, <1>3, <1>4 DEF OfInsts
<1>5. CASE OfThreads(Threads!Next)
  BY <1>1, <1>3, <1>5 DEF OfThreads
<1>6. CASE OfTwo(Two!Next)
  BY <1>1, <1>2, <1>6 DEF OfTwo
<1>7. CASE UNCHANGED vars
  BY <1>1, <1>2, <1>3, <1>7 DEF vars
<1>. QED BY <1>4, <1>5, <1>6, <1>7 DEF Next

LEMMA AllNext ==
    ASSUME AllInv, [Next]_vars PROVE AllInv' /\ InstsReplyNext /\ ThreadsReplyNext
<1>1. [Insts!Next]_(Insts!vars) /\ [Threads!Next]_(Threads!vars) /\ [Two!Next]_(Two!vars)
  BY OneSteps
<1>2. InstsInv' /\ \A k \in Insts!Inst : InstStep(k)
  BY <1>1, InstsNext DEF AllInv
<1>3. ThreadsInv' /\ \A k \in Threads!Inst : ThreadStep(k)
  BY <1>1, ThreadsNext DEF AllInv
<1>4. TwoInv'
  BY <1>1, TwoNext DEF AllInv
<1>. QED BY <1>2, <1>3, <1>4
     DEF AllInv, InstsReplyNext, ThreadsReplyNext, InstStep, ThreadStep

\* Whatever the numbers of clients, instances and requests and the lengths of the words:
\* every variable of the three programs keeps its type, what A of pipedemo and
\* pipewithsizedemo prints is words of B's, whole, in order, none left out, and nothing
\* that A writes is lost on its way to B while both are there.
THEOREM ProgramsSafe == Spec => []Inv
<1>1. Init => AllInv
  BY AllStart
<1>2. AllInv /\ [Next]_vars => AllInv'
  BY AllNext
<1>3. AllInv => Inv
  BY TwoWholeIs DEF AllInv, InstsInv, ThreadsInv, TwoInv, Inv, TypeOK
<1>. QED BY <1>1, <1>2, <1>3, PTL DEF Spec

\* serveroverlapped: each instance of its pipe, served by the one thread together with
\* the others, implements RequestReply: a reply to each request, in order, and nothing of
\* one client for the next.
THEOREM InstancesImplementReply == Spec => InstancesReply
<1>1. Init => AllInv /\ \A k \in Insts!Inst : Reply(k)!RRInit
  BY AllStart
<1>2. AllInv /\ [Next]_vars => AllInv' /\ InstsReplyNext
  BY AllNext
<1>. QED BY <1>1, <1>2, PTL DEF Spec, InstancesReply, InstsReplyNext

\* servermultithreaded: so does each instance with its thread.
THEOREM ThreadsImplementReply == Spec => ThreadsReply
<1>1. Init => AllInv /\ \A k \in Threads!Inst : ThreadReply(k)!RRInit
  BY AllStart
<1>2. AllInv /\ [Next]_vars => AllInv' /\ ThreadsReplyNext
  BY AllNext
<1>. QED BY <1>1, <1>2, PTL DEF Spec, ThreadsReply, ThreadsReplyNext
=============================================================================
