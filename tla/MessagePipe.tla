---------------------------- MODULE MessagePipe -----------------------------
(***************************************************************************)
(* An instance of a Windows message-type named pipe as a value, for the    *)
(* programs that hold several of them or call several functions in a row:  *)
(* each call is a function from pipes to pipes.  It is the operating       *)
(* system's side, seen from one end, "this" end; NamedPipe describes the   *)
(* same object with both ends alike.                                       *)
(*                                                                         *)
(*   state     see PipeStates                                              *)
(*   in        what the other end has written and this end has not read    *)
(*   out       what this end has written and the other end has not read;   *)
(*             messages beyond Quota are those of writes that still pend   *)
(*   connect, read, write  this end's overlapped operations, see Operation *)
(*   buffer    what the last completed ReadFile of this end read           *)
(***************************************************************************)
EXTENDS Naturals, Sequences

CONSTANT
    Quota      \* messages a direction holds before a write pends, one at least

\* "peerClosed": the other end closed its handle; "disconnected": the server
\* called DisconnectNamedPipe; "closed": this end has no open handle.
PipeStates == {"listening", "connected", "peerClosed", "disconnected", "closed"}

\* An operation's OVERLAPPED: nothing outstanding, outstanding, or completed
\* (with Internal = 0 or not) and its event or packet not yet consumed.  A call
\* that fails at once leaves "idle".
Operation == {"idle", "pending", "success", "error"}
Completed(op) == op \in {"success", "error"}
Broken(op) == IF op = "pending" THEN "error" ELSE op

Pipe(Msg) == [state : PipeStates, in : Seq(Msg), out : Seq(Msg),
              connect : Operation, read : Operation, write : Operation,
              buffer : Seq(Msg)]

\* A pipe in the given state with nothing in it and nothing outstanding.
NewPipe(state) ==
    [state |-> state, in |-> <<>>, out |-> <<>>, connect |-> "idle",
     read |-> "idle", write |-> "idle", buffer |-> <<>>]

-----------------------------------------------------------------------------
\* Calls of this end

\* What ConnectNamedPipe's GetLastError reports.
ConnectResult(p) ==
    CASE p.state \in {"listening", "disconnected"} -> "ERROR_IO_PENDING"
      [] p.state = "connected"                     -> "ERROR_PIPE_CONNECTED"
      [] p.state = "peerClosed"                    -> "ERROR_NO_DATA"
      [] p.state = "closed"                        -> "ERROR_INVALID_HANDLE"

ConnectNamedPipe(p) ==
    IF ConnectResult(p) = "ERROR_IO_PENDING"
    THEN [p EXCEPT !.state = "listening", !.connect = "pending"]
    ELSE [p EXCEPT !.connect = "idle"]

\* Everything outstanding fails and what is in the pipe is discarded.
Break(p, state) ==
    [p EXCEPT !.state = state, !.in = <<>>, !.out = <<>>,
              !.connect = Broken(@), !.read = Broken(@), !.write = Broken(@)]

\* It fails on a handle that is closed.
DisconnectNamedPipe(p) == IF p.state = "closed" THEN p ELSE Break(p, "disconnected")

\* ReadFile: data of a peer that has closed can still be read.
ReadFile(p) ==
    IF p.in # <<>>
    THEN [p EXCEPT !.in = Tail(@), !.read = "success", !.buffer = <<Head(p.in)>>]
    ELSE [p EXCEPT !.read = IF p.state = "connected" THEN "pending" ELSE "idle"]

\* WriteFile: done at once, pending for want of room, or failed at once.
WriteFile(p, m) ==
    IF p.state = "connected"
    THEN [p EXCEPT !.out = Append(@, m),
                   !.write = IF Len(p.out) < Quota THEN "success" ELSE "pending"]
    ELSE [p EXCEPT !.write = "idle"]

\* CloseHandle, by the program or by the end of its process: writes that pend
\* fail, the peer can still read those that are done.
CloseHandle(p) ==
    [Break(p, "closed") EXCEPT
        !.out = SubSeq(p.out, 1, IF Len(p.out) < Quota THEN Len(p.out) ELSE Quota)]

-----------------------------------------------------------------------------
\* The other end

\* CreateFile by a client, possible only while the instance listens.
PeerOpen(p) ==
    [p EXCEPT !.state = "connected",
              !.connect = IF @ = "pending" THEN "success" ELSE @]

PeerWrite(p, m) ==
    IF p.read = "pending"
    THEN [p EXCEPT !.read = "success", !.buffer = <<m>>]
    ELSE [p EXCEPT !.in = Append(@, m)]
PeerCanWrite(p) ==
    p.state = "connected" /\ (p.read = "pending" \/ Len(p.in) < Quota)

\* The peer takes the oldest message; a write that pended then completes.
PeerRead(p) ==
    [p EXCEPT !.out = Tail(@),
              !.write = IF Len(p.out) > Quota THEN "success" ELSE @]

\* The peer closes its handle: what it wrote can still be read.
PeerClose(p) ==
    IF p.state = "connected"
    THEN [Break(p, "peerClosed") EXCEPT !.in = p.in]
    ELSE [p EXCEPT !.out = <<>>]

\* How many writes complete between two states of a pipe, one call apart.
WritesCompleted(p, q) ==
    CASE Len(q.out) > Len(p.out) -> IF Len(q.out) <= Quota THEN 1 ELSE 0
      [] Len(p.out) > Quota /\ Len(q.out) <= Len(p.out) ->
            Len(p.out) - (IF Len(q.out) > Quota THEN Len(q.out) ELSE Quota)
      [] OTHER -> 0

\* The packets the pipe queues to its completion port between two such states,
\* in each order in which operations that fail together can complete.
Packets(p, q) ==
    LET One(op) == IF ~Completed(p[op]) /\ Completed(q[op]) THEN <<op>> ELSE <<>>
        others == One("connect") \o One("read")
        writes == [i \in 1 .. WritesCompleted(p, q) |-> "write"]
    IN  {others \o writes, writes \o others}
=============================================================================
