----------------------------- MODULE NamedPipe ------------------------------
(***************************************************************************)
(* One instance of a Windows message-type named pipe in overlapped mode,   *)
(* as the programs of this repository use it.  This is the operating       *)
(* system's side: nothing here is code of the repository.                  *)
(*                                                                         *)
(* Each end has at most one overlapped read and one overlapped write; the  *)
(* server end also has an overlapped connect.  An operation's variable     *)
(* holds its event and its OVERLAPPED.Internal together:                   *)
(*   "idle"     nothing outstanding, the event is not signalled            *)
(*   "pending"  the operation is outstanding                               *)
(*   "success"  it completed: event signalled, Internal = 0                *)
(*   "error"    it completed: event signalled, Internal # 0                *)
(* A call that fails at once signals nothing: it leaves "idle".            *)
(*                                                                         *)
(* A message is a positive natural number.                                 *)
(***************************************************************************)
EXTENDS Naturals, Sequences

CONSTANT
    Quota      \* messages an end's buffer holds before a write pends

ASSUME QuotaAssumption == Quota \in Nat \ {0}

VARIABLES
    pipeState,  \* the instance, see PipeStates
    data,       \* data[e]: messages written to end e and not yet read by it
    connectOp,  \* the server's ConnectNamedPipe
    readOp,     \* readOp[e]: the ReadFile of end e
    writeOp,    \* writeOp[e]: the WriteFile of end e
    readBuff,   \* readBuff[e]: what the completed ReadFile of end e read
    writeBuff   \* writeBuff[e]: what the pending WriteFile of end e writes

pipeVars ==
    <<pipeState, data, connectOp, readOp, writeOp, readBuff, writeBuff>>

End == {"server", "client"}
Peer(e) == IF e = "server" THEN "client" ELSE "server"

\* "clientClosed": the client closed its handle and the server has not yet
\* disconnected (the closing state); "serverClosed": the reverse;
\* "gone": the server's handle is closed and no client holds the other end.
PipeStates == {"listening", "connected", "clientClosed", "serverClosed",
               "disconnected", "gone"}

OpStatus == {"idle", "pending", "success", "error"}
Signaled(op) == op \in {"success", "error"}
Break(op) == IF op = "pending" THEN "error" ELSE op

Msg == Nat \ {0}
NoMsg == 0

PipeTypeOK ==
    /\ pipeState \in PipeStates
    /\ data \in [End -> Seq(Msg)]
    /\ connectOp \in OpStatus
    /\ readOp \in [End -> OpStatus]
    /\ writeOp \in [End -> OpStatus]
    /\ readBuff \in [End -> Nat]
    /\ writeBuff \in [End -> Nat]

\* CreateNamedPipe: clients can open the instance at once, before the first
\* ConnectNamedPipe.
PipeInit ==
    /\ pipeState = "listening"
    /\ data = [e \in End |-> <<>>]
    /\ connectOp = "idle"
    /\ readOp = [e \in End |-> "idle"]
    /\ writeOp = [e \in End |-> "idle"]
    /\ readBuff = [e \in End |-> NoMsg]
    /\ writeBuff = [e \in End |-> NoMsg]

-----------------------------------------------------------------------------
\* Server calls

\* What ConnectNamedPipe's GetLastError reports.
ConnectResult ==
    CASE pipeState \in {"listening", "disconnected"} -> "ERROR_IO_PENDING"
      [] pipeState = "connected"                     -> "ERROR_PIPE_CONNECTED"
      [] pipeState = "clientClosed"                  -> "ERROR_NO_DATA"
      [] OTHER                                       -> "ERROR_INVALID_HANDLE"

\* The instance becomes visible to clients and the connect is outstanding.
StartListening ==
    /\ pipeState' = "listening"
    /\ connectOp' = "pending"
    /\ UNCHANGED <<data, readOp, writeOp, readBuff, writeBuff>>

\* DisconnectNamedPipe: whatever is unread in either direction is discarded
\* and outstanding operations of both ends fail.
DisconnectNamedPipe ==
    /\ pipeState' = "disconnected"
    /\ data' = [e \in End |-> <<>>]
    /\ connectOp' = Break(connectOp)
    /\ readOp' = [e \in End |-> Break(readOp[e])]
    /\ writeOp' = [e \in End |-> Break(writeOp[e])]
    /\ writeBuff' = [e \in End |-> NoMsg]
    /\ UNCHANGED readBuff

-----------------------------------------------------------------------------
\* Calls of either end

\* End e takes its oldest message; a write of the peer that was pending for
\* want of room then completes.
TakeMsg(e) ==
    IF writeOp[Peer(e)] = "pending"
    THEN /\ data' = [data EXCEPT ![e] = Append(Tail(@), writeBuff[Peer(e)])]
         /\ writeOp' = [writeOp EXCEPT ![Peer(e)] = "success"]
         /\ writeBuff' = [writeBuff EXCEPT ![Peer(e)] = NoMsg]
    ELSE /\ data' = [data EXCEPT ![e] = Tail(@)]
         /\ UNCHANGED <<writeOp, writeBuff>>

\* ReadFile: data left by a peer that closed can still be read.
ReadFile(e) ==
    /\ \/ /\ data[e] # <<>>
          /\ readOp' = [readOp EXCEPT ![e] = "success"]
          /\ readBuff' = [readBuff EXCEPT ![e] = Head(data[e])]
          /\ TakeMsg(e)
       \/ /\ data[e] = <<>>
          /\ readOp' = [readOp EXCEPT ![e] =
                           IF pipeState = "connected" THEN "pending" ELSE "idle"]
          /\ UNCHANGED <<data, writeOp, readBuff, writeBuff>>
    /\ UNCHANGED <<pipeState, connectOp>>

\* End e's message m reaches the other end: a waiting reader, or its buffer.
PutMsg(e, m) ==
    /\ pipeState = "connected"
    /\ \/ /\ readOp[Peer(e)] = "pending"
          /\ readOp' = [readOp EXCEPT ![Peer(e)] = "success"]
          /\ readBuff' = [readBuff EXCEPT ![Peer(e)] = m]
          /\ UNCHANGED data
       \/ /\ readOp[Peer(e)] # "pending"
          /\ Len(data[Peer(e)]) < Quota
          /\ data' = [data EXCEPT ![Peer(e)] = Append(@, m)]
          /\ UNCHANGED <<readOp, readBuff>>

\* WriteFile: done at once, or pending for want of room; it fails at once
\* when no peer is connected.
WriteFile(e, m) ==
    /\ \/ /\ PutMsg(e, m)
          /\ writeOp' = [writeOp EXCEPT ![e] = "success"]
          /\ UNCHANGED writeBuff
       \/ /\ pipeState = "connected"
          /\ readOp[Peer(e)] # "pending"
          /\ Len(data[Peer(e)]) >= Quota
          /\ writeOp' = [writeOp EXCEPT ![e] = "pending"]
          /\ writeBuff' = [writeBuff EXCEPT ![e] = m]
          /\ UNCHANGED <<data, readOp, readBuff>>
       \/ /\ pipeState # "connected"
          /\ writeOp' = [writeOp EXCEPT ![e] = "idle"]
          /\ UNCHANGED <<data, readOp, readBuff, writeBuff>>
    /\ UNCHANGED <<pipeState, connectOp>>

\* The state the instance is in once end e has closed its handle.
AfterClose(e) ==
    CASE e = "server" /\ pipeState \in {"connected", "serverClosed"} -> "serverClosed"
      [] e = "server" /\ pipeState \notin {"connected", "serverClosed"} -> "gone"
      [] e = "client" /\ pipeState = "connected" -> "clientClosed"
      [] e = "client" /\ pipeState = "serverClosed" -> "gone"
      [] OTHER -> pipeState

\* CloseHandle, by the program or by the end of its process: outstanding
\* operations of both ends fail, what end e had not read is dropped, what it
\* had put in the peer's buffer can still be read.  Once end e is closed this
\* changes nothing, so the end of a process needs no test of its handle.
CloseHandle(e) ==
    /\ pipeState' = AfterClose(e)
    /\ data' = [data EXCEPT ![e] = <<>>]
    /\ connectOp' = IF e = "server" THEN Break(connectOp) ELSE connectOp
    /\ readOp' = [x \in End |-> Break(readOp[x])]
    /\ writeOp' = [x \in End |-> Break(writeOp[x])]
    /\ writeBuff' = [x \in End |-> NoMsg]
    /\ UNCHANGED readBuff

\* CreateFile by a client: possible only while the instance is listening; an
\* outstanding ConnectNamedPipe completes.
OpenClient ==
    /\ pipeState = "listening"
    /\ pipeState' = "connected"
    /\ connectOp' = IF connectOp = "pending" THEN "success" ELSE connectOp
    /\ UNCHANGED <<data, readOp, writeOp, readBuff, writeBuff>>
=============================================================================
