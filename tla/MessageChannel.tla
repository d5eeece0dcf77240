--------------------------- MODULE MessageChannel ---------------------------
(***************************************************************************)
(* What one direction of the duplex pipe promises to the application: the  *)
(* messages given to sendMsg are delivered at most once and in the order   *)
(* they were given.  They may be lost, because a connection can break, but *)
(* what is lost of a connection is always a suffix of what was put on it.  *)
(*                                                                         *)
(* A message is the number of its sendMsg call: 1 for the first.           *)
(***************************************************************************)
EXTENDS Naturals, Sequences

VARIABLES
    sent,    \* how many messages the application has given to sendMsg
    queue,   \* given to sendMsg, not yet written to the pipe
    wire,    \* written to the pipe, not yet read by the peer
    got      \* read by the peer, over all connections

chanVars == <<sent, queue, wire, got>>

ChanInit ==
    /\ sent = 0
    /\ queue = <<>>
    /\ wire = <<>>
    /\ got = <<>>

\* The application hands over its next message.
Send ==
    /\ sent' = sent + 1
    /\ queue' = Append(queue, sent + 1)
    /\ UNCHANGED <<wire, got>>

\* The oldest queued message is written to the pipe.
Transmit ==
    /\ queue # <<>>
    /\ wire' = Append(wire, Head(queue))
    /\ queue' = Tail(queue)
    /\ UNCHANGED <<sent, got>>

\* The oldest queued message is written where no peer can read it.
Refuse ==
    /\ queue # <<>>
    /\ queue' = Tail(queue)
    /\ UNCHANGED <<sent, wire, got>>

\* The peer reads the oldest message on the wire.
Deliver ==
    /\ wire # <<>>
    /\ got' = Append(got, Head(wire))
    /\ wire' = Tail(wire)
    /\ UNCHANGED <<sent, queue>>

\* The connection breaks: the wire keeps the first n messages, if any.
Lose ==
    /\ \E n \in 0 .. Len(wire) - 1 : wire' = SubSeq(wire, 1, n)
    /\ UNCHANGED <<sent, queue, got>>

\* The sending process ends with messages still queued.
Abandon ==
    /\ queue # <<>>
    /\ queue' = <<>>
    /\ UNCHANGED <<sent, wire, got>>

ChanNext == Send \/ Transmit \/ Refuse \/ Deliver \/ Lose \/ Abandon

ChanSpec == ChanInit /\ [][ChanNext]_chanVars

-----------------------------------------------------------------------------
Increasing(s) == \A i, j \in 1 .. Len(s) : i < j => s[i] < s[j]

ChanTypeOK ==
    /\ sent \in Nat
    /\ queue \in Seq(Nat)
    /\ wire \in Seq(Nat)
    /\ got \in Seq(Nat)

\* The peer never reads a message twice, never reads two messages in another
\* order than sendMsg took them, and never reads one that was not sent.
InOrderAtMostOnce ==
    /\ Increasing(got)
    /\ \A i \in 1 .. Len(got) : got[i] \in 1 .. sent
=============================================================================
