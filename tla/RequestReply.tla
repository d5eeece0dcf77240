---------------------------- MODULE RequestReply ----------------------------
(***************************************************************************)
(* What namedpipedemo's servers promise to the clients of one instance of  *)
(* their pipe: a client that stays gets one reply to each of its requests, *)
(* in their order; the server hangs up only on a client that has left or   *)
(* has sent an empty request; and a new client finds nothing of the last.  *)
(*                                                                         *)
(* A request is a pair: the client's number and the request's, 0 for an    *)
(* empty one.  A reply is the pair of the request it answers.              *)
(***************************************************************************)
EXTENDS Naturals, Sequences

VARIABLES
    client,     \* the number of the client the instance has or had last
    open,       \* whether that client is there
    asked,      \* how many requests it has sent
    inbox,      \* its requests not yet taken by the server
    current,    \* the request taken and not yet answered, if any
    outbox,     \* replies the client has not yet read
    answers     \* replies the client has read

rrVars == <<client, open, asked, inbox, current, outbox, answers>>

RRInit ==
    /\ client = 0 /\ open = FALSE /\ asked = 0
    /\ inbox = <<>> /\ current = <<>> /\ outbox = <<>> /\ answers = <<>>

Open ==
    /\ ~open
    /\ inbox = <<>> /\ current = <<>> /\ outbox = <<>>
    /\ client' = client + 1 /\ open' = TRUE /\ asked' = 0 /\ answers' = <<>>
    /\ UNCHANGED <<inbox, current, outbox>>

Ask ==
    /\ open
    /\ asked' = asked + 1
    /\ inbox' = Append(inbox, <<client, asked + 1>>)
    /\ UNCHANGED <<client, open, current, outbox, answers>>

AskNothing ==
    /\ open
    /\ inbox' = Append(inbox, <<client, 0>>)
    /\ UNCHANGED <<client, open, asked, current, outbox, answers>>

\* An empty request is never taken.
Take ==
    /\ current = <<>> /\ inbox # <<>> /\ Head(inbox)[2] # 0
    /\ current' = <<Head(inbox)>> /\ inbox' = Tail(inbox)
    /\ UNCHANGED <<client, open, asked, outbox, answers>>

Answer ==
    /\ open /\ current # <<>>
    /\ outbox' = outbox \o current /\ current' = <<>>
    /\ UNCHANGED <<client, open, asked, inbox, answers>>

Receive ==
    /\ outbox # <<>>
    /\ answers' = Append(answers, Head(outbox)) /\ outbox' = Tail(outbox)
    /\ UNCHANGED <<client, open, asked, inbox, current>>

\* The client closes its handle: replies it has not read are gone.
Leave ==
    /\ open
    /\ open' = FALSE /\ outbox' = <<>>
    /\ UNCHANGED <<client, asked, inbox, current, answers>>

\* The server hangs up: everything is gone.
HangUp ==
    /\ ~open \/ (inbox # <<>> /\ Head(inbox)[2] = 0)
    /\ open' = FALSE
    /\ inbox' = <<>> /\ current' = <<>> /\ outbox' = <<>>
    /\ UNCHANGED <<client, asked, answers>>

RRNext == Open \/ Ask \/ AskNothing \/ Take \/ Answer \/ Receive \/ Leave \/ HangUp

RRSpec == RRInit /\ [][RRNext]_rrVars

-----------------------------------------------------------------------------
\* The replies a client has read are those to its own first requests, in their
\* order and without a gap.
AnswersMatch == answers = [k \in 1 .. Len(answers) |-> <<client, k>>]
=============================================================================
