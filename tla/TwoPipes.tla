------------------------------ MODULE TwoPipes ------------------------------
(***************************************************************************)
(* pipedemo and pipewithsizedemo: process A creates two named pipes and    *)
(* never waits for a client on them; process B opens both.  Words typed at *)
(* one process are printed by the other, empty ones once the input has     *)
(* ended.  In pipedemo a word is one message; in pipewithsizedemo the pipe *)
(* from B to A is a byte stream and B writes the size of each word first   *)
(* (sized).  The pipe from A to B is read as bytes in both.                *)
(*                                                                         *)
(* The n-th word is the units <<n, 1>>, <<n, 2>>, ...; in the pipe to A    *)
(* <<n, 0>> comes before them: the size of the word, or in pipedemo where  *)
(* a message begins, which takes no room.  A pipe is the units that were   *)
(* written and not yet read.  A write returns when what is unread fits in  *)
(* the pipe.  Empty lines are not among the printed ones.  cin waits for a *)
(* word at any time; the words typed are bounded by MaxWords.  Either      *)
(* process may be ended from outside; A never ends by itself.              *)
(***************************************************************************)
EXTENDS Naturals, Sequences, FiniteSets

CONSTANTS
    Lens,           \* how long a word may be: empty at the end of input
    Quota,          \* units a pipe holds
    MAX_PATH,       \* units of a buffer
    MaxWords        \* bound on the words typed at each process

\* What the constants are, assumed by MCNamedPipes.  A word is typed into a buffer.
TwoPipesAssumption ==
    /\ Quota \in Nat \ {0} /\ MAX_PATH \in Nat \ {0} /\ MaxWords \in Nat
    /\ Lens \subseteq 0 .. MAX_PATH

VARIABLES
    sized,              \* B's words carry their size; it never changes
    down, up,           \* the pipes from A to B and from B to A: state, units
    aWriter, aReader,   \* the threads of A
    bWriter, bReader,   \* the threads of B
    aWords, bWords,     \* history: the lengths of the words sent by A, by B
    typed,              \* history: how many words were typed at A
    aSize,              \* the size that A's reader has read
    aOut,               \* the lines that A has printed
    aSent, bOut         \* history: what A has written, what B has printed, lines run together

aVars == <<aWriter, aReader, aWords, typed, aSize, aOut, aSent>>
bVars == <<bWriter, bReader, bWords, bOut>>
vars == <<sized, down, up, aVars, bVars>>

Unit == Nat \X Nat
State == {"listening", "connected", "clientGone", "serverGone"}
Pipe == [state : State, q : Seq(Unit)]

TypeOK ==
    /\ sized \in BOOLEAN
    /\ down \in Pipe /\ up \in Pipe
    /\ aWriter \in {"wait", "type", "write", "killed"}
    /\ aReader \in {"wait", "read", "body", "killed"}
    /\ bWriter \in {"open", "type", "write", "ended"} /\ bReader \in {"open", "read", "ended"}
    /\ aWords \in Seq(Lens) /\ bWords \in Seq(Lens)
    /\ typed \in Len(aWords) .. MaxWords
    /\ aSize \in Nat
    /\ aOut \in Seq(Seq(Unit)) /\ aSent \in Seq(Unit) /\ bOut \in Seq(Unit)

\* WritePipe and ReadPipe of A: both pipes are there and nobody is connected.
Init ==
    /\ sized \in BOOLEAN
    /\ down = [state |-> "listening", q |-> <<>>] /\ up = [state |-> "listening", q |-> <<>>]
    /\ aWriter = "wait" /\ aReader = "wait" /\ bWriter = "open" /\ bReader = "open"
    /\ aWords = <<>> /\ bWords = <<>> /\ typed = 0
    /\ aSize = 0 /\ aOut = <<>> /\ aSent = <<>> /\ bOut = <<>>

Word(n, len) == [k \in 1 .. len |-> <<n, k>>]

\* What B writes for its n-th word.
Frame(n, len) == <<<<n, 0>>>> \o Word(n, len)

\* The room that what is unread takes in the pipe to A.
Room(q) == IF sized THEN Len(q) ELSE Cardinality({k \in 1 .. Len(q) : q[k][2] > 0})

Least(a, b) == IF a <= b THEN a ELSE b
Taken(s, n) == SubSeq(s, 1, Least(n, Len(s)))
Left(s, n) == SubSeq(s, Least(n, Len(s)) + 1, Len(s))

\* A write of len units that pends, the last, is cancelled when its process ends: what
\* is unread of it is gone.
Cancelled(q, len) == SubSeq(q, 1, Len(q) - Least(len, Len(q)))

-----------------------------------------------------------------------------
\* Process A

\* The write thread waits 30 ms for its event, which nobody sets, and then for a
\* word.
aWriterWait ==
    /\ aWriter = "wait"
    /\ aWriter' = "type"
    /\ UNCHANGED <<sized, down, up, aReader, aWords, typed, aSize, aOut, aSent, bVars>>

\* A word is typed and written, or lost: nobody is there to read it.
aType(len) ==
    /\ aWriter = "type" /\ typed < MaxWords
    /\ typed' = typed + 1
    /\ IF down.state = "connected"
       THEN /\ down' = [down EXCEPT !.q = @ \o Word(Len(aWords) + 1, len)]
            /\ aSent' = aSent \o Word(Len(aWords) + 1, len)
            /\ aWords' = Append(aWords, len)
            /\ aWriter' = "write"
       ELSE /\ aWriter' = "wait"
            /\ UNCHANGED <<down, aSent, aWords>>
    /\ UNCHANGED <<sized, up, aReader, aSize, aOut, bVars>>

\* WriteFile returns: there is room, or B has gone.
aWritten ==
    /\ aWriter = "write" /\ (Len(down.q) <= Quota \/ down.state # "connected")
    /\ aWriter' = "wait"
    /\ UNCHANGED <<sized, down, up, aReader, aWords, typed, aSize, aOut, aSent, bVars>>

aReaderWait ==
    /\ aReader = "wait"
    /\ aReader' = "read"
    /\ UNCHANGED <<sized, down, up, aWriter, aWords, typed, aSize, aOut, aSent, bVars>>

\* pipedemo: a whole message is read and printed; it fits in the buffer.
aReadMessage ==
    /\ aReader = "read" /\ ~sized /\ up.q # <<>>
    /\ LET len == bWords[Head(up.q)[1]]
           body == Tail(up.q)
       IN  /\ aOut' = IF len > 0 THEN Append(aOut, Taken(body, len)) ELSE aOut
           /\ up' = [up EXCEPT !.q = Left(body, len)]
    /\ aReader' = "wait"
    /\ UNCHANGED <<sized, down, aWriter, aWords, typed, aSize, aSent, bVars>>

\* What four bytes of the stream say when they are taken for a size.
SizeOf(u) == IF u[2] = 0 THEN bWords[u[1]] ELSE MAX_PATH

\* pipewithsizedemo: the size is read first ...
aReadSize ==
    /\ aReader = "read" /\ sized /\ up.q # <<>>
    /\ aSize' = SizeOf(Head(up.q)) /\ up' = [up EXCEPT !.q = Tail(@)]
    /\ aReader' = IF aSize' > 0 THEN "body" ELSE "wait"
    /\ UNCHANGED <<sized, down, aWriter, aWords, typed, aOut, aSent, bVars>>

\* Mutant: a full buffer is read, whatever the size is.
aReadBodyAll ==
    /\ aReader = "body" /\ up.q # <<>>
    /\ aOut' = Append(aOut, Taken(up.q, MAX_PATH)) /\ up' = [up EXCEPT !.q = Left(@, MAX_PATH)]
    /\ aReader' = "wait"
    /\ UNCHANGED <<sized, down, aWriter, aWords, typed, aSize, aSent, bVars>>

\* ... then that many bytes,
aReadBody ==
    /\ aReader = "body" /\ up.q # <<>>
    /\ aOut' = Append(aOut, Taken(up.q, aSize)) /\ up' = [up EXCEPT !.q = Left(@, aSize)]
    /\ aReader' = "wait"
    /\ UNCHANGED <<sized, down, aWriter, aWords, typed, aSize, aSent, bVars>>

\* Mutant: the thread ends on any failure.
aReadFailsEnds ==
    /\ aReader \in {"read", "body"} /\ up.q = <<>> /\ up.state # "connected"
    /\ aReader' = "killed"
    /\ UNCHANGED <<sized, down, up, aWriter, aWords, typed, aSize, aOut, aSent, bVars>>

\* or the read fails, B not being there yet or no longer: A goes on.
aReadFails ==
    /\ aReader \in {"read", "body"} /\ up.q = <<>> /\ up.state # "connected"
    /\ aReader' = "wait"
    /\ UNCHANGED <<sized, down, up, aWriter, aWords, typed, aSize, aOut, aSent, bVars>>

\* The process is ended from outside: the pipes close.
AKilled ==
    /\ aWriter # "killed"
    /\ aWriter' = "killed" /\ aReader' = "killed"
    /\ down' = [state |-> "serverGone",
                q |-> IF aWriter = "write" /\ Len(down.q) > Quota
                      THEN Cancelled(down.q, aWords[Len(aWords)]) ELSE down.q]
    /\ up' = [state |-> "serverGone", q |-> <<>>]
    /\ UNCHANGED <<sized, aWords, typed, aSize, aOut, aSent, bVars>>

-----------------------------------------------------------------------------
\* Process B

\* Each thread tries again and again to open its pipe.
bWriterOpen ==
    /\ bWriter = "open" /\ up.state = "listening"
    /\ up' = [up EXCEPT !.state = "connected"]
    /\ bWriter' = "type"
    /\ UNCHANGED <<sized, down, aVars, bReader, bWords, bOut>>

bReaderOpen ==
    /\ bReader = "open" /\ down.state = "listening"
    /\ down' = [down EXCEPT !.state = "connected"]
    /\ bReader' = "read"
    /\ UNCHANGED <<sized, up, aVars, bWriter, bWords, bOut>>

\* A word is typed and written, with its size if it has one ...
bType(len) ==
    /\ bWriter = "type" /\ Len(bWords) < MaxWords /\ up.state = "connected"
    /\ up' = [up EXCEPT !.q = @ \o Frame(Len(bWords) + 1, len)]
    /\ bWords' = Append(bWords, len)
    /\ bWriter' = "write"
    /\ UNCHANGED <<sized, down, aVars, bReader, bOut>>

\* ... and the write returns when there is room.
bWritten ==
    /\ bWriter = "write" /\ Room(up.q) <= Quota /\ up.state = "connected"
    /\ bWriter' = "type"
    /\ UNCHANGED <<sized, down, up, aVars, bReader, bWords, bOut>>

\* The write fails, A having gone: the thread ends.
bWriteFails ==
    /\ bWriter \in {"type", "write"} /\ up.state = "serverGone"
    /\ bWriter' = "ended"
    /\ UNCHANGED <<sized, down, up, aVars, bReader, bWords, bOut>>

\* What is there is read, at most a buffer, and printed as one line.
bRead ==
    /\ bReader = "read" /\ down.q # <<>>
    /\ bOut' = bOut \o Taken(down.q, MAX_PATH)
    /\ down' = [down EXCEPT !.q = Left(@, MAX_PATH)]
    /\ UNCHANGED <<sized, up, aVars, bWriter, bReader, bWords>>

\* The read fails, A having gone: the thread ends.
bReadFails ==
    /\ bReader = "read" /\ down.q = <<>> /\ down.state = "serverGone"
    /\ bReader' = "ended"
    /\ UNCHANGED <<sized, down, up, aVars, bWriter, bWords, bOut>>

Gone(state) == IF state = "connected" THEN "clientGone" ELSE state

\* The process ends with both threads or is ended from outside.
BKilled ==
    /\ bReader # "ended" \/ bWriter # "ended"
    /\ bReader' = "ended" /\ bWriter' = "ended"
    /\ down' = [state |-> Gone(down.state), q |-> <<>>]
    /\ up' = [state |-> Gone(up.state),
              q |-> IF bWriter = "write" /\ Room(up.q) > Quota
                    THEN Cancelled(up.q, bWords[Len(bWords)] + 1) ELSE up.q]
    /\ UNCHANGED <<sized, aVars, bWords, bOut>>

-----------------------------------------------------------------------------
AWriter == aWriterWait \/ aWritten \/ \E len \in Lens : aType(len)
AReader == aReaderWait \/ aReadMessage \/ aReadSize \/ aReadBody \/ aReadFails
BWriter == bWriterOpen \/ bWritten \/ bWriteFails \/ \E len \in Lens : bType(len)
BReader == bReaderOpen \/ bRead \/ bReadFails

Next == AWriter \/ AReader \/ BWriter \/ BReader \/ AKilled \/ BKilled

Spec == Init /\ [][Next]_vars

\* The threads are scheduled; nobody has to type or to end a process.
FairSpec ==
    /\ Spec
    /\ WF_vars(aWriterWait \/ aWritten) /\ WF_vars(AReader)
    /\ WF_vars(bWriterOpen \/ bWritten) /\ WF_vars(BReader)

-----------------------------------------------------------------------------
\* Properties

BAlive == bWriter # "ended"
AAlive == aWriter # "killed"

\* The number of the word that line k is, 0 before the first line.
WordOf(k) == IF k = 0 THEN 0 ELSE aOut[k][1][1]

\* Each line that A prints is a word of B's, whole; they come in order and none
\* is left out but the empty ones.
WordsArriveWhole ==
    \A k \in 1 .. Len(aOut) :
        /\ aOut[k] # <<>>
        /\ WordOf(k) \in WordOf(k - 1) + 1 .. Len(bWords)
        /\ aOut[k] = Word(WordOf(k), bWords[WordOf(k)])
        /\ \A n \in WordOf(k - 1) + 1 .. WordOf(k) - 1 : bWords[n] = 0

\* What B has printed and what it has yet to read are the words of A, in order, as
\* long as both are there.
NothingLostToB == AAlive /\ bReader = "read" => bOut \o down.q = aSent

\* B's read thread ends when A is gone and all it wrote has been read.
AsEndEndsReader == ~AAlive /\ bReader = "read" ~> bReader = "ended"

NonEmpty == {n \in 1 .. Len(bWords) : bWords[n] > 0}

\* What B has sent is printed unless one of the processes ends.
SentIsPrinted ==
    Len(aOut) < Cardinality(NonEmpty)
        ~> (~AAlive \/ ~BAlive \/ Len(aOut) = Cardinality(NonEmpty))
=============================================================================
