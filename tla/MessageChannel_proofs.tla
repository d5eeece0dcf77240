------------------------ MODULE MessageChannel_proofs -----------------------
(***************************************************************************)
(* What the abstract channel promises.                                     *)
(***************************************************************************)
EXTENDS MessageChannel, SequenceTheorems, TLAPS

\* Every message of s was sent before every message of t.
Before(s, t) == \A i \in 1 .. Len(s), j \in 1 .. Len(t) : s[i] < t[j]
SentOnly(s) == \A i \in 1 .. Len(s) : s[i] \in 1 .. sent

\* Delivered, on the wire and queued: each in order, each before the next.
InOrder ==
    /\ ChanTypeOK
    /\ Increasing(got) /\ Increasing(wire) /\ Increasing(queue)
    /\ Before(got, wire) /\ Before(got, queue) /\ Before(wire, queue)
    /\ SentOnly(got) /\ SentOnly(wire) /\ SentOnly(queue)

-----------------------------------------------------------------------------
(***************************************************************************)
(* Appending a message, taking the first, dropping some from the end.      *)
(***************************************************************************)
LEMMA AppendKeeps ==
    ASSUME NEW s \in Seq(Nat), NEW m \in Nat, \A i \in 1 .. Len(s) : s[i] < m
    PROVE  /\ Append(s, m) \in Seq(Nat)
           /\ Increasing(s) => Increasing(Append(s, m))
           /\ \A t \in Seq(Nat) : Before(t, s) /\ (\A i \in 1 .. Len(t) : t[i] < m)
                                   => Before(t, Append(s, m))
<1>1. /\ Append(s, m) \in Seq(Nat) /\ Len(Append(s, m)) = Len(s) + 1
      /\ Len(s) \in Nat
      /\ \A i \in 1 .. Len(s) : Append(s, m)[i] = s[i]
      /\ Append(s, m)[Len(s) + 1] = m
  BY AppendProperties, LenProperties
<1>2. ASSUME Increasing(s) PROVE Increasing(Append(s, m))
  <2>. SUFFICES ASSUME NEW i \in 1 .. Len(s) + 1, NEW j \in 1 .. Len(s) + 1, i < j
                PROVE  Append(s, m)[i] < Append(s, m)[j]
    BY <1>1 DEF Increasing
  <2>1. CASE j = Len(s) + 1
    BY <1>1, <2>1
  <2>2. CASE j # Len(s) + 1
    <3>1. i \in 1 .. Len(s) /\ j \in 1 .. Len(s)
      BY <1>1, <2>2
    <3>. QED BY <1>1, <1>2, <3>1 DEF Increasing
  <2>. QED BY <2>1, <2>2
<1>3. ASSUME NEW t \in Seq(Nat), Before(t, s), \A i \in 1 .. Len(t) : t[i] < m
      PROVE  Before(t, Append(s, m))
  <2>. SUFFICES ASSUME NEW i \in 1 .. Len(t), NEW j \in 1 .. Len(s) + 1
                PROVE  t[i] < Append(s, m)[j]
    BY <1>1 DEF Before
  <2>1. CASE j = Len(s) + 1
    BY <1>1, <1>3, <2>1
  <2>2. CASE j # Len(s) + 1
    <3>1. j \in 1 .. Len(s)
      BY <1>1, <2>2
    <3>. QED BY <1>1, <1>3, <3>1 DEF Before
  <2>. QED BY <2>1, <2>2
<1>. QED BY <1>1, <1>2, <1>3

LEMMA AppendStaysBefore ==
    ASSUME NEW s \in Seq(Nat), NEW m \in Nat, NEW t \in Seq(Nat), Before(s, t),
           \A j \in 1 .. Len(t) : m < t[j]
    PROVE  Before(Append(s, m), t)
<1>1. /\ Len(Append(s, m)) = Len(s) + 1 /\ Len(s) \in Nat
      /\ \A i \in 1 .. Len(s) : Append(s, m)[i] = s[i]
      /\ Append(s, m)[Len(s) + 1] = m
  BY AppendProperties, LenProperties
<1>. SUFFICES ASSUME NEW i \in 1 .. Len(s) + 1, NEW j \in 1 .. Len(t)
              PROVE  Append(s, m)[i] < t[j]
  BY <1>1 DEF Before
<1>2. CASE i = Len(s) + 1
  BY <1>1, <1>2
<1>3. CASE i # Len(s) + 1
  <2>1. i \in 1 .. Len(s)
    BY <1>1, <1>3
  <2>. QED BY <1>1, <2>1 DEF Before
<1>. QED BY <1>2, <1>3

LEMMA TailKeeps ==
    ASSUME NEW s \in Seq(Nat), s # <<>>, Increasing(s)
    PROVE  /\ Head(s) \in Nat /\ Tail(s) \in Seq(Nat) /\ Increasing(Tail(s))
           /\ \A j \in 1 .. Len(Tail(s)) : Head(s) < Tail(s)[j]
           /\ \A n \in Nat : (\A i \in 1 .. Len(s) : s[i] \in 1 .. n) =>
                  /\ Head(s) \in 1 .. n
                  /\ \A i \in 1 .. Len(Tail(s)) : Tail(s)[i] \in 1 .. n
           /\ \A t \in Seq(Nat) : Before(t, s) =>
                  Before(t, Tail(s)) /\ \A i \in 1 .. Len(t) : t[i] < Head(s)
           /\ \A t \in Seq(Nat) : Before(s, t) =>
                  Before(Tail(s), t) /\ \A j \in 1 .. Len(t) : Head(s) < t[j]
<1>1. /\ Head(s) \in Nat /\ Head(s) = s[1] /\ Len(s) \in Nat \ {0}
      /\ Tail(s) \in Seq(Nat) /\ Len(Tail(s)) = Len(s) - 1
      /\ \A i \in 1 .. Len(s) - 1 : Tail(s)[i] = s[i + 1]
  BY HeadTailProperties, LenProperties
<1>2. 1 \in 1 .. Len(s) /\ \A i \in 1 .. Len(s) - 1 : i + 1 \in 1 .. Len(s)
  BY <1>1
<1>3. Increasing(Tail(s)) /\ \A j \in 1 .. Len(Tail(s)) : Head(s) < Tail(s)[j]
  BY <1>1, <1>2 DEF Increasing
<1>4. ASSUME NEW n \in Nat, \A i \in 1 .. Len(s) : s[i] \in 1 .. n
      PROVE  /\ Head(s) \in 1 .. n
             /\ \A i \in 1 .. Len(Tail(s)) : Tail(s)[i] \in 1 .. n
  BY <1>1, <1>2, <1>4
<1>5. ASSUME NEW t \in Seq(Nat), Before(t, s)
      PROVE  Before(t, Tail(s)) /\ \A i \in 1 .. Len(t) : t[i] < Head(s)
  BY <1>1, <1>2, <1>5 DEF Before
<1>6. ASSUME NEW t \in Seq(Nat), Before(s, t)
      PROVE  Before(Tail(s), t) /\ \A j \in 1 .. Len(t) : Head(s) < t[j]
  BY <1>1, <1>2, <1>6 DEF Before
<1>. QED BY <1>1, <1>3, <1>4, <1>5, <1>6

LEMMA PrefixFacts ==
    ASSUME NEW s \in Seq(Nat), NEW n \in 0 .. Len(s) - 1
    PROVE  /\ SubSeq(s, 1, n) \in Seq(Nat) /\ Len(SubSeq(s, 1, n)) = n
           /\ n \in Nat /\ Len(s) \in Nat /\ n < Len(s)
           /\ \A i \in 1 .. n : SubSeq(s, 1, n)[i] = s[i]
<1>1. Len(s) \in Nat /\ n \in Nat /\ n < Len(s)
  BY LenProperties
<1>2. \A i \in 1 .. n : s[i] \in Nat
  BY <1>1, ElementOfSeq
<1>. QED BY <1>1, <1>2, SubSeqProperties

LEMMA SentOnlyAppend ==
    ASSUME NEW s \in Seq(Nat), NEW n \in Nat, NEW m \in 1 .. n,
           \A i \in 1 .. Len(s) : s[i] \in 1 .. n
    PROVE  \A i \in 1 .. Len(Append(s, m)) : Append(s, m)[i] \in 1 .. n
<1>1. /\ Len(Append(s, m)) = Len(s) + 1 /\ Len(s) \in Nat
      /\ \A i \in 1 .. Len(s) : Append(s, m)[i] = s[i]
      /\ Append(s, m)[Len(s) + 1] = m
  BY AppendProperties, LenProperties
<1>. QED BY <1>1

-----------------------------------------------------------------------------
(***************************************************************************)
(* Every step keeps the order.                                             *)
(***************************************************************************)
LEMMA SendInOrder ==
    ASSUME InOrder, Send
    PROVE  InOrder'
<1>. DEFINE new == sent + 1
<1>1. /\ sent' = new /\ queue' = Append(queue, new) /\ UNCHANGED <<wire, got>>
      /\ sent \in Nat /\ new \in Nat /\ queue \in Seq(Nat)
      /\ wire \in Seq(Nat) /\ got \in Seq(Nat)
  BY DEF Send, InOrder, ChanTypeOK
<1>2. /\ \A i \in 1 .. Len(queue) : queue[i] < new
      /\ \A i \in 1 .. Len(wire) : wire[i] < new
      /\ \A i \in 1 .. Len(got) : got[i] < new
  BY <1>1 DEF InOrder, SentOnly
<1>3. ChanTypeOK' /\ Increasing(queue)' /\ Before(got, queue)' /\ Before(wire, queue)'
  BY <1>1, <1>2, AppendKeeps DEF InOrder, ChanTypeOK
<1>4. SentOnly(got)' /\ SentOnly(wire)'
  BY <1>1 DEF InOrder, SentOnly
<1>5. SentOnly(queue)'
  <2>1. new \in 1 .. new /\ \A i \in 1 .. Len(queue) : queue[i] \in 1 .. new
    BY <1>1 DEF InOrder, SentOnly
  <2>. QED BY <1>1, <2>1, SentOnlyAppend DEF SentOnly
<1>6. Increasing(got)' /\ Increasing(wire)' /\ Before(got, wire)'
  BY <1>1 DEF InOrder, Increasing, Before
<1>. QED BY <1>3, <1>4, <1>5, <1>6 DEF InOrder

LEMMA TransmitInOrder ==
    ASSUME InOrder, Transmit
    PROVE  InOrder'
<1>1. /\ wire' = Append(wire, Head(queue)) /\ queue' = Tail(queue)
      /\ UNCHANGED <<sent, got>> /\ queue # <<>>
      /\ sent \in Nat /\ queue \in Seq(Nat) /\ wire \in Seq(Nat) /\ got \in Seq(Nat)
  BY DEF Transmit, InOrder, ChanTypeOK
<1>2. /\ Head(queue) \in Nat /\ queue' \in Seq(Nat) /\ Increasing(queue)'
      /\ \A j \in 1 .. Len(queue') : Head(queue) < queue'[j]
      /\ \A i \in 1 .. Len(wire) : wire[i] < Head(queue)
      /\ \A i \in 1 .. Len(got) : got[i] < Head(queue)
      /\ Before(wire, queue') /\ Before(got, queue)'
      /\ Head(queue) \in 1 .. sent /\ SentOnly(queue)'
  BY <1>1, TailKeeps DEF InOrder, SentOnly
<1>3. wire' \in Seq(Nat) /\ Increasing(wire)' /\ Before(got, wire)'
  BY <1>1, <1>2, AppendKeeps DEF InOrder
<1>4. Before(wire, queue)'
  BY <1>1, <1>2, AppendStaysBefore
<1>5. SentOnly(wire)'
  BY <1>1, <1>2, SentOnlyAppend DEF InOrder, SentOnly
<1>6. ChanTypeOK' /\ SentOnly(got)' /\ Increasing(got)'
  BY <1>1, <1>2, <1>3 DEF ChanTypeOK, InOrder, SentOnly, Increasing
<1>. QED BY <1>2, <1>3, <1>4, <1>5, <1>6 DEF InOrder

LEMMA RefuseInOrder ==
    ASSUME InOrder, Refuse
    PROVE  InOrder'
<1>1. /\ queue' = Tail(queue) /\ UNCHANGED <<sent, wire, got>> /\ queue # <<>>
      /\ sent \in Nat /\ queue \in Seq(Nat) /\ wire \in Seq(Nat) /\ got \in Seq(Nat)
  BY DEF Refuse, InOrder, ChanTypeOK
<1>2. /\ queue' \in Seq(Nat) /\ Increasing(queue)' /\ SentOnly(queue)'
      /\ Before(wire, queue)' /\ Before(got, queue)'
  BY <1>1, TailKeeps DEF InOrder, SentOnly
<1>3. /\ Increasing(got)' /\ Increasing(wire)' /\ Before(got, wire)'
      /\ SentOnly(got)' /\ SentOnly(wire)'
  BY <1>1 DEF InOrder, Increasing, Before, SentOnly
<1>. QED BY <1>1, <1>2, <1>3 DEF InOrder, ChanTypeOK

LEMMA DeliverInOrder ==
    ASSUME InOrder, Deliver
    PROVE  InOrder'
<1>1. /\ got' = Append(got, Head(wire)) /\ wire' = Tail(wire)
      /\ UNCHANGED <<sent, queue>> /\ wire # <<>>
      /\ sent \in Nat /\ queue \in Seq(Nat) /\ wire \in Seq(Nat) /\ got \in Seq(Nat)
  BY DEF Deliver, InOrder, ChanTypeOK
<1>2. /\ Head(wire) \in Nat /\ wire' \in Seq(Nat) /\ Increasing(wire)'
      /\ \A j \in 1 .. Len(wire') : Head(wire) < wire'[j]
      /\ \A i \in 1 .. Len(got) : got[i] < Head(wire)
      /\ \A j \in 1 .. Len(queue) : Head(wire) < queue[j]
      /\ Before(got, wire') /\ Before(wire, queue)'
      /\ Head(wire) \in 1 .. sent /\ SentOnly(wire)'
  BY <1>1, TailKeeps DEF InOrder, SentOnly
<1>3. got' \in Seq(Nat) /\ Increasing(got)'
  BY <1>1, <1>2, AppendKeeps DEF InOrder
<1>4. Before(got, wire)' /\ Before(got, queue)'
  BY <1>1, <1>2, AppendStaysBefore DEF InOrder
<1>5. SentOnly(got)'
  BY <1>1, <1>2, SentOnlyAppend DEF InOrder, SentOnly
<1>6. ChanTypeOK' /\ SentOnly(queue)' /\ Increasing(queue)'
  BY <1>1, <1>2, <1>3 DEF ChanTypeOK, InOrder, SentOnly, Increasing
<1>. QED BY <1>2, <1>3, <1>4, <1>5, <1>6 DEF InOrder

LEMMA LoseInOrder ==
    ASSUME InOrder, Lose
    PROVE  InOrder'
<1>1. PICK n \in 0 .. Len(wire) - 1 : wire' = SubSeq(wire, 1, n)
  BY DEF Lose
<1>2. /\ UNCHANGED <<sent, queue, got>>
      /\ sent \in Nat /\ queue \in Seq(Nat) /\ wire \in Seq(Nat) /\ got \in Seq(Nat)
  BY DEF Lose, InOrder, ChanTypeOK
<1>3. /\ wire' \in Seq(Nat) /\ Len(wire') = n /\ n \in Nat /\ Len(wire) \in Nat
      /\ n < Len(wire) /\ \A i \in 1 .. n : wire'[i] = wire[i]
  BY <1>1, <1>2, PrefixFacts
<1>4. \A i \in 1 .. n : i \in 1 .. Len(wire)
  BY <1>3
<1>5. Increasing(wire)'
  BY <1>3, <1>4 DEF InOrder, Increasing
<1>6. Before(got, wire)' /\ Before(wire, queue)'
  BY <1>2, <1>3, <1>4 DEF InOrder, Before
<1>7. SentOnly(got)' /\ SentOnly(wire)' /\ SentOnly(queue)'
  BY <1>2, <1>3, <1>4 DEF InOrder, SentOnly
<1>8. Increasing(got)' /\ Increasing(queue)' /\ Before(got, queue)'
  BY <1>2 DEF InOrder, Increasing, Before
<1>. QED BY <1>2, <1>3, <1>5, <1>6, <1>7, <1>8 DEF InOrder, ChanTypeOK

LEMMA AbandonInOrder ==
    ASSUME InOrder, Abandon
    PROVE  InOrder'
<1>1. queue' = <<>> /\ Len(queue') = 0 /\ queue' \in Seq(Nat) /\ UNCHANGED <<sent, wire, got>>
  BY DEF Abandon
<1>2. Increasing(queue)' /\ Before(got, queue)' /\ Before(wire, queue)' /\ SentOnly(queue)'
  BY <1>1 DEF Increasing, Before, SentOnly
<1>3. /\ Increasing(got)' /\ Increasing(wire)' /\ Before(got, wire)'
      /\ SentOnly(got)' /\ SentOnly(wire)'
  BY <1>1 DEF InOrder, Increasing, Before, SentOnly
<1>. QED BY <1>1, <1>2, <1>3 DEF InOrder, ChanTypeOK

\* The channel delivers in the order of the sendMsg calls, each message at most
\* once and none that was not sent, however often a connection is lost.
THEOREM ChannelOrder == ChanSpec => []InOrderAtMostOnce
<1>1. ChanInit => InOrder
  BY DEF ChanInit, InOrder, ChanTypeOK, Increasing, Before, SentOnly
<1>2. InOrder /\ [ChanNext]_chanVars => InOrder'
  <2>1. InOrder /\ UNCHANGED chanVars => InOrder'
    BY DEF chanVars, InOrder, ChanTypeOK, Increasing, Before, SentOnly
  <2>. QED BY <2>1, SendInOrder, TransmitInOrder, RefuseInOrder, DeliverInOrder,
              LoseInOrder, AbandonInOrder DEF ChanNext
<1>3. InOrder => InOrderAtMostOnce
  BY DEF InOrder, InOrderAtMostOnce, SentOnly
<1>. QED BY <1>1, <1>2, <1>3, PTL DEF ChanSpec
=============================================================================
