------------------------- MODULE MessageParts_proofs -------------------------
(***************************************************************************)
(* Proofs about MessageParts, for all values of its constants: for each    *)
(* component the invariant that is inductive, and then the properties of   *)
(* the composite specification that TLC checks.                            *)
(***************************************************************************)
EXTENDS MessageParts, SequenceTheorems, FiniteSetTheorems, FunctionTheorems, TLAPS

-----------------------------------------------------------------------------
(* Stream: what is kept is the end of what was handed over, no more of it was *)
(* drained than the server handled, and its acknowledgements ascend.       *)

\* What is kept is the end of what was handed to the client library.
IsSuffix(u, t) ==
  /\ Len(u) <= Len(t)
  /\ \A j \in 1..Len(u) : u[j] = t[(Len(t) - Len(u)) + j]

KeptIsSuffix == IsSuffix(unacked, handed)

\* No more was drained than the server has said it handled, and acked is that
\* number, wrapped.
DrainedIsHandled ==
  /\ Len(handed) <= confirmed + Len(unacked)
  /\ acked = Wrap(confirmed)
  /\ confirmed <= seen

\* The stanza with number n is not before the n-th place, since nonzas take
\* places and no numbers.
NumbersLag ==
  /\ \A i \in 1..Len(handed) : handed[i].kind = "stanza" => handed[i].n <= i
  /\ \A i \in 1..Len(feed) : feed[i].kind = "stanza" => feed[i].n <= Len(handed) + i
  /\ made <= Len(handed) + Len(feed)

\* Acknowledgements on their way are of what the server has seen, and none is
\* older than the one before.
AcksAscend ==
  /\ \A i \in 1..Len(downward) :
       downward[i].kind = "a" => confirmed <= downward[i].n /\ downward[i].n <= seen
  /\ \A i, j \in 1..Len(downward) :
       i < j /\ downward[i].kind = "a" /\ downward[j].kind = "a" =>
         downward[i].n <= downward[j].n

StreamInv == TypeOK /\ KeptIsSuffix /\ DrainedIsHandled /\ NumbersLag /\ AcksAscend

(* Arithmetic of the counters, and the elements.                             *)

LEMMA WrapType == ASSUME NEW k \in Nat PROVE Wrap(k) \in 0..(Modulus - 1)
  BY StreamAssumption, SMT DEF Wrap

\* Two readings of a counter differ by no more than it has advanced.
LEMMA WrapDifference ==
  ASSUME NEW a \in Nat, NEW b \in Nat, a <= b
  PROVE  Wrap(b) - Wrap(a) <= b - a
<1> DEFINE qa == a \div Modulus  ra == a % Modulus  qb == b \div Modulus  rb == b % Modulus
<1>1. Modulus \in Nat \ {0}
  BY StreamAssumption, SMT
<1>2. a = Modulus * qa + ra /\ b = Modulus * qb + rb
  BY <1>1, SMT
<1>3. qa \in Nat /\ qb \in Nat
  BY <1>1, SMT
<1>4. ra \in 0..(Modulus - 1) /\ rb \in 0..(Modulus - 1)
  BY <1>1, SMT
<1>5. ASSUME NEW q \in Nat, NEW p \in Nat, NEW r \in 0..(Modulus - 1), NEW s \in 0..(Modulus - 1),
             Modulus * q + r <= Modulus * p + s
      PROVE  s - r <= (Modulus * p + s) - (Modulus * q + r)
  <2>1. CASE q <= p
    BY <1>1, <1>5, <2>1, SMT
  <2>2. CASE q > p
    BY <1>1, <1>5, <2>2, SMT
  <2> QED
    BY <1>5, <2>1, <2>2, SMT
<1> HIDE DEF qa, ra, qb, rb
<1>6. rb - ra <= (Modulus * qb + rb) - (Modulus * qa + ra)
  BY <1>2, <1>3, <1>4, <1>5, SMT
<1>7. rb - ra <= b - a
  BY <1>2, <1>6, SMT
<1> QED
  BY <1>7 DEF Wrap, ra, rb

LEMMA ElementType ==
  ASSUME NEW kind \in {"stanza", "r", "a"}, NEW n \in Nat
  PROVE  Element(kind, n) \in Elements /\ Element(kind, n).kind = kind /\ Element(kind, n).n = n
  BY DEF Element, Elements

LEMMA RequestType == Request \in Elements /\ Request.kind = "r"
  BY DEF Request, Element, Elements

(* The invariant holds at first and is kept by each action.                  *)

LEMMA StreamInit == Init => StreamInv
<1> SUFFICES ASSUME Init PROVE StreamInv
  OBVIOUS
<1>1. Wrap(0) = 0 /\ 0 \in 0..(Modulus - 1)
  BY StreamAssumption, SMT DEF Wrap
<1>2. TypeOK
  <2>1. <<>> \in Seq(Elements)
    OBVIOUS
  <2>2. {counted, acked, inbound} \subseteq 0..(Modulus - 1)
    BY <1>1 DEF Init
  <2>3. {due, elapsed} \subseteq BOOLEAN
    BY Zenon DEF Init
  <2>4. {seen, confirmed, made, asked} \subseteq Nat
    BY DEF Init
  <2> QED
    BY <2>1, <2>2, <2>3, <2>4, Zenon DEF Init, TypeOK
<1>3. KeptIsSuffix /\ NumbersLag /\ AcksAscend
  BY SMT DEF Init, KeptIsSuffix, IsSuffix, NumbersLag, AcksAscend
<1>4. DrainedIsHandled
  BY <1>1, SMT DEF Init, DrainedIsHandled
<1> QED
  BY <1>2, <1>3, <1>4 DEF StreamInv

LEMMA PushBackIInv == ASSUME StreamInv, PushBack PROVE StreamInv'
<1> DEFINE e == Element("stanza", made')
<1>1. made' = made + 1 /\ made \in Nat /\ feed' = Append(feed, e)
  BY DEF PushBack, StreamInv, TypeOK
<1>2. e \in Elements /\ e.kind = "stanza" /\ e.n = made + 1
  BY <1>1, ElementType, SMT
<1> HIDE DEF e
<1>3. UNCHANGED <<tracker, wires, seen, handed, confirmed, asked>>
  BY DEF PushBack
<1>4. TypeOK'
  BY <1>1, <1>2, <1>3, SMT DEF StreamInv, TypeOK, tracker, wires
<1>5. NumbersLag'
  <2>1. feed \in Seq(Elements) /\ handed \in Seq(Elements) /\ handed' = handed
    BY <1>3 DEF StreamInv, TypeOK
  <2>2. /\ Len(feed') = Len(feed) + 1 /\ feed'[Len(feed) + 1] = e
        /\ \A i \in 1..Len(feed) : feed'[i] = feed[i]
    BY <1>1, <1>2, <2>1, AppendProperties
  <2>3. Len(feed) \in Nat /\ Len(handed) \in Nat
    BY <2>1
  <2>4. /\ \A i \in 1..Len(handed) : handed[i].kind = "stanza" => handed[i].n <= i
        /\ \A i \in 1..Len(feed) : feed[i].kind = "stanza" => feed[i].n <= Len(handed) + i
        /\ made <= Len(handed) + Len(feed)
    BY DEF StreamInv, NumbersLag
  <2>5. made' <= Len(handed') + Len(feed')
    BY <1>1, <2>1, <2>2, <2>3, <2>4
  <2>6. ASSUME NEW i \in 1..Len(feed'), feed'[i].kind = "stanza"
        PROVE  feed'[i].n <= Len(handed') + i
    <3>1. CASE i \in 1..Len(feed)
      BY <2>1, <2>2, <2>4, <2>6, <3>1
    <3>2. CASE i = Len(feed) + 1
      BY <1>1, <1>2, <2>1, <2>2, <2>3, <2>4, <3>2
    <3> QED
      BY <2>2, <2>3, <3>1, <3>2
  <2> QED
    BY <2>1, <2>4, <2>5, <2>6 DEF NumbersLag
<1>6. KeptIsSuffix' /\ DrainedIsHandled' /\ AcksAscend'
  BY <1>3 DEF StreamInv, KeptIsSuffix, DrainedIsHandled, AcksAscend, tracker, wires
<1> QED
  BY <1>4, <1>5, <1>6 DEF StreamInv

LEMMA DrainIInv == ASSUME StreamInv, Drain PROVE StreamInv'
<1> DEFINE e == Head(feed)
<1>1. feed \in Seq(Elements) /\ feed # <<>> /\ e \in Elements /\ Len(feed) > 0 /\ e = feed[1]
  BY SMT DEF Drain, StreamInv, TypeOK
<1>2. /\ counted' = Wrap(counted + 1) /\ unacked' = Append(unacked, e)
      /\ upward' = Append(upward, e) /\ handed' = Append(handed, e)
  BY DEF Drain, OnStanzaSent
<1>3. feed' = Append(Tail(feed), Request) \/ feed' = Tail(feed)
  BY DEF Drain
<1> HIDE DEF e
<1>4. UNCHANGED <<acked, inbound, due, elapsed, downward, seen, confirmed, made, asked>>
  BY DEF Drain
<1>5. counted' \in 0..(Modulus - 1)
  <2>1. counted + 1 \in Nat
    BY StreamAssumption, SMT DEF StreamInv, TypeOK
  <2> QED
    BY <1>2, <2>1, WrapType
<1>6. TypeOK'
  <2>1. feed' \in Seq(Elements)
    BY <1>1, <1>3, RequestType, SMT
  <2> QED
    BY <1>1, <1>2, <1>4, <1>5, <2>1, SMT DEF StreamInv, TypeOK
<1>7. KeptIsSuffix'
  <2>1. /\ handed \in Seq(Elements) /\ unacked \in Seq(Elements)
        /\ Len(handed) \in Nat /\ Len(unacked) \in Nat /\ Len(unacked) <= Len(handed)
    BY SMT DEF StreamInv, TypeOK, KeptIsSuffix, IsSuffix
  <2>2. Len(handed') = Len(handed) + 1 /\ Len(unacked') = Len(unacked) + 1
    BY <1>1, <1>2, <2>1, SMT
  <2>3. ASSUME NEW j \in 1..Len(unacked')
        PROVE  unacked'[j] = handed'[(Len(handed') - Len(unacked')) + j]
    <3>1. CASE j = Len(unacked) + 1
      BY <1>1, <1>2, <2>1, <2>2, <3>1, SMT
    <3>2. CASE j \in 1..Len(unacked)
      <4>1. unacked[j] = handed[(Len(handed) - Len(unacked)) + j]
        BY <3>2 DEF StreamInv, KeptIsSuffix, IsSuffix
      <4> QED
        BY <1>1, <1>2, <2>1, <2>2, <3>2, <4>1, SMT
    <3> QED
      BY <2>1, <2>2, <3>1, <3>2, SMT
  <2> QED
    BY <2>1, <2>2, <2>3, SMT DEF KeptIsSuffix, IsSuffix
<1>8. DrainedIsHandled'
  <2>1. handed \in Seq(Elements) /\ unacked \in Seq(Elements) /\ confirmed \in Nat
    BY DEF StreamInv, TypeOK
  <2>2. Len(handed') = Len(handed) + 1 /\ Len(unacked') = Len(unacked) + 1
    BY <1>1, <1>2, <2>1, AppendProperties
  <2>3. Len(handed) \in Nat /\ Len(unacked) \in Nat
    BY <2>1
  <2>4. Len(handed) <= confirmed + Len(unacked) /\ acked = Wrap(confirmed) /\ confirmed <= seen
    BY DEF StreamInv, DrainedIsHandled
  <2>5. Len(handed') <= confirmed' + Len(unacked')
    BY <1>4, <2>1, <2>2, <2>3, <2>4
  <2> QED
    BY <1>4, <2>4, <2>5 DEF DrainedIsHandled, Wrap
<1>9. NumbersLag'
  <2>1. ASSUME NEW i \in 1..Len(handed'), handed'[i].kind = "stanza"
        PROVE  handed'[i].n <= i
    <3>1. handed \in Seq(Elements) /\ Len(handed) \in Nat
      BY SMT DEF StreamInv, TypeOK
    <3>2. CASE i = Len(handed) + 1
      <4>1. handed'[i] = feed[1]
        BY <1>1, <1>2, <3>1, <3>2, SMT
      <4> QED
        BY <1>1, <2>1, <3>1, <3>2, <4>1, SMT DEF StreamInv, NumbersLag, Elements
    <3>3. CASE i \in 1..Len(handed)
      <4>1. handed'[i] = handed[i]
        BY <1>1, <1>2, <3>1, <3>3, SMT
      <4> QED
        BY <2>1, <3>3, <4>1 DEF StreamInv, NumbersLag
    <3> QED
      BY <1>1, <1>2, <3>1, <3>2, <3>3, SMT
  <2>2. Len(handed') = Len(handed) + 1 /\ Len(handed) \in Nat
    BY <1>1, <1>2, SMT DEF StreamInv, TypeOK
  <2>3. \A i \in 1..Len(feed') : feed'[i].kind = "stanza" => feed'[i].n <= Len(handed) + 1 + i
    <3>1. CASE feed' = Tail(feed)
      BY <1>1, <2>2, <3>1, SMT DEF StreamInv, NumbersLag, Elements
    <3>2. CASE feed' = Append(Tail(feed), Request)
      BY <1>1, <2>2, <3>2, RequestType, SMT DEF StreamInv, NumbersLag, Elements
    <3> QED
      BY <1>3, <3>1, <3>2
  <2>4. Len(feed') >= Len(feed) - 1 /\ Len(feed') \in Nat
    BY <1>1, <1>3, RequestType, SMT
  <2>5. made' <= Len(handed') + Len(feed')
    BY <1>1, <1>4, <2>2, <2>4, SMT DEF StreamInv, TypeOK, NumbersLag
  <2> QED
    BY <2>1, <2>2, <2>3, <2>5, SMT DEF NumbersLag
<1>10. AcksAscend'
  BY <1>4 DEF StreamInv, AcksAscend
<1> QED
  BY <1>6, <1>7, <1>8, <1>9, <1>10 DEF StreamInv

\* What an acknowledgement drains: no more stanzas than it is newer by.
LEMMA AckDrains ==
  ASSUME StreamInv, NEW b \in Nat, confirmed <= b, OnAckReceived(Wrap(b))
  PROVE  \E n \in Nat : /\ n <= Len(unacked) /\ n <= b - confirmed
                        /\ unacked' = SubSeq(unacked, n + 1, Len(unacked))
                        /\ acked' = Wrap(b)
<1> DEFINE h == Wrap(b)
           past == IF h > acked THEN h - acked ELSE 0
           n == IF past <= Len(unacked) THEN past ELSE Len(unacked)
<1>1. confirmed \in Nat /\ acked = Wrap(confirmed) /\ Len(unacked) \in Nat
  BY SMT DEF StreamInv, TypeOK, DrainedIsHandled
<1>2. h \in Nat /\ acked \in Nat /\ h - acked <= b - confirmed
  BY <1>1, WrapType, WrapDifference, StreamAssumption, SMT
<1>3. unacked' = SubSeq(unacked, n + 1, Len(unacked)) /\ acked' = h
  BY DEF OnAckReceived
<1> HIDE DEF h
<1>4. n \in Nat /\ n <= Len(unacked) /\ n <= b - confirmed
  BY <1>1, <1>2, SMT
<1> HIDE DEF n
<1> QED
  BY <1>3, <1>4 DEF h

\* What is left of the end of a sequence is its end.
LEMMA RestIsSuffix ==
  ASSUME NEW u \in Seq(Elements), NEW t \in Seq(Elements), IsSuffix(u, t),
         NEW n \in Nat, n <= Len(u)
  PROVE  LET w == SubSeq(u, n + 1, Len(u))
         IN  w \in Seq(Elements) /\ Len(w) = Len(u) - n /\ IsSuffix(w, t)
<1> DEFINE w == SubSeq(u, n + 1, Len(u))
<1>1. Len(u) \in Nat /\ Len(t) \in Nat /\ Len(u) <= Len(t)
  BY SMT DEF IsSuffix
<1>2. Len(w) = Len(u) - n /\ w \in Seq(Elements)
  BY <1>1, SMT
<1>3. \A j \in 1..(Len(u) - n) : w[j] = u[n + j] /\ n + j \in 1..Len(u)
  BY <1>1, SMT
<1> HIDE DEF w
<1>4. ASSUME NEW j \in 1..Len(w)
      PROVE  w[j] = t[(Len(t) - Len(w)) + j]
  <2>1. w[j] = u[n + j] /\ n + j \in 1..Len(u)
    BY <1>2, <1>4, <1>3
  <2>2. u[n + j] = t[(Len(t) - Len(u)) + (n + j)]
    BY <2>1 DEF IsSuffix
  <2>3. (Len(t) - Len(u)) + (n + j) = (Len(t) - Len(w)) + j
    BY <1>1, <1>2, <1>4, SMT
  <2> QED
    BY <2>1, <2>2, <2>3
<1>5. IsSuffix(w, t)
  <2>1. Len(w) <= Len(t)
    BY <1>1, <1>2
  <2> QED
    BY <1>4, <2>1, Zenon DEF IsSuffix
<1> QED
  BY <1>2, <1>5 DEF w

LEMMA ReceiveIInv == ASSUME StreamInv, Receive PROVE StreamInv'
<1> DEFINE e == Head(downward)
<1>1. /\ downward \in Seq(Elements) /\ e \in Elements /\ Len(downward) > 0
      /\ e = downward[1] /\ downward' = Tail(downward)
  BY SMT DEF Receive, StreamInv, TypeOK
<1>2. inbound' \in 0..(Modulus - 1) /\ inbound' \in Nat
  <2>1. inbound' = Wrap(inbound + 1)
    BY DEF Receive
  <2>2. inbound \in 0..(Modulus - 1) /\ Modulus \in Nat
    BY StreamAssumption DEF StreamInv, TypeOK
  <2>3. inbound + 1 \in Nat
    BY <2>2
  <2>4. inbound' \in 0..(Modulus - 1)
    BY <2>1, <2>3, WrapType
  <2> QED
    BY <2>2, <2>4
<1>3. feed' = Append(feed, Element("a", inbound')) \/ feed' = feed
  BY DEF Receive, BuildAck
<1>4. {due', elapsed'} \subseteq BOOLEAN
  BY Zenon DEF Receive
<1>5. \/ OnAckReceived(Wrap(e.n)) /\ confirmed' = e.n /\ e.kind = "a"
      \/ UNCHANGED <<unacked, acked, confirmed>>
  BY DEF Receive
<1>6. UNCHANGED <<counted, upward, seen, handed, made, asked>>
  BY DEF Receive
<1> HIDE DEF e
<1>7. feed' \in Seq(Elements) /\ NumbersLag'
  <2>1. PICK x \in Elements : /\ x.kind = "a"
                              /\ \/ feed' = Append(feed, x)
                                 \/ feed' = feed
    BY <1>2, <1>3, ElementType
  <2>2. feed \in Seq(Elements) /\ Len(feed) \in Nat
    BY SMT DEF StreamInv, TypeOK
  <2>3. feed' \in Seq(Elements) /\ Len(feed') >= Len(feed) /\ Len(feed') \in Nat
    <3>1. CASE feed' = Append(feed, x)
      BY <2>1, <2>2, <3>1, SMT
    <3>2. CASE feed' = feed
      BY <2>2, <3>2, SMT
    <3> QED
      BY <2>1, <3>1, <3>2
  <2>4. \A i \in 1..Len(feed') : feed'[i].kind = "stanza" => feed'[i].n <= Len(handed) + i
    <3>1. CASE feed' = Append(feed, x)
      BY <2>1, <2>2, <3>1, SMT DEF StreamInv, NumbersLag
    <3>2. CASE feed' = feed
      BY <3>2 DEF StreamInv, NumbersLag
    <3> QED
      BY <2>1, <3>1, <3>2
  <2> QED
    BY <1>6, <2>2, <2>3, <2>4, SMT DEF StreamInv, TypeOK, NumbersLag
<1>8. /\ unacked' \in Seq(Elements) /\ acked' \in 0..(Modulus - 1) /\ confirmed' \in Nat
      /\ KeptIsSuffix' /\ DrainedIsHandled'
      /\ confirmed' = IF e.kind = "a" /\ confirmed' # confirmed THEN e.n ELSE confirmed
  <2>1. CASE OnAckReceived(Wrap(e.n)) /\ confirmed' = e.n /\ e.kind = "a"
    <3>1. e.n \in Nat /\ confirmed <= e.n /\ e.n <= seen
      BY <1>1, <2>1, SMT DEF StreamInv, AcksAscend, Elements
    <3>2. PICK n \in Nat : /\ n <= Len(unacked) /\ n <= e.n - confirmed
                           /\ unacked' = SubSeq(unacked, n + 1, Len(unacked))
                           /\ acked' = Wrap(e.n)
      BY <2>1, <3>1, AckDrains
    <3>3. KeptIsSuffix' /\ unacked' \in Seq(Elements) /\ Len(unacked') = Len(unacked) - n
      BY <1>6, <3>2, RestIsSuffix, Zenon DEF StreamInv, TypeOK, KeptIsSuffix
    <3>4. acked' \in 0..(Modulus - 1)
      BY <3>1, <3>2, WrapType
    <3>5. Len(unacked) \in Nat /\ Len(handed) \in Nat /\ confirmed \in Nat
      BY SMT DEF StreamInv, TypeOK
    <3>6. Len(handed') <= confirmed' + Len(unacked')
      BY <1>6, <2>1, <3>1, <3>2, <3>3, <3>5, SMT DEF StreamInv, DrainedIsHandled
    <3> QED
      BY <1>6, <2>1, <3>1, <3>2, <3>3, <3>4, <3>6, SMT DEF DrainedIsHandled
  <2>2. CASE UNCHANGED <<unacked, acked, confirmed>>
    BY <1>6, <2>2, SMT DEF StreamInv, TypeOK, KeptIsSuffix, DrainedIsHandled
  <2> QED
    BY <1>5, <2>1, <2>2
<1>9. downward' \in Seq(Elements) /\ AcksAscend'
  <2>1. downward' \in Seq(Elements) /\ Len(downward') = Len(downward) - 1
    BY <1>1, SMT
  <2>2. \A i \in 1..Len(downward') : downward'[i] = downward[i + 1] /\ i + 1 \in 1..Len(downward)
    BY <1>1, <2>1, SMT
  <2>3. Len(downward) \in Nat /\ 1 \in 1..Len(downward)
    BY <1>1, SMT
  <2>4. ASSUME NEW i \in 1..Len(downward'), downward'[i].kind = "a"
        PROVE  confirmed' <= downward'[i].n /\ downward'[i].n <= seen
    <3>1. confirmed <= downward[i + 1].n /\ downward[i + 1].n <= seen
      BY <2>2, <2>4 DEF StreamInv, AcksAscend
    <3>2. e.kind = "a" => e.n <= downward[i + 1].n
      BY <1>1, <2>2, <2>3, <2>4, SMT DEF StreamInv, AcksAscend
    <3> QED
      BY <1>8, <2>2, <3>1, <3>2
  <2>5. ASSUME NEW i \in 1..Len(downward'), NEW j \in 1..Len(downward'),
               i < j, downward'[i].kind = "a", downward'[j].kind = "a"
        PROVE  downward'[i].n <= downward'[j].n
    <3>1. i + 1 < j + 1
      BY <2>5, SMT
    <3> QED
      BY <2>2, <2>5, <3>1 DEF StreamInv, AcksAscend
  <2> QED
    BY <1>6, <2>1, <2>4, <2>5, Zenon DEF AcksAscend
<1>10. TypeOK'
  BY <1>2, <1>4, <1>6, <1>7, <1>8, <1>9, Zenon DEF StreamInv, TypeOK
<1> QED
  BY <1>7, <1>8, <1>9, <1>10 DEF StreamInv

LEMMA ElapseIInv == ASSUME StreamInv, Elapse PROVE StreamInv'
<1>1. elapsed' = TRUE
      /\ UNCHANGED <<feed, counted, acked, inbound, unacked, due, wires, seen, handed, confirmed,
                     made, asked>>
  BY DEF Elapse
<1> QED
  BY <1>1, Zenon DEF StreamInv, TypeOK, KeptIsSuffix, DrainedIsHandled, NumbersLag, AcksAscend,
     wires

\* The server says what it has seen, after all that it said before.
LEMMA SaidInOrder ==
  ASSUME StreamInv, NEW x \in Elements, x.kind = "a" => x.n = seen,
         downward' = Append(downward, x), seen' = seen, confirmed' = confirmed
  PROVE  downward' \in Seq(Elements) /\ AcksAscend'
<1>1. downward \in Seq(Elements) /\ Len(downward) \in Nat /\ confirmed <= seen /\ seen \in Nat
  BY SMT DEF StreamInv, TypeOK, DrainedIsHandled
<1>2. downward' \in Seq(Elements) /\ Len(downward') = Len(downward) + 1
  BY <1>1, SMT
<1>3. /\ \A i \in 1..Len(downward) : downward'[i] = downward[i]
      /\ downward'[Len(downward) + 1] = x
  BY <1>1, SMT
<1>4. ASSUME NEW i \in 1..Len(downward'), downward'[i].kind = "a"
      PROVE  confirmed <= downward'[i].n /\ downward'[i].n <= seen
  <2>1. CASE i \in 1..Len(downward)
    BY <1>3, <1>4, <2>1 DEF StreamInv, AcksAscend
  <2>2. CASE i = Len(downward) + 1
    BY <1>1, <1>3, <1>4, <2>2, SMT
  <2> QED
    BY <1>1, <1>2, <2>1, <2>2, SMT
<1>5. ASSUME NEW i \in 1..Len(downward'), NEW j \in 1..Len(downward'),
             i < j, downward'[i].kind = "a", downward'[j].kind = "a"
      PROVE  downward'[i].n <= downward'[j].n
  <2>1. i \in 1..Len(downward)
    BY <1>1, <1>2, <1>5, SMT
  <2>2. CASE j \in 1..Len(downward)
    BY <1>3, <1>5, <2>1, <2>2 DEF StreamInv, AcksAscend
  <2>3. CASE j = Len(downward) + 1
    <3>1. downward'[i].n <= seen
      BY <1>4, <1>5
    <3>2. downward'[j].n = seen
      BY <1>3, <1>5, <2>3
    <3> QED
      BY <3>1, <3>2
  <2> QED
    BY <1>1, <1>2, <2>2, <2>3, SMT
<1> QED
  BY <1>2, <1>4, <1>5, Zenon DEF AcksAscend

LEMMA ServerTakesIInv == ASSUME StreamInv, ServerTakes PROVE StreamInv'
<1> DEFINE e == Head(upward)
<1>1. /\ upward \in Seq(Elements) /\ e \in Elements /\ upward' = Tail(upward)
      /\ upward' \in Seq(Elements)
  BY SMT DEF ServerTakes, StreamInv, TypeOK
<1>2. /\ seen' = IF e.kind = "stanza" THEN seen + 1 ELSE seen
      /\ downward' = IF e.kind = "r" THEN Append(downward, Element("a", seen)) ELSE downward
  BY DEF ServerTakes
<1>3. UNCHANGED <<feed, tracker, handed, confirmed, made, asked>>
  BY DEF ServerTakes
<1> HIDE DEF e
<1>4. seen \in Nat /\ confirmed \in Nat /\ confirmed <= seen /\ downward \in Seq(Elements)
  BY SMT DEF StreamInv, TypeOK, DrainedIsHandled
<1>5. seen' \in Nat /\ seen <= seen'
  BY <1>2, <1>4, SMT
<1>6. downward' \in Seq(Elements) /\ AcksAscend'
  <2>1. CASE e.kind = "r"
    <3>1. Element("a", seen) \in Elements /\ Element("a", seen).n = seen
      BY <1>4, ElementType
    <3> QED
      BY <1>2, <1>3, <2>1, <3>1, SaidInOrder
  <2>2. CASE e.kind # "r"
    <3>1. downward' = downward /\ confirmed' = confirmed
      BY <1>2, <1>3, <2>2
    <3>2. \A i \in 1..Len(downward) : downward[i].kind = "a" =>
             confirmed <= downward[i].n /\ downward[i].n <= seen'
      <4>1. \A i \in 1..Len(downward) : downward[i].n \in Nat
        <5>1. \A i \in 1..Len(downward) : downward[i] \in Elements
          BY <1>4, SMT
        <5> QED
          BY <5>1, Zenon DEF Elements
      <4> QED
        BY <1>4, <1>5, <4>1, SMT DEF StreamInv, AcksAscend
    <3> QED
      BY <1>4, <3>1, <3>2, Zenon DEF StreamInv, AcksAscend
  <2> QED
    BY <2>1, <2>2
<1>7. TypeOK'
  BY <1>1, <1>3, <1>5, <1>6, SMT DEF StreamInv, TypeOK, tracker
<1>8. DrainedIsHandled'
  BY <1>3, <1>4, <1>5, SMT DEF StreamInv, DrainedIsHandled, tracker
<1>9. KeptIsSuffix' /\ NumbersLag'
  BY <1>3 DEF StreamInv, KeptIsSuffix, NumbersLag, tracker
<1> QED
  BY <1>6, <1>7, <1>8, <1>9 DEF StreamInv

LEMMA ServerSendsIInv == ASSUME StreamInv, ServerSends PROVE StreamInv'
<1>1. UNCHANGED <<feed, tracker, upward, seen, handed, confirmed, made>>
  BY DEF ServerSends
<1>2. asked' \in Nat /\ seen \in Nat
  BY SMT DEF StreamInv, TypeOK, ServerSends
<1>3. PICK x \in {Element("stanza", 0), Request, Element("a", seen)} : downward' = Append(downward, x)
  BY DEF ServerSends
<1>4. x \in Elements /\ (x.kind = "a" => x.n = seen)
  BY <1>2, <1>3, ElementType, RequestType
<1>5. downward' \in Seq(Elements) /\ AcksAscend'
  BY <1>1, <1>3, <1>4, SaidInOrder
<1>6. TypeOK'
  BY <1>1, <1>2, <1>5, SMT DEF StreamInv, TypeOK, tracker
<1>7. KeptIsSuffix' /\ DrainedIsHandled' /\ NumbersLag'
  BY <1>1 DEF StreamInv, KeptIsSuffix, DrainedIsHandled, NumbersLag, tracker
<1> QED
  BY <1>5, <1>6, <1>7 DEF StreamInv

\* A new stream is a first state but for the counter of the bound.
LEMMA ResetIInv == ASSUME StreamInv, Reset PROVE StreamInv'
<1>1. Wrap(0) = 0 /\ 0 \in 0..(Modulus - 1)
  BY StreamAssumption, SMT DEF Wrap
<1>2. TypeOK'
  <2>1. <<>> \in Seq(Elements)
    OBVIOUS
  <2>2. {counted', acked', inbound'} \subseteq 0..(Modulus - 1)
    BY <1>1 DEF Reset
  <2>3. {due', elapsed'} \subseteq BOOLEAN
    BY Zenon DEF Reset
  <2>4. asked' \in Nat
    BY SMT DEF StreamInv, TypeOK, Reset
  <2>5. {seen', confirmed', made', asked'} \subseteq Nat
    BY <2>4 DEF Reset
  <2> QED
    BY <2>1, <2>2, <2>3, <2>5, Zenon DEF Reset, TypeOK
<1>3. KeptIsSuffix' /\ NumbersLag' /\ AcksAscend'
  BY SMT DEF Reset, KeptIsSuffix, IsSuffix, NumbersLag, AcksAscend
<1>4. DrainedIsHandled'
  BY <1>1, SMT DEF Reset, DrainedIsHandled
<1> QED
  BY <1>2, <1>3, <1>4 DEF StreamInv

LEMMA StreamStutter == ASSUME StreamInv, UNCHANGED streamVars PROVE StreamInv'
  BY Zenon DEF streamVars, tracker, wires, StreamInv, TypeOK, KeptIsSuffix, DrainedIsHandled,
               NumbersLag, AcksAscend

LEMMA StreamStep == ASSUME StreamInv, Next PROVE StreamInv'
  BY PushBackIInv, DrainIInv, ReceiveIInv, ElapseIInv, ServerTakesIInv, ServerSendsIInv,
     ResetIInv DEF Next

\* What is missing from the end of handed is of stanzas that were acknowledged.
LEMMA StreamHeld == StreamInv => KeptUntilAcked
<1> SUFFICES ASSUME StreamInv, NEW i \in DOMAIN handed,
                    handed[i].kind = "stanza", handed[i].n > confirmed
             PROVE  \E j \in DOMAIN unacked : unacked[j] = handed[i]
  BY DEF KeptUntilAcked
<1>1. /\ handed \in Seq(Elements) /\ unacked \in Seq(Elements) /\ confirmed \in Nat
      /\ Len(handed) \in Nat /\ Len(unacked) \in Nat /\ Len(unacked) <= Len(handed)
      /\ Len(handed) <= confirmed + Len(unacked)
  BY SMT DEF StreamInv, TypeOK, KeptIsSuffix, IsSuffix, DrainedIsHandled
<1>2. i \in 1..Len(handed) /\ DOMAIN unacked = 1..Len(unacked)
  BY <1>1, SMT
<1>3. handed[i].n <= i /\ handed[i].n \in Nat
  <2>1. handed[i] \in Elements
    BY <1>1, <1>2, SMT
  <2>2. handed[i].n \in Nat
    BY <2>1 DEF Elements
  <2> QED
    BY <1>2, <2>2 DEF StreamInv, NumbersLag
<1> DEFINE j == i - (Len(handed) - Len(unacked))
<1>4. j \in 1..Len(unacked) /\ (Len(handed) - Len(unacked)) + j = i
  BY <1>1, <1>2, <1>3, SMT
<1> HIDE DEF j
<1>5. unacked[j] = handed[i]
  BY <1>4 DEF StreamInv, KeptIsSuffix, IsSuffix
<1> QED
  BY <1>2, <1>4, <1>5

LEMMA StreamTyped == StreamInv => TypeOK
  BY DEF StreamInv

-----------------------------------------------------------------------------
(* Archive: the indices of a sync name each other, and what came of the page of *)
(* the catch-up and what is still to come are that page.                   *)

Start == AR!Id(0, Server)

Ends == [fin : AR!Ids, taken : AR!Ids, conv : {Server}, fetched : Nat]

ArchiveTypes ==
  /\ finId \in BOOLEAN /\ online \in BOOLEAN
  /\ sessions \in 0..MaxSessions /\ syncs \in 0..MaxSyncs
  /\ blocked \in {{}, Blocked} /\ known \subseteq Nat /\ told = known /\ again \subseteq Convs
  /\ DOMAIN wire \subseteq AR!Ids /\ \A q \in DOMAIN wire : wire[q] \in Seq(AR!Messages)
  /\ finished \in Seq(Ends)

\* The one query of mam_mgr is that of the catch-up.
Tracked ==
  /\ mam = [pending |-> mam.pending, results |-> mam.results]
  /\ DOMAIN mam.pending = DOMAIN mam.results /\ DOMAIN mam.pending \subseteq {Start}
  /\ \A q \in DOMAIN mam.results : mam.results[q] \in Seq(AR!Messages)
  /\ catchup = [states |-> catchup.states, jidOf |-> catchup.jidOf]
  /\ \A q \in DOMAIN catchup.jidOf : catchup.jidOf[q] = Server

\* The two indices of a sync name each other.
Indexed ==
  /\ sync = [pending |-> sync.pending, jidOf |-> sync.jidOf, received |-> sync.received,
             mam |-> sync.mam]
  /\ \A c \in DOMAIN sync.pending : c \in Convs /\ sync.pending[c] \in AR!Ids
  /\ \A q \in DOMAIN sync.jidOf : q \in AR!Ids /\ sync.jidOf[q] = q.conv /\ q.conv \in Convs
  /\ \A q \in DOMAIN sync.received : q \in AR!Ids /\ sync.received[q] \in Nat

\* A query that the server has still to answer is pending, unless its conversation
\* was synced again.
Owed ==
  finId /\ again = {} =>
    \A q \in DOMAIN wire : q.conv # Server =>
      q \in DOMAIN sync.jidOf /\ q.conv \in DOMAIN sync.pending /\ sync.pending[q.conv] = q

\* What came of the page and what is still to come are the page, and what came was
\* handed on.
Handed(k, s) ==
  \A i \in 1..k : AR!FirstPage[i].text /\ AR!FirstPage[i].conv \notin Blocked => AR!FirstPage[i].id \in s
Fetched ==
  AR!Attributable =>
    /\ syncs = 0 => DOMAIN wire \subseteq {Start}
    /\ Start \in DOMAIN wire =>
         /\ Start \in DOMAIN mam.results
         /\ mam.results[Start] \o wire[Start] = AR!FirstPage
    /\ Start \in DOMAIN mam.results => Handed(Len(mam.results[Start]), told)
    /\ \A k \in DOMAIN finished : finished[k].taken = Start =>
         finished[k].fetched = Len(AR!FirstPage) /\ Handed(Len(AR!FirstPage), told)

ArchiveInv == ArchiveTypes /\ Tracked /\ Indexed /\ Owed /\ Fetched

LEMMA MessagesKnown ==
  /\ \A m \in AR!Messages : m.id \in Nat /\ m.conv \in Convs /\ m.text \in BOOLEAN
  /\ \A i \in DOMAIN Stored : Stored[i] \in AR!Messages /\ i \in Nat
  /\ IsFiniteSet(DOMAIN Stored)
<1>1. DOMAIN Stored = 1..Len(Stored) /\ Len(Stored) \in Nat
  BY ArchiveAssumption, LenProperties
<1>2. \A i \in DOMAIN Stored : Stored[i] \in [id : Nat, conv : Convs, text : BOOLEAN]
  BY <1>1, ArchiveAssumption, ElementOfSeq
<1>3. IsFiniteSet(DOMAIN Stored)
  BY <1>1, FS_Interval
<1> QED
  BY <1>1, <1>2, <1>3 DEF AR!Messages

\* In a finite set of numbers there is one of each rank.
LEMMA Ranked ==
  ASSUME NEW S \in SUBSET Nat, IsFiniteSet(S), NEW k \in 1..Cardinality(S)
  PROVE  \E i \in S : Cardinality({j \in S : j <= i}) = k
<1> DEFINE Below(i) == {j \in S : j <= i}
           f == [i \in S |-> Cardinality(Below(i))]
           T == 1..Cardinality(S)
<1>1. \A i \in S : IsFiniteSet(Below(i)) /\ Cardinality(Below(i)) <= Cardinality(S) /\ i \in Below(i)
  BY FS_Subset
<1>2. \A i \in S : Cardinality(Below(i)) \in Nat /\ Cardinality(S) \in Nat /\ Cardinality(Below(i)) # 0
  BY <1>1, FS_CardinalityType, FS_EmptySet
<1>3. Cardinality(S) \in Nat
  BY FS_CardinalityType
<1>4. f \in [S -> T]
  BY <1>1, <1>2
<1>5. ASSUME NEW x \in S, NEW y \in S, f[x] = f[y] PROVE x = y
  <2>1. ASSUME NEW a \in S, NEW b \in S, a < b, f[a] = f[b] PROVE FALSE
    <3>0. a \in Nat /\ b \in Nat /\ \A j \in S : j \in Nat
      OBVIOUS
    <3>t. (\A j \in S : j <= a => j <= b) /\ ~(b <= a) /\ b <= b
      BY <2>1, <3>0
    <3>1. Below(a) \subseteq Below(b) /\ b \notin Below(a) /\ b \in Below(b)
      BY <3>t, Zenon
    <3>2. Cardinality(Below(a)) = Cardinality(Below(b))
      <4>1. f[a] = Cardinality(Below(a)) /\ f[b] = Cardinality(Below(b))
        OBVIOUS
      <4> HIDE DEF f, Below
      <4> QED
        BY <2>1, <4>1, Zenon
    <3> HIDE DEF Below
    <3> QED
      BY <3>1, <3>2, <1>1, FS_Subset
  <2>2. x \in Nat /\ y \in Nat
    OBVIOUS
  <2> HIDE DEF f
  <2> QED
    BY <2>1, <2>2, <1>5
<1> HIDE DEF f
<1>6. f \in Injection(S, T)
  BY <1>4, <1>5 DEF Injection, IsInjective
<1>7. IsFiniteSet(T) /\ Cardinality(T) = Cardinality(S)
  BY <1>3, FS_Interval
<1>8. f \in Surjection(S, T)
  BY <1>6, <1>7, FS_Injection
<1>9. PICK i \in S : f[i] = k
  BY <1>8 DEF Surjection
<1> QED
  BY <1>9 DEF f

LEMMA PageType == ASSUME NEW q PROVE AR!Page(q) \in Seq(AR!Messages)
<1> DEFINE S == AR!PageIndices(q)
<1>1. S \subseteq DOMAIN Stored
  BY DEF AR!PageIndices, AR!Matches
<1>2. S \in SUBSET Nat /\ IsFiniteSet(S) /\ Cardinality(S) \in Nat
  BY <1>1, MessagesKnown, FS_Subset, FS_CardinalityType
<1>3. ASSUME NEW k \in 1..Cardinality(S)
      PROVE  Stored[CHOOSE i \in S : Cardinality({j \in S : j <= i}) = k] \in AR!Messages
  <2>1. \E i \in S : Cardinality({j \in S : j <= i}) = k
    BY <1>2, Ranked
  <2> HIDE DEF S
  <2>2. (CHOOSE i \in S : Cardinality({j \in S : j <= i}) = k) \in S
    BY <2>1
  <2> QED
    BY <1>1, <2>2, MessagesKnown
<1>4. AR!Page(q) = [k \in 1..Cardinality(S) |-> Stored[CHOOSE i \in S : Cardinality({j \in S : j <= i}) = k]]
  BY Zenon DEF AR!Page, AR!Cardinality, Cardinality
<1> HIDE DEF S
<1>5. AR!Page(q) \in [1..Cardinality(S) -> AR!Messages]
  BY <1>3, <1>4
<1> QED
  BY <1>2, <1>5

LEMMA IdsKnown ==
  /\ Start \in AR!Ids /\ Start.conv = Server
  /\ \A n \in 0..MaxSyncs, c \in Convs : AR!Id(n, c) \in AR!Ids /\ AR!Id(n, c).conv = c /\ AR!Id(n, c) # Start
  /\ \A q \in AR!Ids : q.conv \in Convs \cup {Server}
  BY ArchiveAssumption DEF Start, AR!Ids, AR!Id

LEMMA ArchiveInit == ASSUME AR!Init PROVE ArchiveInv
<1>1. ArchiveTypes
  <2>1. finished \in Seq(Ends) /\ sessions \in 0..MaxSessions /\ syncs \in 0..MaxSyncs
    BY ArchiveAssumption, EmptySeq DEF AR!Init
  <2> QED
    BY <2>1 DEF AR!Init, ArchiveTypes, AR!Empty
<1>2. Tracked
  BY DEF AR!Init, Tracked, AR!NewMam, AR!NewCatchup, AR!Empty
<1>3. Indexed
  BY DEF AR!Init, Indexed, AR!NewSync, AR!Empty
<1>4. Owed
  BY DEF AR!Init, Owed, AR!Empty
<1>5. DOMAIN finished = {}
  BY EmptySeq, LenProperties DEF AR!Init
<1>6. Fetched
  BY <1>5 DEF AR!Init, Fetched, AR!Empty, AR!NewMam
<1> QED
  BY <1>1, <1>2, <1>3, <1>4, <1>6 DEF ArchiveInv

LEMMA OnlineKeeps == ASSUME ArchiveInv, AR!Online PROVE ArchiveInv'
<1>1. /\ sessions < MaxSessions /\ sessions' = sessions + 1 /\ online' = TRUE /\ syncs' = 0
      /\ known' = {} /\ blocked' = {} /\ told' = {} /\ finished' = <<>> /\ again' = {}
      /\ mam' = AR!BuildQuery(AR!NewMam, Start, AR!Query(None, None)) /\ sync' = AR!NewSync
      /\ wire' = AR!Put(AR!Empty, Start, AR!FirstPage) /\ UNCHANGED finId
  BY DEF AR!Online, AR!Fresh, Start, AR!FirstPage
<1>2. AR!FirstPage \in Seq(AR!Messages)
  BY PageType DEF AR!FirstPage
<1>3. DOMAIN wire' = {Start} /\ wire'[Start] = AR!FirstPage
  BY <1>1 DEF AR!Put, AR!Empty
<1>4. /\ mam' = [pending |-> mam'.pending, results |-> mam'.results]
      /\ DOMAIN mam'.pending = {Start} /\ DOMAIN mam'.results = {Start} /\ mam'.results[Start] = <<>>
  BY <1>1 DEF AR!BuildQuery, AR!NewMam, AR!Put, AR!Empty
<1>5. finished' \in Seq(Ends) /\ DOMAIN finished' = {} /\ Len(<<>>) = 0 /\ <<>> \in Seq(AR!Messages)
  BY <1>1, EmptySeq, LenProperties
<1>6. ArchiveTypes'
  BY <1>1, <1>2, <1>3, <1>5, IdsKnown, ArchiveAssumption DEF ArchiveInv, ArchiveTypes
<1>7. Tracked'
  <2>1. catchup' = AR!CatchupStart(AR!NewCatchup, Server, Start)
    BY DEF AR!Online, Start
  <2>2. catchup' = [states |-> catchup'.states, jidOf |-> catchup'.jidOf]
        /\ DOMAIN catchup'.jidOf = {Start} /\ catchup'.jidOf[Start] = Server
    BY <2>1 DEF AR!CatchupStart, AR!NewCatchup, AR!Put, AR!Empty
  <2> QED
    BY <1>4, <1>5, <2>2 DEF Tracked
<1>8. Indexed'
  BY <1>1 DEF Indexed, AR!NewSync, AR!Empty
<1>9. Owed'
  BY <1>3, IdsKnown DEF Owed
<1>10. Fetched'
  <2>1. <<>> \o AR!FirstPage = AR!FirstPage
    BY <1>2, ConcatEmptySeq
  <2>2. Handed(0, told')
    BY DEF Handed
  <2> QED
    BY <1>3, <1>4, <1>5, <2>1, <2>2 DEF Fetched
<1> QED
  BY <1>6, <1>7, <1>8, <1>9, <1>10 DEF ArchiveInv

LEMMA EndKeeps == ASSUME ArchiveInv, AR!SessionEnd PROVE ArchiveInv'
<1>1. /\ online' = FALSE /\ syncs' = 0 /\ known' = {} /\ blocked' = {} /\ told' = {}
      /\ finished' = <<>> /\ again' = {} /\ mam' = AR!NewMam /\ sync' = AR!NewSync /\ wire' = AR!Empty
      /\ catchup' = AR!NewCatchup
      /\ UNCHANGED <<finId, sessions>>
  BY DEF AR!SessionEnd, AR!Fresh, AR!CatchupReset
<1>2. finished' \in Seq(Ends) /\ DOMAIN finished' = {}
  BY <1>1, EmptySeq, LenProperties
<1>3. ArchiveTypes'
  <2>1. 0 \in 0..MaxSyncs /\ sessions' \in 0..MaxSessions /\ finId' \in BOOLEAN
    BY <1>1, ArchiveAssumption DEF ArchiveInv, ArchiveTypes
  <2>2. DOMAIN wire' = {}
    BY <1>1 DEF AR!Empty
  <2> QED
    BY <1>1, <1>2, <2>1, <2>2 DEF ArchiveTypes
<1>4. Tracked' /\ Indexed' /\ Owed' /\ Fetched'
  BY <1>1, <1>2 DEF Tracked, Indexed, Owed, Fetched, AR!NewMam, AR!NewCatchup, AR!NewSync, AR!Empty
<1> QED
  BY <1>3, <1>4 DEF ArchiveInv

LEMMA BlocklistKeeps == ASSUME ArchiveInv, AR!Blocklist PROVE ArchiveInv'
  BY DEF ArchiveInv, ArchiveTypes, Tracked, Indexed, Owed, Fetched, Handed, AR!Attributable,
     AR!Blocklist

LEMMA StartKeeps ==
  ASSUME ArchiveInv, NEW last \in AR!Lists, AR!StartMamSync(last) PROVE ArchiveInv'
<1> DEFINE k == syncs + 1
           new == {AR!Id(k, c) : c \in DOMAIN last}
<1>1. DOMAIN last \subseteq Convs
  BY DEF AR!Lists
<1>2. syncs \in Nat /\ k \in 0..MaxSyncs /\ k # 0 /\ syncs' = k
  BY ArchiveAssumption DEF AR!StartMamSync, ArchiveInv, ArchiveTypes
<1>3. \A q \in new : q \in AR!Ids /\ q.conv \in DOMAIN last /\ q = AR!Id(k, q.conv) /\ q # Start
  BY <1>1, <1>2, IdsKnown
<1>4. /\ sync' = AR!StartSync(sync, k, last)
      /\ wire' = [q \in DOMAIN wire \cup new |-> IF q \in DOMAIN wire THEN wire[q]
                                                 ELSE AR!Page(AR!Query(q.conv, last[q.conv]))]
      /\ again' = again \cup (DOMAIN last \cap DOMAIN sync.pending)
      /\ UNCHANGED <<finId, sessions, online, mam, catchup, blocked, known, told, finished>>
  BY DEF AR!StartMamSync, k, new
<1> HIDE DEF k
<1>5. /\ sync' = [pending |-> sync'.pending, jidOf |-> sync'.jidOf, received |-> sync'.received,
                  mam |-> sync'.mam]
      /\ sync'.pending = [c \in DOMAIN sync.pending \cup DOMAIN last |->
                            IF c \in DOMAIN last THEN AR!Id(k, c) ELSE sync.pending[c]]
      /\ sync'.jidOf = [q \in DOMAIN sync.jidOf \cup new |-> IF q \in new THEN q.conv ELSE sync.jidOf[q]]
      /\ sync'.received = sync.received
  <2>1. PICK p, j, r, m : sync = [pending |-> p, jidOf |-> j, received |-> r, mam |-> m]
    BY DEF ArchiveInv, Indexed
  <2> QED
    BY <1>4, <2>1 DEF AR!StartSync
<1> HIDE DEF new
<1>6. ArchiveTypes'
  <2>1. \A q : AR!Page(q) \in Seq(AR!Messages)
    BY PageType
  <2>2. DOMAIN wire' = DOMAIN wire \cup new /\ DOMAIN wire' \subseteq AR!Ids
    BY <1>3, <1>4 DEF ArchiveInv, ArchiveTypes
  <2>3. \A q \in DOMAIN wire' : wire'[q] \in Seq(AR!Messages)
    BY <1>4, <2>1, <2>2 DEF ArchiveInv, ArchiveTypes
  <2>4. again' \subseteq Convs /\ syncs' \in 0..MaxSyncs
    BY <1>1, <1>2, <1>4 DEF ArchiveInv, ArchiveTypes
  <2> QED
    BY <1>4, <2>2, <2>3, <2>4 DEF ArchiveInv, ArchiveTypes
<1>7. Tracked'
  BY <1>4 DEF ArchiveInv, Tracked
<1>8. Indexed'
  <2>1. \A c \in DOMAIN sync'.pending : c \in Convs /\ sync'.pending[c] \in AR!Ids
    BY <1>1, <1>2, <1>5, IdsKnown DEF ArchiveInv, Indexed
  <2>2. \A q \in DOMAIN sync'.jidOf : q \in AR!Ids /\ sync'.jidOf[q] = q.conv /\ q.conv \in Convs
    BY <1>1, <1>3, <1>5 DEF ArchiveInv, Indexed
  <2> QED
    BY <1>5, <2>1, <2>2 DEF ArchiveInv, Indexed
<1>9. Owed'
  <2> SUFFICES ASSUME finId, again' = {}, NEW q \in DOMAIN wire', q.conv # Server
               PROVE  q \in DOMAIN sync'.jidOf /\ q.conv \in DOMAIN sync'.pending
                      /\ sync'.pending[q.conv] = q
    BY <1>4 DEF Owed
  <2>1. again = {} /\ DOMAIN last \cap DOMAIN sync.pending = {}
    BY <1>4
  <2>2. CASE q \in new
    BY <2>2, <1>3, <1>5
  <2>3. CASE q \in DOMAIN wire
    <3>1. q \in DOMAIN sync.jidOf /\ q.conv \in DOMAIN sync.pending /\ sync.pending[q.conv] = q
      BY <2>1, <2>3 DEF ArchiveInv, Owed
    <3> QED
      BY <3>1, <2>1, <1>5
  <2> QED
    BY <2>2, <2>3, <1>4
<1>10. Fetched'
  <2>1. Start \in DOMAIN wire' => Start \in DOMAIN wire /\ wire'[Start] = wire[Start]
    BY <1>3, <1>4
  <2>2. syncs' # 0
    BY <1>2
  <2>3. \A i : Handed(i, told') = Handed(i, told)
    BY <1>4 DEF Handed
  <2>4. AR!Attributable' => AR!Attributable
    BY <1>4, <2>2 DEF AR!Attributable
  <2> QED
    BY <1>4, <2>1, <2>2, <2>3, <2>4 DEF ArchiveInv, Fetched
<1> QED
  BY <1>6, <1>7, <1>8, <1>9, <1>10 DEF ArchiveInv

\* One message moves from what is still to come to what came.
LEMMA Moved ==
  ASSUME NEW a \in Seq(AR!Messages), NEW b \in Seq(AR!Messages), b # <<>>
  PROVE  /\ Head(b) \in AR!Messages /\ Tail(b) \in Seq(AR!Messages)
         /\ Append(a, Head(b)) \in Seq(AR!Messages) /\ Len(Append(a, Head(b))) = Len(a) + 1
         /\ Append(a, Head(b)) \o Tail(b) = a \o b
         /\ Len(a) \in Nat /\ Len(a) + 1 \in DOMAIN (a \o b) /\ (a \o b)[Len(a) + 1] = Head(b)
<1> DEFINE h == Head(b)  t == Tail(b)  u == Append(a, h)
<1>1. /\ h \in AR!Messages /\ t \in Seq(AR!Messages) /\ Len(t) = Len(b) - 1 /\ h = b[1] /\ Len(b) # 0
      /\ \A i \in 1..Len(t) : t[i] = b[i + 1]
  BY HeadTailProperties, EmptySeq
<1>2. /\ u \in Seq(AR!Messages) /\ Len(u) = Len(a) + 1 /\ u[Len(a) + 1] = h
      /\ \A i \in 1..Len(a) : u[i] = a[i]
  BY <1>1, AppendProperties
<1>3. Len(a) \in Nat /\ Len(b) \in Nat /\ DOMAIN a = 1..Len(a) /\ DOMAIN b = 1..Len(b)
  BY LenProperties
<1> HIDE DEF h, t, u
<1>4. /\ a \o b \in Seq(AR!Messages) /\ Len(a \o b) = Len(a) + Len(b)
      /\ \A i \in 1..Len(a \o b) : (a \o b)[i] = IF i <= Len(a) THEN a[i] ELSE b[i - Len(a)]
  BY ConcatProperties
<1>5. /\ u \o t \in Seq(AR!Messages) /\ Len(u \o t) = Len(u) + Len(t)
      /\ \A i \in 1..Len(u \o t) : (u \o t)[i] = IF i <= Len(u) THEN u[i] ELSE t[i - Len(u)]
  <2>1. u \in Seq(AR!Messages) /\ t \in Seq(AR!Messages)
    BY <1>1, <1>2
  <2> QED
    BY <2>1, ConcatProperties
<1>6. Len(u \o t) = Len(a \o b)
  BY <1>1, <1>2, <1>3, <1>4, <1>5
<1>7. ASSUME NEW i \in 1..Len(a \o b) PROVE (u \o t)[i] = (a \o b)[i]
  <2>1. i \in Nat /\ 1 <= i /\ i <= Len(a) + Len(b)
    BY <1>3, <1>4
  <2>2. CASE i <= Len(a)
    BY <2>1, <2>2, <1>2, <1>3, <1>4, <1>5, <1>6
  <2>3. CASE i = Len(a) + 1
    BY <2>1, <2>3, <1>1, <1>2, <1>3, <1>4, <1>5, <1>6
  <2>4. CASE i > Len(a) + 1
    <3>1. (a \o b)[i] = b[i - Len(a)] /\ (u \o t)[i] = t[i - (Len(a) + 1)]
      BY <2>1, <2>4, <1>2, <1>3, <1>4, <1>5, <1>6
    <3>2. i - (Len(a) + 1) \in 1..Len(t) /\ (i - (Len(a) + 1)) + 1 = i - Len(a)
      BY <2>1, <2>4, <1>1, <1>3
    <3>3. t[i - (Len(a) + 1)] = b[(i - (Len(a) + 1)) + 1]
      BY <3>2, <1>1
    <3> QED
      BY <3>1, <3>2, <3>3
  <2> QED
    <3>1. i <= Len(a) \/ i = Len(a) + 1 \/ i > Len(a) + 1
      BY <2>1, <1>3
    <3> QED
      BY <3>1, <2>2, <2>3, <2>4, Zenon
<1>8. u \o t = a \o b
  BY <1>4, <1>5, <1>6, <1>7, SeqEqual
<1>9. Len(a) + 1 \in DOMAIN (a \o b) /\ (a \o b)[Len(a) + 1] = h
  <2>1. DOMAIN (a \o b) = 1..(Len(a) + Len(b)) /\ Len(a) + 1 \in 1..(Len(a) + Len(b))
    BY <1>1, <1>3, <1>4, LenProperties
  <2>2. (a \o b)[Len(a) + 1] = b[(Len(a) + 1) - Len(a)] /\ (Len(a) + 1) - Len(a) = 1
    BY <2>1, <1>3, <1>4
  <2> QED
    BY <2>1, <2>2, <1>1
<1> QED
  BY <1>1, <1>2, <1>3, <1>8, <1>9 DEF h, t, u

LEMMA ResultKeeps ==
  ASSUME ArchiveInv, NEW id \in DOMAIN wire, AR!Result(id) PROVE ArchiveInv'
<1> DEFINE m == Head(wire[id])
           route == m.text /\ m.conv \notin blocked /\ m.id \notin known
<1>1. /\ wire[id] # <<>> /\ wire' = [wire EXCEPT ![id] = Tail(@)]
      /\ mam' = AR!OnMamMessage(mam, id, m) /\ sync' = AR!SyncOnResult(sync, id)
      /\ known' = (IF route THEN known \cup {m.id} ELSE known)
      /\ told' = (IF route THEN told \cup {m.id} ELSE told)
      /\ UNCHANGED <<finId, sessions, online, syncs, catchup, blocked, finished, again>>
  BY DEF AR!Result
<1>2. id \in AR!Ids /\ wire[id] \in Seq(AR!Messages)
  BY DEF ArchiveInv, ArchiveTypes
<1>3. m \in AR!Messages /\ m.id \in Nat /\ Tail(wire[id]) \in Seq(AR!Messages)
  BY <1>1, <1>2, HeadTailProperties, MessagesKnown
<1>4. DOMAIN wire' = DOMAIN wire /\ wire'[id] = Tail(wire[id])
      /\ \A q \in DOMAIN wire : q # id => wire'[q] = wire[q]
  BY <1>1
<1>5. /\ told' = known' /\ known' \subseteq Nat /\ told \subseteq told'
      /\ m.text /\ m.conv \notin Blocked => m.id \in told'
  BY <1>1, <1>3 DEF ArchiveInv, ArchiveTypes
<1> HIDE DEF m, route
<1>6. ArchiveTypes'
  BY <1>1, <1>3, <1>4, <1>5 DEF ArchiveInv, ArchiveTypes
<1>7. /\ mam' = [pending |-> mam'.pending, results |-> mam'.results]
      /\ mam'.pending = mam.pending /\ DOMAIN mam'.results = DOMAIN mam.results
      /\ \A q \in DOMAIN mam.results :
           mam'.results[q] = IF q = id THEN Append(mam.results[q], m) ELSE mam.results[q]
  <2>1. PICK p, r : mam = [pending |-> p, results |-> r]
    BY DEF ArchiveInv, Tracked
  <2> QED
    BY <1>1, <2>1 DEF AR!OnMamMessage
<1>8. Tracked'
  <2>1. UNCHANGED catchup /\ Tracked
    BY <1>1 DEF ArchiveInv
  <2>2. \A q \in DOMAIN mam'.results : mam'.results[q] \in Seq(AR!Messages)
    <3>1. SUFFICES ASSUME NEW q \in DOMAIN mam.results
                   PROVE  mam'.results[q] \in Seq(AR!Messages)
      BY <1>7
    <3>2. mam.results[q] \in Seq(AR!Messages)
      BY <2>1 DEF Tracked
    <3>3. Append(mam.results[q], m) \in Seq(AR!Messages)
      BY <1>3, <3>2, AppendProperties
    <3> QED
      BY <1>7, <3>2, <3>3
  <2> QED
    BY <1>7, <2>1, <2>2 DEF Tracked
<1>9. /\ sync' = [pending |-> sync'.pending, jidOf |-> sync'.jidOf, received |-> sync'.received,
                  mam |-> sync'.mam]
      /\ sync'.pending = sync.pending /\ sync'.jidOf = sync.jidOf
      /\ \A q \in DOMAIN sync'.received : q \in AR!Ids /\ sync'.received[q] \in Nat
  <2>1. PICK p, j, r, x : sync = [pending |-> p, jidOf |-> j, received |-> r, mam |-> x]
    BY DEF ArchiveInv, Indexed
  <2>2. \A q \in DOMAIN r : q \in AR!Ids /\ r[q] \in Nat
    BY <2>1 DEF ArchiveInv, Indexed
  <2>3. AR!ReceivedOf(sync, id) + 1 \in Nat
    BY <2>1, <2>2 DEF AR!ReceivedOf
  <2>4. \/ sync' = sync
        \/ sync' = [pending |-> p, jidOf |-> j, received |-> AR!Put(r, id, AR!ReceivedOf(sync, id) + 1), mam |-> x]
    BY <1>1, <2>1 DEF AR!SyncOnResult
  <2>5. \A q \in DOMAIN AR!Put(r, id, AR!ReceivedOf(sync, id) + 1) :
          q \in AR!Ids /\ AR!Put(r, id, AR!ReceivedOf(sync, id) + 1)[q] \in Nat
    BY <1>2, <2>2, <2>3 DEF AR!Put
  <2> QED
    BY <2>1, <2>2, <2>4, <2>5
<1>10. Indexed'
  BY <1>9 DEF ArchiveInv, Indexed
<1>11. Owed'
  BY <1>1, <1>4, <1>9 DEF ArchiveInv, Owed
<1>12. Fetched'
  <2> SUFFICES ASSUME AR!Attributable PROVE Fetched'
    BY <1>1 DEF Fetched, AR!Attributable
  <2>1. syncs' = 0 => DOMAIN wire' \subseteq {Start}
    BY <1>1, <1>4 DEF ArchiveInv, Fetched
  <2>2. \A k : Handed(k, told) => Handed(k, told')
    BY <1>5 DEF Handed
  <2>3. ASSUME NEW k \in DOMAIN finished', finished'[k].taken = Start
        PROVE  finished'[k].fetched = Len(AR!FirstPage) /\ Handed(Len(AR!FirstPage), told')
    BY <1>1, <2>2, <2>3 DEF ArchiveInv, Fetched
  <2>4. CASE id # Start
    BY <1>4, <1>7, <2>1, <2>2, <2>3, <2>4 DEF ArchiveInv, Fetched
  <2>5. CASE id = Start
    <3>1. /\ Start \in DOMAIN mam.results /\ mam.results[Start] \in Seq(AR!Messages)
          /\ mam.results[Start] \o wire[Start] = AR!FirstPage /\ Handed(Len(mam.results[Start]), told)
      BY <2>5 DEF ArchiveInv, Fetched, Tracked
    <3> DEFINE a == mam.results[Start]  b == wire[Start]  c == mam'.results[Start]
    <3>2. a \in Seq(AR!Messages) /\ b \in Seq(AR!Messages) /\ b # <<>> /\ a \o b = AR!FirstPage
          /\ m = Head(b) /\ wire'[Start] = Tail(b) /\ c = Append(a, m)
      BY <1>1, <1>2, <1>4, <1>7, <2>5, <3>1 DEF m
    <3> HIDE DEF a, b, c
    <3>3. /\ Append(a, Head(b)) \o Tail(b) = a \o b /\ Len(Append(a, Head(b))) = Len(a) + 1
          /\ Len(a) \in Nat /\ (a \o b)[Len(a) + 1] = Head(b)
      BY <3>2, Moved
    <3>4. c \o wire'[Start] = AR!FirstPage /\ Len(c) = Len(a) + 1 /\ Len(a) \in Nat
          /\ AR!FirstPage[Len(a) + 1] = m
      BY <3>2, <3>3, Zenon
    <3>5. Handed(Len(a), told')
      BY <2>2, <3>1, Zenon DEF a
    <3>6. Handed(Len(c), told')
      BY <1>5, <3>4, <3>5 DEF Handed
    <3> QED
      BY <1>4, <1>7, <2>1, <2>3, <3>1, <3>4, <3>6 DEF Fetched, c
  <2> QED
    BY <2>4, <2>5
<1> QED
  BY <1>6, <1>8, <1>10, <1>11, <1>12 DEF ArchiveInv

\* What a <fin> is taken to end: the query it names, or that of the catch-up.
LEMMA FinTakes ==
  ASSUME Tracked, NEW id \in AR!Ids
  PROVE  /\ finId => AR!FinQuery(mam, IF finId THEN id ELSE None) = {id}
         /\ ~finId => AR!FinQuery(mam, IF finId THEN id ELSE None) \subseteq {Start}
<1>1. id # None
  BY ArchiveAssumption DEF AR!Ids
<1>2. CASE finId
  BY <1>1, <1>2 DEF AR!FinQuery
<1>3. CASE ~finId
  BY <1>3 DEF AR!FinQuery, Tracked
<1> QED
  BY <1>2, <1>3

LEMMA FinKeeps == ASSUME ArchiveInv, NEW id \in DOMAIN wire, AR!Fin(id) PROVE ArchiveInv'
<1> DEFINE taken == AR!FinQuery(mam, IF finId THEN id ELSE None)
<1>1. /\ wire[id] = <<>> /\ wire' = AR!Without(wire, id)
      /\ \/ taken = {} /\ UNCHANGED <<mam, catchup, sync, finished>>
         \/ \E t \in taken :
              /\ mam' = AR!OnFinIq(mam, t)
              /\ catchup' = AR!CatchupOnFin(catchup, t)
              /\ sync' = AR!SyncOnFin(sync, t)
              /\ finished' = Append(finished,
                   [fin |-> id, taken |-> t, conv |-> AR!ConvOf(t),
                    fetched |-> Len(AR!FinResult(mam, t))])
      /\ UNCHANGED <<finId, sessions, online, syncs, blocked, known, told, again>>
  BY Zenon DEF AR!Fin
<1>2. id \in AR!Ids /\ Tracked /\ Indexed
  BY DEF ArchiveInv, ArchiveTypes
<1>3. (finId => taken = {id}) /\ (~finId => taken \subseteq {Start})
  BY <1>2, FinTakes
<1> HIDE DEF taken
<1>4. /\ DOMAIN wire' = DOMAIN wire \ {id}
      /\ \A q \in DOMAIN wire' : wire'[q] = wire[q] /\ q \in DOMAIN wire
  BY <1>1 DEF AR!Without
<1>5. CASE UNCHANGED <<mam, catchup, sync, finished>> /\ taken = {}
  <2>1. ArchiveTypes' /\ Tracked' /\ Indexed'
    BY <1>1, <1>4, <1>5 DEF ArchiveInv, ArchiveTypes, Tracked, Indexed
  <2>2. Owed'
    BY <1>1, <1>3, <1>5 DEF Owed
  <2>3. Fetched'
    BY <1>1, <1>4, <1>5 DEF ArchiveInv, Fetched, AR!Attributable
  <2> QED
    BY <2>1, <2>2, <2>3 DEF ArchiveInv
<1>6. ASSUME NEW t \in taken,
             mam' = AR!OnFinIq(mam, t), catchup' = AR!CatchupOnFin(catchup, t), sync' = AR!SyncOnFin(sync, t),
             finished' = Append(finished, [fin |-> id, taken |-> t, conv |-> AR!ConvOf(t),
                                           fetched |-> Len(AR!FinResult(mam, t))])
      PROVE  ArchiveInv'
  <2> DEFINE e == [fin |-> id, taken |-> t, conv |-> AR!ConvOf(t), fetched |-> Len(AR!FinResult(mam, t))]
  <2>1. t \in AR!Ids
    BY <1>2, <1>3, <1>6, IdsKnown
  <2>2. AR!ConvOf(t) = Server
    BY <1>2 DEF AR!ConvOf, AR!CatchupOnResult, Tracked
  <2>3. AR!FinResult(mam, t) \in Seq(AR!Messages) /\ Len(AR!FinResult(mam, t)) \in Nat
    <3>1. AR!FinResult(mam, t) \in Seq(AR!Messages)
      BY <1>2, EmptySeq DEF AR!FinResult, Tracked
    <3> QED
      BY <3>1, LenProperties
  <2>4. e \in Ends /\ e.taken = t /\ e.fetched = Len(AR!FinResult(mam, t)) /\ finished' = Append(finished, e)
    BY <1>2, <1>6, <2>1, <2>2, <2>3 DEF Ends
  <2> HIDE DEF e
  <2>5. /\ finished \in Seq(Ends) /\ finished' \in Seq(Ends)
        /\ \A k \in DOMAIN finished' : finished'[k] = e \/ (k \in DOMAIN finished /\ finished'[k] = finished[k])
    <3>1. finished \in Seq(Ends)
      BY DEF ArchiveInv, ArchiveTypes
    <3>2. /\ finished' \in Seq(Ends) /\ Len(finished') = Len(finished) + 1
          /\ \A k \in 1..Len(finished) : finished'[k] = finished[k]
          /\ finished'[Len(finished) + 1] = e
      BY <2>4, <3>1, AppendProperties
    <3>3. DOMAIN finished = 1..Len(finished) /\ DOMAIN finished' = 1..(Len(finished) + 1) /\ Len(finished) \in Nat
      BY <3>1, <3>2, LenProperties
    <3>4. \A k \in 1..(Len(finished) + 1) : k \in 1..Len(finished) \/ k = Len(finished) + 1
      BY <3>3
    <3> QED
      BY <3>1, <3>2, <3>3, <3>4, Zenon
  <2>6. ArchiveTypes'
    BY <1>1, <1>4, <2>5 DEF ArchiveInv, ArchiveTypes
  <2>7. /\ mam' = [pending |-> mam'.pending, results |-> mam'.results]
        /\ DOMAIN mam'.pending = DOMAIN mam.pending \ {t}
        /\ DOMAIN mam'.results = DOMAIN mam.results \ {t}
        /\ \A q \in DOMAIN mam'.results : mam'.results[q] = mam.results[q]
    BY <1>6 DEF AR!OnFinIq, AR!Without
  <2>8. catchup' = [states |-> catchup'.states, jidOf |-> catchup'.jidOf]
        /\ \A q \in DOMAIN catchup'.jidOf : catchup'.jidOf[q] = Server
    BY <1>2, <1>6 DEF AR!CatchupOnFin, AR!Without, Tracked
  <2>9. Tracked'
    BY <1>2, <2>7, <2>8 DEF Tracked
  <2>10. /\ sync' = [pending |-> sync'.pending, jidOf |-> sync'.jidOf, received |-> sync'.received,
                     mam |-> sync'.mam]
         /\ sync'.received = sync.received
         /\ t \notin DOMAIN sync.jidOf => sync' = sync
         /\ t \in DOMAIN sync.jidOf =>
              /\ sync'.jidOf = [q \in DOMAIN sync.jidOf \ {t} |-> sync.jidOf[q]]
              /\ sync'.pending = [c \in DOMAIN sync.pending \ {sync.jidOf[t]} |-> sync.pending[c]]
    <3>1. PICK p, j, r, x : sync = [pending |-> p, jidOf |-> j, received |-> r, mam |-> x]
      BY <1>2 DEF Indexed
    <3> QED
      BY <1>6, <3>1 DEF AR!SyncOnFin, AR!Without
  <2>11. Indexed'
    <3>1. CASE t \notin DOMAIN sync.jidOf
      BY <1>2, <2>10, <3>1 DEF Indexed
    <3>2. CASE t \in DOMAIN sync.jidOf
      BY <1>2, <2>10, <3>2 DEF Indexed
    <3> QED
      BY <3>1, <3>2
  <2>12. Owed'
    <3> SUFFICES ASSUME finId, again = {}, NEW q \in DOMAIN wire', q.conv # Server
                 PROVE  q \in DOMAIN sync'.jidOf /\ q.conv \in DOMAIN sync'.pending
                        /\ sync'.pending[q.conv] = q
      BY <1>1 DEF Owed
    <3>1. t = id /\ q # id /\ q \in DOMAIN wire
      BY <1>3, <1>4, <1>6
    <3>2. q \in DOMAIN sync.jidOf /\ q.conv \in DOMAIN sync.pending /\ sync.pending[q.conv] = q
      BY <3>1 DEF ArchiveInv, Owed
    <3>3. CASE t \notin DOMAIN sync.jidOf
      BY <2>10, <3>2, <3>3
    <3>4. CASE t \in DOMAIN sync.jidOf
      <4>1. sync.jidOf[t] = t.conv /\ t.conv \in Convs
        BY <1>2, <3>4 DEF Indexed
      <4>2. t.conv \in DOMAIN sync.pending /\ sync.pending[t.conv] = t
        BY <1>1, <3>1, <4>1, ArchiveAssumption DEF ArchiveInv, Owed
      <4>3. q.conv # t.conv
        BY <3>1, <3>2, <4>2
      <4> QED
        BY <2>10, <3>1, <3>2, <3>4, <4>1, <4>3
    <3> QED
      BY <3>3, <3>4
  <2>13. Fetched'
    <3> SUFFICES ASSUME AR!Attributable PROVE Fetched'
      BY <1>1 DEF Fetched, AR!Attributable
    <3>1. t = id \/ (t = Start /\ id = Start)
      <4>1. CASE finId
        BY <1>3, <1>6, <4>1
      <4>2. CASE ~finId
        <5>1. syncs = 0 /\ DOMAIN wire \subseteq {Start}
          BY <4>2 DEF ArchiveInv, Fetched, AR!Attributable
        <5> QED
          BY <1>3, <1>6, <4>2, <5>1
      <4> QED
        BY <4>1, <4>2
    <3>2. syncs' = 0 => DOMAIN wire' \subseteq {Start}
      BY <1>1, <1>4 DEF ArchiveInv, Fetched
    <3>3. Start \in DOMAIN wire' =>
            Start \in DOMAIN mam'.results /\ mam'.results[Start] \o wire'[Start] = AR!FirstPage
      BY <1>4, <2>7, <3>1 DEF ArchiveInv, Fetched
    <3>4. Start \in DOMAIN mam'.results => Handed(Len(mam'.results[Start]), told')
      BY <1>1, <2>7 DEF ArchiveInv, Fetched
    <3>5. ASSUME t = Start PROVE e.fetched = Len(AR!FirstPage) /\ Handed(Len(AR!FirstPage), told')
      <4>1. /\ Start \in DOMAIN mam.results /\ mam.results[Start] \in Seq(AR!Messages)
            /\ mam.results[Start] \o wire[Start] = AR!FirstPage /\ wire[Start] = <<>>
            /\ Handed(Len(mam.results[Start]), told)
        BY <1>1, <1>2, <3>1, <3>5 DEF ArchiveInv, Fetched, Tracked
      <4>2. mam.results[Start] = AR!FirstPage
        BY <4>1, ConcatEmptySeq
      <4> QED
        BY <1>1, <2>4, <3>5, <4>1, <4>2 DEF AR!FinResult
    <3>6. ASSUME NEW k \in DOMAIN finished', finished'[k].taken = Start
          PROVE  finished'[k].fetched = Len(AR!FirstPage) /\ Handed(Len(AR!FirstPage), told')
      <4>1. CASE finished'[k] = e
        BY <2>4, <3>5, <3>6, <4>1
      <4>2. CASE k \in DOMAIN finished /\ finished'[k] = finished[k]
        BY <1>1, <3>6, <4>2 DEF ArchiveInv, Fetched
      <4> QED
        BY <2>5, <4>1, <4>2
    <3> QED
      BY <3>2, <3>3, <3>4, <3>6 DEF Fetched
  <2> QED
    BY <2>6, <2>9, <2>11, <2>12, <2>13 DEF ArchiveInv
<1> QED
  BY <1>1, <1>5, <1>6

LEMMA ArchiveStep == ASSUME ArchiveInv, AR!Next PROVE ArchiveInv'
  BY OnlineKeeps, StartKeeps, BlocklistKeeps, EndKeeps, ResultKeeps, FinKeeps, Zenon
     DEF AR!Next, AR!Answered

LEMMA ArchiveStutter == ASSUME ArchiveInv, UNCHANGED AR!archiveVars PROVE ArchiveInv'
  BY DEF ArchiveInv, ArchiveTypes, Tracked, Indexed, Owed, Fetched, Handed, AR!Attributable,
     AR!archiveVars

LEMMA ArchiveTyped == ASSUME ArchiveInv PROVE AR!TypeOK
<1>1. DOMAIN mam.pending \subseteq AR!Ids
  BY IdsKnown DEF ArchiveInv, Tracked
<1>2. \A q \in DOMAIN sync.jidOf : q \in AR!Ids /\ sync.jidOf[q] \in Convs
  BY DEF ArchiveInv, Indexed
<1>3. told \subseteq Nat
  BY DEF ArchiveInv, ArchiveTypes
<1> QED
  BY <1>1, <1>2, <1>3, Zenon DEF ArchiveInv, ArchiveTypes, Tracked, Indexed, AR!TypeOK

LEMMA ArchiveHeld == ASSUME ArchiveInv PROVE AR!CaughtUp /\ AR!CompleteMeansFetched
<1>1. AR!CaughtUp
  <2>1. AR!FirstPage \in Seq(AR!Messages) /\ DOMAIN AR!FirstPage = 1..Len(AR!FirstPage)
    BY PageType, LenProperties DEF AR!FirstPage
  <2> QED
    BY <2>1 DEF ArchiveInv, Fetched, AR!CaughtUp, Handed, Start
<1>2. AR!CompleteMeansFetched
  BY DEF ArchiveInv, Owed, AR!CompleteMeansFetched, AR!SyncIsComplete
<1> QED
  BY <1>1, <1>2

-----------------------------------------------------------------------------
(* Composer: what shows an own message, keeps it, is about to keep it or has *)
(* read it, has it from a command that was sent.                           *)

\* What the engine was given under id, or what has a row under it.
Covers(s, id) == \E c \in s : id = c.n \/ (id = CO!Copy(c.n) /\ ~c.omemo)

\* What shows an identifier, keeps it, is about to keep it, or has read it.
Sources ==
  /\ \A id \in shown \cup rows : Covers(sent, id)
  /\ \A n \in CO!Texts : <<"store", n>> \in tasks => \E c \in sent : c.n = n /\ ~c.omemo
  /\ \A found \in SUBSET CO!Ids : <<"loaded", found>> \in tasks =>
       \A id \in found : Covers(sent, id)

\* A conversation that is gone does not record.
Silent == ~open => voice # "Recording"

ComposerInv == CO!TypeOK /\ Sources /\ Silent /\ CO!CaptureBound

NoText == ""

LEMMA Drafting == CO!Drafts = {NoText, "text", "link"}
  BY Zenon DEF CO!Drafts, NoText

LEMMA ComposerInit == ASSUME CO!Init PROVE ComposerInv
<1>1. /\ draft = NoText /\ open = FALSE /\ visible = FALSE /\ edit = None /\ staged = 0
      /\ voice = "Idle" /\ encrypted = FALSE /\ capture = 0 /\ shown = {} /\ rows = {}
      /\ tasks = {} /\ sent = {} /\ links = 0 /\ presses = 0 /\ orphans = 0 /\ unstaged = FALSE
      /\ covered = FALSE /\ dropped = FALSE
  BY Zenon DEF CO!Init, NoText
<1>2. CO!TypeOK
  <2>1. staged \in 0..MaxStaged /\ links \in 0..MaxLinks /\ presses \in 0..MaxPresses
    BY <1>1, ComposerAssumption
  <2> QED
    BY <1>1, <2>1, Drafting DEF CO!TypeOK, CO!Voices
<1>3. Sources /\ Silent /\ CO!CaptureBound
  BY <1>1 DEF Sources, Silent, CO!CaptureBound
<1> QED
  BY <1>2, <1>3 DEF ComposerInv

\* How the composer of an open conversation is left by Send.
LEMMA SendCases ==
  ASSUME NEW STATE rest, CO!HandleSend(rest)
  PROVE  /\ UNCHANGED <<open, visible, covered, encrypted, capture, rows, links, orphans, unstaged, dropped>>
         /\ \/ tasks' = rest /\ UNCHANGED <<draft, edit, staged, voice, shown, sent>>
            \/ /\ staged' = 0 /\ draft' = NoText /\ edit' = None /\ tasks' = rest
               /\ voice' = IF voice = "Uploading" THEN "Idle" ELSE voice
               /\ UNCHANGED <<shown, sent>>
            \/ /\ draft' = NoText /\ edit' \in {edit, None} /\ tasks' = rest
               /\ UNCHANGED <<staged, voice, shown, sent>>
            \/ /\ draft' = NoText /\ CO!NextText \in CO!Texts
               /\ shown' = shown \cup {CO!NextText}
               /\ sent' = sent \cup {[n |-> CO!NextText, omemo |-> encrypted]}
               /\ tasks' = rest
                    \cup (IF encrypted THEN {} ELSE {<<"store", CO!NextText>>})
                    \cup (IF draft = "link" THEN {<<"preview", CO!NextText>>} ELSE {})
               /\ UNCHANGED <<edit, staged, voice>>
<1> USE DEF NoText
<1>1. CASE ~open
  BY <1>1, Zenon DEF CO!view, CO!HandleSend
<1>2. CASE open /\ staged > 0
  <2>1. staged # 0
    BY <1>2
  <2>2. CO!SendAttachments(rest)
    BY <1>2, <2>1, Zenon DEF CO!view, CO!HandleSend
  <2> QED
    BY <2>2, Zenon DEF CO!view, CO!SendAttachments, CO!HandleSend
<1>3. CASE open /\ staged = 0 /\ edit # None
  <2>1. ~(staged > 0)
    BY <1>3
  <2>2. CO!SendEdit(rest)
    BY <1>3, <2>1, Zenon DEF CO!view, CO!HandleSend
  <2> QED
    BY <2>2, Zenon DEF CO!view, CO!SendEdit, CO!HandleSend
<1>4. CASE open /\ ~(staged > 0) /\ ~(staged = 0 /\ edit # None)
  BY <1>4, Zenon DEF CO!view, CO!HandleSend, CO!SendDraft
<1> QED
  BY <1>1, <1>2, <1>3, <1>4, Zenon

LEMMA SendKeeps ==
  ASSUME ComposerInv, NEW STATE rest, rest \subseteq tasks, CO!HandleSend(rest),
         presses' \in 0..MaxPresses
  PROVE  ComposerInv'
<1>1. /\ open \in BOOLEAN /\ visible \in BOOLEAN /\ (visible => open) /\ encrypted \in BOOLEAN
      /\ unstaged \in BOOLEAN /\ covered \in BOOLEAN /\ dropped \in BOOLEAN
  BY DEF ComposerInv, CO!TypeOK
<1>2. UNCHANGED <<open, visible, covered, encrypted, capture, rows, links, orphans, unstaged, dropped>>
  BY SendCases
<1>3. draft' \in CO!Drafts /\ edit' \in CO!Ids \cup {None} /\ staged' \in 0..MaxStaged /\ voice' \in CO!Voices
      /\ (voice' = "Recording" <=> voice = "Recording")
  <2>1. 0 \in 0..MaxStaged /\ draft \in CO!Drafts /\ edit \in CO!Ids \cup {None} /\ staged \in 0..MaxStaged
        /\ voice \in CO!Voices /\ NoText \in CO!Drafts
    BY ComposerAssumption, Drafting DEF ComposerInv, CO!TypeOK
  <2> QED
    BY <2>1, SendCases DEF CO!Voices
<1>4. CASE UNCHANGED <<shown, sent>> /\ tasks' = rest
  <2>1. Sources'
    BY <1>2, <1>4 DEF ComposerInv, Sources
  <2>2. CO!TypeOK'
    BY <1>1, <1>2, <1>3, <1>4, Zenon DEF ComposerInv, CO!TypeOK
  <2> QED
    BY <1>2, <1>3, <2>1, <2>2 DEF ComposerInv, Silent, CO!CaptureBound
<1>5. CASE /\ CO!NextText \in CO!Texts /\ shown' = shown \cup {CO!NextText}
           /\ sent' = sent \cup {[n |-> CO!NextText, omemo |-> encrypted]}
           /\ tasks' = rest
                \cup (IF encrypted THEN {} ELSE {<<"store", CO!NextText>>})
                \cup (IF draft = "link" THEN {<<"preview", CO!NextText>>} ELSE {})
  <2> DEFINE k == CO!NextText  c == [n |-> k, omemo |-> encrypted]
  <2>1. k \in CO!Texts /\ k \in CO!Ids /\ k \in 1..(MaxTexts + MaxLinks) /\ c.n = k /\ c.omemo = encrypted
    BY <1>5, ComposerAssumption DEF CO!Texts, CO!Ids
  <2>2. c \in CO!Commands /\ sent' = sent \cup {c} /\ shown' = shown \cup {k}
    BY <1>1, <1>5, <2>1 DEF CO!Commands
  <2>3. /\ tasks' \subseteq tasks \cup {<<"store", k>>, <<"preview", k>>}
        /\ encrypted => tasks' \subseteq tasks \cup {<<"preview", k>>}
    BY <1>5
  <2> HIDE DEF k, c
  <2>4. <<"store", k>> \in CO!Tasks /\ <<"preview", k>> \in CO!Tasks
    BY <2>1 DEF CO!Tasks
  <2>5. \A id : Covers(sent, id) => Covers(sent', id)
    BY <2>2, Zenon DEF Covers
  <2>6. Covers(sent', k) /\ (~encrypted => \E d \in sent' : d.n = k /\ ~d.omemo)
    BY <2>1, <2>2, Zenon DEF Covers
  <2>7. \A id \in shown' \cup rows' : Covers(sent', id)
    BY <1>2, <2>2, <2>5, <2>6 DEF ComposerInv, Sources
  <2>8. ASSUME NEW n \in CO!Texts, <<"store", n>> \in tasks' PROVE \E d \in sent' : d.n = n /\ ~d.omemo
    <3>1. CASE <<"store", n>> \in tasks
      BY <2>2, <3>1, Zenon DEF ComposerInv, Sources
    <3>2. CASE <<"store", n>> \notin tasks
      <4>1. n = k /\ ~encrypted
        BY <1>1, <2>3, <2>8, <3>2
      <4> QED
        BY <2>6, <4>1, Zenon
    <3> QED
      BY <3>1, <3>2
  <2>9. ASSUME NEW found \in SUBSET CO!Ids, <<"loaded", found>> \in tasks', NEW id \in found
        PROVE  Covers(sent', id)
    <3>1. <<"loaded", found>> \in tasks
      BY <2>3, <2>9
    <3> QED
      BY <2>5, <3>1, Zenon DEF ComposerInv, Sources
  <2>10. Sources'
    BY <2>7, <2>8, <2>9 DEF Sources
  <2>11. shown' \subseteq CO!Ids /\ tasks' \subseteq CO!Tasks /\ sent' \subseteq CO!Commands
    BY <2>1, <2>2, <2>3, <2>4 DEF ComposerInv, CO!TypeOK
  <2>12. CO!TypeOK'
    BY <1>1, <1>2, <1>3, <2>11, Zenon DEF ComposerInv, CO!TypeOK
  <2> QED
    BY <1>2, <1>3, <2>10, <2>12 DEF ComposerInv, Silent, CO!CaptureBound
<1> QED
  BY <1>4, <1>5, SendCases, Zenon

Flags == /\ open \in BOOLEAN /\ visible \in BOOLEAN /\ (visible => open)
         /\ encrypted \in BOOLEAN /\ unstaged \in BOOLEAN
         /\ covered \in BOOLEAN /\ dropped \in BOOLEAN
Counts == /\ staged \in 0..MaxStaged /\ links \in 0..MaxLinks /\ presses \in 0..MaxPresses
          /\ draft \in CO!Drafts /\ edit \in CO!Ids \cup {None}
Recorder == /\ voice \in CO!Voices /\ capture \in Nat /\ orphans \in Nat /\ CO!CaptureBound /\ Silent

Plain == CO!Simple \cup ({"preview"} \X (1..(MaxTexts + MaxLinks)))

LEMMA ComposerParts == ComposerInv => Flags /\ Counts /\ Recorder
  BY DEF ComposerInv, CO!TypeOK, Flags, Counts, Recorder

\* A step that keeps nothing new and reads nothing.
LEMMA PlainKeeps ==
  ASSUME ComposerInv, Flags', Counts', Recorder', sent' = sent, rows' = rows,
         shown' \subseteq shown, tasks' \subseteq tasks \cup Plain
  PROVE  ComposerInv'
<1>1. Plain \subseteq CO!Tasks
  BY DEF Plain, CO!Tasks
<1>2. /\ \A n \in CO!Texts : <<"store", n>> \notin Plain
      /\ \A found \in SUBSET CO!Ids : <<"loaded", found>> \notin Plain
  BY DEF Plain, CO!Simple
<1>3. Sources'
  <2>1. \A id \in shown' \cup rows' : Covers(sent', id)
    BY DEF ComposerInv, Sources
  <2>2. \A n \in CO!Texts : <<"store", n>> \in tasks' => \E c \in sent' : c.n = n /\ ~c.omemo
    BY <1>2, Zenon DEF ComposerInv, Sources
  <2>3. \A found \in SUBSET CO!Ids : <<"loaded", found>> \in tasks' => \A id \in found : Covers(sent', id)
    BY <1>2, Zenon DEF ComposerInv, Sources
  <2> QED
    BY <2>1, <2>2, <2>3, Zenon DEF Sources
<1>4. shown' \subseteq CO!Ids /\ rows' \subseteq CO!Ids /\ sent' \subseteq CO!Commands /\ tasks' \subseteq CO!Tasks
  BY <1>1 DEF ComposerInv, CO!TypeOK
<1> QED
  BY <1>3, <1>4, Zenon DEF ComposerInv, CO!TypeOK, Flags, Counts, Recorder

LEMMA ViewReset ==
  ASSUME CO!NewView PROVE draft' = NoText /\ edit' = None /\ staged' = 0 /\ voice' = "Idle"
                          /\ encrypted' = FALSE /\ shown' = {}
  BY Zenon DEF CO!NewView, NoText

LEMMA UserKeeps ==
  ASSUME ComposerInv, CO!User, ~CO!PressSend PROVE ComposerInv'
<1>0. Flags /\ Counts /\ Recorder /\ NoText \in CO!Drafts /\ "text" \in CO!Drafts /\ 0 \in 0..MaxStaged
  BY ComposerParts, Drafting, ComposerAssumption
<1>1. CASE \E text \in CO!Drafts : CO!ComposerChanged(text)
  BY <1>0, <1>1, PlainKeeps DEF CO!view, CO!ComposerChanged, CO!history, Flags, Counts, Recorder,
     CO!CaptureBound, Silent
<1>2. CASE CO!EmojiSelected
  <2>1. draft' \in CO!Drafts
    BY <1>0, <1>2, Zenon DEF CO!view, CO!EmojiSelected, Counts
  <2>2. UNCHANGED <<open, visible, covered, edit, staged, voice, encrypted, capture, shown, rows, tasks, sent,
                    links, presses, orphans, unstaged, dropped>>
    BY <1>2, Zenon DEF CO!view, CO!EmojiSelected, CO!history
  <2> QED
    BY <1>0, <2>1, <2>2, PlainKeeps DEF Flags, Counts, Recorder, CO!CaptureBound, Silent
<1>3. CASE CO!CancelEdit \/ \E id \in CO!Ids : CO!StartEdit(id)
  <2>1. draft' \in CO!Drafts /\ edit' \in CO!Ids \cup {None}
    <3>1. draft' = NoText \/ draft' = "text"
      BY <1>3, Zenon DEF CO!view, CO!CancelEdit, CO!StartEdit, NoText
    <3>2. edit' \in CO!Ids \cup {None}
      BY <1>3, Zenon DEF CO!view, CO!CancelEdit, CO!StartEdit
    <3> QED
      BY <1>0, <3>1, <3>2
  <2>2. UNCHANGED <<open, visible, covered, staged, voice, encrypted, capture, shown, rows, tasks, sent,
                    links, presses, orphans, unstaged, dropped>>
    BY <1>3, Zenon DEF CO!view, CO!CancelEdit, CO!StartEdit, CO!history
  <2> QED
    BY <1>0, <2>1, <2>2, PlainKeeps DEF Flags, Counts, Recorder, CO!CaptureBound, Silent
<1>4. CASE CO!ToggleEncryption
  <2>1. encrypted' \in BOOLEAN
    BY <1>4, Zenon DEF CO!view, CO!ToggleEncryption
  <2>2. UNCHANGED <<open, visible, covered, draft, edit, staged, voice, capture, shown, rows, tasks, sent,
                    links, presses, orphans, unstaged, dropped>>
    BY <1>4, Zenon DEF CO!view, CO!ToggleEncryption, CO!history
  <2> QED
    BY <1>0, <2>1, <2>2, PlainKeeps DEF Flags, Counts, Recorder, CO!CaptureBound, Silent
<1>5. CASE CO!FilesDropped
  BY <1>0, <1>5, PlainKeeps, ComposerAssumption
     DEF CO!view, CO!FilesDropped, CO!Stage, CO!history, Flags, Counts, Recorder, CO!CaptureBound, Silent
<1>6. CASE CO!RemoveAttachment
  <2>1. unstaged' \in BOOLEAN
    BY <1>6, Zenon DEF CO!view, CO!RemoveAttachment
  <2>2. staged' \in 0..MaxStaged
    BY <1>0, <1>6, ComposerAssumption DEF CO!view, CO!RemoveAttachment, Counts
  <2>3. UNCHANGED <<open, visible, covered, draft, edit, voice, encrypted, capture, shown, rows, tasks, sent,
                    links, presses, orphans, dropped>>
    BY <1>6, Zenon DEF CO!view, CO!RemoveAttachment
  <2> QED
    BY <1>0, <2>1, <2>2, <2>3, PlainKeeps DEF Flags, Counts, Recorder, CO!CaptureBound, Silent
<1>7. CASE CO!OpenFilePicker \/ CO!PasteFromClipboard
  <2>1. tasks' \subseteq tasks \cup Plain
    BY <1>7 DEF CO!view, CO!OpenFilePicker, CO!PasteFromClipboard, Plain, CO!Simple
  <2>2. UNCHANGED <<open, visible, covered, draft, edit, staged, voice, encrypted, capture, shown, rows, sent,
                    links, presses, orphans, unstaged, dropped>>
    BY <1>7, Zenon DEF CO!view, CO!OpenFilePicker, CO!PasteFromClipboard, CO!composer, CO!history
  <2> QED
    BY <1>0, <2>1, <2>2, PlainKeeps DEF Flags, Counts, Recorder, CO!CaptureBound, Silent
<1>8. CASE CO!StartRecording \/ CO!StopRecording \/ CO!CancelRecording
  <2>1. tasks' \subseteq tasks \cup Plain
    BY <1>8 DEF CO!view, CO!StartRecording, CO!StopRecording, CO!CancelRecording, Plain, CO!Simple
  <2>2. UNCHANGED <<open, visible, covered, draft, edit, staged, encrypted, shown, rows, sent,
                    links, presses, orphans>> /\ open
        /\ unstaged' \in {unstaged, FALSE} /\ dropped' \in {dropped, FALSE}
    BY <1>8, Zenon DEF CO!view, CO!StartRecording, CO!StopRecording, CO!CancelRecording, CO!history,
       CO!Composing, CO!OnScreen
  <2>3. \/ voice = "Idle" /\ voice' = "Recording" /\ capture' = capture + 1
        \/ voice = "Recording" /\ voice' \in {"Encoding", "Idle"} /\ capture' = capture - 1
    BY <1>8 DEF CO!view, CO!StartRecording, CO!StopRecording, CO!CancelRecording, CO!Composing
  <2>4. Recorder'
    BY <1>0, <2>2, <2>3 DEF Recorder, CO!CaptureBound, Silent, CO!Voices
  <2> QED
    BY <1>0, <2>1, <2>2, <2>4, PlainKeeps DEF Flags, Counts
<1>9. CASE CO!Select
  <2>1. tasks' \subseteq tasks \cup Plain
    BY <1>9 DEF CO!Select, Plain, CO!Simple
  <2>2. open' = TRUE /\ visible' = TRUE
        /\ UNCHANGED <<covered, capture, rows, sent, links, presses, orphans, unstaged, dropped>>
    BY <1>9, Zenon DEF CO!Select, CO!history
  <2>3. \/ open /\ UNCHANGED <<draft, edit, staged, voice, encrypted, shown>>
        \/ ~open /\ CO!NewView
    BY <1>9, Zenon DEF CO!Select, CO!composer
  <2> QED
    BY <1>0, <2>1, <2>2, <2>3, ViewReset, PlainKeeps DEF Flags, Counts, Recorder,
       CO!CaptureBound, Silent, CO!Voices
<1>10. CASE CO!SelectOther
  BY <1>0, <1>10, PlainKeeps
     DEF CO!SelectOther, CO!composer, CO!history, Flags, Counts, Recorder, CO!CaptureBound, Silent
<1>11. CASE CO!Remove
  <2>1. open' = FALSE /\ visible' = FALSE /\ covered' = FALSE /\ CO!NewView
        /\ UNCHANGED <<capture, rows, tasks, sent, links, presses, unstaged, dropped>>
    BY <1>11, Zenon DEF CO!Remove
  <2>2. orphans' = (IF voice = "Recording" THEN orphans + 1 ELSE orphans)
    BY <1>11, Zenon DEF CO!Remove
  <2>3. Recorder'
    BY <1>0, <2>1, <2>2, ViewReset DEF Recorder, CO!CaptureBound, Silent, CO!Voices
  <2> QED
    BY <1>0, <2>1, <2>3, ViewReset, PlainKeeps DEF Flags, Counts
<1>12. CASE CO!Cover \/ CO!Uncover
  <2>1. covered' \in BOOLEAN
    BY <1>12, Zenon DEF CO!Cover, CO!Uncover
  <2>2. UNCHANGED <<open, visible, draft, edit, staged, voice, encrypted, capture, shown, rows, tasks,
                    sent, links, presses, orphans, unstaged, dropped>>
    BY <1>12, Zenon DEF CO!Cover, CO!Uncover, CO!composer, CO!history
  <2> QED
    BY <1>0, <2>1, <2>2, PlainKeeps DEF Flags, Counts, Recorder, CO!CaptureBound, Silent
<1> QED
  BY <1>1, <1>2, <1>3, <1>4, <1>5, <1>6, <1>7, <1>8, <1>9, <1>10, <1>11, <1>12, Zenon DEF CO!User

LEMMA StageKeeps == ASSUME ComposerInv, CO!Stage PROVE staged' \in 0..MaxStaged
  BY ComposerAssumption DEF CO!Stage, ComposerInv, CO!TypeOK

LEMMA TaskKeeps ==
  ASSUME ComposerInv, CO!Task PROVE ComposerInv'
<1>0. Flags /\ Counts /\ Recorder /\ 0 \in 0..MaxStaged /\ presses \in 0..MaxPresses
  BY ComposerParts, ComposerAssumption DEF Counts
<1>1. CASE CO!FilePicked \/ CO!ClipboardImageReady \/ CO!NoClipboardImage
  <2>1. staged' = staged \/ CO!Stage
    BY <1>1, Zenon DEF CO!view, CO!FilePicked, CO!ClipboardImageReady, CO!NoClipboardImage, CO!composer
  <2>2. staged' \in 0..MaxStaged
    BY <1>0, <2>1, StageKeeps DEF Counts
  <2>3. tasks' \subseteq tasks
    BY <1>1 DEF CO!view, CO!FilePicked, CO!ClipboardImageReady, CO!NoClipboardImage
  <2>4. UNCHANGED <<open, visible, covered, draft, edit, voice, encrypted, capture, shown, rows, sent,
                    links, presses, orphans, unstaged, dropped>>
    BY <1>1, Zenon DEF CO!view, CO!FilePicked, CO!ClipboardImageReady, CO!NoClipboardImage, CO!composer,
       CO!history
  <2> QED
    BY <1>0, <2>2, <2>3, <2>4, PlainKeeps DEF Flags, Counts, Recorder, CO!CaptureBound, Silent
<1>2. CASE CO!VoiceEncodingDone
  <2>1. tasks' \subseteq tasks \cup Plain
    BY <1>2 DEF CO!view, CO!VoiceEncodingDone, Plain, CO!Simple
  <2>2. UNCHANGED <<open, visible, covered, draft, edit, encrypted, capture, shown, rows, sent,
                    links, presses, unstaged, dropped>>
    BY <1>2, Zenon DEF CO!view, CO!VoiceEncodingDone
  <2>3. \/ /\ open /\ voice' = "Uploading" /\ CO!Stage
           /\ orphans' = IF voice = "Recording" THEN orphans + 1 ELSE orphans
        \/ UNCHANGED <<voice, staged, orphans>>
    BY <1>2, Zenon DEF CO!view, CO!VoiceEncodingDone
  <2>4. staged' \in 0..MaxStaged
    BY <1>0, <2>3, StageKeeps DEF Counts
  <2>5. Recorder'
    BY <1>0, <2>2, <2>3 DEF Recorder, CO!CaptureBound, Silent, CO!Voices
  <2> QED
    BY <1>0, <2>1, <2>2, <2>4, <2>5, PlainKeeps DEF Flags, Counts
<1>3. CASE CO!EncodingFailed
  <2>1. tasks' \subseteq tasks
    BY <1>3 DEF CO!view, CO!EncodingFailed
  <2>2. UNCHANGED <<open, visible, covered, draft, edit, staged, encrypted, shown, rows, sent,
                    links, presses, orphans, unstaged, dropped>>
    BY <1>3, Zenon DEF CO!view, CO!EncodingFailed, CO!history
  <2>3. /\ voice' = IF open THEN "Idle" ELSE voice
        /\ capture' = IF open /\ voice = "Recording" THEN capture - 1 ELSE capture
    BY <1>3, Zenon DEF CO!view, CO!EncodingFailed
  <2>4. Recorder'
    BY <1>0, <2>2, <2>3 DEF Recorder, CO!CaptureBound, Silent, CO!Voices
  <2> QED
    BY <1>0, <2>1, <2>2, <2>4, PlainKeeps DEF Flags, Counts
<1>4. CASE CO!VoiceSend \/ \E n \in CO!Previews : CO!PreviewFails(n)
  <2>1. PICK t : CO!HandleSend(tasks \ {t}) /\ presses' = presses
    BY <1>4, Zenon DEF CO!VoiceSend, CO!PreviewFails
  <2> DEFINE rest == tasks \ {t}
  <2>2. rest \subseteq tasks /\ CO!HandleSend(rest) /\ presses' \in 0..MaxPresses
    BY <1>0, <2>1
  <2> HIDE DEF rest
  <2> QED
    BY <2>2, SendKeeps
<1>5. ASSUME NEW n \in CO!Texts, CO!Store(n) PROVE ComposerInv'
  <2>1. UNCHANGED <<open, visible, covered, draft, edit, staged, voice, encrypted, capture, shown, sent,
                    links, presses, orphans, unstaged, dropped>>
    BY <1>5, Zenon DEF CO!view, CO!Store, CO!composer, CO!history
  <2>2. <<"store", n>> \in tasks /\ rows' = rows \cup {CO!Copy(n)} /\ tasks' \subseteq tasks
    BY <1>5 DEF CO!view, CO!Store
  <2>3. CO!Copy(n) \in CO!Ids
    BY ComposerAssumption DEF CO!Copy, CO!Ids, CO!Texts
  <2>4. Covers(sent, CO!Copy(n))
    <3>1. PICK c \in sent : c.n = n /\ ~c.omemo
      BY <2>2, Zenon DEF ComposerInv, Sources
    <3> QED
      BY <3>1, Zenon DEF Covers
  <2>5. Sources'
    <3>1. \A id \in shown' \cup rows' : Covers(sent', id)
      BY <2>1, <2>2, <2>4 DEF ComposerInv, Sources
    <3> QED
      BY <2>1, <2>2, <3>1, Zenon DEF ComposerInv, Sources
  <2>6. rows' \subseteq CO!Ids /\ tasks' \subseteq CO!Tasks
    BY <2>2, <2>3 DEF ComposerInv, CO!TypeOK
  <2> QED
    BY <2>1, <2>5, <2>6, Zenon DEF ComposerInv, CO!TypeOK, Silent, CO!CaptureBound
<1>6. CASE CO!ReadRows
  <2>1. UNCHANGED <<open, visible, covered, draft, edit, staged, voice, encrypted, capture, shown, rows, sent,
                    links, presses, orphans, unstaged, dropped>>
    BY <1>6, Zenon DEF CO!view, CO!ReadRows, CO!composer, CO!history
  <2>2. tasks' \subseteq tasks \cup {<<"loaded", rows>>} /\ rows \in SUBSET CO!Ids
    BY <1>6 DEF CO!view, CO!ReadRows, ComposerInv, CO!TypeOK
  <2>3. \A id \in shown' \cup rows' : Covers(sent', id)
    BY <2>1, Zenon DEF ComposerInv, Sources
  <2>4. \A n \in CO!Texts : <<"store", n>> \in tasks' => \E c \in sent' : c.n = n /\ ~c.omemo
    <3>1. \A n \in CO!Texts : <<"store", n>> \in tasks' => <<"store", n>> \in tasks
      BY <2>2
    <3> QED
      BY <2>1, <3>1, Zenon DEF ComposerInv, Sources
  <2>5. ASSUME NEW found \in SUBSET CO!Ids, <<"loaded", found>> \in tasks', NEW id \in found
        PROVE  Covers(sent', id)
    <3>1. <<"loaded", found>> \in tasks \/ found = rows
      BY <2>2, <2>5
    <3> QED
      BY <2>1, <2>3, <3>1, <2>5, Zenon DEF ComposerInv, Sources
  <2>6. Sources'
    BY <2>3, <2>4, <2>5, Zenon DEF Sources
  <2>7. tasks' \subseteq CO!Tasks
    BY <2>2 DEF ComposerInv, CO!TypeOK, CO!Tasks
  <2> QED
    BY <2>1, <2>6, <2>7, Zenon DEF ComposerInv, CO!TypeOK, Silent, CO!CaptureBound
<1>7. ASSUME NEW found \in SUBSET CO!Ids, CO!MessagesLoaded(found) PROVE ComposerInv'
  <2>1. UNCHANGED <<open, visible, covered, draft, edit, staged, voice, encrypted, capture, rows, sent,
                    links, presses, orphans, unstaged, dropped>>
    BY <1>7, Zenon DEF CO!view, CO!MessagesLoaded, CO!composer, CO!history
  <2>2. <<"loaded", found>> \in tasks /\ tasks' \subseteq tasks /\ shown' \in {found, shown}
    BY <1>7 DEF CO!view, CO!MessagesLoaded, CO!Heard
  <2>3. \A id \in shown' \cup rows' : Covers(sent', id)
    <3>1. \A id \in found : Covers(sent, id)
      BY <2>2, Zenon DEF ComposerInv, Sources
    <3> QED
      BY <2>1, <2>2, <3>1 DEF ComposerInv, Sources
  <2>4. Sources'
    BY <2>1, <2>2, <2>3, Zenon DEF ComposerInv, Sources
  <2>5. shown' \subseteq CO!Ids /\ tasks' \subseteq CO!Tasks
    BY <2>2 DEF ComposerInv, CO!TypeOK
  <2> QED
    BY <2>1, <2>4, <2>5, Zenon DEF ComposerInv, CO!TypeOK, Silent, CO!CaptureBound
<1>8. ASSUME NEW n \in CO!Previews, CO!PreviewReady(n) PROVE ComposerInv'
  <2>1. UNCHANGED <<open, visible, covered, draft, edit, staged, voice, encrypted, capture, shown, rows, sent,
                    links, presses, orphans, unstaged, dropped>>
    BY <1>8, Zenon DEF CO!view, CO!PreviewReady, CO!composer, CO!history
  <2>2. tasks' \subseteq tasks
    BY <1>8 DEF CO!view, CO!PreviewReady
  <2> QED
    BY <1>0, <2>1, <2>2, PlainKeeps DEF Flags, Counts, Recorder, CO!CaptureBound, Silent
<1>9. ASSUME NEW t \in CO!Answers, CO!Unheard(t) PROVE ComposerInv'
  <2>1. UNCHANGED <<open, visible, covered, draft, edit, staged, voice, encrypted, capture, shown, rows,
                    sent, links, presses, orphans, unstaged>>
    BY <1>9, Zenon DEF CO!Unheard, CO!view, CO!composer
  <2>2. tasks' \subseteq tasks /\ dropped' \in BOOLEAN
    BY <1>9 DEF CO!Unheard
  <2> QED
    BY <1>0, <2>1, <2>2, PlainKeeps DEF Flags, Counts, Recorder, CO!CaptureBound, Silent
<1> QED
  BY <1>1, <1>2, <1>3, <1>4, <1>5, <1>6, <1>7, <1>8, <1>9, Zenon DEF CO!Task

LEMMA LinkKeeps ==
  ASSUME ComposerInv, CO!OnLinkReceived PROVE ComposerInv'
<1>0. Flags /\ Counts /\ Recorder /\ NoText \in CO!Drafts /\ 0 \in 0..MaxStaged
  BY ComposerParts, Drafting, ComposerAssumption
<1>1. open' = TRUE /\ UNCHANGED <<visible, covered, capture, rows, sent, presses, orphans, unstaged, dropped>>
  BY Zenon DEF CO!OnLinkReceived
<1>2. links < MaxLinks /\ links' = links + 1 /\ tasks' = tasks \cup {<<"preview", MaxTexts + links + 1>>}
  BY Zenon DEF CO!OnLinkReceived
<1>3. links' \in 0..MaxLinks /\ MaxTexts + links + 1 \in 1..(MaxTexts + MaxLinks)
  BY <1>0, <1>2, ComposerAssumption DEF Counts
<1>4. tasks' \subseteq tasks \cup Plain
  BY <1>2, <1>3 DEF Plain
<1>5. \/ open /\ UNCHANGED <<draft, edit, staged, voice, encrypted, shown>>
      \/ ~open /\ CO!NewView
  BY Zenon DEF CO!OnLinkReceived, CO!composer
<1> QED
  BY <1>0, <1>1, <1>3, <1>4, <1>5, ViewReset, PlainKeeps
     DEF Flags, Counts, Recorder, CO!CaptureBound, Silent, CO!Voices

LEMMA ComposerStep == ASSUME ComposerInv, CO!Next PROVE ComposerInv'
<1>1. CASE CO!PressSend
  <2>1. presses' \in 0..MaxPresses
    BY <1>1, ComposerAssumption DEF CO!PressSend, ComposerInv, CO!TypeOK
  <2>2. tasks \subseteq tasks /\ CO!HandleSend(tasks)
    BY <1>1, Zenon DEF CO!PressSend
  <2> QED
    BY <2>1, <2>2, SendKeeps
<1> QED
  BY <1>1, UserKeeps, TaskKeeps, LinkKeeps, Zenon DEF CO!Next

LEMMA ComposerStutter == ASSUME ComposerInv, UNCHANGED CO!composerVars PROVE ComposerInv'
<1>1. UNCHANGED <<open, visible, covered, draft, edit, staged, voice, encrypted, capture, shown,
          rows, tasks, sent, links, presses, orphans, unstaged, dropped>>
  BY DEF CO!composerVars
<1> QED
  BY <1>1, Zenon DEF ComposerInv, CO!TypeOK, Sources, Silent, CO!CaptureBound

LEMMA ComposerTyped == ComposerInv => CO!TypeOK
  BY DEF ComposerInv

LEMMA ComposerHeld == ComposerInv => CO!CaptureBound /\ CO!ShownIsSent
  BY Zenon DEF ComposerInv, Sources, Covers, CO!ShownIsSent

-----------------------------------------------------------------------------
(* The composite: a step is one of the component that runs, and each of the *)
(* inductive invariants holds, whichever component that is.                *)

LEMMA AlwaysStream == AllSpec => []StreamInv
<1>1. AllInit => StreamInv
  BY StreamInit, Zenon DEF AllInit
<1>2. StreamInv /\ [AllNext]_allVars => StreamInv'
  <2> SUFFICES ASSUME StreamInv, [AllNext]_allVars PROVE StreamInv'
    OBVIOUS
  <2>1. CASE Next
    BY <2>1, StreamStep, Zenon
  <2>2. CASE UNCHANGED streamVars
    BY <2>2, StreamStutter
  <2> QED
    BY <2>1, <2>2, Zenon DEF AllNext, allVars, InStream, InArchive, InComposer
<1> QED
  BY <1>1, <1>2, PTL DEF AllSpec

LEMMA AlwaysArchive == AllSpec => []ArchiveInv
<1>1. AllInit => ArchiveInv
  BY ArchiveInit, Zenon DEF AllInit
<1>2. ArchiveInv /\ [AllNext]_allVars => ArchiveInv'
  <2> SUFFICES ASSUME ArchiveInv, [AllNext]_allVars PROVE ArchiveInv'
    OBVIOUS
  <2>1. CASE AR!Next
    BY <2>1, ArchiveStep, Zenon
  <2>2. CASE UNCHANGED archived
    BY <2>2, ArchiveStutter DEF archived, AR!archiveVars
  <2> QED
    BY <2>1, <2>2, Zenon DEF AllNext, allVars, InStream, InArchive, InComposer
<1> QED
  BY <1>1, <1>2, PTL DEF AllSpec

LEMMA AlwaysComposer == AllSpec => []ComposerInv
<1>1. AllInit => ComposerInv
  BY ComposerInit, Zenon DEF AllInit
<1>2. ComposerInv /\ [AllNext]_allVars => ComposerInv'
  <2> SUFFICES ASSUME ComposerInv, [AllNext]_allVars PROVE ComposerInv'
    OBVIOUS
  <2>1. CASE CO!Next
    BY <2>1, ComposerStep, Zenon
  <2>2. CASE UNCHANGED composed
    BY <2>2, ComposerStutter DEF composed, CO!composerVars
  <2> QED
    BY <2>1, <2>2, Zenon DEF AllNext, allVars, InStream, InArchive, InComposer
<1> QED
  BY <1>1, <1>2, PTL DEF AllSpec

-----------------------------------------------------------------------------
(* The theorems.                                                             *)

\* Every variable of the three keeps its type: in particular the indices of the
\* syncs hold only conversations and the queries that were drawn for them
\* (sync.rs, start_sync), and a conversation that is shown is open (mod.rs).
THEOREM MessagesTypeCorrect == AllSpec => []AllTypesOK
<1>1. StreamInv /\ ArchiveInv /\ ComposerInv => AllTypesOK
  BY StreamTyped, ArchiveTyped, ComposerTyped, Zenon DEF AllTypesOK
<1> QED
  BY <1>1, AlwaysStream, AlwaysArchive, AlwaysComposer, PTL

\* A stanza the server has not acknowledged is kept, for any width of the counters
\* and however often they wrap (stream_mgmt.rs, on_ack_received).
THEOREM Kept == AllSpec => []KeptUntilAcked
  BY StreamHeld, AlwaysStream, PTL

\* When the catch-up is reported as finished, every text of the page that it asked
\* for was handed on, whichever queries of syncs ran beside it, unless the device
\* could not tell their results apart (mam.rs, on_fin_iq; catchup.rs, on_fin).
THEOREM CaughtUpBringsAll == AllSpec => []CaughtUp
<1>1. ArchiveInv => CaughtUp
  BY ArchiveHeld, Zenon DEF CaughtUp
<1> QED
  BY <1>1, AlwaysArchive, PTL

\* A sync that says it is complete has no query under way, unless a conversation
\* was synced again before its answer came (sync.rs, on_fin and is_complete).
THEOREM CompleteIsFetched == AllSpec => []CompleteMeansFetched
<1>1. ArchiveInv => CompleteMeansFetched
  BY ArchiveHeld, Zenon DEF CompleteMeansFetched
<1> QED
  BY <1>1, AlwaysArchive, PTL

\* The microphone is recorded only while the view shows the recorder, but by the
\* threads of recordings whose handle was dropped (update.rs, StopRecording,
\* CancelRecording and VoiceEncodingDone).
THEOREM CaptureIsBounded == AllSpec => []CaptureBound
<1>1. ComposerInv => CaptureBound
  BY ComposerHeld, Zenon DEF CaptureBound
<1> QED
  BY <1>1, AlwaysComposer, PTL

\* An own message on the screen, or in the database, is one the engine was given:
\* whatever is sent while a history is read, stored or loaded, and whichever task
\* ends with a Send of its own (chat.rs, handle_send; mod.rs, Message::Chat).
THEOREM ShownWasSent == AllSpec => []ShownIsSent
<1>1. ComposerInv => ShownIsSent
  BY ComposerHeld, Zenon DEF ShownIsSent
<1> QED
  BY <1>1, AlwaysComposer, PTL
=============================================================================
