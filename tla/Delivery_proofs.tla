---------------------------- MODULE Delivery_proofs ----------------------------
(***************************************************************************)
(* The cache of message identifiers, for any limit and any messages: its   *)
(* two halves agree, it keeps within its limit, and it never costs the     *)
(* session a message.                                                      *)
(***************************************************************************)
EXTENDS Delivery, TLAPS

USE DeliveryAssumption

ShapeOK ==
  /\ wire \in Seq([path : Paths, msg : Msgs])
  /\ archive \in Seq(Msgs) /\ room \in Seq(Msgs)
  /\ order \in Seq(Ids) /\ Len(order) <= Limit
  /\ told \in [Msgs -> Nat]
  /\ log \in Seq(Ids)
  /\ taken \subseteq Msgs

\* Every identifier of the cache is that of a message the UI was told of,
\* or one the engine made up for a message that is behind it.
SeenWasTold ==
  \A k \in seen :
    \/ k[1] = "fresh" /\ k[2] < Len(log)
    \/ k[1] \in {"id", "archive"} /\ \E m \in Msgs : m.n = k[2] /\ told[m] > 0

IInv == ShapeOK /\ CacheAgrees /\ SeenWasTold /\ NothingSwallowed

-----------------------------------------------------------------------------
(* Sequences *)

\* A queue without its head has lost nothing else, and its elements move up.
LEMMA TailFacts ==
  ASSUME NEW S, NEW s \in Seq(S), s # <<>>
  PROVE  /\ Tail(s) \in Seq(S) /\ Len(Tail(s)) = Len(s) - 1
         /\ Head(s) \in S /\ Head(s) = s[1]
         /\ \A i \in 1..(Len(s) - 1) : Tail(s)[i] = s[i + 1]
OBVIOUS

\* Where a new element goes, and that nothing else moves.
LEMMA AppendFacts ==
  ASSUME NEW S, NEW s \in Seq(S), NEW e \in S
  PROVE  /\ Append(s, e) \in Seq(S) /\ Len(Append(s, e)) = Len(s) + 1
         /\ Append(s, e)[Len(s) + 1] = e
         /\ \A i \in 1..Len(s) : Append(s, e)[i] = s[i]
OBVIOUS

\* A queue holds no element twice.
Once(s) == \A i, j \in DOMAIN s : s[i] = s[j] => i = j

\* What is forgotten of the queue is what the set forgets.
LEMMA EvictFacts ==
  ASSUME order \in Seq(Ids), Len(order) <= Limit, Once(order)
  PROVE  /\ Evict \in Seq(Ids) /\ Len(Evict) < Limit /\ Once(Evict)
         /\ Range(Evict) = Range(order) \ Forgotten
<1>1. CASE Len(order) < Limit
  <2>1. Evict = order /\ Forgotten = {}
    BY <1>1 DEF Evict, Forgotten
  <2> QED BY <1>1, <2>1
<1>2. CASE Len(order) = Limit
  <2>0. order # <<>> /\ Len(order) \in Nat /\ Limit \in Nat /\ DOMAIN order = 1..Len(order)
    BY <1>2
  <2>1. Evict = Tail(order) /\ Forgotten = {Head(order)}
    BY <1>2, <2>0 DEF Evict, Forgotten
  <2>2. /\ Tail(order) \in Seq(Ids) /\ Len(Tail(order)) = Len(order) - 1
        /\ Head(order) = order[1]
        /\ \A i \in 1..(Len(order) - 1) : Tail(order)[i] = order[i + 1]
    BY <2>0, TailFacts
  <2>3. DOMAIN Tail(order) = 1..(Len(order) - 1)
    BY <2>2
  <2>4. Once(Tail(order))
    BY <2>0, <2>2, <2>3 DEF Once
  <2>5. \A x : x \in Range(Tail(order)) => x \in Range(order) \ {Head(order)}
    <3> SUFFICES ASSUME NEW i \in 1..(Len(order) - 1)
                 PROVE  /\ Tail(order)[i] \in Range(order)
                        /\ Tail(order)[i] # Head(order)
      BY <2>3 DEF Range
    <3>1. i + 1 \in DOMAIN order /\ 1 \in DOMAIN order /\ i + 1 # 1
      BY <2>0
    <3>2. Tail(order)[i] = order[i + 1]
      BY <2>2
    <3> QED BY <3>1, <3>2, <2>2 DEF Once, Range
  <2>6. \A x : x \in Range(order) \ {Head(order)} => x \in Range(Tail(order))
    <3> SUFFICES ASSUME NEW i \in DOMAIN order, order[i] # Head(order)
                 PROVE  order[i] \in Range(Tail(order))
      BY DEF Range
    <3>1. i - 1 \in 1..(Len(order) - 1)
      BY <2>0, <2>2
    <3>2. Tail(order)[i - 1] = order[i]
      BY <2>0, <2>2, <3>1
    <3> QED BY <2>3, <3>1, <3>2 DEF Range
  <2>7. Range(Tail(order)) = Range(order) \ {Head(order)}
    BY <2>5, <2>6
  <2> QED BY <1>2, <2>0, <2>1, <2>2, <2>4, <2>7
<1> QED BY <1>1, <1>2

\* Remembering an identifier keeps the two halves together and within the
\* limit.
LEMMA RememberFacts ==
  ASSUME ShapeOK, CacheAgrees, NEW k \in Ids, k \notin seen, Remember(k)
  PROVE  /\ order' \in Seq(Ids) /\ Len(order') <= Limit
         /\ CacheAgrees'
         /\ seen' \subseteq seen \cup {k}
         /\ NoId \in seen' => NoId \in seen
<1>1. CASE k = NoId
  BY <1>1 DEF Remember, ShapeOK, CacheAgrees, Range
<1>2. CASE k # NoId
  <2>1. seen' = (seen \ Forgotten) \cup {k} /\ order' = Append(Evict, k)
    BY <1>2 DEF Remember
  <2>2. Once(order) /\ seen = Range(order)
    BY DEF CacheAgrees, Once
  <2>3. /\ Evict \in Seq(Ids) /\ Len(Evict) < Limit /\ Once(Evict)
        /\ Range(Evict) = Range(order) \ Forgotten
    BY <2>2, EvictFacts DEF ShapeOK
  <2> DEFINE q == Evict
  <2>4. /\ Append(q, k) \in Seq(Ids) /\ Len(Append(q, k)) = Len(q) + 1
        /\ Append(q, k)[Len(q) + 1] = k
        /\ \A i \in 1..Len(q) : Append(q, k)[i] = q[i]
    BY <2>3, AppendFacts
  <2>5. DOMAIN q = 1..Len(q) /\ Len(q) \in Nat
        /\ DOMAIN Append(q, k) = 1..(Len(q) + 1)
    BY <2>3, <2>4
  <2>6. k \notin Range(q)
    BY <2>2, <2>3
  <2> HIDE DEF q
  <2>7. Range(Append(q, k)) = Range(q) \cup {k}
    <3>1. \A x \in Range(Append(q, k)) : x \in Range(q) \cup {k}
      BY <2>4, <2>5 DEF Range
    <3>2. \A x \in Range(q) : x \in Range(Append(q, k))
      BY <2>4, <2>5 DEF Range
    <3>3. k \in Range(Append(q, k))
      BY <2>4, <2>5 DEF Range
    <3> QED BY <3>1, <3>2, <3>3
  <2>8. Once(Append(q, k))
    <3> SUFFICES ASSUME NEW i \in 1..(Len(q) + 1), NEW j \in 1..(Len(q) + 1),
                        Append(q, k)[i] = Append(q, k)[j]
                 PROVE  i = j
      BY <2>5 DEF Once
    <3>1. \A a \in 1..Len(q) : q[a] # k
      BY <2>5, <2>6 DEF Range
    <3>2. Once(q)
      BY <2>3 DEF q
    <3> QED BY <2>4, <2>5, <3>1, <3>2 DEF Once
  <2>9. seen' = Range(order')
    BY <2>1, <2>2, <2>3, <2>7 DEF q
  <2>10. order' = Append(q, k)
    BY <2>1 DEF q
  <2>11. CacheAgrees'
    BY <2>8, <2>9, <2>10 DEF CacheAgrees, Once
  <2>12. Len(order') <= Limit /\ order' \in Seq(Ids)
    BY <2>3, <2>4, <2>5, <2>10 DEF q
  <2> QED BY <1>2, <2>1, <2>11, <2>12
<1> QED BY <1>1, <1>2

-----------------------------------------------------------------------------
(* Dispatch *)

\* An identifier of the right kind is that of one message only.
LEMMA IdFacts ==
  ASSUME NEW c \in [path : Paths, msg : Msgs], log \in Seq(Ids)
  PROVE  /\ c.msg \in Msgs /\ IdOf(c) \in Ids
         /\ \/ IdOf(c) = NoId
            \/ IdOf(c)[1] = "fresh" /\ IdOf(c)[2] = Len(log)
            \/ IdOf(c)[1] \in {"id", "archive"} /\ IdOf(c)[2] = c.msg.n
<1>1. c.msg \in Msgs /\ c.msg.n \in Nat /\ Len(log) \in Nat
  OBVIOUS
<1>2. CASE c.path = "mam"
  <2>1. IdOf(c) = <<"archive", c.msg.n>>
    BY <1>2 DEF IdOf
  <2> QED BY <1>1, <2>1 DEF Ids
<1>3. CASE c.path # "mam" /\ c.msg.named
  <2>1. IdOf(c) = <<"id", c.msg.n>>
    BY <1>3 DEF IdOf
  <2> QED BY <1>1, <2>1 DEF Ids
<1>4. CASE c.path = "muc" /\ ~c.msg.named
  <2>1. IdOf(c) = <<"fresh", Len(log)>>
    BY <1>4 DEF IdOf
  <2> QED BY <1>1, <2>1 DEF Ids
<1>5. CASE c.path # "mam" /\ ~c.msg.named /\ c.path # "muc"
  <2>1. IdOf(c) = NoId
    BY <1>5 DEF IdOf
  <2> QED BY <1>1, <2>1 DEF Ids
<1> QED BY <1>2, <1>3, <1>4, <1>5

\* The UI was told of the message of a copy before or when it was taken.
LEMMA DispatchKeeps ==
  ASSUME IInv, Dispatch
  PROVE  IInv'
<1> DEFINE c == Head(wire)
           k == IdOf(c)
<1>0. wire # <<>> /\ wire' = Tail(wire) /\ taken' = taken \cup {c.msg}
      /\ archive' = archive /\ room' = room
  BY DEF Dispatch, said
<1>1. wire' \in Seq([path : Paths, msg : Msgs])
      /\ c \in [path : Paths, msg : Msgs]
  BY <1>0, TailFacts DEF IInv, ShapeOK
<1>2. /\ c.msg \in Msgs /\ k \in Ids
      /\ \/ k = NoId
         \/ k[1] = "fresh" /\ k[2] = Len(log)
         \/ k[1] \in {"id", "archive"} /\ k[2] = c.msg.n
  BY <1>1, IdFacts DEF IInv, ShapeOK
<1>3. NoId \notin seen
  BY DEF IInv, SeenWasTold, NoId
<1>4. Len(log) \in Nat
  BY DEF IInv, ShapeOK
<1> HIDE DEF k
<1>5. CASE Cached(c) /\ k \in seen /\ UNCHANGED <<seen, order, log, told, rows>>
  <2>1. told[c.msg] > 0
    <3>1. ~(k[1] = "fresh" /\ k[2] < Len(log))
      BY <1>2, <1>3, <1>4, <1>5
    <3>2. PICK m \in Msgs : m.n = k[2] /\ told[m] > 0
      BY <1>5, <3>1 DEF IInv, SeenWasTold
    <3>3. k[2] = c.msg.n
      BY <1>2, <1>3, <1>5, <3>1, <3>2 DEF IInv, SeenWasTold
    <3>4. m = c.msg
      BY <1>2, <3>2, <3>3
    <3> QED BY <3>2, <3>4
  <2>2. ShapeOK'
    BY <1>0, <1>1, <1>2, <1>5 DEF IInv, ShapeOK
  <2>3. CacheAgrees' /\ SeenWasTold'
    BY <1>5 DEF IInv, CacheAgrees, SeenWasTold, Range
  <2>4. NothingSwallowed'
    BY <1>0, <1>5, <2>1 DEF IInv, NothingSwallowed
  <2> QED BY <2>2, <2>3, <2>4 DEF IInv
<1>6. ASSUME told' = [told EXCEPT ![c.msg] = @ + 1]
      PROVE  /\ told' \in [Msgs -> Nat] /\ told'[c.msg] > 0
             /\ \A m \in Msgs : told[m] > 0 => told'[m] > 0
             /\ NothingSwallowed'
  <2>1. /\ told' \in [Msgs -> Nat] /\ told'[c.msg] > 0
        /\ \A m \in Msgs : told[m] > 0 => told'[m] > 0
    BY <1>2, <1>6 DEF IInv, ShapeOK
  <2> QED BY <1>0, <2>1 DEF IInv, NothingSwallowed, ShapeOK
<1>7. CASE ~Cached(c) /\ Emit(k, c.msg) /\ UNCHANGED <<seen, order, log>>
  <2>1. /\ told' \in [Msgs -> Nat] /\ NothingSwallowed'
        /\ \A m \in Msgs : told[m] > 0 => told'[m] > 0
    BY <1>6, <1>7 DEF Emit, Tell
  <2>2. ShapeOK'
    BY <1>0, <1>1, <1>2, <1>7, <2>1 DEF IInv, ShapeOK
  <2>3. CacheAgrees'
    BY <1>7 DEF IInv, CacheAgrees, Range
  <2>4. SeenWasTold'
    BY <1>7, <2>1 DEF IInv, SeenWasTold
  <2> QED BY <2>1, <2>2, <2>3, <2>4 DEF IInv
<1>8. CASE Cached(c) /\ k \notin seen /\ Remember(k) /\ Emit(k, c.msg)
           /\ log' = Append(log, k)
  <2>1. /\ told' \in [Msgs -> Nat] /\ told'[c.msg] > 0 /\ NothingSwallowed'
        /\ \A m \in Msgs : told[m] > 0 => told'[m] > 0
    BY <1>6, <1>8 DEF Emit, Tell
  <2>2. log' \in Seq(Ids) /\ Len(log') = Len(log) + 1
    BY <1>2, <1>8, AppendFacts DEF IInv, ShapeOK
  <2>3. /\ order' \in Seq(Ids) /\ Len(order') <= Limit
        /\ CacheAgrees'
        /\ seen' \subseteq seen \cup {k}
        /\ NoId \notin seen'
    BY <1>2, <1>3, <1>8, RememberFacts DEF IInv
  <2>4. ShapeOK'
    BY <1>0, <1>1, <1>2, <2>1, <2>2, <2>3 DEF IInv, ShapeOK
  <2>5. SeenWasTold'
    <3> SUFFICES ASSUME NEW x \in seen'
                 PROVE  \/ x[1] = "fresh" /\ x[2] < Len(log')
                        \/ /\ x[1] \in {"id", "archive"}
                           /\ \E m \in Msgs : m.n = x[2] /\ told'[m] > 0
      BY DEF SeenWasTold
    <3>1. CASE x = k
      BY <1>2, <1>4, <2>1, <2>2, <2>3, <3>1
    <3>2. CASE x # k
      <4>1. x \in seen
        BY <2>3, <3>2
      <4>2. CASE x[1] = "fresh" /\ x[2] < Len(log)
        <5>1. x[2] \in Nat
          BY <4>1, <4>2 DEF IInv, ShapeOK, CacheAgrees, Range, Ids, NoId
        <5> QED BY <1>4, <2>2, <4>2, <5>1
      <4>3. CASE x[1] \in {"id", "archive"} /\ \E m \in Msgs : m.n = x[2] /\ told[m] > 0
        BY <2>1, <4>3
      <4> QED BY <4>1, <4>2, <4>3 DEF IInv, SeenWasTold
    <3> QED BY <3>1, <3>2
  <2> QED BY <2>1, <2>3, <2>4, <2>5 DEF IInv
<1> QED BY <1>5, <1>7, <1>8 DEF Dispatch, k

-----------------------------------------------------------------------------
(* The other steps *)

\* A step that leaves the session's cache and screen alone.
LEMMA Elsewhere ==
  ASSUME IInv, UNCHANGED <<seen, order, told, log, taken>>,
         wire' \in Seq([path : Paths, msg : Msgs]),
         archive' \in Seq(Msgs), room' \in Seq(Msgs)
  PROVE  IInv'
BY DEF IInv, ShapeOK, CacheAgrees, SeenWasTold, NothingSwallowed, Range

\* A function on an initial segment of the numbers is a sequence.
LEMMA FcnSeq ==
  ASSUME NEW S, NEW n \in Nat, NEW f \in [1..n -> S]
  PROVE  f \in Seq(S)
OBVIOUS

\* Copies of a sequence of messages are a sequence of copies.
LEMMA CopiesFacts ==
  ASSUME NEW s \in Seq(Msgs), NEW p \in Paths, NEW w \in Seq([path : Paths, msg : Msgs])
  PROVE  w \o CopiesOf(s, p) \in Seq([path : Paths, msg : Msgs])
<1> DEFINE C == [path : Paths, msg : Msgs]
<1>1. Len(s) \in Nat /\ DOMAIN s = 1..Len(s)
  OBVIOUS
<1>2. \A i \in 1..Len(s) : Copy(p, s[i]) \in C
  BY DEF Copy
<1>3. CopiesOf(s, p) = [i \in 1..Len(s) |-> Copy(p, s[i])]
  BY <1>1 DEF CopiesOf
<1>4. CopiesOf(s, p) \in [1..Len(s) -> C]
  BY <1>2, <1>3, Zenon
<1> HIDE DEF C
<1>5. CopiesOf(s, p) \in Seq(C)
  BY <1>1, <1>4, FcnSeq
<1>6. w \o CopiesOf(s, p) \in Seq(C)
  BY <1>5 DEF C
<1> QED BY <1>6 DEF C

\* What the server does puts copies on the wire and changes nothing else.
LEMMA ServerKeeps ==
  ASSUME IInv, (\E m \in Msgs : Send(m)) \/ AnswerCatchup \/ AnswerJoin
  PROVE  IInv'
<1>0. /\ archive \in Seq(Msgs) /\ room \in Seq(Msgs)
      /\ wire \in Seq([path : Paths, msg : Msgs])
  BY DEF IInv, ShapeOK
<1>1. ASSUME NEW m \in Msgs, Send(m) PROVE IInv'
  <2>1. archive' \in Seq(Msgs) /\ room' \in Seq(Msgs)
    BY <1>0, <1>1 DEF Send
  <2>2. LivePaths(m) \subseteq Paths
    <3>1. m.kind \in Kinds
      OBVIOUS
    <3> QED BY <3>1 DEF LivePaths, Paths, Kinds
  <2>3. wire' \in Seq([path : Paths, msg : Msgs])
    <3>1. CASE online /\ LivePaths(m) # {}
      <4>1. PICK p \in LivePaths(m) : wire' = Append(wire, Copy(p, m))
        BY <1>1, <3>1 DEF Send
      <4>2. Copy(p, m) \in [path : Paths, msg : Msgs]
        BY <2>2 DEF Copy
      <4> QED BY <1>0, <4>1, <4>2
    <3>2. CASE ~(online /\ LivePaths(m) # {})
      BY <1>0, <1>1, <3>2 DEF Send
    <3> QED BY <3>1, <3>2
  <2> QED BY <1>1, <2>1, <2>3, Elsewhere DEF Send
<1>2. ASSUME AnswerCatchup PROVE IInv'
  <2>1. SubSeq(archive, 1, Smaller(Page, Len(archive))) \in Seq(Msgs)
    BY <1>0 DEF Smaller
  <2>2. "mam" \in Paths
    BY DEF Paths
  <2>3. wire' \in Seq([path : Paths, msg : Msgs])
    BY <1>0, <1>2, <2>1, <2>2, CopiesFacts DEF AnswerCatchup
  <2> QED BY <1>0, <1>2, <2>3, Elsewhere DEF AnswerCatchup, said
<1>3. ASSUME AnswerJoin PROVE IInv'
  <2>1. "muc" \in Paths
    BY DEF Paths
  <2>2. wire' \in Seq([path : Paths, msg : Msgs])
    BY <1>0, <1>3, <2>1, CopiesFacts DEF AnswerJoin
  <2> QED BY <1>0, <1>3, <2>2, Elsewhere DEF AnswerJoin, said
<1> QED BY <1>1, <1>2, <1>3

\* A new session has an empty cache and an empty screen.
LEMMA GoOnlineKeeps ==
  ASSUME IInv, GoOnline
  PROVE  IInv'
<1>1. seen' = {} /\ order' = <<>> /\ log' = <<>> /\ taken' = {} /\ wire' = <<>>
      /\ archive' = archive /\ room' = room /\ told' \in [Msgs -> Nat]
  BY DEF GoOnline, said
<1>2. ShapeOK'
  BY <1>1 DEF IInv, ShapeOK
<1>3. CacheAgrees' /\ SeenWasTold' /\ NothingSwallowed'
  BY <1>1 DEF CacheAgrees, SeenWasTold, NothingSwallowed, Range
<1> QED BY <1>2, <1>3 DEF IInv

\* The inductive invariant holds in every state.
LEMMA Inductive == Spec => []IInv
<1>1. Init => IInv
  <2> SUFFICES ASSUME Init PROVE IInv
    OBVIOUS
  <2>1. ShapeOK
    BY DEF Init, ShapeOK
  <2>2. CacheAgrees /\ SeenWasTold /\ NothingSwallowed
    BY DEF Init, CacheAgrees, SeenWasTold, NothingSwallowed, Range
  <2> QED BY <2>1, <2>2 DEF IInv
<1>2. IInv /\ [Next]_vars => IInv'
  <2> SUFFICES ASSUME IInv, [Next]_vars PROVE IInv'
    OBVIOUS
  <2>0. /\ archive \in Seq(Msgs) /\ room \in Seq(Msgs)
        /\ wire \in Seq([path : Paths, msg : Msgs])
        /\ <<>> \in Seq([path : Paths, msg : Msgs])
    BY DEF IInv, ShapeOK
  <2>1. CASE (\E m \in Msgs : Send(m)) \/ AnswerCatchup \/ AnswerJoin
    BY <2>1, ServerKeeps
  <2>2. CASE GoOnline
    BY <2>2, GoOnlineKeeps
  <2>3. CASE GoOffline
    BY <2>0, <2>3, Elsewhere DEF GoOffline, said
  <2>4. CASE JoinRoom
    BY <2>0, <2>4, Elsewhere DEF JoinRoom, said
  <2>5. CASE Dispatch
    BY <2>5, DispatchKeeps
  <2>6. CASE UNCHANGED vars
    BY <2>0, <2>6, Elsewhere DEF vars
  <2> QED BY <2>1, <2>2, <2>3, <2>4, <2>5, <2>6 DEF Next
<1> QED BY <1>1, <1>2, PTL DEF Spec

-----------------------------------------------------------------------------
\* The set and the queue of the cache agree, and hold no identifier twice.
THEOREM CacheCorrect == Spec => []CacheAgrees
<1>1. IInv => CacheAgrees
  BY DEF IInv
<1> QED BY <1>1, Inductive, PTL

\* No message is lost to the cache: a copy is only suppressed when its message has
\* reached the UI.
THEOREM CacheSwallowsNothing == Spec => []NothingSwallowed
<1>1. IInv => NothingSwallowed
  BY DEF IInv
<1> QED BY <1>1, Inductive, PTL
-----------------------------------------------------------------------------
(* The window *)

\* The queue holds the youngest identifiers: what stands before q others in it
\* passed at least q passages ago.
Recent ==
  \A p \in DOMAIN order, i \in DOMAIN log :
    log[i] = order[p] => Len(log) - i >= Len(order) - p

\* What the cache forgot passed at least Limit passages ago.
Gone ==
  \A i \in DOMAIN log :
    log[i] # NoId => log[i] \in seen \/ Len(log) - i >= Limit

Window == Recent /\ Gone /\ WindowRespected

\* Where an element of the queue stood before an identifier was remembered.
LEMMA RememberedAt ==
  ASSUME ShapeOK, CacheAgrees, NEW k \in Ids, k # NoId, Remember(k)
  PROVE  /\ Len(order') \in Nat /\ Len(order') = Len(Evict) + 1
         /\ \A p \in DOMAIN order' :
              \/ p = Len(order')
              \/ \E q \in DOMAIN order :
                   order'[p] = order[q] /\ Len(order') - p = Len(order) - q + 1
         /\ \A x \in seen : \/ x \in seen'
                            \/ \E q \in DOMAIN order : /\ x = order[q]
                                                       /\ Len(order) - q = Limit - 1
<1>1. seen' = (seen \ Forgotten) \cup {k} /\ order' = Append(Evict, k)
  BY DEF Remember
<1>2. /\ order \in Seq(Ids) /\ Len(order) <= Limit /\ Len(order) \in Nat
      /\ Limit \in Nat /\ Limit > 0 /\ DOMAIN order = 1..Len(order)
  BY DEF ShapeOK
<1>3. CASE Len(order) < Limit
  <2>1. Evict = order /\ Forgotten = {}
    <3>1. ~(Len(order) >= Limit)
      BY <1>2, <1>3
    <3> QED BY <3>1, Zenon DEF Evict, Forgotten
  <2>2. \A i \in 1..Len(order) : order'[i] = order[i]
    BY <1>1, <1>2, <2>1, AppendFacts
  <2>3. Len(order') = Len(order) + 1 /\ DOMAIN order' = 1..(Len(order) + 1)
    BY <1>1, <1>2, <2>1
  <2>4. ASSUME NEW p \in DOMAIN order', p # Len(order')
        PROVE  \E q \in DOMAIN order :
                 order'[p] = order[q] /\ Len(order') - p = Len(order) - q + 1
    <3>1. p \in DOMAIN order /\ order'[p] = order[p] /\ Len(order') - p = Len(order) - p + 1
      BY <1>2, <2>2, <2>3, <2>4
    <3> QED BY <3>1
  <2> QED BY <1>1, <1>2, <2>1, <2>3, <2>4
<1>4. CASE Len(order) = Limit
  <2>0. order # <<>>
    BY <1>2, <1>4
  <2>1. Evict = Tail(order) /\ Forgotten = {order[1]}
    BY <1>2, <1>4, <2>0, TailFacts DEF Evict, Forgotten
  <2>2. /\ Tail(order) \in Seq(Ids) /\ Len(Tail(order)) = Len(order) - 1
        /\ \A i \in 1..(Len(order) - 1) : Tail(order)[i] = order[i + 1]
    BY <1>2, <2>0, TailFacts
  <2>3. \A i \in 1..(Len(order) - 1) : order'[i] = Tail(order)[i]
    BY <1>1, <1>2, <2>1, <2>2, AppendFacts
  <2>4. Len(order') = Len(order) /\ DOMAIN order' = 1..Len(order)
    BY <1>1, <1>2, <2>1, <2>2
  <2>5. ASSUME NEW p \in DOMAIN order', p # Len(order')
        PROVE  \E q \in DOMAIN order :
                 order'[p] = order[q] /\ Len(order') - p = Len(order) - q + 1
    <3>1. /\ p + 1 \in DOMAIN order /\ order'[p] = order[p + 1]
          /\ Len(order') - p = Len(order) - (p + 1) + 1
      BY <1>2, <2>2, <2>3, <2>4, <2>5
    <3> QED BY <3>1
  <2>6. 1 \in DOMAIN order /\ Len(order) - 1 = Limit - 1
    BY <1>2, <1>4
  <2>7. \A x \in seen : x \in seen' \/ x = order[1]
    BY <1>1, <2>1
  <2>8. Len(order') = Len(Evict) + 1 /\ Len(order') \in Nat
    BY <1>2, <2>1, <2>2, <2>4
  <2> QED BY <2>5, <2>6, <2>7, <2>8
<1>5. Len(order) < Limit \/ Len(order) = Limit
  <2>1. Len(order) \in Nat /\ Limit \in Nat /\ Len(order) <= Limit
    BY <1>2
  <2> QED BY ONLY <2>1, SMT
<1> QED BY <1>3, <1>4, <1>5

LEMMA WindowPasses ==
  ASSUME IInv, Window, NEW k \in Ids, k \notin seen, Remember(k), log' = Append(log, k)
  PROVE  Window'
<1>1. /\ ShapeOK /\ CacheAgrees /\ log \in Seq(Ids) /\ Len(log) \in Nat
      /\ DOMAIN log = 1..Len(log) /\ Limit \in Nat /\ Limit > 0
  BY DEF IInv, ShapeOK
<1>2. /\ Len(log') = Len(log) + 1 /\ DOMAIN log' = 1..(Len(log) + 1)
      /\ log'[Len(log) + 1] = k /\ \A i \in DOMAIN log : log'[i] = log[i]
  BY <1>1, AppendFacts
<1>3. WindowRespected'
  <2> SUFFICES ASSUME NEW i \in DOMAIN log', NEW j \in DOMAIN log',
                      i < j, log'[i] = log'[j], log'[i] # NoId
               PROVE  j - i > Limit
    BY DEF WindowRespected
  <2>1. i \in DOMAIN log /\ log'[i] = log[i]
    BY <1>1, <1>2
  <2>2. CASE j = Len(log) + 1
    <3>1. log[i] = k
      BY <1>2, <2>1, <2>2
    <3>2. Len(log) - i >= Limit
      BY <2>1, <3>1 DEF Window, Gone
    <3> QED BY <1>1, <2>1, <2>2, <3>2
  <2>3. CASE j \in DOMAIN log
    BY <1>2, <2>1, <2>3 DEF Window, WindowRespected
  <2> QED BY <1>1, <1>2, <2>2, <2>3
<1>4. CASE k = NoId
  <2>1. seen' = seen /\ order' = order
    BY <1>4 DEF Remember
  <2>2. \A p \in DOMAIN order : order[p] # k
    BY <1>1 DEF CacheAgrees, Range
  <2>3. Recent'
    <3> SUFFICES ASSUME NEW p \in DOMAIN order, NEW i \in DOMAIN log', log'[i] = order[p]
                 PROVE  Len(log') - i >= Len(order) - p
      BY <2>1 DEF Recent
    <3>1. i \in DOMAIN log /\ log[i] = order[p]
      BY <1>1, <1>2, <2>2
    <3>2. Len(log) - i >= Len(order) - p
      BY <3>1 DEF Window, Recent
    <3>3. Len(order) \in Nat /\ p \in Nat /\ i \in Nat
      BY <1>1, <3>1 DEF ShapeOK
    <3> QED BY <1>1, <1>2, <3>2, <3>3
  <2>4. Gone'
    <3> SUFFICES ASSUME NEW i \in DOMAIN log', log'[i] # NoId
                 PROVE  log'[i] \in seen \/ Len(log') - i >= Limit
      BY <2>1 DEF Gone
    <3>1. i \in DOMAIN log /\ log'[i] = log[i]
      BY <1>1, <1>2, <1>4
    <3>2. log[i] \in seen \/ Len(log) - i >= Limit
      BY <3>1 DEF Window, Gone
    <3> QED BY <1>1, <1>2, <3>1, <3>2
  <2> QED BY <1>3, <2>3, <2>4 DEF Window
<1>5. CASE k # NoId
  <2>1. /\ Len(order') \in Nat
        /\ \A p \in DOMAIN order' :
             \/ p = Len(order')
             \/ \E q \in DOMAIN order :
                  order'[p] = order[q] /\ Len(order') - p = Len(order) - q + 1
        /\ \A x \in seen : \/ x \in seen'
                           \/ \E q \in DOMAIN order : /\ x = order[q]
                                                      /\ Len(order) - q = Limit - 1
    BY <1>1, <1>5, RememberedAt
  <2>2. Len(order) \in Nat /\ DOMAIN order = 1..Len(order) /\ k \in seen'
    BY <1>1, <1>5 DEF ShapeOK, Remember
  <2>3. \A q \in DOMAIN order : order[q] # k
    BY <1>1 DEF CacheAgrees, Range
  <2>4. Recent'
    <3> SUFFICES ASSUME NEW p \in DOMAIN order', NEW i \in DOMAIN log',
                        log'[i] = order'[p]
                 PROVE  Len(log') - i >= Len(order') - p
      BY DEF Recent
    <3>1. i \in Nat /\ i <= Len(log')
      BY <1>1, <1>2
    <3>2. CASE p = Len(order')
      BY <1>1, <1>2, <2>1, <3>1, <3>2
    <3>3. ASSUME NEW q \in DOMAIN order, order'[p] = order[q],
                 Len(order') - p = Len(order) - q + 1
          PROVE  Len(log') - i >= Len(order') - p
      <4>1. i \in DOMAIN log /\ log[i] = order[q]
        BY <1>1, <1>2, <2>3, <3>3
      <4>2. Len(log) - i >= Len(order) - q
        BY <4>1 DEF Window, Recent
      <4>3. Len(log') - i >= Len(order) - q + 1
        BY <1>1, <1>2, <2>2, <3>1, <4>2
      <4> QED BY <3>3, <4>3
    <3> QED BY <2>1, <3>2, <3>3
  <2>5. Gone'
    <3> SUFFICES ASSUME NEW i \in DOMAIN log', log'[i] # NoId
                 PROVE  log'[i] \in seen' \/ Len(log') - i >= Limit
      BY DEF Gone
    <3>1. CASE i = Len(log) + 1
      BY <1>2, <2>2, <3>1
    <3>2. CASE i \in DOMAIN log
      <4>1. log'[i] = log[i] /\ i \in Nat
        BY <1>1, <1>2, <3>2
      <4>2. CASE Len(log) - i >= Limit
        BY <1>1, <1>2, <4>1, <4>2
      <4>3. CASE log[i] \in seen
        <5>1. ASSUME NEW q \in DOMAIN order, log[i] = order[q], Len(order) - q = Limit - 1
              PROVE  Len(log') - i >= Limit
          <6>1. Len(log) - i >= Len(order) - q
            BY <3>2, <5>1 DEF Window, Recent
          <6> QED BY <1>1, <1>2, <2>2, <4>1, <5>1, <6>1
        <5> QED BY <2>1, <4>1, <4>3, <5>1
      <4> QED BY <3>2, <4>1, <4>2, <4>3 DEF Window, Gone
    <3> QED BY <1>1, <1>2, <3>1, <3>2
  <2> QED BY <1>3, <2>4, <2>5 DEF Window
<1> QED BY <1>4, <1>5

\* Each step of the specification leaves the cache alone, empties it, or lets one
\* new identifier pass.
LEMMA CacheSteps ==
  ASSUME IInv, [Next]_vars
  PROVE  \/ UNCHANGED <<seen, order, log>>
         \/ order' = <<>> /\ log' = <<>>
         \/ \E k \in Ids : k \notin seen /\ Remember(k) /\ log' = Append(log, k)
<1>1. CASE Dispatch
  <2> DEFINE c == Head(wire)
             k == IdOf(c)
  <2>1. c \in [path : Paths, msg : Msgs] /\ log \in Seq(Ids)
    BY <1>1, TailFacts DEF Dispatch, IInv, ShapeOK
  <2>2. k \in Ids
    BY <2>1, IdFacts
  <2> HIDE DEF k
  <2>3. \/ UNCHANGED <<seen, order, log>>
        \/ k \notin seen /\ Remember(k) /\ log' = Append(log, k)
    BY <1>1 DEF Dispatch, k
  <2> QED BY <2>2, <2>3
<1>2. CASE GoOnline
  BY <1>2 DEF GoOnline
<1>3. CASE UNCHANGED <<seen, order, log>>
  BY <1>3
<1> QED BY <1>1, <1>2, <1>3 DEF Next, Send, AnswerCatchup, AnswerJoin, GoOffline,
           JoinRoom, vars

\* "We keep the last 500 message IDs": the cache lets an identifier pass again only
\* after more than Limit others.
THEOREM WindowIsKept == Spec => []WindowRespected
<1>1. Init => Window
  BY DEF Init, Window, Recent, Gone, WindowRespected
<1>2. IInv /\ Window /\ [Next]_vars => Window'
  <2> SUFFICES ASSUME IInv, Window, [Next]_vars PROVE Window'
    OBVIOUS
  <2>1. CASE UNCHANGED <<seen, order, log>>
    BY <2>1 DEF Window, Recent, Gone, WindowRespected
  <2>2. CASE order' = <<>> /\ log' = <<>>
    BY <2>2 DEF Window, Recent, Gone, WindowRespected
  <2>3. CASE \E k \in Ids : k \notin seen /\ Remember(k) /\ log' = Append(log, k)
    BY <2>3, WindowPasses
  <2> QED BY <2>1, <2>2, <2>3, CacheSteps
<1>3. Window => WindowRespected
  BY DEF Window
<1> QED BY <1>1, <1>2, <1>3, Inductive, PTL DEF Spec

-----------------------------------------------------------------------------
(* The table *)

OwnKey(k) == k[1] \in {"id", "archive"}

\* A row under a message's own key is that message, an identifier of the cache is
\* of a message the session took, and such a message is stored.
Stored ==
  /\ rows \subseteq [id : Ids, msg : Msgs]
  /\ \A r \in rows : OwnKey(r.id) => r.msg.n = r.id[2]
  /\ \A k \in seen : OwnKey(k) => \E m \in taken : m.n = k[2]
  /\ IdentifiedIsStored

LEMMA StoredDispatch ==
  ASSUME IInv, Stored, Dispatch
  PROVE  Stored'
<1> DEFINE c == Head(wire)
           k == IdOf(c)
<1>1. c \in [path : Paths, msg : Msgs] /\ log \in Seq(Ids) /\ taken \subseteq Msgs
  BY TailFacts DEF Dispatch, IInv, ShapeOK
<1>2. /\ c.msg \in Msgs /\ k \in Ids
      /\ OwnKey(k) => k[2] = c.msg.n
      /\ c.msg.named => OwnKey(k) /\ k # NoId
  <2>1. c.msg.named => k = <<"archive", c.msg.n>> \/ k = <<"id", c.msg.n>>
    BY DEF IdOf
  <2> HIDE DEF k
  <2>2. c.msg.named => OwnKey(k) /\ k # NoId
    BY <2>1 DEF OwnKey, NoId
  <2>3. /\ c.msg \in Msgs /\ k \in Ids
        /\ \/ k = NoId
           \/ k[1] = "fresh" /\ k[2] = Len(log)
           \/ k[1] \in {"id", "archive"} /\ k[2] = c.msg.n
    BY <1>1, IdFacts DEF k
  <2>4. OwnKey(k) => k[2] = c.msg.n
    BY <2>3 DEF OwnKey, NoId
  <2> QED BY <2>2, <2>3, <2>4
<1> HIDE DEF k
<1>3. taken' = taken \cup {c.msg}
  BY DEF Dispatch
<1>4. CASE k \in seen /\ UNCHANGED <<seen, rows>>
  <2>1. ASSUME c.msg.named PROVE c.msg \in taken
    <3>1. PICK m \in taken : m.n = k[2]
      BY <1>2, <1>4, <2>1 DEF Stored
    <3> QED BY <1>1, <1>2, <2>1, <3>1
  <2>2. IdentifiedIsStored'
    BY <1>3, <1>4, <2>1 DEF Stored, IdentifiedIsStored
  <2> QED BY <1>3, <1>4, <2>2 DEF Stored
<1>5. CASE Insert(k, c.msg) /\ seen' \subseteq seen \cup {k}
  <2> DEFINE r0 == [id |-> k, msg |-> c.msg]
  <2>1. rows \subseteq rows' /\ rows' \subseteq rows \cup {r0}
        /\ \E r \in rows' : r.id = k
    <3>1. r0.id = k
      OBVIOUS
    <3> HIDE DEF r0
    <3>2. \/ rows' = rows /\ (\E r \in rows : r.id = k)
          \/ rows' = rows \cup {r0}
      <4>1. rows' = IF \E r \in rows : r.id = k THEN rows ELSE rows \cup {r0}
        BY <1>5 DEF Insert, r0
      <4> QED BY <4>1, Zenon
    <3> QED BY <3>1, <3>2, Zenon
  <2>2. rows' \subseteq [id : Ids, msg : Msgs]
    BY <1>2, <2>1 DEF Stored
  <2>3. \A r \in rows' : OwnKey(r.id) => r.msg.n = r.id[2]
    BY <1>2, <2>1 DEF Stored
  <2>4. \A x \in seen' : OwnKey(x) => \E m \in taken' : m.n = x[2]
    BY <1>2, <1>3, <1>5 DEF Stored
  <2>5. ASSUME c.msg.named PROVE \E r \in rows' : r.msg = c.msg
    <3>1. PICK r \in rows' : r.id = k
      BY <2>1
    <3>2. r.msg.n = c.msg.n /\ r.msg \in Msgs
      BY <1>2, <2>2, <2>3, <2>5, <3>1
    <3> QED BY <1>2, <3>1, <3>2
  <2>6. IdentifiedIsStored'
    BY <1>3, <2>1, <2>5 DEF Stored, IdentifiedIsStored
  <2> QED BY <2>2, <2>3, <2>4, <2>6 DEF Stored
<1>6. k \notin seen /\ Remember(k) => seen' \subseteq seen \cup {k}
  BY DEF Remember
<1> QED BY <1>4, <1>5, <1>6 DEF Dispatch, Emit, k

\* What is stored stays stored, and what is cached was taken.
LEMMA AlwaysStored == Spec => []Stored
<1>1. Init => Stored
  BY DEF Init, Stored, IdentifiedIsStored
<1>2. IInv /\ Stored /\ [Next]_vars => Stored'
  <2> SUFFICES ASSUME IInv, Stored, [Next]_vars PROVE Stored'
    OBVIOUS
  <2>1. CASE Dispatch
    BY <2>1, StoredDispatch
  <2>2. CASE GoOnline
    BY <2>2 DEF GoOnline, Stored, IdentifiedIsStored
  <2>3. CASE UNCHANGED <<seen, taken, rows>>
    BY <2>3 DEF Stored, IdentifiedIsStored
  <2> QED BY <2>1, <2>2, <2>3 DEF Next, Send, AnswerCatchup, AnswerJoin, GoOffline,
             JoinRoom, vars
<1> QED BY <1>1, <1>2, Inductive, PTL DEF Spec

\* Each message with an id of its own of which the session took a copy is in the
\* table, whatever copies the cache suppressed and whatever keys the copies had.
THEOREM IdentifiedIsInTable == Spec => []IdentifiedIsStored
<1>1. Stored => IdentifiedIsStored
  BY DEF Stored
<1> QED BY <1>1, AlwaysStored, PTL

-----------------------------------------------------------------------------
(* The shape of the state *)

Rest ==
  /\ sent \subseteq Msgs /\ owed \subseteq {"catchup", "room"}
  /\ sessions \in Nat /\ joins \in Nat /\ online \in BOOLEAN

LEMMA RestStep == Rest /\ [Next]_vars => Rest'
<1> SUFFICES ASSUME Rest, [Next]_vars PROVE Rest'
  OBVIOUS
<1>1. sent' \subseteq Msgs /\ owed' \subseteq {"catchup", "room"} /\ online' \in BOOLEAN
  BY Zenon DEF Rest, Next, Send, AnswerCatchup, AnswerJoin, GoOnline, GoOffline, JoinRoom,
               Dispatch, vars, said
<1>2. \/ UNCHANGED <<sessions, joins>>
      \/ sessions' = sessions + 1 /\ joins' = 0
      \/ joins' = joins + 1 /\ UNCHANGED sessions
  BY Zenon DEF Next, Send, AnswerCatchup, AnswerJoin, GoOnline, GoOffline, JoinRoom,
               Dispatch, vars
<1>3. sessions' \in Nat /\ joins' \in Nat
  BY <1>2 DEF Rest
<1> QED BY <1>1, <1>3 DEF Rest

\* The state keeps its shape, and the cache its limit, for any messages and any
\* limit (is_new_msg_id).
THEOREM DeliveryTypeCorrect == Spec => []TypeOK
<1>1. Init => Rest
  <2>1. 0 \in Nat
    OBVIOUS
  <2> QED BY <2>1, Zenon DEF Init, Rest
<1>2. IInv /\ Stored /\ Rest => TypeOK
  <2> SUFFICES ASSUME IInv, Stored, Rest PROVE TypeOK
    OBVIOUS
  <2>1. seen \subseteq Ids
    BY DEF IInv, ShapeOK, CacheAgrees, Range
  <2> QED BY <2>1, Zenon DEF TypeOK, IInv, ShapeOK, Stored, Rest
<1> QED BY <1>1, <1>2, Inductive, AlwaysStored, RestStep, PTL DEF Spec
=============================================================================
