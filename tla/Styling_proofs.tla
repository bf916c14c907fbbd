--------------------------- MODULE Styling_proofs ---------------------------
(***************************************************************************)
(* For every body over every alphabet: nothing of it is lost or doubled    *)
(* when it is cut into spans, and the spans are whole.  The parser is made *)
(* of loops, so the lemmas are inductions: on the place the loop has       *)
(* reached and on the number of spans pushed.  The library's rule of       *)
(* induction takes a predicate; these take the set of the numbers at which *)
(* a statement holds, and look for the least one outside of it.            *)
(***************************************************************************)
EXTENDS Styling, Integers, SequenceTheorems, WellFoundedInduction, TLAPS

-----------------------------------------------------------------------------
(* Induction.                                                                *)

LEMMA LeastNumber ==
  ASSUME NEW S \in SUBSET Nat, S # {}
  PROVE  \E x \in S : \A y \in S : x <= y
<1> DEFINE R == {ss \in Nat \X Nat : ss[1] < ss[2]}
<1>1. IsWellFoundedOn(R, Nat)
  BY NatLessThanWellFounded DEF OpToRel
<1> HIDE DEF R
<1>2. PICK x \in S : \A y \in S : ~(<<y, x>> \in R)
  BY <1>1, WFMin
<1>3. \A y \in S : ~(y < x)
  BY <1>2 DEF R
<1> QED
  BY <1>3

LEMMA Induction ==
  ASSUME NEW S \in SUBSET Nat, 0 \in S, \A n \in S : n + 1 \in S
  PROVE  S = Nat
<1>1. SUFFICES ASSUME Nat \ S # {} PROVE FALSE
  OBVIOUS
<1>2. PICK x \in Nat \ S : \A y \in Nat \ S : x <= y
  BY <1>1, LeastNumber
<1>3. x - 1 \in Nat /\ ~(x <= x - 1)
  BY <1>2
<1> QED
  BY <1>2, <1>3

\* From the end of a text to its beginning.
LEMMA Downwards ==
  ASSUME NEW n \in Nat, NEW S \in SUBSET (1 .. n + 1),
         \A i \in 1 .. n + 1 : (\A j \in i + 1 .. n + 1 : j \in S) => i \in S
  PROVE  S = 1 .. n + 1
<1> DEFINE T == {k \in Nat : \A j \in 1 .. n + 1 : n + 1 - j <= k => j \in S}
<1>1. 0 \in T
  <2>1. n + 1 \in S
    OBVIOUS
  <2> QED
    BY <2>1
<1>2. ASSUME NEW k \in T PROVE k + 1 \in T
  <2>1. SUFFICES ASSUME NEW j \in 1 .. n + 1, n + 1 - j <= k + 1 PROVE j \in S
    OBVIOUS
  <2>2. \A i \in j + 1 .. n + 1 : i \in S
    BY <1>2, <2>1
  <2> QED
    BY <2>2
<1>3. T = Nat
  <2> HIDE DEF T
  <2>1. T \in SUBSET Nat
    BY DEF T
  <2> QED
    BY <1>1, <1>2, <2>1, Induction
<1>4. n + 1 \in T
  <2> HIDE DEF T
  <2> QED
    BY <1>3
<1>5. \A j \in 1 .. n + 1 : j \in S
  BY <1>4
<1> HIDE DEF T
<1> QED
  BY <1>5

LEMMA LeastIs ==
  ASSUME NEW S \in SUBSET Nat, S # {}
  PROVE  Least(S) \in S /\ \A y \in S : Least(S) <= y
BY LeastNumber DEF Least

-----------------------------------------------------------------------------
(* The loops of the parser.                                                  *)

\* The loop goes on to the right of where it is.
GoesOn(n, go) == go \in [1 .. n -> 1 .. n + 1] /\ \A i \in 1 .. n : go[i] > i

\* f[i] is what is pushed from place i on.
FromPlaces(V, turn, go, f) ==
  /\ f \in [1 .. Len(turn) + 1 -> Seq(V)]
  /\ Pushed(turn, go) = f[1]
  /\ f[Len(turn) + 1] = <<>>
  /\ \A i \in 1 .. Len(turn) : f[i] = <<turn[i]>> \o f[go[i]]

LEMMA PushedIs ==
  ASSUME NEW V, NEW turn \in Seq(V), NEW go, GoesOn(Len(turn), go)
  PROVE  \E f : FromPlaces(V, turn, go, f)
<1> DEFINE n == Len(turn)
           F == CHOOSE f : f = [i \in 1 .. n + 1 |->
                                  IF i > n THEN <<>> ELSE <<turn[i]>> \o f[go[i]]]
<1>1. n \in Nat /\ turn \in [1 .. n -> V]
  OBVIOUS
<1>2. go \in [1 .. n -> 1 .. n + 1] /\ \A i \in 1 .. n : go[i] > i
  BY DEF GoesOn
<1>3. Pushed(turn, go) = F[1]
  BY DEF Pushed
<1>4. F = [i \in 1 .. n + 1 |-> IF i > n THEN <<>> ELSE <<turn[i]>> \o F[go[i]]]
  <2> HIDE DEF n
  <2>1. go \in [1 .. n -> 1 .. n + 1] /\ \A i \in 1 .. n : go[i] > i
    BY <1>2
  <2>2. \E f : f = [i \in 1 .. n + 1 |-> IF i > n THEN <<>> ELSE <<turn[i]>> \o f[go[i]]]
    <3> DEFINE Step(f, i) == IF i > n THEN <<>> ELSE <<turn[i]>> \o f[go[i]]
               S == {m \in 1 .. n + 1 :
                       \E f : f = [i \in m .. n + 1 |-> Step(f, i)]}
    <3>1. ASSUME NEW m \in 1 .. n + 1, \A j \in m + 1 .. n + 1 : j \in S
          PROVE  m \in S
      <4>1. CASE m = n + 1
        <5> DEFINE f == [i \in m .. n + 1 |-> <<>>]
        <5>1. f = [i \in m .. n + 1 |-> Step(f, i)]
          BY <1>1, <4>1
        <5> QED
          BY <5>1
      <4>2. CASE m # n + 1
        <5>1. m \in 1 .. n /\ m + 1 \in m + 1 .. n + 1
          BY <1>1, <4>2
        <5>2. m + 1 \in S /\ m \in 1 .. n
          BY <3>1, <5>1
        <5>3. PICK f : f = [i \in m + 1 .. n + 1 |-> Step(f, i)]
          BY <5>2
        <5> DEFINE g == [i \in m .. n + 1 |-> IF i = m THEN Step(f, m) ELSE f[i]]
        <5>4. ASSUME NEW i \in m .. n + 1 PROVE g[i] = Step(g, i)
          <6>1. i > n \/ go[i] \in i + 1 .. n + 1
            BY <1>1, <2>1
          <6>2. i \in m + 1 .. n + 1 => f[i] = Step(f, i)
            BY <5>3
          <6>3. Step(g, i) = Step(f, i)
            BY <6>1, <5>2
          <6>4. g[i] = IF i = m THEN Step(f, m) ELSE f[i]
            OBVIOUS
          <6>5. i = m \/ i \in m + 1 .. n + 1
            BY <1>1
          <6> HIDE DEF Step, g
          <6> QED
            BY <6>2, <6>3, <6>4, <6>5
        <5>5. g = [i \in m .. n + 1 |-> Step(g, i)]
          BY <5>4
        <5> QED
          BY <5>5
      <4> QED
        BY <4>1, <4>2
    <3>2. S \in SUBSET (1 .. n + 1)
      OBVIOUS
    <3>3. S = 1 .. n + 1
      <4> HIDE DEF S
      <4> QED
        BY <1>1, <3>1, <3>2, Downwards
    <3>4. 1 \in S
      <4> HIDE DEF S
      <4> QED
        BY <1>1, <3>3
    <3> QED
      BY <3>4
  <2> QED
    BY <2>2, Zenon
<1> HIDE DEF F, n
<1>5. \A i \in 1 .. n : go[i] \in i + 1 .. n + 1
  BY <1>1, <1>2
<1>6. \A i \in 1 .. n + 1 : F[i] = IF i > n THEN <<>> ELSE <<turn[i]>> \o F[go[i]]
  BY <1>4, Zenon
<1>7. F[n + 1] = <<>>
  <2>1. n + 1 \in 1 .. n + 1 /\ n + 1 > n
    BY <1>1
  <2> QED
    BY <1>6, <2>1, Zenon
<1>8. \A i \in 1 .. n : F[i] = <<turn[i]>> \o F[go[i]]
  <2>1. \A i \in 1 .. n : i \in 1 .. n + 1 /\ ~(i > n)
    BY <1>1
  <2> QED
    BY <1>6, <2>1, Zenon
<1> DEFINE S == {i \in 1 .. n + 1 : F[i] \in Seq(V)}
<1>9. ASSUME NEW i \in 1 .. n + 1, \A j \in i + 1 .. n + 1 : j \in S
      PROVE  i \in S
  <2>1. CASE i = n + 1
    <3>1. F[i] = <<>> /\ <<>> \in Seq(V)
      BY <1>7, <2>1
    <3> QED
      BY <3>1
  <2>2. CASE i # n + 1
    <3>1. i \in 1 .. n
      BY <1>1, <2>2
    <3>2. i \in 1 .. n /\ F[i] = <<turn[i]>> \o F[go[i]]
      BY <1>8, <3>1
    <3>3. F[go[i]] \in Seq(V)
      BY <1>5, <1>9, <3>2
    <3>4. <<turn[i]>> \in Seq(V)
      BY <1>1, <3>2
    <3> DEFINE rest == F[go[i]]
               one  == <<turn[i]>>
    <3>5. rest \in Seq(V) /\ one \in Seq(V) /\ F[i] = one \o rest
      BY <3>2, <3>3, <3>4
    <3> HIDE DEF rest, one
    <3>6. F[i] \in Seq(V)
      BY <3>5, ConcatProperties
    <3> QED
      BY <3>6
  <2> QED
    BY <2>1, <2>2
<1>10. S = 1 .. n + 1
  <2>1. S \in SUBSET (1 .. n + 1)
    OBVIOUS
  <2> HIDE DEF S
  <2> QED
    BY <1>1, <1>9, <2>1, Downwards
<1>11. F \in [1 .. n + 1 -> Seq(V)]
  BY <1>4, <1>10
<1>12. FromPlaces(V, turn, go, F)
  BY <1>3, <1>11, <1>7, <1>8 DEF n, FromPlaces
<1> QED
  BY <1>12

-----------------------------------------------------------------------------
(* Sequences of sequences.                                                   *)

LEMMA FlattenIs ==
  ASSUME NEW V, NEW seqs \in Seq(Seq(V)), seqs # <<>>
  PROVE  \E f \in [1 .. Len(seqs) -> Seq(V)] :
           /\ FlattenSeq(seqs) = f[Len(seqs)]
           /\ f[1] = seqs[1]
           /\ \A i \in 1 .. Len(seqs) :
                i + 1 \in 1 .. Len(seqs) => f[i + 1] = f[i] \o seqs[i + 1]
<1> DEFINE n == Len(seqs)
           Step(f, i) == IF i = 1 THEN seqs[i] ELSE f[i - 1] \o seqs[i]
           F == CHOOSE f : f = [i \in 1 .. n |-> Step(f, i)]
<1>1. n \in Nat \ {0} /\ seqs \in [1 .. n -> Seq(V)]
  OBVIOUS
<1>2. FlattenSeq(seqs) = F[n]
  BY <1>1 DEF FlattenSeq
<1> HIDE DEF n
<1>3. F = [i \in 1 .. n |-> Step(F, i)]
  <2> DEFINE Defined(k) == \E f : f = [i \in 1 .. k |-> Step(f, i)]
             S == {k \in Nat : Defined(k)}
  <2>1. 0 \in S
    <3> DEFINE f == [i \in 1 .. 0 |-> <<>>]
    <3>1. f = [i \in 1 .. 0 |-> Step(f, i)]
      OBVIOUS
    <3> QED
      BY <3>1
  <2>2. ASSUME NEW k \in S PROVE k + 1 \in S
    <3>1. PICK f : f = [i \in 1 .. k |-> Step(f, i)]
      OBVIOUS
    <3> DEFINE g == [i \in 1 .. k + 1 |-> IF i = k + 1 THEN Step(f, i) ELSE f[i]]
    <3>2. ASSUME NEW i \in 1 .. k + 1 PROVE g[i] = Step(g, i)
      <4>1. i = 1 \/ i - 1 \in 1 .. k
        OBVIOUS
      <4>2. i \in 1 .. k => f[i] = Step(f, i)
        BY <3>1
      <4>3. Step(g, i) = Step(f, i)
        BY <4>1
      <4>4. g[i] = IF i = k + 1 THEN Step(f, i) ELSE f[i]
        OBVIOUS
      <4>5. i = k + 1 \/ i \in 1 .. k
        OBVIOUS
      <4> HIDE DEF Step, g
      <4> QED
        BY <4>2, <4>3, <4>4, <4>5
    <3>3. g = [i \in 1 .. k + 1 |-> Step(g, i)]
      BY <3>2
    <3>4. Defined(k + 1)
      <4> HIDE DEF g, Step
      <4> QED
        BY <3>3, Zenon
    <3> HIDE DEF Defined
    <3> QED
      BY <3>4
  <2>3. S = Nat
    <3>1. S \in SUBSET Nat
      OBVIOUS
    <3> HIDE DEF S
    <3> QED
      BY <2>1, <2>2, <3>1, Induction
  <2>4. n \in S
    <3> HIDE DEF S
    <3> QED
      BY <1>1, <2>3
  <2>5. Defined(n)
    <3> HIDE DEF Defined
    <3> QED
      BY <2>4
  <2> HIDE DEF Step
  <2> QED
    BY <2>5, Zenon
<1> HIDE DEF F
<1>4. \A i \in 1 .. n : F[i] = Step(F, i)
  BY <1>3, Zenon
<1>5. F[1] = seqs[1]
  BY <1>1, <1>4
<1>6. \A i \in 1 .. n : i + 1 \in 1 .. n => F[i + 1] = F[i] \o seqs[i + 1]
  <2>1. SUFFICES ASSUME NEW i \in 1 .. n, i + 1 \in 1 .. n
                 PROVE  F[i + 1] = F[i] \o seqs[i + 1]
    OBVIOUS
  <2>2. F[i + 1] = Step(F, i + 1)
    BY <1>4, <2>1, Zenon
  <2>3. i \in Nat /\ i + 1 # 1 /\ (i + 1) - 1 = i
    BY <1>1
  <2>4. F[i + 1] = F[(i + 1) - 1] \o seqs[i + 1]
    BY <2>2, <2>3
  <2> QED
    BY <2>3, <2>4
<1> DEFINE T == {k \in Nat : k + 1 \in 1 .. n => F[k + 1] \in Seq(V)}
<1>7. 0 \in T
  BY <1>1, <1>5
<1>8. ASSUME NEW k \in T PROVE k + 1 \in T
  <2>1. SUFFICES ASSUME k + 2 \in 1 .. n PROVE F[k + 2] \in Seq(V)
    OBVIOUS
  <2>2. k + 1 \in 1 .. n /\ (k + 1) + 1 = k + 2
    BY <1>1, <2>1
  <2>3. F[k + 2] = F[k + 1] \o seqs[k + 2]
    BY <1>6, <2>1, <2>2
  <2>4. F[k + 1] \in Seq(V) /\ seqs[k + 2] \in Seq(V)
    BY <1>1, <2>1, <2>2
  <2> QED
    BY <2>3, <2>4, ConcatProperties
<1>9. T = Nat
  <2>1. T \in SUBSET Nat
    OBVIOUS
  <2> HIDE DEF T
  <2> QED
    BY <1>7, <1>8, <2>1, Induction
<1>10. ASSUME NEW i \in 1 .. n PROVE F[i] \in Seq(V)
  <2>1. i - 1 \in Nat /\ (i - 1) + 1 = i
    BY <1>1
  <2>2. i - 1 \in T
    BY <1>9, <2>1
  <2> QED
    BY <2>1, <2>2
<1>11. F \in [1 .. n -> Seq(V)]
  BY <1>3, <1>10
<1> QED
  BY <1>1, <1>2, <1>5, <1>6, <1>11 DEF n

LEMMA FlattenOfNone == FlattenSeq(<<>>) = <<>>
BY DEF FlattenSeq

LEMMA FlattenAppend ==
  ASSUME NEW V, NEW seqs \in Seq(Seq(V)), NEW s \in Seq(V)
  PROVE  FlattenSeq(Append(seqs, s)) = FlattenSeq(seqs) \o s
<1> DEFINE n    == Len(seqs)
           more == Append(seqs, s)
<1>1. /\ n \in Nat
      /\ more \in Seq(Seq(V)) /\ more # <<>> /\ Len(more) = n + 1 /\ more[n + 1] = s
      /\ \A i \in 1 .. n : more[i] = seqs[i]
  BY AppendProperties
<1> HIDE DEF more
<1>2. PICK g \in [1 .. n + 1 -> Seq(V)] :
             /\ FlattenSeq(more) = g[n + 1]
             /\ g[1] = more[1]
             /\ \A i \in 1 .. n + 1 :
                  i + 1 \in 1 .. n + 1 => g[i + 1] = g[i] \o more[i + 1]
  <2>1. \E g \in [1 .. Len(more) -> Seq(V)] :
           /\ FlattenSeq(more) = g[Len(more)]
           /\ g[1] = more[1]
           /\ \A i \in 1 .. Len(more) :
                i + 1 \in 1 .. Len(more) => g[i + 1] = g[i] \o more[i + 1]
    BY <1>1, FlattenIs, Zenon
  <2>2. Len(more) = n + 1
    BY <1>1
  <2> HIDE DEF n
  <2> QED
    BY <2>1, <2>2
<1>3. CASE seqs = <<>>
  <2>1. n = 0 /\ FlattenSeq(seqs) = <<>>
    BY <1>3, FlattenOfNone
  <2>2. FlattenSeq(more) = s
    BY <1>1, <1>2, <2>1
  <2> QED
    BY <2>1, <2>2, ConcatEmptySeq DEF more
<1>4. CASE seqs # <<>>
  <2>1. n \in Nat \ {0}
    BY <1>4
  <2>2. PICK f \in [1 .. n -> Seq(V)] :
               /\ FlattenSeq(seqs) = f[n]
               /\ f[1] = seqs[1]
               /\ \A i \in 1 .. n :
                    i + 1 \in 1 .. n => f[i + 1] = f[i] \o seqs[i + 1]
    BY <1>4, FlattenIs
  <2> HIDE DEF n
  <2> DEFINE S == {k \in Nat : k + 1 \in 1 .. n => g[k + 1] = f[k + 1]}
  <2>3. 0 \in S
    BY <1>1, <1>2, <2>1, <2>2
  <2>4. ASSUME NEW k \in S PROVE k + 1 \in S
    <3>1. SUFFICES ASSUME k + 2 \in 1 .. n PROVE g[k + 2] = f[k + 2]
      OBVIOUS
    <3>2. /\ k + 1 \in 1 .. n /\ k + 1 \in 1 .. n + 1 /\ (k + 1) + 1 = k + 2
          /\ k + 2 \in 1 .. n + 1
      BY <2>1, <3>1
    <3>3. g[k + 2] = g[k + 1] \o more[k + 2] /\ f[k + 2] = f[k + 1] \o seqs[k + 2]
      <4>1. (k + 1) + 1 \in 1 .. n /\ (k + 1) + 1 \in 1 .. n + 1
        BY <3>1, <3>2
      <4>2. g[(k + 1) + 1] = g[k + 1] \o more[(k + 1) + 1]
        BY <1>2, <3>2, <4>1, Zenon
      <4>3. f[(k + 1) + 1] = f[k + 1] \o seqs[(k + 1) + 1]
        BY <2>2, <3>2, <4>1, Zenon
      <4> QED
        BY <3>2, <4>2, <4>3
    <3>4. more[k + 2] = seqs[k + 2] /\ g[k + 1] = f[k + 1]
      BY <1>1, <2>1, <3>1, <3>2
    <3> QED
      BY <3>3, <3>4
  <2>5. S = Nat
    <3>1. S \in SUBSET Nat
      OBVIOUS
    <3> HIDE DEF S
    <3> QED
      BY <2>3, <2>4, <3>1, Induction
  <2>6. g[n] = f[n]
    <3>1. n - 1 \in Nat /\ (n - 1) + 1 = n /\ n \in 1 .. n
      BY <2>1
    <3>2. n - 1 \in S
      BY <2>5, <3>1, Zenon
    <3> QED
      BY <3>1, <3>2
  <2>7. g[n + 1] = g[n] \o s
    <3>1. n \in 1 .. n + 1 /\ n + 1 \in 1 .. n + 1
      BY <2>1
    <3> QED
      BY <1>1, <1>2, <3>1, Zenon
  <2> QED
    BY <1>2, <2>2, <2>6, <2>7 DEF more
<1> QED
  BY <1>3, <1>4

LEMMA FlattenType ==
  ASSUME NEW V, NEW seqs \in Seq(Seq(V))
  PROVE  FlattenSeq(seqs) \in Seq(V)
<1>1. CASE seqs = <<>>
  BY <1>1, FlattenOfNone, EmptySeq
<1>2. CASE seqs # <<>>
  <2>1. Len(seqs) \in 1 .. Len(seqs)
    BY <1>2, EmptySeq
  <2>2. PICK f \in [1 .. Len(seqs) -> Seq(V)] : FlattenSeq(seqs) = f[Len(seqs)]
    BY <1>2, FlattenIs, Zenon
  <2> QED
    BY <2>1, <2>2
<1> QED
  BY <1>1, <1>2

LEMMA ConcatAppend ==
  ASSUME NEW V, NEW s \in Seq(V), NEW t \in Seq(V), NEW e \in V
  PROVE  s \o Append(t, e) = Append(s \o t, e)
<1>1. <<e>> \in Seq(V) /\ s \o t \in Seq(V)
  BY ConcatProperties
<1>2. Append(t, e) = t \o <<e>> /\ Append(s \o t, e) = (s \o t) \o <<e>>
  BY <1>1, AppendIsConcat
<1>3. s \o (t \o <<e>>) = (s \o t) \o <<e>>
  BY <1>1, ConcatAssociative
<1> QED
  BY <1>2, <1>3

LEMMA FlattenConcat ==
  ASSUME NEW V, NEW s \in Seq(Seq(V)), NEW t \in Seq(Seq(V))
  PROVE  FlattenSeq(s \o t) = FlattenSeq(s) \o FlattenSeq(t)
<1> DEFINE Holds(u) == FlattenSeq(s \o u) = FlattenSeq(s) \o FlattenSeq(u)
           S == {k \in Nat : \A u \in Seq(Seq(V)) : Len(u) = k => Holds(u)}
<1>1. 0 \in S
  <2>1. SUFFICES ASSUME NEW u \in Seq(Seq(V)), Len(u) = 0 PROVE Holds(u)
    OBVIOUS
  <2>2. u = <<>>
    BY <2>1
  <2> QED
    BY <2>2, FlattenOfNone, FlattenType, ConcatEmptySeq
<1>2. ASSUME NEW k \in S PROVE k + 1 \in S
  <2>1. SUFFICES ASSUME NEW u \in Seq(Seq(V)), Len(u) = k + 1 PROVE Holds(u)
    OBVIOUS
  <2>2. PICK v \in Seq(Seq(V)), e \in Seq(V) : u = Append(v, e)
    <3>1. u # <<>>
      BY <2>1
    <3> QED
      BY <3>1, SequenceEmptyOrAppend
  <2>3. Len(v) = k
    BY <2>1, <2>2, AppendProperties
  <2>4. Holds(v)
    BY <2>3
  <2>5. s \o u = Append(s \o v, e)
    BY <2>2, ConcatAppend
  <2>6. FlattenSeq(s \o u) = FlattenSeq(s \o v) \o e
    <3>1. s \o v \in Seq(Seq(V))
      BY ConcatProperties
    <3> QED
      BY <2>5, <3>1, FlattenAppend
  <2>7. FlattenSeq(u) = FlattenSeq(v) \o e
    BY <2>2, FlattenAppend
  <2>8. (FlattenSeq(s) \o FlattenSeq(v)) \o e = FlattenSeq(s) \o (FlattenSeq(v) \o e)
    <3> DEFINE x == FlattenSeq(s)
               y == FlattenSeq(v)
    <3>1. x \in Seq(V) /\ y \in Seq(V)
      BY FlattenType
    <3> HIDE DEF x, y, S
    <3>2. e \in Seq(V)
      OBVIOUS
    <3>3. (x \o y) \o e = x \o (y \o e)
      BY <3>1, <3>2, ConcatAssociative, SMTT(30)
    <3> QED
      BY <3>3 DEF x, y
  <2> QED
    BY <2>4, <2>6, <2>7, <2>8
<1>3. S = Nat
  <2>1. S \in SUBSET Nat
    OBVIOUS
  <2> HIDE DEF S
  <2> QED
    BY <1>1, <1>2, <2>1, Induction
<1>4. Len(t) \in S
  <2> HIDE DEF S
  <2> QED
    BY <1>3
<1> HIDE DEF Holds
<1>5. Holds(t)
  BY <1>4
<1> QED
  BY <1>5 DEF Holds

LEMMA FlattenOfOne ==
  ASSUME NEW V, NEW s \in Seq(V)
  PROVE  FlattenSeq(<<s>>) = s
<1>1. <<s>> = Append(<<>>, s)
  OBVIOUS
<1>2. <<>> \in Seq(Seq(V))
  BY EmptySeq
<1>3. FlattenSeq(<<s>>) = <<>> \o s
  BY <1>1, <1>2, FlattenAppend, FlattenOfNone
<1> QED
  BY <1>3, ConcatEmptySeq

-----------------------------------------------------------------------------
(* Spans and the text they stand for.                                        *)

Chars == Alphabet \cup Delimiters \cup {NL, Space, ">"}
Spans == [style : Delimiters \cup {"Link", "text", "Plain", "Quote"}, text : Seq(Chars)]
OneLine(t) == \A i \in DOMAIN t : t[i] # NL

\* What OfLine cuts a text at: the last character that does not end a line.
LEMMA OwnIs ==
  ASSUME NEW t \in Seq(Chars)
  PROVE  \E k \in 0 .. Len(t) :
           /\ OfLine(t) = SubSeq(t, 1, k)
           /\ k > 0 => t[k] # NL
           /\ \A j \in k + 1 .. Len(t) : t[j] = NL
<1> DEFINE S == {k \in 0 .. Len(t) : \A j \in k + 1 .. Len(t) : t[j] = NL}
           k == Least(S)
<1>1. Len(t) \in S
  OBVIOUS
<1>2. k \in S /\ \A y \in S : k <= y
  <2>1. S \in SUBSET Nat /\ S # {}
    BY <1>1
  <2> HIDE DEF S
  <2> QED
    BY <2>1, LeastIs
<1>3. OfLine(t) = SubSeq(t, 1, k)
  BY DEF OfLine, Prefix
<1> HIDE DEF k
<1>4. ASSUME k > 0 PROVE t[k] # NL
  <2>1. SUFFICES ASSUME t[k] = NL PROVE k - 1 \in S
    <3>1. k \in Nat /\ ~(k <= k - 1)
      BY <1>2
    <3> HIDE DEF S
    <3> QED
      BY <1>2, <3>1
  <2>2. k \in 0 .. Len(t) /\ \A j \in k + 1 .. Len(t) : t[j] = NL
    BY <1>2
  <2>3. k - 1 \in 0 .. Len(t)
    BY <1>4, <2>2
  <2>4. \A j \in (k - 1) + 1 .. Len(t) : j = k \/ j \in k + 1 .. Len(t)
    BY <2>2
  <2> QED
    BY <2>1, <2>2, <2>3, <2>4
<1> QED
  BY <1>2, <1>3, <1>4

\* A text that does not end in the end of a line is its own.
LEMMA OwnOfOneLine ==
  ASSUME NEW t \in Seq(Chars), OneLine(t)
  PROVE  OfLine(t) = t
<1>1. PICK k \in 0 .. Len(t) :
             OfLine(t) = SubSeq(t, 1, k) /\ \A j \in k + 1 .. Len(t) : t[j] = NL
  BY OwnIs
<1>2. k = Len(t)
  <2>1. SUFFICES ASSUME k # Len(t) PROVE FALSE
    OBVIOUS
  <2>2. k + 1 \in k + 1 .. Len(t) /\ k + 1 \in DOMAIN t
    BY <2>1
  <2> QED
    BY <1>1, <2>2 DEF OneLine
<1> QED
  BY <1>1, <1>2, SubSeqFull

\* The end of a line changes nothing of it.
LEMMA OwnOfEnded ==
  ASSUME NEW t \in Seq(Chars)
  PROVE  OfLine(Append(t, NL)) = OfLine(t)
<1> DEFINE u == Append(t, NL)
<1>1. NL \in Chars
  BY DEF Chars
<1>2. /\ u \in Seq(Chars) /\ Len(u) = Len(t) + 1 /\ u[Len(t) + 1] = NL
      /\ \A i \in 1 .. Len(t) : u[i] = t[i]
  BY <1>1, AppendProperties
<1> HIDE DEF u
<1>3. PICK k \in 0 .. Len(t) :
             /\ OfLine(t) = SubSeq(t, 1, k)
             /\ k > 0 => t[k] # NL
             /\ \A j \in k + 1 .. Len(t) : t[j] = NL
  BY OwnIs
<1>4. PICK m \in 0 .. Len(u) :
             /\ OfLine(u) = SubSeq(u, 1, m)
             /\ m > 0 => u[m] # NL
             /\ \A j \in m + 1 .. Len(u) : u[j] = NL
  BY <1>2, OwnIs
<1>5. m \in 0 .. Len(t)
  <2>1. m # Len(t) + 1
    BY <1>2, <1>4
  <2> QED
    BY <1>2, <2>1
<1>6. ~(k < m)
  <2>1. k < m => m \in k + 1 .. Len(t) /\ m > 0
    BY <1>5
  <2> QED
    BY <1>2, <1>3, <1>4, <1>5, <2>1
<1>7. ~(m < k)
  <2>1. m < k => k \in m + 1 .. Len(u) /\ k > 0 /\ k \in 1 .. Len(t)
    BY <1>2, <1>5
  <2> QED
    BY <1>2, <1>3, <1>4, <2>1
<1>8. k = m
  BY <1>5, <1>6, <1>7
<1>9. SubSeq(u, 1, k) = SubSeq(t, 1, k)
  <2>1. /\ SubSeq(u, 1, k) \in Seq(Chars) /\ Len(SubSeq(u, 1, k)) = k
        /\ \A i \in 1 .. k : SubSeq(u, 1, k)[i] = u[i]
    BY <1>2, SubSeqProperties
  <2>2. /\ SubSeq(t, 1, k) \in Seq(Chars) /\ Len(SubSeq(t, 1, k)) = k
        /\ \A i \in 1 .. k : SubSeq(t, 1, k)[i] = t[i]
    BY SubSeqProperties
  <2>3. \A i \in 1 .. k : u[i] = t[i]
    BY <1>2
  <2> QED
    BY <2>1, <2>2, <2>3, SeqEqual
<1> QED
  BY <1>3, <1>4, <1>8, <1>9 DEF u

\* The text between its delimiters, or after the sign of a quote.
Dressed(style, own) ==
  CASE style \in Delimiters -> <<style>> \o own \o <<style>>
    [] style = "Quote" -> <<">", Space>> \o own
    [] OTHER -> own

LEMMA DressedType ==
  ASSUME NEW style \in Delimiters \cup {"Link", "text", "Plain", "Quote"}, NEW own \in Seq(Chars)
  PROVE  Dressed(style, own) \in Seq(Chars)
<1>1. CASE style \in Delimiters
  <2>1. style \in Chars
    BY <1>1 DEF Chars
  <2>2. <<style>> \in Seq(Chars)
    BY <2>1
  <2>3. <<style>> \o own \in Seq(Chars)
    BY <2>2, ConcatProperties
  <2>4. <<style>> \o own \o <<style>> \in Seq(Chars)
    BY <2>2, <2>3, ConcatProperties
  <2>5. style # "Quote"
    BY <1>1 DEF Delimiters
  <2> QED
    BY <1>1, <2>4, <2>5 DEF Dressed
<1>2. CASE style = "Quote"
  <2>1. style \notin Delimiters
    BY <1>2 DEF Delimiters
  <2>2. <<">", Space>> \in Seq(Chars)
    BY DEF Chars
  <2>3. <<">", Space>> \o own \in Seq(Chars)
    BY <2>2, ConcatProperties
  <2> QED
    BY <1>2, <2>1, <2>3 DEF Dressed
<1>3. CASE style \notin Delimiters /\ style # "Quote"
  BY <1>3 DEF Dressed
<1> QED
  BY <1>1, <1>2, <1>3

LEMMA OwnType ==
  ASSUME NEW t \in Seq(Chars)
  PROVE  OfLine(t) \in Seq(Chars) /\ Len(OfLine(t)) \in 0 .. Len(t)
<1>1. PICK k \in 0 .. Len(t) : OfLine(t) = SubSeq(t, 1, k)
  BY OwnIs
<1>2. SubSeq(t, 1, k) \in Seq(Chars) /\ Len(SubSeq(t, 1, k)) = k
  BY SubSeqProperties
<1> QED
  BY <1>1, <1>2

LEMMA SourceIs ==
  ASSUME NEW s \in Spans
  PROVE  /\ Source(s) = Dressed(s.style, OfLine(s.text))
                          \o SubSeq(s.text, Len(OfLine(s.text)) + 1, Len(s.text))
         /\ Dressed(s.style, OfLine(s.text)) \in Seq(Chars)
         /\ SubSeq(s.text, Len(OfLine(s.text)) + 1, Len(s.text)) \in Seq(Chars)
         /\ Source(s) \in Seq(Chars)
<1>1. s.text \in Seq(Chars) /\ s.style \in Delimiters \cup {"Link", "text", "Plain", "Quote"}
  BY DEF Spans
<1>2. OfLine(s.text) \in Seq(Chars) /\ Len(OfLine(s.text)) \in 0 .. Len(s.text)
  BY <1>1, OwnType
<1>3. Dressed(s.style, OfLine(s.text)) \in Seq(Chars)
  BY <1>1, <1>2, DressedType
<1>4. SubSeq(s.text, Len(OfLine(s.text)) + 1, Len(s.text)) \in Seq(Chars)
  BY <1>1, <1>2, SubSeqProperties
<1>5. Source(s) = Dressed(s.style, OfLine(s.text))
                    \o SubSeq(s.text, Len(OfLine(s.text)) + 1, Len(s.text))
  BY DEF Source, Dressed, From
<1> QED
  BY <1>3, <1>4, <1>5, ConcatProperties

LEMMA SourceOfOneLine ==
  ASSUME NEW s \in Spans, OneLine(s.text)
  PROVE  Source(s) = Dressed(s.style, s.text)
<1>1. s.text \in Seq(Chars)
  BY DEF Spans
<1>2. OfLine(s.text) = s.text
  BY <1>1, OwnOfOneLine
<1>3. SubSeq(s.text, Len(s.text) + 1, Len(s.text)) = <<>>
  BY <1>1, SubSeqEmpty
<1>4. Dressed(s.style, s.text) \in Seq(Chars)
  BY <1>2, SourceIs
<1> QED
  BY <1>2, <1>3, <1>4, SourceIs, ConcatEmptySeq

\* A span that takes in the end of a line stands for that too.
LEMMA SourceOfEnded ==
  ASSUME NEW s \in Spans
  PROVE  /\ Span(s.style, Append(s.text, NL)) \in Spans
         /\ Source(Span(s.style, Append(s.text, NL))) = Append(Source(s), NL)
<1> DEFINE t == s.text
           u == Append(t, NL)
           e == Span(s.style, u)
           k == Len(OfLine(t))
<1>1. NL \in Chars /\ t \in Seq(Chars)
  BY DEF Chars, Spans
<1>2. /\ u \in Seq(Chars) /\ Len(u) = Len(t) + 1 /\ u[Len(t) + 1] = NL
      /\ \A i \in 1 .. Len(t) : u[i] = t[i]
  BY <1>1, AppendProperties
<1>3. e \in Spans /\ e.style = s.style /\ e.text = u
  <2> HIDE DEF u
  <2> QED
    BY <1>2 DEF Span, Spans
<1>4. OfLine(u) = OfLine(t) /\ k \in 0 .. Len(t)
  BY <1>1, OwnOfEnded, OwnType
<1> HIDE DEF k, u, t
<1>5. SubSeq(u, k + 1, Len(u)) = Append(SubSeq(t, k + 1, Len(t)), NL)
  <2> DEFINE a == SubSeq(t, k + 1, Len(t))
             b == SubSeq(u, k + 1, Len(u))
  <2>1. /\ a \in Seq(Chars) /\ Len(a) = Len(t) - k
        /\ \A i \in 1 .. Len(t) - k : a[i] = t[k + i]
    <3>1. /\ SubSeq(t, k + 1, Len(t)) \in Seq(Chars)
          /\ Len(SubSeq(t, k + 1, Len(t))) =
               IF k + 1 <= Len(t) THEN Len(t) - (k + 1) + 1 ELSE 0
          /\ \A i \in 1 .. Len(t) - (k + 1) + 1 :
               SubSeq(t, k + 1, Len(t))[i] = t[k + 1 + i - 1]
      BY <1>1, <1>4, SubSeqProperties
    <3> QED
      BY <1>1, <1>4, <3>1
  <2>2. /\ b \in Seq(Chars) /\ Len(b) = Len(t) - k + 1
        /\ \A i \in 1 .. Len(t) - k + 1 : b[i] = u[k + i]
    <3>1. /\ SubSeq(u, k + 1, Len(u)) \in Seq(Chars)
          /\ Len(SubSeq(u, k + 1, Len(u))) =
               IF k + 1 <= Len(u) THEN Len(u) - (k + 1) + 1 ELSE 0
          /\ \A i \in 1 .. Len(u) - (k + 1) + 1 :
               SubSeq(u, k + 1, Len(u))[i] = u[k + 1 + i - 1]
      BY <1>1, <1>2, <1>4, SubSeqProperties
    <3> QED
      BY <1>1, <1>2, <1>4, <3>1
  <2> HIDE DEF a, b
  <2>3. /\ Append(a, NL) \in Seq(Chars) /\ Len(Append(a, NL)) = Len(a) + 1
        /\ \A i \in 1 .. Len(a) : Append(a, NL)[i] = a[i]
        /\ Append(a, NL)[Len(a) + 1] = NL
    BY <1>1, <2>1, AppendProperties
  <2>4. ASSUME NEW i \in 1 .. Len(t) - k + 1 PROVE b[i] = Append(a, NL)[i]
    <3>1. b[i] = u[k + i]
      BY <2>2
    <3>2. CASE i \in 1 .. Len(t) - k
      <4>1. k + i \in 1 .. Len(t)
        BY <1>1, <1>4, <3>2
      <4> QED
        BY <1>2, <2>1, <2>3, <3>1, <3>2, <4>1
    <3>3. CASE i = Len(t) - k + 1
      <4>1. k + i = Len(t) + 1 /\ i = Len(a) + 1
        BY <1>1, <1>4, <2>1, <3>3
      <4> QED
        BY <1>2, <2>3, <3>1, <4>1
    <3>4. Len(t) - k \in Nat
      BY <1>1, <1>4
    <3>5. i \in 1 .. Len(t) - k \/ i = Len(t) - k + 1
      BY <3>4
    <3> QED
      BY <3>2, <3>3, <3>5
  <2>5. b = Append(a, NL)
    <3>1. Len(b) = Len(Append(a, NL)) /\ Len(b) = Len(t) - k + 1
      BY <2>1, <2>2, <2>3
    <3> QED
      BY <2>2, <2>3, <2>4, <3>1, SeqEqual
  <2> QED
    BY <2>5 DEF a, b
<1>6. Source(e) = Dressed(s.style, OfLine(t)) \o Append(SubSeq(t, k + 1, Len(t)), NL)
  BY <1>3, <1>4, <1>5, SourceIs DEF k
<1>7. Source(s) = Dressed(s.style, OfLine(t)) \o SubSeq(t, k + 1, Len(t))
  BY SourceIs DEF k, t
<1>8. Dressed(s.style, OfLine(t)) \in Seq(Chars) /\ SubSeq(t, k + 1, Len(t)) \in Seq(Chars)
  BY SourceIs DEF k, t
<1>9. Source(e) = Append(Source(s), NL)
  <2>1. Dressed(s.style, OfLine(t)) \o Append(SubSeq(t, k + 1, Len(t)), NL)
          = Append(Dressed(s.style, OfLine(t)) \o SubSeq(t, k + 1, Len(t)), NL)
    <3> DEFINE x == Dressed(s.style, OfLine(t))
               y == SubSeq(t, k + 1, Len(t))
    <3>1. x \in Seq(Chars) /\ y \in Seq(Chars) /\ NL \in Chars
      BY <1>1, <1>8
    <3> HIDE DEF x, y
    <3>2. x \o Append(y, NL) = Append(x \o y, NL)
      BY <3>1, ConcatAppend
    <3> QED
      BY <3>2 DEF x, y
  <2> QED
    BY <1>6, <1>7, <2>1
<1> QED
  BY <1>3, <1>9 DEF u, t

LEMMA SourcesAre ==
  ASSUME NEW a \in Seq(Spans)
  PROVE  /\ [i \in DOMAIN a |-> Source(a[i])] \in Seq(Seq(Chars))
         /\ Len([i \in DOMAIN a |-> Source(a[i])]) = Len(a)
         /\ Text(a) \in Seq(Chars)
<1> DEFINE f == [i \in 1 .. Len(a) |-> Source(a[i])]
<1>1. DOMAIN a = 1 .. Len(a) /\ Len(a) \in Nat
  OBVIOUS
<1>2. \A i \in 1 .. Len(a) : Source(a[i]) \in Seq(Chars)
  <2>1. SUFFICES ASSUME NEW i \in 1 .. Len(a) PROVE Source(a[i]) \in Seq(Chars)
    OBVIOUS
  <2>2. a[i] \in Spans
    OBVIOUS
  <2> QED
    BY <2>2, SourceIs
<1>3. f \in Seq(Seq(Chars)) /\ Len(f) = Len(a)
  BY <1>1, <1>2
<1>4. f = [i \in DOMAIN a |-> Source(a[i])]
  BY <1>1
<1>5. Text(a) = FlattenSeq(f)
  BY <1>1 DEF Text
<1> HIDE DEF f
<1> QED
  BY <1>3, <1>4, <1>5, FlattenType

LEMMA TextOfNone == Text(<<>>) = <<>>
<1>1. [i \in DOMAIN <<>> |-> Source(<<>>[i])] = <<>>
  OBVIOUS
<1> QED
  BY <1>1, FlattenOfNone DEF Text

LEMMA TextOfConcat ==
  ASSUME NEW a \in Seq(Spans), NEW b \in Seq(Spans)
  PROVE  a \o b \in Seq(Spans) /\ Text(a \o b) = Text(a) \o Text(b)
<1> DEFINE c  == a \o b
           fa == [i \in DOMAIN a |-> Source(a[i])]
           fb == [i \in DOMAIN b |-> Source(b[i])]
           fc == [i \in DOMAIN c |-> Source(c[i])]
<1>1. /\ c \in Seq(Spans) /\ Len(c) = Len(a) + Len(b)
      /\ \A i \in 1 .. Len(a) + Len(b) : c[i] = IF i <= Len(a) THEN a[i] ELSE b[i - Len(a)]
  BY ConcatProperties
<1> HIDE DEF c
<1>2. /\ fa \in Seq(Seq(Chars)) /\ Len(fa) = Len(a)
      /\ \A i \in 1 .. Len(a) : fa[i] = Source(a[i])
  BY SourcesAre
<1>3. /\ fb \in Seq(Seq(Chars)) /\ Len(fb) = Len(b)
      /\ \A i \in 1 .. Len(b) : fb[i] = Source(b[i])
  BY SourcesAre
<1>4. /\ fc \in Seq(Seq(Chars)) /\ Len(fc) = Len(c)
      /\ \A i \in 1 .. Len(c) : fc[i] = Source(c[i])
  <2>1. fc \in Seq(Seq(Chars)) /\ Len(fc) = Len(c)
    BY <1>1, SourcesAre
  <2>2. DOMAIN c = 1 .. Len(c)
    BY <1>1
  <2> QED
    BY <2>1, <2>2
<1>5. Text(a) = FlattenSeq(fa) /\ Text(b) = FlattenSeq(fb) /\ Text(c) = FlattenSeq(fc)
  BY DEF Text
<1> HIDE DEF fa, fb, fc
<1>6. /\ fa \o fb \in Seq(Seq(Chars)) /\ Len(fa \o fb) = Len(a) + Len(b)
      /\ \A i \in 1 .. Len(a) + Len(b) :
           (fa \o fb)[i] = IF i <= Len(a) THEN fa[i] ELSE fb[i - Len(a)]
  <2>1. /\ fa \o fb \in Seq(Seq(Chars)) /\ Len(fa \o fb) = Len(fa) + Len(fb)
        /\ \A i \in 1 .. Len(fa) + Len(fb) :
             (fa \o fb)[i] = IF i <= Len(fa) THEN fa[i] ELSE fb[i - Len(fa)]
    <3>1. fa \in Seq(Seq(Chars)) /\ fb \in Seq(Seq(Chars))
      BY <1>2, <1>3
    <3> QED
      BY <3>1, ConcatProperties, Zenon
  <2> QED
    BY <1>2, <1>3, <2>1
<1>7. ASSUME NEW i \in 1 .. Len(a) + Len(b) PROVE fc[i] = (fa \o fb)[i]
  <2>1. CASE i <= Len(a)
    <3>1. i \in 1 .. Len(a) /\ i \in 1 .. Len(c)
      BY <1>1, <2>1
    <3> QED
      BY <1>1, <1>2, <1>4, <1>6, <2>1, <3>1
  <2>2. CASE ~(i <= Len(a))
    <3>1. i - Len(a) \in 1 .. Len(b) /\ i \in 1 .. Len(c)
      BY <1>1, <2>2
    <3> QED
      BY <1>1, <1>3, <1>4, <1>6, <2>2, <3>1
  <2> QED
    BY <2>1, <2>2
<1>8. fc = fa \o fb
  <2>1. Len(fc) = Len(fa \o fb) /\ Len(fc) = Len(a) + Len(b)
    BY <1>1, <1>4, <1>6
  <2> QED
    BY <1>4, <1>6, <1>7, <2>1, SeqEqual
<1>9. Text(c) = Text(a) \o Text(b)
  BY <1>2, <1>3, <1>5, <1>8, FlattenConcat
<1> QED
  BY <1>1, <1>9 DEF c

LEMMA TextOfOne ==
  ASSUME NEW s \in Spans
  PROVE  <<s>> \in Seq(Spans) /\ Text(<<s>>) = Source(s)
<1>1. [i \in DOMAIN <<s>> |-> Source(<<s>>[i])] = <<Source(s)>>
  OBVIOUS
<1>2. Source(s) \in Seq(Chars)
  BY SourceIs
<1>3. FlattenSeq(<<Source(s)>>) = Source(s)
  BY <1>2, FlattenOfOne
<1> QED
  BY <1>1, <1>3 DEF Text

LEMMA TextOfFlattened ==
  ASSUME NEW ss \in Seq(Seq(Spans))
  PROVE  /\ [i \in DOMAIN ss |-> Text(ss[i])] \in Seq(Seq(Chars))
         /\ Len([i \in DOMAIN ss |-> Text(ss[i])]) = Len(ss)
         /\ Text(FlattenSeq(ss)) = FlattenSeq([i \in DOMAIN ss |-> Text(ss[i])])
<1> DEFINE texts(a) == [i \in DOMAIN a |-> Text(a[i])]
           Holds(a) == Text(FlattenSeq(a)) = FlattenSeq(texts(a))
           S == {k \in Nat : \A a \in Seq(Seq(Spans)) : Len(a) = k => Holds(a)}
<1>1. ASSUME NEW a \in Seq(Seq(Spans))
      PROVE  texts(a) \in Seq(Seq(Chars)) /\ Len(texts(a)) = Len(a)
  <2>1. DOMAIN a = 1 .. Len(a) /\ Len(a) \in Nat
    OBVIOUS
  <2>2. \A i \in 1 .. Len(a) : Text(a[i]) \in Seq(Chars)
    <3>1. SUFFICES ASSUME NEW i \in 1 .. Len(a) PROVE Text(a[i]) \in Seq(Chars)
      OBVIOUS
    <3>2. a[i] \in Seq(Spans)
      OBVIOUS
    <3> QED
      BY <3>2, SourcesAre
  <2>3. [i \in 1 .. Len(a) |-> Text(a[i])] \in Seq(Seq(Chars))
    BY <2>1, <2>2
  <2>4. Len([i \in 1 .. Len(a) |-> Text(a[i])]) = Len(a)
    BY <2>1
  <2> QED
    BY <2>1, <2>3, <2>4
<1>2. 0 \in S
  <2>1. SUFFICES ASSUME NEW a \in Seq(Seq(Spans)), Len(a) = 0 PROVE Holds(a)
    OBVIOUS
  <2>2. a = <<>>
    BY <2>1
  <2>3. texts(<<>>) = <<>>
    OBVIOUS
  <2> QED
    BY <2>2, <2>3, FlattenOfNone, TextOfNone
<1>3. ASSUME NEW k \in S PROVE k + 1 \in S
  <2>1. SUFFICES ASSUME NEW a \in Seq(Seq(Spans)), Len(a) = k + 1 PROVE Holds(a)
    OBVIOUS
  <2>2. PICK b \in Seq(Seq(Spans)), e \in Seq(Spans) : a = Append(b, e)
    <3>1. a # <<>>
      BY <2>1
    <3> QED
      BY <3>1, SequenceEmptyOrAppend
  <2>3. Len(b) = k /\ \A i \in 1 .. k : a[i] = b[i]
    BY <2>1, <2>2, AppendProperties
  <2>4. a[k + 1] = e
    BY <2>1, <2>2, <2>3, AppendProperties
  <2>5. Holds(b)
    BY <2>3
  <2>6. Text(e) \in Seq(Chars)
    BY SourcesAre
  <2>7. texts(a) = Append(texts(b), Text(e))
    <3>1. /\ Append(texts(b), Text(e)) \in Seq(Seq(Chars))
          /\ Len(Append(texts(b), Text(e))) = k + 1
          /\ \A i \in 1 .. k : Append(texts(b), Text(e))[i] = texts(b)[i]
          /\ Append(texts(b), Text(e))[k + 1] = Text(e)
      <4>1. texts(b) \in Seq(Seq(Chars)) /\ Len(texts(b)) = k
        BY <1>1, <2>3
      <4> HIDE DEF texts
      <4> QED
        BY <2>6, <4>1, AppendProperties
    <3>2. texts(a) \in Seq(Seq(Chars)) /\ Len(texts(a)) = k + 1
      BY <1>1, <2>1
    <3>3. \A i \in 1 .. k : texts(b)[i] = Text(b[i])
      BY <2>3
    <3>4. \A i \in 1 .. k + 1 : texts(a)[i] = Text(a[i])
      BY <2>1
    <3> HIDE DEF texts
    <3>5. ASSUME NEW i \in 1 .. k + 1 PROVE texts(a)[i] = Append(texts(b), Text(e))[i]
      <4>1. k \in Nat
        OBVIOUS
      <4>2. i \in 1 .. k \/ i = k + 1
        BY <4>1
      <4> HIDE DEF S
      <4> QED
        BY <2>3, <2>4, <3>1, <3>3, <3>4, <4>2
    <3> QED
      BY <3>1, <3>2, <3>5, SeqEqual
  <2>8. Text(FlattenSeq(a)) = Text(FlattenSeq(b)) \o Text(e)
    <3>1. FlattenSeq(a) = FlattenSeq(b) \o e
      BY <2>2, FlattenAppend
    <3>2. FlattenSeq(b) \in Seq(Spans)
      BY FlattenType
    <3> QED
      BY <3>1, <3>2, TextOfConcat
  <2>9. FlattenSeq(texts(a)) = FlattenSeq(texts(b)) \o Text(e)
    <3>1. texts(b) \in Seq(Seq(Chars))
      BY <1>1
    <3> HIDE DEF texts
    <3> QED
      BY <2>6, <2>7, <3>1, FlattenAppend
  <2> QED
    BY <2>5, <2>8, <2>9
<1>4. S = Nat
  <2>1. S \in SUBSET Nat
    OBVIOUS
  <2> HIDE DEF S
  <2> QED
    BY <1>2, <1>3, <2>1, Induction
<1>5. Len(ss) \in S
  <2> HIDE DEF S
  <2> QED
    BY <1>4
<1>6. Holds(ss)
  <2> HIDE DEF Holds
  <2> QED
    BY <1>5
<1> QED
  BY <1>1, <1>6

LEMMA EndLineForm ==
  ASSUME NEW a \in Seq(Spans), a # <<>>
  PROVE  EndLine(a) = [a EXCEPT ![Len(a)] = Span(a[Len(a)].style, Append(a[Len(a)].text, NL))]
<1> DEFINE s == a[Len(a)]
           x == Append(s.text, NL)
<1>1. s \in Spans
  OBVIOUS
<1>2. EndLine(a) = [a EXCEPT ![Len(a)] = [a[Len(a)] EXCEPT !.text = Append(@, NL)]]
  BY DEF EndLine
<1>3. EndLine(a) = [a EXCEPT ![Len(a)] = [s EXCEPT !.text = x]]
  BY <1>2
<1> HIDE DEF x, s
<1>4. PICK style, text : s = [style |-> style, text |-> text]
  BY <1>1 DEF Spans
<1>5. s.style = style /\ s.text = text
  BY <1>4
<1>6. [[style |-> style, text |-> text] EXCEPT !.text = x] = [style |-> style, text |-> x]
  OBVIOUS
<1>7. [s EXCEPT !.text = x] = Span(s.style, x)
  BY <1>4, <1>5, <1>6 DEF Span
<1> QED
  BY <1>3, <1>7 DEF s, x

LEMMA EndLineIs ==
  ASSUME NEW a \in Seq(Spans)
  PROVE  /\ EndLine(a) \in Seq(Spans)
         /\ Text(EndLine(a)) = Append(Text(a), NL)
<1>1. NL \in Chars
  BY DEF Chars
<1>2. CASE a = <<>>
  <2> DEFINE s == Span("Plain", <<NL>>)
  <2>1. s \in Spans /\ s.style = "Plain" /\ s.text = <<NL>>
    BY <1>1 DEF Span, Spans
  <2>2. EndLine(a) = <<s>>
    BY <1>2 DEF EndLine
  <2>3. Source(s) = <<NL>>
    <3>1. <<>> \in Seq(Chars) /\ OneLine(<<>>)
      BY DEF OneLine
    <3>2. OfLine(<<NL>>) = <<>>
      <4>1. Append(<<>>, NL) = <<NL>>
        OBVIOUS
      <4> QED
        BY <3>1, <4>1, OwnOfEnded, OwnOfOneLine
    <3>3. Dressed("Plain", <<>>) = <<>>
      BY DEF Dressed, Delimiters
    <3>4. SubSeq(<<NL>>, 1, 1) = <<NL>>
      <4>1. <<NL>> \in Seq(Chars) /\ Len(<<NL>>) = 1
        BY <1>1
      <4> QED
        BY <4>1, SubSeqFull
    <3>5. <<>> \o <<NL>> = <<NL>>
      OBVIOUS
    <3>6. Len(<<>>) + 1 = 1 /\ Len(<<NL>>) = 1
      OBVIOUS
    <3> HIDE DEF s
    <3>7. Source(s) = Dressed("Plain", OfLine(<<NL>>))
                        \o SubSeq(<<NL>>, Len(OfLine(<<NL>>)) + 1, Len(<<NL>>))
      BY <2>1, SourceIs
    <3> QED
      BY <3>2, <3>3, <3>4, <3>5, <3>6, <3>7
  <2>4. Append(Text(a), NL) = <<NL>>
    <3>1. Append(<<>>, NL) = <<NL>>
      OBVIOUS
    <3> QED
      BY <1>2, <3>1, TextOfNone
  <2> HIDE DEF s
  <2> QED
    BY <2>1, <2>2, <2>3, <2>4, TextOfOne
<1>3. CASE a # <<>>
  <2>1. PICK b \in Seq(Spans), s \in Spans : a = Append(b, s)
    BY <1>3, SequenceEmptyOrAppend
  <2> DEFINE e == Span(s.style, Append(s.text, NL))
  <2>2. e \in Spans /\ Source(e) = Append(Source(s), NL)
    BY SourceOfEnded
  <2>3. /\ Len(a) = Len(b) + 1 /\ a[Len(a)] = s
        /\ \A i \in 1 .. Len(b) : a[i] = b[i]
    BY <2>1, AppendProperties
  <2>4. EndLine(a) = [a EXCEPT ![Len(a)] = e]
    BY <1>3, <2>3, EndLineForm
  <2> HIDE DEF e
  <2>5. /\ [a EXCEPT ![Len(a)] = e] \in Seq(Spans)
        /\ Len([a EXCEPT ![Len(a)] = e]) = Len(a)
        /\ \A j \in 1 .. Len(a) :
             [a EXCEPT ![Len(a)] = e][j] = IF j = Len(a) THEN e ELSE a[j]
    BY <1>3, <2>2, ExceptSeq
  <2>6. /\ Append(b, e) \in Seq(Spans) /\ Len(Append(b, e)) = Len(b) + 1
        /\ \A i \in 1 .. Len(b) : Append(b, e)[i] = b[i]
        /\ Append(b, e)[Len(b) + 1] = e
    BY <2>2, AppendProperties
  <2>7. EndLine(a) = Append(b, e)
    <3>1. ASSUME NEW j \in 1 .. Len(a)
          PROVE  [a EXCEPT ![Len(a)] = e][j] = Append(b, e)[j]
      <4>1. Len(b) \in Nat
        OBVIOUS
      <4>2. j = Len(b) + 1 \/ (j \in 1 .. Len(b) /\ j # Len(a))
        BY <2>3, <4>1
      <4> QED
        BY <2>3, <2>5, <2>6, <4>2
    <3> QED
      BY <2>3, <2>4, <2>5, <2>6, <3>1, SeqEqual
  <2>8. Text(a) = Text(b) \o Source(s)
    <3>1. a = b \o <<s>>
      BY <2>1, AppendIsConcat
    <3> QED
      BY <3>1, TextOfConcat, TextOfOne
  <2>9. Text(EndLine(a)) = Text(b) \o Append(Source(s), NL)
    <3>1. EndLine(a) = b \o <<e>>
      BY <2>2, <2>7, AppendIsConcat
    <3> QED
      BY <2>2, <3>1, TextOfConcat, TextOfOne
  <2>10. Text(b) \o Append(Source(s), NL) = Append(Text(b) \o Source(s), NL)
    BY <1>1, SourcesAre, SourceIs, ConcatAppend
  <2> QED
    BY <2>6, <2>7, <2>8, <2>9, <2>10
<1> QED
  BY <1>2, <1>3

-----------------------------------------------------------------------------
(* The loops that go through a text.                                         *)

LEMMA UntilIs ==
  ASSUME NEW s \in Seq(Chars), NEW i \in 1 .. Len(s) + 1, NEW S
  PROVE  /\ Until(s, i, S) \in i .. Len(s) + 1
         /\ Until(s, i, S) \in S \/ Until(s, i, S) = Len(s) + 1
         /\ \A j \in i .. Until(s, i, S) - 1 : j \notin S
<1> DEFINE T == {j \in i .. Len(s) + 1 : j \in S \/ j = Len(s) + 1}
<1>1. T \in SUBSET Nat /\ Len(s) + 1 \in T
  OBVIOUS
<1>2. Until(s, i, S) = Least(T)
  BY DEF Until
<1>3. Least(T) \in T /\ \A y \in T : Least(T) <= y
  <2> HIDE DEF T
  <2> QED
    BY <1>1, LeastIs
<1> HIDE DEF Until
<1>4. ASSUME NEW j \in i .. Until(s, i, S) - 1, j \in S PROVE FALSE
  <2>1. j \in T /\ ~(Until(s, i, S) <= j)
    BY <1>2, <1>3, <1>4
  <2> QED
    BY <1>2, <1>3, <2>1
<1> QED
  BY <1>2, <1>3, <1>4

LEMMA PieceIs ==
  ASSUME NEW s \in Seq(Chars), NEW i \in 1 .. Len(s) + 1, NEW m \in i .. Len(s) + 1
  PROVE  /\ SubSeq(s, i, m - 1) \in Seq(Chars)
         /\ Len(SubSeq(s, i, m - 1)) = m - i
         /\ \A j \in 1 .. m - i : SubSeq(s, i, m - 1)[j] = s[i + j - 1]
         /\ \A j \in 1 .. m - i : i + j - 1 \in i .. m - 1 /\ i + j - 1 \in DOMAIN s
<1>1. i \in Int /\ m - 1 \in Int /\ \A j \in i .. m - 1 : s[j] \in Chars
  OBVIOUS
<1>2. /\ SubSeq(s, i, m - 1) \in Seq(Chars)
      /\ Len(SubSeq(s, i, m - 1)) = IF i <= m - 1 THEN (m - 1) - i + 1 ELSE 0
      /\ \A j \in 1 .. (m - 1) - i + 1 : SubSeq(s, i, m - 1)[j] = s[i + j - 1]
  BY <1>1, SubSeqProperties
<1>3. (m - 1) - i + 1 = m - i
  OBVIOUS
<1> QED
  BY <1>2, <1>3

\* A loop whose spans stand for the pieces it goes through stands for the text.
LEMMA PushedText ==
  ASSUME NEW W \in SUBSET Spans, NEW text \in Seq(Chars), NEW turn \in Seq(W),
         Len(turn) = Len(text), NEW go, GoesOn(Len(text), go),
         \A i \in 1 .. Len(text) : Source(turn[i]) = SubSeq(text, i, go[i] - 1)
  PROVE  Pushed(turn, go) \in Seq(W) /\ Text(Pushed(turn, go)) = text
<1> DEFINE n == Len(text)
<1>1. PICK f \in [1 .. n + 1 -> Seq(W)] :
             /\ Pushed(turn, go) = f[1]
             /\ f[n + 1] = <<>>
             /\ \A i \in 1 .. n : f[i] = <<turn[i]>> \o f[go[i]]
  <2>1. PICK f : FromPlaces(W, turn, go, f)
    BY PushedIs
  <2> QED
    BY <2>1 DEF FromPlaces
<1>2. \A i \in 1 .. n : turn[i] \in W /\ turn[i] \in Spans
  OBVIOUS
<1>3. \A i \in 1 .. n + 1 : f[i] \in Seq(W) /\ f[i] \in Seq(Spans)
  <2>1. SUFFICES ASSUME NEW i \in 1 .. n + 1 PROVE f[i] \in Seq(W) /\ f[i] \in Seq(Spans)
    OBVIOUS
  <2>2. f[i] \in Seq(W)
    BY <1>1
  <2> QED
    BY <2>2, SeqMonotonic
<1>4. n \in Nat /\ \A i \in 1 .. n : go[i] \in i + 1 .. n + 1
  BY DEF GoesOn
<1>5. \A i \in 1 .. n : Source(turn[i]) = SubSeq(text, i, go[i] - 1)
  OBVIOUS
<1> HIDE DEF n
<1> DEFINE S == {i \in 1 .. n + 1 : Text(f[i]) = SubSeq(text, i, n)}
<1>6. ASSUME NEW i \in 1 .. n + 1, \A j \in i + 1 .. n + 1 : j \in S
      PROVE  i \in S
  <2>1. CASE i = n + 1
    <3>1. SubSeq(text, n + 1, n) = <<>>
      BY <1>4, SubSeqEmpty
    <3> QED
      BY <1>1, <2>1, <3>1, TextOfNone
  <2>2. CASE i # n + 1
    <3>1. i \in 1 .. n
      BY <1>4, <2>2
    <3> DEFINE m == go[i]
    <3>2. m \in i + 1 .. n + 1 /\ m \in 1 .. n + 1
      BY <1>4, <3>1
    <3>3. Source(turn[i]) = SubSeq(text, i, m - 1)
      BY <1>5, <3>1
    <3>4. f[i] = <<turn[i]>> \o f[m]
      BY <1>1, <3>1
    <3> HIDE DEF m
    <3>5. Text(f[m]) = SubSeq(text, m, n)
      BY <1>6, <3>2
    <3>6. Text(f[i]) = Source(turn[i]) \o Text(f[m])
      <4>1. <<turn[i]>> \in Seq(Spans) /\ Text(<<turn[i]>>) = Source(turn[i])
        BY <1>2, <3>1, TextOfOne
      <4>2. f[m] \in Seq(Spans)
        BY <1>3, <3>2
      <4> QED
        BY <3>4, <4>1, <4>2, TextOfConcat
    <3>7. SubSeq(text, i, m - 1) \o SubSeq(text, m, n) = SubSeq(text, i, n)
      <4>1. /\ i \in 1 .. Len(text) + 1 /\ m - 1 \in i - 1 .. Len(text)
            /\ Len(text) \in m - 1 .. Len(text) /\ (m - 1) + 1 = m
        BY <1>4, <3>1, <3>2 DEF n
      <4>2. SubSeq(text, i, m - 1) \o SubSeq(text, (m - 1) + 1, Len(text))
              = SubSeq(text, i, Len(text))
        BY <4>1, ConcatAdjacentSubSeq
      <4> QED
        BY <4>1, <4>2 DEF n
    <3> QED
      BY <3>3, <3>5, <3>6, <3>7
  <2> QED
    BY <2>1, <2>2
<1>7. S = 1 .. n + 1
  <2>1. S \in SUBSET (1 .. n + 1)
    OBVIOUS
  <2> HIDE DEF S
  <2> QED
    BY <1>4, <1>6, <2>1, Downwards
<1>8. 1 \in 1 .. n + 1
  BY <1>4
<1>9. Text(f[1]) = SubSeq(text, 1, n)
  BY <1>7, <1>8
<1>10. SubSeq(text, 1, n) = text
  BY SubSeqFull DEF n
<1> QED
  BY <1>1, <1>3, <1>8, <1>9, <1>10

-----------------------------------------------------------------------------
(* Links.                                                                    *)

IsLink(t) == t[1] = Scheme /\ ~Has(t, Space) /\ ~Strippable(t, Len(t))

UrlSpans ==
  {s \in Spans : /\ OneLine(s.text)
                 /\ \/ s.style = "Link" /\ IsLink(s.text)
                    \/ s.style = "text" /\ ~Has(s.text, Scheme)}

LEMMA StripIs ==
  ASSUME NEW url \in Seq(Chars)
  PROVE  \E k \in 0 .. Len(url) :
           /\ StripTrailingPunct(url) = SubSeq(url, 1, k)
           /\ k > 0 => ~Strippable(url, k)
           /\ \A j \in k + 1 .. Len(url) : Strippable(url, j)
<1> DEFINE S == {k \in 0 .. Len(url) : \A j \in k + 1 .. Len(url) : Strippable(url, j)}
           k == Least(S)
<1>1. Len(url) \in S
  OBVIOUS
<1>2. k \in S /\ \A y \in S : k <= y
  <2>1. S \in SUBSET Nat /\ S # {}
    BY <1>1
  <2> HIDE DEF S
  <2> QED
    BY <2>1, LeastIs
<1>3. StripTrailingPunct(url) = SubSeq(url, 1, k)
  BY DEF StripTrailingPunct, Prefix
<1> HIDE DEF k
<1>4. ASSUME k > 0 PROVE ~Strippable(url, k)
  <2>1. SUFFICES ASSUME Strippable(url, k) PROVE k - 1 \in S
    <3>1. k \in Nat /\ ~(k <= k - 1)
      BY <1>2
    <3> HIDE DEF S
    <3> QED
      BY <1>2, <3>1
  <2>2. k \in 0 .. Len(url) /\ \A j \in k + 1 .. Len(url) : Strippable(url, j)
    BY <1>2
  <2>3. k - 1 \in 0 .. Len(url)
    BY <1>4, <2>2
  <2>4. \A j \in (k - 1) + 1 .. Len(url) : j = k \/ j \in k + 1 .. Len(url)
    BY <2>2
  <2> QED
    BY <2>1, <2>2, <2>3, <2>4
<1> QED
  BY <1>2, <1>3, <1>4

\* A link at place i goes some way from there, and to the next blank at most.
LEMMA LinkAt ==
  ASSUME NEW line \in Seq(Chars), OneLine(line), NEW i \in 1 .. Len(line), line[i] = Scheme
  PROVE  LET t == StripTrailingPunct(Word(line, i))
         IN /\ t \in Seq(Chars) /\ Len(t) > 0 /\ i + Len(t) \in 1 .. Len(line) + 1
            /\ t = SubSeq(line, i, i + Len(t) - 1)
            /\ OneLine(t) /\ IsLink(t)
<1> DEFINE blanks == {j \in DOMAIN line : line[j] = Space}
           u == Until(line, i, blanks)
           w == Word(line, i)
           t == StripTrailingPunct(w)
<1>1. /\ u \in i .. Len(line) + 1
      /\ u \in blanks \/ u = Len(line) + 1
      /\ \A j \in i .. u - 1 : j \notin blanks
  <2> HIDE DEF blanks
  <2> QED
    BY UntilIs
<1>2. i \notin blanks
  BY DEF Scheme, Space
<1>3. w = SubSeq(line, i, u - 1)
  BY DEF Word
<1> HIDE DEF u, w
<1>4. u > i
  BY <1>1, <1>2
<1>5. /\ w \in Seq(Chars) /\ Len(w) = u - i
      /\ \A j \in 1 .. u - i : w[j] = line[i + j - 1]
      /\ \A j \in 1 .. u - i : i + j - 1 \in i .. u - 1 /\ i + j - 1 \in DOMAIN line
  BY <1>1, <1>3, PieceIs
<1>6. PICK k \in 0 .. Len(w) :
             /\ t = SubSeq(w, 1, k)
             /\ k > 0 => ~Strippable(w, k)
             /\ \A j \in k + 1 .. Len(w) : Strippable(w, j)
  BY <1>5, StripIs
<1> HIDE DEF t
<1>7. k > 0
  <2>1. w[1] = Scheme
    BY <1>1, <1>4, <1>5
  <2>2. ~Strippable(w, 1)
    BY <2>1 DEF Strippable, TrailingPunct, Brackets, Scheme
  <2>3. 1 \in 0 + 1 .. Len(w)
    BY <1>1, <1>4, <1>5
  <2> QED
    BY <1>6, <2>2, <2>3
<1>8. /\ t \in Seq(Chars) /\ Len(t) = k
      /\ \A j \in 1 .. k : t[j] = w[j]
  BY <1>5, <1>6, SubSeqProperties
<1>9. \A j \in 1 .. k : t[j] = line[i + j - 1] /\ i + j - 1 \in i .. u - 1
                          /\ i + j - 1 \in DOMAIN line
  <2>1. SUFFICES ASSUME NEW j \in 1 .. k
                 PROVE  /\ t[j] = line[i + j - 1] /\ i + j - 1 \in i .. u - 1
                        /\ i + j - 1 \in DOMAIN line
    OBVIOUS
  <2>2. j \in 1 .. u - i
    BY <1>1, <1>5, <1>6
  <2> QED
    BY <1>5, <1>8, <2>2, Zenon
<1>10. i + k \in i .. Len(line) + 1 /\ i + k \in 1 .. Len(line) + 1
  BY <1>1, <1>5, <1>6
<1>11. t = SubSeq(line, i, i + k - 1)
  <2>1. /\ SubSeq(line, i, i + k - 1) \in Seq(Chars)
        /\ Len(SubSeq(line, i, i + k - 1)) = k
        /\ \A j \in 1 .. k : SubSeq(line, i, i + k - 1)[j] = line[i + j - 1]
    <3>1. i + k - 1 = (i + k) - 1 /\ (i + k) - i = k
      OBVIOUS
    <3> QED
      BY <1>10, <3>1, PieceIs
  <2> QED
    BY <1>8, <1>9, <2>1, SeqEqual
<1>12. OneLine(t)
  BY <1>8, <1>9 DEF OneLine
<1>13. t[1] = Scheme
  BY <1>7, <1>9
<1>14. ~Has(t, Space)
  <2>1. \A j \in 1 .. k : t[j] # Space
    BY <1>1, <1>9
  <2> QED
    BY <1>8, <2>1 DEF Has
<1>15. ~Strippable(t, Len(t))
  <2>1. SubSeq(t, 1, k) = t
    BY <1>8, SubSeqFull
  <2>2. t[k] = w[k]
    BY <1>7, <1>8
  <2>3. Prefix(t, k) = Prefix(w, k)
    BY <1>6, <2>1 DEF Prefix
  <2> QED
    BY <1>6, <1>7, <1>8, <2>2, <2>3 DEF Strippable
<1> QED
  BY <1>7, <1>8, <1>10, <1>11, <1>12, <1>13, <1>14, <1>15 DEF IsLink, t, w

LEMMA SplitUrlsKeeps ==
  ASSUME NEW line \in Seq(Chars), OneLine(line)
  PROVE  SplitUrls(line) \in Seq(UrlSpans) /\ Text(SplitUrls(line)) = line
<1> DEFINE n == Len(line)
           schemes == {i \in DOMAIN line : line[i] = Scheme}
           At(i) == IF i \in schemes THEN Span("Link", StripTrailingPunct(Word(line, i)))
                    ELSE Span("text", SubSeq(line, i, Until(line, i, schemes) - 1))
           turn == [i \in DOMAIN line |-> At(i)]
           go == [i \in DOMAIN line |-> i + Len(turn[i].text)]
<1>1. SplitUrls(line) = Pushed(turn, go)
  BY DEF SplitUrls
<1>2. DOMAIN line = 1 .. n /\ n \in Nat
  OBVIOUS
<1>3. ASSUME NEW i \in 1 .. n
      PROVE  LET s == At(i)
                 m == i + Len(s.text)
             IN s \in UrlSpans /\ m \in i + 1 .. n + 1 /\ s.text = SubSeq(line, i, m - 1)
  <2>1. CASE i \in schemes
    <3> DEFINE t == StripTrailingPunct(Word(line, i))
    <3>1. /\ t \in Seq(Chars) /\ Len(t) > 0 /\ i + Len(t) \in 1 .. n + 1
          /\ t = SubSeq(line, i, i + Len(t) - 1)
          /\ OneLine(t) /\ IsLink(t)
      BY <2>1, LinkAt
    <3> HIDE DEF t
    <3>2. At(i) = Span("Link", t)
      BY <2>1 DEF t
    <3>3. Span("Link", t) \in UrlSpans /\ Span("Link", t).text = t
      BY <3>1 DEF Span, UrlSpans, Spans
    <3>4. i + Len(t) \in i + 1 .. n + 1 /\ i + Len(t) - 1 = (i + Len(t)) - 1
      BY <3>1
    <3> HIDE DEF At
    <3> QED
      BY <3>1, <3>2, <3>3, <3>4
  <2>2. CASE i \notin schemes
    <3> DEFINE u == Until(line, i, schemes)
               t == SubSeq(line, i, u - 1)
    <3>1. u \in i .. n + 1 /\ (u \in schemes \/ u = n + 1) /\ \A j \in i .. u - 1 : j \notin schemes
      <4> HIDE DEF schemes
      <4> QED
        BY UntilIs
    <3>2. At(i) = Span("text", t)
      BY <2>2
    <3> HIDE DEF u
    <3>3. u > i
      BY <2>2, <3>1
    <3>4. /\ t \in Seq(Chars) /\ Len(t) = u - i
          /\ \A j \in 1 .. u - i : t[j] = line[i + j - 1]
          /\ \A j \in 1 .. u - i : i + j - 1 \in i .. u - 1 /\ i + j - 1 \in DOMAIN line
      BY <3>1, PieceIs
    <3>5. i + Len(t) = u
      BY <3>1, <3>4
    <3>6. t = SubSeq(line, i, u - 1)
      OBVIOUS
    <3> HIDE DEF t
    <3>7. OneLine(t)
      BY <3>1, <3>4 DEF OneLine
    <3>8. ~Has(t, Scheme)
      <4>1. \A j \in 1 .. u - i : t[j] # Scheme
        BY <3>1, <3>4
      <4> QED
        BY <3>1, <3>4, <4>1 DEF Has
    <3>9. Span("text", t) \in UrlSpans /\ Span("text", t).text = t
      BY <3>4, <3>7, <3>8 DEF Span, UrlSpans, Spans
    <3> HIDE DEF At
    <3> QED
      BY <3>1, <3>2, <3>3, <3>5, <3>6, <3>9
  <2> QED
    BY <2>1, <2>2
<1> HIDE DEF At
<1>4. turn \in Seq(UrlSpans) /\ Len(turn) = n /\ \A i \in 1 .. n : turn[i] = At(i)
  BY <1>2, <1>3
<1>5. \A i \in 1 .. n : go[i] = i + Len(At(i).text)
  BY <1>2
<1>6. GoesOn(n, go)
  <2>1. \A i \in 1 .. n : go[i] \in i + 1 .. n + 1
    BY <1>3, <1>5
  <2>2. DOMAIN go = 1 .. n /\ go = [i \in 1 .. n |-> go[i]]
    BY <1>2
  <2> HIDE DEF go
  <2> QED
    BY <1>2, <2>1, <2>2 DEF GoesOn
<1>7. ASSUME NEW i \in 1 .. n PROVE Source(turn[i]) = SubSeq(line, i, go[i] - 1)
  <2> DEFINE s == At(i)
  <2>1. s \in UrlSpans /\ s.text = SubSeq(line, i, go[i] - 1)
    <3> HIDE DEF go, turn
    <3> QED
      BY <1>3, <1>5
  <2> HIDE DEF s
  <2>2. s \in Spans /\ OneLine(s.text) /\ s.style \notin Delimiters /\ s.style # "Quote"
    BY <2>1 DEF UrlSpans, Delimiters
  <2>3. Source(s) = s.text
    BY <2>2, SourceOfOneLine DEF Dressed
  <2>4. turn[i] = s
    BY <1>4 DEF s
  <2> HIDE DEF turn, go
  <2> QED
    BY <2>1, <2>3, <2>4
<1> HIDE DEF turn, go
<1>8. UrlSpans \in SUBSET Spans
  BY DEF UrlSpans
<1> QED
  BY <1>1, <1>4, <1>6, <1>7, <1>8, PushedText

-----------------------------------------------------------------------------
(* Delimiters.                                                               *)

InlineSpans ==
  {s \in Spans : /\ OneLine(s.text) /\ ~Has(s.text, Scheme)
                 /\ \/ s.style = "Plain"
                    \/ /\ s.style \in Delimiters
                       /\ s.text # <<>>
                       /\ s.text[1] # Space /\ s.text[Len(s.text)] # Space}

\* What stands between two delimiters, and with them.
LEMMA StyledAt ==
  ASSUME NEW chars \in Seq(Chars), OneLine(chars), ~Has(chars, Scheme),
         NEW i \in 1 .. Len(chars), Opens(chars, i), NEW p \in FindClose(chars, i + 1)
  PROVE  LET s == Span(chars[i], SubSeq(chars, i + 1, p - 1))
         IN /\ s \in InlineSpans
            /\ p + 1 \in i + 1 .. Len(chars) + 1
            /\ Source(s) = SubSeq(chars, i, (p + 1) - 1)
<1> DEFINE t == SubSeq(chars, i + 1, p - 1)
           d == chars[i]
           s == Span(d, t)
           n == Len(chars)
<1>1. d \in Delimiters /\ i < n /\ chars[i + 1] # Space
  BY DEF Opens
<1>2. p \in i + 2 .. n /\ chars[p] = d /\ chars[p - 1] # Space
  <2>1. /\ p \in (i + 1) + 1 .. n /\ chars[p] = chars[(i + 1) - 1] /\ chars[p - 1] # Space
    BY DEF FindClose
  <2>2. (i + 1) - 1 = i
    OBVIOUS
  <2> QED
    BY <2>1, <2>2
<1>3. /\ t \in Seq(Chars) /\ Len(t) = p - (i + 1)
      /\ \A j \in 1 .. p - (i + 1) : t[j] = chars[(i + 1) + j - 1]
      /\ \A j \in 1 .. p - (i + 1) : (i + 1) + j - 1 \in DOMAIN chars
  <2>1. i + 1 \in 1 .. n + 1 /\ p \in i + 1 .. n + 1
    BY <1>2
  <2> QED
    BY <2>1, PieceIs
<1>4. t[1] = chars[i + 1] /\ t[Len(t)] = chars[p - 1] /\ t # <<>>
  <2>1. 1 \in 1 .. p - (i + 1) /\ (i + 1) + 1 - 1 = i + 1
    BY <1>2
  <2>2. p - (i + 1) \in 1 .. p - (i + 1) /\ (i + 1) + (p - (i + 1)) - 1 = p - 1
    BY <1>2
  <2> HIDE DEF t
  <2>3. t[1] = chars[i + 1]
    BY <1>3, <2>1
  <2>4. t[p - (i + 1)] = chars[p - 1]
    BY <1>3, <2>2
  <2> QED
    BY <1>3, <2>1, <2>3, <2>4
<1>5. s.style = d /\ s.text = t
  BY DEF Span
<1>6. s \in Spans
  <2> HIDE DEF t, d
  <2> QED
    BY <1>1, <1>3 DEF Span, Spans
<1>7. t \o <<d>> = SubSeq(chars, i + 1, p)
  <2>1. i + 1 \in 1 .. n /\ p \in i + 1 .. n
    BY <1>2
  <2> QED
    BY <1>2, <2>1, SubSeqRecursiveSecond
<1>8. <<d>> \o SubSeq(chars, i + 1, p) = SubSeq(chars, i, p)
  <2>1. p \in i .. n
    BY <1>2
  <2> QED
    BY <2>1, SubSeqRecursiveFirst
<1> HIDE DEF t, s
<1>9. OneLine(t) /\ ~Has(t, Scheme)
  BY <1>3 DEF OneLine, Has
<1>10. s \in InlineSpans
  BY <1>1, <1>2, <1>4, <1>5, <1>6, <1>9 DEF InlineSpans
<1>11. Source(s) = <<d>> \o t \o <<d>>
  <2>1. d # "Quote"
    BY <1>1 DEF Delimiters
  <2> QED
    BY <1>1, <1>5, <1>6, <1>9, <2>1, SourceOfOneLine DEF Dressed
<1>12. (<<d>> \o t) \o <<d>> = <<d>> \o (t \o <<d>>)
  <2>1. <<d>> \in Seq(Chars)
    OBVIOUS
  <2> QED
    BY <1>3, <2>1, ConcatAssociative
<1>13. p + 1 \in i + 1 .. n + 1 /\ (p + 1) - 1 = p
  BY <1>2
<1> QED
  BY <1>7, <1>8, <1>10, <1>11, <1>12, <1>13 DEF s, t

LEMMA ParseInlineKeeps ==
  ASSUME NEW chars \in Seq(Chars), OneLine(chars), ~Has(chars, Scheme)
  PROVE  ParseInline(chars) \in Seq(InlineSpans) /\ Text(ParseInline(chars)) = chars
<1> DEFINE n == Len(chars)
           opens == {i \in DOMAIN chars : Opens(chars, i) /\ FindClose(chars, i + 1) # {}}
           close == [i \in opens |-> Least(FindClose(chars, i + 1))]
           At(i) == IF i \in opens THEN Span(chars[i], SubSeq(chars, i + 1, close[i] - 1))
                    ELSE Span("Plain", SubSeq(chars, i, Until(chars, i, opens) - 1))
           On(i) == IF i \in opens THEN close[i] + 1 ELSE Until(chars, i, opens)
           turn == [i \in DOMAIN chars |-> At(i)]
           go == [i \in DOMAIN chars |-> On(i)]
<1>1. ParseInline(chars) = Pushed(turn, go)
  BY DEF ParseInline
<1>2. DOMAIN chars = 1 .. n /\ n \in Nat
  OBVIOUS
<1>3. ASSUME NEW i \in 1 .. n
      PROVE  /\ At(i) \in InlineSpans /\ On(i) \in i + 1 .. n + 1
             /\ Source(At(i)) = SubSeq(chars, i, On(i) - 1)
  <2>1. CASE i \in opens
    <3> DEFINE p == Least(FindClose(chars, i + 1))
    <3>1. Opens(chars, i) /\ FindClose(chars, i + 1) # {}
      BY <2>1
    <3>2. p \in FindClose(chars, i + 1)
      <4>1. FindClose(chars, i + 1) \in SUBSET Nat
        BY DEF FindClose
      <4> QED
        BY <3>1, <4>1, LeastIs
    <3>3. close[i] = p
      BY <2>1
    <3> HIDE DEF p, close
    <3>4. At(i) = Span(chars[i], SubSeq(chars, i + 1, p - 1)) /\ On(i) = p + 1
      BY <2>1, <3>3
    <3> HIDE DEF At, On, opens
    <3>5. LET s == Span(chars[i], SubSeq(chars, i + 1, p - 1))
          IN /\ s \in InlineSpans
             /\ p + 1 \in i + 1 .. n + 1
             /\ Source(s) = SubSeq(chars, i, (p + 1) - 1)
      BY <3>1, <3>2, StyledAt
    <3> QED
      BY <3>4, <3>5
  <2>2. CASE i \notin opens
    <3> DEFINE u == Until(chars, i, opens)
               t == SubSeq(chars, i, u - 1)
               s == Span("Plain", t)
    <3>1. u \in i .. n + 1 /\ (u \in opens \/ u = n + 1)
      <4> HIDE DEF opens
      <4> QED
        BY UntilIs
    <3>2. At(i) = s /\ On(i) = u
      BY <2>2
    <3> HIDE DEF u
    <3>3. u \in i + 1 .. n + 1
      BY <2>2, <3>1
    <3>4. /\ t \in Seq(Chars) /\ Len(t) = u - i
          /\ \A j \in 1 .. u - i : t[j] = chars[i + j - 1]
          /\ \A j \in 1 .. u - i : i + j - 1 \in DOMAIN chars
      BY <3>1, PieceIs
    <3>5. t = SubSeq(chars, i, u - 1)
      OBVIOUS
    <3> HIDE DEF t
    <3>6. OneLine(t) /\ ~Has(t, Scheme)
      BY <3>4 DEF OneLine, Has
    <3>7. s \in Spans /\ s.style = "Plain" /\ s.text = t
      BY <3>4 DEF Span, Spans
    <3> HIDE DEF s, At, On, opens
    <3>8. s \in InlineSpans
      BY <3>6, <3>7 DEF InlineSpans
    <3>9. Source(s) = t
      BY <3>6, <3>7, SourceOfOneLine DEF Dressed, Delimiters
    <3> QED
      BY <3>2, <3>3, <3>5, <3>8, <3>9
  <2> QED
    BY <2>1, <2>2
<1> HIDE DEF At, On
<1>4. turn \in Seq(InlineSpans) /\ Len(turn) = n /\ \A i \in 1 .. n : turn[i] = At(i)
  BY <1>2, <1>3
<1>5. \A i \in 1 .. n : go[i] = On(i)
  BY <1>2
<1>6. GoesOn(n, go)
  <2>1. \A i \in 1 .. n : go[i] \in i + 1 .. n + 1
    BY <1>3, <1>5
  <2>2. DOMAIN go = 1 .. n /\ go = [i \in 1 .. n |-> go[i]]
    BY <1>2
  <2> HIDE DEF go
  <2> QED
    BY <1>2, <2>1, <2>2 DEF GoesOn
<1>7. \A i \in 1 .. n : Source(turn[i]) = SubSeq(chars, i, go[i] - 1)
  <2> HIDE DEF turn, go
  <2> QED
    BY <1>3, <1>4, <1>5
<1> HIDE DEF turn, go
<1>8. InlineSpans \in SUBSET Spans
  BY DEF InlineSpans
<1> QED
  BY <1>1, <1>4, <1>6, <1>7, <1>8, PushedText

-----------------------------------------------------------------------------
(* Lines.                                                                    *)

\* What SpansAreWhole says of one span.
IsWhole(s) ==
  LET t == OfLine(s.text)
  IN /\ s.style = "Link" => t[1] = Scheme /\ ~Has(t, Space) /\ ~Strippable(t, Len(t))
     /\ s.style \in Delimiters =>
          t # <<>> /\ t[1] # Space /\ t[Len(t)] # Space
     /\ Has(t, Scheme) => s.style \in {"Link", "Quote"}

WholeSpans == {s \in Spans : IsWhole(s)}

LEMMA InlineIsWhole == InlineSpans \subseteq WholeSpans
<1>1. SUFFICES ASSUME NEW s \in InlineSpans PROVE s \in WholeSpans
  OBVIOUS
<1>2. s \in Spans /\ s.text \in Seq(Chars) /\ OneLine(s.text)
  BY DEF InlineSpans, Spans
<1>3. OfLine(s.text) = s.text
  BY <1>2, OwnOfOneLine
<1>4. s.style # "Link"
  BY DEF InlineSpans, Delimiters
<1>5. ~Has(s.text, Scheme)
  BY DEF InlineSpans
<1>6. s.style \in Delimiters =>
        s.text # <<>> /\ s.text[1] # Space /\ s.text[Len(s.text)] # Space
  BY DEF InlineSpans, Delimiters
<1> QED
  BY <1>2, <1>3, <1>4, <1>5, <1>6 DEF IsWhole, WholeSpans

LEMMA SegmentKeeps ==
  ASSUME NEW s \in UrlSpans
  PROVE  Segment(s) \in Seq(WholeSpans) /\ Text(Segment(s)) = Source(s)
<1>1. /\ s \in Spans /\ s.text \in Seq(Chars) /\ OneLine(s.text)
      /\ s.style \in {"Link", "text"}
  BY DEF UrlSpans, Spans
<1>2. OfLine(s.text) = s.text
  BY <1>1, OwnOfOneLine
<1>3. CASE s.style = "Link"
  <2>1. IsLink(s.text)
    BY <1>3 DEF UrlSpans
  <2>2. s \in WholeSpans
    BY <1>1, <1>2, <1>3, <2>1 DEF IsLink, IsWhole, WholeSpans, Delimiters
  <2>3. Segment(s) = <<s>>
    BY <1>3 DEF Segment
  <2> QED
    BY <1>1, <2>2, <2>3, TextOfOne
<1>4. CASE s.style = "text"
  <2>1. ~Has(s.text, Scheme)
    BY <1>4 DEF UrlSpans
  <2>2. ParseInline(s.text) \in Seq(InlineSpans) /\ Text(ParseInline(s.text)) = s.text
    BY <1>1, <2>1, ParseInlineKeeps
  <2>3. Source(s) = s.text
    BY <1>1, <1>4, SourceOfOneLine DEF Dressed, Delimiters
  <2>4. Segment(s) = ParseInline(s.text)
    BY <1>4 DEF Segment
  <2> QED
    BY <2>2, <2>3, <2>4, InlineIsWhole, SeqMonotonic
<1> QED
  BY <1>1, <1>3, <1>4

LEMMA ParseLineKeeps ==
  ASSUME NEW line \in Seq(Chars), OneLine(line)
  PROVE  ParseLine(line) \in Seq(WholeSpans) /\ Text(ParseLine(line)) = line
<1>1. CASE IsQuote(line)
  <2> DEFINE n == Len(line)
             t == SubSeq(line, 3, n)
             s == Span("Quote", t)
  <2>1. n \in Nat /\ n >= 2 /\ line[1] = ">" /\ line[2] = Space
    BY <1>1 DEF IsQuote
  <2>2. /\ t \in Seq(Chars) /\ Len(t) = n - 2
        /\ \A j \in 1 .. n - 2 : t[j] = line[j + 2]
    <3>1. /\ SubSeq(line, 3, (n + 1) - 1) \in Seq(Chars)
          /\ Len(SubSeq(line, 3, (n + 1) - 1)) = (n + 1) - 3
          /\ \A j \in 1 .. (n + 1) - 3 : SubSeq(line, 3, (n + 1) - 1)[j] = line[3 + j - 1]
      <4>1. 3 \in 1 .. n + 1 /\ n + 1 \in 3 .. n + 1
        BY <2>1
      <4> QED
        BY <4>1, PieceIs
    <3> QED
      BY <2>1, <3>1
  <2>3. s \in Spans /\ s.style = "Quote" /\ s.text = t
    <3> HIDE DEF t
    <3> QED
      BY <2>2 DEF Span, Spans
  <2>4. ParseLine(line) = <<s>>
    BY <1>1 DEF ParseLine, From
  <2>5. <<">", Space>> \o t = line
    <3>1. line \in Seq(Chars) /\ <<">", Space>> \in Seq(Chars) /\ Len(<<">", Space>>) = 2
      BY DEF Chars
    <3> HIDE DEF t
    <3>2. /\ <<">", Space>> \o t \in Seq(Chars) /\ Len(<<">", Space>> \o t) = 2 + Len(t)
          /\ \A i \in 1 .. 2 + Len(t) :
               (<<">", Space>> \o t)[i] = IF i <= 2 THEN <<">", Space>>[i] ELSE t[i - 2]
      BY <2>2, <3>1, ConcatProperties
    <3>3. ASSUME NEW i \in 1 .. n PROVE (<<">", Space>> \o t)[i] = line[i]
      <4>1. i = 1 \/ i = 2 \/ (i - 2 \in 1 .. n - 2 /\ ~(i <= 2) /\ (i - 2) + 2 = i)
        BY <2>1
      <4>2. i \in 1 .. 2 + Len(t)
        BY <2>1, <2>2
      <4> QED
        BY <2>1, <2>2, <3>2, <4>1, <4>2
    <3>4. Len(<<">", Space>> \o t) = n /\ <<">", Space>> \o t \in Seq(Chars)
      BY <2>1, <2>2, <3>2
    <3> QED
      BY <3>1, <3>3, <3>4, SeqEqual
  <2> HIDE DEF s, t
  <2>6. OneLine(t)
    <3>1. ASSUME NEW j \in 1 .. n - 2 PROVE t[j] # NL
      <4>1. j + 2 \in DOMAIN line
        BY <2>1
      <4> QED
        BY <2>2, <4>1 DEF OneLine
    <3> QED
      BY <2>2, <3>1 DEF OneLine
  <2>7. Source(s) = line
    BY <2>3, <2>5, <2>6, SourceOfOneLine DEF Dressed, Delimiters
  <2>8. s \in WholeSpans
    BY <2>3 DEF WholeSpans, IsWhole, Delimiters
  <2> QED
    BY <2>3, <2>4, <2>7, <2>8, TextOfOne
<1>2. CASE ~IsQuote(line)
  <2> DEFINE urls == SplitUrls(line)
             parts == [i \in DOMAIN urls |-> Segment(urls[i])]
  <2>1. urls \in Seq(UrlSpans) /\ Text(urls) = line
    BY SplitUrlsKeeps
  <2>2. ParseLine(line) = FlattenSeq(parts)
    BY <1>2 DEF ParseLine
  <2> HIDE DEF urls
  <2>3. DOMAIN urls = 1 .. Len(urls) /\ Len(urls) \in Nat
    BY <2>1
  <2>4. ASSUME NEW i \in 1 .. Len(urls)
        PROVE  parts[i] \in Seq(WholeSpans) /\ Text(parts[i]) = Source(urls[i])
    <3>1. urls[i] \in UrlSpans /\ parts[i] = Segment(urls[i])
      BY <2>1, <2>3
    <3> HIDE DEF parts
    <3> QED
      BY <3>1, SegmentKeeps
  <2>5. DOMAIN parts = 1 .. Len(urls) /\ parts = [i \in 1 .. Len(urls) |-> parts[i]]
    BY <2>3
  <2> HIDE DEF parts
  <2>6. parts \in Seq(Seq(WholeSpans))
    <3>1. [i \in 1 .. Len(urls) |-> parts[i]] \in Seq(Seq(WholeSpans))
      BY <2>3, <2>4
    <3> QED
      BY <2>5, <3>1, Zenon
  <2>7. parts \in Seq(Seq(Spans))
    <3>1. WholeSpans \subseteq Spans
      BY DEF WholeSpans
    <3>2. Seq(WholeSpans) \subseteq Seq(Spans)
      BY <3>1, SeqMonotonic
    <3> QED
      BY <2>6, <3>2, SeqMonotonic
  <2>8. [i \in DOMAIN parts |-> Text(parts[i])] = [i \in DOMAIN urls |-> Source(urls[i])]
    BY <2>3, <2>4, <2>5
  <2>9. Text(FlattenSeq(parts)) = line
    BY <2>1, <2>7, <2>8, TextOfFlattened DEF Text
  <2> QED
    BY <2>2, <2>6, <2>9, FlattenType
<1> QED
  BY <1>1, <1>2

Mapped(F, a) == [i \in DOMAIN a |-> F[a[i]]]

LEMMA MappedConcat ==
  ASSUME NEW A, NEW B, NEW F \in [A -> B], NEW a \in Seq(A), NEW b \in Seq(A)
  PROVE  /\ Mapped(F, a) \in Seq(B) /\ Mapped(F, b) \in Seq(B)
         /\ Mapped(F, a \o b) = Mapped(F, a) \o Mapped(F, b)
<1> DEFINE c  == a \o b
           fa == [i \in DOMAIN a |-> F[a[i]]]
           fb == [i \in DOMAIN b |-> F[b[i]]]
           fc == [i \in DOMAIN c |-> F[c[i]]]
<1>1. /\ c \in Seq(A) /\ Len(c) = Len(a) + Len(b)
      /\ \A i \in 1 .. Len(a) + Len(b) : c[i] = IF i <= Len(a) THEN a[i] ELSE b[i - Len(a)]
  BY ConcatProperties
<1> HIDE DEF c
<1>2. /\ fa \in Seq(B) /\ Len(fa) = Len(a)
      /\ \A i \in 1 .. Len(a) : fa[i] = F[a[i]]
  OBVIOUS
<1>3. /\ fb \in Seq(B) /\ Len(fb) = Len(b)
      /\ \A i \in 1 .. Len(b) : fb[i] = F[b[i]]
  OBVIOUS
<1>4. /\ fc \in Seq(B) /\ Len(fc) = Len(c)
      /\ \A i \in 1 .. Len(c) : fc[i] = F[c[i]]
  BY <1>1
<1> HIDE DEF fa, fb, fc
<1>5. /\ fa \o fb \in Seq(B) /\ Len(fa \o fb) = Len(fa) + Len(fb)
      /\ \A i \in 1 .. Len(fa) + Len(fb) :
           (fa \o fb)[i] = IF i <= Len(fa) THEN fa[i] ELSE fb[i - Len(fa)]
  <2>1. fa \in Seq(B) /\ fb \in Seq(B)
    BY <1>2, <1>3
  <2> QED
    BY <2>1, ConcatProperties
<1>6. ASSUME NEW i \in 1 .. Len(c) PROVE fc[i] = (fa \o fb)[i]
  <2>1. i \in 1 .. Len(fa) + Len(fb) /\ i \in 1 .. Len(a) + Len(b)
    BY <1>1, <1>2, <1>3
  <2>2. CASE i <= Len(a)
    <3>1. i \in 1 .. Len(a)
      BY <2>1, <2>2
    <3> QED
      BY <1>1, <1>2, <1>4, <1>5, <2>1, <2>2, <3>1
  <2>3. CASE ~(i <= Len(a))
    <3> DEFINE j == i - Len(a)
    <3>1. j \in 1 .. Len(b)
      BY <2>1, <2>3
    <3>2. c[i] = b[j] /\ (fa \o fb)[i] = fb[j]
      BY <1>1, <1>2, <1>5, <2>1, <2>3
    <3> HIDE DEF j
    <3> QED
      BY <1>3, <1>4, <3>1, <3>2
  <2> QED
    BY <2>2, <2>3
<1>7. Len(fc) = Len(fa \o fb) /\ Len(fc) = Len(c)
  BY <1>1, <1>2, <1>3, <1>4, <1>5
<1>8. fc = fa \o fb
  BY <1>4, <1>5, <1>6, <1>7, SeqEqual
<1> QED
  BY <1>2, <1>3, <1>8 DEF fa, fb, fc, c, Mapped

\* A sequence of lines, each with its end, one after the other.
OneLines == {line \in Seq(Chars) : OneLine(line)}
Ender == [line \in OneLines |-> Append(line, NL)]
Ended(ls) == FlattenSeq(Mapped(Ender, ls))

LEMMA EndedIs ==
  /\ Ended(<<>>) = <<>>
  /\ \A line \in OneLines : Ended(<<line>>) = Append(line, NL)
  /\ \A a, b \in Seq(OneLines) :
       /\ a \o b \in Seq(OneLines)
       /\ Ended(a) \in Seq(Chars)
       /\ Ended(a \o b) = Ended(a) \o Ended(b)
<1>1. Ender \in [OneLines -> Seq(Chars)] /\ \A line \in OneLines : Ender[line] = Append(line, NL)
  <2>1. NL \in Chars /\ \A line \in OneLines : line \in Seq(Chars)
    BY DEF Chars, OneLines
  <2>2. \A line \in OneLines : Append(line, NL) \in Seq(Chars)
    BY <2>1, AppendProperties
  <2> QED
    BY <2>2 DEF Ender
<1>2. Ended(<<>>) = <<>>
  <2>1. Mapped(Ender, <<>>) = <<>>
    BY DEF Mapped
  <2> QED
    BY <2>1, FlattenOfNone DEF Ended
<1>3. ASSUME NEW line \in OneLines PROVE Ended(<<line>>) = Append(line, NL)
  <2>1. Mapped(Ender, <<line>>) = <<Ender[line]>>
    BY DEF Mapped
  <2>2. Ender[line] \in Seq(Chars)
    BY <1>1
  <2>3. FlattenSeq(<<Ender[line]>>) = Ender[line]
    BY <2>2, FlattenOfOne
  <2> QED
    BY <1>1, <2>1, <2>3 DEF Ended
<1>4. ASSUME NEW a \in Seq(OneLines), NEW b \in Seq(OneLines)
      PROVE  /\ a \o b \in Seq(OneLines)
             /\ Ended(a) \in Seq(Chars)
             /\ Ended(a \o b) = Ended(a) \o Ended(b)
  <2> DEFINE fa == Mapped(Ender, a)
             fb == Mapped(Ender, b)
  <2>1. /\ fa \in Seq(Seq(Chars)) /\ fb \in Seq(Seq(Chars))
        /\ Mapped(Ender, a \o b) = fa \o fb
    <3> DEFINE V == Seq(Chars)
    <3>1. Ender \in [OneLines -> V]
      BY <1>1
    <3> HIDE DEF V, fa, fb
    <3>2. /\ Mapped(Ender, a) \in Seq(V) /\ Mapped(Ender, b) \in Seq(V)
          /\ Mapped(Ender, a \o b) = Mapped(Ender, a) \o Mapped(Ender, b)
      BY <3>1, MappedConcat, SMTT(30)
    <3> QED
      BY <3>2 DEF V, fa, fb
  <2>2. Ended(a) = FlattenSeq(fa) /\ Ended(b) = FlattenSeq(fb) /\ Ended(a \o b) = FlattenSeq(fa \o fb)
    BY <2>1 DEF Ended
  <2> HIDE DEF fa, fb
  <2>3. FlattenSeq(fa \o fb) = FlattenSeq(fa) \o FlattenSeq(fb) /\ FlattenSeq(fa) \in Seq(Chars)
    BY <2>1, FlattenConcat, FlattenType
  <2>4. a \o b \in Seq(OneLines)
    BY ConcatProperties
  <2> QED
    BY <2>2, <2>3, <2>4
<1> QED
  BY <1>2, <1>3, <1>4

\* The lines with their ends are the text, but for the end of its last line.
LEMMA LinesKeep ==
  ASSUME NEW text \in Seq(Chars)
  PROVE  /\ Lines(text) \in Seq(OneLines)
         /\ Ended(Lines(text)) = text \/ Ended(Lines(text)) = Append(text, NL)
<1> DEFINE n == Len(text)
           NLs == {j \in DOMAIN text : text[j] = NL}
           end == [i \in DOMAIN text |-> Until(text, i, NLs)]
           turn == [i \in DOMAIN text |-> SubSeq(text, i, end[i] - 1)]
           go == [i \in DOMAIN text |-> IF end[i] > Len(text) THEN end[i] ELSE end[i] + 1]
<1>1. NL \in Chars /\ <<NL>> \in Seq(Chars)
  BY DEF Chars
<1>2. Lines(text) = Pushed(turn, go)
  BY DEF Lines
<1>3. DOMAIN text = 1 .. n /\ n \in Nat
  OBVIOUS
<1>4. ASSUME NEW i \in 1 .. n
      PROVE  /\ end[i] \in i .. n + 1
             /\ end[i] <= n => text[end[i]] = NL
             /\ turn[i] = SubSeq(text, i, end[i] - 1)
             /\ turn[i] \in OneLines
             /\ go[i] = IF end[i] > n THEN end[i] ELSE end[i] + 1
  <2> DEFINE u == Until(text, i, NLs)
  <2>1. /\ u \in i .. n + 1 /\ (u \in NLs \/ u = n + 1)
        /\ \A j \in i .. u - 1 : j \notin NLs
    <3> HIDE DEF NLs
    <3> QED
      BY UntilIs
  <2>2. end[i] = u /\ turn[i] = SubSeq(text, i, u - 1)
    BY <1>3
  <2>3. go[i] = IF u > n THEN u ELSE u + 1
    BY <1>3, <2>2
  <2> HIDE DEF u, end, turn, go
  <2>4. /\ SubSeq(text, i, u - 1) \in Seq(Chars) /\ Len(SubSeq(text, i, u - 1)) = u - i
        /\ \A j \in 1 .. u - i : SubSeq(text, i, u - 1)[j] = text[i + j - 1]
        /\ \A j \in 1 .. u - i : i + j - 1 \in i .. u - 1 /\ i + j - 1 \in DOMAIN text
    BY <2>1, PieceIs
  <2>5. \A j \in 1 .. u - i : SubSeq(text, i, u - 1)[j] # NL
    BY <2>1, <2>4
  <2>6. SubSeq(text, i, u - 1) \in OneLines
    <3> DEFINE t == SubSeq(text, i, u - 1)
    <3>1. t \in Seq(Chars) /\ Len(t) = u - i /\ \A j \in 1 .. u - i : t[j] # NL
      BY <2>4, <2>5
    <3> HIDE DEF t
    <3>2. t \in OneLines
      BY <3>1 DEF OneLines, OneLine
    <3> QED
      BY <3>2 DEF t
  <2> QED
    BY <1>3, <2>1, <2>2, <2>3, <2>6
<1>5. turn \in Seq(OneLines) /\ Len(turn) = n
  BY <1>3, <1>4
<1>6. GoesOn(n, go)
  <2>1. \A i \in 1 .. n : go[i] \in i + 1 .. n + 1
    <3>1. SUFFICES ASSUME NEW i \in 1 .. n PROVE go[i] \in i + 1 .. n + 1
      OBVIOUS
    <3>2. end[i] \in i .. n + 1 /\ go[i] = IF end[i] > n THEN end[i] ELSE end[i] + 1
      BY <1>4
    <3> HIDE DEF go, end
    <3> QED
      BY <1>3, <3>2
  <2>2. DOMAIN go = 1 .. n /\ go = [i \in 1 .. n |-> go[i]]
    BY <1>3
  <2> HIDE DEF go
  <2> QED
    BY <1>3, <2>1, <2>2 DEF GoesOn
<1> HIDE DEF turn, go, end
<1>7. PICK f : FromPlaces(OneLines, turn, go, f)
  BY <1>5, <1>6, PushedIs
<1>8. /\ f \in [1 .. n + 1 -> Seq(OneLines)]
      /\ Pushed(turn, go) = f[1] /\ f[n + 1] = <<>>
      /\ \A i \in 1 .. n : f[i] = <<turn[i]>> \o f[go[i]]
  BY <1>5, <1>7 DEF FromPlaces
<1> DEFINE Piece(i) == SubSeq(text, i, n)
           S == {i \in 1 .. n + 1 :
                   Ended(f[i]) = Piece(i) \/ Ended(f[i]) = Append(Piece(i), NL)}
<1>9. \A i \in 1 .. n + 1 : Piece(i) \in Seq(Chars)
  BY <1>3, SubSeqProperties
<1>10. Piece(n + 1) = <<>>
  BY <1>3, SubSeqEmpty
<1> HIDE DEF n
<1>11. ASSUME NEW i \in 1 .. n + 1, \A j \in i + 1 .. n + 1 : j \in S
       PROVE  i \in S
  <2>1. CASE i = n + 1
    <3>1. Ended(f[i]) = Piece(i)
      BY <1>8, <1>10, <2>1, EndedIs
    <3> QED
      BY <3>1
  <2>2. CASE i # n + 1
    <3>1. i \in 1 .. n
      BY <1>3, <2>2
    <3> DEFINE u == end[i]
               m == go[i]
    <3>2. /\ u \in i .. n + 1 /\ (u <= n => text[u] = NL)
          /\ turn[i] = SubSeq(text, i, u - 1) /\ turn[i] \in OneLines
          /\ m = IF u > n THEN u ELSE u + 1
      BY <1>4, <3>1
    <3>3. f[i] = <<turn[i]>> \o f[m] /\ m \in i + 1 .. n + 1
      BY <1>6, <1>8, <3>1 DEF GoesOn
    <3> HIDE DEF u, m
    <3>4. f[m] \in Seq(OneLines)
      BY <1>3, <1>8, <3>3
    <3>5. Ended(f[i]) = Append(turn[i], NL) \o Ended(f[m])
      <4>1. <<turn[i]>> \in Seq(OneLines)
        BY <3>2
      <4>2. Ended(<<turn[i]>> \o f[m]) = Ended(<<turn[i]>>) \o Ended(f[m])
        BY <3>4, <4>1, EndedIs
      <4>3. Ended(<<turn[i]>>) = Append(turn[i], NL)
        BY <3>2, EndedIs
      <4> QED
        BY <3>3, <4>2, <4>3
    <3>6. turn[i] \in Seq(Chars)
      BY <3>2 DEF OneLines
    <3>7. CASE u <= n
      <4>1. m = u + 1 /\ m \in S
        BY <1>3, <1>11, <3>2, <3>3, <3>7
      <4>2. Append(turn[i], NL) = SubSeq(text, i, u)
        <5>1. i \in 1 .. Len(text) /\ u \in i .. Len(text)
          BY <1>3, <3>1, <3>2, <3>7 DEF n
        <5>2. SubSeq(text, i, u) = SubSeq(text, i, u - 1) \o <<text[u]>>
          BY <5>1, SubSeqRecursiveSecond
        <5> QED
          BY <1>1, <3>2, <3>6, <3>7, <5>2, AppendIsConcat
      <4>3. SubSeq(text, i, u) \o Piece(m) = Piece(i)
        <5>1. /\ i \in 1 .. Len(text) + 1 /\ u \in i - 1 .. Len(text)
              /\ Len(text) \in u .. Len(text)
          BY <1>3, <3>1, <3>2, <3>7 DEF n
        <5> QED
          BY <4>1, <5>1, ConcatAdjacentSubSeq DEF n
      <4>4. SubSeq(text, i, u) \in Seq(Chars) /\ Piece(m) \in Seq(Chars)
        <5>1. Append(turn[i], NL) \in Seq(Chars)
          BY <1>1, <3>6, AppendProperties
        <5> QED
          BY <1>3, <1>9, <3>3, <4>2, <5>1
      <4>5. Ended(f[i]) = SubSeq(text, i, u) \o Ended(f[m])
        BY <3>5, <4>2
      <4> HIDE DEF Piece
      <4>6. SubSeq(text, i, u) \o Append(Piece(m), NL) = Append(Piece(i), NL)
        <5>1. SubSeq(text, i, u) \o Append(Piece(m), NL)
                = Append(SubSeq(text, i, u) \o Piece(m), NL)
          <6> DEFINE p == SubSeq(text, i, u)
                     q == Piece(m)
          <6>1. NL \in Chars /\ p \in Seq(Chars) /\ q \in Seq(Chars)
            BY <1>1, <4>4
          <6> HIDE DEF p, q
          <6>2. p \o Append(q, NL) = Append(p \o q, NL)
            BY <6>1, ConcatAppend
          <6> QED
            BY <6>2 DEF p, q
        <5> QED
          BY <4>3, <5>1
      <4>7. Ended(f[m]) = Piece(m) \/ Ended(f[m]) = Append(Piece(m), NL)
        BY <4>1
      <4> QED
        BY <4>3, <4>5, <4>6, <4>7
    <3>8. CASE ~(u <= n)
      <4>1. u = n + 1 /\ m = n + 1 /\ u - 1 = n
        BY <1>3, <3>2, <3>8
      <4>2. Ended(f[m]) = <<>>
        BY <1>8, <4>1, EndedIs
      <4>3. Append(turn[i], NL) = Append(Piece(i), NL)
        BY <3>2, <4>1
      <4>4. Append(turn[i], NL) \in Seq(Chars)
        BY <1>1, <3>6, AppendProperties
      <4>5. Ended(f[i]) = Append(turn[i], NL)
        BY <3>5, <4>2, <4>4, ConcatEmptySeq
      <4> HIDE DEF Piece
      <4> QED
        BY <4>3, <4>5
    <3> QED
      BY <3>7, <3>8
  <2> QED
    BY <2>1, <2>2
<1>12. S = 1 .. n + 1
  <2>1. S \in SUBSET (1 .. n + 1)
    OBVIOUS
  <2> HIDE DEF S
  <2> QED
    BY <1>3, <1>11, <2>1, Downwards
<1>13. 1 \in 1 .. n + 1
  BY <1>3
<1>14. Ended(f[1]) = Piece(1) \/ Ended(f[1]) = Append(Piece(1), NL)
  <2> HIDE DEF Piece
  <2> QED
    BY <1>12, <1>13
<1>15. Piece(1) = text
  BY SubSeqFull DEF n
<1> QED
  BY <1>2, <1>8, <1>13, <1>14, <1>15

LEMMA EndLineKeeps ==
  ASSUME NEW a \in Seq(WholeSpans)
  PROVE  EndLine(a) \in Seq(WholeSpans)
<1>1. NL \in Chars /\ WholeSpans \subseteq Spans
  BY DEF Chars, WholeSpans
<1>2. CASE a = <<>>
  <2> DEFINE s == Span("Plain", <<NL>>)
  <2>1. s \in Spans /\ s.style = "Plain" /\ s.text = <<NL>>
    BY <1>1 DEF Span, Spans
  <2>2. OfLine(<<NL>>) = <<>>
    <3>1. <<>> \in Seq(Chars) /\ OneLine(<<>>) /\ Append(<<>>, NL) = <<NL>>
      BY DEF OneLine
    <3> QED
      BY <3>1, OwnOfEnded, OwnOfOneLine
  <2>3. EndLine(a) = <<s>>
    BY <1>2 DEF EndLine
  <2> HIDE DEF s
  <2>4. s \in WholeSpans
    <3>1. s.style \notin Delimiters /\ s.style # "Link"
      BY <2>1 DEF Delimiters
    <3>2. ~Has(<<>>, Scheme)
      BY DEF Has
    <3>3. OfLine(s.text) = <<>>
      BY <2>1, <2>2
    <3> QED
      BY <2>1, <3>1, <3>2, <3>3 DEF WholeSpans, IsWhole
  <2> QED
    BY <2>3, <2>4
<1>3. CASE a # <<>>
  <2> DEFINE s == a[Len(a)]
             e == Span(s.style, Append(s.text, NL))
  <2>1. Len(a) \in 1 .. Len(a) /\ a \in Seq(Spans)
    BY <1>1, <1>3, SeqMonotonic
  <2>2. s \in Spans /\ IsWhole(s) /\ s.text \in Seq(Chars)
    <3>1. s \in WholeSpans
      BY <2>1
    <3> QED
      BY <3>1 DEF WholeSpans, Spans
  <2>3. EndLine(a) = [a EXCEPT ![Len(a)] = e]
    BY <1>3, <2>1, EndLineForm
  <2> HIDE DEF s
  <2>4. e \in Spans
    BY <2>2, SourceOfEnded
  <2>5. e.style = s.style /\ OfLine(e.text) = OfLine(s.text)
    BY <2>2, OwnOfEnded DEF Span
  <2> HIDE DEF e
  <2>6. e \in WholeSpans
    BY <2>2, <2>4, <2>5 DEF IsWhole, WholeSpans
  <2> QED
    BY <2>1, <2>3, <2>6, ExceptSeq
<1> QED
  BY <1>2, <1>3

\* What is parsed of the first lines.
UptoLine(ls, f) ==
  /\ f \in [0 .. Len(ls) -> Seq(WholeSpans)]
  /\ f[0] = <<>>
  /\ \A k \in 0 .. Len(ls) - 1 :
       f[k + 1] = (IF k > 0 THEN EndLine(f[k]) ELSE <<>>) \o ParseLine(ls[k + 1])

LEMMA ParseIs ==
  ASSUME NEW text \in Seq(Chars)
  PROVE  \E f : UptoLine(Lines(text), f) /\ Parse(text) = f[Len(Lines(text))]
<1> DEFINE ls == Lines(text)
           n == Len(ls)
           Step(f, k) == IF k = 0 THEN <<>>
                         ELSE (IF k > 1 THEN EndLine(f[k - 1]) ELSE <<>>) \o ParseLine(ls[k])
           F == CHOOSE f : f = [k \in 0 .. n |-> Step(f, k)]
<1>1. ls \in Seq(OneLines) /\ n \in Nat
  BY LinesKeep
<1>2. Parse(text) = F[n]
  BY DEF Parse
<1> HIDE DEF n, ls
<1>3. F = [k \in 0 .. n |-> Step(F, k)]
  <2> DEFINE Defined(m) == \E f : f = [k \in 0 .. m |-> Step(f, k)]
             S == {m \in Nat : Defined(m)}
  <2>1. 0 \in S
    <3> DEFINE f == [k \in 0 .. 0 |-> <<>>]
    <3>1. f = [k \in 0 .. 0 |-> Step(f, k)]
      OBVIOUS
    <3>2. Defined(0)
      <4> HIDE DEF f, Step
      <4> QED
        BY <3>1, Zenon
    <3> HIDE DEF Defined
    <3> QED
      BY <3>2
  <2>2. ASSUME NEW m \in S PROVE m + 1 \in S
    <3>1. PICK f : f = [k \in 0 .. m |-> Step(f, k)]
      OBVIOUS
    <3> DEFINE g == [k \in 0 .. m + 1 |-> IF k = m + 1 THEN Step(f, k) ELSE f[k]]
    <3>2. ASSUME NEW k \in 0 .. m + 1 PROVE g[k] = Step(g, k)
      <4>1. k = 0 \/ k - 1 \in 0 .. m
        OBVIOUS
      <4>2. k \in 0 .. m => f[k] = Step(f, k)
        BY <3>1
      <4>3. Step(g, k) = Step(f, k)
        BY <4>1
      <4>4. g[k] = IF k = m + 1 THEN Step(f, k) ELSE f[k]
        OBVIOUS
      <4>5. k = m + 1 \/ k \in 0 .. m
        OBVIOUS
      <4> HIDE DEF Step, g
      <4> QED
        BY <4>2, <4>3, <4>4, <4>5
    <3>3. g = [k \in 0 .. m + 1 |-> Step(g, k)]
      BY <3>2
    <3>4. Defined(m + 1)
      <4> HIDE DEF g, Step
      <4> QED
        BY <3>3, Zenon
    <3> HIDE DEF Defined
    <3> QED
      BY <3>4
  <2>3. S = Nat
    <3>1. S \in SUBSET Nat
      OBVIOUS
    <3> HIDE DEF S
    <3> QED
      BY <2>1, <2>2, <3>1, Induction
  <2>4. n \in S
    <3> HIDE DEF S
    <3> QED
      BY <1>1, <2>3
  <2>5. Defined(n)
    <3> HIDE DEF Defined
    <3> QED
      BY <2>4
  <2> HIDE DEF Step
  <2> QED
    BY <2>5, Zenon
<1> HIDE DEF F
<1>4. \A k \in 0 .. n : F[k] = Step(F, k)
  BY <1>3, Zenon
<1>5. F[0] = <<>>
  BY <1>1, <1>4
<1>6. \A k \in 0 .. n - 1 :
        F[k + 1] = (IF k > 0 THEN EndLine(F[k]) ELSE <<>>) \o ParseLine(ls[k + 1])
  <2>1. SUFFICES ASSUME NEW k \in 0 .. n - 1
                 PROVE  F[k + 1] = (IF k > 0 THEN EndLine(F[k]) ELSE <<>>) \o ParseLine(ls[k + 1])
    OBVIOUS
  <2>2. k + 1 \in 0 .. n /\ k \in Nat /\ k + 1 # 0 /\ (k + 1) - 1 = k /\ (k + 1 > 1 <=> k > 0)
    BY <1>1
  <2>3. F[k + 1] = Step(F, k + 1)
    BY <1>4, <2>2, Zenon
  <2>4. F[k + 1] = (IF k + 1 > 1 THEN EndLine(F[(k + 1) - 1]) ELSE <<>>) \o ParseLine(ls[k + 1])
    BY <2>2, <2>3
  <2> QED
    BY <2>2, <2>4
<1> DEFINE T == {k \in Nat : k \in 0 .. n => F[k] \in Seq(WholeSpans)}
<1>7. 0 \in T
  <2>1. <<>> \in Seq(WholeSpans)
    BY EmptySeq
  <2> QED
    BY <1>5, <2>1
<1>8. ASSUME NEW k \in T PROVE k + 1 \in T
  <2>1. SUFFICES ASSUME k + 1 \in 0 .. n PROVE F[k + 1] \in Seq(WholeSpans)
    OBVIOUS
  <2>2. k \in 0 .. n - 1 /\ k \in 0 .. n /\ k + 1 \in 1 .. n
    BY <1>1, <2>1
  <2>3. F[k] \in Seq(WholeSpans)
    BY <2>2
  <2> DEFINE before == IF k > 0 THEN EndLine(F[k]) ELSE <<>>
  <2>4. before \in Seq(WholeSpans)
    BY <2>3, EndLineKeeps
  <2>5. ls[k + 1] \in OneLines
    BY <1>1, <2>2 DEF n
  <2>6. ParseLine(ls[k + 1]) \in Seq(WholeSpans)
    BY <2>5, ParseLineKeeps DEF OneLines
  <2>7. F[k + 1] = before \o ParseLine(ls[k + 1])
    BY <1>6, <2>2
  <2> HIDE DEF before
  <2> QED
    BY <2>4, <2>6, <2>7, ConcatProperties
<1>9. T = Nat
  <2>1. T \in SUBSET Nat
    OBVIOUS
  <2> HIDE DEF T
  <2> QED
    BY <1>7, <1>8, <2>1, Induction
<1>10. \A k \in 0 .. n : F[k] \in Seq(WholeSpans)
  <2>1. SUFFICES ASSUME NEW k \in 0 .. n PROVE F[k] \in Seq(WholeSpans)
    OBVIOUS
  <2>2. k \in T
    <3> HIDE DEF T
    <3> QED
      BY <1>1, <1>9
  <2> QED
    BY <2>2
<1>11. F \in [0 .. n -> Seq(WholeSpans)]
  BY <1>3, <1>10
<1>12. UptoLine(ls, F)
  BY <1>5, <1>6, <1>11 DEF UptoLine, n
<1>13. UptoLine(Lines(text), F) /\ Parse(text) = F[Len(Lines(text))]
  BY <1>2, <1>12 DEF n, ls
<1> QED
  BY <1>13

LEMMA ParseKeeps ==
  ASSUME NEW text \in Seq(Chars)
  PROVE  /\ Parse(text) \in Seq(WholeSpans)
         /\ Text(Parse(text)) = text \/ Append(Text(Parse(text)), NL) = text
<1> DEFINE ls == Lines(text)
           n == Len(ls)
<1>1. NL \in Chars
  BY DEF Chars
<1>2. /\ ls \in Seq(OneLines) /\ n \in Nat
      /\ Ended(ls) = text \/ Ended(ls) = Append(text, NL)
  BY LinesKeep
<1>3. PICK f : UptoLine(ls, f) /\ Parse(text) = f[n]
  BY ParseIs
<1> HIDE DEF ls
<1>4. /\ f \in [0 .. n -> Seq(WholeSpans)] /\ f[0] = <<>>
      /\ \A k \in 0 .. n - 1 :
           f[k + 1] = (IF k > 0 THEN EndLine(f[k]) ELSE <<>>) \o ParseLine(ls[k + 1])
  BY <1>3 DEF UptoLine
<1>5. \A k \in 1 .. n : ls[k] \in OneLines
  BY <1>2
<1>6. SubSeq(ls, 1, n) = ls
  BY <1>2, SubSeqFull
<1>7. \A k \in 0 .. n : SubSeq(ls, 1, k) \in Seq(OneLines)
  BY <1>2, SubSeqProperties
<1>8. \A k \in 1 .. n : SubSeq(ls, 1, k) = SubSeq(ls, 1, k - 1) \o <<ls[k]>>
  <2>1. SUFFICES ASSUME NEW k \in 1 .. n
                 PROVE  SubSeq(ls, 1, k) = SubSeq(ls, 1, k - 1) \o <<ls[k]>>
    OBVIOUS
  <2>2. 1 \in 1 .. Len(ls) /\ k \in 1 .. Len(ls)
    BY <1>2
  <2> QED
    BY <1>2, <2>2, SubSeqRecursiveSecond
<1> HIDE DEF n
<1>9. \A k \in 0 .. n : f[k] \in Seq(WholeSpans) /\ f[k] \in Seq(Spans)
  <2>1. WholeSpans \subseteq Spans
    BY DEF WholeSpans
  <2>2. \A k \in 0 .. n : f[k] \in Seq(WholeSpans)
    BY <1>4
  <2> QED
    BY <2>1, <2>2, SeqMonotonic
<1>10. \A k \in 1 .. n : /\ ParseLine(ls[k]) \in Seq(Spans) /\ Text(ParseLine(ls[k])) = ls[k]
                        /\ ls[k] \in Seq(Chars)
  <2>1. SUFFICES ASSUME NEW k \in 1 .. n
                 PROVE  /\ ParseLine(ls[k]) \in Seq(Spans) /\ Text(ParseLine(ls[k])) = ls[k]
                        /\ ls[k] \in Seq(Chars)
    OBVIOUS
  <2>2. ls[k] \in Seq(Chars) /\ OneLine(ls[k])
    BY <1>5 DEF OneLines
  <2>3. ParseLine(ls[k]) \in Seq(WholeSpans) /\ Text(ParseLine(ls[k])) = ls[k]
    BY <2>2, ParseLineKeeps
  <2>4. WholeSpans \subseteq Spans
    BY DEF WholeSpans
  <2> QED
    BY <2>2, <2>3, <2>4, SeqMonotonic
<1> DEFINE first(k) == SubSeq(ls, 1, k)
           Holds(k) == Append(Text(f[k]), NL) = Ended(first(k))
           S == {k \in Nat : k + 1 \in 1 .. n => Holds(k + 1)}
<1>11. ASSUME NEW k \in 1 .. n
       PROVE  Ended(first(k)) = Ended(first(k - 1)) \o Append(ls[k], NL)
  <2>1. first(k) = first(k - 1) \o <<ls[k]>>
    BY <1>8
  <2>2. first(k - 1) \in Seq(OneLines) /\ <<ls[k]>> \in Seq(OneLines)
    BY <1>2, <1>5, <1>7
  <2>3. Ended(<<ls[k]>>) = Append(ls[k], NL)
    BY <1>5, EndedIs
  <2> HIDE DEF first
  <2>4. Ended(first(k - 1) \o <<ls[k]>>) = Ended(first(k - 1)) \o Ended(<<ls[k]>>)
    BY <2>2, EndedIs
  <2> QED
    BY <2>1, <2>3, <2>4
<1>12. 0 \in S
  <2>1. SUFFICES ASSUME 0 + 1 \in 1 .. n PROVE Holds(1)
    OBVIOUS
  <2>2. 1 \in 1 .. n /\ 0 \in 0 .. n - 1
    BY <1>2, <2>1
  <2>3. f[1] = <<>> \o ParseLine(ls[1])
    <3>1. f[0 + 1] = (IF 0 > 0 THEN EndLine(f[0]) ELSE <<>>) \o ParseLine(ls[0 + 1])
      BY <1>4, <2>2
    <3>2. 0 + 1 = 1
      OBVIOUS
    <3> QED
      BY <3>1, <3>2
  <2>4. Text(f[1]) = ls[1] /\ ls[1] \in Seq(Chars)
    BY <1>10, <2>2, <2>3, ConcatEmptySeq
  <2>5. Ended(first(1)) = Append(ls[1], NL)
    <3>1. first(0) = <<>>
      BY SubSeqEmpty
    <3>2. Append(ls[1], NL) \in Seq(Chars)
      BY <1>1, <2>4, AppendProperties
    <3>3. Ended(first(1)) = Ended(first(1 - 1)) \o Append(ls[1], NL)
      BY <1>11, <2>2
    <3> HIDE DEF first
    <3>4. Ended(first(1)) = <<>> \o Append(ls[1], NL)
      BY <3>1, <3>3, EndedIs
    <3> QED
      BY <3>2, <3>4, ConcatEmptySeq
  <2> QED
    BY <2>4, <2>5
<1>13. ASSUME NEW k \in S PROVE k + 1 \in S
  <2>1. SUFFICES ASSUME (k + 1) + 1 \in 1 .. n PROVE Holds((k + 1) + 1)
    OBVIOUS
  <2> DEFINE m == k + 1
             line == ls[m + 1]
  <2>2. /\ m \in 1 .. n /\ m \in 0 .. n /\ m \in 0 .. n - 1 /\ m > 0 /\ m + 1 \in 1 .. n
        /\ (m + 1) - 1 = m
    BY <1>2, <2>1
  <2>3. Holds(m)
    BY <2>2
  <2> HIDE DEF m
  <2>4. f[m + 1] = EndLine(f[m]) \o ParseLine(line)
    BY <1>4, <2>2
  <2>5. f[m] \in Seq(Spans) /\ ParseLine(line) \in Seq(Spans)
    BY <1>9, <1>10, <2>2
  <2>6. Text(ParseLine(line)) = line /\ line \in Seq(Chars)
    BY <1>10, <2>2
  <2> HIDE DEF line
  <2>7. Text(f[m + 1]) = Append(Text(f[m]), NL) \o line
    <3>1. EndLine(f[m]) \in Seq(Spans) /\ Text(EndLine(f[m])) = Append(Text(f[m]), NL)
      BY <2>5, EndLineIs
    <3> DEFINE before == EndLine(f[m])
               parsed == ParseLine(line)
    <3>2. before \in Seq(Spans) /\ parsed \in Seq(Spans)
      BY <2>5, <3>1
    <3> HIDE DEF before, parsed
    <3>3. Text(before \o parsed) = Text(before) \o Text(parsed)
      BY <3>2, TextOfConcat
    <3> QED
      BY <2>4, <2>6, <3>1, <3>3 DEF before, parsed
  <2>8. Ended(first(m + 1)) = Ended(first(m)) \o Append(line, NL)
    <3> HIDE DEF first
    <3> QED
      BY <1>11, <2>2 DEF line
  <2>9. Append(Text(f[m]), NL) \in Seq(Chars)
    <3>1. Text(f[m]) \in Seq(Chars)
      BY <2>5, SourcesAre
    <3> QED
      BY <1>1, <3>1, AppendProperties
  <2> DEFINE sofar == Append(Text(f[m]), NL)
  <2>10. sofar = Ended(first(m))
    BY <2>3
  <2> HIDE DEF sofar, first
  <2>11. sofar \o Append(line, NL) = Append(sofar \o line, NL)
    <3>1. sofar \in Seq(Chars)
      BY <2>9 DEF sofar
    <3> QED
      BY <1>1, <2>6, <3>1, ConcatAppend
  <2>12. Text(f[m + 1]) = sofar \o line
    BY <2>7 DEF sofar
  <2>13. Holds(m + 1)
    BY <2>8, <2>10, <2>11, <2>12
  <2> QED
    BY <2>13 DEF m
<1>14. S = Nat
  <2>1. S \in SUBSET Nat
    OBVIOUS
  <2> HIDE DEF S
  <2> QED
    BY <1>12, <1>13, <2>1, Induction
<1>15. Parse(text) \in Seq(WholeSpans) /\ Parse(text) \in Seq(Spans)
  <2>1. n \in 0 .. n
    BY <1>2
  <2> QED
    BY <1>3, <1>9, <2>1
<1>16. CASE n = 0
  <2>1. ls = <<>>
    BY <1>2, <1>16 DEF n
  <2>2. text = <<>>
    <3>1. Append(text, NL) # <<>>
      BY <1>1, AppendProperties
    <3> QED
      BY <1>2, <2>1, <3>1, EndedIs
  <2>3. Parse(text) = <<>>
    BY <1>3, <1>4, <1>16
  <2> QED
    BY <1>15, <2>2, <2>3, TextOfNone
<1>17. CASE n # 0
  <2> DEFINE m == n - 1
  <2>1. m \in Nat /\ m + 1 = n /\ n \in 1 .. n
    BY <1>2, <1>17
  <2> HIDE DEF m
  <2>2. Holds(m + 1)
    <3>1. m \in S
      <4> HIDE DEF S
      <4> QED
        BY <1>14, <2>1
    <3> HIDE DEF Holds
    <3> QED
      BY <2>1, <3>1
  <2>3. Append(Text(Parse(text)), NL) = Ended(ls)
    BY <1>3, <1>6, <2>1, <2>2
  <2>4. Text(Parse(text)) \in Seq(Chars)
    BY <1>15, SourcesAre
  <2>5. Append(Text(Parse(text)), NL) = Append(text, NL) => Text(Parse(text)) = text
    BY <1>1, <2>4, AppendInjective
  <2> QED
    BY <1>2, <1>15, <2>3, <2>5
<1> QED
  BY <1>16, <1>17

-----------------------------------------------------------------------------
(* The theorems.                                                             *)

BodyOK == body \in Seq(Alphabet)

LEMMA BodyInit == StylingInit => BodyOK
BY DEF StylingInit, BodyOK

LEMMA BodyStep == BodyOK /\ StylingNext => BodyOK'
<1> SUFFICES ASSUME BodyOK, StylingNext PROVE BodyOK'
  OBVIOUS
<1>1. PICK c \in Alphabet : body' = Append(body, c)
  BY DEF StylingNext, Type
<1> QED
  BY <1>1, AppendProperties DEF BodyOK

LEMMA BodyStaysOK == StylingSpec => []BodyOK
<1>1. BodyOK /\ UNCHANGED body => BodyOK'
  BY DEF BodyOK
<1> QED
  BY <1>1, BodyInit, BodyStep, PTL DEF StylingSpec

LEMMA BodyIsText == BodyOK => body \in Seq(Chars)
<1>1. Alphabet \subseteq Chars
  BY DEF Chars
<1> QED
  BY <1>1, SeqMonotonic DEF BodyOK

LEMMA BodyIsKept == BodyOK => NothingLost
BY BodyIsText, ParseKeeps DEF NothingLost

LEMMA BodyIsWhole == BodyOK => SpansAreWhole
<1> SUFFICES ASSUME BodyOK PROVE SpansAreWhole
  OBVIOUS
<1>1. Parse(body) \in Seq(WholeSpans)
  BY BodyIsText, ParseKeeps
<1>2. \A i \in DOMAIN Parse(body) : IsWhole(Parse(body)[i])
  <2>1. \A i \in DOMAIN Parse(body) : Parse(body)[i] \in WholeSpans
    BY <1>1
  <2> QED
    BY <2>1 DEF WholeSpans
<1> QED
  BY <1>2, Zenon DEF SpansAreWhole, IsWhole

\* Whatever is typed, and in whatever alphabet: the spans a body is shown in,
\* with their delimiters, are the body, less one end of line at its end
\* (styling.rs, parse, split_urls, parse_inline).
THEOREM NothingIsLost == StylingSpec => []NothingLost
BY BodyStaysOK, BodyIsKept, PTL

\* Whatever is typed, and in whatever alphabet: a link begins with a scheme and
\* has no blank and no loose punctuation at its end, what stands between two
\* delimiters is not empty and has no blank at its ends, and a scheme is in a
\* link or a quote (styling.rs, strip_trailing_punct, find_close, parse_line).
THEOREM SpansStayWhole == StylingSpec => []SpansAreWhole
BY BodyStaysOK, BodyIsWhole, PTL
=============================================================================
