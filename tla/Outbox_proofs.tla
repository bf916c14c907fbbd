----------------------------- MODULE Outbox_proofs -----------------------------
(***************************************************************************)
(* Proofs about Outbox: the shape of its state, the bound of the token     *)
(* bucket and the order of the stanzas, for all constants.                 *)
(***************************************************************************)
EXTENDS Outbox, TLAPS

USE OutboxAssumption

-----------------------------------------------------------------------------
(* Types *)

ChannelOK == cmds \in Seq(Commands) /\ Len(cmds) <= CmdCap
LoopOK    == phase \in Phases /\ pc \in {"drain", "select"}
QueueOK   == outbox \in Seq(Nat) /\ wire \in Seq(Nat) /\ lost \in SUBSET Nat
BucketOK  == tokens \in Nat /\ tokens <= Cap /\ elapsed \in Nat
CountsOK  == pushed \in Nat /\ consumed \in Nat /\ ticks \in Nat /\ connects \in Nat

LEMMA TypeParts == TypeOK <=> ChannelOK /\ LoopOK /\ QueueOK /\ BucketOK /\ CountsOK
BY DEF TypeOK, ChannelOK, LoopOK, QueueOK, BucketOK, CountsOK

LEMMA RefilledType ==
  ASSUME BucketOK
  PROVE  Refilled \in Nat /\ Refilled <= Cap /\ Refilled <= tokens + elapsed * Rate
<1>1. elapsed * Rate \in Nat
  BY SMT DEF BucketOK
<1> QED
  BY <1>1, SMT DEF BucketOK, Refilled, Smaller

LEMMA FreshType ==
  ASSUME NEW k \in Nat, CountsOK
  PROVE  /\ Fresh(k) \in Seq(Nat) /\ Len(Fresh(k)) = k
         /\ \A i \in 1..k : Fresh(k)[i] = pushed + i
BY SMT DEF Fresh, CountsOK

LEMMA TailChannel ==
  ASSUME TypeOK, cmds # <<>>
  PROVE  Tail(cmds) \in Seq(Commands) /\ Len(Tail(cmds)) <= CmdCap
BY SMT DEF TypeOK

LEMMA TypeInit == Init => TypeOK
BY SMT DEF Init, TypeOK, Phases, Commands

LEMMA TypePush ==
  ASSUME NEW k \in Nat, TypeOK, Push(k)
  PROVE  /\ outbox' \in Seq(Nat) /\ pushed' \in Nat
         /\ pc' \in {"drain", "select"}
<1>1. Fresh(k) \in Seq(Nat)
  BY FreshType, TypeParts
<1> QED
  BY <1>1, SMT DEF Push, TypeOK

LEMMA TypeDrain == TypeOK /\ DrainOne => TypeOK'
<1> SUFFICES ASSUME TypeOK, DrainOne PROVE TypeOK'
  OBVIOUS
<1> USE TypeParts
<1>1. ChannelOK'
  BY SMT DEF DrainOne, ChannelOK
<1>2. LoopOK'
  BY SMT DEF DrainOne, LoopOK
<1>3. QueueOK'
  <2>1. /\ outbox \in Seq(Nat) /\ wire \in Seq(Nat) /\ lost \in SUBSET Nat
        /\ outbox # <<>>
    BY DEF DrainOne, QueueOK
  <2>2. Head(outbox) \in Nat /\ Tail(outbox) \in Seq(Nat)
    BY <2>1
  <2>3. outbox' \in Seq(Nat)
    <3>1. <<Head(outbox)>> \o Tail(outbox) \in Seq(Nat)
      BY <2>2, SMT
    <3> QED
      BY <2>2, <3>1 DEF DrainOne, Defer
  <2>4. wire' \in Seq(Nat) /\ lost' \in SUBSET Nat
    <3>1. Append(wire, Head(outbox)) \in Seq(Nat)
      BY <2>1, <2>2, SMT
    <3>2. lost \cup {Head(outbox)} \in SUBSET Nat
      BY <2>1, <2>2
    <3> QED
      BY <2>1, <3>1, <3>2, Zenon DEF DrainOne, HandOver
  <2> QED
    BY <2>3, <2>4 DEF QueueOK
<1>4. BucketOK' /\ CountsOK'
  BY RefilledType, SMT DEF DrainOne, BucketOK, CountsOK, ResetClock
<1> QED
  BY <1>1, <1>2, <1>3, <1>4 DEF TypeOK, ChannelOK, LoopOK, QueueOK, BucketOK,
     CountsOK

LEMMA TypeStep == TypeOK /\ [Next]_vars => TypeOK'
<1> SUFFICES ASSUME TypeOK, [Next]_vars PROVE TypeOK'
  OBVIOUS
<1> USE DEF TypeOK
<1>1. ASSUME NEW c \in Commands, Command(c) PROVE TypeOK'
  BY <1>1, SMT DEF Command
<1>2. CASE Tick
  BY <1>2, SMT DEF Tick
<1>3. CASE TakeIdle
  <2>1. cmds' \in Seq(Commands) /\ Len(cmds') <= CmdCap
    BY <1>3, TailChannel DEF TakeIdle
  <2>2. CASE Head(cmds) = "connect"
    BY <1>3, <2>1, <2>2, SMT DEF TakeIdle, Phases
  <2>3. CASE Head(cmds) # "connect"
    BY <1>3, <2>1, <2>3 DEF TakeIdle
  <2> QED
    BY <2>2, <2>3
<1>4. CASE DrainOne
  BY <1>4, TypeDrain
<1>5. CASE DrainDone
  BY <1>5, SMT DEF DrainDone
<1>6. CASE GoOnline
  BY <1>6, TypePush, SMT DEF GoOnline, Phases
<1>7. CASE TakeMessage
  BY <1>7, TypePush, SMT DEF TakeMessage
<1>8. ASSUME NEW k \in 0..1, Incoming(k) PROVE TypeOK'
  BY <1>8, TypePush, SMT DEF Incoming
<1>9. CASE Disconnected
  BY <1>9, SMT DEF Disconnected, Phases
<1>10. CASE EndSession
  <2>1. cmds' \in Seq(Commands) /\ Len(cmds') <= CmdCap
    <3>1. (cmds # <<>> /\ cmds' = Tail(cmds)) \/ cmds' = cmds
      BY <1>10, Zenon DEF EndSession
    <3> QED
      BY <3>1, TailChannel
  <2>2. lost' \in SUBSET Nat
    <3>1. Range(outbox) \subseteq Nat
      BY SMT DEF Range
    <3> QED
      BY <1>10, <3>1 DEF EndSession
  <2>3. phase' \in Phases /\ outbox' \in Seq(Nat)
    BY <1>10 DEF EndSession, Phases
  <2> QED
    BY <1>10, <2>1, <2>2, <2>3 DEF EndSession
<1>11. CASE LinkDies
  BY <1>11, SMT DEF LinkDies, Phases
<1>12. CASE UNCHANGED vars
  BY <1>12, SMT DEF vars
<1> QED
  BY <1>1, <1>2, <1>3, <1>4, <1>5, <1>6, <1>7, <1>8, <1>9, <1>10, <1>11,
     <1>12, Zenon DEF Next, Loop

\* The state of the outbound path keeps its shape; in particular the bucket
\* never holds more than its capacity and the channel never more than its own.
THEOREM OutboxTypeCorrect == Spec => []TypeOK
BY TypeInit, TypeStep, PTL DEF Spec

-----------------------------------------------------------------------------
(* The rate *)

\* What was consumed, what the bucket holds and what it will be refilled with
\* are together at most the burst and the ticks so far.
Budget ==
  ticks < MaxTicks =>
    /\ elapsed <= ticks
    /\ consumed + tokens + elapsed * Rate <= Cap + Rate * ticks

LEMMA BudgetBounds == TypeOK /\ Budget => RateLimited
<1> SUFFICES ASSUME TypeOK, Budget, ticks < MaxTicks
             PROVE  consumed <= Cap + Rate * ticks
  BY DEF RateLimited
<1> DEFINE a == elapsed * Rate
           b == Rate * ticks
<1>1. a \in Nat /\ b \in Nat
  BY SMT DEF TypeOK
<1>2. consumed + tokens + a <= Cap + b
  BY DEF Budget
<1>3. consumed \in Nat /\ tokens \in Nat
  BY DEF TypeOK
<1>4. consumed <= Cap + b
  <2> HIDE DEF a, b
  <2> QED
    BY <1>1, <1>2, <1>3, SMT
<1> QED
  BY <1>4

LEMMA BudgetInit == Init => Budget
BY SMT DEF Init, Budget

LEMMA BudgetTick == TypeOK /\ Budget /\ Tick => Budget'
<1> SUFFICES ASSUME TypeOK, Budget, Tick, ticks' < MaxTicks PROVE Budget'
  BY DEF Budget
<1>1. ticks < MaxTicks /\ ticks' = ticks + 1 /\ elapsed' = elapsed + 1
  BY SMT DEF Tick, TypeOK
<1>2. (elapsed + 1) * Rate = elapsed * Rate + Rate /\ elapsed * Rate \in Nat
  BY SMT DEF TypeOK
<1>3. Rate * (ticks + 1) = Rate * ticks + Rate /\ Rate * ticks \in Nat
  BY SMT DEF TypeOK
<1>4. tokens' = tokens /\ consumed' = consumed
  BY DEF Tick
<1>5. consumed + tokens + elapsed * Rate <= Cap + Rate * ticks /\ elapsed <= ticks
  BY <1>1 DEF Budget
<1>6. elapsed' * Rate = elapsed * Rate + Rate /\ Rate * ticks' = Rate * ticks + Rate
  BY <1>1, <1>2, <1>3
<1> DEFINE a == elapsed * Rate
           b == Rate * ticks
<1>7. consumed' + tokens' + (a + Rate) <= Cap + (b + Rate)
  <2> a \in Nat /\ b \in Nat /\ consumed + tokens + a <= Cap + b
    BY <1>2, <1>3, <1>5
  <2> HIDE DEF a, b
  <2> QED
    BY <1>4, SMT DEF TypeOK
<1> QED
  BY <1>1, <1>5, <1>6, <1>7, SMT DEF Budget, TypeOK

LEMMA Transfer ==
  ASSUME NEW c0 \in Nat, NEW t0 \in Nat, NEW c1 \in Nat, NEW t1 \in Nat,
         NEW a \in Nat, NEW b \in Nat, NEW r \in Nat, NEW k \in Nat,
         r <= t0 + a, c0 + t0 + a <= k + b, c1 + t1 <= c0 + r
  PROVE  c1 + t1 + 0 <= k + b
OBVIOUS

LEMMA BudgetDrain == TypeOK /\ Budget /\ DrainOne => Budget'
<1> SUFFICES ASSUME TypeOK, Budget, DrainOne, ticks < MaxTicks PROVE Budget'
  BY DEF Budget, DrainOne
<1>1. PICK a \in Nat : a = elapsed * Rate
  BY SMT DEF TypeOK
<1>2. PICK b \in Nat : b = Rate * ticks
  BY SMT DEF TypeOK
<1>3. PICK r \in Nat : r = Refilled /\ r <= tokens + a
  BY <1>1, RefilledType, TypeParts
<1>4. consumed + tokens + a <= Cap + b
  BY <1>1, <1>2 DEF Budget
<1>5. PICK c1 \in Nat, t1 \in Nat : c1 = consumed' /\ t1 = tokens'
  BY TypeDrain DEF TypeOK
<1>6. c1 + t1 <= consumed + r
  <2>1. CASE Refilled >= 1
    <3>1. t1 = r - 1 /\ c1 = consumed + 1
      BY <1>3, <1>5, <2>1 DEF DrainOne
    <3> QED
      BY <3>1, SMT DEF TypeOK
  <2>2. CASE ~(Refilled >= 1)
    <3>1. t1 = r /\ c1 = consumed
      BY <1>3, <1>5, <2>2 DEF DrainOne
    <3> QED
      BY <3>1, SMT DEF TypeOK
  <2> QED
    BY <2>1, <2>2
<1>7. c1 + t1 + 0 <= Cap + b
  <2>1. consumed \in Nat /\ tokens \in Nat /\ Cap \in Nat
    BY DEF TypeOK
  <2> QED
    BY <1>3, <1>4, <1>6, <2>1, Transfer, SMT
<1>8. elapsed' = 0 /\ ticks' = ticks /\ elapsed' * Rate = 0
  BY SMT DEF DrainOne, ResetClock
<1>9. elapsed' <= ticks'
  BY <1>8, SMT DEF TypeOK
<1>10. Cap + Rate * ticks' = Cap + b
  BY <1>2, <1>8
<1>11. consumed' + tokens' + elapsed' * Rate = c1 + t1 + 0
  BY <1>5, <1>8
<1> QED
  BY <1>7, <1>9, <1>10, <1>11, Zenon DEF Budget

LEMMA BudgetStep == TypeOK /\ Budget /\ [Next]_vars => Budget'
<1> SUFFICES ASSUME TypeOK, Budget, [Next]_vars PROVE Budget'
  OBVIOUS
<1>1. CASE Tick
  BY <1>1, BudgetTick
<1>2. CASE DrainOne
  BY <1>2, BudgetDrain
<1>3. CASE TakeIdle
  <2>1. CASE Head(cmds) = "connect"
    BY <1>3, <2>1, SMT DEF TakeIdle, Budget
  <2>2. CASE Head(cmds) # "connect"
    BY <1>3, <2>2 DEF TakeIdle, Budget
  <2> QED
    BY <2>1, <2>2
<1>4. CASE UNCHANGED <<tokens, elapsed, consumed, ticks>>
  BY <1>4 DEF Budget
<1> QED
  BY <1>1, <1>2, <1>3, <1>4 DEF Next, Loop, Command, DrainDone, GoOnline,
     TakeMessage, Incoming, Disconnected, EndSession, LinkDies, vars

\* The token bucket keeps its promise: in t ticks of a session the loop hands
\* over at most a burst and t refills, whatever is queued and however it is
\* deferred.
THEOREM RateIsLimited == Spec => []RateLimited
<1>1. Init => TypeOK /\ Budget
  BY TypeInit, BudgetInit
<1>2. TypeOK /\ Budget /\ [Next]_vars => (TypeOK /\ Budget)'
  BY TypeStep, BudgetStep
<1>3. TypeOK /\ Budget => RateLimited
  BY BudgetBounds
<1> QED
  BY <1>1, <1>2, <1>3, PTL DEF Spec

-----------------------------------------------------------------------------
(* The order *)

Rising(s)    == \A i, j \in DOMAIN s : i < j => s[i] < s[j]
Before(s, t) == \A i \in DOMAIN s, j \in DOMAIN t : s[i] < t[j]
Under(s, n)  == \A i \in DOMAIN s : s[i] <= n

\* The numbers sent, then those that wait, rise and are at most the last one
\* queued.
Order ==
  /\ Rising(wire) /\ Rising(outbox) /\ Before(wire, outbox)
  /\ Under(wire, pushed) /\ Under(outbox, pushed)

LEMMA RisingConcat ==
  ASSUME NEW s \in Seq(Nat), NEW t \in Seq(Nat),
         Rising(s), Rising(t), Before(s, t)
  PROVE  Rising(s \o t)
<1> SUFFICES ASSUME NEW i \in DOMAIN (s \o t), NEW j \in DOMAIN (s \o t), i < j
             PROVE  (s \o t)[i] < (s \o t)[j]
  BY DEF Rising
<1>1. /\ i \in 1..(Len(s) + Len(t)) /\ j \in 1..(Len(s) + Len(t))
      /\ (s \o t)[i] = IF i <= Len(s) THEN s[i] ELSE t[i - Len(s)]
      /\ (s \o t)[j] = IF j <= Len(s) THEN s[j] ELSE t[j - Len(s)]
  BY SMT
<1>2. CASE j <= Len(s)
  <2>1. i \in DOMAIN s /\ j \in DOMAIN s
    BY <1>1, <1>2, SMT
  <2> QED
    BY <1>1, <1>2, <2>1, SMT DEF Rising
<1>3. CASE i <= Len(s) /\ ~(j <= Len(s))
  <2>1. i \in DOMAIN s /\ j - Len(s) \in DOMAIN t
    BY <1>1, <1>3, SMT
  <2> QED
    BY <1>1, <1>3, <2>1, SMT DEF Before
<1>4. CASE ~(i <= Len(s))
  <2>1. /\ i - Len(s) \in DOMAIN t /\ j - Len(s) \in DOMAIN t
        /\ i - Len(s) < j - Len(s)
        /\ ~(j <= Len(s))
    BY <1>1, <1>4, SMT
  <2> QED
    BY <1>1, <1>4, <2>1, SMT DEF Rising
<1> QED
  BY <1>2, <1>3, <1>4

LEMMA TailFacts ==
  ASSUME NEW s \in Seq(Nat), s # <<>>
  PROVE  /\ Tail(s) \in Seq(Nat) /\ Head(s) \in Nat /\ Head(s) = s[1]
         /\ 1 \in DOMAIN s
         /\ \A i \in DOMAIN Tail(s) : i + 1 \in DOMAIN s /\ Tail(s)[i] = s[i + 1]
         /\ \A i \in DOMAIN Tail(s) : i \in Nat /\ i >= 1
BY SMT

LEMMA AppendFacts ==
  ASSUME NEW s \in Seq(Nat), NEW n \in Nat
  PROVE  /\ Append(s, n) \in Seq(Nat)
         /\ \A i \in DOMAIN Append(s, n) :
              \/ i \in DOMAIN s /\ Append(s, n)[i] = s[i]
              \/ i = Len(s) + 1 /\ Append(s, n)[i] = n
BY SMT

LEMMA OrderTail ==
  ASSUME TypeOK, Order, outbox # <<>>
  PROVE  /\ Rising(Tail(outbox)) /\ Before(wire, Tail(outbox))
         /\ Under(Tail(outbox), pushed)
         /\ \A i \in DOMAIN Tail(outbox) : Head(outbox) < Tail(outbox)[i]
         /\ \A i \in DOMAIN wire : wire[i] < Head(outbox)
         /\ Head(outbox) <= pushed
<1>1. outbox \in Seq(Nat)
  BY DEF TypeOK
<1>2. Rising(Tail(outbox))
  BY <1>1, TailFacts, SMT DEF Order, Rising
<1>3. Before(wire, Tail(outbox)) /\ Under(Tail(outbox), pushed)
  BY <1>1, TailFacts, Zenon DEF Order, Before, Under
<1>4. \A i \in DOMAIN Tail(outbox) : Head(outbox) < Tail(outbox)[i]
  BY <1>1, TailFacts, SMT DEF Order, Rising
<1>5. (\A i \in DOMAIN wire : wire[i] < Head(outbox)) /\ Head(outbox) <= pushed
  BY <1>1, TailFacts, Zenon DEF Order, Before, Under
<1> QED
  BY <1>2, <1>3, <1>4, <1>5

LEMMA OrderDrain == TypeOK /\ Order /\ DrainOne => Order'
<1> SUFFICES ASSUME TypeOK, Order, DrainOne PROVE Order'
  OBVIOUS
<1>1. /\ outbox # <<>> /\ pushed' = pushed
      /\ wire \in Seq(Nat) /\ outbox \in Seq(Nat) /\ pushed \in Nat
      /\ Rising(wire) /\ Under(wire, pushed)
  BY DEF DrainOne, TypeOK, Order
<1>2. Head(outbox) \in Nat /\ Tail(outbox) \in Seq(Nat)
  BY <1>1, TailFacts
<1>3. CASE Refilled >= 1 /\ phase = "online"
  <2> DEFINE h == Head(outbox)
             w == Append(wire, h)
  <2>1. wire' = w /\ outbox' = Tail(outbox)
    BY <1>3 DEF DrainOne, HandOver
  <2>2. \A i \in DOMAIN w : \/ i \in DOMAIN wire /\ w[i] = wire[i]
                            \/ i = Len(wire) + 1 /\ w[i] = h
    BY <1>1, <1>2, AppendFacts
  <2>3. \A i \in DOMAIN wire : i \in Nat /\ i <= Len(wire)
    BY <1>1, SMT
  <2>4. Rising(w)
    <3> SUFFICES ASSUME NEW i \in DOMAIN w, NEW j \in DOMAIN w, i < j
                 PROVE  w[i] < w[j]
      BY DEF Rising
    <3>1. i \in DOMAIN wire /\ w[i] = wire[i]
      BY <1>1, <2>2, <2>3, SMT
    <3>2. CASE j \in DOMAIN wire /\ w[j] = wire[j]
      BY <1>1, <3>1, <3>2 DEF Rising
    <3>3. CASE w[j] = h
      BY <1>1, <3>1, <3>3, OrderTail
    <3> QED
      BY <2>2, <3>2, <3>3
  <2>5. Before(w, Tail(outbox))
    BY <1>1, <2>2, OrderTail, Zenon DEF Before
  <2>6. Under(w, pushed)
    BY <1>1, <2>2, OrderTail, Zenon DEF Under
  <2> QED
    BY <1>1, <2>1, <2>4, <2>5, <2>6, OrderTail DEF Order
<1>4. CASE Refilled >= 1 /\ phase # "online"
  <2>1. wire' = wire /\ outbox' = Tail(outbox)
    BY <1>4 DEF DrainOne, HandOver
  <2> QED
    BY <1>1, <2>1, OrderTail DEF Order
<1>5. CASE ~(Refilled >= 1)
  <2>1. <<Head(outbox)>> \o Tail(outbox) = outbox
    BY <1>1, SMT
  <2>2. wire' = wire /\ outbox' = outbox
    BY <1>5, <2>1 DEF DrainOne, Defer
  <2> QED
    BY <1>1, <2>2 DEF Order
<1> QED
  BY <1>3, <1>4, <1>5

LEMMA OrderPush ==
  ASSUME NEW k \in Nat, TypeOK, Order, Push(k), wire' = wire
  PROVE  Order'
<1> DEFINE f == Fresh(k)
<1>1. /\ outbox' = outbox \o f /\ pushed' = pushed + k
      /\ wire \in Seq(Nat) /\ outbox \in Seq(Nat) /\ pushed \in Nat
  BY DEF Push, TypeOK
<1>2. f \in Seq(Nat) /\ DOMAIN f = 1..k /\ \A i \in 1..k : f[i] = pushed + i
  BY FreshType, TypeParts, SMT DEF Fresh
<1> HIDE DEF f
<1>3. Rising(f)
  BY <1>1, <1>2, SMT DEF Rising
<1>4. Before(outbox, f) /\ Before(wire, f) /\ Under(f, pushed + k)
  <2>1. ASSUME NEW s \in Seq(Nat), Under(s, pushed) PROVE Before(s, f)
    <3> SUFFICES ASSUME NEW i \in DOMAIN s, NEW j \in DOMAIN f PROVE s[i] < f[j]
      BY DEF Before
    <3>1. s[i] \in Nat /\ s[i] <= pushed
      BY <2>1 DEF Under
    <3>2. j \in 1..k /\ f[j] = pushed + j
      BY <1>2
    <3> QED
      BY <1>1, <3>1, <3>2, SMT
  <2>2. Under(f, pushed + k)
    BY <1>1, <1>2, SMT DEF Under
  <2> QED
    BY <1>1, <2>1, <2>2 DEF Order
<1>5. Rising(outbox \o f)
  BY <1>1, <1>2, <1>3, <1>4, RisingConcat DEF Order
<1>6. \A i \in DOMAIN (outbox \o f) :
        \/ i \in DOMAIN outbox /\ (outbox \o f)[i] = outbox[i]
        \/ i - Len(outbox) \in DOMAIN f /\ (outbox \o f)[i] = f[i - Len(outbox)]
  BY <1>1, <1>2, SMT
<1>7. Before(wire, outbox \o f)
  BY <1>4, <1>6, Zenon DEF Before, Order
<1>8. \A i \in DOMAIN outbox : outbox[i] <= pushed + k
  BY <1>1, SMT DEF Order, Under
<1>9. Under(outbox \o f, pushed + k)
  BY <1>4, <1>6, <1>8, Zenon DEF Under
<1>10. Under(wire, pushed + k)
  BY <1>1, SMT DEF Order, Under
<1> QED
  BY <1>1, <1>5, <1>7, <1>9, <1>10 DEF Order

LEMMA OrderStep == TypeOK /\ Order /\ [Next]_vars => Order'
<1> SUFFICES ASSUME TypeOK, Order, [Next]_vars PROVE Order'
  OBVIOUS
<1>1. CASE DrainOne
  BY <1>1, OrderDrain
<1>2. ASSUME NEW k \in Nat, Push(k), wire' = wire PROVE Order'
  BY <1>2, OrderPush
<1>3. CASE GoOnline
  BY <1>2, <1>3 DEF GoOnline
<1>4. CASE TakeMessage
  BY <1>2, <1>4 DEF TakeMessage
<1>5. ASSUME NEW k \in 0..1, Incoming(k) PROVE Order'
  <2> k \in Nat
    BY SMT
  <2> QED
    BY <1>2, <1>5 DEF Incoming
<1>6. CASE outbox' = <<>> /\ UNCHANGED <<wire, pushed>>
  <2>1. Rising(<<>>) /\ Before(wire, <<>>) /\ Under(<<>>, pushed)
    BY SMT DEF Rising, Before, Under
  <2> QED
    BY <1>6, <2>1 DEF Order
<1>7. CASE UNCHANGED <<outbox, wire, pushed>>
  BY <1>7 DEF Order
<1> QED
  BY <1>1, <1>3, <1>4, <1>5, <1>6, <1>7 DEF Next, Loop, Command, Tick, TakeIdle,
     DrainDone, Disconnected, EndSession, LinkDies, vars

\* Whatever is deferred, dropped with a session or queued while the loop runs,
\* the stanzas on the wire are in the order in which they were queued.
THEOREM WireIsInOrder == Spec => []InOrder
<1>1. Init => TypeOK /\ Order
  BY TypeInit, SMT DEF Init, Order, Rising, Before, Under
<1>2. TypeOK /\ Order /\ [Next]_vars => (TypeOK /\ Order)'
  BY TypeStep, OrderStep
<1>3. TypeOK /\ Order => InOrder
  BY RisingConcat DEF TypeOK, Order, InOrder, Rising
<1> QED
  BY <1>1, <1>2, <1>3, PTL DEF Spec
-----------------------------------------------------------------------------
(* Nothing vanishes *)

LEMMA RangeMember ==
  ASSUME NEW s \in Seq(Nat), NEW n
  PROVE  n \in Range(s) <=> \E i \in DOMAIN s : s[i] = n
BY DEF Range

LEMMA RangeTail ==
  ASSUME NEW s \in Seq(Nat), s # <<>>
  PROVE  Range(s) = {Head(s)} \cup Range(Tail(s))
<1>1. ASSUME NEW n \in Range(s) PROVE n \in {Head(s)} \cup Range(Tail(s))
  <2>1. PICK i \in DOMAIN s : s[i] = n
    BY DEF Range
  <2>2. CASE i = 1
    BY <2>1, <2>2, TailFacts
  <2>3. CASE i # 1
    <3>1. i - 1 \in DOMAIN Tail(s) /\ Tail(s)[i - 1] = n
      BY <2>1, <2>3, SMT
    <3> QED
      BY <3>1 DEF Range
  <2> QED
    BY <2>2, <2>3
<1>2. ASSUME NEW n \in {Head(s)} \cup Range(Tail(s)) PROVE n \in Range(s)
  <2>1. CASE n = Head(s)
    BY <2>1, TailFacts DEF Range
  <2>2. CASE n \in Range(Tail(s))
    <3>1. PICK i \in DOMAIN Tail(s) : Tail(s)[i] = n
      BY <2>2 DEF Range
    <3> QED
      BY <3>1, TailFacts DEF Range
  <2> QED
    BY <1>2, <2>1, <2>2
<1> QED
  BY <1>1, <1>2

LEMMA RangeAppend ==
  ASSUME NEW s \in Seq(Nat), NEW n \in Nat
  PROVE  Range(Append(s, n)) = Range(s) \cup {n}
<1>1. /\ \A i \in DOMAIN s : i \in DOMAIN Append(s, n) /\ Append(s, n)[i] = s[i]
      /\ Len(s) + 1 \in DOMAIN Append(s, n) /\ Append(s, n)[Len(s) + 1] = n
  BY SMT
<1>2. Range(s) \cup {n} \subseteq Range(Append(s, n))
  BY <1>1, Zenon DEF Range
<1>3. Range(Append(s, n)) \subseteq Range(s) \cup {n}
  BY AppendFacts, Zenon DEF Range
<1> QED
  BY <1>2, <1>3

LEMMA RangeConcat ==
  ASSUME NEW s \in Seq(Nat), NEW t \in Seq(Nat)
  PROVE  Range(s \o t) = Range(s) \cup Range(t)
<1>1. \A i \in DOMAIN (s \o t) :
        \/ i \in DOMAIN s /\ (s \o t)[i] = s[i]
        \/ i - Len(s) \in DOMAIN t /\ (s \o t)[i] = t[i - Len(s)]
  BY SMT
<1>2. \A i \in DOMAIN s : i \in DOMAIN (s \o t) /\ (s \o t)[i] = s[i]
  BY SMT
<1>3. \A i \in DOMAIN t : i + Len(s) \in DOMAIN (s \o t) /\ (s \o t)[i + Len(s)] = t[i]
  BY SMT
<1>4. Range(s \o t) \subseteq Range(s) \cup Range(t)
  BY <1>1, Zenon DEF Range
<1>5. Range(s) \cup Range(t) \subseteq Range(s \o t)
  BY <1>2, <1>3, Zenon DEF Range
<1> QED
  BY <1>4, <1>5

LEMMA RangeFresh ==
  ASSUME NEW k \in Nat, CountsOK
  PROVE  /\ Range(Fresh(k)) \cap 1..pushed = {}
         /\ 1..(pushed + k) = 1..pushed \cup Range(Fresh(k))
<1>1. DOMAIN Fresh(k) = 1..k /\ \A i \in 1..k : Fresh(k)[i] = pushed + i
  BY DEF Fresh
<1>2. \A n : n \in Range(Fresh(k)) <=> \E i \in 1..k : n = pushed + i
  BY <1>1, Zenon DEF Range
<1>3. \A n \in Nat : (\E i \in 1..k : n = pushed + i) <=> (pushed < n /\ n <= pushed + k)
  <2>1. \A n \in Nat : (pushed < n /\ n <= pushed + k) =>
                         n - pushed \in 1..k /\ n = pushed + (n - pushed)
    BY SMT DEF CountsOK
  <2>2. \A n \in Nat : \A i \in 1..k : n = pushed + i => pushed < n /\ n <= pushed + k
    BY SMT DEF CountsOK
  <2> QED
    BY <2>1, <2>2, Zenon
<1>4. \A n \in Range(Fresh(k)) : n \in Nat /\ pushed < n /\ n <= pushed + k
  <2> TAKE n \in Range(Fresh(k))
  <2>1. PICK i \in 1..k : n = pushed + i
    BY <1>2
  <2> QED
    BY <2>1, SMT DEF CountsOK
<1>5. Range(Fresh(k)) \cap 1..pushed = {}
  BY <1>4, SMT DEF CountsOK
<1>6. 1..pushed \cup Range(Fresh(k)) \subseteq 1..(pushed + k)
  BY <1>4, SMT DEF CountsOK
<1>7. ASSUME NEW n \in 1..(pushed + k), n \notin 1..pushed PROVE n \in Range(Fresh(k))
  <2>1. n \in Nat /\ pushed < n /\ n <= pushed + k
    BY <1>7, SMT DEF CountsOK
  <2> QED
    BY <1>2, <1>3, <2>1, Zenon
<1> QED
  BY <1>5, <1>6, <1>7, Zenon

\* Without a session nothing waits: a new session would discard it.
IdleIsEmpty == phase = "idle" => outbox = <<>>

Ledger == TypeOK /\ Order /\ Accounted /\ IdleIsEmpty

\* What waits was not sent; the head of the outbox is the oldest that waits.
LEMMA HeadIsOldest ==
  ASSUME Ledger, outbox # <<>>
  PROVE  /\ Head(outbox) \in Nat
         /\ Head(outbox) \notin Range(Tail(outbox))
         /\ Head(outbox) \notin Range(wire)
         /\ \A n \in Range(outbox) : n \in Nat /\ Head(outbox) <= n
<1>1. TypeOK /\ Order /\ outbox \in Seq(Nat) /\ Head(outbox) \in Nat
  BY TailFacts DEF Ledger, TypeOK
<1>2. \A n \in Range(Tail(outbox)) : n \in Nat /\ Head(outbox) < n
  <2>1. \A i \in DOMAIN Tail(outbox) : Tail(outbox)[i] \in Nat
    BY <1>1, TailFacts, SMT
  <2> QED
    BY <1>1, <2>1, OrderTail, Zenon DEF Range
<1>3. \A n \in Range(wire) : n \in Nat /\ n < Head(outbox)
  <2>1. \A i \in DOMAIN wire : wire[i] \in Nat
    BY <1>1, SMT DEF TypeOK
  <2> QED
    BY <1>1, <2>1, OrderTail, Zenon DEF Range
<1>4. Head(outbox) \notin Range(Tail(outbox)) /\ Head(outbox) \notin Range(wire)
  BY <1>1, <1>2, <1>3, SMT
<1>5. \A n \in Range(outbox) : n \in Nat /\ Head(outbox) <= n
  <2>1. \A n \in Range(outbox) : n = Head(outbox) \/ n \in Range(Tail(outbox))
    BY <1>1, RangeTail, Zenon
  <2> QED
    BY <1>1, <1>2, <2>1, SMT
<1> QED
  BY <1>1, <1>4, <1>5

LEMMA WaitsUnsent == TypeOK /\ Order => Range(wire) \cap Range(outbox) = {}
<1> SUFFICES ASSUME TypeOK, Order, NEW n \in Range(wire), n \in Range(outbox)
             PROVE  FALSE
  OBVIOUS
<1>1. PICK i \in DOMAIN wire : wire[i] = n
  BY DEF Range
<1>2. PICK j \in DOMAIN outbox : outbox[j] = n
  BY DEF Range
<1>3. n \in Nat
  BY <1>1, SMT DEF TypeOK
<1> QED
  BY <1>1, <1>2, <1>3, SMT DEF Order, Before

LEMMA LedgerDrain ==
  ASSUME Ledger, DrainOne
  PROVE  Accounted' /\ IdleIsEmpty'
<1>1. /\ outbox # <<>> /\ pushed' = pushed /\ phase' = phase
      /\ TypeOK /\ outbox \in Seq(Nat) /\ wire \in Seq(Nat)
  BY DEF DrainOne, Ledger, TypeOK
<1>2. IdleIsEmpty'
  BY <1>1, Zenon DEF Ledger, IdleIsEmpty
<1>3. Range(outbox) = {Head(outbox)} \cup Range(Tail(outbox))
  BY <1>1, RangeTail
<1>4. /\ Range(wire) \cup lost \cup Range(outbox) = 1..pushed
      /\ lost \cap (Range(wire) \cup Range(outbox)) = {}
  BY DEF Ledger, Accounted
<1>5. CASE Refilled >= 1 /\ phase = "online"
  <2>1. wire' = Append(wire, Head(outbox)) /\ outbox' = Tail(outbox) /\ lost' = lost
    BY <1>5 DEF DrainOne, HandOver
  <2>2. Range(wire') = Range(wire) \cup {Head(outbox)}
    BY <1>1, <2>1, HeadIsOldest, RangeAppend
  <2> QED
    BY <1>1, <1>2, <1>3, <1>4, <2>1, <2>2, Zenon DEF Accounted
<1>6. CASE Refilled >= 1 /\ phase # "online"
  <2>1. lost' = lost \cup {Head(outbox)} /\ outbox' = Tail(outbox) /\ wire' = wire
    BY <1>6 DEF DrainOne, HandOver
  <2>2. Head(outbox) \notin Range(wire) /\ Head(outbox) \notin Range(Tail(outbox))
    BY <1>1, HeadIsOldest
  <2> QED
    BY <1>1, <1>2, <1>3, <1>4, <2>1, <2>2, Zenon DEF Accounted
<1>7. CASE ~(Refilled >= 1)
  <2>1. <<Head(outbox)>> \o Tail(outbox) = outbox
    BY <1>1, SMT
  <2>2. outbox' = outbox /\ wire' = wire /\ lost' = lost
    BY <1>7, <2>1 DEF DrainOne, Defer
  <2> QED
    BY <1>1, <1>2, <1>4, <2>2 DEF Accounted
<1> QED
  BY <1>5, <1>6, <1>7

LEMMA LedgerPush ==
  ASSUME NEW k \in Nat, Ledger, InSelect, phase' # "idle", Push(k),
         UNCHANGED <<wire, lost>>
  PROVE  Accounted' /\ IdleIsEmpty'
<1>1. /\ outbox' = outbox \o Fresh(k) /\ pushed' = pushed + k
      /\ outbox \in Seq(Nat) /\ CountsOK /\ wire' = wire /\ lost' = lost
  BY DEF Push, Ledger, TypeOK, CountsOK
<1>2. Range(outbox') = Range(outbox) \cup Range(Fresh(k))
  BY <1>1, FreshType, RangeConcat
<1>3. /\ Range(Fresh(k)) \cap 1..pushed = {}
      /\ 1..(pushed + k) = 1..pushed \cup Range(Fresh(k))
  BY <1>1, RangeFresh
<1>4. /\ Range(wire) \cup lost \cup Range(outbox) = 1..pushed
      /\ lost \cap (Range(wire) \cup Range(outbox)) = {}
  BY DEF Ledger, Accounted
<1>5. lost \cap Range(Fresh(k)) = {}
  BY <1>3, <1>4, Zenon
<1>6. Accounted'
  <2>1. Range(wire') \cup lost' \cup Range(outbox') = 1..pushed'
    BY <1>1, <1>2, <1>3, <1>4, Zenon
  <2>2. lost' \cap (Range(wire') \cup Range(outbox')) = {}
    BY <1>1, <1>2, <1>4, <1>5, Zenon
  <2> QED
    BY <2>1, <2>2 DEF Accounted
<1> QED
  BY <1>6 DEF IdleIsEmpty

LEMMA LedgerStep == Ledger /\ [Next]_vars => Ledger'
<1> SUFFICES ASSUME Ledger, [Next]_vars PROVE Accounted' /\ IdleIsEmpty'
  BY TypeStep, OrderStep DEF Ledger
<1>1. CASE DrainOne
  BY <1>1, LedgerDrain
<1>2. CASE GoOnline
  BY <1>2, LedgerPush DEF GoOnline
<1>3. CASE TakeMessage
  BY <1>3, LedgerPush, SMT DEF TakeMessage, InSelect
<1>4. ASSUME NEW k \in 0..1, Incoming(k) PROVE Accounted' /\ IdleIsEmpty'
  <2>1. k \in Nat
    BY SMT
  <2> QED
    BY <1>4, <2>1, LedgerPush, Zenon DEF Incoming, InSelect
<1>5. CASE EndSession
  <2>1. Range(<<>>) = {}
    BY SMT DEF Range
  <2>2. /\ Range(wire) \cup lost \cup Range(outbox) = 1..pushed
        /\ lost \cap (Range(wire) \cup Range(outbox)) = {}
        /\ Range(wire) \cap Range(outbox) = {}
    BY WaitsUnsent DEF Ledger, Accounted
  <2>3. /\ lost' = lost \cup Range(outbox) /\ outbox' = <<>>
        /\ wire' = wire /\ pushed' = pushed
    BY <1>5 DEF EndSession
  <2> QED
    BY <2>1, <2>2, <2>3, Zenon DEF Accounted, IdleIsEmpty
<1>6. CASE TakeIdle
  <2>1. phase = "idle" /\ outbox = <<>> /\ UNCHANGED <<wire, lost, pushed>>
    BY <1>6 DEF TakeIdle, Ledger, IdleIsEmpty
  <2>2. outbox' = outbox
    BY <1>6, <2>1 DEF TakeIdle
  <2> QED
    BY <2>1, <2>2 DEF Ledger, Accounted, IdleIsEmpty
<1>7. CASE /\ UNCHANGED <<outbox, wire, lost, pushed>>
           /\ phase' = "idle" => phase = "idle"
  BY <1>7 DEF Ledger, Accounted, IdleIsEmpty
<1> QED
  BY <1>1, <1>2, <1>3, <1>4, <1>5, <1>6, <1>7 DEF Next, Loop, Command, Tick,
     DrainDone, Disconnected, LinkDies, vars

LEMMA LedgerInit == Init => Ledger
<1> SUFFICES ASSUME Init PROVE Ledger
  OBVIOUS
<1>1. Order
  BY SMT DEF Init, Order, Rising, Before, Under
<1>2. Range(<<>>) = {} /\ 1..0 = {}
  BY SMT DEF Range
<1>3. Accounted /\ IdleIsEmpty
  BY <1>2 DEF Init, Accounted, IdleIsEmpty
<1> QED
  BY <1>1, <1>3, TypeInit DEF Ledger

\* Every stanza that was queued is on the wire, given up or waiting, and what was
\* given up is neither sent nor waiting: deferral and the end of a session lose
\* no stanza unnoticed.
THEOREM StanzasAreAccounted == Spec => []Accounted
<1>1. Ledger => Accounted
  BY DEF Ledger
<1> QED
  BY <1>1, LedgerInit, LedgerStep, PTL DEF Spec

-----------------------------------------------------------------------------
(* The queue that is promised *)

LEMMA WaitingIsOutbox == Ledger => F!Waiting = Range(outbox)
<1> SUFFICES ASSUME Ledger PROVE F!Waiting = Range(outbox)
  OBVIOUS
<1>1. /\ Range(wire) \cup lost \cup Range(outbox) = 1..pushed
      /\ lost \cap (Range(wire) \cup Range(outbox)) = {}
      /\ Range(wire) \cap Range(outbox) = {}
  BY WaitsUnsent DEF Ledger, Accounted
<1>2. F!Waiting = 1..pushed \ (Range(wire) \cup lost)
  BY DEF F!Waiting, F!Range, Range
<1> QED
  BY <1>1, <1>2, Zenon

LEMMA StepsOfAQueue ==
  Ledger /\ [Next]_vars => [F!FifoNext]_(F!fifoVars)
<1> SUFFICES ASSUME Ledger, [Next]_vars
             PROVE  F!FifoNext \/ UNCHANGED <<pushed, wire, lost>>
  BY DEF F!fifoVars
<1>1. CASE DrainOne
  <2>1. outbox # <<>> /\ outbox \in Seq(Nat) /\ pushed' = pushed
    BY <1>1 DEF DrainOne, Ledger, TypeOK
  <2>2. Head(outbox) \in F!Waiting
    BY <2>1, RangeTail, WaitingIsOutbox
  <2>3. CASE Refilled >= 1 /\ phase = "online"
    <3>1. wire' = Append(wire, Head(outbox)) /\ lost' = lost
      BY <1>1, <2>3 DEF DrainOne, HandOver
    <3>2. \A t \in F!Waiting : Head(outbox) <= t
      BY <2>1, HeadIsOldest, WaitingIsOutbox
    <3> QED
      BY <2>1, <2>2, <3>1, <3>2, Zenon DEF F!FifoNext, F!Deliver
  <2>4. CASE Refilled >= 1 /\ phase # "online"
    <3>1. lost' = lost \cup {Head(outbox)} /\ wire' = wire
      BY <1>1, <2>4 DEF DrainOne, HandOver
    <3>2. {Head(outbox)} \in SUBSET F!Waiting
      BY <2>2
    <3> QED
      BY <2>1, <3>1, <3>2, Zenon DEF F!FifoNext, F!Abandon
  <2>5. CASE ~(Refilled >= 1)
    BY <1>1, <2>1, <2>5 DEF DrainOne
  <2> QED
    BY <2>3, <2>4, <2>5
<1>2. ASSUME NEW k \in Nat, Push(k), UNCHANGED <<wire, lost>> PROVE F!FifoNext
  <2>1. pushed' \in Nat /\ pushed' >= pushed
    BY <1>2, SMT DEF Push, Ledger, TypeOK
  <2> QED
    BY <1>2, <2>1 DEF F!FifoNext, F!Accept
<1>3. CASE GoOnline
  BY <1>2, <1>3 DEF GoOnline
<1>4. CASE TakeMessage
  BY <1>2, <1>4 DEF TakeMessage
<1>5. ASSUME NEW k \in 0..1, Incoming(k) PROVE F!FifoNext
  <2>1. k \in Nat
    BY SMT
  <2> QED
    BY <1>2, <1>5, <2>1 DEF Incoming
<1>6. CASE EndSession
  <2>1. Range(outbox) \in SUBSET F!Waiting
    BY WaitingIsOutbox
  <2>2. lost' = lost \cup Range(outbox) /\ UNCHANGED <<pushed, wire>>
    BY <1>6 DEF EndSession
  <2> QED
    BY <2>1, <2>2, Zenon DEF F!FifoNext, F!Abandon
<1>7. CASE UNCHANGED <<pushed, wire, lost>>
  BY <1>7
<1> QED
  BY <1>1, <1>3, <1>4, <1>5, <1>6, <1>7 DEF Next, Loop, Command, Tick, TakeIdle,
     DrainDone, Disconnected, LinkDies, vars

\* The outbound path implements the queue of Fifo: each of its steps accepts
\* stanzas, delivers the oldest that waits, gives some up, or is none of the
\* queue's business.
THEOREM OutboxImplementsFifo == Spec => ImplementsFifo
<1>1. Init => F!FifoInit
  BY DEF Init, F!FifoInit
<1> QED
  BY <1>1, LedgerInit, LedgerStep, StepsOfAQueue, PTL
     DEF Spec, ImplementsFifo, F!FifoSpec

-----------------------------------------------------------------------------
(* The promise is enough *)

\* What left is older than what waits: this much follows from the steps of a
\* queue alone.
FifoInv ==
  /\ wire \in Seq(Nat) /\ pushed \in Nat
  /\ Rising(wire)
  /\ \A i \in DOMAIN wire : wire[i] \in 1..pushed /\ wire[i] \notin lost
  /\ lost \subseteq 1..pushed
  /\ \A i \in DOMAIN wire : \A t \in F!Waiting : wire[i] < t

LEMMA FifoKeeps ==
  ASSUME FifoInv, [F!FifoNext]_(F!fifoVars)
  PROVE  FifoInv'
<1> USE DEF FifoInv, Rising
<1>1. CASE F!Accept
  <2>1. /\ pushed' \in Nat /\ pushed' >= pushed /\ wire' = wire /\ lost' = lost
    BY <1>1 DEF F!Accept
  <2>2. \A i \in DOMAIN wire : wire[i] \in 1..pushed' /\ wire[i] \notin lost
    BY <2>1
  <2>3. lost \subseteq 1..pushed'
    BY <2>1
  <2>4. ASSUME NEW i \in DOMAIN wire, NEW t \in F!Waiting' PROVE wire[i] < t
    <3>1. t \in 1..pushed' /\ t \notin F!Range(wire) \cup lost
      BY <2>1 DEF F!Waiting
    <3>2. CASE t <= pushed
      <4>1. t \in F!Waiting
        BY <2>1, <3>1, <3>2 DEF F!Waiting
      <4> QED
        BY <4>1
    <3>3. CASE t > pushed
      BY <2>1, <3>1, <3>3
    <3> QED
      BY <2>1, <3>1, <3>2, <3>3
  <2> QED
    BY <2>1, <2>2, <2>3, <2>4
<1>2. CASE F!Deliver
  <2>1. PICK s \in F!Waiting : (\A t \in F!Waiting : s <= t) /\ wire' = Append(wire, s)
    BY <1>2 DEF F!Deliver
  <2>2. pushed' = pushed /\ lost' = lost
    BY <1>2 DEF F!Deliver
  <2>3. s \in 1..pushed /\ s \notin lost /\ s \in Nat
    BY DEF F!Waiting
  <2>4. /\ wire' \in Seq(Nat) /\ DOMAIN wire = 1..Len(wire) /\ Len(wire) \in Nat
        /\ DOMAIN wire' = 1..Len(wire) + 1 /\ wire'[Len(wire) + 1] = s
        /\ \A i \in DOMAIN wire : wire'[i] = wire[i] /\ wire[i] \in Nat
    BY <2>1, <2>3
  <2>5. ASSUME NEW i \in DOMAIN wire', NEW j \in DOMAIN wire', i < j
        PROVE  wire'[i] < wire'[j]
    <3>1. i \in DOMAIN wire
      BY <2>4, <2>5
    <3>2. CASE j \in DOMAIN wire
      BY <2>4, <2>5, <3>1, <3>2
    <3>3. CASE j = Len(wire) + 1
      BY <2>1, <2>4, <3>1, <3>3
    <3> QED
      BY <2>4, <3>2, <3>3
  <2>6. ASSUME NEW i \in DOMAIN wire' PROVE wire'[i] \in 1..pushed /\ wire'[i] \notin lost
    <3>1. CASE i \in DOMAIN wire
      <4>1. wire'[i] = wire[i]
        BY <2>4, <3>1
      <4> QED
        BY <3>1, <4>1
    <3>2. CASE i = Len(wire) + 1
      BY <2>3, <2>4, <3>2
    <3> QED
      BY <2>4, <3>1, <3>2
  <2>7. F!Waiting' = F!Waiting \ {s}
    <3>1. F!Range(wire') = F!Range(wire) \cup {s}
      <4>1. DOMAIN wire' = DOMAIN wire \cup {Len(wire) + 1}
        BY <2>4
      <4>2. \A i \in DOMAIN wire : wire'[i] = wire[i]
        BY <2>4
      <4>3. \A x \in F!Range(wire') : x \in F!Range(wire) \cup {s}
        BY <2>4, <4>1, <4>2 DEF F!Range
      <4>4. s \in F!Range(wire')
        BY <2>4, <4>1 DEF F!Range
      <4>5. \A x \in F!Range(wire) : x \in F!Range(wire')
        BY <4>1, <4>2 DEF F!Range
      <4> QED
        BY <4>3, <4>4, <4>5
    <3> QED
      BY <2>2, <3>1 DEF F!Waiting
  <2>8. ASSUME NEW i \in DOMAIN wire', NEW t \in F!Waiting' PROVE wire'[i] < t
    <3>1. t \in F!Waiting /\ t # s
      BY <2>7
    <3>2. CASE i \in DOMAIN wire
      BY <2>4, <3>1, <3>2
    <3>3. CASE i = Len(wire) + 1
      <4>1. s <= t /\ t \in Nat
        BY <2>1, <3>1 DEF F!Waiting
      <4> QED
        BY <2>3, <2>4, <3>1, <3>3, <4>1
    <3> QED
      BY <2>4, <3>2, <3>3
  <2> QED
    BY <2>2, <2>4, <2>5, <2>6, <2>8
<1>3. CASE F!Abandon
  <2>1. PICK S \in SUBSET F!Waiting : lost' = lost \cup S
    BY <1>3 DEF F!Abandon
  <2>2. wire' = wire /\ pushed' = pushed
    BY <1>3 DEF F!Abandon
  <2>3. S \subseteq 1..pushed /\ \A i \in DOMAIN wire : wire[i] \notin S
    BY DEF F!Waiting, F!Range
  <2>4. F!Waiting' \subseteq F!Waiting
    BY <2>1, <2>2 DEF F!Waiting
  <2> QED
    BY <2>1, <2>2, <2>3, <2>4
<1>4. CASE UNCHANGED F!fifoVars
  BY <1>4 DEF F!fifoVars, F!Waiting
<1> QED
  BY <1>1, <1>2, <1>3, <1>4 DEF F!FifoNext

\* The queue promises enough: whatever follows its steps, this program or
\* another one, sends in order, sends nothing twice and nothing it gave up.
THEOREM FifoSuffices ==
  ImplementsFifo => [](Rising(wire) /\ \A i \in DOMAIN wire : wire[i] \notin lost)
<1>1. F!FifoInit => FifoInv
  <2> SUFFICES ASSUME F!FifoInit PROVE FifoInv
    OBVIOUS
  <2>1. wire = <<>> /\ pushed = 0 /\ lost = {}
    BY DEF F!FifoInit
  <2>2. wire \in Seq(Nat) /\ DOMAIN wire = {}
    BY <2>1
  <2> QED
    BY <2>1, <2>2 DEF FifoInv, Rising
<1>2. FifoInv => Rising(wire) /\ \A i \in DOMAIN wire : wire[i] \notin lost
  BY DEF FifoInv, Rising
<1> QED
  BY <1>1, <1>2, FifoKeeps, PTL DEF ImplementsFifo, F!FifoSpec
=============================================================================
