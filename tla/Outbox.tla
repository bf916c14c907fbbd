-------------------------------- MODULE Outbox --------------------------------
(***************************************************************************)
(* The outbound path of the engine: commands wait in the channel, the      *)
(* session loop turns them into stanzas in its outbox, and drains the      *)
(* outbox through a token bucket into the client before it waits for the   *)
(* next event or command.  Stanzas are numbered in the order they are put  *)
(* in the outbox.                                                          *)
(***************************************************************************)
EXTENDS Naturals, Sequences, Functions

CONSTANTS
  Cap,         \* burst size of the token bucket (30)
  Rate,        \* tokens per tick (10 per second)
  Burst,       \* stanzas queued by going online
  CmdCap,      \* capacity of the command channel (32)
  MaxPushed,   \* bound: stanzas queued in one run
  MaxTicks,    \* bound: ticks of the clock that are counted
  MaxSessions  \* bound: Connect and Disconnect commands in one run

ASSUME OutboxAssumption ==
  /\ Cap \in Nat \ {0} /\ Rate \in Nat \ {0} /\ Burst \in Nat
  /\ CmdCap \in Nat \ {0}
  /\ MaxPushed \in Nat /\ MaxTicks \in Nat /\ MaxSessions \in Nat

VARIABLES
  cmds,      \* the command channel
  phase,     \* no session, or what the client of the session is doing
  pc,        \* where the session loop is: draining or waiting in select!
  outbox,    \* numbers of the queued stanzas
  tokens,    \* tokens of the bucket at its last refill
  elapsed,   \* ticks since then
  wire,      \* history: stanzas the client took, in order
  lost,      \* history: stanzas that will never be sent
  pushed,    \* history: how many stanzas were ever queued
  consumed,  \* history: tokens consumed in this session
  ticks,     \* history: ticks in this session, counted up to MaxTicks
  connects   \* Connect and Disconnect commands so far (bound)

vars == <<cmds, phase, pc, outbox, tokens, elapsed, wire, lost, pushed,
          consumed, ticks, connects>>

Commands == {"msg", "connect", "disconnect"}
Phases == {"idle", "connecting", "online", "broken", "down"}

Smaller(a, b) == IF a < b THEN a ELSE b
Fresh(k) == [i \in 1..k |-> pushed + i]

Init ==
  /\ cmds = <<>> /\ phase = "idle" /\ pc = "select"
  /\ outbox = <<>> /\ tokens = Cap /\ elapsed = 0
  /\ wire = <<>> /\ lost = {} /\ pushed = 0
  /\ consumed = 0 /\ ticks = 0 /\ connects = 0

-----------------------------------------------------------------------------
(* The user and the clock *)

Command(c) ==
  /\ Len(cmds) < CmdCap
  /\ cmds' = Append(cmds, c)
  /\ IF c = "msg"
     THEN pushed < MaxPushed /\ UNCHANGED connects
     ELSE connects < MaxSessions /\ connects' = connects + 1
  /\ UNCHANGED <<phase, pc, outbox, tokens, elapsed, wire, lost, pushed,
                 consumed, ticks>>

\* After Cap ticks the bucket is full, and more of them make no difference.
Tick ==
  /\ phase # "idle" /\ elapsed < Cap
  /\ elapsed' = elapsed + 1
  /\ ticks' = IF ticks < MaxTicks THEN ticks + 1 ELSE ticks
  /\ UNCHANGED <<cmds, phase, pc, outbox, tokens, wire, lost, pushed, consumed,
                 connects>>

-----------------------------------------------------------------------------
(* Idle: run_engine *)

TakeIdle ==
  /\ phase = "idle" /\ cmds # <<>> /\ cmds' = Tail(cmds)
  /\ IF Head(cmds) = "connect"
     THEN /\ phase' = "connecting" /\ pc' = "drain"
          /\ outbox' = <<>> /\ tokens' = Cap /\ elapsed' = 0
          /\ consumed' = 0 /\ ticks' = 0
     ELSE UNCHANGED <<phase, pc, outbox, tokens, elapsed, consumed, ticks>>
  /\ UNCHANGED <<wire, lost, pushed, connects>>

-----------------------------------------------------------------------------
(* Draining the outbox *)

\* (mutant) The bucket is never refilled.
RefilledNever == tokens
Refilled == Smaller(tokens + elapsed * Rate, Cap)

\* (mutant) The same elapsed time refills the bucket again.
KeepClock == UNCHANGED elapsed
ResetClock == elapsed' = 0

\* A stanza is lost when the client has no stream, or a dead one; the error is
\* only logged.
HandOver(s) ==
  IF phase = "online"
  THEN wire' = Append(wire, s) /\ UNCHANGED lost
  ELSE lost' = lost \cup {s} /\ UNCHANGED wire

\* (mutant) A deferred stanza is not put back.
DeferDrop == Tail(outbox)
Defer == <<Head(outbox)>> \o Tail(outbox)

DrainOne ==
  /\ pc = "drain" /\ outbox # <<>>
  /\ ResetClock
  /\ IF Refilled >= 1
     THEN /\ tokens' = Refilled - 1 /\ consumed' = consumed + 1
          /\ outbox' = Tail(outbox)
          /\ HandOver(Head(outbox))
          /\ UNCHANGED pc
     ELSE /\ tokens' = Refilled
          /\ outbox' = Defer
          /\ pc' = "select"
          /\ UNCHANGED <<consumed, wire, lost>>
  /\ UNCHANGED <<cmds, phase, pushed, ticks, connects>>

DrainDone ==
  /\ pc = "drain" /\ outbox = <<>>
  /\ pc' = "select"
  /\ UNCHANGED <<cmds, phase, outbox, tokens, elapsed, wire, lost, pushed,
                 consumed, ticks, connects>>

-----------------------------------------------------------------------------
(* The arms of select! *)

\* k stanzas are queued and the loop comes round to draining.
Push(k) ==
  /\ pushed + k <= MaxPushed
  /\ outbox' = outbox \o Fresh(k)
  /\ pushed' = pushed + k
  /\ pc' = "drain"

InSelect == phase # "idle" /\ pc = "select"

GoOnline ==
  /\ InSelect /\ phase = "connecting"
  /\ phase' = "online"
  /\ Push(Burst)
  /\ UNCHANGED <<cmds, tokens, elapsed, wire, lost, consumed, ticks, connects>>

\* A stanza arrives; its handler queues k answers.
Incoming(k) ==
  /\ InSelect /\ phase = "online"
  /\ Push(k)
  /\ UNCHANGED <<cmds, phase, tokens, elapsed, wire, lost, consumed, ticks,
                 connects>>

\* The client reports that the dial or the stream broke.
Disconnected ==
  /\ InSelect /\ phase \in {"connecting", "online", "broken"}
  /\ phase' = "down" /\ pc' = "drain"
  /\ UNCHANGED <<cmds, outbox, tokens, elapsed, wire, lost, pushed, consumed,
                 ticks, connects>>

TakeMessage ==
  /\ InSelect /\ cmds # <<>> /\ Head(cmds) = "msg"
  /\ cmds' = Tail(cmds)
  /\ Push(1)
  /\ UNCHANGED <<phase, tokens, elapsed, wire, lost, consumed, ticks, connects>>

\* The session ends with what is still queued: the client's stream is over, or
\* a Disconnect or another Connect arrives.
EndSession ==
  /\ InSelect
  /\ \/ phase = "down" /\ UNCHANGED cmds
     \/ cmds # <<>> /\ Head(cmds) # "msg" /\ cmds' = Tail(cmds)
  /\ phase' = "idle"
  /\ lost' = lost \cup Range(outbox)
  /\ outbox' = <<>>
  /\ UNCHANGED <<pc, tokens, elapsed, wire, pushed, consumed, ticks, connects>>

\* The peer is gone, but the client has not noticed.
LinkDies ==
  /\ phase = "online" /\ phase' = "broken"
  /\ UNCHANGED <<cmds, pc, outbox, tokens, elapsed, wire, lost, pushed,
                 consumed, ticks, connects>>

-----------------------------------------------------------------------------
Loop == TakeIdle \/ DrainOne \/ DrainDone \/ GoOnline \/ TakeMessage

Next ==
  \/ \E c \in Commands : Command(c)
  \/ Tick
  \/ Loop
  \/ \E k \in 0..1 : Incoming(k)
  \/ Disconnected
  \/ EndSession
  \/ LinkDies

Spec == Init /\ [][Next]_vars

\* The loop never stops and time passes.
Fairness     == WF_vars(Loop) /\ WF_vars(Tick)
FairSpec     == Spec /\ Fairness
\* In addition the server keeps sending something, as with regular pings.
ChattySpec   == FairSpec /\ WF_vars(Incoming(0))

-----------------------------------------------------------------------------
(* Properties *)

\* The shape of the state.
TypeOK ==
  /\ cmds \in Seq(Commands) /\ Len(cmds) <= CmdCap
  /\ phase \in Phases /\ pc \in {"drain", "select"}
  /\ outbox \in Seq(Nat) /\ wire \in Seq(Nat) /\ lost \in SUBSET Nat
  /\ tokens \in Nat /\ tokens <= Cap
  /\ elapsed \in Nat /\ pushed \in Nat /\ consumed \in Nat /\ ticks \in Nat
  /\ connects \in Nat

\* The server receives stanzas in the order they were queued, across a deferral
\* and across sessions: what was sent precedes what waits, and both are in
\* order.
InOrder ==
  LET all == wire \o outbox
  IN \A i, j \in DOMAIN all : i < j => all[i] < all[j]

\* No stanza is sent twice, sent after it was given up, or vanishes: each one
\* queued is on the wire, given up, or waiting.
Accounted ==
  /\ Range(wire) \cup lost \cup Range(outbox) = 1..pushed
  /\ lost \cap (Range(wire) \cup Range(outbox)) = {}

\* The outbound path implements a queue that may give up stanzas but neither
\* overtakes nor repeats any, at every step of the session loop.
F == INSTANCE Fifo WITH accepted <- pushed, delivered <- wire, abandoned <- lost
ImplementsFifo == F!FifoSpec

\* "Allows up to capacity stanzas to be sent in a burst, then refills at rate
\* tokens": in t ticks of a session at most Cap + Rate * t stanzas are sent (as
\* long as the ticks are counted).
RateLimited == ticks < MaxTicks => consumed <= Cap + Rate * ticks

\* Backpressure only delays: while the stream lasts, a stanza that was queued
\* is handed to the client at some later time.
Drains == (phase = "online" /\ outbox # <<>>) ~> (phase # "online" \/ outbox = <<>>)
=============================================================================
