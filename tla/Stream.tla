-------------------------------- MODULE Stream --------------------------------
(***************************************************************************)
(* Stream management (XEP-0198): the tracker of a session, the loop that   *)
(* feeds it and the server at the other end.  The loop counts whatever     *)
(* passes it, the nonzas <r/> and <a/> too; the server counts stanzas      *)
(* only.  The counters have a width and wrap (overflow checks are off in a *)
(* release build).  The client does not ask for stream management yet      *)
(* (sm_enabled is a constant of the session, false); what is modelled here *)
(* is the code behind that switch.                                         *)
(***************************************************************************)
EXTENDS Naturals, Sequences

CONSTANTS
  Modulus,    \* 2^32
  Every,      \* a request after so many unacknowledged stanzas
  MaxStanzas, \* bound: stanzas of the engine
  MaxInbound  \* bound: stanzas and requests of the server

ASSUME StreamAssumption ==
  /\ Modulus \in Nat \ {0, 1} /\ Every \in Nat \ {0}
  /\ MaxStanzas \in Nat /\ MaxInbound \in Nat

VARIABLES
  feed,      \* outbox
  counted,   \* stanzas_sent
  acked,     \* stanzas_acked
  inbound,   \* h
  unacked,
  due,       \* pending_ack
  elapsed,   \* 250 ms have passed since the last <a/>
  upward,    \* the stream, to the server
  downward,  \* and from it
  seen,      \* external: stanzas of the client that the server has handled
  handed,    \* history: all that was handed to the client library
  confirmed, \* history: how many stanzas the acknowledgements taken were for
  made, asked \* history: counters for the bounds

tracker == <<counted, acked, inbound, unacked, due, elapsed>>
wires   == <<upward, downward>>
streamVars == <<feed, tracker, wires, seen, handed, confirmed, made, asked>>

\* What passes the loop: a stanza with its number, <r/>, or <a/> with an h.
Element(kind, n) == [kind |-> kind, n |-> n]
Request == Element("r", 0)
Wrap(k) == k % Modulus

Init ==
  /\ feed = <<>> /\ counted = 0 /\ acked = 0 /\ inbound = 0 /\ unacked = <<>>
  /\ due = FALSE /\ elapsed = TRUE /\ upward = <<>> /\ downward = <<>>
  /\ seen = 0 /\ handed = <<>> /\ confirmed = 0 /\ made = 0 /\ asked = 0

-----------------------------------------------------------------------------
(* The loop of the engine.                                                   *)

\* Some arm of select! has something to say.
PushBack ==
  /\ made < MaxStanzas /\ made' = made + 1
  /\ feed' = Append(feed, Element("stanza", made'))
  /\ UNCHANGED <<tracker, wires, seen, handed, confirmed, asked>>

OnStanzaSent(e) ==
  /\ counted' = Wrap(counted + 1)
  /\ unacked' = Append(unacked, e)

\* One turn of the drain loop; the rate limiter is a matter of Outbox.
Drain ==
  /\ feed # <<>>
  /\ LET e == Head(feed) IN
       /\ OnStanzaSent(e)
       /\ feed' = IF Len(unacked') % Every = 0 THEN Append(Tail(feed), Request) ELSE Tail(feed)
       /\ upward' = Append(upward, e)
       /\ handed' = Append(handed, e)
  /\ UNCHANGED <<acked, inbound, due, elapsed, downward, seen, confirmed, made, asked>>

BuildAck(h) == Element("a", h)

\* (mutant) h is taken for a number of stanzas, not for a position.
OnAckReceivedAll(h) ==
  LET n == IF h <= Len(unacked) THEN h ELSE Len(unacked)
  IN unacked' = SubSeq(unacked, n + 1, Len(unacked)) /\ acked' = h

\* saturating_sub, and no more than there are
OnAckReceived(h) ==
  LET past == IF h > acked THEN h - acked ELSE 0
      n    == IF past <= Len(unacked) THEN past ELSE Len(unacked)
  IN unacked' = SubSeq(unacked, n + 1, Len(unacked)) /\ acked' = h

\* Whatever comes in counts, and is acknowledged if 250 ms have passed; <a/>
\* drains, <r/> is answered if that has not just been done. A stanza is dispatched.
Receive ==
  /\ downward # <<>> /\ downward' = Tail(downward)
  /\ inbound' = Wrap(inbound + 1)
  /\ LET e     == Head(downward)
         flush == e.kind = "r" /\ ~elapsed
     IN /\ due' = (~elapsed /\ ~flush)
        /\ elapsed' = FALSE
        /\ feed' = IF elapsed \/ flush THEN Append(feed, BuildAck(inbound')) ELSE feed
        /\ IF e.kind = "a"
             THEN OnAckReceived(Wrap(e.n)) /\ confirmed' = e.n
             ELSE UNCHANGED <<unacked, acked, confirmed>>
  /\ UNCHANGED <<counted, upward, seen, handed, made, asked>>

Elapse ==
  /\ ~elapsed /\ elapsed' = TRUE
  /\ UNCHANGED <<feed, counted, acked, inbound, unacked, due, wires, seen, handed, confirmed, made,
                 asked>>

-----------------------------------------------------------------------------
(* The server: acknowledgements carry the number of stanzas handled, which   *)
(* the client reads modulo the width.                                        *)

ServerTakes ==
  /\ upward # <<>> /\ upward' = Tail(upward)
  /\ LET e == Head(upward) IN
       /\ seen' = IF e.kind = "stanza" THEN seen + 1 ELSE seen
       /\ downward' = IF e.kind = "r" THEN Append(downward, Element("a", seen)) ELSE downward
  /\ UNCHANGED <<feed, tracker, handed, confirmed, made, asked>>

ServerSends ==
  /\ asked < MaxInbound /\ asked' = asked + 1
  /\ \E e \in {Element("stanza", 0), Request, Element("a", seen)} : downward' = Append(downward, e)
  /\ UNCHANGED <<feed, tracker, upward, seen, handed, confirmed, made>>

\* Disconnected: a new stream counts from zero, and retransmits nothing.
Reset ==
  /\ handed # <<>>
  /\ counted' = 0 /\ acked' = 0 /\ inbound' = 0 /\ unacked' = <<>> /\ due' = FALSE
  /\ elapsed' = TRUE /\ feed' = <<>> /\ upward' = <<>> /\ downward' = <<>>
  /\ seen' = 0 /\ handed' = <<>> /\ confirmed' = 0 /\ made' = 0
  /\ asked < MaxInbound /\ asked' = asked + 1

Next ==
  \/ PushBack \/ Drain \/ Receive \/ Elapse \/ ServerTakes \/ ServerSends \/ Reset

Spec == Init /\ [][Next]_streamVars

-----------------------------------------------------------------------------

Elements == [kind : {"stanza", "r", "a"}, n : Nat]

TypeOK ==
  /\ feed \in Seq(Elements) /\ unacked \in Seq(Elements) /\ handed \in Seq(Elements)
  /\ upward \in Seq(Elements) /\ downward \in Seq(Elements)
  /\ {counted, acked, inbound} \subseteq 0..(Modulus - 1)
  /\ {due, elapsed} \subseteq BOOLEAN /\ {seen, confirmed, made, asked} \subseteq Nat

\* A stanza is kept for retransmission until the server has acknowledged it,
\* although nonzas are counted on one side only and the counters wrap: the
\* server's h never drains one it has not handled.
KeptUntilAcked ==
  \A i \in DOMAIN handed :
    handed[i].kind = "stanza" /\ handed[i].n > confirmed =>
      \E j \in DOMAIN unacked : unacked[j] = handed[i]
=============================================================================
