------------------------------ MODULE Mutations ------------------------------
(***************************************************************************)
(* What can still happen to a message that was sent: the peer's receipts,  *)
(* its reactions and the user's, a correction and a retraction.  A button  *)
(* that toggles answers the loop with a message of its own; what the loop  *)
(* tells the engine goes through a task of its own; the engine and the     *)
(* wire keep the order they are given.                                     *)
(***************************************************************************)
EXTENDS Naturals, Sequences, FiniteSets

CONSTANTS
  Sent,      \* own messages that the view shows
  Emojis,    \* reactions on the bar
  Unedited,  \* no message is being edited
  MaxClicks, \* bound: what the user clicks
  MaxPeer    \* bound: what the peer sends

VARIABLES
  mark,      \* message_states
  own,       \* reactions of the user, as shown
  theirs,    \* reactions of the peer, as shown
  retracted, \* messages shown as a tombstone
  edited,    \* messages shown as edited
  editing,   \* edit_mode
  queue,     \* messages of the conversation that Task::done put in the loop
  carriers,  \* tasks that carry commands to the engine
  wire,      \* stanzas, sets of child elements, on the way to the peer
  peerHas,   \* what the peer holds: the user's reactions,
  peerGone,  \* ... retracted messages,
  peerNew,   \* ... and corrected ones
  receipts,  \* receipts and markers on their way back
  peer, clicks, n \* history: messages of the peer, clicks, carriers ever made

shownVars == <<mark, own, theirs, retracted, edited, editing>>
peerVars  == <<peerHas, peerGone, peerNew>>
vars == <<shownVars, queue, carriers, wire, peerVars, receipts, peer, clicks, n>>

Marks    == {"None", "Delivered", "Read"}
Commands == ({"reaction"} \X Sent \X (SUBSET Emojis)) \cup ({"retract", "correct"} \X Sent)
Stanzas  == SUBSET (({"reactions"} \X Sent \X (SUBSET Emojis))
                      \cup ({"apply-to", "replace"} \X Sent) \cup {<<"body">>})
Carry(c) == n' = n + 1 /\ carriers' = carriers \cup {<<n, c>>}
Click    == clicks < MaxClicks /\ clicks' = clicks + 1

Init ==
  /\ mark = [m \in Sent |-> "None"]
  /\ own = [m \in Sent |-> {}] /\ theirs = [m \in Sent |-> {}]
  /\ retracted = {} /\ edited = {} /\ editing = Unedited
  /\ queue = <<>> /\ carriers = {} /\ wire = <<>>
  /\ peerHas = [m \in Sent |-> {}] /\ peerGone = {} /\ peerNew = {}
  /\ receipts = {} /\ peer = 0 /\ clicks = 0 /\ n = 0

-----------------------------------------------------------------------------
(* The user.  A tombstone has no buttons.                                    *)

\* ToggleReaction looks at what is shown now and leaves the rest to a message.
ToggleReaction(m, e) ==
  /\ Click /\ m \notin retracted
  /\ queue' = Append(queue, <<IF e \in own[m] THEN "remove" ELSE "add", m, e>>)
  /\ UNCHANGED <<shownVars, carriers, wire, peerVars, receipts, peer, n>>

\* SendReaction: the emoji joins what is shown, and goes out alone.
SendReaction ==
  /\ queue # <<>> /\ Head(queue)[1] = "add"
  /\ LET m == Head(queue)[2]
         e == Head(queue)[3]
     IN own' = [own EXCEPT ![m] = @ \cup {e}] /\ Carry(<<"reaction", m, {e}>>)
  /\ queue' = Tail(queue)
  /\ UNCHANGED <<mark, theirs, retracted, edited, editing, wire, peerVars, receipts,
                 peer, clicks>>

\* RetractReaction: what is left goes out.
RetractReaction ==
  /\ queue # <<>> /\ Head(queue)[1] = "remove"
  /\ LET m    == Head(queue)[2]
         left == own[m] \ {Head(queue)[3]}
     IN own' = [own EXCEPT ![m] = left] /\ Carry(<<"reaction", m, left>>)
  /\ queue' = Tail(queue)
  /\ UNCHANGED <<mark, theirs, retracted, edited, editing, wire, peerVars, receipts,
                 peer, clicks>>

RetractMessage(m) ==
  /\ Click /\ m \notin retracted
  /\ retracted' = retracted \cup {m}
  /\ Carry(<<"retract", m>>)
  /\ UNCHANGED <<mark, own, theirs, edited, editing, queue, wire, peerVars, receipts, peer>>

StartEdit(m) ==
  /\ Click /\ m \notin retracted
  /\ editing' = m
  /\ UNCHANGED <<mark, own, theirs, retracted, edited, queue, carriers, wire, peerVars,
                 receipts, peer, n>>

\* Send in edit mode: whatever became of the message since.
SendCorrection ==
  /\ editing # Unedited
  /\ edited' = edited \cup {editing} /\ editing' = Unedited
  /\ Carry(<<"correct", editing>>)
  /\ UNCHANGED <<mark, own, theirs, retracted, queue, wire, peerVars, receipts, peer, clicks>>

-----------------------------------------------------------------------------
(* The engine builds a stanza of each command, and the peer applies it.      *)

BuildReaction(m, E) == {<<"reactions", m, E>>}
BuildCorrection(m)  == {<<"body">>, <<"replace", m>>}
BuildRetraction(m)  == {<<"apply-to", m>>}

ParseReaction(el)   == {c \in el : c[1] = "reactions"}
ParseCorrection(el) == {c \in el : c[1] = "replace" /\ <<"body">> \in el}
ParseRetraction(el) == {c \in el : c[1] = "apply-to"}

Forward(t) ==
  /\ t \in carriers
  /\ carriers' = carriers \ {t}
  /\ LET c == t[2] IN
       wire' = Append(wire, CASE c[1] = "reaction" -> BuildReaction(c[2], c[3])
                              [] c[1] = "correct" -> BuildCorrection(c[2])
                              [] c[1] = "retract" -> BuildRetraction(c[2]))
  /\ UNCHANGED <<shownVars, queue, peerVars, receipts, peer, clicks, n>>

\* The peer reads as this client does. XEP-0444: a set of reactions takes the place
\* of the last one.
PeerReceives ==
  /\ wire # <<>>
  /\ LET el == Head(wire)
         R  == ParseReaction(el)
     IN
       /\ peerHas' = IF R = {} THEN peerHas
                     ELSE LET c == CHOOSE c \in R : TRUE IN [peerHas EXCEPT ![c[2]] = c[3]]
       /\ peerGone' = peerGone \cup {c[2] : c \in ParseRetraction(el)}
       /\ peerNew' = peerNew \cup {c[2] : c \in ParseCorrection(el)}
  /\ wire' = Tail(wire)
  /\ UNCHANGED <<shownVars, queue, carriers, receipts, peer, clicks, n>>

\* Every client of the peer acknowledges on its own.
PeerAcknowledges(m) ==
  /\ peer < MaxPeer /\ peer' = peer + 1
  /\ \E k \in {"Delivered", "Read"} : receipts' = receipts \cup {<<k, m>>}
  /\ UNCHANGED <<shownVars, queue, carriers, wire, peerVars, clicks, n>>

-----------------------------------------------------------------------------
(* Events of the engine.                                                     *)

\* (mutant) The state is overwritten.
MessageDeliveredAnyway(m) ==
  /\ <<"Delivered", m>> \in receipts
  /\ mark' = [mark EXCEPT ![m] = "Delivered"]

MessageDelivered(m) ==
  /\ <<"Delivered", m>> \in receipts
  /\ mark' = IF mark[m] = "Read" THEN mark ELSE [mark EXCEPT ![m] = "Delivered"]

MessageRead(m) ==
  /\ <<"Read", m>> \in receipts
  /\ mark' = [mark EXCEPT ![m] = "Read"]

Receipt(m) ==
  /\ \/ MessageDelivered(m) /\ receipts' = receipts \ {<<"Delivered", m>>}
     \/ MessageRead(m) /\ receipts' = receipts \ {<<"Read", m>>}
  /\ UNCHANGED <<own, theirs, retracted, edited, editing, queue, carriers, wire, peerVars,
                 peer, clicks, n>>

\* Reactions are looked for first: what else the stanza holds, as a body for other
\* clients, is not read.
ReactionReceived(m) ==
  /\ peer < MaxPeer /\ peer' = peer + 1
  /\ \E E \in SUBSET Emojis, fallback \in SUBSET {<<"body">>} :
       \E c \in ParseReaction(BuildReaction(m, E) \cup fallback) :
         theirs' = [theirs EXCEPT ![c[2]] = c[3]]
  /\ UNCHANGED <<mark, own, retracted, edited, editing, queue, carriers, wire, peerVars,
                 receipts, clicks, n>>

Next ==
  \/ SendReaction \/ RetractReaction \/ SendCorrection \/ PeerReceives
  \/ \E t \in carriers : Forward(t)
  \/ \E m \in Sent :
       \/ RetractMessage(m) \/ StartEdit(m) \/ PeerAcknowledges(m) \/ Receipt(m)
       \/ ReactionReceived(m)
       \/ \E e \in Emojis : ToggleReaction(m, e)

Spec == Init /\ [][Next]_vars

-----------------------------------------------------------------------------

TypeOK ==
  /\ mark \in [Sent -> Marks]
  /\ own \in [Sent -> SUBSET Emojis] /\ theirs \in [Sent -> SUBSET Emojis]
  /\ retracted \subseteq Sent /\ edited \subseteq Sent /\ editing \in Sent \cup {Unedited}
  /\ queue \in Seq({"add", "remove"} \X Sent \X Emojis)
  /\ carriers \subseteq (Nat \X Commands) /\ wire \in Seq(Stanzas)
  /\ peerHas \in [Sent -> SUBSET Emojis] /\ peerGone \subseteq Sent /\ peerNew \subseteq Sent
  /\ receipts \subseteq ({"Delivered", "Read"} \X Sent)

\* A message that was read stays read, in whatever order the clients of the
\* peer acknowledge it.
ReadStays == [][\A m \in Sent : mark[m] = "Read" => mark'[m] = "Read"]_vars

Quiet == queue = <<>> /\ carriers = {} /\ wire = <<>>

\* "`emojis` is the full new set for this sender": once everything was
\* received, the peer holds the reactions that the user sees.
ReactionsAgree == Quiet => peerHas = own
=============================================================================
