-------------------------------- MODULE Disco --------------------------------
(***************************************************************************)
(* What the client says of itself (XEP-0030, XEP-0115, XEP-0202): its      *)
(* presence carries a digest of its identities and features, a contact     *)
(* that does not know the digest asks for what it stands for, checks the   *)
(* answer against it and keeps it, and may ask for the time as well.  The  *)
(* presences that follow the first one are built elsewhere (Presence) and  *)
(* only matter here for what they carry.                                   *)
(***************************************************************************)
EXTENDS Naturals, Sequences, FiniteSets, SequencesExt

CONSTANTS
  Identities, \* of this client, in the order of the code: numbers that stand for them
  Features,   \* likewise
  Peers,      \* contacts
  MaxPresences, \* bound: presences of the user
  MaxAsked,   \* bound: requests of contacts
  MaxStreams  \* bound: sessions

VARIABLES
  own,        \* disco_mgr: own_caps, own_identities, own_features; <<>> between sessions
  outbox,     \* stanzas to contacts, in order
  asked,      \* requests of contacts, on their way
  seen,       \* external: the digest in the last presence each contact has
  cached,     \* external: what a contact has found a digest to stand for
  clocks,     \* external: contacts that were told the time
  sends, asks, streams \* history: counters for the bounds

diVars == <<own, outbox, asked, seen, cached, clocks, sends, asks, streams>>
contacts == <<seen, cached, clocks>>

Absent == <<>>
Sorted(s) == SortSeq(s, LAMBDA a, b : a < b)

\* A digest is as good as what it is made of: the sorted identities, then the
\* sorted features.
ComputeVerHash(ids, features) == <<Sorted(ids), Sorted(features)>>

\* How a contact makes it out of an answer, by the text of XEP-0115.
Digest(ids, features) == <<Sorted(ids), Sorted(features)>>

Init ==
  /\ own = Absent /\ outbox = <<>> /\ asked = <<>>
  /\ seen = [p \in Peers |-> Absent] /\ cached = [p \in Peers |-> {}] /\ clocks = {}
  /\ sends = 0 /\ asks = 0 /\ streams = 0

BuildCapsElement == own.ver
Presence(c) == [kind |-> "presence", caps |-> c]

\* A session has a manager of its own, and announces itself with the digest.
Online ==
  /\ own = Absent /\ streams < MaxStreams /\ streams' = streams + 1
  /\ own' = [ver |-> ComputeVerHash(Identities, Features),
             identities |-> Identities, features |-> Features]
  /\ outbox' = Append(outbox, Presence(ComputeVerHash(Identities, Features)))
  /\ UNCHANGED <<asked, contacts, sends, asks>>

SessionEnd ==
  /\ own # Absent /\ own' = Absent /\ outbox' = <<>> /\ asked' = <<>>
  /\ seen' = [p \in Peers |-> Absent]
  /\ UNCHANGED <<cached, clocks, sends, asks, streams>>

\* build_presence_stanza, after the user chose a status or went away: it has
\* no element for the digest.
SetPresence ==
  /\ own # Absent /\ sends < MaxPresences /\ sends' = sends + 1
  /\ outbox' = Append(outbox, Presence(Absent))
  /\ UNCHANGED <<own, asked, contacts, asks, streams>>

BuildInfoResponse(to) ==
  [kind |-> "info", to |-> to, identities |-> own.identities, features |-> own.features]

BuildTimeResponse(to) == [kind |-> "time", to |-> to]

\* Requests for anything else are not answered.
HandleGet ==
  /\ own # Absent /\ asked # <<>> /\ asked' = Tail(asked)
  /\ LET q == Head(asked) IN
       outbox' = CASE q.what = "info" -> Append(outbox, BuildInfoResponse(q.from))
                   [] q.what = "time" -> Append(outbox, BuildTimeResponse(q.from))
                   [] OTHER -> outbox
  /\ UNCHANGED <<own, contacts, sends, asks, streams>>

-----------------------------------------------------------------------------
(* Contacts.                                                                 *)

\* A contact keeps an answer if it agrees with a digest it has seen.
Take(e) ==
  CASE e.kind = "presence" ->
         /\ seen' = [p \in Peers |-> e.caps] /\ UNCHANGED <<cached, clocks>>
    [] e.kind = "info" ->
         /\ cached' = [cached EXCEPT ![e.to] =
                         IF seen[e.to] = Digest(e.identities, e.features)
                         THEN @ \cup {seen[e.to]} ELSE @]
         /\ UNCHANGED <<seen, clocks>>
    [] e.kind = "time" -> clocks' = clocks \cup {e.to} /\ UNCHANGED <<seen, cached>>

Receive ==
  /\ outbox # <<>> /\ outbox' = Tail(outbox) /\ Take(Head(outbox))
  /\ UNCHANGED <<own, asked, sends, asks, streams>>

Ask(p, what) ==
  /\ own # Absent /\ asks < MaxAsked /\ asks' = asks + 1
  /\ what = "info" => seen[p] # Absent /\ seen[p] \notin cached[p]
  /\ asked' = Append(asked, [from |-> p, what |-> what])
  /\ UNCHANGED <<own, outbox, contacts, sends, streams>>

Next ==
  \/ Online \/ SessionEnd \/ SetPresence \/ HandleGet \/ Receive
  \/ \E p \in Peers, w \in {"info", "time", "items"} : Ask(p, w)

Spec == Init /\ [][Next]_diVars

-----------------------------------------------------------------------------

TypeOK ==
  /\ own = Absent \/ own.features = Features
  /\ \A i \in DOMAIN outbox : outbox[i].kind \in {"presence", "info", "time"}
  /\ \A i \in DOMAIN asked : asked[i].from \in Peers
  /\ clocks \subseteq Peers
  /\ sends \in 0..MaxPresences /\ asks \in 0..MaxAsked /\ streams \in 0..MaxStreams

\* A contact can check every answer on the digest it was announced with,
\* whatever was sent between the two: no answer is one a contact must refuse.
AnswersMatchDigest ==
  \A i \in DOMAIN outbox : outbox[i].kind = "info" =>
    own # Absent /\ Digest(outbox[i].identities, outbox[i].features) = BuildCapsElement

\* "This element should be appended to every outbound <presence> stanza."
EveryPresenceHasCaps ==
  \A i \in DOMAIN outbox : outbox[i].kind = "presence" => outbox[i].caps # Absent
=============================================================================
