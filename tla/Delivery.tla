------------------------------- MODULE Delivery -------------------------------
(***************************************************************************)
(* Incoming messages: the server may send several copies of one message    *)
(* (live, as a carbon, from the archive, as the history of a room).  The   *)
(* engine routes each copy and passes it on, some paths through a cache of *)
(* the identifiers seen in the session; the UI is told of what passes and  *)
(* stores it.  The event channel is first-in first-out and a Connected     *)
(* event precedes what its session brings, so the engine's step and the    *)
(* UI's are one action here.                                               *)
(***************************************************************************)
EXTENDS Naturals, Sequences, Functions

CONSTANTS
  Msgs,        \* the messages that may be sent to the account
  Limit,       \* identifiers the cache keeps (500)
  Page,        \* messages in a page of the archive (50)
  MaxSessions, \* bound: sessions
  MaxJoins     \* bound: times the room is joined in a session

\* A message has a kind, and an id of its sender's unless it is anonymous.  No
\* two messages have the same id: senders draw them at random.
Kinds == {"chat", "own", "groupchat", "encrypted"}

ASSUME DeliveryAssumption ==
  /\ Msgs \subseteq [n : Nat, kind : Kinds, named : BOOLEAN]
  /\ \A a, b \in Msgs : a.n = b.n => a = b
  /\ Limit \in Nat \ {0} /\ Page \in Nat
  /\ MaxSessions \in Nat /\ MaxJoins \in Nat

VARIABLES
  sent,      \* external: the messages sent so far
  archive,   \* external: those in the archive, in order
  room,      \* external: those said in the room, in order
  wire,      \* external: the copies on their way in the stream
  owed,      \* external: what the server has been asked for and not answered
  sessions,  \* sessions so far (bound)
  joins,     \* joins in this session (bound)
  online,    \* a session is online
  seen,      \* seen_msg_ids
  order,     \* seen_msg_ids_order
  told,      \* how many MessageReceived events this session made of each
  rows,      \* the messages table: the primary key and the message stored
  log,       \* history: the keys that passed the cache in this session
  taken      \* history: the messages of which the session took a copy

said == <<sent, archive, room>>
vars == <<sent, archive, room, wire, owed, sessions, joins, online, seen,
          order, told, rows, log, taken>>

Paths == {"live", "received", "sent", "muc", "omemo", "mam"}
Copy(p, m) == [path |-> p, msg |-> m]

Init ==
  /\ sent = {} /\ archive = <<>> /\ room = <<>>
  /\ wire = <<>> /\ owed = {} /\ sessions = 0 /\ joins = 0
  /\ online = FALSE /\ seen = {} /\ order = <<>>
  /\ told = [m \in Msgs |-> 0] /\ rows = {}
  /\ log = <<>> /\ taken = {}

-----------------------------------------------------------------------------
(* The server *)

\* The paths by which an online session gets a new message: a chat message is
\* addressed to this device or to another one; a room's only if it is joined.
LivePaths(m) ==
  CASE m.kind = "chat"      -> {"live", "received"}
    [] m.kind = "own"       -> {"sent"}
    [] m.kind = "encrypted" -> {"omemo"}
    [] m.kind = "groupchat" -> IF joins > 0 /\ "room" \notin owed THEN {"muc"} ELSE {}

Send(m) ==
  /\ m \notin sent /\ sent' = sent \cup {m}
  /\ archive' = IF m.kind \in {"chat", "own"} THEN Append(archive, m) ELSE archive
  /\ room' = IF m.kind = "groupchat" THEN Append(room, m) ELSE room
  /\ IF online /\ LivePaths(m) # {}
     THEN \E p \in LivePaths(m) : wire' = Append(wire, Copy(p, m))
     ELSE UNCHANGED wire
  /\ UNCHANGED <<owed, sessions, joins, online, seen, order, told, rows, log,
                 taken>>

CopiesOf(s, p) == [i \in DOMAIN s |-> Copy(p, s[i])]
Smaller(a, b) == IF a < b THEN a ELSE b

\* A query without a cursor is answered with the first page of the archive.
AnswerCatchup ==
  /\ online /\ "catchup" \in owed /\ owed' = owed \ {"catchup"}
  /\ wire' = wire \o
        CopiesOf(SubSeq(archive, 1, Smaller(Page, Len(archive))), "mam")
  /\ UNCHANGED <<said, sessions, joins, online, seen, order, told, rows, log,
                 taken>>

\* A joined room sends what was said in it.
AnswerJoin ==
  /\ online /\ "room" \in owed /\ owed' = owed \ {"room"}
  /\ wire' = wire \o CopiesOf(room, "muc")
  /\ UNCHANGED <<said, sessions, joins, online, seen, order, told, rows, log,
                 taken>>

-----------------------------------------------------------------------------
(* Sessions *)

\* The cache is new, the archive is queried, and the new Chat screen of the UI
\* starts with none of the session's messages.
GoOnline ==
  /\ ~online /\ sessions < MaxSessions
  /\ online' = TRUE /\ sessions' = sessions + 1 /\ joins' = 0
  /\ seen' = {} /\ order' = <<>>
  /\ owed' = {"catchup"} /\ wire' = <<>>
  /\ told' = [m \in Msgs |-> 0]
  /\ log' = <<>> /\ taken' = {}
  /\ UNCHANGED <<said, rows>>

\* What is on its way is lost with the stream.
GoOffline ==
  /\ online /\ online' = FALSE
  /\ wire' = <<>> /\ owed' = {}
  /\ UNCHANGED <<said, sessions, joins, seen, order, told, rows, log, taken>>

JoinRoom ==
  /\ online /\ joins < MaxJoins /\ joins' = joins + 1
  /\ owed' = owed \cup {"room"}
  /\ UNCHANGED <<said, wire, sessions, online, seen, order, told, rows, log,
                 taken>>

-----------------------------------------------------------------------------
(* dispatch_stanza *)

NoId == <<"none", 0>>

\* (mutant) A carbon's identifier is not read.
IdOfNoCarbon(c) ==
  CASE c.path = "mam" -> <<"archive", c.msg.n>>
    [] c.path \notin {"mam", "received"} /\ c.msg.named -> <<"id", c.msg.n>>
    [] c.path = "muc" /\ ~c.msg.named -> <<"fresh", Len(log)>>
    [] OTHER -> NoId
\* The identifier of a copy: the archive has its own, a room's message without
\* one gets a fresh one, and otherwise there may be none.
IdOf(c) ==
  CASE c.path = "mam" -> <<"archive", c.msg.n>>
    [] c.path # "mam" /\ c.msg.named -> <<"id", c.msg.n>>
    [] c.path = "muc" /\ ~c.msg.named -> <<"fresh", Len(log)>>
    [] OTHER -> NoId

\* Live messages and the carbons of received ones bypass the cache.
Cached(c) == c.path \in {"muc", "mam", "sent", "omemo"}

\* The queue once there is room for one more.
Evict == IF Len(order) >= Limit THEN Tail(order) ELSE order

Forgotten == IF Len(order) >= Limit THEN {Head(order)} ELSE {}

\* (mutant) A missing identifier is remembered like any other.
RememberAny(k) ==
  seen' = (seen \ Forgotten) \cup {k} /\ order' = Append(Evict, k)
\* is_new_msg_id on a new identifier; a missing one is always new.
Remember(k) ==
  IF k = NoId THEN UNCHANGED <<seen, order>>
  ELSE /\ seen' = (seen \ Forgotten) \cup {k}
       /\ order' = Append(Evict, k)

\* INSERT OR IGNORE: the first message under a key is the one that is stored.
Insert(k, m) ==
  rows' = IF \E r \in rows : r.id = k THEN rows
          ELSE rows \cup {[id |-> k, msg |-> m]}

\* A MessageReceived event.
Tell(m) == told' = [told EXCEPT ![m] = @ + 1]

\* MessageReceived, whose handler always stores the message.  A Chat screen
\* appends it to its conversation if no other screen covers it.
Emit(k, m) == Tell(m) /\ Insert(k, m)

Dispatch ==
  /\ online /\ wire # <<>> /\ wire' = Tail(wire)
  /\ LET c == Head(wire)
         k == IdOf(c)
     IN /\ taken' = taken \cup {c.msg}
        /\ \/ /\ Cached(c) /\ k \in seen
              /\ UNCHANGED <<seen, order, log, told, rows>>
           \/ /\ Cached(c) /\ k \notin seen
              /\ Remember(k) /\ Emit(k, c.msg)
              /\ log' = Append(log, k)
           \/ /\ ~Cached(c)
              /\ Emit(k, c.msg)
              /\ UNCHANGED <<seen, order, log>>
  /\ UNCHANGED <<said, owed, sessions, joins, online>>

-----------------------------------------------------------------------------
Next ==
  \/ \E m \in Msgs : Send(m)
  \/ AnswerCatchup \/ AnswerJoin
  \/ GoOnline \/ GoOffline \/ JoinRoom
  \/ Dispatch

Spec == Init /\ [][Next]_vars

-----------------------------------------------------------------------------
(* Properties *)

Ids == ({"archive", "id", "fresh"} \X Nat) \cup {NoId}

\* The shape of the state, and the limit of the cache.
TypeOK ==
  /\ sent \subseteq Msgs /\ archive \in Seq(Msgs) /\ room \in Seq(Msgs)
  /\ wire \in Seq([path : Paths, msg : Msgs])
  /\ owed \subseteq {"catchup", "room"}
  /\ sessions \in Nat /\ joins \in Nat /\ online \in BOOLEAN
  /\ seen \subseteq Ids /\ order \in Seq(Ids) /\ Len(order) <= Limit
  /\ told \in [Msgs -> Nat] /\ rows \subseteq [id : Ids, msg : Msgs]
  /\ log \in Seq(Ids) /\ taken \subseteq Msgs

\* The two halves of the cache, a set and a queue, always agree, and neither
\* holds an identifier twice.
CacheAgrees ==
  /\ seen = Range(order)
  /\ \A i, j \in DOMAIN order : order[i] = order[j] => i = j

\* "We keep the last 500 message IDs": an identifier passes the cache a second
\* time only after more than Limit others did.
WindowRespected ==
  \A i, j \in DOMAIN log :
    i < j /\ log[i] = log[j] /\ log[i] # NoId => j - i > Limit

\* The cache never costs a message: each one of which the session took a copy
\* reaches the UI.
NothingSwallowed == \A m \in taken : told[m] > 0

\* "persist message": each message the session took a copy of that has an id of
\* its own is in the table, whatever the cache suppressed and whatever was
\* stored before under the keys of other copies.
IdentifiedIsStored ==
  \A m \in taken : m.named => \E r \in rows : r.msg = m

\* "the UI must not receive duplicate MessageReceived events", although "MAM
\* and carbons can deliver the same message multiple times".
NoDuplicates == \A m \in Msgs : told[m] <= 1
=============================================================================
