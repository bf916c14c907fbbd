------------------------------- MODULE Archive -------------------------------
(***************************************************************************)
(* The message archive: the catch-up query of every session, the bulk sync *)
(* a command starts, and what the engine makes of results and of the <fin> *)
(* that ends a page.  Three trackers are kept in step: the MamManager of   *)
(* the session, the CatchupManager, and the SyncOrchestrator, which owns a *)
(* MamManager of its own.  Query identifiers are uuids: here the number of *)
(* the start in its session together with the conversation asked for.      *)
(***************************************************************************)
EXTENDS Naturals, Sequences, FiniteSets

CONSTANTS
  Convs,        \* the conversations a sync may name
  Server,       \* "__server__": the key of the catch-up query
  None,         \* no filter, no cursor
  Stored,       \* external: the archive, oldest first
  Blocked,      \* external: what the blocklist of the server holds
  Cursors,      \* the ids the caller of a sync may have, by conversation
  PageMax,      \* the page size: 50 in the code
  MaxSessions,  \* bound: sessions
  MaxSyncs      \* bound: StartMamSync commands in a session

VARIABLES
  finId,     \* external: this server names the query in its <fin>
  sessions,  \* sessions so far (bound)
  online,    \* a session is online
  syncs,     \* StartMamSync commands of this session (bound)
  mam,       \* mam_mgr: queries by id, results by id
  catchup,   \* catchup_mgr: states by conversation, conversations by query
  sync,      \* sync_orch
  blocked,   \* blocking_mgr: empty until the blocklist has arrived
  seen,      \* seen_msg_ids of the session
  wire,      \* external: what the server has still to send, by query
  shown,     \* history: messages handed to the UI in this session
  finished,  \* history: the CatchupFinished events of this session
  again      \* history: conversations synced again while pending

archiveVars == <<finId, sessions, online, syncs, mam, catchup, sync, blocked, seen,
          wire, shown, finished, again>>

Empty == [x \in {} |-> None]
Put(f, x, v)  == [y \in DOMAIN f \cup {x} |-> IF y = x THEN v ELSE f[y]]
Without(f, x) == [y \in DOMAIN f \ {x} |-> f[y]]

Messages == {Stored[i] : i \in DOMAIN Stored}
Id(n, c) == [n |-> n, conv |-> c]
Ids      == [n : 0..MaxSyncs, conv : Convs \cup {Server}]
\* filter.with and rsm.after; start, end and before are never set.
Query(with, after) == [with |-> with, after |-> after]
Queries  == [with : Convs \cup {None}, after : Nat \cup {None}]

-----------------------------------------------------------------------------
(* MamManager.  A result buffer holds the messages of one page.              *)

NewMam == [pending |-> Empty, results |-> Empty]

BuildQuery(m, id, query) ==
  [pending |-> Put(m.pending, id, query), results |-> Put(m.results, id, <<>>)]

\* (mutant) Into every buffer that is open.
OnMamMessageAll(m, id, msg) ==
  [m EXCEPT !.results = [q \in DOMAIN @ |-> Append(@[q], msg)]]

OnMamMessage(m, id, msg) ==
  IF id \in DOMAIN m.results
    THEN [m EXCEPT !.results[id] = Append(@, msg)] ELSE m

\* The query a <fin> is taken to end: the one it names, or else the only one.
FinQuery(m, named) ==
  IF named # None THEN {named}
  ELSE IF Cardinality(DOMAIN m.pending) = 1 THEN DOMAIN m.pending ELSE {}

FinResult(m, id) == IF id \in DOMAIN m.results THEN m.results[id] ELSE <<>>

OnFinIq(m, id) ==
  [pending |-> Without(m.pending, id), results |-> Without(m.results, id)]

-----------------------------------------------------------------------------
(* CatchupManager                                                            *)

NewCatchup == [states |-> Empty, jidOf |-> Empty]

CatchupStart(c, jid, id) ==
  [states |-> Put(c.states, jid, "Fetching"), jidOf |-> Put(c.jidOf, id, jid)]

CatchupOnResult(c, id) ==
  IF id \in DOMAIN c.jidOf /\ c.states[c.jidOf[id]] = "Fetching"
    THEN c.jidOf[id] ELSE None

CatchupOnFin(c, id) ==
  IF id \notin DOMAIN c.jidOf THEN c
  ELSE [states |-> Put(c.states, c.jidOf[id], "Complete"),
        jidOf  |-> Without(c.jidOf, id)]

CatchupReset(c) == NewCatchup

-----------------------------------------------------------------------------
(* SyncOrchestrator                                                          *)

\* received: of every query ever made, how many messages are kept.
NewSync == [pending |-> Empty, jidOf |-> Empty, received |-> Empty, mam |-> NewMam]

\* One query for each conversation of the list, all pending under their jids.
StartSync(s, n, last) ==
  LET new == {Id(n, c) : c \in DOMAIN last}
  IN  [s EXCEPT
        !.pending = [c \in DOMAIN @ \cup DOMAIN last |->
                       IF c \in DOMAIN last THEN Id(n, c) ELSE @[c]],
        !.jidOf   = [q \in DOMAIN @ \cup new |-> IF q \in new THEN q.conv ELSE @[q]],
        !.mam     = [pending |-> [q \in DOMAIN @.pending \cup new |->
                        IF q \in new THEN Query(q.conv, last[q.conv]) ELSE @.pending[q]],
                     results |-> [q \in DOMAIN @.results \cup new |->
                        IF q \in new THEN <<>> ELSE @.results[q]]]]

ReceivedOf(s, id) == IF id \in DOMAIN s.received THEN s.received[id] ELSE 0

SyncOnResult(s, id) ==
  IF id \in DOMAIN s.jidOf
    THEN [s EXCEPT !.received = Put(@, id, ReceivedOf(s, id) + 1)] ELSE s

\* (mutant) The first <fin> ends the whole sync.
SyncOnFinAll(s, id) ==
  IF id \in DOMAIN s.jidOf
    THEN [s EXCEPT !.jidOf = Without(@, id), !.pending = Empty] ELSE s

\* (mutant) Only the reverse index is cleaned up.
SyncOnFinIndex(s, id) == [s EXCEPT !.jidOf = Without(@, id)]

SyncOnFin(s, id) ==
  IF id \in DOMAIN s.jidOf
    THEN [s EXCEPT !.jidOf = Without(@, id), !.pending = Without(@, s.jidOf[id])]
    ELSE s

\* is_complete
SyncIsComplete(s) == DOMAIN s.pending = {}

-----------------------------------------------------------------------------
(* External: the server answers a query with the first page after the cursor,
   one result after the other, and ends it with a <fin>.                      *)

Position(after) ==
  IF after = None THEN 0 ELSE CHOOSE i \in DOMAIN Stored : Stored[i].id = after

Matches(query) ==
  {i \in DOMAIN Stored : /\ i > Position(query.after)
                         /\ query.with \in {None, Stored[i].conv}}

\* The k-th match, as long as it is in the page.
PageIndices(query) ==
  {i \in Matches(query) :
     Cardinality({j \in Matches(query) : j <= i}) <= PageMax}

Page(query) ==
  [k \in 1..Cardinality(PageIndices(query)) |->
     Stored[CHOOSE i \in PageIndices(query) :
              Cardinality({j \in PageIndices(query) : j <= i}) = k]]

-----------------------------------------------------------------------------
(* The engine                                                                *)

Fresh(on) ==
  /\ online' = on /\ syncs' = 0 /\ seen' = {} /\ blocked' = {}
  /\ shown' = {} /\ finished' = <<>> /\ again' = {}

Init ==
  /\ finId \in BOOLEAN /\ sessions = 0 /\ online = FALSE /\ syncs = 0
  /\ mam = NewMam /\ catchup = NewCatchup /\ sync = NewSync
  /\ blocked = {} /\ seen = {} /\ wire = Empty /\ shown = {} /\ finished = <<>> /\ again = {}

\* A session gets online: the catch-up query, without filter or cursor.
Online ==
  LET id == Id(0, Server) IN
  /\ ~online /\ sessions < MaxSessions
  /\ sessions' = sessions + 1
  /\ Fresh(TRUE)
  /\ catchup' = CatchupStart(NewCatchup, Server, id)
  /\ mam' = BuildQuery(NewMam, id, Query(None, None))
  /\ sync' = NewSync
  /\ wire' = Put(Empty, id, Page(Query(None, None)))
  /\ UNCHANGED finId

\* The command StartMamSync with a list of conversations and their last ids.
StartMamSync(last) ==
  /\ online /\ syncs < MaxSyncs /\ syncs' = syncs + 1
  /\ sync' = StartSync(sync, syncs', last)
  /\ wire' = [q \in DOMAIN wire \cup {Id(syncs', c) : c \in DOMAIN last} |->
                IF q \in DOMAIN wire THEN wire[q]
                ELSE Page(Query(q.conv, last[q.conv]))]
  /\ again' = again \cup (DOMAIN last \cap DOMAIN sync.pending)
  /\ UNCHANGED <<finId, sessions, online, mam, catchup, blocked, seen,
                 shown, finished>>

\* A result goes to both trackers and, with a text, to the UI once.
Result(id) ==
  /\ online /\ id \in DOMAIN wire /\ wire[id] # <<>>
  /\ LET msg   == Head(wire[id])
         route == msg.text /\ msg.conv \notin blocked /\ msg.id \notin seen
     IN  /\ wire' = [wire EXCEPT ![id] = Tail(@)]
         /\ mam' = OnMamMessage(mam, id, msg)
         /\ sync' = SyncOnResult(sync, id)
         /\ seen' = IF route THEN seen \cup {msg.id} ELSE seen
         /\ shown' = IF route THEN shown \cup {msg.id} ELSE shown
  /\ UNCHANGED <<finId, sessions, online, syncs, catchup, blocked, finished, again>>

ConvOf(id) ==
  IF CatchupOnResult(catchup, id) = None THEN Server ELSE CatchupOnResult(catchup, id)

\* A <fin>: the query it is taken for leaves the three trackers.
Fin(id) ==
  /\ online /\ id \in DOMAIN wire /\ wire[id] = <<>>
  /\ wire' = Without(wire, id)
  /\ LET taken == FinQuery(mam, IF finId THEN id ELSE None)
     IN  \/ /\ taken = {} /\ UNCHANGED <<mam, catchup, sync, finished>>
         \/ \E t \in taken :
              /\ mam' = OnFinIq(mam, t)
              /\ catchup' = CatchupOnFin(catchup, t)
              /\ sync' = SyncOnFin(sync, t)
              /\ finished' = Append(finished,
                   [fin |-> id, taken |-> t, conv |-> ConvOf(t),
                    fetched |-> Len(FinResult(mam, t))])
  /\ UNCHANGED <<finId, sessions, online, syncs, blocked, seen, shown, again>>

\* The stream breaks: the stale catch-up is forgotten, and the managers go
\* with their session.
SessionEnd ==
  /\ online
  /\ catchup' = CatchupReset(catchup)
  /\ mam' = NewMam /\ sync' = NewSync /\ wire' = Empty
  /\ Fresh(FALSE)
  /\ UNCHANGED <<finId, sessions>>

\* The answer to the blocklist fetch of the session, whenever it arrives.
Blocklist ==
  /\ online /\ blocked' = Blocked
  /\ UNCHANGED <<finId, sessions, online, syncs, mam, catchup, sync, seen, wire,
                 shown, finished, again>>

Lists ==
  {last \in UNION {[J -> UNION {Cursors[c] : c \in J}] : J \in SUBSET Convs \ {{}}} :
     \A c \in DOMAIN last : last[c] \in Cursors[c]}

\* The server sends what a query asked for, and ends it.
Answered == \E id \in DOMAIN wire : Result(id) \/ Fin(id)

Next ==
  \/ Online
  \/ \E last \in Lists : StartMamSync(last)
  \/ Answered
  \/ Blocklist
  \/ SessionEnd

Spec == Init /\ [][Next]_archiveVars

\* The server goes on answering while there are queries, in whatever order.
FairSpec == Spec /\ WF_archiveVars(Answered)

-----------------------------------------------------------------------------
(* Properties                                                                *)

TypeOK ==
  /\ finId \in BOOLEAN /\ online \in BOOLEAN
  /\ sessions \in 0..MaxSessions /\ syncs \in 0..MaxSyncs
  /\ DOMAIN mam.pending = DOMAIN mam.results /\ DOMAIN mam.pending \subseteq Ids
  /\ \A q \in DOMAIN mam.results : mam.results[q] \in Seq(Messages)
  /\ \A c \in DOMAIN sync.pending : c \in Convs /\ sync.pending[c] \in Ids
  /\ \A q \in DOMAIN sync.jidOf : q \in Ids /\ sync.jidOf[q] \in Convs
  /\ \A q \in DOMAIN sync.received : q \in Ids /\ sync.received[q] \in Nat
  /\ blocked \in {{}, Blocked} /\ seen \subseteq Nat /\ shown \subseteq Nat
  /\ DOMAIN wire \subseteq Ids /\ \A q \in DOMAIN wire : wire[q] \in Seq(Messages)
  /\ again \subseteq Convs

FirstPage == Page(Query(None, None))

\* A <fin> can be told from that of any other query.
Attributable == finId \/ syncs = 0

(* When the catch-up is reported as finished, every message of its page has  *)
(* arrived: the count is that of the page, and each text of a user who is    *)
(* not blocked was handed to the UI.  (With a server that leaves the query   *)
(* out of its <fin>, only as long as no sync runs next to the catch-up.)     *)
CaughtUp ==
  Attributable =>
    \A k \in DOMAIN finished :
      finished[k].taken = Id(0, Server) =>
        /\ finished[k].fetched = Len(FirstPage)
        /\ \A i \in DOMAIN FirstPage :
             FirstPage[i].text /\ FirstPage[i].conv \notin Blocked
               => FirstPage[i].id \in shown

(* is_complete says that no query of a sync is under way, provided that no   *)
(* conversation was synced again before its first query had ended.           *)
CompleteMeansFetched ==
  finId /\ again = {} /\ SyncIsComplete(sync) =>
    \A q \in DOMAIN wire : q.conv = Server

(* A sync ends for every conversation, whatever catch-up and other syncs run *)
(* next to it, when the server names the query in its <fin>.                 *)
SyncCompletes ==
  \A c \in Convs :
    (finId /\ c \in DOMAIN sync.pending) ~> (c \notin DOMAIN sync.pending)

(* The catch-up brings the last messages of the archive, as the engine says  *)
(* where it builds the query ("query archive for the last 50 messages        *)
(* overall").                                                                *)
LastFifty ==
  (\E k \in DOMAIN finished : finished[k].taken = Id(0, Server)) /\ Attributable =>
    \A i \in DOMAIN Stored :
      i > Len(Stored) - PageMax /\ Stored[i].text /\ Stored[i].conv \notin Blocked
        => Stored[i].id \in shown
=============================================================================
