------------------------------- MODULE History -------------------------------
(***************************************************************************)
(* What arrives, what the chat screen shows of it and what SQLite keeps.   *)
(* The screen is changed by the loop of the interface; the database is     *)
(* changed and read by jobs that the loop spawns and never waits for, one  *)
(* statement at a time, in any order.  messages.conversation_jid refers to *)
(* conversations.jid, and SQLite refuses what would break that.            *)
(* A message of the archive or of a new session may arrive a second time;  *)
(* one that is still on the screen does not (the cache of Delivery).  What  *)
(* the user sends is in Composer.                                          *)
(***************************************************************************)
EXTENDS Naturals, FiniteSets

CONSTANTS
  Convs,       \* conversations
  Msgs,        \* messages of the peers
  ConvOf,      \* the conversation of each
  Nobody,      \* no conversation is selected
  MaxArrivals, \* bound: messages that arrive, second times included
  MaxConnects, \* bound: sessions that come up
  MaxActs,     \* bound: what the user does
  MaxJobs      \* bound: jobs running when another one is spawned

VARIABLES
  page,      \* the screen: "Login", "Chat", or "Over" a chat
  opened,    \* keys of ChatScreen.conversations
  view,      \* messages of the views
  tombs,     \* those shown as retracted
  current,   \* active_jid
  badge,     \* unread_counts
  archived,  \* sidebar.archived_jids
  jobs,      \* what runs on the database
  rows,      \* table messages: ids
  struck,    \* those with retracted = 1
  convs,     \* table conversations: jids
  stowed,    \* those with archived = 1
  arrived,   \* history: messages that arrived
  fresh,     \* history: per conversation, what arrived since it was selected
  moderated, \* history: messages a moderator took back
  wiped,     \* history: what was stored, or being stored, when Clear ran
  overlooked, \* history: what was new in the room that RoomConfigured made active
  arrivals, connects, acts  \* history: counters for the bounds

db     == <<rows, struck, convs, stowed>>
screen == <<page, opened, view, tombs, current, badge, archived>>
bounds == <<arrivals, connects, acts>>
vars   == <<screen, jobs, db, arrived, fresh, moderated, wiped, overlooked, bounds>>

Of(c) == {m \in Msgs : ConvOf[m] = c}
Room  == Cardinality(jobs) < MaxJobs
Acts  == acts < MaxActs /\ acts' = acts + 1

Jobs == ({"upsert", "insert", "retract"} \X Msgs) \cup ({"load", "archive"} \X Convs)
          \cup {<<"prefill">>, <<"clear messages">>, <<"clear conversations">>}
          \cup ({"loaded"} \X Convs \X (SUBSET Msgs) \X (SUBSET Msgs))
          \cup ({"prefilled"} \X (SUBSET Convs) \X (SUBSET Convs))

Init ==
  /\ page = "Login" /\ opened = {} /\ view = {} /\ tombs = {} /\ current = Nobody
  /\ badge = [c \in Convs |-> 0] /\ archived = {}
  /\ jobs = {} /\ rows = {} /\ struck = {} /\ convs = {} /\ stowed = {}
  /\ arrived = {} /\ fresh = [c \in Convs |-> {}] /\ moderated = {}
  /\ wiped = {} /\ overlooked = {}
  /\ arrivals = 0 /\ connects = 0 /\ acts = 0

-----------------------------------------------------------------------------
(* Events of the engine.                                                     *)

\* Connected: whatever the screen was, a new chat takes its place, and the
\* cached conversations are read.
Connected ==
  /\ connects < MaxConnects /\ Room
  /\ connects' = connects + 1
  /\ page' = "Chat" /\ opened' = {} /\ view' = {} /\ tombs' = {} /\ current' = Nobody
  /\ badge' = [c \in Convs |-> 0] /\ archived' = {}
  /\ fresh' = [c \in Convs |-> {}] /\ overlooked' = {}
  /\ jobs' = jobs \cup {<<"prefill">>}
  /\ UNCHANGED <<db, arrived, moderated, wiped, arrivals, acts>>

\* Disconnected drops a chat that is on the screen, not one that is covered.
Disconnected ==
  /\ page = "Chat"
  /\ page' = "Login" /\ opened' = {} /\ view' = {} /\ tombs' = {} /\ current' = Nobody
  /\ badge' = [c \in Convs |-> 0] /\ archived' = {}
  /\ fresh' = [c \in Convs |-> {}] /\ overlooked' = {}
  /\ UNCHANGED <<jobs, db, arrived, moderated, wiped, bounds>>

\* (mutant) What the active conversation shows is not stored.
StoreUnseen(m) == IF current = ConvOf[m] THEN {} ELSE {<<"upsert", m>>}

\* The job that stores a message, whatever the screen is.
Store(m) == {<<"upsert", m>>}

\* MessageReceived: stored; shown only by a chat that
\* is on the screen, and counted there unless its conversation is active.
MessageReceived(m) ==
  LET c == ConvOf[m] IN
  /\ arrivals < MaxArrivals /\ Room /\ connects > 0
  /\ ~(page = "Chat" /\ m \in view)
  /\ arrivals' = arrivals + 1
  /\ arrived' = arrived \cup {m}
  /\ jobs' = jobs \cup Store(m)
  /\ IF page = "Chat"
       THEN /\ opened' = opened \cup {c} /\ view' = view \cup {m}
            /\ badge' = IF current = c THEN badge ELSE [badge EXCEPT ![c] = @ + 1]
            /\ fresh' = IF current = c THEN fresh ELSE [fresh EXCEPT ![c] = @ \cup {m}]
       ELSE UNCHANGED <<opened, view, badge, fresh>>
  /\ UNCHANGED <<page, tombs, current, archived, db, moderated, wiped, overlooked,
                 connects, acts>>

\* MessageModerated: a tombstone in the view, if it is shown, and a job.
MessageModerated(m) ==
  /\ m \in arrived \ moderated /\ Room
  /\ moderated' = moderated \cup {m}
  /\ tombs' = IF page = "Chat" /\ m \in view THEN tombs \cup {m} ELSE tombs
  /\ jobs' = jobs \cup {<<"retract", m>>}
  /\ UNCHANGED <<page, opened, view, current, badge, archived, db, arrived, fresh,
                 wiped, overlooked, bounds>>

-----------------------------------------------------------------------------
(* The user.                                                                 *)

\* SelectContact opens the conversation, clears its badge and reads its rows;
\* mark_read is left out, nothing reads last_read_id.
SelectContact(c) ==
  /\ page = "Chat" /\ Room
  /\ opened' = opened \cup {c} /\ current' = c
  /\ badge' = [badge EXCEPT ![c] = 0]
  /\ fresh' = [fresh EXCEPT ![c] = {}] /\ overlooked' = {}
  /\ jobs' = jobs \cup {<<"load", c>>}

\* RoomConfigured, the answer to the form that the user submitted: the room is
\* made active where it stands, its badge is not cleared and nothing is read.
RoomConfigured(c) ==
  /\ Acts /\ page = "Chat"
  /\ opened' = opened \cup {c} /\ current' = c
  /\ overlooked' = fresh[c]
  /\ UNCHANGED <<page, view, tombs, badge, archived, jobs, db, arrived, fresh, moderated,
                 wiped, arrivals, connects>>

\* A contact is in the list of the sidebar unless it is archived.
Select(c) ==
  /\ Acts /\ c \notin archived
  /\ SelectContact(c)
  /\ UNCHANGED <<page, view, tombs, archived, db, arrived, moderated, wiped, arrivals,
                 connects>>

Forget(c) ==
  /\ opened' = opened \ {c} /\ view' = view \ Of(c) /\ tombs' = tombs \ Of(c)
  /\ IF current = c THEN current' = Nobody /\ overlooked' = {}
     ELSE UNCHANGED <<current, overlooked>>

\* Close, in the header of the conversation; its badge stays as it is.
Close(c) ==
  /\ Acts /\ page = "Chat" /\ current = c
  /\ Forget(c)
  /\ UNCHANGED <<page, badge, archived, jobs, db, arrived, fresh, moderated, wiped,
                 arrivals, connects>>

\* Archive, in the sidebar.
ArchiveConversation(c) ==
  /\ Acts /\ page = "Chat" /\ c \notin archived /\ Room
  /\ Forget(c)
  /\ archived' = archived \cup {c}
  /\ jobs' = jobs \cup {<<"archive", c>>}
  /\ UNCHANGED <<page, badge, db, arrived, fresh, moderated, wiped, arrivals, connects>>

\* Settings, About, the vCard editor, Adhoc and the account switcher box the
\* chat; what happens meanwhile does not reach it.
Cover ==
  /\ Acts /\ page = "Chat" /\ page' = "Over"
  /\ UNCHANGED <<opened, view, tombs, current, badge, archived, jobs, db, arrived,
                 fresh, moderated, wiped, overlooked, arrivals, connects>>

GoBack ==
  /\ page = "Over" /\ page' = "Chat"
  /\ UNCHANGED <<opened, view, tombs, current, badge, archived, jobs, db, arrived,
                 fresh, moderated, wiped, overlooked, bounds>>

\* "Clear chat history" of the settings.
ClearHistory ==
  /\ Acts /\ page = "Over" /\ Room
  /\ jobs' = jobs \cup {<<"clear messages">>}
  /\ UNCHANGED <<screen, db, arrived, fresh, moderated, wiped, overlooked, arrivals,
                 connects>>

-----------------------------------------------------------------------------
(* Answers of the jobs, in the loop of the interface.                        *)

\* MessagesLoaded replaces the messages of the view.
MessagesLoaded(c, ids, gone) ==
  /\ <<"loaded", c, ids, gone>> \in jobs
  /\ jobs' = jobs \ {<<"loaded", c, ids, gone>>}
  /\ IF page = "Chat" /\ c \in opened
       THEN /\ view' = (view \ Of(c)) \cup ids
            /\ tombs' = (tombs \ Of(c)) \cup gone
       ELSE UNCHANGED <<view, tombs>>
  /\ UNCHANGED <<page, opened, current, badge, archived, db, arrived, fresh, moderated,
                 wiped, overlooked, bounds>>

\* ConversationsPrefill opens every conversation, hides the archived ones, and
\* selects the first that is not; the order is that of last_activity.
ConversationsPrefill(all, hidden) ==
  /\ <<"prefilled", all, hidden>> \in jobs
  /\ IF page # "Chat"
       THEN jobs' = jobs \ {<<"prefilled", all, hidden>>}
            /\ UNCHANGED <<opened, current, badge, archived, fresh, overlooked>>
       ELSE /\ archived' = archived \cup hidden
            /\ IF all = hidden
                 THEN /\ jobs' = jobs \ {<<"prefilled", all, hidden>>}
                      /\ opened' = opened \cup all
                      /\ UNCHANGED <<current, badge, fresh, overlooked>>
                 ELSE \E c \in all \ hidden :
                        /\ opened' = opened \cup all /\ current' = c
                        /\ badge' = [badge EXCEPT ![c] = 0]
                        /\ fresh' = [fresh EXCEPT ![c] = {}] /\ overlooked' = {}
                        /\ jobs' = (jobs \ {<<"prefilled", all, hidden>>}) \cup {<<"load", c>>}
  /\ UNCHANGED <<page, view, tombs, db, arrived, moderated, wiped, bounds>>

-----------------------------------------------------------------------------
(* The jobs, one statement at a time.                                        *)

Done(j, more) == j \in jobs /\ jobs' = (jobs \ {j}) \cup more

\* conversation_repo::upsert: INSERT OR IGNORE.
Upsert(m) ==
  /\ Done(<<"upsert", m>>, {<<"insert", m>>})
  /\ convs' = convs \cup {ConvOf[m]}
  /\ UNCHANGED <<screen, rows, struck, stowed, arrived, fresh, moderated, wiped,
                 overlooked, bounds>>

\* message_repo::insert: INSERT OR IGNORE; without its conversation the row is
\* refused, and the error is dropped.
Insert(m) ==
  /\ Done(<<"insert", m>>, {})
  /\ rows' = IF ConvOf[m] \in convs THEN rows \cup {m} ELSE rows
  /\ UNCHANGED <<screen, struck, convs, stowed, arrived, fresh, moderated, wiped,
                 overlooked, bounds>>

\* message_repo::mark_retracted: an UPDATE, of a row that may not be there.
MarkRetracted(m) ==
  /\ Done(<<"retract", m>>, {})
  /\ struck' = struck \cup ({m} \cap rows)
  /\ UNCHANGED <<screen, rows, convs, stowed, arrived, fresh, moderated, wiped,
                 overlooked, bounds>>

SetArchived(c) ==
  /\ Done(<<"archive", c>>, {})
  /\ stowed' = stowed \cup ({c} \cap convs)
  /\ UNCHANGED <<screen, rows, struck, convs, arrived, fresh, moderated, wiped,
                 overlooked, bounds>>

\* message_repo::find_before: the newest 50 rows of the conversation.
FindBefore(c) ==
  /\ Done(<<"load", c>>, {<<"loaded", c, rows \cap Of(c), struck \cap Of(c)>>})
  /\ UNCHANGED <<screen, db, arrived, fresh, moderated, wiped, overlooked, bounds>>

GetAll ==
  /\ Done(<<"prefill">>, {<<"prefilled", convs, stowed>>})
  /\ UNCHANGED <<screen, db, arrived, fresh, moderated, wiped, overlooked, bounds>>

Storing == {m \in Msgs : <<"upsert", m>> \in jobs \/ <<"insert", m>> \in jobs}

ClearMessages ==
  /\ Done(<<"clear messages">>, {<<"clear conversations">>})
  /\ rows' = {} /\ struck' = {}
  /\ wiped' = wiped \cup rows \cup Storing
  /\ UNCHANGED <<screen, convs, stowed, arrived, fresh, moderated, overlooked, bounds>>

\* Refused as a whole when a message was stored since.
ClearConversations ==
  /\ Done(<<"clear conversations">>, {})
  /\ IF rows = {} THEN convs' = {} /\ stowed' = {} ELSE UNCHANGED <<convs, stowed>>
  /\ wiped' = wiped \cup Storing
  /\ UNCHANGED <<screen, rows, struck, arrived, fresh, moderated, overlooked, bounds>>

\* The program ends: the screen and the jobs are gone.
Quit ==
  /\ Acts
  /\ page' = "Login" /\ opened' = {} /\ view' = {} /\ tombs' = {} /\ current' = Nobody
  /\ badge' = [c \in Convs |-> 0] /\ archived' = {}
  /\ fresh' = [c \in Convs |-> {}] /\ overlooked' = {}
  /\ jobs' = {}
  /\ UNCHANGED <<db, arrived, moderated, wiped, arrivals, connects>>

Next ==
  \/ Connected \/ Disconnected \/ Cover \/ GoBack \/ ClearHistory \/ GetAll
  \/ ClearMessages \/ ClearConversations \/ Quit
  \/ \E m \in Msgs : \/ MessageReceived(m) \/ MessageModerated(m) \/ Upsert(m)
                     \/ Insert(m) \/ MarkRetracted(m)
  \/ \E c \in Convs : \/ Select(c) \/ RoomConfigured(c) \/ Close(c) \/ ArchiveConversation(c)
                      \/ SetArchived(c) \/ FindBefore(c)
  \/ \E j \in jobs : \/ j[1] = "loaded" /\ MessagesLoaded(j[2], j[3], j[4])
                     \/ j[1] = "prefilled" /\ ConversationsPrefill(j[2], j[3])

Spec == Init /\ [][Next]_vars

-----------------------------------------------------------------------------

TypeOK ==
  /\ page \in {"Login", "Chat", "Over"} /\ opened \subseteq Convs
  /\ view \subseteq Msgs /\ tombs \subseteq view /\ \A m \in view : ConvOf[m] \in opened
  /\ current \in opened \cup {Nobody}
  /\ badge \in [Convs -> Nat] /\ archived \subseteq Convs
  /\ jobs \subseteq Jobs /\ overlooked \subseteq Msgs
  /\ struck \subseteq rows /\ stowed \subseteq convs
  /\ \A m \in rows : ConvOf[m] \in convs

\* What the screen shows is in the database or on its way there, whatever
\* screens came and went and whenever the view was read; only clearing the
\* history takes a message from under a view.
ShownIsKept == \A m \in view : m \in rows \cup Storing \cup wiped

\* There is a badge just where messages came since the user last chose that
\* conversation, and what comes to the one that is on the screen has none; a
\* room that becomes active by RoomConfigured keeps the badge that it had.
BadgeMeansNew ==
  /\ \A c \in Convs : badge[c] > 0 <=> fresh[c] # {}
  /\ current # Nobody => fresh[current] \subseteq overlooked

\* A row that was retracted is never shown whole again by a second delivery:
\* it stays retracted until the history is cleared.
RetractionSticks == [][\A m \in struck : m \in rows' => m \in struck']_vars

\* "Persist the retraction so the message stays tombstoned after restart":
\* once the job has run, no row of a moderated message is whole.
ModeratedStays ==
  \A m \in moderated \cap rows : m \in struck \/ <<"retract", m>> \in jobs
=============================================================================
