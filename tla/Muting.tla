-------------------------------- MODULE Muting --------------------------------
(***************************************************************************)
(* Whether a conversation is muted is kept five times: in its view, in the *)
(* sidebar, in the settings of the application (what notifications look    *)
(* at), in the configuration file and in its row of the database.  Each    *)
(* button flips the copy it shows and the one of the settings; the row is  *)
(* written by a job.  The model follows one conversation.                  *)
(***************************************************************************)
EXTENDS Naturals, FiniteSets

CONSTANTS
  MaxToggles, \* bound: clicks on a mute button
  MaxStarts   \* bound: starts of the program and sessions that come up

VARIABLES
  chat,     \* the chat screen is there
  header,   \* the conversation is open
  viewMute, \* ConversationView.is_muted
  sideMute, \* sidebar.muted_jids
  appMute,  \* settings.muted_jids of App
  fileMute, \* ... as saved last
  rowMute,  \* conversations.muted: "none" if there is no row
  reads,    \* what the database was asked for, or answered, at the last Connected
  writes,   \* set_muted jobs
  toggles, starts \* history: counters for the bounds

vars == <<chat, header, viewMute, sideMute, appMute, fileMute, rowMute, reads, writes,
          toggles, starts>>

Cells == {"none", "on", "off"}
Reads == {<<"all">>, <<"muted">>} \cup ({"all", "muted"} \X Cells)

Init ==
  /\ chat = FALSE /\ header = FALSE /\ viewMute = FALSE /\ sideMute = FALSE
  /\ appMute = FALSE /\ fileMute = FALSE /\ rowMute = "none"
  /\ reads = {} /\ writes = {} /\ toggles = 0 /\ starts = 0

\* handle_chat_action(ToggleMute): the settings flip their own copy, whatever
\* the button showed, and the job writes what came out.
ToggleMute ==
  /\ chat /\ toggles < MaxToggles /\ toggles' = toggles + 1
  /\ appMute' = ~appMute /\ fileMute' = ~appMute
  /\ writes' = writes \cup {<<toggles, ~appMute>>}

HeaderToggle ==
  /\ header
  /\ viewMute' = ~viewMute
  /\ ToggleMute
  /\ UNCHANGED <<chat, header, sideMute, rowMute, reads, starts>>

SidebarToggle ==
  /\ sideMute' = ~sideMute
  /\ ToggleMute
  /\ UNCHANGED <<chat, header, viewMute, rowMute, reads, starts>>

\* conversation_repo::set_muted: an UPDATE, of a row that may not be there.
SetMuted(w) ==
  /\ w \in writes
  /\ writes' = writes \ {w}
  /\ rowMute' = IF rowMute = "none" THEN "none" ELSE IF w[2] THEN "on" ELSE "off"
  /\ UNCHANGED <<chat, header, viewMute, sideMute, appMute, fileMute, reads, toggles, starts>>

\* The first message that is stored makes the row, not muted.
FirstMessage ==
  /\ rowMute = "none"
  /\ rowMute' = "off"
  /\ UNCHANGED <<chat, header, viewMute, sideMute, appMute, fileMute, reads, writes, toggles,
                 starts>>

Open ==
  /\ chat /\ ~header
  /\ header' = TRUE /\ viewMute' = FALSE
  /\ UNCHANGED <<chat, sideMute, appMute, fileMute, rowMute, reads, writes, toggles, starts>>

Connected ==
  /\ starts < MaxStarts /\ starts' = starts + 1
  /\ chat' = TRUE /\ header' = FALSE /\ viewMute' = FALSE /\ sideMute' = FALSE
  /\ reads' = reads \cup {<<"all">>, <<"muted">>}
  /\ UNCHANGED <<appMute, fileMute, rowMute, writes, toggles>>

\* conversation_repo::get_all and get_muted_jids
Read(r) ==
  /\ <<r>> \in reads
  /\ reads' = (reads \ {<<r>>}) \cup {<<r, rowMute>>}
  /\ UNCHANGED <<chat, header, viewMute, sideMute, appMute, fileMute, rowMute, writes,
                 toggles, starts>>

\* ConversationsPrefill sets the settings to what the row said; it opens the
\* conversation, with a view that is not muted.
ConversationsPrefill(cell) ==
  /\ <<"all", cell>> \in reads
  /\ reads' = reads \ {<<"all", cell>>}
  /\ appMute' = IF cell = "none" THEN appMute ELSE cell = "on"
  /\ IF chat /\ cell # "none"
       THEN /\ sideMute' = (sideMute \/ cell = "on")
            /\ header' = TRUE /\ viewMute' = (header /\ viewMute)
       ELSE UNCHANGED <<sideMute, header, viewMute>>
  /\ UNCHANGED <<chat, fileMute, rowMute, writes, toggles, starts>>

\* MutedJidsLoaded only adds.
MutedJidsLoaded(cell) ==
  /\ <<"muted", cell>> \in reads
  /\ reads' = reads \ {<<"muted", cell>>}
  /\ appMute' = (appMute \/ cell = "on")
  /\ UNCHANGED <<chat, header, viewMute, sideMute, fileMute, rowMute, writes, toggles, starts>>

\* The program ends and is started again.
Restart ==
  /\ chat
  /\ chat' = FALSE /\ header' = FALSE /\ viewMute' = FALSE /\ sideMute' = FALSE
  /\ appMute' = fileMute
  /\ reads' = {} /\ writes' = {}
  /\ UNCHANGED <<fileMute, rowMute, toggles, starts>>

Next ==
  \/ HeaderToggle \/ SidebarToggle \/ FirstMessage \/ Open \/ Connected \/ Restart
  \/ \E w \in writes : SetMuted(w)
  \/ \E r \in {"all", "muted"} : Read(r)
  \/ \E cell \in Cells : ConversationsPrefill(cell) \/ MutedJidsLoaded(cell)

Spec == Init /\ [][Next]_vars

-----------------------------------------------------------------------------

TypeOK ==
  /\ {chat, header, viewMute, sideMute, appMute, fileMute} \subseteq BOOLEAN
  /\ header => chat
  /\ rowMute \in Cells /\ reads \subseteq Reads
  /\ writes \subseteq ((0..(MaxToggles - 1)) \X BOOLEAN)

\* "so the notification path stays in sync with the DB state": when nothing
\* is under way, a conversation that has a row is muted in the settings just
\* when its row says so.
InSync == chat /\ reads = {} /\ writes = {} /\ rowMute # "none" => (appMute <=> rowMute = "on")
=============================================================================
