------------------------------- MODULE Sidebar -------------------------------
(***************************************************************************)
(* The sidebar of the chat screen: the rows of the contacts, their badges, *)
(* the forms and popovers, the commands they give, and the roster, which   *)
(* comes from the database and from the server by ways that do not wait    *)
(* for each other.                                                         *)
(***************************************************************************)
EXTENDS Naturals, FiniteSets

CONSTANTS
  Jids,      \* addresses
  Roster,    \* the roster of the server at the start
  Cached,    \* the roster table at the start
  NoJid,
  SeveralAccounts, \* vctx.multi_account
  MaxClicks, \* bound: what the user does
  MaxNews,   \* bound: messages that arrive
  MaxStarts  \* bound: sessions

VARIABLES
  chatting,  \* the screen: no chat, a chat, or one below another screen
  contacts,
  archivedJids, mutedJids,
  badges,    \* unread_counts: keys
  drafts,    \* conversations whose composer is not empty
  opened,    \* conversations of the chat screen
  selected, activeJid,
  profile,   \* selected_profile
  renaming,  \* rename_state: the contact
  forms,     \* which of the three input rows are shown
  inputs,    \* which of them are filled in
  menu,      \* show_account_menu
  asks,      \* pending_commands on their way to the engine
  rosters,   \* RosterReceived on its way: <<whence, contacts>>
  table,     \* the roster table
  served,    \* external: the roster of the server
  loaded,    \* history: the roster the server sent in this session
  clicks, news, starts \* history: counters for the bounds

sbVars == <<chatting, contacts, archivedJids, mutedJids, badges, drafts, opened, selected,
            activeJid, profile, renaming, forms, inputs, menu, asks, rosters, table, served, loaded,
            clicks, news, starts>>
marks  == <<archivedJids, mutedJids, badges>>
convs  == <<drafts, opened, activeJid>>
popups == <<profile, renaming, forms, inputs, menu>>
wires  == <<rosters, table, served, loaded>>
counts == <<clicks, news, starts>>

Forms == {"add", "join", "create"}

\* SidebarScreen::new, in a new chat screen
Fresh ==
  /\ contacts' = {} /\ archivedJids' = {} /\ mutedJids' = {} /\ badges' = {} /\ drafts' = {}
  /\ opened' = {} /\ selected' = NoJid /\ activeJid' = NoJid /\ profile' = NoJid
  /\ renaming' = NoJid /\ forms' = {} /\ inputs' = {} /\ menu' = FALSE

Init ==
  /\ chatting = "no"
  /\ contacts = {} /\ archivedJids = {} /\ mutedJids = {} /\ badges = {} /\ drafts = {}
  /\ opened = {} /\ selected = NoJid /\ activeJid = NoJid /\ profile = NoJid
  /\ renaming = NoJid /\ forms = {} /\ inputs = {} /\ menu = FALSE /\ asks = {}
  /\ rosters = {} /\ table = Cached /\ served = Roster /\ loaded = {}
  /\ clicks = 0 /\ news = 0 /\ starts = 0

Press ==
  chatting = "yes" /\ clicks < MaxClicks /\ clicks' = clicks + 1 /\ UNCHANGED <<news, starts>>
Click == Press /\ UNCHANGED chatting

-----------------------------------------------------------------------------
(* What the sidebar shows.                                                   *)

Rows == contacts \ archivedJids

Indicator(j) ==
  [badge |-> j \in badges, draft |-> j \in drafts, muted |-> j \in mutedJids]

Buttons(j) ==
  IF renaming = j THEN {"ok", "cancel"}
  ELSE {"select", "profile", "rename", "remove", "archive", "mute"}

Menu ==
  {b \in {"presence", "settings", "switch"} : menu /\ (b = "switch" => SeveralAccounts)}

-----------------------------------------------------------------------------
(* The rows.                                                                 *)

SelectContact(j) ==
  /\ Click /\ j \in Rows /\ "select" \in Buttons(j)
  /\ selected' = j /\ profile' = NoJid
  /\ opened' = opened \cup {j} /\ activeJid' = j /\ badges' = badges \ {j}
  /\ UNCHANGED <<contacts, archivedJids, mutedJids, drafts, renaming, forms, inputs, menu, asks,
                 wires>>

ShowProfile(j) ==
  /\ Click /\ j \in Rows /\ "profile" \in Buttons(j) /\ profile' = j
  /\ UNCHANGED <<contacts, marks, convs, selected, renaming, forms, inputs, menu, asks, wires>>

CloseProfile ==
  /\ Click /\ profile # NoJid /\ profile' = NoJid
  /\ UNCHANGED <<contacts, marks, convs, selected, renaming, forms, inputs, menu, asks, wires>>

StartRename(j) ==
  /\ Click /\ j \in Rows /\ "rename" \in Buttons(j) /\ renaming' = j
  /\ UNCHANGED <<contacts, marks, convs, selected, profile, forms, inputs, menu, asks, wires>>

\* The name typed may be blank.
SubmitRename(blank) ==
  /\ Click /\ renaming \in Rows /\ renaming' = NoJid
  /\ asks' = IF blank THEN asks ELSE asks \cup {<<"rename", renaming>>}
  /\ UNCHANGED <<contacts, marks, convs, selected, profile, forms, inputs, menu, wires>>

CancelRename ==
  /\ Click /\ renaming \in Rows /\ renaming' = NoJid
  /\ UNCHANGED <<contacts, marks, convs, selected, profile, forms, inputs, menu, asks, wires>>

RemoveContact(j) ==
  /\ Click /\ j \in Rows /\ "remove" \in Buttons(j)
  /\ asks' = asks \cup {<<"remove", j>>}
  /\ UNCHANGED <<contacts, marks, convs, selected, popups, wires>>

ArchiveConversation(j) ==
  /\ Click /\ j \in Rows /\ "archive" \in Buttons(j)
  /\ archivedJids' = archivedJids \cup {j}
  /\ selected' = IF selected = j THEN NoJid ELSE selected
  /\ opened' = opened \ {j} /\ drafts' = drafts \ {j}
  /\ activeJid' = IF activeJid = j THEN NoJid ELSE activeJid
  /\ UNCHANGED <<contacts, mutedJids, badges, popups, asks, wires>>

ToggleMute(j) ==
  /\ Click /\ j \in Rows /\ "mute" \in Buttons(j)
  /\ mutedJids' = IF j \in mutedJids THEN mutedJids \ {j} ELSE mutedJids \cup {j}
  /\ UNCHANGED <<contacts, archivedJids, badges, convs, selected, popups, asks, wires>>

-----------------------------------------------------------------------------
(* The forms and the menu.                                                   *)

\* ToggleAddContact, ToggleJoinRoom, ToggleCreateRoom
ToggleForm(f) ==
  /\ Click
  /\ forms' = IF f \in forms THEN forms \ {f} ELSE forms \cup {f}
  /\ inputs' = inputs \ {f}
  /\ UNCHANGED <<contacts, marks, convs, selected, profile, renaming, menu, asks, wires>>

Fill(f) ==
  /\ Click /\ f \in forms /\ inputs' = inputs \cup {f}
  /\ UNCHANGED <<contacts, marks, convs, selected, profile, renaming, forms, menu, asks, wires>>

\* SubmitAddContact, SubmitJoinRoom, SubmitCreateRoom: a room is joined by Rooms.
Submit(f, j) ==
  /\ Click /\ f \in forms
  /\ forms' = forms \ {f} /\ inputs' = inputs \ {f}
  /\ asks' = IF f \in inputs THEN asks \cup {<<f, j>>} ELSE asks
  /\ UNCHANGED <<contacts, marks, convs, selected, profile, renaming, menu, wires>>

ToggleAccountMenu ==
  /\ Click /\ menu' = ~menu
  /\ UNCHANGED <<contacts, marks, convs, selected, profile, renaming, forms, inputs, asks, wires>>

\* SetPresence, OpenSettings, OpenAccountSwitcher close the menu; the last two
\* put a screen above.
MenuChosen(b) ==
  /\ Press /\ b \in Menu /\ menu' = FALSE
  /\ chatting' = IF b = "presence" THEN "yes" ELSE "over"
  /\ UNCHANGED <<contacts, marks, convs, selected, profile, renaming, forms, inputs, asks, wires>>

GoBack ==
  /\ chatting = "over" /\ chatting' = "yes"
  /\ UNCHANGED <<contacts, marks, convs, selected, popups, asks, wires, counts>>

\* The header of the conversation, and its composer.
CloseConversation ==
  /\ Click /\ activeJid # NoJid
  /\ opened' = opened \ {activeJid} /\ drafts' = drafts \ {activeJid} /\ activeJid' = NoJid
  /\ UNCHANGED <<contacts, marks, selected, popups, asks, wires>>

Draft ==
  /\ Click /\ activeJid # NoJid /\ drafts' = drafts \cup {activeJid}
  /\ UNCHANGED <<contacts, marks, opened, activeJid, selected, popups, asks, wires>>

-----------------------------------------------------------------------------
(* The engine, the database, the server.                                     *)

\* Of the commands about contacts a session obeys one.
Serve(c) ==
  /\ c \in asks /\ asks' = asks \ {c}
  /\ served' = IF c[1] = "add" THEN served \cup {c[2]} ELSE served
  /\ UNCHANGED <<chatting, contacts, marks, convs, selected, popups, rosters, table, loaded,
                 counts>>

\* Connected: a new screen, the cached roster on its way; the engine has asked
\* for the roster, and pushes of the server are not looked at.
Connected ==
  /\ starts < MaxStarts /\ starts' = starts + 1
  /\ chatting' = "yes" /\ Fresh
  /\ rosters' = {<<"table", table>>, <<"server", served>>} /\ loaded' = {}
  /\ UNCHANGED <<asks, table, served, clicks, news>>

\* set_contacts, if a chat is on top; every roster is stored, also the one that
\* comes from there.
RosterReceived(r) ==
  /\ r \in rosters /\ rosters' = rosters \ {r}
  /\ contacts' = IF chatting = "yes" THEN r[2] ELSE contacts
  /\ table' = table \cup r[2]
  /\ loaded' = IF r[1] = "server" THEN r[2] ELSE loaded
  /\ UNCHANGED <<chatting, marks, convs, selected, popups, asks, served, counts>>

\* A message; its sender may not have a row. A covered screen does not see it.
MessageReceived(j) ==
  /\ chatting = "yes" /\ news < MaxNews /\ news' = news + 1
  /\ opened' = opened \cup {j}
  /\ badges' = IF activeJid = j THEN badges ELSE badges \cup {j}
  /\ UNCHANGED <<chatting, contacts, archivedJids, mutedJids, drafts, selected, activeJid, popups,
                 asks, wires, clicks, starts>>

Next ==
  \/ \E j \in Jids :
       \/ SelectContact(j) \/ ShowProfile(j) \/ StartRename(j) \/ RemoveContact(j)
       \/ ArchiveConversation(j) \/ ToggleMute(j) \/ MessageReceived(j)
       \/ \E f \in Forms : Submit(f, j)
  \/ CloseProfile \/ CancelRename \/ ToggleAccountMenu \/ GoBack \/ CloseConversation \/ Draft
  \/ \E blank \in BOOLEAN : SubmitRename(blank)
  \/ \E f \in Forms : ToggleForm(f) \/ Fill(f)
  \/ \E c \in asks : Serve(c)
  \/ \E r \in rosters : RosterReceived(r)
  \/ \E b \in {"presence", "settings", "switch"} : MenuChosen(b)
  \/ Connected

Spec == Init /\ [][Next]_sbVars

-----------------------------------------------------------------------------

TypeOK ==
  /\ chatting \in {"no", "yes", "over"} /\ menu \in BOOLEAN
  /\ contacts \cup archivedJids \cup mutedJids \cup badges \cup drafts \cup opened \subseteq Jids
  /\ {selected, activeJid, profile, renaming} \subseteq Jids \cup {NoJid}
  /\ inputs \subseteq forms /\ forms \subseteq Forms
  /\ asks \subseteq ({"add", "join", "create", "rename", "remove"} \X Jids)
  /\ rosters \subseteq ({"table", "server"} \X SUBSET Jids)
  /\ table \cup served \cup loaded \subseteq Jids
  /\ clicks \in 0..MaxClicks /\ news \in 0..MaxNews /\ starts \in 0..MaxStarts

\* The screen never waits for a conversation that is not there ("Loading..."),
\* and a draft marks no row whose conversation is gone: archiving, closing and
\* selecting keep the conversations and the active one together.
ActiveIsOpen == activeJid \in opened \cup {NoJid} /\ drafts \subseteq opened

\* "pre-populate sidebar from cached DB roster before server responds": once
\* both rosters are in, the one of the server is shown.
RosterIsServers == chatting = "yes" /\ rosters = {} => contacts = loaded

\* "unread message counts per JID": what is unread has a row that says so.
UnreadIsVisible == badges \subseteq Rows
=============================================================================
