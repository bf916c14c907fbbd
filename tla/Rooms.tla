-------------------------------- MODULE Rooms --------------------------------
(***************************************************************************)
(* Multi-user chat: the rooms of the engine, the occupant panels of the    *)
(* chat screen, invitations and the configuration of a new room.  A room   *)
(* is registered in the chat before the command to join it is on its way;  *)
(* the bookmarks join without registering it.  The engine forgets its      *)
(* rooms with the session, the interface with the chat screen.             *)
(***************************************************************************)
EXTENDS Naturals, Sequences, FiniteSets, SequencesExt

CONSTANTS
  Halls,     \* rooms
  Public,    \* those that exist from the start
  Marked,    \* those bookmarked with autojoin
  Nicks,     \* nicknames
  Me,        \* the user's
  NoHall,
  MaxUser,   \* bound: what the user does
  MaxServer, \* bound: what the server does of its own accord
  MaxLogins  \* bound: sessions

VARIABLES
  paper,     \* the screen: "Login", "Chat", or "Over" a chat
  registered,\* muc_jids
  panel,     \* muc_occupants, as the panels show them
  form,      \* pending_room_config: a room; its values are left out
  invites,   \* pending_invitations
  dialog,    \* pending_invite_dialog
  active,    \* active_jid
  orders,    \* commands, each carried by a task of its own
  online,    \* the session is up
  joined,    \* keys of MucManager.rooms
  occupants, \* their occupants
  up, down,  \* the stream
  events,    \* of the engine, on their way to the interface
  exists,    \* rooms of the server
  seats,     \* who is in them
  locked,    \* those that are new and wait for their configuration
  missed,    \* history: rooms one of whose presences a covered chat did not see
  user, server, logins \* history: counters for the bounds

chatVars   == <<paper, registered, panel, form, invites, dialog, active, missed>>
streamVars == <<online, joined, occupants, up, down>>
serverVars == <<exists, seats, locked>>
bounds     == <<user, server, logins>>
vars       == <<chatVars, orders, streamVars, events, serverVars, bounds>>

Nobodies == [r \in Halls |-> {}]
Orders == {"join", "invite", "configure"} \X Halls
Acts(n)   == user < MaxUser /\ user' = user + n /\ UNCHANGED <<server, logins>>
Serves    == server < MaxServer /\ server' = server + 1 /\ UNCHANGED <<user, logins>>

Init ==
  /\ paper = "Login" /\ registered = {} /\ panel = Nobodies
  /\ form = NoHall /\ invites = {} /\ dialog = NoHall /\ active = NoHall
  /\ orders = {} /\ online = FALSE /\ joined = {} /\ occupants = Nobodies
  /\ up = <<>> /\ down = <<>> /\ events = <<>>
  /\ exists = Public /\ seats = [r \in Halls |-> IF r \in Public THEN Nicks \ {Me} ELSE {}]
  /\ locked = {} /\ missed = {} /\ user = 0 /\ server = 0 /\ logins = 0

-----------------------------------------------------------------------------
(* The user, in the chat screen.                                             *)

\* on_join_room: registered, and a panel unless there is one.
OnJoinRoom(r) == registered' = registered \cup {r}

\* JoinRoom and CreateRoom of the sidebar: the engine joins either way.
JoinRoom(r) ==
  /\ paper = "Chat" /\ Acts(1)
  /\ OnJoinRoom(r)
  /\ orders' = orders \cup {<<"join", r>>}
  /\ UNCHANGED <<paper, panel, form, invites, dialog, active, missed, streamVars, events,
                 serverVars>>

AcceptInvitation(r) ==
  /\ paper = "Chat" /\ r \in invites /\ form = NoHall /\ dialog = NoHall
  /\ invites' = invites \ {r}
  /\ OnJoinRoom(r)
  /\ orders' = orders \cup {<<"join", r>>}
  /\ UNCHANGED <<paper, panel, form, dialog, active, missed, streamVars, events, serverVars, bounds>>

DeclineInvitation(r) ==
  /\ paper = "Chat" /\ r \in invites /\ form = NoHall /\ dialog = NoHall
  /\ invites' = invites \ {r}
  /\ UNCHANGED <<paper, registered, panel, form, dialog, active, missed, orders, streamVars,
                 events, serverVars, bounds>>

\* ConversationsPrefill, once for every chat: the newest conversation that is
\* stored is selected, which may be that of a room.
Prefilled(r) ==
  /\ paper = "Chat" /\ active = NoHall /\ Acts(1)
  /\ active' = r
  /\ UNCHANGED <<paper, registered, panel, form, invites, dialog, missed, orders, streamVars,
                 events, serverVars>>

\* The button is on the panel of the active room; the dialog hides all else.
OpenInviteDialog ==
  /\ paper = "Chat" /\ active \in registered /\ dialog = NoHall /\ Acts(1)
  /\ dialog' = active
  /\ UNCHANGED <<paper, registered, panel, form, invites, active, missed, orders, streamVars,
                 events, serverVars>>

\* SubmitInvite, of a name that may be blank, or DismissInviteDialog.
CloseInviteDialog ==
  /\ paper = "Chat" /\ dialog # NoHall
  /\ \E more \in {{}, {<<"invite", dialog>>}} : orders' = orders \cup more
  /\ dialog' = NoHall
  /\ UNCHANGED <<paper, registered, panel, form, invites, active, missed, streamVars, events,
                 serverVars, bounds>>

ConfigShown == paper = "Chat" /\ form # NoHall /\ dialog = NoHall

SubmitRoomConfig ==
  /\ ConfigShown
  /\ orders' = orders \cup {<<"configure", form>>}
  /\ form' = NoHall
  /\ UNCHANGED <<paper, registered, panel, invites, dialog, active, missed, streamVars, events,
                 serverVars, bounds>>

DismissRoomConfig ==
  /\ ConfigShown
  /\ form' = NoHall
  /\ UNCHANGED <<paper, registered, panel, invites, dialog, active, missed, orders, streamVars,
                 events, serverVars, bounds>>

Cover ==
  /\ paper = "Chat" /\ Acts(1)
  /\ paper' = "Over"
  /\ UNCHANGED <<registered, panel, form, invites, dialog, active, missed, orders, streamVars,
                 events, serverVars>>

GoBack ==
  /\ paper = "Over" /\ paper' = "Chat"
  /\ UNCHANGED <<registered, panel, form, invites, dialog, active, missed, orders, streamVars,
                 events, serverVars, bounds>>

-----------------------------------------------------------------------------
(* Events of the engine, in the interface.                                   *)

NewChat ==
  /\ registered' = {} /\ panel' = Nobodies /\ form' = NoHall /\ invites' = {}
  /\ dialog' = NoHall /\ active' = NoHall /\ missed' = {}

\* on_muc_presence
OnMucPresence(r, n, available) ==
  panel' = [panel EXCEPT ![r] = IF available THEN @ \cup {n} ELSE @ \ {n}]

\* (mutant) Only those who come are shown.
OnPresenceComing(r, n, available) ==
  IF r \in registered /\ available THEN OnMucPresence(r, n, available) ELSE UNCHANGED panel

\* on_presence: the panel of a registered room, else a contact of the sidebar.
OnPresence(r, n, available) ==
  IF r \in registered THEN OnMucPresence(r, n, available) ELSE UNCHANGED panel

\* RoomConfigFormReceived takes the place of a form that is being edited.
RoomConfigFormReceived(r) == form' = r

\* RoomConfigured: the conversation of the room is opened, whatever form is
\* on the screen is gone.
RoomConfigured(r) == form' = NoHall /\ active' = r

\* What a chat on the screen does with an event.
OnScreen(e) ==
  \/ /\ e[1] \in {"available", "unavailable"}
     /\ OnPresence(e[2], e[3], e[1] = "available")
     /\ UNCHANGED <<registered, form, invites, dialog, active, missed>>
  \/ /\ e[1] = "form"
     /\ RoomConfigFormReceived(e[2])
     /\ UNCHANGED <<registered, panel, invites, dialog, active, missed>>
  \/ /\ e[1] = "configured"
     /\ RoomConfigured(e[2])
     /\ UNCHANGED <<registered, panel, invites, dialog, missed>>
  \/ /\ e[1] = "invitation"
     /\ invites' = invites \cup {e[2]}
     /\ UNCHANGED <<registered, panel, form, dialog, active, missed>>
  \/ /\ e[1] = "bookmarks"
     /\ UNCHANGED <<registered, panel, form, invites, dialog, active, missed>>

\* Without one, only the screen itself changes.
OffScreen(e) ==
  /\ missed' = IF e[1] \in {"available", "unavailable"} THEN missed \cup {e[2]} ELSE missed
  /\ UNCHANGED <<registered, panel, form, invites, dialog, active>>

\* Connected: a new chat.  Disconnected: the login screen, unless it is covered.
HandleEvent ==
  /\ events # <<>> /\ events' = Tail(events)
  /\ LET e == Head(events) IN
       /\ orders' = IF e[1] = "bookmarks" THEN orders \cup ({"join"} \X Marked) ELSE orders
       /\ \/ e[1] = "connected" /\ paper' = "Chat" /\ NewChat
          \/ e[1] = "disconnected" /\ paper = "Chat" /\ paper' = "Login" /\ NewChat
          \/ e[1] = "disconnected" /\ paper # "Chat"
               /\ UNCHANGED chatVars
          \/ paper = "Chat" /\ OnScreen(e) /\ UNCHANGED paper
          \/ e[1] \notin {"connected", "disconnected"} /\ paper # "Chat" /\ OffScreen(e)
               /\ UNCHANGED paper
  /\ UNCHANGED <<streamVars, serverVars, bounds>>

-----------------------------------------------------------------------------
(* The engine.                                                               *)

\* join_room: the room is recorded anew, without occupants.
JoinCommand(r) ==
  /\ joined' = joined \cup {r} /\ occupants' = [occupants EXCEPT ![r] = {}]
  /\ up' = Append(up, <<"join", r>>)

\* A command; between two sessions it is discarded.
Command(o) ==
  /\ o \in orders /\ orders' = orders \ {o}
  /\ \/ online /\ o[1] = "join" /\ JoinCommand(o[2])
     \/ online /\ o[1] # "join" /\ up' = Append(up, o) /\ UNCHANGED <<joined, occupants>>
     \/ ~online /\ UNCHANGED <<joined, occupants, up>>
  /\ UNCHANGED <<chatVars, online, down, events, serverVars, bounds>>

\* MucManager::on_presence
MucOnPresence(r, n, available) ==
  occupants' = IF r \notin joined THEN occupants
               ELSE [occupants EXCEPT ![r] = IF available THEN @ \cup {n} ELSE @ \ {n}]

\* dispatch_stanza: a presence is kept and told; status 201 asks for the form;
\* forms, results, invitations and bookmarks are told.
Dispatch ==
  /\ online /\ down # <<>> /\ down' = Tail(down)
  /\ LET s == Head(down) IN
       \/ /\ s[1] \in {"available", "unavailable"}
          /\ MucOnPresence(s[2], s[3], s[1] = "available")
          /\ events' = Append(events, s) /\ UNCHANGED up
       \/ /\ s[1] = "created"
          /\ MucOnPresence(s[2], Me, TRUE)
          /\ events' = Append(events, <<"available", s[2], Me>>)
          /\ up' = Append(up, <<"form", s[2]>>)
       \/ /\ s[1] \in {"form", "configured", "invitation", "bookmarks"}
          /\ events' = Append(events, s) /\ UNCHANGED <<occupants, up>>
  /\ UNCHANGED <<chatVars, orders, online, joined, serverVars, bounds>>

\* Online: Connected is told, the bookmarks are fetched.
Online ==
  /\ ~online /\ logins < MaxLogins /\ logins' = logins + 1
  /\ online' = TRUE
  /\ events' = Append(events, <<"connected">>)
  /\ down' = <<<<"bookmarks">>>>
  /\ UNCHANGED <<chatVars, orders, joined, occupants, up, serverVars, user, server>>

\* The session ends, with its MucManager; the server empties the user's seats.
SessionEnd ==
  /\ online /\ logins < MaxLogins
  /\ online' = FALSE /\ joined' = {} /\ occupants' = Nobodies /\ up' = <<>> /\ down' = <<>>
  /\ events' = Append(events, <<"disconnected">>)
  /\ seats' = [r \in Halls |-> seats[r] \ {Me}]
  /\ UNCHANGED <<chatVars, orders, exists, locked, bounds>>

-----------------------------------------------------------------------------
(* The server (external).                                                    *)

Coming(r, S) == SetToSeq({<<"available", r, n>> : n \in S})

\* A join of an old room is answered with its occupants, the user last.
Serve ==
  /\ online /\ up # <<>> /\ up' = Tail(up)
  /\ LET s == Head(up) IN
       \/ /\ s[1] = "join" /\ s[2] \in exists
          /\ seats' = [seats EXCEPT ![s[2]] = @ \cup {Me}]
          /\ down' = down \o Coming(s[2], seats[s[2]] \ {Me}) \o Coming(s[2], {Me})
          /\ UNCHANGED <<exists, locked>>
       \/ /\ s[1] = "join" /\ s[2] \notin exists
          /\ exists' = exists \cup {s[2]} /\ locked' = locked \cup {s[2]}
          /\ seats' = [seats EXCEPT ![s[2]] = {Me}]
          /\ down' = Append(down, <<"created", s[2]>>)
       \/ /\ s[1] = "form"
          /\ down' = Append(down, s) /\ UNCHANGED <<exists, seats, locked>>
       \/ /\ s[1] = "configure"
          /\ locked' = locked \ {s[2]}
          /\ down' = Append(down, <<"configured", s[2]>>) /\ UNCHANGED <<exists, seats>>
       \/ /\ s[1] = "invite" /\ UNCHANGED <<exists, seats, locked, down>>
  /\ UNCHANGED <<chatVars, orders, online, joined, occupants, events, bounds>>

\* Somebody else comes or goes; the user is told when in the room.
SeatChanges(r, n) ==
  /\ r \in exists /\ n # Me /\ r \notin locked /\ Serves
  /\ seats' = [seats EXCEPT ![r] = IF n \in @ THEN @ \ {n} ELSE @ \cup {n}]
  /\ down' = IF Me \in seats[r]
               THEN Append(down, <<IF n \in seats[r] THEN "unavailable" ELSE "available", r, n>>)
               ELSE down
  /\ UNCHANGED <<chatVars, orders, online, joined, occupants, up, events, exists, locked>>

Invite(r) ==
  /\ online /\ r \in exists /\ Serves
  /\ down' = Append(down, <<"invitation", r>>)
  /\ UNCHANGED <<chatVars, orders, online, joined, occupants, up, events, serverVars>>

Next ==
  \/ OpenInviteDialog \/ CloseInviteDialog \/ SubmitRoomConfig
  \/ DismissRoomConfig \/ Cover \/ GoBack \/ HandleEvent \/ Dispatch \/ Online \/ SessionEnd
  \/ Serve
  \/ \E o \in orders : Command(o)
  \/ \E r \in Halls : \/ JoinRoom(r) \/ AcceptInvitation(r) \/ DeclineInvitation(r)
                      \/ Prefilled(r) \/ Invite(r)
                      \/ \E n \in Nicks : SeatChanges(r, n)

Spec == Init /\ [][Next]_vars

-----------------------------------------------------------------------------

TypeOK ==
  /\ paper \in {"Login", "Chat", "Over"} /\ registered \subseteq Halls /\ locked \subseteq exists
  /\ panel \in [Halls -> SUBSET Nicks] /\ occupants \in [Halls -> SUBSET Nicks]
  /\ \A r \in Halls \ joined : occupants[r] = {}
  /\ \A r \in Halls \ registered : panel[r] = {}
  /\ orders \subseteq Orders /\ (paper = "Login" => invites = {})
  /\ ~online => up = <<>> /\ down = <<>>

\* When all has been delivered, the panel of a room that the user joined shows
\* the occupants that the engine knows and that the room has, after any number
\* of joins of the same room, unless a screen covered the chat meanwhile.
PanelAgrees ==
  online /\ paper = "Chat" /\ orders = {} /\ up = <<>> /\ down = <<>> /\ events = <<>> =>
    \A r \in (registered \cap joined) \ missed :
      panel[r] = occupants[r] /\ panel[r] = seats[r]
=============================================================================
