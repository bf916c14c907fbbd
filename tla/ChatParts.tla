------------------------------ MODULE ChatParts ------------------------------
(***************************************************************************)
(* The chat side of the window, side by side: presence, what a             *)
(* conversation shows and keeps, changes to messages, muting, rooms, the   *)
(* view of a conversation, the list of contacts, the frame of the window,  *)
(* forms, and the styling of a body.  These share no state in the model,   *)
(* so a behaviour is one of a single component, chosen at first.           *)
(***************************************************************************)
EXTENDS Presence, Styling, FiniteSets

CONSTANTS
  Parts, None,                                          \* the components to run; no edit
  Convs, Msgs, ConvOf, Nobody, MaxArrivals, MaxConnects, MaxActs, MaxJobs, \* of History
  Sent, Emojis, MaxMutationsClicks, MaxPeer,            \* of Mutations
  MaxToggles, MaxMutingStarts,                          \* of Muting
  Halls, Public, Marked, Nicks, Me, NoHall, MaxUser, MaxServer, MaxLogins, \* of Rooms
  Self, Others, Kept, OmemoOn, MaxLines, MaxClock, MaxTimelinePresses,     \* of Timeline
  Jids, Roster, Cached, NoJid, SeveralAccounts, MaxClicks, MaxNews, MaxStarts, \* of Sidebar
  Palette, Queries, Score, Capacity, MaxKeys, MaxToasts, MaxStanzas, MaxDepth, \* of Shell
  Venues, Unnamed, InWords, Sheets, MaxAsked, MaxFormsPresses, MaxSheets   \* of Forms

VARIABLES
  part,
  page, historyOpened, view, tombs, current, badge, archived, jobs, rows, struck, convs,
  stowed, arrived, fresh, moderated, wiped, overlooked, arrivals, connects, acts,
  mark, mutationsOwn, theirs, retracted, edited, editing, queue, carriers, wire, peerHas,
  peerGone, peerNew, receipts, peer, mutationsClicks, made,
  chat, header, viewMute, sideMute, appMute, fileMute, rowMute, reads, writes, toggles,
  mutingStarts,
  paper, registered, panel, form, invites, dialog, active, orders, online, joined,
  occupants, up, down, roomsEvents, exists, seats, locked, missed, user, server, logins,
  lines, kept, loads, lastSeen, searchOpen, searching, timelineTyped, completes, replyTo,
  editMode, picker, pointer, hovered, minute, timelinePresses, atOpening,
  chatting, contacts, archivedJids, mutedJids, badges, drafts, sidebarOpened, selected,
  activeJid, profile, renaming, forms, inputs, menu, asks, rosters, table, served, loaded,
  sidebarClicks, news, sidebarStarts,
  screens, palette, query, spam, trust, banner, toasts, nextToast, timers, console, entries,
  log, keys,
  rooms, wanted, formsEvents, pending, sent, hidden, step, values, owed, answers, namedFor,
  formsTyped, created, formsPresses, formsShown

HI == INSTANCE History WITH opened <- historyOpened

MU == INSTANCE Mutations WITH
        Unedited <- None, MaxClicks <- MaxMutationsClicks,
        own <- mutationsOwn, clicks <- mutationsClicks, n <- made

MT == INSTANCE Muting WITH MaxStarts <- MaxMutingStarts, starts <- mutingStarts

RO == INSTANCE Rooms WITH events <- roomsEvents

TI == INSTANCE Timeline WITH
        MaxPresses <- MaxTimelinePresses, typed <- timelineTyped, presses <- timelinePresses

SB == INSTANCE Sidebar WITH
        opened <- sidebarOpened, clicks <- sidebarClicks, starts <- sidebarStarts

SH == INSTANCE Shell WITH Commands <- Palette

FO == INSTANCE Forms WITH
        Halls <- Venues, MaxPresses <- MaxFormsPresses, events <- formsEvents,
        typed <- formsTyped, presses <- formsPresses, shown <- formsShown

ASSUME HistoryAssumption == ConvOf \in [Msgs -> Convs]

ASSUME MutingAssumption == MaxToggles \in Nat

ASSUME RoomsAssumption ==
  Public \subseteq Halls /\ Marked \subseteq Halls /\ Me \in Nicks /\ IsFiniteSet(Nicks)

ASSUME TimelineAssumption ==
  /\ MaxLines \in Nat /\ MaxClock \in Nat /\ MaxTimelinePresses \in Nat
  /\ Kept \in Seq(TI!Lines) /\ Len(Kept) <= MaxLines

ASSUME SidebarAssumption ==
  /\ Cached \subseteq Jids /\ Roster \subseteq Jids
  /\ MaxClicks \in Nat /\ MaxNews \in Nat /\ MaxStarts \in Nat

ASSUME ShellAssumption ==
  /\ "" \in Queries /\ "open-settings" \in SH!Range(Palette) /\ Capacity \in Nat \ {0}
  /\ MaxKeys \in Nat /\ MaxToasts \in Nat /\ MaxDepth \in Nat \ {0}

ASSUME FormsAssumption == MaxAsked \in Nat /\ MaxFormsPresses \in Nat /\ MaxSheets \in Nat

historyState == <<page, historyOpened, view, tombs, current, badge, archived, jobs, rows,
                  struck, convs, stowed, arrived, fresh, moderated, wiped, overlooked, arrivals,
                  connects, acts>>
mutationsState == <<mark, mutationsOwn, theirs, retracted, edited, editing, queue, carriers,
                    wire, peerHas, peerGone, peerNew, receipts, peer, mutationsClicks, made>>
mutingState == <<chat, header, viewMute, sideMute, appMute, fileMute, rowMute, reads,
                 writes, toggles, mutingStarts>>
roomsState == <<paper, registered, panel, form, invites, dialog, active, orders, online,
                joined, occupants, up, down, roomsEvents, exists, seats, locked, missed,
                user, server, logins>>
timelineState == <<lines, kept, loads, lastSeen, searchOpen, searching, timelineTyped,
                   completes, replyTo, editMode, picker, pointer, hovered, minute,
                   timelinePresses, atOpening>>
sidebarState == <<chatting, contacts, archivedJids, mutedJids, badges, drafts,
                  sidebarOpened, selected, activeJid, profile, renaming, forms, inputs,
                  menu, asks, rosters, table, served, loaded, sidebarClicks, news,
                  sidebarStarts>>
shellState == <<screens, palette, query, spam, trust, banner, toasts, nextToast, timers,
                console, entries, log, keys>>
formsState == <<rooms, wanted, formsEvents, pending, sent, hidden, step, values, owed,
                answers, namedFor, formsTyped, created, formsPresses, formsShown>>

\* A behaviour is one of a single component; the others stay as they begin.
AllInit ==
  /\ part \in Parts /\ Init /\ HI!Init /\ MU!Init /\ MT!Init /\ RO!Init /\ TI!Init /\ SB!Init
  /\ SH!Init /\ FO!Init /\ StylingInit

AllNext ==
  /\ UNCHANGED part
  /\ IF part = "presence" THEN Next ELSE UNCHANGED vars
  /\ IF part = "history" THEN HI!Next ELSE UNCHANGED historyState
  /\ IF part = "mutations" THEN MU!Next ELSE UNCHANGED mutationsState
  /\ IF part = "muting" THEN MT!Next ELSE UNCHANGED mutingState
  /\ IF part = "rooms" THEN RO!Next ELSE UNCHANGED roomsState
  /\ IF part = "timeline" THEN TI!Next ELSE UNCHANGED timelineState
  /\ IF part = "sidebar" THEN SB!Next ELSE UNCHANGED sidebarState
  /\ IF part = "shell" THEN SH!Next ELSE UNCHANGED shellState
  /\ IF part = "forms" THEN FO!Next ELSE UNCHANGED formsState
  /\ IF part = "styling" THEN StylingNext ELSE UNCHANGED body

allVars == <<part, vars, historyState, mutationsState, mutingState, roomsState,
             timelineState, sidebarState, shellState, formsState, body>>

AllSpec == AllInit /\ [][AllNext]_allVars

\* Every variable keeps its type.
AllTypesOK ==
  CASE part = "presence" -> TypeOK
    [] part = "history" -> HI!TypeOK
    [] part = "mutations" -> MU!TypeOK
    [] part = "muting" -> MT!TypeOK
    [] part = "rooms" -> RO!TypeOK
    [] part = "timeline" -> TI!TypeOK
    [] part = "sidebar" -> SB!TypeOK
    [] part = "shell" -> SH!TypeOK
    [] part = "forms" -> FO!TypeOK
    [] OTHER -> body \in Seq(Alphabet)

\* What a conversation shows is in the database or on its way there, and its
\* badge counts what came since it was looked at (xmpp_events.rs,
\* MessageReceived; chat.rs, on_message_received).
HistoryIsTrue == part = "history" => HI!ShownIsKept /\ HI!BadgeMeansNew

\* A retracted row is never shown whole again by a second delivery, and a
\* message that was read stays read (message_repo.rs, insert; update.rs,
\* MessageDelivered).
NothingComesBack == HI!RetractionSticks /\ MU!ReadStays

\* When all has been delivered, the panel of a room shows the occupants that
\* the engine knows and that the room has (muc.rs, on_presence).
PanelAgrees == part = "rooms" => RO!PanelAgrees

\* Nobody's words stand under another's name, and the active conversation is an
\* open one (view.rs; chat.rs, ArchiveConversation).
ScreensAgree ==
  /\ part = "timeline" => TI!LabelSurvivesSearch
  /\ part = "sidebar" => SB!ActiveIsOpen

\* Each toast on the screen has a timer that names it and no other, and the
\* console shows the last stanzas in order (mod.rs, ShowToast; console.rs, push).
FrameKeepsUp == part = "shell" => SH!ToastsExpire /\ SH!ConsoleIsTail

\* A room gets no name, and a service no value, that was typed into the form of
\* another (chat.rs, RoomConfigFormReceived; adhoc.rs, CommandResponseReceived).
FormsKeepApart == part = "forms" => FO!NameIsOfRoom /\ FO!TypedForThisForm

\* Nothing of a body is lost or doubled when it is shown, whatever stands beside
\* whatever, and its spans are whole (styling.rs, parse).
BodiesKept == NothingLost /\ SpansAreWhole

-----------------------------------------------------------------------------
(* What the comments of the code say, and the code does not do: each is      *)
(* violated with Parts set to the component alone.                           *)

\* message_mutations.rs: "`emojis` is the full new set for this sender."
ReactionsAgree == MU!ReactionsAgree

\* mod.rs: "Persist the retraction so the message stays tombstoned after restart"
ModeratedStays == HI!ModeratedStays

\* mod.rs: "so the notification path stays in sync with the DB state"
InSync == MT!InSync

\* conversation/mod.rs: "Some(prefix) when active"
PanelIsOfPrefix == TI!PanelIsOfPrefix

\* view.rs: "only visible on hover"
HoverAgrees == TI!HoverAgrees

\* view.rs: "separator before the first unseen message"
SeparatorAtUnseen == TI!SeparatorAtUnseen

\* xmpp_events.rs: "pre-populate sidebar from cached DB roster before server responds"
RosterIsServers == SB!RosterIsServers

\* sidebar.rs: "unread message counts per JID"
UnreadIsVisible == SB!UnreadIsVisible

\* ui/mod.rs: "build the XML toggle button (always visible, bottom-left corner)"
ConsoleButtonShown == SH!ConsoleButtonShown

\* ui/mod.rs: a dialog that is open is drawn
OverlaysShown == SH!OverlaysShown

\* data_forms.rs: "when the user needs to fill in the form"
FormCanBeFilled == FO!FormCanBeFilled
=============================================================================
