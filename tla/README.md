# A TLA+ model of xmpp-start

This directory holds TLA+ modules that model the client (a desktop
XMPP client in Rust: an `iced` user interface and a `tokio` engine), TLC
configurations that check them on small instances, and proofs that TLAPS
checks for every value of the constants. `PROJECT.json` says which lines of the
source each definition stands for, which property each run checks, and which
change of the model breaks it.

    tlc -workers 2 -config Connection.cfg Connection       # a run
    tlapm Connection_proofs.tla                            # the proofs

## 1. The system

### How the parts fit together

    user -> UI thread (ui/mod.rs App::update) -- spawned tasks --> command channel (32)
                 ^                                                       |
                 |                                                       v
            event channel (64) <-- engine (xmpp/engine.rs) <-- session loop
                                                                 |      ^
                                                        outbox, limiter |
                                                                 v      |
                                                          client library, server

* The **UI thread** handles one message at a time: `App::update` changes the
  screen and returns a `Task`; tasks run on their own and send commands to the
  engine, so two commands issued one after the other may arrive in either
  order.
* The **engine** (`run_engine`) waits for a `Connect`, runs a session
  (`run_session_loop`) until the stream ends, a `Disconnect` or another
  `Connect` arrives, reports `Disconnected`, and waits again. A session owns
  every protocol manager: all of them start empty with each session.
* The **session loop** drains its outbox through a token bucket, then waits in
  `select!` for a client event or a command; handlers push stanzas to the
  outbox and events to the event channel.
* **Events** are handled by the UI in order (`ui/xmpp_events.rs`), some by the
  screen that happens to be visible.
* The **store** (SQLite) is written by tasks of the UI.

### The parts

State, operations and what makes each part correct. `PROJECT.json` lists the
components with their sources and what is left out of each; "partly" there says
that some operation has no action.

| Part | State | Operations and partners | What must hold | Module |
|---|---|---|---|---|
| Connection: `engine.rs`, `subscription.rs`, `ui/mod.rs`, `xmpp_events.rs`, `navigation.rs`, `login.rs` | screen stack, login state, remembered configurations, reconnect attempt; engine idle or in a session; both channels | connect, log out, add an account, disconnect; delayed reconnection; Online, Disconnected, Reconnecting | the UI shows the session there is; refused credentials are not retried; retries end; a logout ends the session | `Connection` |
| Where a session dials: `connection/*.rs`, `engine.rs`, network panel | settings of the disk and of the account, proxy lifecycle | edit, log in, connect, reconnect | a session dials what was chosen at the last login | `Dial` |
| Registration: `registration.rs`, `engine.rs`, `login.rs` | session that only registers, words under the form | command, form, result, error, end of stream | each registration ends with one word to the window | `Registration` |
| Outbound path: `engine.rs` | command channel, outbox, token bucket | commands, handlers' answers, draining, deferral, end of session | order, no loss but by a dead stream or the end of a session, the rate, a deferred stanza leaves in the end | `Outbox`, `Fifo` |
| Stream management: `stream_mgmt.rs` | counters that wrap, unacknowledged queue | count, request, acknowledge, coalesce, reset | what is not acknowledged is kept | `Stream` |
| Presence: `presence_machine.rs`, `engine.rs`, `ui/mod.rs` | idle clock and state of the UI, machine of the session, what the server shows | idle timer, activity, choice of a status, reconnection | the user's choice is never changed by automation; the server shows the machine's status | `Presence` |
| Incoming messages: `engine.rs`, `handlers/message.rs`, `muc.rs`, `xmpp_events.rs`, `message_repo.rs` | duplicate cache, messages table | routing of live messages, carbons, archive results, rooms, encrypted messages | no message lost to the cache, all stored | `Delivery` |
| Messages on the screen and in SQLite: `chat.rs`, `conversation_repo.rs`, `message_repo.rs` | views, badges, tombstones, rows, jobs under way | arrive, retract, moderate, clear, select, restart | what is shown is stored or about to be; a retraction sticks | `History` |
| Archive: `mam.rs`, `catchup.rs`, `sync.rs` | pending queries of three trackers, catch-up, bulk sync | query, result, end with or without an id, page after page | a finished catch-up has its page; a sync ends, and is complete when it says so | `Archive` |
| Mutations: `message_mutations.rs`, `conversation/update.rs` | marks, reactions, edits, retractions of both sides | buttons, tasks, stanzas, receipts and markers in any order | what was read stays read | `Mutations` |
| Composer: `conversation/*`, `chat.rs` | draft, edit mode, staged files, recorder, tasks | type, send, attach, record, previews | what is shown as sent was sent; the microphone follows the recorder | `Composer` |
| Timeline, sidebar, mute: `view.rs`, `sidebar.rs`, `chat.rs`, `settings.rs` | messages, search, rows, badges, five copies of a mute | search, reply, edit, select, archive, mute, roster | nobody's words under another's name; the active conversation is open | `Timeline`, `Sidebar`, `Muting` |
| Window: `ui/mod.rs`, `palette.rs`, `toast.rs`, `xml_console.rs` | screens, palette, dialogs, toasts, console | open, close, search, show, expire | a toast has its timer; the console is the tail of the log | `Shell` |
| Rooms: `muc.rs`, `muc_config.rs`, `muc_panel.rs`, `bookmarks.rs` | rooms, occupants, the panel's list | join, leave, presence, nickname changes, automatic join, invitations | the panel shows the occupants | `Rooms` |
| OMEMO: `modules/omemo/*`, `engine.rs`, `handlers/iq.rs` | own identity and prekeys, devices and their trust, sessions (all in the store); requests under way; trust dialog | enable, republish, device lists, bundles, encrypt, prekey messages, trust decisions, stops of the program | a trust decision lands and is kept; no message to a device the user did not trust; a prekey opens one message; what is announced is what is stored | `Omemo`, `Keyring` |
| File upload: `file_upload.rs`, `engine.rs`, `xmpp_events.rs`, `chat.rs` | remembered file, pending request, PUTs under way | attach and send, slot or refusal, PUT, message with the address | no file twice; the guard opens again | `Upload` |
| Blocking: `blocking.rs`, `blocklist.rs` | list of the server, copy of the session, list of the panel | fetch, push, block, unblock | the copy is the server's list; nothing of a blocked peer gets through | `Blocking` |
| Several accounts: `account_state.rs`, `multi_engine.rs`, `account_switcher.rs` | registered accounts, active one, switchers | add, switch, remove | the active account is registered | `Accounts` |
| Pictures and profiles: `avatar.rs`, `avatar_crop.rs`, `vcard_edit.rs`, `vcard_editor.rs` | caches, files, pending requests, the editor | two ways to a picture, crop, publish, load and save | a picture is shown for its owner; the one of an address is asked for once | `Avatars`, `Profile` |
| Discovery, commands, forms: `disco.rs`, `adhoc.rs`, `data_forms.rs`, `handlers/iq.rs` | digest, answers, command sessions, forms filled in | ask, answer, execute, fill, submit | answers match the digest; a command that executes waits for what is still on its way; a value goes to its form | `Disco`, `Queries`, `Forms` |
| At the server: `ignore.rs`, `conversation_sync.rs`, `push.rs`, `account.rs` | private nodes, push registration, account | ignore, sync, enable, change the password, delete | a clean-up that is granted leaves one registration; what is reported is true | `Vault` |
| Settings: `settings.rs`, `config/mod.rs` | settings of the application, of the open screens, of the disk; password | edit, save, the server's preference, restart | the user's last choice is what is kept | `Settings` |
| Styling: `styling.rs` | - | cut a body into spans | no character is lost; links and delimiters stay in one piece | `Styling` |

### What is hard

Commands of the UI travel in unordered tasks; delayed tasks outlive the state
that started them; the visible screen decides what an event does; each session
forgets what the last one knew while the UI remembers; the outbox depends on
unrelated traffic for its progress; one message arrives by several paths under
different identifiers; one fact is kept in up to five places that are changed one
at a time; statements on the database are jobs nobody waits for; answers carry an
id that two trackers, or none, may know; a slot is used for whatever file is
remembered; counters wrap; the program may be stopped between two statements of
one OMEMO handler. The list, with lines and the properties that watch each, is
`hazards` in `PROJECT.json`.

## 2. Modules

Every component has a module. Where components interact through a protocol of
their own (the UI and the engine over channels, the engine and the server over the
stream) both ends are in one module. Components that interact only through what the
comment at the top of a module names share no variables: Presence takes a pushed
stanza to be delivered in order, which `Outbox` shows up to the end of the stream;
Delivery and Upload contain a smaller session than `Connection`; History starts
where Delivery ends, with a message told to the UI.

`MessageParts` (stream management, archive, composer), `ChatParts` (presence, history,
mutations, muting, rooms, timeline, sidebar, window, forms, styling) and `ServiceParts`
(uploads, settings, blocking, accounts, profile, commands, avatars, registration,
discovery, dialling, what is kept at the server) put components side by side: one is
extended (in `ChatParts` two), the others are instantiated over variables of their own. The components in
one of them share no state, `part` picks one of `Parts` in the initial state, and only
that component steps. The state space is the sum of the components' and not their
product, and each component is explored completely. With `Parts = {"x"}` the same run
is the run of one component. Their constants have named assumptions there, and their
`..._proofs` modules prove the properties of the specification that the run checks.

`MCDelivery`, `MCMessages`, `MCChat` and `MCServices` extend the modules they are named
after and define the values of constants that a configuration cannot; `Connection`,
`Outbox` and `Omemo` are run as they are.

**Connection.** `chat`, `panels`, `login` are the screen and its stack;
`lastCfg`, `autoCfg`, `attempt`, `adding` the fields of `App`; `tasks` counts the
spawned tasks (connect, delayed reconnect, disconnect, and the report
`Connecting`); `cmds`, `events` are the channels; `eng` is the engine with the
session's configuration and its count of attempts. `User...` are user messages,
`Handle...` the arms of `handle_xmpp_event`, `Engine...` the steps of `run_engine`
and the end of `run_session_loop`, `Client...` what the client library reports.
`refused`, `covered`, `loggedOut` are history. A task's delay is left
out: a delayed reconnection happens at any later time.

**Outbox.** Stanzas are numbered in the order they are queued; `pc` tells
draining from waiting in `select!`; `DrainOne` is one turn of the drain loop with
`RateLimiter::try_consume`; `GoOnline`, `Incoming`, `Disconnected`, `TakeMessage`,
`EndSession` are the arms. `Fifo` is what the path promises (stanzas accepted, delivered
in order, given up); `ImplementsFifo` maps `pushed`, `wire` and `lost` to its variables,
so that what waits in the abstract queue is what the outbox holds. Time is counted in ticks of the refill. `LinkDies`
models the time between the loss of a stream and the client's noticing.

**Presence.** `OnIdle`, `OnSleep`, `OnActivity`, `SetUserStatus`, `Effective` are the
methods of `PresenceMachine` (status text left out); `IdleTick`, `Interaction`,
`UserSets`, `Logout` the UI's side; `React` and `Announce` the engine's.

**Delivery.** A message has a kind and perhaps an id; a copy has a path. `IdOf`
is the identifier each path computes, `Remember` is `is_new_msg_id`, `Insert` is
`INSERT OR IGNORE`. `Dispatch` is one stanza's way to the UI and the table. The
event channel is first-in first-out, so the handling of the event is part of the
same step. Blocking, ignoring, chat states, receipts and mutations are left out.

**Upload.** A file stands for its path and for the request made for it. `MayRequest`
is the guard on concurrent requests, `Taken` is `pending_upload.take()`, `Rest`
what a spawned task has still to send. `Answered` is the server; `SlotUnreadable` is its
result without a slot, a put or a get, and `misread` remembers it.

**Omemo.** The client against the devices of one contact. `own`, `made`, `held` are
the stored identity (a generation, which stands for device id and key), the
prekeys its account has made and holds the secrets of; `prekeys`, `trust` with
`active`, `session` are the tables of the store. `outbox`, `asked`, `lists` are what
the session has to send and what the contact's server will answer; `cmds`, `events`,
`dialog`, `badge` the UI's side; `list`, `bundles`, `offered` what was published.
`SaveIdentity` with `Enable` is `OmemoManager::enable`, `Republish` what a session
says of the identity when it comes online, `Synced` is `sync_device_list`, `Registered`
and `Noticed` the two upserts, `Replenish` the check of the stock. Each handler of
several statements has a `...Stopped` action, which keeps what was written and
loses the rest (`Stopped`); a session that ends loses `outbox` and requests only.
The outbox is the part of `Outbox` that OMEMO uses, in the order shown there.
`Keyring` is what the store promises, written as if no handler were ever cut off:
devices become known, are permitted by the user and lose the permission only where a
session with them is begun; keys are drawn once for one identity, and open one message
each while it lasts. `ImplementsKeyring` maps `trust`, `session`, `own`, `made`, `held`
and `opened` to it. It knows nothing of requests, commands or stops: each `...Stopped`
action has to come out as one of its steps, and a stop in the middle of a prekey
message as `Miss`, which may cost the message and its key and nothing else.

**Stream.** `StreamMgmtTracker` behind the switch `sm_enabled`, which the session keeps
off. The loop counts whatever passes it, the server only stanzas, so the numbers
of the server lag (`NumbersLag`); `OnAckReceived` is the subtraction and the drain,
with counters modulo `Modulus`.

**Archive.** `mam` of the session, `catchup`, `sync` (which owns a `MamManager`), each
with its pending queries; `finId` says whether the server puts the query's id in
`<fin>`. `OnMamMessage`, `FinQuery`, `SyncOnFin` are the methods, `Answered` the server.

**Delivery to database: History.** `rows` and `struck` are SQLite, `jobs` the statements
spawned and not yet run, each of which runs at any later time; the foreign key of
`messages` on `conversations` refuses a row without its conversation. `fresh`,
`arrived` are history, and so is `overlooked`, what was new in a room when
`RoomConfigured` made it the active one.

**Mutations.** A button answers the loop with a message of its own (`queue`), which
makes a task (`carriers`) that gives the engine a command, in any order; `wire` is
ordered. `peerHas`, `peerGone`, `peerNew` are what the peer took from it.

**Composer, Timeline, Sidebar, Muting, Shell** follow `update` of the screens they are
named after, message by message. What a view computes is an operator (`Before`, for
the grouping of messages; the rows of the sidebar); tasks (file picker, encoder,
previews, timers of toasts) are sets from which any may end next. While another screen
boxes the chat (`Cover`), `App` hands it none of their messages: `Unheard` takes what a
task answers from `tasks` and does nothing else. `dropped` and `unstaged` are history:
that happened to the encoder's answer or to its `Send`; the file was unstaged between
the two.

**Rooms, Forms, Queries.** The engine's managers, the channel of events and the
screens. `Rooms` keeps the occupants of the engine and of the panel apart; `Forms`
keeps a form's fields as functions from names, since what is shown, kept and sent
of a field is what the code gets wrong; `Queries` has the sessions of the services.
`asked` is the request the screen waits for, `unheard` that it was lost, refused or
answered without a command: the screen is told of none of these.

**Blocking, Vault.** Both have the stream in both directions, so that a push overtakes
nothing and an answer comes where the server put it. `steady` and `leaked` of Blocking
are history: who has been on the list since the session came up, and who of these
got through. The server of Vault grants or refuses each request (`Grant`, `Refuse`);
`denied` has what it refused of push in the session, which the client never learns.

**Accounts, Registration, Dial, Settings.** The window around a session: `Accounts` keeps
`switchers`, a stack of lists made when each was opened; `Registration` the engine's
third mode; `Dial` the copies of the network settings; `Settings` the copies of
everything else. `chosen` of Settings is what the user pressed last of each setting.
`overruled` has the modes of the archive the server said since that one was pressed;
`outdated` the settings that a screen has otherwise to which the user went back.

**Avatars, Profile, Disco.** Requests by id, answers in any order, files that outlive the
program. A contact of `Profile` has an address for each resource, beside the bare one
of the roster: a presence carries the full one, and the caches are looked up by it.
`CropRect` is arithmetic on a small image; `Digest` stands for the hash, which
is taken to tell different inputs apart.

**Styling.** No state but a body, typed character by character; `ChatParts` extends it. Each loop of the parser walks a text once: `Pushed`
takes what it pushes at each place and where it goes on from there, and `SplitUrls`,
`ParseInline` and `Lines` say which that are. They are recursive functions over the
places of the text and not recursive operators, so that they can be proved about.

## 3. Runs

All runs set `CHECK_DEADLOCK FALSE`: each model bounds the user, the sessions
and the faults, and the program really may rest when nobody acts.

| Run | States | What it checks |
|---|---|---|
| `Connection` | 888 k | three accounts (accepted, refused, unparsable), every kind of panel: `OnlineIsShown`, `ChatIsBacked`, `NoRetryWithBadCreds`, and `Settles`: reconnection does not feed itself |
| `Connection_logout` | violated | a delayed reconnection logs in again after a logout |
| `Outbox` | 171 k | `RateLimited`, `ImplementsFifo`, and `Drains` with a server that keeps sending |
| `Outbox_stall` | violated | `Drains` without such a server |
| `MCDelivery` | 149 k | `NothingSwallowed`, `IdentifiedIsStored` |
| `MCDelivery_dup` | violated | one message is told twice, live and from the archive |
| `Omemo` | 1.9 M | `OnlyVouched`, `DecisionIsKept`, `Announced` and `ImplementsKeyring` (which has `PreKeyOpensOnce` in it, section 5), with stops at every statement |
| `MCMessages` | 579 k | stream: `KeptUntilAcked`; archive: `CaughtUp`, `CompleteMeansFetched`, `SyncCompletes`; composer: `CaptureBound`, `ShownIsSent`, `VoiceEnds` |
| `MCMessages_last` | violated | the catch-up asks for the first page, not the last |
| `MCChat` | 2.3 M | presence: `ShownIsEffective`; history and mutations: `HistoryIsTrue`, `NothingComesBack`; rooms: `PanelAgrees`; timeline and sidebar: `ScreensAgree`; shell: `FrameKeepsUp`; forms: `FormsKeepApart`; styling: `BodiesKept`, for every body of up to five characters |
| `MCChat_reactions` | violated | a second reaction replaces the first at the peer |
| `MCServices` | 3.3 M | upload: `GuardIsReleased`; settings: `ChoiceKept`; blocking: `BlockedAgrees` (and `ArchiveFiltered`); accounts: `ActiveIsRegistered`; avatars and profile: `AvatarsAgree`; registration: `RegistrationEnds`; queries and disco: `AnswersAgree`; vault: `ServerIsRight`; dial: `DialsAsTold` |

`AllTypesOK` in the last three is the type invariant of each component. Muting has
no passing property of its own besides: what its comment promises does not hold
(section 4).

**Bounds.** Connection: three moves of the user and two faults suffice for a
login that fails and is corrected, a logout under a running reconnection, an
account added above a session, and two failures in a row; channels of 2 and 3
entries fill up; one panel covers Chat or Login, and a second one would cover a
panel, which reacts no differently. Outbox: a burst of 2 with a rate of 1 makes
the bucket run dry while stanzas wait, 3 commands that start or end sessions make
two sessions, 5 stanzas let deferral, answers and the end of a session meet.
Presence: the idle thresholds keep their order (1 and 2 ticks), commands
on their way may be swapped. Delivery: five
messages of all kinds against a cache of two evict and return; two joins bring
the history of the room twice. Upload: three files, two in one message and three
sessions give requests before, during and after a session. Omemo: two devices, so
that one can be decided on while the other is new; an identity has one prekey, one
is the low mark and a batch is one, so that a stop in `enable` is followed by a
replenishment; four moves of the user and the contact (enabling included) in two
sessions are enough for a decision, an answer, a message and a stop between them.
Stream: counters modulo 3 wrap with four stanzas. Archive: four stored
messages in pages of two, of two conversations one of which is blocked; two
sessions and two syncs, so that a sync starts again under one that is pending.
Composer: one of everything and one task each, whose message may come before or
after any other. History: two messages in two conversations, two jobs at once, so
that each pair of statements runs in both orders. Mutations: two messages, two
emojis, two clicks and two stanzas of the peer. Rooms: two rooms, one of which
exists and is bookmarked, two nicknames, two sessions. Timeline and Sidebar: three
messages, two addresses, one of which left the roster while the table has it.
Shell: three screens above each other, two toasts, a console of one entry, so that
it drops. Forms: three rooms with forms of three kinds, two forms of services.
Styling: nine characters, each standing for a class that the parser tells apart,
and bodies up to five. Settings: two settings screens above each other. Blocking:
two peers, two sessions. Accounts: two users, five deeds. Avatars: pictures of 20
by 10, so that the crop meets both edges. Profile: one contact with one resource, which
has two addresses, two rosters and two sessions, so that each address comes up more than
once. Queries: one service that offers a
command and two that do not. Dial: four sessions, one more than the failures after
which the lifecycle counts as fallen back. Vault: two sessions, the second of which has to clean up after the first, two ignored
users, three commands.

**Fairness.** `Connection!Fairness` is weak fairness of the UI thread, of the
engine's loop with the client library (a dial ends, by a timeout if need be) and
of each spawned task: the runtime polls each of them. The user and the faults are
not fair. `Outbox!Fairness` is weak fairness of the loop and of the clock;
`ChattySpec` adds that the server sends something again and again, which holds
where it pings its clients, and which the code does not ensure: hence the two
runs with the same property. `MCMessages!AllSpec` has, for `SyncCompletes`, weak
fairness of the server that answers a query of a session that stays up
(`Archive!Answered`), and for `VoiceEnds` that of the encoder, which ends one way or
the other (`EncoderAnswers`), and of the `Send` that follows (`SendArrives`). Each of the
two includes the case that the UI meets another screen and throws the message away, so
that nothing is assumed of the user: `VoiceEnds` excepts that case by `dropped`.

## 4. Disagreements

Each has a run, and the counterexample TLC prints is the history:

1. *Logout* (`LogoutEndsSession`). A reconnection that sleeps when the user logs
   out connects again afterwards.
2. *Rate limiter* (`Drains`). After a deferral nothing wakes the loop when the
   bucket has refilled; the rest of the outbox waits for unrelated traffic.
3. *Duplicates* (`NoDuplicates`). Copies from the archive are remembered by
   archive id, live ones not at all.
4. *Catch-up* (`LastFifty`). `before: None` asks for the first fifty messages of the
   archive; an empty `<before/>` would ask for the last.
5. *Reactions* (`ReactionsAgree`). The stanza carries the emoji just chosen only, and
   replaces the others at the peer.

Further promises of comments that the code does not keep are stated at the end of
the modules that put the components together (`MessageParts`, `ChatParts`, `ServiceParts`), with the words of the comment. Each is
violated with `Parts` set to its component and the definition as an invariant or
property of the run named here:

| In | Component | Property | What happens |
|---|---|---|---|
| `MCMessages` | composer | `SentByUser` | the task that fetches a preview ends with `Send`, and what is typed by then leaves |
| `MCChat` | history | `ModeratedStays` | the row is marked by a job that the end of the program forgets, and may miss the row that another job has yet to insert |
| | muting | `InSync` | a mute is changed in some of its five places only |
| | timeline | `PanelIsOfPrefix`, `HoverAgrees`, `SeparatorAtUnseen` | the list of mentions stays open when an edit begins or ends; the row that the pointer enters says so before the one it leaves, which clears it; the separator is counted before the history is read |
| | sidebar | `RosterIsServers`, `UnreadIsVisible` | the cached roster may come after the server's and replaces it; messages of an archived or unknown address have no row for their badge |
| | shell | `ConsoleButtonShown`, `OverlaysShown` | without a toast only one layer is drawn, and the button not at all |
| | forms | `FormCanBeFilled` | truth values and lists are shown as text that cannot be changed |
| `MCServices` | settings | `PreferenceRespected`, `Remembers` | a session uses the preference of its login; a login screen made anew (after the benchmark, or for another account) shows *Remember me* ticked while the settings, which a start reads, say not to |
| | blocking | `PanelShowsBlocked` | the panel starts empty |
| | accounts | `IndicatorAgrees`, `FocusIsRouted` | a login to another account shows it in the indicator while the first one stays active; an engine is started only for an added account, under the address with its resource |
| | profile | `SavedIsStored` | an error to the set IQ says saved as well |
| | queries | `DiscoveryAnswered`, `RoomsAreRooms` | an answer without commands leaves the screen discovering; items of any service without a node are taken for rooms |
| | avatars | `VcardIsFallback`, `CropInside` | whichever answer is last wins; at a high zoom the square is larger than the image |
| | registration | `StatusIsTrue` | the task that sent the command says *Registering* afterwards, perhaps after the failure was shown |
| | disco | `EveryPresenceHasCaps` | only the first presence of a session has the digest |
| | dial | `FallsBack`, `OverrideHonoured` | the lifecycle is new with each session and never reaches three failures; an override that cannot be resolved gives way to the standard names, and without TLS it is ignored |
| | vault | `IgnoredStays`, `StaleAreGone` | a publication is lost with the session, or refused, which nobody looks at, and the list with it; the clean-up of push registrations names no service, its refusal is not looked at either, and two registrations stay |

Met while modelling, and part of the models:

* `reconnect_attempt` is local to a session and every reconnection is a new session:
  the attempt is always the first and the delay 2 s (`tasks/todo.md:91` speaks of a
  backoff up to 64 s);
* the reconnect banner stays after a reconnection: the message that would reset
  the attempt is discarded, and `Connected` does not reset it
  (`HandleConnected` leaves `attempt`);
* a `Connect` that ends a running session is dropped with its configuration
  (`EngineBreak`), although the comment at `engine.rs:520` speaks of a restart;
* `Disconnected` under a covering screen leaves a Chat screen without a session
  (the guard `~covered` of `ChatIsBacked`), the configuration of a refused login
  stays (the visible Login of `refused`), and Settings opened then says connected;
* a status set while the session connects is not announced when it goes online
  (the guard `announced` of `ShownIsEffective`);
* `UserIdle` and `UserActive` in two tasks may arrive swapped and leave an
  active user away;
* the clock of the voice recorder sends a `Chat` message every second, each of
  which counts as activity (`Interaction`), so automatic away needs a UI thread
  that lags;
* messages without an id share the empty primary key and only the first is
  stored (why `IdentifiedIsStored` speaks of named ones); a message seen live
  and from the archive has two rows;
* the answer of the voice encoder, and the `Send` it leads to, are thrown away when another
  screen is shown by then (`ui/mod.rs:873`, `:936`): the recorder stays *Encoding* or
  *Uploading*, and the composer does not come back (`dropped` of `VoiceEnds`);
* a slot result without slot, put or get is left before the request is removed
  (`file_upload.rs:153-179`): the guard stays shut until the session ends (`misread` of
  `GuardIsReleased`);
* `RoomConfigured` makes a room the active one and leaves its badge (`chat.rs:578-585`;
  `overlooked` of `HistoryIsTrue`);
* the server's mode of the archive is saved over the user's
  (`xmpp_events.rs:455-459`), and a settings screen opened before overwrites it again;
  going back to a settings screen that was opened before another one brings back what it
  shows (`overruled`, `outdated` of `ChoiceKept`);
* a presence carries a full address and the roster bare ones (`presence.rs:16-28`,
  `xmpp_events.rs:318-321`), so that the picture of a contact is asked for again for each
  resource (why `AskedOnce` speaks of addresses);
* an error, or a result without a command, never reaches the screen of the commands
  (`adhoc.rs:189-199`), which stays *Executing* (`unheard` of `AnswersAgree`);
* the configured proxy is never dialled: its lifecycle is driven and its address unused
  (`engine.rs:212-217` says that tunnels are deferred; no session of `Dial` is at it);
* a slot event carries no id: the remembered file is put there whichever request it
  answers; a new session forgets that the user is away, while the UI believes that it
  has reported it (each was a run of its own before; `Upload!HandleSlot`,
  `Presence!StartSession`);
* a refused slot leaves the file remembered, and a second attachment's request
  is dropped by the guard;
* OMEMO: `consumed` of a prekey is never set (`migrations/0004_omemo_keys.up.sql:14`
  says "consumed=1 once a key has been claimed by a remote device"), so used
  prekeys are published again (`Republish`) and a message by one of them is refused
  (`PreKeyRefused`);
* a bundle that arrives sets the trust of its device back (`Registered`) and replaces
  the session there may be by then (`BundleResult`): why `DecisionIsKept` has its
  exception;
* rejecting a device changes the dialog only (`UserTrust` is the only decision);
* `omemo_enabled` is not restored when the program starts: enabling again makes a new
  identity, while the prekey rows of the old one stay and are published with it;
* a device list that was asked for is not shown in the dialog, which knows pushes only
  (`ListResult`);
* a message without a session or a trusted device is given up for good (`Encrypt`).
* reactions, corrections and retractions are sent as `type="chat"`, to rooms too; a
  retracted message whose edit began earlier can still be corrected (`Mutations`);
* a correction or a retraction that arrives has no effect on the window, and own rows
  are stored under an identifier of their own (`Composer`'s `Copy`);
* in a room the sender of a message is the room, so that messages of different
  occupants are grouped under one name (`Timeline`);
* `on_fin` of a query that was replaced removes the pending one that replaced it, and only
  the first page is fetched by the catch-up (`Archive`);
* roster pushes are ignored, the roster table never loses a row, and a roster that
  arrives while Chat is covered is lost (`Sidebar`);
* `RoomConfigured` of one room dismisses the form of another, and a configuration form is
  read up to the first field without a name, with only `1` for true (`Forms`);
* the vCard editor saved before its card arrived publishes an empty one, and a set drops
  the photo (`Profile`); a contact in `avatar_fetching` never leaves it;
* a bundle of a known device sets its trust to undecided, also when it answers late;
* `settings.json` and `credentials.json` are written in place (`config/mod.rs:220`, `:246`):
  a stop in between leaves part of a file, outside the models;
* the UI has no way to send several commands the engine takes: change of the password,
  deletion, the submitted registration form, the ignore list, bulk sync, conversation
  sync, push. `Archive`, `Registration` and `Vault` model the engine's side.

## 5. Proofs

TLAPS proves, for every value of the constants that their `...Assumption` allows (bounds
are naturals, capacities positive, configurations disjoint where the code distinguishes
them, sets of peers, nicknames and rooms finite where a count needs it), the following.
"Not inductive" says why the property alone is not kept by every step, and what is
added. TLC checked each inductive invariant on the instances of section 3, too.

| Theorem | Property | Argument |
|---|---|---|
| `Connection_proofs!TypeCorrect` | `TypeOK` | one lemma per group of actions (user, UI, tasks, engine) and per part of the state |
| `!OnlineSessionIsShown` | `OnlineIsShown` | not inductive: the UI could handle any last event. `ConnectedIsLast` (while a session is online, its `Connected` ends the channel) and `NothingBeforeReady` make it so |
| `!ChatHasItsSession` | `ChatIsBacked` | not inductive: a `Connected` that is handled late could be of a session that is gone. `ConnectedIsBacked`: each one in the channel is of the session that runs, or a `Disconnected` follows it there (`EndBacks`: the end of a session backs all that came before) |
| `!NeverRetriesRefused` | `NoRetryWithBadCreds` | `RetryInv`: the configuration kept for a retry is never a refused one, and before the UI has its sender nothing was refused; `OnlyTheKeptIsRetried`: no step schedules a retry with another one |
| `Outbox_proofs!OutboxTypeCorrect` | `TypeOK` | the ceiling of the refill bounds the bucket |
| `!RateIsLimited` | `RateLimited` | `Budget`: consumed + tokens + elapsed * rate never exceeds burst + rate * ticks; the bound on consumed alone is not inductive, since a drain turns tokens into consumption |
| `!WireIsInOrder` | `InOrder` | `Order`: the sequence wire, then outbox, increases and is bounded by `pushed`; a deferral puts back what it took |
| `!StanzasAreAccounted` | `Accounted` | `Ledger`: with `Order`, so that what leaves the outbox is in none of the other places, and `IdleIsEmpty`, so that a new session discards nothing |
| `!OutboxImplementsFifo` | `ImplementsFifo` | from `Ledger`: what waits in the abstract queue is the range of the outbox (`WaitingIsOutbox`), and its head is the oldest (`HeadIsOldest`) |
| `!FifoSuffices` | (from `ImplementsFifo`) | `FifoInv`, from the abstract steps alone: what left is older than what waits. So the promise is worth having: it gives order and no repetition, whoever keeps it |
| `Delivery_proofs!DeliveryTypeCorrect` | `TypeOK` | from the invariants of the cache and of the table below |
| `!CacheCorrect` | `CacheAgrees` | the queue has no duplicates, so forgetting its head removes exactly one identifier of the set |
| `!CacheSwallowsNothing` | `NothingSwallowed` | every identifier in the set belongs to a message that was told; identifiers of different messages differ |
| `!WindowIsKept` | `WindowRespected` | `Recent` and `Gone`: the place of an identifier in the queue bounds how many passed since, so that what is forgotten passed at least `Limit` passages ago |
| `!IdentifiedIsInTable` | `IdentifiedIsStored` | `Stored`: a row under a message's own key is that message, and an identifier in the cache is of a message the session took |
| `Omemo_proofs!OmemoTypeCorrect` | `TypeOK` | one lemma per group of actions; numbers of new prekeys continue those made |
| `!OnlyVouchedIsWritten`, `!DecisionsAreKept` | `OnlyVouched`, `DecisionIsKept` | `TrustSteps`: a step leaves the trust of a device, makes it known, trusts it by a decision, or resets it with a bundle |
| `!PreKeysOpenOnce` | `PreKeyOpensOnce` | `OpenedInv`: what was opened is older than what the account will make, so that a new prekey or a new identity never brings an opened one back |
| `!SessionsAlwaysKnown`, `!DecisionsAlwaysLand` | `SessionsAreKnown`, `DecisionsLand` | `KnownInv`: a request in the outbox, an answer still to come and an event name stored devices only, so what they lead to is stored |
| `!IdentityIsAnnounced` | `Announced` | `AnnouncedInv`: while anything is in the outbox, the last list the server has or will get is that of the stored identity, and its bundle is there or on its way |
| `!OmemoImplementsKeyring` | `ImplementsKeyring` | with `KnownInv`, so that a session is begun with a device the user can decide on, also by a handler that is cut off before it registers the device, and `OpenedInv`, so that a key that opens a message has opened none before. One lemma per kind of step (`Learns`, `Meets`, `Draws`, `Renews`); a step that touches neither devices nor keys learns nothing |
| `!KeyringSuffices` | (from `ImplementsKeyring`) | `KeyringInv`, from the abstract steps alone: the keys that are spent are none of those held nor of those drawn later, and what is paired is known. So `PreKeyOpensOnce` and `SessionsAreKnown` hold of whatever keeps the promise |
| `MessageParts_proofs!MessagesTypeCorrect` | `AllTypesOK` | the types are conjuncts of the three invariants below |
| `!Kept` | `KeptUntilAcked` | `StreamInv`: what is kept is the end of what was handed over (`KeptIsSuffix`), no more was drained than the server handled (`DrainedIsHandled`), and its numbers lag and ascend, also modulo the width (`NumbersLag`, `AcksAscend`, lemma `WrapDifference`) |
| `!CaughtUpBringsAll` | `CaughtUp` | `Fetched`: what came of the page and what is still to come are the page; `Tracked`: the one query of the session's manager is that of the catch-up |
| `!CompleteIsFetched` | `CompleteMeansFetched` | `Indexed`: the two indices of a sync name each other; `Owed`: what the server has still to answer is pending, unless its conversation was synced again |
| `!CaptureIsBounded` | `CaptureBound` | `Silent`: a conversation that is gone does not record |
| `!ShownWasSent` | `ShownIsSent` | not inductive: a row or a load may bring an identifier later. `Sources`: what shows one, keeps it, is about to keep it or has read it, has it from a command that was sent |
| `ChatParts_proofs!ChatTypesCorrect` | `AllTypesOK` | the types are conjuncts of the ten invariants |
| `!ExplicitStatusKept` | `NeverAutoModified`, `AutoRestores` | needs `AutoRestores`: what an automatic state will restore is the explicit status |
| `!AnnouncedIsShown` | `ShownIsEffective` | sending only on changes is enough, because the machine is online exactly while the stream is |
| `!ShownIsStored` | `HistoryIsTrue` | `HistoryInv`: what a view shows is `Safe` (a row, a job that writes it, or cleared), `LoadsFit`: a load is of the conversation that asked for it, and `InsertsFit`: an insert under way finds its conversation, which the foreign key asks for; what is new in the active conversation is `overlooked` |
| `!WhatIsGoneStaysGone` | `NothingComesBack` | action property: only clearing takes rows away, and it takes the marks with them; a late *delivered* is not looked at |
| `!PanelShowsTheRoom` | `PanelAgrees` | far from inductive: it speaks of the moment when all queues are empty. `RoomsInv`: for each room and nickname, what is still to come on the stream turns the engine's occupants into the room's (`EngineOK`), and what is still to come in the events, then on the stream, turns the panel into them (`EventsOK`, `PanelOK`), where what a former session left in the events is told apart by the `connected` behind it (`SessionsOK`, `Renewed`) |
| `!ScreensStayTrue` | `ScreensAgree` | `LinesOK`: a line never changes who wrote it; the label is found as the least row of the run of its sender. `ConvsOK`: the active conversation is open, archived or not |
| `!FrameStaysTrue` | `FrameKeepsUp` | `ToastsOK`: numbers of toasts and timers are below the next; `ConsoleOK`: the ring is the end of the log, and all of it before it is full |
| `!FormsStayApart` | `FormsKeepApart` | `RoomFormsOK`: a form that is shown, submitted or on its way has the name of its own room only; `SheetsOK`: each value of a sheet is its first one or was typed into this sheet |
| `Styling_proofs!NothingIsLost`, `!SpansStayWhole`, `ChatParts_proofs!BodiesAreKept` | `NothingLost`, `SpansAreWhole`, both as `BodiesKept` | for every alphabet and every body, below |
| `ServiceParts_proofs!ServicesTypeCorrect` | `AllTypesOK` | the types are conjuncts of the eleven invariants |
| `!PutsAreUnique` | `PutOnce` | `OnePlace`: a request is in one place only (task, channel, server, answer, slot) and moves from each to the next; `Unput`: the remembered file was not put |
| `!GuardAlwaysReleased` | `GuardIsReleased` | `Guarded`: the server owes answers only to an online session, what a connecting session asked for was asked for without a stream, and what keeps the guard shut otherwise came back unread |
| `!ChoicesAreKept` | `ChoiceKept` | not inductive: the next press on a screen saves its copy. `Chosen`: the application, the file and the copy of the open screen agree with what was chosen, but for `outdated` settings and for the mode of the archive, which may be an `overruled` one; `Unknown`: before the first login there is nothing a login could bring back |
| `!BlockedStaysOut` | `BlockedAgrees` | `Synced`: once the fetch was served, the last piece on its way that concerns a peer, or the copy if there is none, says of it what the server's list says; `ShieldInv`: of a peer steadily on the list only archived messages are on their way, behind a list that has it unless the copy has |
| `!ActiveStaysRegistered` | `ActiveIsRegistered` | inductive with the types: what a switcher offers is looked up again |
| `!FacesAreTheirs` | `AvatarsAgree` | `Asked`: the id of a request stands for its contact on the way there and back; `OnceAsked`: the address that is about to be asked for was not asked for, and is noted |
| `!RegistrationsEnd` | `RegistrationEnds` | inductive with the types |
| `!QuestionsAnswered` | `AnswersAgree` | `Underway`: what an executing command waits for is with a task, on the stream in one direction, or `unheard`; `QueriesNumbered`: a number stands for one of them; `DiscoInv`: digest and answer are made of the same identities and features |
| `!SessionsDialAsTold` | `DialsAsTold` | `DialInv`: the configuration kept for reconnections is the one chosen at the last login, and the session is at one of its targets (`Targets`) |
| `!ServerIsKeptRight` | `ServerIsRight` | `Pushing`: what the connection sends about push is still to be served, in its order, or was answered, and `Cleaned` holds from the clean-up on; `Done`: changes and deletions the client will hear of were made, with `VaultNumbered`: an id stands for one request at one place |

**Styling.** `Parse` is recursion over a text, and its theorems hold for every text, so
each needs an induction. The library's induction theorems take an operator as a
parameter, which the provers cannot instantiate; what they can use is that every
nonempty set of numbers has a least element. `Induction` and `Downwards` are stated over
a *set* of numbers (those for which the claim holds), and a claim about all places of a
text becomes one about the set of the places for which it holds. `PushedIs` turns a loop
into equations (`FromPlaces`), and `PushedText` is the law the loops over characters rest
on: if each turn pushes a span of the set `W` that was made from just the piece between
its place and the place where the loop goes on, then all that is pushed is in `W` and was
made from the whole text. `SplitUrlsKeeps` and `ParseInlineKeeps` are that law with
`LinkAt` and `StyledAt` for the pieces, and `W` the whole spans, which gives both theorems
at once; `LinesKeep` cuts the body into lines, and `EndLineKeeps`, `ParseIs` and
`ParseKeeps` put them together again, one by one, with the ends of lines that `EndLine`
hangs on the span before.

A property named for a composite (`BlockedAgrees`, say) is one of a component under
`part = "..."`; `part` never changes, so each composite theorem is that of the component.

Invariants proved and not in a run any more, since a proof says more: the `TypeOK` of
Connection, Outbox, Delivery, Omemo, `InOrder`, `Accounted`, `NeverAutoModified`, `AutoRestores`,
`CacheAgrees`, `WindowRespected`, `PutOnce`, `PreKeyOpensOnce`, `SessionsAreKnown`,
`DecisionsLand`. All other
invariants and safety properties of the passing runs are theorems, both refinements
among them.

Only model-checked: liveness (`Settles`, `Drains`, `SyncCompletes`, `VoiceEnds`), since
fairness and ENABLED are out of the prover's reach.

The proofs concern `Spec` and `AllSpec`'s safety part: fairness restricts behaviours
further, so that every safety theorem holds with it too.

## 6. Plan

What a next step would add, in this order:

1. Abstract specifications beside `Fifo` and `Keyring`: the archive of a contact as a set that only
   grows (what `Delivery` and `Archive` show of it), the blocklist as a register of the
   server that the session reads, the rooms as a set of occupants that the panel follows,
   each with its refinement.
2. Composition of `Delivery` and `History`: the cache of the engine against the rows, so
   that a second delivery after a restart meets what the first one stored.
3. Composition of `Composer`, `Mutations` and `Outbox`: from the button to the wire, with
   the outbox that a session loses.
4. Rooms: administration and requests for voice, once the view offers them.
5. Accounts: events of further engines over `subscriptions.rs`, once commands are
   routed to them.

## 7. Not modelled

* Network, TLS, SASL, DNS: calls into libraries, whose outcomes are the
  nondeterminism of `ClientOnline`, `ClientRefused`, `ClientBroken`.
* Cryptography of OMEMO: a library. A ratchet is a session that exists; the signed
  prekey, the contents of keys and failures of single SQL statements are left out,
  and so is a stop inside a replenishment (between saving the account and its rows)
  and our own device list when the server sends it back.
* Layout, colours, fonts, texts in several languages, notifications and sounds of the
  desktop, image decoding and thumbnails, audio playback, the benchmark: nothing in
  them has a state that a property could be about.
* The byte-level side of parsing and building stanzas. `is_me_action` and the label of a
  sidebar row cut a string at a byte that may not begin a character; a model of
  characters does not see that.
* Migrations of the database, full-text search, the keychain: single calls
  without a protocol around them.
* `geoloc.rs`, `bob.rs`, `stickers.rs`, `xmpp_uri.rs`: builders and parsers that nothing in the
  program calls with data of its own.
* Within the modelled parts: message errors and spam hints (Delivery), own messages and
  their rows (History; `Composer` has them), administration
  (Rooms), the text of a status (Presence), editing bookmarks, the resumption that
  `stream_mgmt.rs` has no code for.
