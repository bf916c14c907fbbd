------------------------------ MODULE Connection ------------------------------
(***************************************************************************)
(* The life of a connection: the login screen and the screens above it,    *)
(* the tasks the UI spawns, the command channel, the engine with its       *)
(* session, and the event channel back to the UI.                          *)
(*                                                                         *)
(* The UI thread handles one message at a time; every task it spawns runs  *)
(* on its own and may send its command at any later moment, in any order.  *)
(* The engine takes commands in channel order.  The XMPP client library    *)
(* and the server are the environment: a dial succeeds, is refused or      *)
(* fails, and a stream may break.                                          *)
(***************************************************************************)
EXTENDS Naturals, Sequences

CONSTANTS
  Cfgs,       \* connect configurations (credentials) the user may enter
  Good,       \* those the server authenticates
  Invalid,    \* those whose JID does not parse
  None,       \* no configuration
  Panels,     \* the screens the user opens above another one
  MaxDepth,   \* bound: screens above the bottom one
  CmdCap,     \* capacity of the command channel (32 in the code)
  EvtCap,     \* capacity of the event channel (64 in the code)
  MaxMoves,   \* bound: what the user does in one run
  MaxFaults   \* bound: streams and dials that break

PanelNames == {"Settings", "AccountSwitcher", "Benchmark", "Other"}

ASSUME ConnectionAssumption ==
  /\ Good \subseteq Cfgs
  /\ Invalid \subseteq Cfgs
  /\ Good \cap Invalid = {}
  /\ None \notin Cfgs
  /\ Panels \subseteq PanelNames
  /\ MaxDepth \in Nat /\ MaxMoves \in Nat /\ MaxFaults \in Nat
  /\ CmdCap \in Nat \ {0}
  /\ EvtCap \in Nat \ {0, 1}

VARIABLES
  chat,       \* account of the Chat screen at the bottom, None for Login
  panels,     \* screens above it, the visible one last
  login,      \* LoginState of the Login screen
  ready,      \* the UI holds the command sender (xmpp_tx)
  autoCfg,    \* auto_connect_cfg
  lastCfg,    \* last_connect_cfg
  attempt,    \* the UI's reconnect_attempt, shown by the banner
  adding,     \* is_adding_account
  tasks,      \* how many spawned tasks of each kind are still to run
  cmds,       \* the command channel
  eng,        \* the engine: its mode, the session's config and attempts
  events,     \* the event channel
  moves,      \* what the user did so far (bound)
  faults,     \* what broke so far (bound)
  refused,    \* history: configs refused to a Login screen, not entered since
  covered,    \* history: a Disconnected came while the Chat screen was covered
  loggedOut   \* history: the user left a Chat screen by logging out, with no
              \* connect of theirs pending, and did not connect since

uiVars   == <<chat, panels, login, ready, autoCfg, lastCfg, attempt, adding>>
histVars == <<refused, covered, loggedOut>>
vars     == <<chat, panels, login, ready, autoCfg, lastCfg, attempt, adding,
              tasks, cmds, eng, events, moves, faults,
              refused, covered, loggedOut>>

Modes == {"idle", "connecting", "online", "ended"}
Tasks == [kind : {"connect", "reconnect"}, cfg : Cfgs]
           \cup [kind : {"connecting", "disconnect"}, cfg : {None}]
Cmds  == [op : {"Connect"}, cfg : Cfgs] \cup [op : {"Disconnect"}, cfg : {None}]
Events ==
  [type : {"Connected", "Reconnecting", "auth", "invalid", "ended"},
   cfg : Cfgs, n : Nat]

Task(k, c)   == [kind |-> k, cfg |-> c]
Cmd(o, c)    == [op |-> o, cfg |-> c]
Evt(t, c, n) == [type |-> t, cfg |-> c, n |-> n]
Idle         == [mode |-> "idle", cfg |-> None, attempt |-> 0]

\* The three events whose type is not a state of the stream are Disconnected.
IsDisconnected(e) == e.type \in {"auth", "invalid", "ended"}

OnLogin == chat = None /\ panels = <<>>
OnChat  == chat # None /\ panels = <<>>
Top     == panels[Len(panels)]
Below   == SubSeq(panels, 1, Len(panels) - 1)

InSession == eng.mode # "idle"

Room(k) == Len(events) + k <= EvtCap

Spawned(t) == [tasks EXCEPT ![t] = @ + 1]
Ended(t)   == [tasks EXCEPT ![t] = @ - 1]

Init ==
  /\ chat = None /\ panels = <<>> /\ login = "Idle"
  /\ ready = FALSE
  /\ autoCfg \in Cfgs \cup {None}
  /\ lastCfg = None /\ attempt = 0 /\ adding = FALSE
  /\ tasks = [t \in Tasks |-> 0]
  /\ cmds = <<>> /\ eng = Idle /\ events = <<>>
  /\ moves = 0 /\ faults = 0
  /\ refused = {} /\ covered = FALSE /\ loggedOut = FALSE

-----------------------------------------------------------------------------
(* The user and the UI thread *)

UserMove == moves < MaxMoves /\ moves' = moves + 1

\* The subscription hands the UI its sender; a remembered account connects.
XmppReady ==
  /\ ~ready /\ ready' = TRUE
  /\ autoCfg' = None
  /\ IF autoCfg = None
     THEN UNCHANGED <<lastCfg, attempt, tasks>>
     ELSE /\ lastCfg' = autoCfg /\ attempt' = 0
          /\ tasks' = Spawned(Task("connect", autoCfg))
  /\ UNCHANGED <<chat, panels, login, adding, cmds, eng, events, moves, faults,
                 histVars>>

\* The Connect button stays enabled whatever the state of the login screen.
UserConnect(c) ==
  /\ OnLogin /\ UserMove
  /\ login' = IF c \in Invalid THEN "Error" ELSE "Connecting"
  /\ IF c \in Invalid \/ ~ready
     THEN UNCHANGED <<lastCfg, attempt, tasks, refused, loggedOut>>
     ELSE /\ lastCfg' = c /\ attempt' = 0
          /\ tasks' = Spawned(Task("connect", c))
          /\ refused' = refused \ {c} /\ loggedOut' = FALSE
  /\ UNCHANGED <<chat, panels, ready, autoCfg, adding, cmds, eng, events,
                 faults, covered>>

\* A shortcut or the palette puts a screen above whatever is shown; the
\* benchmark is reached from the login screen only and takes its place.
UserOpen(p) ==
  /\ Len(panels) < MaxDepth /\ UserMove
  /\ p = "Benchmark" => OnLogin
  /\ panels' = Append(panels, p)
  /\ UNCHANGED <<chat, login, ready, autoCfg, lastCfg, attempt, adding,
                 tasks, cmds, eng, events, faults, histVars>>

UserBack ==
  /\ panels # <<>> /\ UserMove
  /\ panels' = Below
  /\ login' = IF Top = "Benchmark" THEN "Idle" ELSE login
  /\ UNCHANGED <<chat, ready, autoCfg, lastCfg, attempt, adding,
                 tasks, cmds, eng, events, faults, histVars>>

\* "Add account" drops the screens below it and shows an empty login screen.
UserAddAccount ==
  /\ panels # <<>> /\ Top = "AccountSwitcher" /\ UserMove
  /\ adding' = TRUE
  /\ chat' = None /\ panels' = <<>> /\ login' = "Idle"
  /\ UNCHANGED <<ready, autoCfg, lastCfg, attempt,
                 tasks, cmds, eng, events, faults, histVars>>

\* (mutant) Only a logout from the Chat screen itself disconnects.
LogoutTasksIfChat == IF OnChat THEN Spawned(Task("disconnect", None)) ELSE tasks
LogoutTasks == IF ready THEN Spawned(Task("disconnect", None)) ELSE tasks

UserLogout ==
  /\ panels # <<>> /\ Top = "Settings" /\ UserMove
  /\ chat' = None /\ panels' = <<>> /\ login' = "Idle"
  /\ tasks' = LogoutTasks
  /\ loggedOut' = (chat # None /\ \A c \in Cfgs : tasks[Task("connect", c)] = 0)
  /\ UNCHANGED <<ready, autoCfg, lastCfg, attempt, adding,
                 cmds, eng, events, faults, refused, covered>>

\* The palette's "Disconnect".
UserDisconnect ==
  /\ ready /\ UserMove
  /\ tasks' = Spawned(Task("disconnect", None))
  /\ UNCHANGED <<uiVars, cmds, eng, events, faults, histVars>>

-----------------------------------------------------------------------------
(* The tasks the UI spawned *)

\* (mutant) The delayed reconnection is a timer that fires again and again.
ReportInterval(t) ==
  IF t.kind = "connect"
  THEN [Ended(t) EXCEPT ![Task("connecting", None)] = @ + 1]
  ELSE IF t.kind = "reconnect" THEN tasks ELSE Ended(t)
\* A task that reports back does so after its command is in the channel; the
\* report of a delayed reconnection is discarded.
Report(t) ==
  IF t.kind = "connect"
  THEN [Ended(t) EXCEPT ![Task("connecting", None)] = @ + 1]
  ELSE Ended(t)

TaskSend(t) ==
  /\ t.kind # "connecting" /\ tasks[t] > 0
  /\ Len(cmds) < CmdCap
  /\ cmds' = Append(cmds, IF t.kind = "disconnect"
                          THEN Cmd("Disconnect", None)
                          ELSE Cmd("Connect", t.cfg))
  /\ tasks' = Report(t)
  /\ UNCHANGED <<uiVars, eng, events, moves, faults, histVars>>

\* Message::Login(Connecting) reaches the UI.
UiConnecting ==
  /\ tasks[Task("connecting", None)] > 0
  /\ tasks' = Ended(Task("connecting", None))
  /\ login' = IF OnLogin THEN "Connecting" ELSE login
  /\ UNCHANGED <<chat, panels, ready, autoCfg, lastCfg, attempt, adding,
                 cmds, eng, events, moves, faults, histVars>>

-----------------------------------------------------------------------------
(* The UI handles engine events *)

Next1(type) == events # <<>> /\ Head(events).type \in type /\ events' = Tail(events)

\* Whatever was shown gives way to a fresh Chat screen.
HandleConnected ==
  /\ Next1({"Connected"})
  /\ chat' = Head(events).cfg /\ panels' = <<>> /\ login' = "Idle"
  /\ adding' = FALSE /\ covered' = FALSE
  /\ UNCHANGED <<ready, autoCfg, lastCfg, attempt, tasks, cmds, eng,
                 moves, faults, refused, loggedOut>>

\* (mutant) The configuration of a failed login is kept.
ForgetCfgNever == FALSE
ForgetCfg == OnLogin

\* (mutant) The Chat screen stays while a configuration is left to retry.
LeaveChatIfNoCfg == OnChat /\ lastCfg = None
LeaveChat == OnChat

\* Only a visible Login or Chat screen reacts.
HandleDisconnected ==
  /\ Next1({"auth", "invalid", "ended"})
  /\ lastCfg' = IF ForgetCfg THEN None ELSE lastCfg
  /\ login' = IF OnLogin THEN "Error" ELSE IF LeaveChat THEN "Idle" ELSE login
  /\ chat' = IF LeaveChat THEN None ELSE chat
  /\ refused' = IF OnLogin /\ Head(events).type = "auth"
                THEN refused \cup {Head(events).cfg} ELSE refused
  /\ covered' = (covered \/ (chat # None /\ panels # <<>>))
  /\ UNCHANGED <<panels, ready, autoCfg, attempt, adding, tasks, cmds, eng,
                 moves, faults, loggedOut>>

\* After 2^min(n, 6) seconds the engine is asked to connect again, unless the
\* login screen is visible.
MayRetry == ~OnLogin /\ lastCfg # None /\ ready

HandleReconnecting ==
  /\ Next1({"Reconnecting"})
  /\ attempt' = Head(events).n
  /\ tasks' = IF MayRetry THEN Spawned(Task("reconnect", lastCfg)) ELSE tasks
  /\ UNCHANGED <<chat, panels, login, ready, autoCfg, lastCfg, adding, cmds,
                 eng, moves, faults, histVars>>

-----------------------------------------------------------------------------
(* The engine *)

TakeCmd == cmds # <<>> /\ cmds' = Tail(cmds)

\* Idle: the first Connect starts a session; an unparsable JID is reported.
EngineStart ==
  /\ ~InSession /\ TakeCmd /\ Head(cmds).op = "Connect" /\ Room(1)
  /\ LET c == Head(cmds).cfg
     IN IF c \in Invalid
        THEN /\ events' = Append(events, Evt("invalid", c, 0))
             /\ UNCHANGED eng
        ELSE /\ eng' = [mode |-> "connecting", cfg |-> c, attempt |-> 0]
             /\ UNCHANGED events
  /\ UNCHANGED <<uiVars, tasks, moves, faults, histVars>>

\* Idle: any other command is ignored.
EngineIgnore ==
  /\ ~InSession /\ TakeCmd /\ Head(cmds).op # "Connect"
  /\ UNCHANGED <<uiVars, tasks, eng, events, moves, faults, histVars>>

\* Leaving the session loop, after the events es.
EndSession(es) ==
  /\ Room(Len(es) + 1)
  /\ events' = (events \o es) \o <<Evt("ended", eng.cfg, 0)>>
  /\ eng' = Idle

\* In a session both Disconnect and a second Connect end it.
EngineBreak ==
  /\ InSession /\ TakeCmd
  /\ EndSession(<<>>)
  /\ UNCHANGED <<uiVars, tasks, moves, faults, histVars>>

-----------------------------------------------------------------------------
(* The client library and the server, as the session loop sees them *)

ClientOnline ==
  /\ eng.mode = "connecting" /\ eng.cfg \in Good /\ Room(1)
  /\ eng' = [eng EXCEPT !.mode = "online", !.attempt = 0]
  /\ events' = Append(events, Evt("Connected", eng.cfg, 0))
  /\ UNCHANGED <<uiVars, tasks, cmds, moves, faults, histVars>>

\* The error is recognised as one of authentication: no reconnection.
ClientRefused ==
  /\ eng.mode = "connecting" /\ eng.cfg \notin Good
  /\ EndSession(<<Evt("auth", eng.cfg, 0)>>)
  /\ UNCHANGED <<uiVars, tasks, cmds, moves, faults, histVars>>

\* A dial or a stream breaks.  The client does not dial again by itself.
ClientBroken ==
  /\ eng.mode \in {"connecting", "online"}
  /\ faults < MaxFaults /\ faults' = faults + 1
  /\ Room(1)
  /\ eng' = [eng EXCEPT !.mode = "ended", !.attempt = @ + 1]
  /\ events' = Append(events, Evt("Reconnecting", eng.cfg, eng.attempt + 1))
  /\ UNCHANGED <<uiVars, tasks, cmds, moves, histVars>>

\* The client's stream of events is over.
ClientEnd ==
  /\ eng.mode = "ended"
  /\ EndSession(<<>>)
  /\ UNCHANGED <<uiVars, tasks, cmds, moves, faults, histVars>>

-----------------------------------------------------------------------------
User ==
  \/ \E c \in Cfgs : UserConnect(c)
  \/ \E p \in Panels : UserOpen(p)
  \/ UserBack
  \/ UserAddAccount
  \/ UserLogout
  \/ UserDisconnect

Ui ==
  \/ XmppReady
  \/ UiConnecting
  \/ HandleConnected
  \/ HandleDisconnected
  \/ HandleReconnecting

Engine ==
  \/ EngineStart
  \/ EngineIgnore
  \/ EngineBreak
  \/ ClientOnline
  \/ ClientRefused
  \/ ClientEnd

Next == User \/ Ui \/ Engine \/ ClientBroken \/ \E t \in Tasks : TaskSend(t)

Spec == Init /\ [][Next]_vars

\* The UI thread and the engine loop never stop, the runtime runs every task
\* and a dial ends one way or another.  Nothing is assumed of the user, nor
\* that anything breaks.
Fairness ==
  /\ WF_vars(Ui)
  /\ WF_vars(Engine)
  /\ \A t \in Tasks : WF_vars(TaskSend(t))

FairSpec == Spec /\ Fairness
-----------------------------------------------------------------------------
(* Properties *)

ScreenOK ==
  /\ chat \in Cfgs \cup {None}
  /\ panels \in Seq(Panels)
  /\ login \in {"Idle", "Connecting", "Error"}
  /\ ready \in BOOLEAN
  /\ adding \in BOOLEAN
  /\ autoCfg \in Cfgs \cup {None}
  /\ lastCfg \in Cfgs \cup {None}
  /\ attempt \in Nat
TasksOK  == tasks \in [Tasks -> Nat]
CmdsOK   == cmds \in Seq(Cmds) /\ Len(cmds) <= CmdCap
EventsOK == events \in Seq(Events) /\ Len(events) <= EvtCap
EngOK ==
  /\ eng \in [mode : Modes, cfg : Cfgs \cup {None}, attempt : Nat]
  /\ InSession => eng.cfg \in Cfgs
HistOK ==
  /\ moves \in Nat /\ faults \in Nat
  /\ refused \in SUBSET Cfgs
  /\ covered \in BOOLEAN /\ loggedOut \in BOOLEAN

\* The shape of the state, and the capacities of the two channels.
TypeOK == ScreenOK /\ TasksOK /\ CmdsOK /\ EventsOK /\ EngOK /\ HistOK

DisconnectPending ==
  \/ tasks[Task("disconnect", None)] > 0
  \/ \E i \in DOMAIN cmds : cmds[i].op = "Disconnect"

\* An online session is never forgotten: once the UI has handled every event,
\* the Chat screen of its account is at the bottom of the screens, or a
\* Disconnect is on its way to the engine, or the user is adding an account.
OnlineIsShown ==
  eng.mode = "online" /\ events = <<>> =>
    chat = eng.cfg \/ adding \/ DisconnectPending

\* Why OnlineIsShown holds.  Before the UI has the sender nothing runs; and
\* while a session is online its Connected is the last event of the channel,
\* until the UI handles it.
NothingBeforeReady ==
  ~ready => /\ \A t \in Tasks : tasks[t] = 0
            /\ cmds = <<>> /\ ~InSession
ConnectedIsLast ==
  eng.mode = "online" /\ events # <<>> =>
    /\ events[Len(events)].type = "Connected"
    /\ events[Len(events)].cfg = eng.cfg
ShownInv == NothingBeforeReady /\ ConnectedIsLast /\ OnlineIsShown

\* A Chat screen has its session behind it, or the end of that session is in
\* the event channel, or was taken from there while another screen covered it.
ChatIsBacked ==
  chat # None /\ ~covered =>
    \/ eng.mode \in {"online", "ended"} /\ eng.cfg = chat
    \/ \E i \in DOMAIN events : IsDisconnected(events[i])

\* "clear stale cfg so the Reconnecting handler won't attempt a retry with bad
\* creds": a configuration refused while the Login screen is visible is not
\* scheduled for a retry, by whatever screen, unless the user entered it again.
NoRetryWithBadCreds ==
  [][\A c \in Cfgs :
       tasks'[Task("reconnect", c)] > tasks[Task("reconnect", c)] => c \notin refused
    ]_vars

Quiet ==
  /\ \A t \in Tasks : tasks[t] = 0
  /\ cmds = <<>> /\ events = <<>>
  /\ eng.mode \in {"idle", "online"}

\* Reconnection never feeds itself: when the user and the network leave the
\* program alone, tasks, commands and events run out and the engine rests.
Settles == <>[]Quiet

\* "logout button - disconnect and return to login screen": after a logout the
\* program does not come to rest with a session, unless the user connected.
LogoutEndsSession == loggedOut /\ Quiet => eng.mode = "idle"
=============================================================================
