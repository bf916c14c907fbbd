--------------------------- MODULE Connection_proofs ---------------------------
(***************************************************************************)
(* What holds of Connection for every set of accounts, every capacity of   *)
(* the channels and every number of user moves and faults.                 *)
(***************************************************************************)
EXTENDS Connection, TLAPS

USE ConnectionAssumption

-----------------------------------------------------------------------------
(* What the helpers of the model do to the shape of the state *)

LEMMA TaskIn ==
  /\ \A c \in Cfgs : Task("connect", c) \in Tasks /\ Task("reconnect", c) \in Tasks
  /\ Task("connecting", None) \in Tasks /\ Task("disconnect", None) \in Tasks
  BY DEF Task, Tasks

LEMMA SpawnedOK ==
  ASSUME TasksOK, NEW t \in Tasks
  PROVE  Spawned(t) \in [Tasks -> Nat]
  BY DEF TasksOK, Spawned

LEMMA EndedOK ==
  ASSUME TasksOK, NEW t \in Tasks, tasks[t] > 0
  PROVE  Ended(t) \in [Tasks -> Nat]
  <1>1. tasks[t] - 1 \in Nat
    BY DEF TasksOK
  <1>2. QED
    BY <1>1 DEF TasksOK, Ended

LEMMA TakeCmdOK ==
  ASSUME CmdsOK, TakeCmd
  PROVE  CmdsOK' /\ Head(cmds) \in Cmds
  BY DEF CmdsOK, TakeCmd

LEMMA PopEventOK ==
  ASSUME EventsOK, NEW T, Next1(T)
  PROVE  EventsOK' /\ Head(events) \in Events /\ Head(events).type \in T
  <1>1. Head(events) \in Events /\ Tail(events) \in Seq(Events)
    BY DEF EventsOK, Next1
  <1>2. Len(Tail(events)) <= EvtCap
    BY DEF EventsOK, Next1
  <1>3. QED
    BY <1>1, <1>2 DEF EventsOK, Next1

LEMMA PushEventOK ==
  ASSUME EventsOK, NEW e \in Events, Room(1), events' = Append(events, e)
  PROVE  EventsOK'
  <1>1. Append(events, e) \in Seq(Events) /\ Len(Append(events, e)) = Len(events) + 1
    BY DEF EventsOK
  <1>2. QED
    BY <1>1 DEF EventsOK, Room

\* Leaving the session puts events of the right kind in the channel.
LEMMA EndSessionOK ==
  ASSUME EventsOK, EngOK, InSession, NEW es \in Seq(Events), EndSession(es)
  PROVE  EventsOK' /\ EngOK'
  <1>1. Evt("ended", eng.cfg, 0) \in Events
    BY DEF EngOK, Evt, Events
  <1>2. events \o es \in Seq(Events) /\ Len(events \o es) = Len(events) + Len(es)
    BY DEF EventsOK
  <1>3. events' \in Seq(Events) /\ Len(events') = Len(events) + Len(es) + 1
    BY <1>1, <1>2 DEF EndSession
  <1>4. EventsOK'
    BY <1>3 DEF EndSession, Room, EventsOK
  <1>5. EngOK'
    BY DEF EndSession, EngOK, Idle, Modes, InSession
  <1>6. QED
    BY <1>4, <1>5

-----------------------------------------------------------------------------
(* Every action keeps the shape of the state *)

LEMMA InitOK == Init => TypeOK
  <1> SUFFICES ASSUME Init PROVE TypeOK
    OBVIOUS
  <1>1. ScreenOK
    <2>1. panels \in Seq(Panels) /\ attempt \in Nat
      BY DEF Init
    <2>2. QED
      BY <2>1 DEF Init, ScreenOK
  <1>6. HistOK
    <2>1. moves \in Nat /\ faults \in Nat
      BY DEF Init
    <2>2. QED
      BY <2>1, Zenon DEF Init, HistOK
  <1>2. TasksOK
    BY DEF Init, TasksOK
  <1>3. CmdsOK /\ EventsOK
    BY DEF Init, CmdsOK, EventsOK
  <1>4. EngOK
    BY DEF Init, EngOK, Idle, Modes, InSession
  <1>5. QED
    BY <1>1, <1>2, <1>3, <1>4, <1>6 DEF TypeOK

LEMMA UserOK == TypeOK /\ User => TypeOK'
  <1> SUFFICES ASSUME TypeOK, User PROVE TypeOK'
    OBVIOUS
  <1> USE DEF TypeOK
  <1>1. ASSUME NEW c \in Cfgs, UserConnect(c) PROVE TypeOK'
    <2>1. TasksOK'
      BY <1>1, TaskIn, SpawnedOK DEF UserConnect, TasksOK
    <2>2. HistOK'
      <3>1. moves' \in Nat /\ faults' \in Nat
        BY <1>1 DEF UserConnect, UserMove, HistOK
      <3>2. refused' \in SUBSET Cfgs
        BY <1>1 DEF UserConnect, HistOK
      <3>3. covered' \in BOOLEAN /\ loggedOut' \in BOOLEAN
        BY <1>1, Zenon DEF UserConnect, HistOK
      <3>4. QED
        BY <3>1, <3>2, <3>3 DEF HistOK
    <2>3. ScreenOK'
      BY <1>1 DEF UserConnect, ScreenOK
    <2>4. CmdsOK' /\ EventsOK' /\ EngOK'
      BY <1>1 DEF UserConnect, CmdsOK, EventsOK, EngOK, InSession
    <2>5. QED
      BY <2>1, <2>2, <2>3, <2>4
  <1>2. ASSUME NEW p \in Panels, UserOpen(p) PROVE TypeOK'
    BY <1>2 DEF UserOpen, UserMove, histVars, InSession,
                ScreenOK, TasksOK, CmdsOK, EventsOK, EngOK, HistOK
  <1>3. CASE UserBack
    <2>1. Below \in Seq(Panels)
      BY <1>3 DEF UserBack, Below, ScreenOK
    <2>2. QED
      BY <1>3, <2>1 DEF UserBack, UserMove, histVars, InSession,
                        ScreenOK, TasksOK, CmdsOK, EventsOK, EngOK, HistOK
  <1>4. CASE UserAddAccount
    BY <1>4 DEF UserAddAccount, UserMove, histVars, InSession,
                ScreenOK, TasksOK, CmdsOK, EventsOK, EngOK, HistOK
  <1>5. CASE UserLogout
    <2>1. TasksOK'
      BY <1>5, TaskIn, SpawnedOK DEF UserLogout, LogoutTasks, TasksOK
    <2>2. HistOK'
      BY <1>5 DEF UserLogout, UserMove, HistOK
    <2>3. QED
      BY <1>5, <2>1, <2>2 DEF UserLogout, InSession, ScreenOK, CmdsOK, EventsOK, EngOK
  <1>6. CASE UserDisconnect
    <2>1. TasksOK'
      BY <1>6, TaskIn, SpawnedOK DEF UserDisconnect, TasksOK
    <2>2. QED
      BY <1>6, <2>1 DEF UserDisconnect, UserMove, uiVars, histVars, InSession,
                        ScreenOK, CmdsOK, EventsOK, EngOK, HistOK
  <1>7. QED
    BY <1>1, <1>2, <1>3, <1>4, <1>5, <1>6 DEF User

LEMMA UiOK == TypeOK /\ Ui => TypeOK'
  <1> SUFFICES ASSUME TypeOK, Ui PROVE TypeOK'
    OBVIOUS
  <1> USE DEF TypeOK
  <1>1. CASE XmppReady
    <2>1. TasksOK'
      BY <1>1, TaskIn, SpawnedOK DEF XmppReady, ScreenOK, TasksOK
    <2>2. ScreenOK'
      BY <1>1 DEF XmppReady, ScreenOK
    <2>3. QED
      BY <1>1, <2>1, <2>2 DEF XmppReady, histVars, InSession, CmdsOK, EventsOK, EngOK, HistOK
  <1>2. CASE UiConnecting
    <2>1. TasksOK'
      BY <1>2, TaskIn, EndedOK DEF UiConnecting, TasksOK
    <2>2. ScreenOK'
      BY <1>2 DEF UiConnecting, ScreenOK
    <2>3. QED
      BY <1>2, <2>1, <2>2 DEF UiConnecting, histVars, InSession, CmdsOK, EventsOK, EngOK, HistOK
  <1>3. CASE HandleConnected
    <2>1. EventsOK' /\ Head(events) \in Events
      BY <1>3, PopEventOK DEF HandleConnected
    <2>2. ScreenOK'
      <3>1. chat' \in Cfgs
        BY <1>3, <2>1 DEF HandleConnected, Events
      <3>2. panels' \in Seq(Panels)
        BY <1>3 DEF HandleConnected
      <3>3. QED
        BY <1>3, <3>1, <3>2 DEF HandleConnected, ScreenOK
    <2>3. QED
      BY <1>3, <2>1, <2>2 DEF HandleConnected, histVars, InSession, TasksOK, CmdsOK, EngOK, HistOK
  <1>4. CASE HandleDisconnected
    <2>1. EventsOK' /\ Head(events) \in Events
      BY <1>4, PopEventOK DEF HandleDisconnected
    <2>2. ScreenOK'
      BY <1>4 DEF HandleDisconnected, ScreenOK
    <2>3. HistOK'
      BY <1>4, <2>1 DEF HandleDisconnected, HistOK, Events
    <2>4. QED
      BY <1>4, <2>1, <2>2, <2>3 DEF HandleDisconnected, InSession, TasksOK, CmdsOK, EngOK
  <1>5. CASE HandleReconnecting
    <2>1. EventsOK' /\ Head(events) \in Events
      BY <1>5, PopEventOK DEF HandleReconnecting
    <2>2. ScreenOK'
      BY <1>5, <2>1 DEF HandleReconnecting, ScreenOK, Events
    <2>3. TasksOK'
      BY <1>5, TaskIn, SpawnedOK DEF HandleReconnecting, MayRetry, ScreenOK, TasksOK
    <2>4. QED
      BY <1>5, <2>1, <2>2, <2>3 DEF HandleReconnecting, histVars, InSession, CmdsOK, EngOK, HistOK
  <1>6. QED
    BY <1>1, <1>2, <1>3, <1>4, <1>5 DEF Ui

LEMMA TaskOK ==
  ASSUME TypeOK, NEW t \in Tasks, TaskSend(t)
  PROVE  TypeOK'
  <1> USE DEF TypeOK
  <1>1. Ended(t) \in [Tasks -> Nat]
    BY EndedOK DEF TaskSend
  <1>2. TasksOK'
    BY <1>1, TaskIn DEF TaskSend, Report, TasksOK
  <1>3. CmdsOK'
    BY DEF TaskSend, CmdsOK, Cmd, Cmds, Tasks
  <1>4. QED
    BY <1>2, <1>3 DEF TaskSend, uiVars, histVars, InSession, ScreenOK, EventsOK, EngOK, HistOK

LEMMA EngineOK == TypeOK /\ Engine => TypeOK'
  <1> SUFFICES ASSUME TypeOK, Engine PROVE TypeOK'
    OBVIOUS
  <1> USE DEF TypeOK
  <1>0. <<>> \in Seq(Events)
    OBVIOUS
  <1>1. CASE EngineStart
    <2> DEFINE c == Head(cmds).cfg
    <2>1. CmdsOK' /\ c \in Cfgs
      BY <1>1, TakeCmdOK DEF EngineStart, Cmds
    <2>2. Evt("invalid", c, 0) \in Events
      BY <2>1 DEF Evt, Events
    <2>3. EventsOK'
      BY <1>1, <2>2, PushEventOK DEF EngineStart, EventsOK
    <2>4. EngOK'
      BY <1>1, <2>1 DEF EngineStart, EngOK, InSession, Modes
    <2>5. QED
      BY <1>1, <2>1, <2>3, <2>4 DEF EngineStart, uiVars, histVars, ScreenOK, TasksOK, HistOK
  <1>2. CASE EngineIgnore
    <2>1. CmdsOK'
      BY <1>2, TakeCmdOK DEF EngineIgnore
    <2>2. QED
      BY <1>2, <2>1 DEF EngineIgnore, uiVars, histVars, InSession,
                        ScreenOK, TasksOK, EventsOK, EngOK, HistOK
  <1>3. CASE EngineBreak
    <2>1. CmdsOK'
      BY <1>3, TakeCmdOK DEF EngineBreak
    <2>2. EventsOK' /\ EngOK'
      BY <1>0, <1>3, EndSessionOK DEF EngineBreak
    <2>3. QED
      BY <1>3, <2>1, <2>2 DEF EngineBreak, uiVars, histVars, ScreenOK, TasksOK, HistOK
  <1>4. CASE ClientOnline
    <2>1. Evt("Connected", eng.cfg, 0) \in Events
      BY <1>4 DEF ClientOnline, Evt, Events
    <2>2. EventsOK'
      BY <1>4, <2>1, PushEventOK DEF ClientOnline
    <2>3. EngOK'
      BY <1>4 DEF ClientOnline, EngOK, InSession, Modes
    <2>4. QED
      BY <1>4, <2>2, <2>3 DEF ClientOnline, uiVars, histVars, ScreenOK, TasksOK, CmdsOK, HistOK
  <1>5. CASE ClientRefused
    <2>1. eng.cfg \in Cfgs /\ InSession
      BY <1>5 DEF EngOK, ClientRefused, InSession
    <2>2. <<Evt("auth", eng.cfg, 0)>> \in Seq(Events)
      BY <2>1 DEF Evt, Events
    <2>3. EventsOK' /\ EngOK'
      BY <1>5, <2>1, <2>2, EndSessionOK DEF ClientRefused
    <2>4. QED
      BY <1>5, <2>3 DEF ClientRefused, uiVars, histVars, ScreenOK, TasksOK, CmdsOK, HistOK
  <1>6. CASE ClientEnd
    <2>1. EventsOK' /\ EngOK'
      BY <1>0, <1>6, EndSessionOK DEF ClientEnd, InSession
    <2>2. QED
      BY <1>6, <2>1 DEF ClientEnd, uiVars, histVars, ScreenOK, TasksOK, CmdsOK, HistOK
  <1>7. QED
    BY <1>1, <1>2, <1>3, <1>4, <1>5, <1>6 DEF Engine

LEMMA BrokenOK == TypeOK /\ ClientBroken => TypeOK'
  <1> SUFFICES ASSUME TypeOK, ClientBroken PROVE TypeOK'
    OBVIOUS
  <1> USE DEF TypeOK
  <1>1. Evt("Reconnecting", eng.cfg, eng.attempt + 1) \in Events
    BY DEF EngOK, ClientBroken, InSession, Evt, Events
  <1>2. EventsOK'
    BY <1>1, PushEventOK DEF ClientBroken
  <1>3. EngOK'
    <2>1. eng.cfg \in Cfgs /\ eng.attempt + 1 \in Nat
      BY DEF ClientBroken, EngOK, InSession
    <2>2. eng' \in [mode : Modes, cfg : Cfgs \cup {None}, attempt : Nat] /\ eng'.cfg = eng.cfg
      BY <2>1 DEF ClientBroken, EngOK, Modes
    <2>3. QED
      BY <2>1, <2>2 DEF EngOK
  <1>4. HistOK'
    BY DEF ClientBroken, histVars, HistOK
  <1>5. QED
    BY <1>2, <1>3, <1>4 DEF ClientBroken, uiVars, ScreenOK, TasksOK, CmdsOK

LEMMA StutterOK == TypeOK /\ UNCHANGED vars => TypeOK'
  BY DEF TypeOK, vars, InSession, ScreenOK, TasksOK, CmdsOK, EventsOK, EngOK, HistOK

\* The state always has its shape, and neither channel exceeds its capacity.
THEOREM TypeCorrect == Spec => []TypeOK
  <1>1. TypeOK /\ [Next]_vars => TypeOK'
    BY UserOK, UiOK, TaskOK, EngineOK, BrokenOK, StutterOK DEF Next
  <1>2. QED
    BY <1>1, InitOK, PTL DEF Spec

-----------------------------------------------------------------------------
(* An online session is never forgotten by the UI *)

LEMMA TasksNonNeg ==
  ASSUME TypeOK, NEW t \in Tasks
  PROVE  tasks[t] \in Nat
  BY DEF TypeOK, TasksOK

\* A step of the user, or of a task, leaves the events alone.
LEMMA UserShown == TypeOK /\ ShownInv /\ User => ShownInv'
  <1> SUFFICES ASSUME TypeOK, ShownInv, User PROVE ShownInv'
    OBVIOUS
  <1> USE DEF ShownInv
  <1>0. UNCHANGED <<ready, cmds, eng, events>>
    BY DEF User, UserConnect, UserOpen, UserBack, UserAddAccount, UserLogout,
           UserDisconnect, uiVars
  <1>1. ConnectedIsLast'
    BY <1>0 DEF ConnectedIsLast
  <1>2. NothingBeforeReady'
    <2>1. ~ready => UNCHANGED tasks
      BY DEF User, UserConnect, UserOpen, UserBack, UserAddAccount, UserLogout,
             LogoutTasks, UserDisconnect
    <2>2. QED
      BY <1>0, <2>1 DEF NothingBeforeReady, InSession
  <1>3. OnlineIsShown'
    <2> SUFFICES ASSUME eng.mode = "online", events = <<>>
                 PROVE  (chat = eng.cfg \/ adding \/ DisconnectPending)'
      BY <1>0 DEF OnlineIsShown
    <2>0. ready /\ (chat = eng.cfg \/ adding \/ DisconnectPending)
      BY DEF OnlineIsShown, NothingBeforeReady, InSession
    <2>1. \A t \in Tasks : Spawned(t)[Task("disconnect", None)] >= tasks[Task("disconnect", None)]
      BY TaskIn DEF Spawned, TypeOK, TasksOK
    <2>2. Spawned(Task("disconnect", None))[Task("disconnect", None)] > 0
      BY TaskIn DEF Spawned, TypeOK, TasksOK
    <2>3. CASE UserLogout \/ UserDisconnect
      BY <2>0, <2>2, <2>3 DEF UserLogout, UserDisconnect, LogoutTasks, DisconnectPending
    <2>4. CASE UserAddAccount
      BY <2>4 DEF UserAddAccount
    <2>5. CASE UserBack \/ \E q \in Panels : UserOpen(q)
      BY <1>0, <2>0, <2>5 DEF UserBack, UserOpen, DisconnectPending
    <2>6. ASSUME NEW c \in Cfgs, UserConnect(c)
          PROVE  (chat = eng.cfg \/ adding \/ DisconnectPending)'
      <3>1. tasks'[Task("disconnect", None)] >= tasks[Task("disconnect", None)]
        BY <2>1, <2>6, TaskIn DEF UserConnect, TypeOK, TasksOK
      <3>2. tasks[Task("disconnect", None)] > 0 => tasks'[Task("disconnect", None)] > 0
        BY <3>1, TaskIn, TasksNonNeg, UserOK DEF User, TypeOK, TasksOK
      <3>3. DisconnectPending => DisconnectPending'
        BY <1>0, <3>2 DEF DisconnectPending
      <3>4. QED
        BY <2>0, <2>6, <3>3 DEF UserConnect
    <2>7. QED
      BY <2>3, <2>4, <2>5, <2>6 DEF User
  <1>4. QED
    BY <1>1, <1>2, <1>3

LEMMA TaskShown ==
  ASSUME TypeOK, ShownInv, NEW t \in Tasks, TaskSend(t)
  PROVE  ShownInv'
  <1> USE DEF ShownInv
  <1>0. UNCHANGED <<uiVars, eng, events>>
    BY DEF TaskSend
  <1>1. ConnectedIsLast'
    BY <1>0 DEF ConnectedIsLast
  <1>2. ready
    BY TasksNonNeg DEF NothingBeforeReady, TaskSend
  <1>3. NothingBeforeReady'
    BY <1>0, <1>2 DEF NothingBeforeReady, uiVars
  <1>4. DisconnectPending => DisconnectPending'
    <2> DEFINE d == Task("disconnect", None)
    <2>1. cmds \in Seq(Cmds)
      BY DEF TypeOK, CmdsOK
    <2>2. /\ \A i \in DOMAIN cmds : i \in DOMAIN cmds' /\ cmds'[i] = cmds[i]
          /\ Len(cmds) + 1 \in DOMAIN cmds'
          /\ t.kind = "disconnect" => cmds'[Len(cmds) + 1].op = "Disconnect"
      BY <2>1 DEF TaskSend, Cmd
    <2>3. t.kind # "disconnect" => t # d
      BY DEF Task
    <2>4. t # d => tasks'[d] = tasks[d]
      BY TaskIn DEF TaskSend, Report, Ended, Task, TypeOK, TasksOK
    <2>5. QED
      BY <2>2, <2>3, <2>4 DEF DisconnectPending
  <1>5. OnlineIsShown'
    BY <1>0, <1>4 DEF OnlineIsShown, uiVars
  <1>6. QED
    BY <1>1, <1>3, <1>5

\* The UI either leaves the events alone or takes the first one; when that is
\* the last one too and a session is online, it is its Connected.
LEMMA UiShown == TypeOK /\ ShownInv /\ Ui => ShownInv'
  <1> SUFFICES ASSUME TypeOK, ShownInv, Ui PROVE ShownInv'
    OBVIOUS
  <1> USE DEF ShownInv
  <1>0. UNCHANGED <<cmds, eng>>
    BY DEF Ui, XmppReady, UiConnecting, HandleConnected, HandleDisconnected, HandleReconnecting
  <1>a. ASSUME UNCHANGED events PROVE ConnectedIsLast'
    BY <1>0, <1>a DEF ConnectedIsLast
  <1>1. CASE XmppReady
    <2>1. ~InSession /\ ready'
      BY <1>1 DEF XmppReady, NothingBeforeReady
    <2>2. QED
      BY <1>0, <1>1, <2>1 DEF ConnectedIsLast, OnlineIsShown, NothingBeforeReady, InSession
  <1>2. CASE UiConnecting
    <2> DEFINE d == Task("disconnect", None)
    <2>1. ready
      BY <1>2, TaskIn, TasksNonNeg DEF UiConnecting, NothingBeforeReady
    <2>2. Task("connecting", None) # d
      BY DEF Task
    <2>3. tasks'[d] = tasks[d]
      BY <1>2, <2>2, TaskIn DEF UiConnecting, Ended, TypeOK, TasksOK
    <2>4. NothingBeforeReady' /\ OnlineIsShown'
      BY <1>0, <1>2, <2>1, <2>3
      DEF UiConnecting, NothingBeforeReady, OnlineIsShown, DisconnectPending
    <2>5. QED
      BY <1>2, <1>a, <2>4 DEF UiConnecting
  <1>3. CASE HandleConnected \/ HandleDisconnected \/ HandleReconnecting
    <2>0. events # <<>> /\ events' = Tail(events) /\ UNCHANGED ready
      BY <1>3 DEF HandleConnected, HandleDisconnected, HandleReconnecting, Next1
    <2>1. events \in Seq(Events)
      BY DEF TypeOK, EventsOK
    <2>2. ConnectedIsLast'
      <3>1. events' # <<>> => events'[Len(events')] = events[Len(events)]
        BY <2>0, <2>1
      <3>2. QED
        BY <1>0, <2>0, <3>1 DEF ConnectedIsLast
    <2>3. NothingBeforeReady'
      <3>1. ready \/ UNCHANGED tasks
        BY <1>3 DEF HandleConnected, HandleDisconnected, HandleReconnecting, MayRetry
      <3>2. QED
        BY <1>0, <2>0, <3>1 DEF NothingBeforeReady, InSession
    <2>4. OnlineIsShown'
      <3> SUFFICES ASSUME eng.mode = "online", events' = <<>> PROVE chat' = eng.cfg
        BY <1>0 DEF OnlineIsShown
      <3>1. Head(events) = events[Len(events)]
        BY <2>0, <2>1
      <3>2. Head(events).type = "Connected" /\ Head(events).cfg = eng.cfg
        BY <2>0, <3>1 DEF ConnectedIsLast
      <3>3. HandleConnected
        BY <1>3, <3>2 DEF HandleDisconnected, HandleReconnecting, Next1
      <3>4. QED
        BY <3>2, <3>3 DEF HandleConnected
    <2>5. QED
      BY <2>2, <2>3, <2>4
  <1>4. QED
    BY <1>1, <1>2, <1>3 DEF Ui

\* Of the engine's and the client's steps only going online leaves a session
\* online, and ignoring a command happens without one.
LEMMA EngineShown == TypeOK /\ ShownInv /\ (Engine \/ ClientBroken) => ShownInv'
  <1> SUFFICES ASSUME TypeOK, ShownInv, Engine \/ ClientBroken PROVE ShownInv'
    OBVIOUS
  <1> USE DEF ShownInv
  <1>1. ready /\ ready'
    BY DEF Engine, EngineStart, EngineIgnore, EngineBreak, TakeCmd, ClientOnline, ClientRefused,
           ClientEnd, ClientBroken, NothingBeforeReady, InSession, uiVars
  <1>2. NothingBeforeReady'
    BY <1>1 DEF NothingBeforeReady
  <1>3. CASE ClientOnline
    <2>1. events \in Seq(Events)
      BY DEF TypeOK, EventsOK
    <2>2. events' # <<>> /\ events'[Len(events')] = Evt("Connected", eng.cfg, 0) /\ eng'.cfg = eng.cfg
      BY <1>3, <2>1 DEF ClientOnline, TypeOK, EngOK
    <2>3. QED
      BY <1>2, <2>2 DEF ConnectedIsLast, OnlineIsShown, Evt
  <1>4. CASE ~ClientOnline
    <2>1. eng'.mode # "online"
      <3>1. CASE EngineStart \/ EngineIgnore
        BY <3>1 DEF EngineStart, EngineIgnore, InSession
      <3>2. CASE EngineBreak \/ ClientRefused \/ ClientEnd
        BY <3>2 DEF EngineBreak, ClientRefused, ClientEnd, EndSession, Idle
      <3>3. CASE ClientBroken
        BY <3>3 DEF ClientBroken, TypeOK, EngOK
      <3>4. QED
        BY <1>4, <3>1, <3>2, <3>3 DEF Engine
    <2>2. QED
      BY <1>2, <2>1 DEF ConnectedIsLast, OnlineIsShown
  <1>5. QED
    BY <1>3, <1>4

LEMMA ShownStep == TypeOK /\ ShownInv /\ [Next]_vars => ShownInv'
  <1>1. TypeOK /\ ShownInv /\ UNCHANGED vars => ShownInv'
    BY DEF vars, ShownInv, NothingBeforeReady, ConnectedIsLast, OnlineIsShown,
           DisconnectPending, InSession
  <1>2. QED
    BY <1>1, UserShown, UiShown, TaskShown, EngineShown DEF Next

\* Once the UI has handled every event, an online session has its Chat screen
\* at the bottom of the screens, or a Disconnect on its way, or the user is
\* adding an account.
THEOREM OnlineSessionIsShown == Spec => []OnlineIsShown
  <1>1. Init => ShownInv
    BY DEF Init, ShownInv, NothingBeforeReady, ConnectedIsLast, OnlineIsShown, InSession, Idle
  <1>2. TypeOK /\ ShownInv /\ [Next]_vars => ShownInv'
    BY ShownStep
  <1>3. ShownInv => OnlineIsShown
    BY DEF ShownInv
  <1>4. QED
    BY <1>1, <1>2, <1>3, TypeCorrect, PTL DEF Spec

-----------------------------------------------------------------------------
(* A Chat screen has its session behind it *)

\* A Disconnected still waits behind the first i events.
EndsAfter(i) == \E j \in DOMAIN events : j > i /\ IsDisconnected(events[j])

Behind(c) == eng.mode \in {"online", "ended"} /\ eng.cfg = c

\* A Connected that the UI has not handled yet is that of the session the
\* engine runs, or the end of its session follows it in the channel.
ConnectedIsBacked ==
  \A i \in DOMAIN events :
    events[i].type = "Connected" => Behind(events[i].cfg) \/ EndsAfter(i)

BackedInv == ConnectedIsBacked /\ ChatIsBacked

\* What ChatIsBacked says, in terms of the above.
LEMMA BackedMeans ==
  TypeOK => (ChatIsBacked <=> (chat # None /\ ~covered => Behind(chat) \/ EndsAfter(0)))
  <1> SUFFICES ASSUME TypeOK PROVE EndsAfter(0) <=> \E i \in DOMAIN events : IsDisconnected(events[i])
    BY DEF ChatIsBacked, Behind
  <1>1. events \in Seq(Events)
    BY DEF TypeOK, EventsOK
  <1>2. \A i \in DOMAIN events : i > 0
    BY <1>1
  <1>3. QED
    BY <1>2 DEF EndsAfter

LEMMA BackedMeansNext ==
  TypeOK' => (ChatIsBacked' <=> (chat # None /\ ~covered => Behind(chat) \/ EndsAfter(0))')
  BY BackedMeans, PTL

LEMMA EventCfg ==
  ASSUME TypeOK, NEW i \in DOMAIN events
  PROVE  i \in Nat /\ events[i].cfg \in Cfgs
  <1>1. i \in Nat /\ events[i] \in Events
    BY DEF TypeOK, EventsOK
  <1>2. QED
    BY <1>1 DEF Events

\* When events and session stay as they are, only the screens matter.
LEMMA SameBacked ==
  ASSUME BackedInv, UNCHANGED <<eng, events>>, chat' = None \/ UNCHANGED <<chat, covered>>
  PROVE  BackedInv'
  BY DEF BackedInv, ConnectedIsBacked, ChatIsBacked, Behind, EndsAfter

\* Putting events behind those that wait takes no Disconnected away.
LEMMA MoreEvents ==
  ASSUME TypeOK, NEW es \in Seq(Events), events' = events \o es
  PROVE  /\ \A i \in DOMAIN events : i \in DOMAIN events' /\ events'[i] = events[i]
         /\ \A k \in DOMAIN es : Len(events) + k \in DOMAIN events' /\ events'[Len(events) + k] = es[k]
         /\ \A i \in DOMAIN events' :
              i \in DOMAIN events \/ (i - Len(events) \in DOMAIN es /\ events'[i] = es[i - Len(events)])
         /\ \A i \in Nat : EndsAfter(i) => EndsAfter(i)'
  <1>1. events \in Seq(Events)
    BY DEF TypeOK, EventsOK
  <1>2. \A i \in DOMAIN events : i \in DOMAIN events' /\ events'[i] = events[i]
    BY <1>1
  <1>3. \A k \in DOMAIN es : Len(events) + k \in DOMAIN events' /\ events'[Len(events) + k] = es[k]
    BY <1>1
  <1>4. \A i \in DOMAIN events' :
          i \in DOMAIN events \/ (i - Len(events) \in DOMAIN es /\ events'[i] = es[i - Len(events)])
    BY <1>1
  <1>5. \A i \in Nat : EndsAfter(i) => EndsAfter(i)'
    BY <1>2 DEF EndsAfter
  <1>6. QED
    BY <1>2, <1>3, <1>4, <1>5

\* The end of a session backs whatever came before it.
LEMMA EndBacks ==
  ASSUME TypeOK, InSession, NEW es \in Seq(Events), EndSession(es),
         \A k \in DOMAIN es : es[k].type # "Connected"
  PROVE  ConnectedIsBacked' /\ EndsAfter(0)'
  <1> DEFINE fs == es \o <<Evt("ended", eng.cfg, 0)>>
  <1>1. events \in Seq(Events) /\ Evt("ended", eng.cfg, 0) \in Events
    BY DEF TypeOK, EventsOK, EngOK, Evt, Events
  <1>2. fs \in Seq(Events) /\ events' = events \o fs /\ Len(fs) = Len(es) + 1
        /\ fs[Len(es) + 1] = Evt("ended", eng.cfg, 0)
        /\ \A k \in 1..Len(es) : fs[k] = es[k]
    BY <1>1 DEF EndSession
  <1>3. \A k \in DOMAIN fs : fs[k].type # "Connected"
    <2> SUFFICES ASSUME NEW k \in DOMAIN fs PROVE fs[k].type # "Connected"
      OBVIOUS
    <2>1. k \in 1..Len(es) \/ k = Len(es) + 1
      BY <1>2
    <2>2. QED
      BY <1>2, <2>1 DEF Evt
  <1>4. IsDisconnected(Evt("ended", eng.cfg, 0))
    BY DEF IsDisconnected, Evt
  <1> HIDE DEF fs
  <1>5. Len(events) + Len(es) + 1 \in DOMAIN events' /\ IsDisconnected(events'[Len(events) + Len(es) + 1])
    BY <1>1, <1>2, <1>4
  <1>6. \A i \in DOMAIN events : EndsAfter(i)'
    BY <1>1, <1>5 DEF EndsAfter
  <1>7. \A i \in DOMAIN events' : i \in DOMAIN events \/ events'[i].type # "Connected"
    BY <1>2, <1>3, MoreEvents
  <1>8. EndsAfter(0)'
    BY <1>1, <1>5 DEF EndsAfter
  <1>9. QED
    BY <1>6, <1>7, <1>8 DEF ConnectedIsBacked

LEMMA EngineBacked == TypeOK /\ BackedInv /\ (Engine \/ ClientBroken) => BackedInv'
  <1> SUFFICES ASSUME TypeOK, BackedInv, Engine \/ ClientBroken PROVE BackedInv'
    OBVIOUS
  <1>1. events \in Seq(Events) /\ UNCHANGED <<chat, covered>>
    BY DEF TypeOK, EventsOK, Engine, EngineStart, EngineIgnore, EngineBreak, ClientOnline,
           ClientRefused, ClientEnd, ClientBroken, uiVars, histVars
  <1>2. TypeOK'
    BY EngineOK, BrokenOK
  <1>a. ASSUME NEW e \in Events, events' = Append(events, e),
               e.type = "Connected" => Behind(e.cfg)',
               \A c \in Cfgs : Behind(c) => Behind(c)'
        PROVE  BackedInv'
    <2>1. <<e>> \in Seq(Events) /\ events' = events \o <<e>>
      BY <1>1, <1>a
    <2>0. \A k \in DOMAIN <<e>> : <<e>>[k] = e
      OBVIOUS
    <2>2. /\ \A i \in DOMAIN events : events'[i] = events[i]
          /\ \A i \in DOMAIN events' : i \in DOMAIN events \/ events'[i] = e
          /\ \A i \in Nat : EndsAfter(i) => EndsAfter(i)'
      <3> DEFINE es == <<e>>
      <3>0. es \in Seq(Events) /\ events' = events \o es /\ \A k \in DOMAIN es : es[k] = e
        BY <2>0, <2>1
      <3> HIDE DEF es
      <3>1. QED
        BY <3>0, MoreEvents
    <2>3. \A i \in DOMAIN events : i \in Nat /\ events[i].cfg \in Cfgs
      BY EventCfg
    <2>4. ConnectedIsBacked'
      BY <1>a, <2>2, <2>3 DEF BackedInv, ConnectedIsBacked
    <2>5. chat # None => chat \in Cfgs
      BY DEF TypeOK, ScreenOK
    <2>6. ChatIsBacked'
      BY <1>1, <1>2, <1>a, <2>2, <2>5, BackedMeans, BackedMeansNext DEF BackedInv
    <2>7. QED
      BY <2>4, <2>6 DEF BackedInv
  <1>b. ASSUME InSession, NEW es \in Seq(Events), EndSession(es),
               \A k \in DOMAIN es : es[k].type # "Connected"
        PROVE  BackedInv'
    <2>1. ConnectedIsBacked' /\ EndsAfter(0)'
      BY <1>b, EndBacks
    <2>2. QED
      BY <1>2, <2>1, BackedMeansNext DEF BackedInv
  <1>0. <<>> \in Seq(Events) /\ DOMAIN <<>> = {}
    OBVIOUS
  <1>3. CASE EngineStart
    <2>1. Head(cmds).cfg \in Cfgs
      BY <1>3, TakeCmdOK DEF EngineStart, Cmds, TypeOK
    <2>2. \A c \in Cfgs : ~Behind(c)
      BY <1>3 DEF EngineStart, InSession, Behind
    <2>3. CASE Head(cmds).cfg \in Invalid
      <3>1. /\ Evt("invalid", Head(cmds).cfg, 0) \in Events
            /\ Evt("invalid", Head(cmds).cfg, 0).type # "Connected"
        BY <2>1 DEF Evt, Events
      <3>2. events' = Append(events, Evt("invalid", Head(cmds).cfg, 0))
        BY <1>3, <2>3 DEF EngineStart
      <3>3. QED
        BY <1>a, <2>2, <3>1, <3>2
    <2>4. CASE Head(cmds).cfg \notin Invalid
      <3>1. UNCHANGED events
        BY <1>3, <2>4 DEF EngineStart
      <3>2. ChatIsBacked' /\ ConnectedIsBacked'
        <4>1. \A i \in DOMAIN events : EndsAfter(i) <=> EndsAfter(i)'
          BY <3>1 DEF EndsAfter
        <4>2. EndsAfter(0) <=> EndsAfter(0)'
          BY <3>1 DEF EndsAfter
        <4>3. \A i \in DOMAIN events : events[i].cfg \in Cfgs
          BY EventCfg
        <4>4. chat # None => chat \in Cfgs
          BY DEF TypeOK, ScreenOK
        <4>5. ConnectedIsBacked'
          BY <2>2, <3>1, <4>1, <4>3 DEF BackedInv, ConnectedIsBacked
        <4>6. ChatIsBacked'
          BY <1>1, <1>2, <2>2, <4>2, <4>4, BackedMeans, BackedMeansNext DEF BackedInv
        <4>7. QED
          BY <4>5, <4>6
      <3>3. QED
        BY <3>2 DEF BackedInv
    <2>5. QED
      BY <2>3, <2>4
  <1>4. CASE EngineIgnore
    BY <1>1, <1>4, SameBacked DEF EngineIgnore
  <1>5. CASE EngineBreak
    BY <1>0, <1>5, <1>b DEF EngineBreak
  <1>6. CASE ClientOnline
    <2>1. Evt("Connected", eng.cfg, 0) \in Events /\ Evt("Connected", eng.cfg, 0).cfg = eng.cfg
      BY <1>6 DEF ClientOnline, TypeOK, EngOK, InSession, Evt, Events
    <2>2. eng'.mode = "online" /\ eng'.cfg = eng.cfg
      BY <1>6 DEF ClientOnline, TypeOK, EngOK
    <2>3. Behind(eng.cfg)' /\ \A c \in Cfgs : ~Behind(c)
      BY <1>6, <2>2 DEF Behind, ClientOnline
    <2>4. QED
      BY <1>6, <1>a, <2>1, <2>3 DEF ClientOnline, Behind
  <1>7. CASE ClientRefused
    <2>1. Evt("auth", eng.cfg, 0) \in Events /\ Evt("auth", eng.cfg, 0).type # "Connected"
      BY <1>7 DEF TypeOK, EngOK, ClientRefused, InSession, Evt, Events
    <2>2. /\ <<Evt("auth", eng.cfg, 0)>> \in Seq(Events)
          /\ \A k \in DOMAIN <<Evt("auth", eng.cfg, 0)>> :
               <<Evt("auth", eng.cfg, 0)>>[k].type # "Connected"
      BY <2>1
    <2>3. InSession
      BY <1>7 DEF ClientRefused, InSession
    <2>4. QED
      BY <1>7, <1>b, <2>2, <2>3 DEF ClientRefused
  <1>8. CASE ClientEnd
    BY <1>0, <1>8, <1>b DEF ClientEnd, InSession
  <1>9. CASE ClientBroken
    <2>1. /\ Evt("Reconnecting", eng.cfg, eng.attempt + 1) \in Events
          /\ Evt("Reconnecting", eng.cfg, eng.attempt + 1).type # "Connected"
      BY <1>9 DEF ClientBroken, TypeOK, EngOK, InSession, Evt, Events
    <2>2. eng'.mode = "ended" /\ eng'.cfg = eng.cfg
      BY <1>9 DEF ClientBroken, TypeOK, EngOK
    <2>3. \A c \in Cfgs : Behind(c) => Behind(c)'
      BY <2>2 DEF Behind
    <2>4. QED
      BY <1>9, <1>a, <2>1, <2>3 DEF ClientBroken
  <1>10. QED
    BY <1>3, <1>4, <1>5, <1>6, <1>7, <1>8, <1>9 DEF Engine

\* What the UI takes from the channel it acts on: a Connected leaves the end of
\* its session behind, and a Disconnected either closes the Chat screen or finds
\* it covered.
LEMMA UiBacked == TypeOK /\ BackedInv /\ Ui => BackedInv'
  <1> SUFFICES ASSUME TypeOK, BackedInv, Ui PROVE BackedInv'
    OBVIOUS
  <1>1. TypeOK'
    BY UiOK
  <1>2. events \in Seq(Events) /\ UNCHANGED eng
    BY DEF TypeOK, EventsOK, Ui, XmppReady, UiConnecting, HandleConnected, HandleDisconnected,
           HandleReconnecting
  <1>3. CASE XmppReady \/ UiConnecting
    BY <1>2, <1>3, SameBacked DEF XmppReady, UiConnecting, histVars
  <1>4. CASE HandleConnected \/ HandleDisconnected \/ HandleReconnecting
    <2>0. events # <<>> /\ events' = Tail(events) /\ 1 \in DOMAIN events /\ Head(events) = events[1]
      BY <1>2, <1>4 DEF HandleConnected, HandleDisconnected, HandleReconnecting, Next1
    <2>1. \A i \in DOMAIN events' : i + 1 \in DOMAIN events /\ events'[i] = events[i + 1]
      BY <1>2, <2>0
    <2>2. \A j \in DOMAIN events : j > 1 => j - 1 \in DOMAIN events' /\ events'[j - 1] = events[j]
      BY <1>2, <2>0
    <2>3. \A i \in Nat : EndsAfter(i + 1) => EndsAfter(i)'
      <3> SUFFICES ASSUME NEW i \in Nat, NEW j \in DOMAIN events, j > i + 1, IsDisconnected(events[j])
                   PROVE  \E k \in DOMAIN events' : k > i /\ IsDisconnected(events'[k])
        BY DEF EndsAfter
      <3>1. j \in Nat /\ j - 1 > i
        BY <1>2
      <3>2. j - 1 \in DOMAIN events' /\ events'[j - 1] = events[j]
        BY <2>2, <3>1
      <3>3. QED
        BY <3>1, <3>2
    <2>4. \A c : Behind(c) <=> Behind(c)'
      BY <1>2 DEF Behind
    <2>5. ConnectedIsBacked'
      <3> SUFFICES ASSUME NEW i \in DOMAIN events', events'[i].type = "Connected"
                   PROVE  Behind(events[i].cfg)' \/ EndsAfter(i)'
        BY DEF ConnectedIsBacked
      <3>1. i \in Nat /\ i + 1 \in DOMAIN events /\ events'[i] = events[i + 1]
        BY <1>2, <2>0, <2>1
      <3>2. Behind(events[i + 1].cfg) \/ EndsAfter(i + 1)
        BY <3>1 DEF BackedInv, ConnectedIsBacked
      <3>3. QED
        BY <2>3, <2>4, <3>1, <3>2
    <2>6. ASSUME Behind(chat') \/ EndsAfter(1) \/ chat' = None \/ covered'
          PROVE  BackedInv'
      <3>1. EndsAfter(1) => EndsAfter(0)'
        BY <2>3
      <3>2. Behind(chat') => Behind(chat)'
        BY <2>4
      <3>3. ChatIsBacked'
        BY <1>1, <2>6, <3>1, <3>2, BackedMeansNext
      <3>4. QED
        BY <2>5, <3>3 DEF BackedInv
    <2>7. CASE HandleConnected
      <3>1. events[1].type = "Connected" /\ chat' = events[1].cfg
        BY <2>0, <2>7 DEF HandleConnected, Next1
      <3>2. Behind(chat') \/ EndsAfter(1)
        BY <2>0, <3>1 DEF BackedInv, ConnectedIsBacked
      <3>3. QED
        BY <2>6, <3>2
    <2>8. CASE HandleDisconnected
      <3>1. chat' = None \/ covered'
        BY <2>8 DEF HandleDisconnected, LeaveChat, OnChat
      <3>2. QED
        BY <2>6, <3>1
    <2>9. CASE HandleReconnecting
      <3>1. ~IsDisconnected(events[1]) /\ UNCHANGED <<chat, covered>>
        BY <2>0, <2>9 DEF HandleReconnecting, Next1, IsDisconnected, histVars
      <3>2. EndsAfter(0) => EndsAfter(1)
        BY <1>2, <3>1 DEF EndsAfter
      <3>3. chat = None \/ covered \/ Behind(chat) \/ EndsAfter(0)
        BY BackedMeans DEF BackedInv
      <3>4. QED
        BY <2>6, <3>1, <3>2, <3>3
    <2>10. QED
      BY <1>4, <2>7, <2>8, <2>9
  <1>5. QED
    BY <1>3, <1>4 DEF Ui

LEMMA OthersBacked ==
  ASSUME TypeOK, BackedInv, User \/ (\E t \in Tasks : TaskSend(t)) \/ UNCHANGED vars
  PROVE  BackedInv'
  <1>1. UNCHANGED <<eng, events>>
    BY Zenon DEF User, UserConnect, UserOpen, UserBack, UserAddAccount, UserLogout, UserDisconnect,
                 TaskSend, uiVars, histVars, vars
  <1>2. chat' = None \/ UNCHANGED <<chat, covered>>
    BY Zenon DEF User, UserConnect, UserOpen, UserBack, UserAddAccount, UserLogout, UserDisconnect,
                 TaskSend, uiVars, histVars, vars
  <1>3. QED
    BY <1>1, <1>2, SameBacked

\* A Chat screen always has its session behind it, or the end of that session
\* waits in the event channel, or the UI took that end while another screen
\* covered the Chat screen.
THEOREM ChatHasItsSession == Spec => []ChatIsBacked
  <1>1. Init => BackedInv
    BY DEF Init, BackedInv, ConnectedIsBacked, ChatIsBacked
  <1>2. TypeOK /\ BackedInv /\ [Next]_vars => BackedInv'
    BY EngineBacked, UiBacked, OthersBacked DEF Next
  <1>3. BackedInv => ChatIsBacked
    BY DEF BackedInv
  <1>4. QED
    BY <1>1, <1>2, <1>3, TypeCorrect, PTL DEF Spec

-----------------------------------------------------------------------------
(* A configuration that was refused is not tried again *)

\* What the UI would retry with was not refused; and before it has its sender
\* there is nothing to be refused.
RetryInv ==
  /\ ~ready => refused = {} /\ events = <<>>
  /\ lastCfg \notin refused

LEMMA NoEventsYet ==
  TypeOK /\ ShownInv /\ RetryInv /\ [Next]_vars => (~ready' => events' = <<>>)
  <1> SUFFICES ASSUME TypeOK, ShownInv, RetryInv, [Next]_vars, ~ready' PROVE events' = <<>>
    OBVIOUS
  <1>1. ~ready
    BY Zenon DEF Next, User, Ui, Engine, UserConnect, UserOpen, UserBack, UserAddAccount, UserLogout,
       UserDisconnect, TaskSend, XmppReady, UiConnecting, HandleConnected, HandleDisconnected,
       HandleReconnecting, EngineStart, EngineIgnore, EngineBreak, ClientOnline, ClientRefused,
       ClientEnd, ClientBroken, uiVars, vars
  <1>2. events = <<>> /\ cmds = <<>> /\ ~InSession
    BY <1>1 DEF RetryInv, ShownInv, NothingBeforeReady
  <1>3. ~(Engine \/ ClientBroken)
    BY <1>2 DEF Engine, EngineStart, EngineIgnore, EngineBreak, TakeCmd, ClientOnline, ClientRefused,
       ClientEnd, ClientBroken, InSession
  <1>4. ~(HandleConnected \/ HandleDisconnected \/ HandleReconnecting)
    BY <1>2 DEF HandleConnected, HandleDisconnected, HandleReconnecting, Next1
  <1>5. UNCHANGED events
    BY <1>3, <1>4, Zenon DEF Next, User, Ui, UserConnect, UserOpen, UserBack, UserAddAccount,
       UserLogout, UserDisconnect, TaskSend, XmppReady, UiConnecting, uiVars, vars
  <1>6. QED
    BY <1>2, <1>5

LEMMA RetryStep == TypeOK /\ ShownInv /\ RetryInv /\ [Next]_vars => RetryInv'
  <1> SUFFICES ASSUME TypeOK, ShownInv, RetryInv, [Next]_vars PROVE RetryInv'
    OBVIOUS
  <1>1. ~ready' => events' = <<>>
    BY NoEventsYet
  <1>2. CASE XmppReady
    <2>1. refused = {} /\ UNCHANGED refused /\ ready'
      BY <1>2 DEF XmppReady, RetryInv, histVars
    <2>2. QED
      BY <2>1 DEF RetryInv
  <1>3. ASSUME NEW c \in Cfgs, UserConnect(c) PROVE RetryInv'
    <2>1. CASE c \in Invalid \/ ~ready
      <3>1. UNCHANGED <<ready, lastCfg, refused>>
        BY <1>3, <2>1 DEF UserConnect
      <3>2. QED
        BY <1>1, <3>1 DEF RetryInv
    <2>2. CASE ~(c \in Invalid \/ ~ready)
      <3>1. ready' /\ lastCfg' = c /\ refused' = refused \ {c}
        BY <1>3, <2>2 DEF UserConnect
      <3>2. QED
        BY <3>1 DEF RetryInv
    <2>3. QED
      BY <2>1, <2>2
  <1>4. CASE HandleDisconnected
    <2>1. ready /\ ready'
      <3>1. events # <<>> /\ UNCHANGED ready
        BY <1>4 DEF HandleDisconnected, Next1
      <3>2. QED
        BY <3>1 DEF RetryInv
    <2>2. CASE OnLogin
      <3>1. lastCfg' = None
        BY <1>4, <2>2 DEF HandleDisconnected, ForgetCfg
      <3>2. refused' \in SUBSET Cfgs
        BY <1>4, UiOK DEF Ui, TypeOK, HistOK
      <3>3. QED
        BY <2>1, <3>1, <3>2 DEF RetryInv
    <2>3. CASE ~OnLogin
      <3>1. UNCHANGED <<lastCfg, refused>>
        BY <1>4, <2>3 DEF HandleDisconnected, ForgetCfg
      <3>2. QED
        BY <2>1, <3>1 DEF RetryInv
    <2>4. QED
      BY <2>2, <2>3
  <1>5. CASE UNCHANGED <<ready, lastCfg, refused>>
    BY <1>1, <1>5 DEF RetryInv
  <1>6. QED
    BY <1>2, <1>3, <1>4, <1>5, Zenon
    DEF Next, User, Ui, Engine, UserOpen, UserBack, UserAddAccount, UserLogout, UserDisconnect,
        TaskSend, UiConnecting, HandleConnected, HandleReconnecting, EngineStart, EngineIgnore,
        EngineBreak, ClientOnline, ClientRefused, ClientEnd, ClientBroken, uiVars, histVars, vars

\* Only the UI, on a Reconnecting event, adds to the retries, and what it adds
\* is one with the configuration it kept.
LEMMA OnlyTheKeptIsRetried ==
  ASSUME TypeOK, [Next]_vars, NEW c \in Cfgs,
         tasks'[Task("reconnect", c)] > tasks[Task("reconnect", c)]
  PROVE  c = lastCfg
  <1> DEFINE r == Task("reconnect", c)
  <1>0. r \in Tasks /\ tasks \in [Tasks -> Nat] /\ tasks[r] \in Nat
    BY TaskIn, TasksNonNeg DEF TypeOK, TasksOK
  <1>a. \A t \in Tasks : t # r => Spawned(t)[r] = tasks[r] /\ Ended(t)[r] = tasks[r]
    BY <1>0 DEF Spawned, Ended
  <1>b. \A t \in Tasks : Ended(t)[r] <= tasks[r]
    BY <1>0 DEF Ended
  <1>c. /\ \A d \in Cfgs \cup {None} : Task("connect", d) # r
        /\ Task("connecting", None) # r /\ Task("disconnect", None) # r
    BY DEF Task
  <1>1. CASE XmppReady
    BY <1>0, <1>1, <1>a, <1>c, TaskIn DEF XmppReady, TypeOK, ScreenOK
  <1>2. ASSUME NEW d \in Cfgs, UserConnect(d) PROVE FALSE
    BY <1>0, <1>2, <1>a, <1>c, TaskIn DEF UserConnect
  <1>3. CASE UserLogout \/ UserDisconnect
    BY <1>0, <1>3, <1>a, <1>c, TaskIn DEF UserLogout, UserDisconnect, LogoutTasks
  <1>4. CASE UiConnecting
    BY <1>0, <1>4, <1>a, <1>c, TaskIn DEF UiConnecting
  <1>5. ASSUME NEW t \in Tasks, TaskSend(t) PROVE FALSE
    <2>1. tasks' = Report(t)
      BY <1>5 DEF TaskSend
    <2>2. Report(t)[r] <= tasks[r]
      <3>1. Ended(t)[r] <= tasks[r] /\ DOMAIN Ended(t) = Tasks
        BY <1>0, <1>b DEF Ended
      <3>2. [Ended(t) EXCEPT ![Task("connecting", None)] = @ + 1][r] = Ended(t)[r]
        BY <1>0, <1>c, <3>1, TaskIn
      <3>3. QED
        BY <3>1, <3>2 DEF Report
    <2>3. Report(t)[r] \in Nat
      BY <1>0, <1>5, <2>1, TaskOK DEF TypeOK, TasksOK
    <2>4. QED
      BY <1>0, <2>1, <2>2, <2>3
  <1>6. CASE HandleReconnecting
    <2>1. MayRetry /\ tasks' = Spawned(Task("reconnect", lastCfg))
      BY <1>0, <1>6 DEF HandleReconnecting
    <2>2. lastCfg \in Cfgs
      BY <2>1 DEF MayRetry, TypeOK, ScreenOK
    <2>3. Task("reconnect", lastCfg) = r
      BY <1>0, <1>a, <2>1, <2>2, TaskIn
    <2>4. QED
      BY <2>3 DEF Task
  <1>7. CASE UNCHANGED tasks
    BY <1>0, <1>7
  <1>8. QED
    BY <1>1, <1>2, <1>3, <1>4, <1>5, <1>6, <1>7, Zenon
    DEF Next, User, Ui, Engine, UserOpen, UserBack, UserAddAccount, HandleConnected,
        HandleDisconnected, EngineStart, EngineIgnore, EngineBreak, ClientOnline, ClientRefused,
        ClientEnd, ClientBroken, vars

\* A configuration that was refused while the Login screen was visible is
\* scheduled for no retry until the user enters it again.
THEOREM NeverRetriesRefused == Spec => NoRetryWithBadCreds
  <1>1. Init => ShownInv /\ RetryInv
    BY DEF Init, ShownInv, NothingBeforeReady, ConnectedIsLast, OnlineIsShown, InSession, Idle, RetryInv
  <1>2. TypeOK /\ ShownInv /\ [Next]_vars => ShownInv'
    BY ShownStep
  <1>3. TypeOK /\ ShownInv /\ RetryInv /\ [Next]_vars =>
          [\A c \in Cfgs : tasks'[Task("reconnect", c)] > tasks[Task("reconnect", c)] => c \notin refused]_vars
    BY OnlyTheKeptIsRetried DEF RetryInv
  <1>4. QED
    BY <1>1, <1>2, <1>3, RetryStep, TypeCorrect, PTL DEF Spec, NoRetryWithBadCreds
=============================================================================
