------------------------------- MODULE Presence -------------------------------
(***************************************************************************)
(* Automatic away: the UI watches how long the user has been inactive and  *)
(* tells the engine, whose presence machine decides what the server shows  *)
(* to others.  The UI hands each command to a task of its own, so commands *)
(* reach the channel in any order.  Every session has a machine of its     *)
(* own.  A stanza pushed on a live stream is taken to be delivered: module *)
(* Outbox shows that it is delayed and never reordered.                    *)
(***************************************************************************)
EXTENDS Naturals, Sequences

CONSTANTS
  IdleAfter,   \* ticks of the clock until the user is idle (300 s)
  XaAfter,     \* ticks until the user is idle for long (900 s)
  MaxPending   \* bound: commands in tasks and in the channel

ASSUME PresenceAssumption ==
  /\ IdleAfter \in Nat \ {0} /\ XaAfter \in Nat /\ IdleAfter < XaAfter
  /\ MaxPending \in Nat

VARIABLES
  since,      \* ticks since last_activity, counted up to XaAfter
  idle,       \* idle_state of the UI
  own,        \* own_presence of the UI
  tasks,      \* how many tasks are still to send each command
  cmds,       \* the command channel
  stream,     \* the session: none, or what its client is doing
  machine,    \* presence_machine of the session
  shown,      \* external: the status the server shows to others
  announced,  \* history: the machine's status was sent since Online
  chosen,     \* history: the status this session was last told to set
  lastAuto    \* history: auto_state when the last stream went down

uiVars   == <<since, idle, own>>
histVars == <<announced, chosen, lastAuto>>
vars     == <<since, idle, own, tasks, cmds, stream, machine, shown,
              announced, chosen, lastAuto>>

OwnStatuses == {"Available", "Away", "DoNotDisturb"}
Statuses    == OwnStatuses \cup {"ExtendedAway", "Offline"}
AutoStates  == {"Active", "AutoAway", "AutoXa"}
Commands    == {"UserIdle", "UserExtendedIdle", "UserActive"} \cup OwnStatuses

-----------------------------------------------------------------------------
(* PresenceMachine *)

NewMachine == [user |-> "Available", auto |-> "Active", pre |-> "Available",
               online |-> FALSE]

Effective(m) ==
  IF ~m.online THEN "Offline"
  ELSE IF m.user = "DoNotDisturb" \/ m.auto = "Active" THEN m.user
  ELSE IF m.auto = "AutoAway" THEN "Away" ELSE "ExtendedAway"

SetUserStatus(m, s) == [m EXCEPT !.user = s, !.auto = "Active"]

\* (mutant) The status to restore is what the others saw.
OnIdleSaveShown(m) ==
  IF m.user # "DoNotDisturb" /\ m.auto = "Active"
  THEN [m EXCEPT !.pre = Effective(m), !.auto = "AutoAway"]
  ELSE m
OnIdle(m) ==
  IF m.user # "DoNotDisturb" /\ m.auto = "Active"
  THEN [m EXCEPT !.pre = m.user, !.auto = "AutoAway"]
  ELSE m

OnSleep(m) ==
  IF m.user = "DoNotDisturb" THEN m
  ELSE [m EXCEPT !.pre = IF m.auto = "Active" THEN m.user ELSE m.pre,
                 !.auto = "AutoXa"]

OnActivity(m) ==
  IF m.auto # "Active" THEN [m EXCEPT !.user = m.pre, !.auto = "Active"] ELSE m

-----------------------------------------------------------------------------
Init ==
  /\ since = 0 /\ idle = "Active" /\ own = "Available"
  /\ tasks = [c \in Commands |-> 0] /\ cmds = <<>>
  /\ stream = "none" /\ machine = NewMachine /\ shown = "Offline"
  /\ announced = FALSE /\ chosen = "Available" /\ lastAuto = "Active"

Pending == Len(cmds) + tasks["UserIdle"] + tasks["UserExtendedIdle"]
             + tasks["UserActive"] + tasks["Available"] + tasks["Away"]
             + tasks["DoNotDisturb"]
MayAdd(k) == Pending + k <= MaxPending

\* The tasks that send the commands in cs are spawned.
Spawn(cs) == tasks' = [c \in Commands |-> IF c \in cs THEN tasks[c] + 1 ELSE tasks[c]]

-----------------------------------------------------------------------------
(* The UI *)

Tick ==
  /\ since < XaAfter /\ since' = since + 1
  /\ UNCHANGED <<idle, own, tasks, cmds, stream, machine, shown, histVars>>

\* The 30 s timer looks at the idle time.
IdleTick ==
  /\ MayAdd(1)
  /\ \/ /\ idle # "AutoXa" /\ since >= XaAfter
        /\ idle' = "AutoXa" /\ Spawn({"UserExtendedIdle"})
     \/ /\ idle = "Active" /\ since >= IdleAfter /\ since < XaAfter
        /\ idle' = "AutoAway" /\ Spawn({"UserIdle"})
  /\ UNCHANGED <<since, own, cmds, stream, machine, shown, histVars>>

Awakening == IF idle = "Active" THEN {} ELSE {"UserActive"}

\* A Message::Chat, whatever its content, or a palette command.  The clock of
\* the voice recorder is a Message::Chat, sent every second; the UI thread may
\* handle it late.
Interaction ==
  /\ MayAdd(1)
  /\ since' = 0 /\ idle' = "Active"
  /\ Spawn(Awakening)
  /\ UNCHANGED <<own, cmds, stream, machine, shown, histVars>>

\* The message that sets the status: one task each for waking and setting.
UserSets(s) ==
  /\ MayAdd(2)
  /\ since' = 0 /\ idle' = "Active" /\ own' = s
  /\ Spawn(Awakening \cup {s})
  /\ UNCHANGED <<cmds, stream, machine, shown, histVars>>

Logout ==
  /\ own # "Available" /\ own' = "Available"
  /\ UNCHANGED <<since, idle, tasks, cmds, stream, machine, shown, histVars>>

TaskSend(c) ==
  /\ tasks[c] > 0 /\ tasks' = [tasks EXCEPT ![c] = @ - 1]
  /\ cmds' = Append(cmds, c)
  /\ UNCHANGED <<uiVars, stream, machine, shown, histVars>>

-----------------------------------------------------------------------------
(* The engine *)

\* run_session_loop starts with a machine of its own.
StartSession ==
  /\ stream = "none" /\ stream' = "connecting"
  /\ machine' = NewMachine /\ chosen' = "Available"
  /\ UNCHANGED <<uiVars, tasks, cmds, shown, announced, lastAuto>>

\* Online: the first presence carries capabilities and no status.
GoOnline ==
  /\ stream = "connecting" /\ stream' = "online"
  /\ machine' = [machine EXCEPT !.online = TRUE]
  /\ shown' = "Available" /\ announced' = FALSE
  /\ UNCHANGED <<uiVars, tasks, cmds, chosen, lastAuto>>

GoOffline ==
  /\ stream \in {"connecting", "online"} /\ stream' = "down"
  /\ machine' = [machine EXCEPT !.online = FALSE]
  /\ shown' = "Offline"
  /\ lastAuto' = machine.auto
  /\ UNCHANGED <<uiVars, tasks, cmds, announced, chosen>>

EndSession ==
  /\ stream # "none" /\ stream' = "none"
  /\ shown' = "Offline"
  /\ UNCHANGED <<uiVars, tasks, cmds, machine, histVars>>

TakeCmd == cmds # <<>> /\ cmds' = Tail(cmds)

DiscardCmd ==
  /\ stream = "none" /\ TakeCmd
  /\ UNCHANGED <<uiVars, tasks, stream, machine, shown, histVars>>

\* What the machine now says is sent, unless it is offline.
Announce(m) ==
  IF Effective(m) = "Offline" THEN UNCHANGED <<shown, announced>>
  ELSE shown' = Effective(m) /\ announced' = TRUE

SetPresence ==
  /\ stream # "none" /\ TakeCmd /\ Head(cmds) \in OwnStatuses
  /\ machine' = SetUserStatus(machine, Head(cmds))
  /\ chosen' = Head(cmds)
  /\ Announce(machine')
  /\ UNCHANGED <<uiVars, tasks, stream, lastAuto>>

\* (mutant) A change away from extended away is not noticed.
ChangedButXa(m, n) == Effective(m) # Effective(n) /\ Effective(m) # "ExtendedAway"
Changed(m, n) == Effective(m) # Effective(n)

\* The machine reacts and the server is told if the status changed.
React(c, m) ==
  /\ stream # "none" /\ TakeCmd /\ Head(cmds) = c
  /\ machine' = m
  /\ IF Changed(machine, machine') THEN Announce(machine')
     ELSE UNCHANGED <<shown, announced>>
  /\ UNCHANGED <<uiVars, tasks, stream, chosen, lastAuto>>

UserIdle         == React("UserIdle", OnIdle(machine))
UserExtendedIdle == React("UserExtendedIdle", OnSleep(machine))
UserActive       == React("UserActive", OnActivity(machine))

-----------------------------------------------------------------------------
Ui == Tick \/ IdleTick \/ Interaction \/ Logout \/ \E s \in OwnStatuses : UserSets(s)
Engine ==
  \/ DiscardCmd \/ SetPresence \/ UserIdle \/ UserExtendedIdle \/ UserActive
Session == StartSession \/ GoOnline \/ GoOffline \/ EndSession

Next == Ui \/ Engine \/ Session \/ \E c \in Commands : TaskSend(c)

Spec == Init /\ [][Next]_vars

-----------------------------------------------------------------------------
(* Properties *)

\* The shape of the state.
TypeOK ==
  /\ since \in 0..XaAfter /\ idle \in AutoStates /\ own \in OwnStatuses
  /\ tasks \in [Commands -> Nat] /\ cmds \in Seq(Commands)
  /\ stream \in {"none", "connecting", "online", "down"}
  /\ machine \in [user : OwnStatuses, auto : AutoStates, pre : OwnStatuses,
                  online : BOOLEAN]
  /\ shown \in Statuses
  /\ announced \in BOOLEAN /\ chosen \in OwnStatuses /\ lastAuto \in AutoStates

\* "Explicit status set by the user (never auto-modified)": however deep the
\* automatic states went and in whatever order the commands came, the machine
\* holds the status the session was last told to set.
NeverAutoModified == stream # "none" => machine.user = chosen

\* Why: an automatic state is never entered over do-not-disturb, and what it
\* will restore is the explicit status.
AutoRestores ==
  stream # "none" /\ machine.auto # "Active" =>
    machine.pre = machine.user /\ machine.user # "DoNotDisturb"

\* Once the machine's status was sent, the server shows it until the stream
\* goes down: sending only changes loses none of them.
ShownIsEffective ==
  stream = "online" => machine.online /\ (announced => shown = Effective(machine))

Quiet == cmds = <<>> /\ \A c \in Commands : tasks[c] = 0

\* "on_connected does NOT reset auto_state - preserve across reconnect": a user
\* who was automatically away when the stream went down, and has not come back,
\* still is when the next one is up.
AutoPreserved ==
  [][GoOnline /\ lastAuto # "Active" /\ idle # "Active" /\ Quiet =>
       machine'.auto # "Active"]_vars
=============================================================================
