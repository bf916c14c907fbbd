-------------------------- MODULE ChatParts_proofs --------------------------
(***************************************************************************)
(* Proofs about ChatParts, for all values of its constants: for each       *)
(* component the invariant that is inductive, and then the properties of   *)
(* the composite specification that TLC checks.                            *)
(***************************************************************************)
EXTENDS ChatParts, Styling_proofs, SequenceTheorems, FiniteSetTheorems,
        WellFoundedInduction, TLAPS

-----------------------------------------------------------------------------
(* Presence: the machine keeps the explicit status, and what it sent is what the *)
(* server shows.                                                           *)

Machines == [user : OwnStatuses, auto : AutoStates, pre : OwnStatuses, online : BOOLEAN]

\* The part of the type invariant the argument rests on.
MachineOK == machine \in Machines

\* The inductive invariant: what is chosen is kept, because what an automatic
\* state will restore is the explicit status.
MachineInv == MachineOK /\ NeverAutoModified /\ AutoRestores /\ ShownIsEffective

(* The machine's operations *)

\* An operation that is not the user's choice keeps the user's status and what
\* will be restored, if the one is the other in the automatic states.
Restores(m) == m.auto # "Active" => m.pre = m.user /\ m.user # "DoNotDisturb"
Keeps(m, n) ==
  /\ n \in Machines
  /\ n.user = m.user /\ n.online = m.online
  /\ Restores(n)

\* on_idle_detected keeps the user's status and saves it to be restored.
LEMMA OnIdleKeeps ==
  ASSUME NEW m \in Machines, Restores(m)
  PROVE  Keeps(m, OnIdle(m))
BY DEF Restores, Keeps, OnIdle, Machines, AutoStates, OwnStatuses

\* on_sleep_detected does so from whatever depth it is reached.
LEMMA OnSleepKeeps ==
  ASSUME NEW m \in Machines, Restores(m)
  PROVE  Keeps(m, OnSleep(m))
BY DEF Restores, Keeps, OnSleep, Machines, AutoStates, OwnStatuses

\* on_activity_detected restores the status that never went away.
LEMMA OnActivityKeeps ==
  ASSUME NEW m \in Machines, Restores(m)
  PROVE  Keeps(m, OnActivity(m))
BY DEF Restores, Keeps, OnActivity, Machines, AutoStates, OwnStatuses

\* A machine that is online is not seen as offline.
LEMMA OnlineIsSeen ==
  ASSUME NEW m \in Machines, m.online
  PROVE  Effective(m) # "Offline"
BY DEF Effective, Machines, AutoStates, OwnStatuses

(* The steps *)

\* A step that leaves the machine and the stream alone changes nothing.
LEMMA Elsewhere ==
  ASSUME MachineInv, UNCHANGED <<stream, machine, shown, announced, chosen>>
  PROVE  MachineInv'
BY DEF MachineInv, MachineOK, NeverAutoModified, AutoRestores, ShownIsEffective

\* A reaction of the machine that keeps the user's status preserves the
\* invariant: the server is told of the change, if there is one.
LEMMA ReactKeeps ==
  ASSUME MachineInv, NEW c, NEW m, React(c, m), Keeps(machine, m)
  PROVE  MachineInv'
<1>1. machine' = m /\ stream' = stream /\ chosen' = chosen /\ stream # "none"
  BY DEF React
<1>2. MachineOK' /\ NeverAutoModified' /\ AutoRestores'
  BY <1>1 DEF MachineInv, MachineOK, NeverAutoModified, AutoRestores, Keeps, Restores
<1>3. ShownIsEffective'
  <2> SUFFICES ASSUME stream = "online"
               PROVE  m.online /\ (announced' => shown' = Effective(m))
    BY <1>1 DEF ShownIsEffective
  <2>1. m \in Machines /\ m.online
    BY DEF MachineInv, ShownIsEffective, Keeps
  <2>2. Effective(m) # "Offline"
    BY <2>1, OnlineIsSeen
  <2>3. CASE Changed(machine, m)
    <3>1. shown' = Effective(m)
      BY <1>1, <2>2, <2>3 DEF React, Announce
    <3> QED BY <2>1, <3>1
  <2>4. CASE ~Changed(machine, m)
    <3>1. shown' = shown /\ announced' = announced
      BY <1>1, <2>4 DEF React
    <3>2. Effective(m) = Effective(machine)
      BY <2>4 DEF Changed
    <3> QED BY <2>1, <3>1, <3>2 DEF MachineInv, ShownIsEffective
  <2> QED BY <2>3, <2>4
<1> QED BY <1>2, <1>3 DEF MachineInv

\* SetPresence ends the automatic state and is always sent.
LEMMA SetPresenceKeeps ==
  ASSUME MachineInv, SetPresence
  PROVE  MachineInv'
<1> DEFINE s == Head(cmds)
           m == SetUserStatus(machine, s)
<1>1. /\ s \in OwnStatuses /\ machine' = m /\ chosen' = s
      /\ stream' = stream /\ stream # "none"
  BY DEF SetPresence
<1>2. m \in Machines /\ m.user = s /\ m.auto = "Active"
      /\ m.online = machine.online
  BY <1>1 DEF MachineInv, MachineOK, Machines, SetUserStatus, AutoStates
<1>3. MachineOK' /\ NeverAutoModified' /\ AutoRestores'
  BY <1>1, <1>2 DEF MachineOK, NeverAutoModified, AutoRestores
<1>4. ShownIsEffective'
  <2> SUFFICES ASSUME stream = "online"
               PROVE  m.online /\ shown' = Effective(m)
    BY <1>1 DEF ShownIsEffective
  <2>1. m.online
    BY <1>2 DEF MachineInv, ShownIsEffective
  <2>2. Effective(m) # "Offline"
    BY <1>2, <2>1, OnlineIsSeen
  <2>3. shown' = Effective(m)
    BY <1>1, <2>2 DEF SetPresence, Announce
  <2> QED BY <2>1, <2>3
<1> QED BY <1>3, <1>4 DEF MachineInv

\* Sessions come and go.
LEMMA SessionKeeps ==
  ASSUME MachineInv, Session
  PROVE  MachineInv'
<1>1. CASE StartSession
  BY <1>1 DEF StartSession, NewMachine, MachineInv, MachineOK, Machines, AutoStates,
     OwnStatuses, NeverAutoModified, AutoRestores, ShownIsEffective
<1>2. CASE GoOnline
  <2>1. machine' \in Machines /\ machine'.online
        /\ machine'.user = machine.user /\ machine'.auto = machine.auto
        /\ machine'.pre = machine.pre
    BY <1>2 DEF GoOnline, MachineInv, MachineOK, Machines
  <2> QED BY <1>2, <2>1 DEF GoOnline, MachineInv, MachineOK, NeverAutoModified,
            AutoRestores, ShownIsEffective
<1>3. CASE GoOffline
  <2>1. machine' \in Machines
        /\ machine'.user = machine.user /\ machine'.auto = machine.auto
        /\ machine'.pre = machine.pre
    BY <1>3 DEF GoOffline, MachineInv, MachineOK, Machines
  <2> QED BY <1>3, <2>1 DEF GoOffline, MachineInv, MachineOK, NeverAutoModified,
            AutoRestores, ShownIsEffective
<1>4. CASE EndSession
  BY <1>4 DEF EndSession, histVars, MachineInv, MachineOK, NeverAutoModified,
     AutoRestores, ShownIsEffective
<1> QED BY <1>1, <1>2, <1>3, <1>4 DEF Session

\* Every step preserves the invariant.
LEMMA MachineKeeps ==
  ASSUME MachineInv, [Next]_(vars)
  PROVE  MachineInv'
<1>0. machine \in Machines /\ (stream # "none" => Restores(machine))
  BY DEF MachineInv, MachineOK, AutoRestores, Restores
<1>1. CASE Ui
  BY <1>1, Elsewhere DEF Ui, Tick, IdleTick, Interaction, Logout, UserSets, histVars
<1>2. CASE \E c \in Commands : TaskSend(c)
  BY <1>2, Elsewhere DEF TaskSend, histVars
<1>3. CASE Session
  BY <1>3, SessionKeeps
<1>4. CASE DiscardCmd
  BY <1>4, Elsewhere DEF DiscardCmd, histVars
<1>5. CASE SetPresence
  BY <1>5, SetPresenceKeeps
<1>6. CASE UserIdle
  <2>1. React("UserIdle", OnIdle(machine))
    BY <1>6 DEF UserIdle
  <2>2. Keeps(machine, OnIdle(machine))
    BY <1>0, <2>1, OnIdleKeeps DEF React
  <2> QED BY <2>1, <2>2, ReactKeeps
<1>7. CASE UserExtendedIdle
  <2>1. React("UserExtendedIdle", OnSleep(machine))
    BY <1>7 DEF UserExtendedIdle
  <2>2. Keeps(machine, OnSleep(machine))
    BY <1>0, <2>1, OnSleepKeeps DEF React
  <2> QED BY <2>1, <2>2, ReactKeeps
<1>8. CASE UserActive
  <2>1. React("UserActive", OnActivity(machine))
    BY <1>8 DEF UserActive
  <2>2. Keeps(machine, OnActivity(machine))
    BY <1>0, <2>1, OnActivityKeeps DEF React
  <2> QED BY <2>1, <2>2, ReactKeeps
<1>9. CASE UNCHANGED vars
  BY <1>9, Elsewhere DEF vars, histVars
<1> QED
  BY <1>1, <1>2, <1>3, <1>4, <1>5, <1>6, <1>7, <1>8, <1>9 DEF Next, Engine

(* The rest of the types.                                                    *)

RestTyped ==
  /\ since \in 0..XaAfter /\ idle \in AutoStates /\ own \in OwnStatuses
  /\ tasks \in [Commands -> Nat] /\ cmds \in Seq(Commands)
  /\ stream \in {"none", "connecting", "online", "down"}
  /\ shown \in Statuses /\ announced \in BOOLEAN /\ chosen \in OwnStatuses /\ lastAuto \in AutoStates

PresenceInv == MachineInv /\ RestTyped

LEMMA EffectiveIsStatus == ASSUME NEW m \in Machines PROVE Effective(m) \in Statuses
BY DEF Effective, Machines, Statuses, OwnStatuses, AutoStates

LEMMA SpawnTyped ==
  ASSUME tasks \in [Commands -> Nat], NEW cs, Spawn(cs) PROVE tasks' \in [Commands -> Nat]
BY DEF Spawn

LEMMA UiTyped == ASSUME PresenceInv, Ui PROVE RestTyped'
<1>0. /\ since \in 0..XaAfter /\ idle \in AutoStates /\ own \in OwnStatuses
      /\ tasks \in [Commands -> Nat] /\ cmds \in Seq(Commands)
      /\ stream \in {"none", "connecting", "online", "down"}
      /\ shown \in Statuses /\ announced \in BOOLEAN /\ chosen \in OwnStatuses /\ lastAuto \in AutoStates
  BY Zenon DEF PresenceInv, RestTyped
<1>1. UNCHANGED <<cmds, stream, shown, announced, chosen, lastAuto>>
  BY Zenon DEF Ui, Tick, IdleTick, Interaction, Logout, UserSets, histVars
<1>2. /\ idle' \in {idle, "AutoXa", "AutoAway", "Active"}
      /\ own' = own \/ own' \in OwnStatuses \/ own' = "Available"
      /\ tasks' = tasks \/ \E cs : Spawn(cs)
      /\ since' = since \/ since' = 0 \/ (since < XaAfter /\ since' = since + 1)
  BY Zenon DEF Ui, Tick, IdleTick, Interaction, Logout, UserSets
<1>3. idle' \in AutoStates /\ own' \in OwnStatuses
  BY <1>0, <1>2, Zenon DEF AutoStates, OwnStatuses
<1>4. tasks' \in [Commands -> Nat]
  BY <1>0, <1>2, SpawnTyped
<1>5. since' \in 0..XaAfter
  BY <1>0, <1>2, PresenceAssumption
<1> QED
  BY <1>0, <1>1, <1>3, <1>4, <1>5, Zenon DEF RestTyped

LEMMA EngineTyped == ASSUME PresenceInv, Engine, MachineOK' PROVE RestTyped'
<1>0. /\ since \in 0..XaAfter /\ idle \in AutoStates /\ own \in OwnStatuses
      /\ tasks \in [Commands -> Nat] /\ cmds \in Seq(Commands)
      /\ stream \in {"none", "connecting", "online", "down"}
      /\ shown \in Statuses /\ announced \in BOOLEAN /\ chosen \in OwnStatuses /\ lastAuto \in AutoStates
  BY Zenon DEF PresenceInv, RestTyped
<1>1. UNCHANGED <<since, idle, own, tasks, stream, lastAuto>> /\ TakeCmd
  BY Zenon DEF Engine, DiscardCmd, SetPresence, UserIdle, UserExtendedIdle, UserActive, React,
     uiVars,
     histVars
<1>2. cmds' \in Seq(Commands)
  BY <1>0, <1>1, HeadTailProperties DEF TakeCmd
<1>3. /\ chosen' = chosen \/ chosen' \in OwnStatuses
      /\ UNCHANGED <<shown, announced>> \/ Announce(machine')
  BY Zenon DEF Engine, DiscardCmd, SetPresence, UserIdle, UserExtendedIdle, UserActive, React,
     histVars
<1>4. Effective(machine') \in Statuses
  BY EffectiveIsStatus DEF MachineOK
<1>5. shown' \in Statuses /\ announced' \in BOOLEAN /\ chosen' \in OwnStatuses
  BY <1>0, <1>3, <1>4, Zenon DEF Announce
<1> QED
  BY <1>0, <1>1, <1>2, <1>5, Zenon DEF RestTyped

LEMMA SessionTyped == ASSUME PresenceInv, Session PROVE RestTyped'
<1>0. /\ since \in 0..XaAfter /\ idle \in AutoStates /\ own \in OwnStatuses
      /\ tasks \in [Commands -> Nat] /\ cmds \in Seq(Commands)
      /\ stream \in {"none", "connecting", "online", "down"}
      /\ shown \in Statuses /\ announced \in BOOLEAN /\ chosen \in OwnStatuses /\ lastAuto \in AutoStates
  BY Zenon DEF PresenceInv, RestTyped
<1>1. UNCHANGED <<since, idle, own, tasks, cmds>>
  BY Zenon DEF Session, StartSession, GoOnline, GoOffline, EndSession, uiVars
<1>2. /\ stream' \in {"none", "connecting", "online", "down"}
      /\ shown' \in {shown, "Available", "Offline"} /\ announced' \in {announced, FALSE}
      /\ chosen' \in {chosen, "Available"} /\ lastAuto' \in {lastAuto, machine.auto}
  BY Zenon DEF Session, StartSession, GoOnline, GoOffline, EndSession, histVars
<1>3. machine.auto \in AutoStates
  BY DEF PresenceInv, MachineInv, MachineOK, Machines
<1>4. shown' \in Statuses /\ chosen' \in OwnStatuses
  BY <1>0, <1>2, Zenon DEF Statuses, OwnStatuses
<1>5. announced' \in BOOLEAN /\ lastAuto' \in AutoStates
  BY <1>0, <1>2, <1>3, Zenon
<1> QED
  BY <1>0, <1>1, <1>2, <1>4, <1>5, Zenon DEF RestTyped

LEMMA TaskTyped == ASSUME PresenceInv, NEW c \in Commands, TaskSend(c) PROVE RestTyped'
<1>0. tasks \in [Commands -> Nat] /\ cmds \in Seq(Commands)
  BY Zenon DEF PresenceInv, RestTyped
<1>1. UNCHANGED <<since, idle, own, stream, shown, announced, chosen, lastAuto>>
  BY Zenon DEF TaskSend, uiVars, histVars
<1>2. tasks[c] \in Nat /\ tasks[c] > 0 /\ tasks' = [tasks EXCEPT ![c] = tasks[c] - 1]
      /\ cmds' = Append(cmds, c)
  BY <1>0 DEF TaskSend
<1>3. tasks' \in [Commands -> Nat] /\ cmds' \in Seq(Commands)
  BY <1>0, <1>2, AppendProperties
<1> QED
  BY <1>1, <1>3, Zenon DEF PresenceInv, RestTyped

LEMMA PresenceInit == ASSUME Init PROVE PresenceInv
<1>1. MachineInv
  BY DEF Init, NewMachine, MachineInv, MachineOK, Machines, AutoStates, OwnStatuses,
     NeverAutoModified, AutoRestores, ShownIsEffective
<1>2. /\ idle \in AutoStates /\ own \in OwnStatuses
      /\ stream \in {"none", "connecting", "online", "down"}
      /\ shown \in Statuses /\ announced \in BOOLEAN /\ chosen \in OwnStatuses /\ lastAuto \in AutoStates
  BY Zenon DEF Init, AutoStates, OwnStatuses, Statuses
<1>3. since \in 0..XaAfter /\ tasks \in [Commands -> Nat] /\ cmds \in Seq(Commands)
  BY PresenceAssumption DEF Init
<1> QED
  BY <1>1, <1>2, <1>3, Zenon DEF PresenceInv, RestTyped

LEMMA PresenceStep == ASSUME PresenceInv, Next PROVE PresenceInv'
<1>1. MachineInv'
  BY MachineKeeps DEF PresenceInv
<1>2. RestTyped'
  BY <1>1, UiTyped, EngineTyped, SessionTyped, TaskTyped DEF Next, MachineInv
<1> QED
  BY <1>1, <1>2 DEF PresenceInv

LEMMA PresenceStutter == ASSUME PresenceInv, UNCHANGED vars PROVE PresenceInv'
<1>1. MachineInv'
  BY MachineKeeps DEF PresenceInv
<1>2. RestTyped'
  BY Zenon DEF PresenceInv, RestTyped, vars, uiVars, histVars
<1> QED
  BY <1>1, <1>2 DEF PresenceInv

LEMMA PresenceHeld == PresenceInv => TypeOK /\ NeverAutoModified /\ AutoRestores /\ ShownIsEffective
  BY Zenon DEF PresenceInv, MachineInv, MachineOK, Machines, RestTyped, TypeOK

-----------------------------------------------------------------------------
(* History: what the view shows is stored, on its way there, or was taken by *)
(* clearing; loads and inserts fit the conversation they are of.           *)

\* Stored, on its way there, or taken by clearing the history.
Safe(m) == m \in rows \/ <<"upsert", m>> \in jobs \/ <<"insert", m>> \in jobs \/ m \in wiped

HistoryTyped ==
  /\ HI!TypeOK /\ rows \subseteq Msgs /\ convs \subseteq Convs
  /\ fresh \in [Convs -> SUBSET Msgs]

LoadsFit ==
  \A c, ids, gone : <<"loaded", c, ids, gone>> \in jobs =>
    gone \subseteq ids /\ \A m \in ids : m \in HI!Of(c) /\ Safe(m)

InsertsFit == \A m \in Msgs : <<"insert", m>> \in jobs => ConvOf[m] \in convs \/ m \in wiped

HistoryInv ==
  /\ HistoryTyped /\ LoadsFit /\ InsertsFit
  /\ \A m \in view : Safe(m)
  /\ HI!BadgeMeansNew

LEMMA JobsHave ==
  /\ \A m \in Msgs : <<"upsert", m>> \in HI!Jobs /\ <<"insert", m>> \in HI!Jobs /\ <<"retract", m>> \in HI!Jobs
  /\ \A c \in Convs : <<"load", c>> \in HI!Jobs /\ <<"archive", c>> \in HI!Jobs
  /\ <<"prefill">> \in HI!Jobs /\ <<"clear messages">> \in HI!Jobs /\ <<"clear conversations">> \in HI!Jobs
  /\ \A c \in Convs, ids \in SUBSET Msgs, gone \in SUBSET Msgs : <<"loaded", c, ids, gone>> \in HI!Jobs
  /\ \A all \in SUBSET Convs, hid \in SUBSET Convs : <<"prefilled", all, hid>> \in HI!Jobs
  BY DEF HI!Jobs

LEMMA LoadedJob ==
  ASSUME NEW c, NEW ids, NEW gone, <<"loaded", c, ids, gone>> \in HI!Jobs
  PROVE  c \in Convs /\ ids \subseteq Msgs /\ gone \subseteq Msgs
  BY DEF HI!Jobs

LEMMA PrefilledJob ==
  ASSUME NEW all, NEW hid, <<"prefilled", all, hid>> \in HI!Jobs
  PROVE  all \subseteq Convs /\ hid \subseteq Convs
  BY DEF HI!Jobs

LEMMA HistoryInit == ASSUME HI!Init PROVE HistoryInv
<1>1. HistoryTyped
  BY DEF HI!Init, HistoryTyped, HI!TypeOK
<1>2. LoadsFit /\ InsertsFit /\ (\A m \in view : Safe(m)) /\ HI!BadgeMeansNew
  BY DEF HI!Init, LoadsFit, InsertsFit, HI!BadgeMeansNew
<1> QED
  BY <1>1, <1>2 DEF HistoryInv

LEMMA SafeStays ==
  ASSUME HistoryInv, HI!Next, ~HI!Quit, NEW m \in Msgs, Safe(m)
  PROVE  Safe(m)'
<1>1. CASE jobs \subseteq jobs' /\ rows \subseteq rows' /\ wiped \subseteq wiped'
  BY <1>1 DEF Safe
<1>2. CASE HI!Connected \/ HI!Disconnected \/ HI!Cover \/ HI!GoBack \/ HI!ClearHistory
            \/ \E x \in Msgs : HI!MessageReceived(x) \/ HI!MessageModerated(x)
            \/ \E c \in Convs : HI!Select(c) \/ HI!RoomConfigured(c) \/ HI!Close(c)
                              \/ HI!ArchiveConversation(c)
  <2>1. jobs \subseteq jobs' /\ UNCHANGED <<rows, wiped>>
    BY <1>2, Zenon DEF HI!Connected, HI!Disconnected, HI!Cover, HI!GoBack, HI!ClearHistory,
       HI!MessageReceived,
       HI!MessageModerated, HI!Select, HI!SelectContact, HI!RoomConfigured, HI!Close,
       HI!ArchiveConversation, HI!db
  <2> QED
    BY <1>1, <2>1
<1>3. CASE HI!GetAll \/ \E c \in Convs : HI!SetArchived(c) \/ HI!FindBefore(c)
  <2>1. PICK j \in {<<"prefill">>} \cup ({"archive", "load"} \X Convs) : jobs \ {j} \subseteq jobs'
    BY <1>3 DEF HI!GetAll, HI!SetArchived, HI!FindBefore, HI!Done
  <2>2. UNCHANGED <<rows, wiped>>
    BY <1>3, Zenon DEF HI!GetAll, HI!SetArchived, HI!FindBefore, HI!db
  <2> QED
    BY <2>1, <2>2 DEF Safe
<1>4. CASE \E x \in Msgs : HI!MarkRetracted(x)
  BY <1>4 DEF HI!MarkRetracted, HI!Done, Safe
<1>5. CASE \E x \in Msgs : HI!Upsert(x)
  BY <1>5 DEF HI!Upsert, HI!Done, Safe
<1>6. CASE \E x \in Msgs : HI!Insert(x)
  <2>1. PICK x \in Msgs : HI!Insert(x)
    BY <1>6
  <2>2. UNCHANGED <<wiped, convs>> /\ jobs' = jobs \ {<<"insert", x>>} /\ <<"insert", x>> \in jobs
        /\ rows' = IF ConvOf[x] \in convs THEN rows \cup {x} ELSE rows
    BY <2>1 DEF HI!Insert, HI!Done
  <2>3. ConvOf[x] \in convs \/ x \in wiped
    BY <2>2 DEF HistoryInv, InsertsFit
  <2> QED
    BY <2>2, <2>3 DEF Safe
<1>7. CASE HI!ClearMessages \/ HI!ClearConversations
  <2>1. wiped \cup HI!Storing \subseteq wiped'
    BY <1>7, Zenon DEF HI!ClearMessages, HI!ClearConversations
  <2>2. rows \subseteq wiped' \/ rows' = rows
    BY <1>7, Zenon DEF HI!ClearMessages, HI!ClearConversations
  <2> QED
    BY <2>1, <2>2 DEF Safe, HI!Storing
<1>8. ASSUME NEW j \in jobs, j[1] = "loaded" /\ HI!MessagesLoaded(j[2], j[3], j[4])
      PROVE  Safe(m)'
  BY <1>8 DEF HI!MessagesLoaded, HI!db, Safe
<1>9. ASSUME NEW j \in jobs, j[1] = "prefilled" /\ HI!ConversationsPrefill(j[2], j[3])
      PROVE  Safe(m)'
  <2>1. jobs \ {<<"prefilled", j[2], j[3]>>} \subseteq jobs' /\ UNCHANGED <<rows, wiped>>
    BY <1>9, Zenon DEF HI!ConversationsPrefill, HI!db
  <2> QED
    BY <2>1 DEF Safe
<1> QED
  BY <1>2, <1>3, <1>4, <1>5, <1>6, <1>7, <1>8, <1>9 DEF HI!Next

LEMMA NewJobs ==
  ASSUME HistoryInv, HI!Next, NEW j \in jobs', j \notin jobs
  PROVE  \/ j = <<"prefill">> \/ j = <<"clear messages">> \/ j = <<"clear conversations">>
         \/ \E m \in Msgs : \/ j = <<"upsert", m>> \/ j = <<"retract", m>>
                            \/ j = <<"insert", m>> /\ HI!Upsert(m)
         \/ \E c \in Convs : \/ j = <<"load", c>> \/ j = <<"archive", c>>
                             \/ j = <<"loaded", c, rows \cap HI!Of(c), struck \cap HI!Of(c)>> /\ HI!FindBefore(c)
         \/ j = <<"prefilled", convs, stowed>>
<1>1. CASE HI!Connected \/ HI!ClearHistory \/ HI!GetAll \/ HI!ClearMessages
  <2>1. j \in {<<"prefill">>} \/ j \in {<<"clear messages">>} \/ j \in {<<"prefilled", convs, stowed>>}
        \/ j \in {<<"clear conversations">>}
    BY <1>1, Zenon DEF HI!Connected, HI!ClearHistory, HI!GetAll, HI!ClearMessages, HI!Done
  <2> QED
    BY <2>1, Zenon
<1>2. CASE HI!Disconnected \/ HI!Cover \/ HI!GoBack \/ HI!ClearConversations \/ HI!Quit
  BY <1>2, Zenon DEF HI!Disconnected, HI!Cover, HI!GoBack, HI!ClearConversations, HI!Quit, HI!Done
<1>3. ASSUME NEW m \in Msgs, HI!MessageReceived(m) \/ HI!MessageModerated(m)
      PROVE  j = <<"upsert", m>> \/ j = <<"retract", m>>
  BY <1>3, Zenon DEF HI!MessageReceived, HI!MessageModerated, HI!Store
<1>4. ASSUME NEW m \in Msgs, HI!Upsert(m) PROVE j = <<"insert", m>> /\ HI!Upsert(m)
  BY <1>4, Zenon DEF HI!Upsert, HI!Done
<1>5. ASSUME NEW m \in Msgs, HI!Insert(m) \/ HI!MarkRetracted(m) PROVE FALSE
  BY <1>5, Zenon DEF HI!Insert, HI!MarkRetracted, HI!Done
<1>6. ASSUME NEW c \in Convs, \/ HI!Select(c) \/ HI!RoomConfigured(c) \/ HI!Close(c)
                              \/ HI!ArchiveConversation(c) \/ HI!SetArchived(c)
      PROVE  j = <<"load", c>> \/ j = <<"archive", c>>
  BY <1>6, Zenon DEF HI!Select, HI!SelectContact, HI!RoomConfigured, HI!Close,
     HI!ArchiveConversation, HI!SetArchived, HI!Done
<1>7. ASSUME NEW c \in Convs, HI!FindBefore(c)
      PROVE  j = <<"loaded", c, rows \cap HI!Of(c), struck \cap HI!Of(c)>> /\ HI!FindBefore(c)
  BY <1>7, Zenon DEF HI!FindBefore, HI!Done
<1>8. ASSUME NEW k \in jobs, HI!MessagesLoaded(k[2], k[3], k[4]) PROVE FALSE
  BY <1>8, Zenon DEF HI!MessagesLoaded
<1>9. ASSUME NEW k \in jobs, HI!ConversationsPrefill(k[2], k[3])
      PROVE  \E c \in Convs : j = <<"load", c>>
  <2>1. <<"prefilled", k[2], k[3]>> \in jobs
    BY <1>9, Zenon DEF HI!ConversationsPrefill
  <2>2. <<"prefilled", k[2], k[3]>> \in HI!Jobs
    BY <2>1, Zenon DEF HistoryInv, HistoryTyped, HI!TypeOK
  <2>3. k[2] \subseteq Convs
    BY <2>2, PrefilledJob, Zenon
  <2> QED
    BY <1>9, <2>3, Zenon DEF HI!ConversationsPrefill
<1> QED
  BY <1>1, <1>2, <1>3, <1>4, <1>5, <1>6, <1>7, <1>8, <1>9, Zenon DEF HI!Next

LEMMA JobsTyped == ASSUME HistoryInv, HI!Next PROVE jobs' \subseteq HI!Jobs
<1>1. jobs \subseteq HI!Jobs /\ rows \subseteq Msgs /\ struck \subseteq rows /\ convs \subseteq Convs /\ stowed \subseteq convs
  BY DEF HistoryInv, HistoryTyped, HI!TypeOK
<1>2. \A c \in Convs : rows \cap HI!Of(c) \in SUBSET Msgs /\ struck \cap HI!Of(c) \in SUBSET Msgs
  BY <1>1
<1>3. convs \in SUBSET Convs /\ stowed \in SUBSET Convs
  BY <1>1
<1>4. ASSUME NEW j \in jobs', j \notin jobs PROVE j \in HI!Jobs
  <2>1. \/ j = <<"prefill">> \/ j = <<"clear messages">> \/ j = <<"clear conversations">>
        \/ \E m \in Msgs : j = <<"upsert", m>> \/ j = <<"retract", m>> \/ j = <<"insert", m>>
        \/ \E c \in Convs : j = <<"load", c>> \/ j = <<"archive", c>>
        \/ \E c \in Convs : j = <<"loaded", c, rows \cap HI!Of(c), struck \cap HI!Of(c)>>
        \/ j = <<"prefilled", convs, stowed>>
    BY <1>4, NewJobs, Zenon
  <2>2. ASSUME NEW c \in Convs, j = <<"loaded", c, rows \cap HI!Of(c), struck \cap HI!Of(c)>> PROVE j \in HI!Jobs
    BY <1>2, <2>2, JobsHave, Zenon
  <2>3. <<"prefilled", convs, stowed>> \in HI!Jobs
    BY <1>3, JobsHave, Zenon
  <2> QED
    BY <2>1, <2>2, <2>3, JobsHave, Zenon
<1> QED
  BY <1>1, <1>4

LEMMA LoadsStep == ASSUME HistoryInv, HI!Next PROVE LoadsFit'
<1>1. SUFFICES ASSUME NEW c, NEW ids, NEW gone, <<"loaded", c, ids, gone>> \in jobs'
               PROVE  gone \subseteq ids /\ \A m \in ids : m \in HI!Of(c) /\ Safe(m)'
  BY DEF LoadsFit, HI!Of
<1>2. CASE <<"loaded", c, ids, gone>> \in jobs
  <2>1. ~HI!Quit
    BY <1>1, Zenon DEF HI!Quit
  <2>2. gone \subseteq ids /\ \A m \in ids : m \in HI!Of(c) /\ Safe(m)
    BY <1>2 DEF HistoryInv, LoadsFit
  <2>3. \A m \in ids : m \in Msgs
    BY <2>2 DEF HI!Of
  <2> QED
    BY <2>1, <2>2, <2>3, SafeStays
<1>3. CASE <<"loaded", c, ids, gone>> \notin jobs
  <2>1. \E k \in Convs : HI!FindBefore(k) /\ c = k /\ ids = rows \cap HI!Of(k) /\ gone = struck \cap HI!Of(k)
    BY <1>1, <1>3, NewJobs
  <2>2. struck \subseteq rows /\ rows \subseteq Msgs
    BY DEF HistoryInv, HistoryTyped, HI!TypeOK
  <2>3. rows' = rows
    BY <2>1, Zenon DEF HI!FindBefore, HI!db
  <2> QED
    BY <2>1, <2>2, <2>3 DEF Safe
<1> QED
  BY <1>2, <1>3

LEMMA InsertsStep == ASSUME HistoryInv, HI!Next PROVE InsertsFit'
<1>1. SUFFICES ASSUME NEW m \in Msgs, <<"insert", m>> \in jobs'
               PROVE  ConvOf[m] \in convs' \/ m \in wiped'
  BY DEF InsertsFit
<1>2. CASE HI!Upsert(m)
  BY <1>2 DEF HI!Upsert
<1>3. CASE <<"insert", m>> \in jobs
  <2>1. ConvOf[m] \in convs \/ m \in wiped
    BY <1>3 DEF HistoryInv, InsertsFit
  <2>2. CASE HI!ClearConversations
    BY <1>3, <2>2 DEF HI!ClearConversations, HI!Storing
  <2>3. CASE ~HI!ClearConversations
    <3>1. convs \subseteq convs' /\ wiped \subseteq wiped'
      <4>1. CASE \/ HI!Connected \/ HI!Disconnected \/ HI!Cover \/ HI!GoBack \/ HI!ClearHistory \/ HI!GetAll \/ HI!Quit
        BY <4>1, Zenon DEF HI!Connected, HI!Disconnected, HI!Cover, HI!GoBack, HI!ClearHistory,
           HI!GetAll, HI!Quit, HI!db
      <4>2. CASE HI!ClearMessages
        BY <4>2, Zenon DEF HI!ClearMessages
      <4>3. CASE \E x \in Msgs : \/ HI!MessageReceived(x) \/ HI!MessageModerated(x) \/ HI!Upsert(x)
                                 \/ HI!Insert(x) \/ HI!MarkRetracted(x)
        BY <4>3, Zenon DEF HI!MessageReceived, HI!MessageModerated, HI!Upsert, HI!Insert,
           HI!MarkRetracted, HI!db
      <4>4. CASE \E k \in Convs : \/ HI!Select(k) \/ HI!RoomConfigured(k) \/ HI!Close(k)
                                  \/ HI!ArchiveConversation(k)
                                  \/ HI!SetArchived(k) \/ HI!FindBefore(k)
        BY <4>4, Zenon DEF HI!Select, HI!RoomConfigured, HI!Close, HI!ArchiveConversation, HI!SetArchived,
           HI!FindBefore, HI!db
      <4>5. CASE \E j \in jobs : \/ j[1] = "loaded" /\ HI!MessagesLoaded(j[2], j[3], j[4])
                                 \/ j[1] = "prefilled" /\ HI!ConversationsPrefill(j[2], j[3])
        BY <4>5, Zenon DEF HI!MessagesLoaded, HI!ConversationsPrefill, HI!db
      <4> QED
        BY <2>3, <4>1, <4>2, <4>3, <4>4, <4>5 DEF HI!Next
    <3> QED
      BY <2>1, <3>1
  <2> QED
    BY <2>2, <2>3
<1>4. <<"insert", m>> \in jobs \/ HI!Upsert(m)
  BY <1>1, NewJobs
<1> QED
  BY <1>2, <1>3, <1>4

LEMMA ScreenTyped ==
  ASSUME HistoryInv, HI!Next
  PROVE  /\ page' \in {"Login", "Chat", "Over"} /\ historyOpened' \subseteq Convs
         /\ view' \subseteq Msgs /\ tombs' \subseteq view' /\ \A m \in view' : ConvOf[m] \in historyOpened'
         /\ current' \in historyOpened' \cup {Nobody} /\ archived' \subseteq Convs
<1>0. /\ page \in {"Login", "Chat", "Over"} /\ historyOpened \subseteq Convs
      /\ view \subseteq Msgs /\ tombs \subseteq view /\ (\A m \in view : ConvOf[m] \in historyOpened)
      /\ current \in historyOpened \cup {Nobody} /\ archived \subseteq Convs /\ jobs \subseteq HI!Jobs
  BY DEF HistoryInv, HistoryTyped, HI!TypeOK
<1> USE HistoryAssumption
<1>1. CASE HI!Connected \/ HI!Disconnected \/ HI!Quit
  <2>1. historyOpened' = {} /\ view' = {} /\ tombs' = {} /\ current' = Nobody /\ archived' = {}
        /\ (page' = "Chat" \/ page' = "Login")
    BY <1>1, Zenon DEF HI!Connected, HI!Disconnected, HI!Quit
  <2> QED
    BY <2>1
<1>2. CASE HI!Cover \/ HI!GoBack
  <2>1. UNCHANGED <<historyOpened, view, tombs, current, archived>> /\ (page' = "Chat" \/ page' = "Over")
    BY <1>2, Zenon DEF HI!Cover, HI!GoBack
  <2> QED
    BY <1>0, <2>1
<1>3. CASE \/ HI!ClearHistory \/ HI!GetAll \/ HI!ClearMessages \/ HI!ClearConversations
           \/ \E m \in Msgs : HI!Upsert(m) \/ HI!Insert(m) \/ HI!MarkRetracted(m)
           \/ \E c \in Convs : HI!SetArchived(c) \/ HI!FindBefore(c)
  <2>1. UNCHANGED <<page, historyOpened, view, tombs, current, archived>>
    BY <1>3, Zenon DEF HI!ClearHistory, HI!GetAll, HI!ClearMessages, HI!ClearConversations,
       HI!Upsert, HI!Insert,
       HI!MarkRetracted, HI!SetArchived, HI!FindBefore, HI!screen
  <2> QED
    BY <1>0, <2>1
<1>4. ASSUME NEW m \in Msgs, HI!MessageReceived(m) \/ HI!MessageModerated(m)
      PROVE  /\ UNCHANGED <<page, current, archived>>
             /\ historyOpened' \subseteq Convs /\ historyOpened \subseteq historyOpened'
             /\ view' \subseteq Msgs /\ tombs' \subseteq view'
             /\ \A x \in view' : ConvOf[x] \in historyOpened'
  BY <1>0, <1>4 DEF HI!MessageReceived, HI!MessageModerated
<1>5. ASSUME NEW c \in Convs, HI!Select(c) \/ HI!RoomConfigured(c)
      PROVE  UNCHANGED <<page, view, tombs, archived>> /\ historyOpened' = historyOpened \cup {c} /\ current' = c
  BY <1>5, Zenon DEF HI!Select, HI!SelectContact, HI!RoomConfigured
<1>6. ASSUME NEW c \in Convs, HI!Close(c) \/ HI!ArchiveConversation(c)
      PROVE  page' = page /\ HI!Forget(c) /\ archived' \subseteq archived \cup {c}
  BY <1>6, Zenon DEF HI!Close, HI!ArchiveConversation
<1>7. ASSUME NEW c \in Convs, HI!Forget(c)
      PROVE  /\ historyOpened' \subseteq Convs /\ view' \subseteq Msgs /\ tombs' \subseteq view'
             /\ (\A m \in view' : ConvOf[m] \in historyOpened') /\ current' \in historyOpened' \cup {Nobody}
  BY <1>0, <1>7 DEF HI!Forget, HI!Of
<1>8. ASSUME NEW j \in jobs, HI!MessagesLoaded(j[2], j[3], j[4])
      PROVE  /\ UNCHANGED <<page, historyOpened, current, archived>>
             /\ view' \subseteq Msgs /\ tombs' \subseteq view'
             /\ \A m \in view' : ConvOf[m] \in historyOpened'
  <2>1. <<"loaded", j[2], j[3], j[4]>> \in jobs
    BY <1>8, Zenon DEF HI!MessagesLoaded
  <2>2. j[4] \subseteq j[3] /\ \A m \in j[3] : m \in Msgs /\ ConvOf[m] = j[2]
    BY <2>1 DEF HistoryInv, LoadsFit, HI!Of
  <2>3. \/ UNCHANGED <<view, tombs>>
        \/ /\ j[2] \in historyOpened /\ view' = (view \ HI!Of(j[2])) \cup j[3]
           /\ tombs' = (tombs \ HI!Of(j[2])) \cup j[4]
    BY <1>8, Zenon DEF HI!MessagesLoaded
  <2>4. UNCHANGED <<page, historyOpened, current, archived>>
    BY <1>8, Zenon DEF HI!MessagesLoaded
  <2> QED
    BY <1>0, <2>2, <2>3, <2>4
<1>9. ASSUME NEW j \in jobs, HI!ConversationsPrefill(j[2], j[3])
      PROVE  /\ UNCHANGED <<page, view, tombs>> /\ historyOpened \subseteq historyOpened' /\ historyOpened' \subseteq Convs
             /\ current' \in historyOpened' \cup {Nobody} /\ archived' \subseteq Convs
  <2>1. <<"prefilled", j[2], j[3]>> \in HI!Jobs
    BY <1>0, <1>9, Zenon DEF HI!ConversationsPrefill
  <2>2. j[2] \subseteq Convs /\ j[3] \subseteq Convs
    BY <2>1, PrefilledJob
  <2>3. UNCHANGED <<page, view, tombs>> /\ (archived' = archived \/ archived' = archived \cup j[3])
        /\ (historyOpened' = historyOpened \/ historyOpened' = historyOpened \cup j[2])
        /\ (current' = current \/ (current' \in j[2] /\ historyOpened' = historyOpened \cup j[2]))
    BY <1>9, Zenon DEF HI!ConversationsPrefill
  <2> QED
    BY <1>0, <2>2, <2>3
<1>10. ASSUME NEW m \in Msgs, HI!MessageReceived(m) \/ HI!MessageModerated(m)
       PROVE  /\ page' \in {"Login", "Chat", "Over"} /\ historyOpened' \subseteq Convs
              /\ view' \subseteq Msgs /\ tombs' \subseteq view' /\ \A x \in view' : ConvOf[x] \in historyOpened'
              /\ current' \in historyOpened' \cup {Nobody} /\ archived' \subseteq Convs
  BY <1>0, <1>4, <1>10
<1>11. ASSUME NEW c \in Convs, \/ HI!Select(c) \/ HI!RoomConfigured(c) \/ HI!Close(c)
                               \/ HI!ArchiveConversation(c)
       PROVE  /\ page' \in {"Login", "Chat", "Over"} /\ historyOpened' \subseteq Convs
              /\ view' \subseteq Msgs /\ tombs' \subseteq view' /\ \A x \in view' : ConvOf[x] \in historyOpened'
              /\ current' \in historyOpened' \cup {Nobody} /\ archived' \subseteq Convs
  BY <1>0, <1>5, <1>6, <1>7, <1>11
<1>12. ASSUME NEW j \in jobs, \/ j[1] = "loaded" /\ HI!MessagesLoaded(j[2], j[3], j[4])
                              \/ j[1] = "prefilled" /\ HI!ConversationsPrefill(j[2], j[3])
       PROVE  /\ page' \in {"Login", "Chat", "Over"} /\ historyOpened' \subseteq Convs
              /\ view' \subseteq Msgs /\ tombs' \subseteq view' /\ \A x \in view' : ConvOf[x] \in historyOpened'
              /\ current' \in historyOpened' \cup {Nobody} /\ archived' \subseteq Convs
  BY <1>0, <1>8, <1>9, <1>12
<1> QED
  BY <1>1, <1>2, <1>3, <1>10, <1>11, <1>12 DEF HI!Next

LEMMA RowsTyped ==
  ASSUME HistoryInv, HI!Next
  PROVE  /\ struck' \subseteq rows' /\ stowed' \subseteq convs'
         /\ (\A m \in rows' : ConvOf[m] \in convs') /\ rows' \subseteq Msgs /\ convs' \subseteq Convs
<1>0. /\ struck \subseteq rows /\ stowed \subseteq convs
      /\ (\A m \in rows : ConvOf[m] \in convs) /\ rows \subseteq Msgs /\ convs \subseteq Convs
  BY DEF HistoryInv, HistoryTyped, HI!TypeOK
<1>1. CASE \/ HI!Connected \/ HI!Disconnected \/ HI!Quit \/ HI!Cover \/ HI!GoBack \/ HI!ClearHistory \/ HI!GetAll
           \/ \E m \in Msgs : HI!MessageReceived(m) \/ HI!MessageModerated(m)
           \/ \E c \in Convs : \/ HI!Select(c) \/ HI!RoomConfigured(c) \/ HI!Close(c)
                               \/ HI!ArchiveConversation(c) \/ HI!FindBefore(c)
           \/ \E j \in jobs : \/ j[1] = "loaded" /\ HI!MessagesLoaded(j[2], j[3], j[4])
                              \/ j[1] = "prefilled" /\ HI!ConversationsPrefill(j[2], j[3])
  <2>1. UNCHANGED <<struck, rows, stowed, convs>>
    BY <1>1, Zenon DEF HI!Connected, HI!Disconnected, HI!Quit, HI!Cover, HI!GoBack,
       HI!ClearHistory, HI!GetAll,
       HI!MessageReceived, HI!MessageModerated, HI!Select, HI!RoomConfigured, HI!Close,
       HI!ArchiveConversation, HI!FindBefore,
       HI!MessagesLoaded, HI!ConversationsPrefill, HI!db
  <2> QED
    BY <1>0, <2>1
<1>2. CASE \E m \in Msgs : HI!Upsert(m) \/ HI!Insert(m) \/ HI!MarkRetracted(m)
  BY <1>0, <1>2, HistoryAssumption DEF HI!Upsert, HI!Insert, HI!MarkRetracted
<1>3. CASE HI!ClearMessages \/ HI!ClearConversations \/ \E c \in Convs : HI!SetArchived(c)
  BY <1>0, <1>3 DEF HI!ClearMessages, HI!ClearConversations, HI!SetArchived
<1> QED
  BY <1>1, <1>2, <1>3 DEF HI!Next

BadgeOK ==
  /\ badge \in [Convs -> Nat] /\ fresh \in [Convs -> SUBSET Msgs] /\ overlooked \subseteq Msgs
  /\ HI!BadgeMeansNew

LEMMA BadgeStep == ASSUME HistoryInv, HI!Next PROVE BadgeOK'
<1>0. /\ badge \in [Convs -> Nat] /\ fresh \in [Convs -> SUBSET Msgs]
      /\ (\A c \in Convs : badge[c] > 0 <=> fresh[c] # {})
      /\ (current # Nobody => fresh[current] \subseteq overlooked)
      /\ current \in Convs \cup {Nobody} /\ overlooked \subseteq Msgs
  BY DEF HistoryInv, HistoryTyped, HI!TypeOK, HI!BadgeMeansNew
<1>1. ASSUME UNCHANGED <<badge, fresh>>, overlooked' \subseteq Msgs,
             \/ UNCHANGED <<current, overlooked>> \/ current' = Nobody
             \/ current' \in Convs /\ overlooked' = fresh[current']
      PROVE  BadgeOK'
  <2>1. \A c \in Convs : badge'[c] > 0 <=> fresh'[c] # {}
    BY <1>0, <1>1
  <2>2. current' # Nobody => fresh'[current'] \subseteq overlooked'
    BY <1>0, <1>1
  <2> QED
    BY <1>0, <1>1, <2>1, <2>2 DEF BadgeOK, HI!BadgeMeansNew
<1>2. ASSUME badge' = [c \in Convs |-> 0], fresh' = [c \in Convs |-> {}], current' = Nobody,
             overlooked' = {}
      PROVE  BadgeOK'
  BY <1>2 DEF BadgeOK, HI!BadgeMeansNew
<1>3. ASSUME NEW c \in Convs, badge' = [badge EXCEPT ![c] = 0], fresh' = [fresh EXCEPT ![c] = {}],
             current' = c, overlooked' = {}
      PROVE  BadgeOK'
  BY <1>0, <1>3 DEF BadgeOK, HI!BadgeMeansNew
<1>4. ASSUME NEW c \in Convs, NEW m \in Msgs, UNCHANGED <<current, overlooked>>, c # current,
             badge' = [badge EXCEPT ![c] = badge[c] + 1], fresh' = [fresh EXCEPT ![c] = fresh[c] \cup {m}]
      PROVE  BadgeOK'
  <2>1. badge' \in [Convs -> Nat] /\ fresh' \in [Convs -> SUBSET Msgs]
    BY <1>0, <1>4
  <2>2. \A x \in Convs : badge'[x] > 0 <=> fresh'[x] # {}
    BY <1>0, <1>4
  <2>3. current' # Nobody => fresh'[current'] \subseteq overlooked'
    BY <1>0, <1>4
  <2> QED
    BY <1>0, <1>4, <2>1, <2>2, <2>3 DEF BadgeOK, HI!BadgeMeansNew
<1>5. CASE HI!Connected \/ HI!Disconnected \/ HI!Quit
  BY <1>2, <1>5, Zenon DEF HI!Connected, HI!Disconnected, HI!Quit
<1>6. CASE \/ HI!Cover \/ HI!GoBack \/ HI!ClearHistory \/ HI!GetAll \/ HI!ClearMessages \/ HI!ClearConversations
           \/ \E m \in Msgs : HI!MessageModerated(m) \/ HI!Upsert(m) \/ HI!Insert(m) \/ HI!MarkRetracted(m)
           \/ \E c \in Convs : HI!SetArchived(c) \/ HI!FindBefore(c) \/ HI!Close(c) \/ HI!ArchiveConversation(c)
           \/ \E j \in jobs : j[1] = "loaded" /\ HI!MessagesLoaded(j[2], j[3], j[4])
  <2>1. UNCHANGED <<badge, fresh>>
        /\ (UNCHANGED <<current, overlooked>> \/ (current' = Nobody /\ overlooked' = {}))
    BY <1>6, Zenon DEF HI!Cover, HI!GoBack, HI!ClearHistory, HI!GetAll, HI!ClearMessages,
       HI!ClearConversations,
       HI!MessageModerated, HI!Upsert, HI!Insert, HI!MarkRetracted, HI!SetArchived,
       HI!FindBefore, HI!Close,
       HI!ArchiveConversation, HI!Forget, HI!MessagesLoaded, HI!screen
  <2> QED
    BY <1>0, <1>1, <2>1
<1>7. ASSUME NEW c \in Convs, HI!Select(c) PROVE BadgeOK'
  BY <1>3, <1>7, Zenon DEF HI!Select, HI!SelectContact
<1>8. ASSUME NEW m \in Msgs, HI!MessageReceived(m) PROVE BadgeOK'
  <2> DEFINE c == ConvOf[m]
  <2>1. c \in Convs
    BY HistoryAssumption
  <2>2. UNCHANGED <<current, overlooked>>
    BY <1>8, Zenon DEF HI!MessageReceived
  <2>3. \/ UNCHANGED <<badge, fresh>>
        \/ /\ c # current /\ badge' = [badge EXCEPT ![c] = badge[c] + 1]
           /\ fresh' = [fresh EXCEPT ![c] = fresh[c] \cup {m}]
    BY <1>8 DEF HI!MessageReceived
  <2> HIDE DEF c
  <2> QED
    BY <1>0, <1>1, <1>4, <2>1, <2>2, <2>3
<1>9. ASSUME NEW j \in jobs, HI!ConversationsPrefill(j[2], j[3]) PROVE BadgeOK'
  <2>1. <<"prefilled", j[2], j[3]>> \in HI!Jobs
    BY <1>9, Zenon DEF HI!ConversationsPrefill, HistoryInv, HistoryTyped, HI!TypeOK
  <2>2. j[2] \subseteq Convs
    BY <2>1, PrefilledJob
  <2>3. \/ UNCHANGED <<badge, fresh, current, overlooked>>
        \/ \E c \in j[2] : /\ badge' = [badge EXCEPT ![c] = 0] /\ fresh' = [fresh EXCEPT ![c] = {}]
                           /\ current' = c /\ overlooked' = {}
    BY <1>9, Zenon DEF HI!ConversationsPrefill
  <2> QED
    BY <1>0, <1>1, <1>3, <2>2, <2>3
<1>10. ASSUME NEW c \in Convs, HI!RoomConfigured(c) PROVE BadgeOK'
  <2>1. UNCHANGED <<badge, fresh>> /\ current' = c /\ overlooked' = fresh[c]
    BY <1>10, Zenon DEF HI!RoomConfigured
  <2> QED
    BY <1>0, <1>1, <2>1
<1> QED
  BY <1>5, <1>6, <1>7, <1>8, <1>9, <1>10 DEF HI!Next

LEMMA ShownStays == ASSUME HistoryInv, HI!Next PROVE \A m \in view' : Safe(m)'
<1>0. /\ view \subseteq Msgs /\ \A m \in view : Safe(m)
  BY DEF HistoryInv, HistoryTyped, HI!TypeOK
<1>1. CASE HI!Quit \/ HI!Connected \/ HI!Disconnected
  BY <1>1, Zenon DEF HI!Quit, HI!Connected, HI!Disconnected
<1>2. ASSUME view' \subseteq view, ~HI!Quit PROVE \A m \in view' : Safe(m)'
  BY <1>0, <1>2, SafeStays
<1>3. CASE \/ HI!Cover \/ HI!GoBack \/ HI!ClearHistory \/ HI!GetAll \/ HI!ClearMessages \/ HI!ClearConversations
           \/ \E m \in Msgs : HI!MessageModerated(m) \/ HI!Upsert(m) \/ HI!Insert(m) \/ HI!MarkRetracted(m)
           \/ \E c \in Convs : \/ HI!Select(c) \/ HI!RoomConfigured(c) \/ HI!Close(c)
                               \/ HI!ArchiveConversation(c) \/ HI!SetArchived(c)
                               \/ HI!FindBefore(c)
           \/ \E j \in jobs : j[1] = "prefilled" /\ HI!ConversationsPrefill(j[2], j[3])
  <2>1. view' \subseteq view
    BY <1>3, Zenon DEF HI!Cover, HI!GoBack, HI!ClearHistory, HI!GetAll, HI!ClearMessages,
       HI!ClearConversations,
       HI!MessageModerated, HI!Upsert, HI!Insert, HI!MarkRetracted, HI!Select, HI!RoomConfigured, HI!Close,
       HI!ArchiveConversation, HI!Forget,
       HI!SetArchived, HI!FindBefore, HI!ConversationsPrefill, HI!screen
  <2> QED
    BY <1>1, <1>2, <2>1
<1>4. ASSUME NEW m \in Msgs, HI!MessageReceived(m), ~HI!Quit PROVE \A x \in view' : Safe(x)'
  <2>1. view' \subseteq view \cup {m} /\ <<"upsert", m>> \in jobs'
    BY <1>4, Zenon DEF HI!MessageReceived, HI!Store
  <2>2. Safe(m)'
    BY <2>1 DEF Safe
  <2> QED
    BY <1>0, <1>4, <2>1, <2>2, SafeStays
<1>5. ASSUME NEW j \in jobs, HI!MessagesLoaded(j[2], j[3], j[4]), ~HI!Quit PROVE \A x \in view' : Safe(x)'
  <2>1. <<"loaded", j[2], j[3], j[4]>> \in jobs /\ view' \subseteq view \cup j[3]
    BY <1>5, Zenon DEF HI!MessagesLoaded
  <2>2. \A x \in j[3] : x \in Msgs /\ Safe(x)
    BY <2>1 DEF HistoryInv, LoadsFit, HI!Of
  <2> QED
    BY <1>0, <1>5, <2>1, <2>2, SafeStays
<1> QED
  BY <1>1, <1>3, <1>4, <1>5 DEF HI!Next

LEMMA HistoryStep == ASSUME HistoryInv, HI!Next PROVE HistoryInv'
<1>1. HistoryTyped'
  BY JobsTyped, ScreenTyped, RowsTyped, BadgeStep DEF HistoryTyped, HI!TypeOK, BadgeOK
<1>2. HI!BadgeMeansNew'
  BY BadgeStep DEF BadgeOK
<1> QED
  BY <1>1, <1>2, LoadsStep, InsertsStep, ShownStays DEF HistoryInv

LEMMA HistoryStutter == ASSUME HistoryInv, UNCHANGED HI!vars PROVE HistoryInv'
<1>1. UNCHANGED <<page, historyOpened, view, tombs, current, badge, archived, jobs, rows, struck, convs,
                  stowed, fresh, wiped, overlooked>>
  BY Zenon DEF HI!vars, HI!screen, HI!db
<1> QED
  BY <1>1 DEF HistoryInv, HistoryTyped, HI!TypeOK, LoadsFit, InsertsFit, Safe, HI!BadgeMeansNew,
     HI!Of

LEMMA HistoryHeld == HistoryInv => HI!TypeOK /\ HI!ShownIsKept /\ HI!BadgeMeansNew
<1>1. ASSUME HistoryInv PROVE HI!ShownIsKept
  BY <1>1 DEF HistoryInv, HistoryTyped, HI!TypeOK, HI!ShownIsKept, Safe, HI!Storing
<1> QED
  BY <1>1 DEF HistoryInv, HistoryTyped

\* Only clearing the history takes rows away, and it takes them all.
LEMMA StruckStays ==
  ASSUME [HI!Next]_(HI!vars), NEW m \in struck, m \in rows' PROVE m \in struck'
<1>1. CASE UNCHANGED HI!vars
  BY <1>1, Zenon DEF HI!vars, HI!db
<1>2. CASE \/ HI!Connected \/ HI!Disconnected \/ HI!Quit \/ HI!Cover \/ HI!GoBack \/ HI!ClearHistory \/ HI!GetAll
           \/ \E x \in Msgs : HI!MessageReceived(x) \/ HI!MessageModerated(x)
           \/ \E c \in Convs : \/ HI!Select(c) \/ HI!RoomConfigured(c) \/ HI!Close(c)
                               \/ HI!ArchiveConversation(c) \/ HI!FindBefore(c)
           \/ \E j \in jobs : \/ j[1] = "loaded" /\ HI!MessagesLoaded(j[2], j[3], j[4])
                              \/ j[1] = "prefilled" /\ HI!ConversationsPrefill(j[2], j[3])
  BY <1>2, Zenon DEF HI!Connected, HI!Disconnected, HI!Quit, HI!Cover, HI!GoBack,
     HI!ClearHistory, HI!GetAll,
     HI!MessageReceived, HI!MessageModerated, HI!Select, HI!RoomConfigured, HI!Close,
     HI!ArchiveConversation, HI!FindBefore,
     HI!MessagesLoaded, HI!ConversationsPrefill, HI!db
<1>3. CASE \E x \in Msgs : HI!Upsert(x) \/ HI!Insert(x) \/ HI!MarkRetracted(x)
  BY <1>3, Zenon DEF HI!Upsert, HI!Insert, HI!MarkRetracted
<1>4. CASE HI!ClearMessages \/ HI!ClearConversations \/ \E c \in Convs : HI!SetArchived(c)
  BY <1>4, Zenon DEF HI!ClearMessages, HI!ClearConversations, HI!SetArchived
<1> QED
  BY <1>1, <1>2, <1>3, <1>4 DEF HI!Next

-----------------------------------------------------------------------------
(* Mutations: marks only grow.                                             *)

Clicked == {"add", "remove"} \X Sent \X Emojis
Pieces == ({"reactions"} \X Sent \X (SUBSET Emojis))
            \cup ({"apply-to", "replace"} \X Sent) \cup {<<"body">>}

MutationsInv == MU!TypeOK /\ made \in Nat

LEMMA MutationsInit == ASSUME MU!Init PROVE MutationsInv
<1>1. queue \in Seq(Clicked) /\ wire \in Seq(MU!Stanzas)
  BY EmptySeq DEF MU!Init
<1> QED
  BY <1>1, SMT DEF MU!Init, MutationsInv, MU!TypeOK, MU!Marks, Clicked

\* A command that is carried.
LEMMA CarryKeeps ==
  ASSUME MutationsInv, NEW c \in MU!Commands, MU!Carry(c)
  PROVE  made' \in Nat /\ carriers' \subseteq (Nat \X MU!Commands)
  BY DEF MU!Carry, MutationsInv, MU!TypeOK

LEMMA QueueKnown ==
  ASSUME MutationsInv, queue # <<>>
  PROVE  /\ Head(queue)[1] \in {"add", "remove"} /\ Head(queue)[2] \in Sent
         /\ Head(queue)[3] \in Emojis /\ Tail(queue) \in Seq(Clicked)
<1>1. queue \in Seq(Clicked)
  BY DEF MutationsInv, MU!TypeOK, Clicked
<1>2. Head(queue) \in Clicked /\ Tail(queue) \in Seq(Clicked)
  BY <1>1, HeadTailProperties
<1> QED
  BY <1>2 DEF Clicked

LEMMA ClicksKeep ==
  ASSUME MutationsInv,
         \/ \E m \in Sent : \/ MU!RetractMessage(m) \/ MU!StartEdit(m)
                            \/ \E e \in Emojis : MU!ToggleReaction(m, e)
         \/ MU!SendReaction \/ MU!RetractReaction \/ MU!SendCorrection
  PROVE  MutationsInv'
<1>1. ASSUME NEW m \in Sent, NEW e \in Emojis, MU!ToggleReaction(m, e) PROVE MutationsInv'
  <2>1. PICK t \in Clicked : queue' = Append(queue, t)
    BY <1>1 DEF MU!ToggleReaction, Clicked
  <2>2. queue' \in Seq(Clicked)
    BY <2>1, AppendProperties DEF MutationsInv, MU!TypeOK, Clicked
  <2> QED
    BY <1>1, <2>2, Zenon DEF MU!ToggleReaction, MutationsInv, MU!TypeOK, Clicked, MU!shownVars,
       MU!peerVars
<1>2. CASE MU!SendReaction \/ MU!RetractReaction
  <2>1. queue # <<>>
    BY <1>2 DEF MU!SendReaction, MU!RetractReaction
  <2>2. PICK m \in Sent, E \in SUBSET Emojis, F \in SUBSET Emojis :
             mutationsOwn' = [mutationsOwn EXCEPT ![m] = E] /\ MU!Carry(<<"reaction", m, F>>)
    <3>1. CASE MU!SendReaction
      <4> DEFINE m == Head(queue)[2]  e == Head(queue)[3]
      <4>1. m \in Sent /\ mutationsOwn[m] \cup {e} \in SUBSET Emojis /\ {e} \in SUBSET Emojis
        BY <2>1, QueueKnown DEF MutationsInv, MU!TypeOK
      <4>2. mutationsOwn' = [mutationsOwn EXCEPT ![m] = mutationsOwn[m] \cup {e}] /\ MU!Carry(<<"reaction", m, {e}>>)
        BY <3>1, Zenon DEF MU!SendReaction
      <4> HIDE DEF m, e
      <4> QED
        BY <4>1, <4>2, Zenon
    <3>2. CASE MU!RetractReaction
      <4> DEFINE m == Head(queue)[2]  E == mutationsOwn[m] \ {Head(queue)[3]}
      <4>1. m \in Sent /\ E \in SUBSET Emojis
        BY <2>1, QueueKnown DEF MutationsInv, MU!TypeOK
      <4>2. mutationsOwn' = [mutationsOwn EXCEPT ![m] = E] /\ MU!Carry(<<"reaction", m, E>>)
        BY <3>2, Zenon DEF MU!RetractReaction
      <4> HIDE DEF m, E
      <4> QED
        BY <4>1, <4>2, Zenon
    <3> QED
      BY <1>2, <3>1, <3>2
  <2>3. mutationsOwn' \in [Sent -> SUBSET Emojis]
    BY <2>2 DEF MutationsInv, MU!TypeOK
  <2>4. made' \in Nat /\ carriers' \subseteq (Nat \X MU!Commands)
    <3>1. <<"reaction", m, F>> \in MU!Commands
      BY DEF MU!Commands
    <3> QED
      BY <2>2, <3>1, CarryKeeps
  <2>5. queue' = Tail(queue) /\ UNCHANGED <<mark, theirs, retracted, edited, editing, wire, peerHas,
                                           peerGone, peerNew, receipts>>
    BY <1>2, Zenon DEF MU!SendReaction, MU!RetractReaction, MU!peerVars
  <2>6. queue' \in Seq(Clicked)
    BY <2>1, <2>5, QueueKnown
  <2> QED
    BY <2>3, <2>4, <2>5, <2>6, Zenon DEF MutationsInv, MU!TypeOK, Clicked
<1>3. ASSUME NEW m \in Sent, MU!RetractMessage(m) \/ MU!StartEdit(m) PROVE MutationsInv'
  <2>1. <<"retract", m>> \in MU!Commands
    BY DEF MU!Commands
  <2>2. made' \in Nat /\ carriers' \subseteq (Nat \X MU!Commands)
    BY <1>3, <2>1, CarryKeeps DEF MU!RetractMessage, MU!StartEdit, MutationsInv, MU!TypeOK
  <2>3. retracted' \subseteq Sent /\ editing' \in Sent \cup {None}
    BY <1>3 DEF MU!RetractMessage, MU!StartEdit, MutationsInv, MU!TypeOK
  <2>4. UNCHANGED <<mark, mutationsOwn, theirs, edited, queue, wire, peerHas, peerGone, peerNew, receipts>>
    BY <1>3, Zenon DEF MU!RetractMessage, MU!StartEdit, MU!peerVars
  <2> QED
    BY <2>2, <2>3, <2>4, Zenon DEF MutationsInv, MU!TypeOK
<1>4. CASE MU!SendCorrection
  <2>1. editing \in Sent /\ <<"correct", editing>> \in MU!Commands
    BY <1>4 DEF MU!SendCorrection, MutationsInv, MU!TypeOK, MU!Commands
  <2>2. made' \in Nat /\ carriers' \subseteq (Nat \X MU!Commands)
    BY <1>4, <2>1, CarryKeeps DEF MU!SendCorrection
  <2>3. edited' \subseteq Sent /\ editing' \in Sent \cup {None}
    BY <1>4, <2>1 DEF MU!SendCorrection, MutationsInv, MU!TypeOK
  <2>4. UNCHANGED <<mark, mutationsOwn, theirs, retracted, queue, wire, peerHas, peerGone, peerNew, receipts>>
    BY <1>4, Zenon DEF MU!SendCorrection, MU!peerVars
  <2> QED
    BY <2>2, <2>3, <2>4, Zenon DEF MutationsInv, MU!TypeOK
<1> QED
  BY <1>1, <1>2, <1>3, <1>4

LEMMA MutationsWireKeeps ==
  ASSUME MutationsInv, MU!PeerReceives \/ \E t \in carriers : MU!Forward(t)
  PROVE  MutationsInv'
<1>1. MU!Stanzas = SUBSET Pieces
  BY DEF MU!Stanzas, Pieces
<1>2. ASSUME NEW t \in carriers, MU!Forward(t) PROVE MutationsInv'
  <2> DEFINE c == t[2]
             el == CASE c[1] = "reaction" -> MU!BuildReaction(c[2], c[3])
                     [] c[1] = "correct" -> MU!BuildCorrection(c[2])
                     [] c[1] = "retract" -> MU!BuildRetraction(c[2])
  <2>1. c \in MU!Commands
    BY DEF MutationsInv, MU!TypeOK
  <2>2. el \in MU!Stanzas
    <3>1. CASE c \in {"reaction"} \X Sent \X (SUBSET Emojis)
      BY <1>1, <3>1 DEF Pieces, MU!BuildReaction
    <3>2. CASE c \in {"correct"} \X Sent
      BY <1>1, <3>2 DEF Pieces, MU!BuildCorrection
    <3>3. CASE c \in {"retract"} \X Sent
      BY <1>1, <3>3 DEF Pieces, MU!BuildRetraction
    <3> QED
      BY <2>1, <3>1, <3>2, <3>3 DEF MU!Commands
  <2>3. wire' = Append(wire, el) /\ carriers' \subseteq carriers
    BY <1>2 DEF MU!Forward
  <2> HIDE DEF el
  <2>4. wire' \in Seq(MU!Stanzas)
    BY <2>2, <2>3, AppendProperties DEF MutationsInv, MU!TypeOK
  <2>5. UNCHANGED <<mark, mutationsOwn, theirs, retracted, edited, editing, queue, peerHas, peerGone, peerNew,
                    receipts, made>>
    BY <1>2, Zenon DEF MU!Forward, MU!shownVars, MU!peerVars
  <2>6. carriers' \subseteq (Nat \X MU!Commands)
    BY <2>3 DEF MutationsInv, MU!TypeOK
  <2> QED
    BY <2>4, <2>5, <2>6, Zenon DEF MutationsInv, MU!TypeOK
<1>3. CASE MU!PeerReceives
  <2> DEFINE el == Head(wire)  R == MU!ParseReaction(el)  c == CHOOSE d \in R : TRUE
  <2>1. el \in MU!Stanzas /\ wire' = Tail(wire) /\ wire' \in Seq(MU!Stanzas)
    BY <1>3, HeadTailProperties DEF MU!PeerReceives, MutationsInv, MU!TypeOK
  <2>2. \A d \in R : d[2] \in Sent /\ d[3] \in SUBSET Emojis
    BY <1>1, <2>1 DEF MU!ParseReaction, Pieces
  <2>3. {d[2] : d \in MU!ParseRetraction(el)} \subseteq Sent /\ {d[2] : d \in MU!ParseCorrection(el)} \subseteq Sent
    BY <1>1, <2>1 DEF MU!ParseRetraction, MU!ParseCorrection, Pieces
  <2>4. /\ peerHas' = IF R = {} THEN peerHas ELSE [peerHas EXCEPT ![c[2]] = c[3]]
        /\ peerGone' = peerGone \cup {d[2] : d \in MU!ParseRetraction(el)}
        /\ peerNew' = peerNew \cup {d[2] : d \in MU!ParseCorrection(el)}
    BY <1>3 DEF MU!PeerReceives
  <2>5. R # {} => c \in R
    OBVIOUS
  <2> HIDE DEF el, R, c
  <2>6. peerHas' \in [Sent -> SUBSET Emojis]
    BY <2>2, <2>4, <2>5 DEF MutationsInv, MU!TypeOK
  <2>7. peerGone' \subseteq Sent /\ peerNew' \subseteq Sent
    BY <2>3, <2>4, Zenon DEF MutationsInv, MU!TypeOK
  <2>8. UNCHANGED <<mark, mutationsOwn, theirs, retracted, edited, editing, queue, carriers, receipts, made>>
    BY <1>3, Zenon DEF MU!PeerReceives, MU!shownVars
  <2> QED
    BY <2>1, <2>6, <2>7, <2>8, Zenon DEF MutationsInv, MU!TypeOK
<1> QED
  BY <1>2, <1>3

LEMMA ReceiptsKeep ==
  ASSUME MutationsInv, NEW m \in Sent, MU!PeerAcknowledges(m) \/ MU!Receipt(m) \/ MU!ReactionReceived(m)
  PROVE  MutationsInv'
<1>1. CASE MU!PeerAcknowledges(m)
  <2>1. receipts' \subseteq ({"Delivered", "Read"} \X Sent)
    BY <1>1 DEF MU!PeerAcknowledges, MutationsInv, MU!TypeOK
  <2>2. UNCHANGED <<mark, mutationsOwn, theirs, retracted, edited, editing, queue, carriers, wire, peerHas,
                    peerGone, peerNew, made>>
    BY <1>1, Zenon DEF MU!PeerAcknowledges, MU!shownVars, MU!peerVars
  <2> QED
    BY <2>1, <2>2, Zenon DEF MutationsInv, MU!TypeOK
<1>2. CASE MU!Receipt(m)
  <2>1. receipts' \subseteq ({"Delivered", "Read"} \X Sent)
    BY <1>2 DEF MU!Receipt, MutationsInv, MU!TypeOK
  <2>2. mark' \in [Sent -> MU!Marks]
    BY <1>2 DEF MU!Receipt, MU!MessageDelivered, MU!MessageRead, MutationsInv, MU!TypeOK, MU!Marks
  <2>3. UNCHANGED <<mutationsOwn, theirs, retracted, edited, editing, queue, carriers, wire, peerHas,
                    peerGone, peerNew, made>>
    BY <1>2, Zenon DEF MU!Receipt, MU!peerVars
  <2> QED
    BY <2>1, <2>2, <2>3, Zenon DEF MutationsInv, MU!TypeOK
<1>3. CASE MU!ReactionReceived(m)
  <2>1. PICK E \in SUBSET Emojis, fallback \in SUBSET {<<"body">>} :
             \E c \in MU!ParseReaction(MU!BuildReaction(m, E) \cup fallback) :
               theirs' = [theirs EXCEPT ![c[2]] = c[3]]
    BY <1>3 DEF MU!ReactionReceived
  <2>2. \A c \in MU!ParseReaction(MU!BuildReaction(m, E) \cup fallback) : c[2] = m /\ c[3] = E
    BY DEF MU!ParseReaction, MU!BuildReaction
  <2>3. theirs' = [theirs EXCEPT ![m] = E]
    BY <2>1, <2>2, Zenon
  <2>4. theirs' \in [Sent -> SUBSET Emojis]
    BY <2>3 DEF MutationsInv, MU!TypeOK
  <2>5. UNCHANGED <<mark, mutationsOwn, retracted, edited, editing, queue, carriers, wire, peerHas, peerGone,
                    peerNew, receipts, made>>
    BY <1>3, Zenon DEF MU!ReactionReceived, MU!peerVars
  <2> QED
    BY <2>4, <2>5, Zenon DEF MutationsInv, MU!TypeOK
<1> QED
  BY <1>1, <1>2, <1>3

LEMMA MutationsStep == ASSUME MutationsInv, MU!Next PROVE MutationsInv'
  BY ClicksKeep, MutationsWireKeeps, ReceiptsKeep, Zenon DEF MU!Next

LEMMA MutationsStutter == ASSUME MutationsInv, UNCHANGED MU!vars PROVE MutationsInv'
<1>1. UNCHANGED <<mark, mutationsOwn, theirs, retracted, edited, editing, queue, carriers, wire, peerHas,
                  peerGone, peerNew, receipts, made>>
  BY DEF MU!vars, MU!shownVars, MU!peerVars
<1> QED
  BY <1>1, Zenon DEF MutationsInv, MU!TypeOK

LEMMA MutationsTyped == MutationsInv => MU!TypeOK
  BY DEF MutationsInv

\* What marks a message is a receipt, and one that says delivered is not looked
\* at when the message was read.
LEMMA MarksStay ==
  ASSUME MutationsInv, [MU!Next]_(MU!vars), NEW m \in Sent, mark[m] = "Read"
  PROVE  mark'[m] = "Read"
<1>1. ASSUME NEW i \in Sent, MU!Receipt(i) PROVE mark'[m] = "Read"
  BY <1>1 DEF MU!Receipt, MU!MessageDelivered, MU!MessageRead, MutationsInv, MU!TypeOK
<1>2. CASE mark' = mark
  BY <1>2
<1>3. mark' = mark \/ \E i \in Sent : MU!Receipt(i)
  BY Zenon DEF MU!Next, MU!vars, MU!shownVars, MU!SendReaction, MU!RetractReaction,
     MU!SendCorrection, MU!PeerReceives,
     MU!Forward, MU!RetractMessage, MU!StartEdit, MU!PeerAcknowledges, MU!ReactionReceived,
     MU!ToggleReaction
<1> QED
  BY <1>1, <1>2, <1>3

-----------------------------------------------------------------------------
(* Muting: types.                                                          *)

MutingInv == MT!TypeOK /\ toggles \in Nat

LEMMA MutingInit == ASSUME MT!Init PROVE MutingInv
<1>1. {chat, header, viewMute, sideMute, appMute, fileMute} \subseteq BOOLEAN
  BY Zenon DEF MT!Init
<1>2. rowMute \in MT!Cells /\ reads = {} /\ writes = {} /\ toggles = 0
  BY Zenon DEF MT!Init, MT!Cells
<1>3. header => chat
  BY Zenon DEF MT!Init
<1> QED
  BY <1>1, <1>2, <1>3 DEF MutingInv, MT!TypeOK

LEMMA ToggleKeeps ==
  ASSUME MutingInv, MT!ToggleMute
  PROVE  /\ {appMute', fileMute'} \subseteq BOOLEAN /\ toggles' \in Nat
         /\ writes' \subseteq ((0..(MaxToggles - 1)) \X BOOLEAN)
<1>1. appMute' \in BOOLEAN /\ fileMute' \in BOOLEAN
  BY Zenon DEF MT!ToggleMute
<1>2. toggles \in 0..(MaxToggles - 1) /\ toggles' \in Nat
  BY MutingAssumption DEF MT!ToggleMute, MutingInv
<1> DEFINE b == ~appMute
<1>3. writes' = writes \cup {<<toggles, b>>}
  BY Zenon DEF MT!ToggleMute
<1>5. b \in BOOLEAN
  BY Zenon
<1> HIDE DEF b
<1>4. writes' \subseteq ((0..(MaxToggles - 1)) \X BOOLEAN)
  BY <1>2, <1>3, <1>5 DEF MutingInv, MT!TypeOK
<1> QED
  BY <1>1, <1>2, <1>4

LEMMA MutingStep == ASSUME MutingInv, MT!Next PROVE MutingInv'
<1>0. /\ chat \in BOOLEAN /\ header \in BOOLEAN /\ viewMute \in BOOLEAN /\ sideMute \in BOOLEAN
      /\ appMute \in BOOLEAN /\ fileMute \in BOOLEAN
      /\ (header => chat) /\ rowMute \in MT!Cells /\ reads \subseteq MT!Reads
      /\ writes \subseteq ((0..(MaxToggles - 1)) \X BOOLEAN) /\ toggles \in Nat
  BY DEF MutingInv, MT!TypeOK
<1>1. SUFFICES /\ chat' \in BOOLEAN /\ header' \in BOOLEAN /\ viewMute' \in BOOLEAN
               /\ sideMute' \in BOOLEAN /\ appMute' \in BOOLEAN /\ fileMute' \in BOOLEAN
               /\ (header' => chat') /\ rowMute' \in MT!Cells /\ reads' \subseteq MT!Reads
               /\ writes' \subseteq ((0..(MaxToggles - 1)) \X BOOLEAN) /\ toggles' \in Nat
  BY DEF MutingInv, MT!TypeOK
<1>2. CASE MT!HeaderToggle
  <2>1. /\ UNCHANGED <<chat, header, sideMute, rowMute, reads>> /\ viewMute' \in BOOLEAN /\ MT!ToggleMute
    BY <1>2, Zenon DEF MT!HeaderToggle
  <2> QED
    BY <1>0, <2>1, ToggleKeeps
<1>3. CASE MT!SidebarToggle
  <2>1. /\ UNCHANGED <<chat, header, viewMute, rowMute, reads>> /\ sideMute' \in BOOLEAN /\ MT!ToggleMute
    BY <1>3, Zenon DEF MT!SidebarToggle
  <2> QED
    BY <1>0, <2>1, ToggleKeeps
<1>4. CASE MT!FirstMessage \/ \E w \in writes : MT!SetMuted(w)
  <2>1. /\ UNCHANGED <<chat, header, viewMute, sideMute, appMute, fileMute, reads, toggles>>
        /\ writes' \subseteq writes /\ rowMute' \in MT!Cells
    BY <1>0, <1>4 DEF MT!FirstMessage, MT!SetMuted, MT!Cells
  <2> QED
    BY <1>0, <2>1
<1>5. CASE MT!Open \/ MT!Connected \/ MT!Restart
  <2>1. /\ UNCHANGED <<fileMute, rowMute, toggles>> /\ writes' \subseteq writes /\ reads' \subseteq MT!Reads
    BY <1>0, <1>5 DEF MT!Open, MT!Connected, MT!Restart, MT!Reads
  <2>2. /\ appMute' \in BOOLEAN /\ chat' \in BOOLEAN /\ header' \in BOOLEAN /\ viewMute' \in BOOLEAN
        /\ sideMute' \in BOOLEAN /\ (header' => chat')
    BY <1>0, <1>5, Zenon DEF MT!Open, MT!Connected, MT!Restart
  <2> QED
    BY <1>0, <2>1, <2>2
<1>6. ASSUME NEW r \in {"all", "muted"}, MT!Read(r) PROVE MutingInv'
  <2>1. UNCHANGED <<chat, header, viewMute, sideMute, appMute, fileMute, rowMute, writes, toggles>>
    BY <1>6, Zenon DEF MT!Read
  <2>2. reads' \subseteq MT!Reads
    BY <1>0, <1>6 DEF MT!Read, MT!Reads
  <2> QED
    BY <1>0, <2>1, <2>2, Zenon DEF MutingInv, MT!TypeOK
<1>7. ASSUME NEW cell \in MT!Cells, MT!ConversationsPrefill(cell) \/ MT!MutedJidsLoaded(cell)
      PROVE  MutingInv'
  <2>1. UNCHANGED <<chat, fileMute, rowMute, writes, toggles>>
    BY <1>7, Zenon DEF MT!ConversationsPrefill, MT!MutedJidsLoaded
  <2>2. reads' \subseteq MT!Reads
    BY <1>0, <1>7 DEF MT!ConversationsPrefill, MT!MutedJidsLoaded
  <2>3. appMute' \in BOOLEAN
    BY <1>0, <1>7, Zenon DEF MT!ConversationsPrefill, MT!MutedJidsLoaded
  <2>4. \/ UNCHANGED <<sideMute, header, viewMute>>
        \/ /\ chat /\ header' = TRUE /\ sideMute' = (sideMute \/ cell = "on")
           /\ viewMute' = (header /\ viewMute)
    BY <1>7, Zenon DEF MT!ConversationsPrefill, MT!MutedJidsLoaded
  <2>5. /\ header' \in BOOLEAN /\ viewMute' \in BOOLEAN /\ sideMute' \in BOOLEAN /\ (header' => chat)
    <3>1. (sideMute \/ cell = "on") \in BOOLEAN /\ (header /\ viewMute) \in BOOLEAN
      BY Zenon
    <3>2. header' \in BOOLEAN
      BY <1>0, <2>4, Zenon
    <3>3. viewMute' \in BOOLEAN
      BY <1>0, <2>4, <3>1, Zenon
    <3>4. sideMute' \in BOOLEAN
      BY <1>0, <2>4, <3>1, Zenon
    <3>5. header' => chat
      BY <1>0, <2>4, Zenon
    <3> QED
      BY <3>2, <3>3, <3>4, <3>5
  <2>6. {chat', header', viewMute', sideMute', appMute', fileMute'} \subseteq BOOLEAN
    BY <1>0, <2>1, <2>3, <2>5
  <2>7. (header' => chat') /\ rowMute' \in MT!Cells /\ writes' \subseteq ((0..(MaxToggles - 1)) \X BOOLEAN)
        /\ toggles' \in Nat
    BY <1>0, <2>1, <2>5
  <2> QED
    BY <2>2, <2>6, <2>7 DEF MutingInv, MT!TypeOK
<1>8. (\E r \in {"all", "muted"} : MT!Read(r)) \/ (\E cell \in MT!Cells : MT!ConversationsPrefill(cell) \/ MT!MutedJidsLoaded(cell))
        => MutingInv'
  BY <1>6, <1>7
<1>9. MutingInv' => /\ chat' \in BOOLEAN /\ header' \in BOOLEAN /\ viewMute' \in BOOLEAN
               /\ sideMute' \in BOOLEAN /\ appMute' \in BOOLEAN /\ fileMute' \in BOOLEAN
               /\ (header' => chat') /\ rowMute' \in MT!Cells /\ reads' \subseteq MT!Reads
               /\ writes' \subseteq ((0..(MaxToggles - 1)) \X BOOLEAN) /\ toggles' \in Nat
  BY DEF MutingInv, MT!TypeOK
<1> QED
  BY <1>2, <1>3, <1>4, <1>5, <1>8, <1>9 DEF MT!Next

LEMMA MutingStutter == ASSUME MutingInv, UNCHANGED MT!vars PROVE MutingInv'
  BY DEF MT!vars, MutingInv, MT!TypeOK

LEMMA MutingTyped == MutingInv => MT!TypeOK
  BY DEF MutingInv

-----------------------------------------------------------------------------
(* Rooms: what is still to come of a room, on the stream and in the events, is *)
(* what its panel lacks.                                                   *)

(* What a stanza, or an event, says of a nickname in a room.                 *)

Comes(s, r, n) == s = <<"available", r, n>> \/ (n = Me /\ s = <<"created", r>>)
Goes(s, r, n)  == s = <<"unavailable", r, n>>
About(s, r, n) == Comes(s, r, n) \/ Goes(s, r, n)
Breaks(s)      == s = <<"connected">> \/ s = <<"disconnected">>

\* Nothing in a queue is about n; what is, is of an earlier session; the last
\* that is of this session agrees with where n is.
Silent(q, r, n) == \A i \in DOMAIN q : ~About(q[i], r, n)
RoomsQuiet(q, r, n)  == \A i \in DOMAIN q :
                          About(q[i], r, n) => \E j \in DOMAIN q : j > i /\ Breaks(q[j])
Agrees(q, r, n, there) ==
  \A i \in DOMAIN q :
    (\A j \in DOMAIN q : j > i => ~About(q[j], r, n) /\ ~Breaks(q[j])) =>
      (Comes(q[i], r, n) => n \in there) /\ (Goes(q[i], r, n) => n \notin there)

Holds(q, s) == \E i \in DOMAIN q : q[i] = s
Live == online /\ ~Holds(roomsEvents, <<"connected">>)

Renewed(q) == \A i \in DOMAIN q : q[i] = <<"disconnected">> =>
                \E j \in DOMAIN q : j > i /\ q[j] = <<"connected">>

Presences == {"available", "unavailable"} \X Halls \X Nicks
RoomsOthers    == {"form", "configured", "invitation"} \X Halls
Stanzas   == Presences \cup RoomsOthers \cup ({"created"} \X Halls) \cup {<<"bookmarks">>}
Tidings   == Presences \cup RoomsOthers \cup {<<"bookmarks">>, <<"connected">>, <<"disconnected">>}
RoomsCalls == {"join", "invite", "configure", "form"} \X Halls

RoomsTyped ==
  /\ RO!TypeOK
  /\ form \in Halls \cup {NoHall} /\ dialog \in Halls \cup {NoHall}
  /\ exists \subseteq Halls /\ seats \in [Halls -> SUBSET Nicks] /\ joined \subseteq Halls
  /\ registered \subseteq Halls /\ online \in BOOLEAN
  /\ up \in Seq(RoomsCalls) /\ down \in Seq(Stanzas) /\ roomsEvents \in Seq(Tidings)
  /\ \A r \in Halls \ exists : seats[r] = {}

SessionsOK ==
  /\ ~online => joined = {}
  /\ \A i \in DOMAIN up : up[i][1] = "join" => up[i][2] \in joined
  /\ online => Renewed(roomsEvents)
  /\ \A r \in Halls : Me \in seats[r] => online /\ r \in joined
  /\ \A r \in Halls : r \in joined /\ Me \notin seats[r] => Holds(up, <<"join", r>>)

EngineOK ==
  \A r \in Halls :
    /\ Me \notin seats[r] => occupants[r] = {} /\ \A n \in Nicks : Silent(down, r, n)
    /\ \A n \in Nicks :
         /\ Agrees(down, r, n, seats[r])
         /\ Silent(down, r, n) =>
              /\ n \in occupants[r] => n \in seats[r]
              /\ n \in seats[r] /\ Me \in seats[r] /\ ~Holds(up, <<"join", r>>)
                   => n \in occupants[r]

EventsOK ==
  online =>
    \A r \in Halls : \A n \in Nicks :
      /\ Me \notin seats[r] => RoomsQuiet(roomsEvents, r, n)
      /\ Silent(down, r, n) => Agrees(roomsEvents, r, n, seats[r])

PanelOK ==
  Live =>
    \A r \in Halls :
      /\ Me \notin seats[r] => panel[r] = {}
      /\ r \notin missed =>
           \A n \in Nicks : Silent(roomsEvents, r, n) /\ Silent(down, r, n) =>
             /\ n \in panel[r] => n \in seats[r]
             /\ r \in registered /\ n \in seats[r] /\ Me \in seats[r]
                  /\ <<"join", r>> \notin orders /\ ~Holds(up, <<"join", r>>)
                  => n \in panel[r]

RoomsInv == RoomsTyped /\ SessionsOK /\ EngineOK /\ EventsOK /\ PanelOK
(* Queues.                                                                   *)

LEMMA QueueEmpty ==
  ASSUME NEW r, NEW n, NEW T
  PROVE  /\ Silent(<<>>, r, n) /\ RoomsQuiet(<<>>, r, n) /\ Agrees(<<>>, r, n, T)
         /\ \A s : ~Holds(<<>>, s)
  BY DEF Silent, RoomsQuiet, Agrees, Holds

LEMMA QuietAgrees ==
  ASSUME NEW S, NEW q \in Seq(S), NEW r, NEW n, NEW T, RoomsQuiet(q, r, n)
  PROVE  Agrees(q, r, n, T)
  BY DEF RoomsQuiet, Agrees, About

LEMMA QueueAppend ==
  ASSUME NEW S, NEW q \in Seq(S), NEW e \in S, NEW r, NEW n, NEW T
  PROVE  /\ Silent(Append(q, e), r, n) <=> Silent(q, r, n) /\ ~About(e, r, n)
         /\ RoomsQuiet(q, r, n) /\ ~About(e, r, n) => RoomsQuiet(Append(q, e), r, n)
         /\ Breaks(e) /\ ~About(e, r, n) => RoomsQuiet(Append(q, e), r, n)
         /\ Agrees(q, r, n, T) /\ ~About(e, r, n) => Agrees(Append(q, e), r, n, T)
         /\ About(e, r, n) /\ (Comes(e, r, n) => n \in T) /\ (Goes(e, r, n) => n \notin T)
              => Agrees(Append(q, e), r, n, T)
         /\ \A s : Holds(Append(q, e), s) <=> Holds(q, s) \/ e = s
<1> DEFINE w == Append(q, e)
<1>1. /\ Len(q) \in Nat /\ DOMAIN q = 1..Len(q) /\ DOMAIN w = 1..(Len(q) + 1)
      /\ \A i \in 1..Len(q) : w[i] = q[i]
      /\ w[Len(q) + 1] = e
  BY AppendProperties, LenProperties
<1>2. /\ \A i \in DOMAIN q : i \in DOMAIN w /\ w[i] = q[i] /\ Len(q) + 1 > i
      /\ \A i \in DOMAIN w : i \in DOMAIN q \/ i = Len(q) + 1
      /\ Len(q) + 1 \in DOMAIN w
  BY <1>1
<1>3. PICK z : z = Len(q) + 1
  OBVIOUS
<1>4. /\ \A i \in DOMAIN q : i \in DOMAIN w /\ w[i] = q[i] /\ z > i /\ ~(i > z)
      /\ \A i \in DOMAIN w : i \in DOMAIN q \/ i = z
      /\ z \in DOMAIN w /\ w[z] = e /\ ~(z > z)
  BY <1>1, <1>2, <1>3
<1> HIDE DEF w
<1>5. /\ Silent(w, r, n) <=> Silent(q, r, n) /\ ~About(e, r, n)
      /\ \A s : Holds(w, s) <=> Holds(q, s) \/ e = s
  BY <1>4 DEF Silent, Holds
<1>6. /\ RoomsQuiet(q, r, n) /\ ~About(e, r, n) => RoomsQuiet(w, r, n)
      /\ Breaks(e) /\ ~About(e, r, n) => RoomsQuiet(w, r, n)
  BY <1>4 DEF RoomsQuiet
<1>7. Agrees(q, r, n, T) /\ ~About(e, r, n) => Agrees(w, r, n, T)
  <2> SUFFICES ASSUME Agrees(q, r, n, T), ~About(e, r, n), NEW i \in DOMAIN w,
                      \A j \in DOMAIN w : j > i => ~About(w[j], r, n) /\ ~Breaks(w[j])
               PROVE  (Comes(w[i], r, n) => n \in T) /\ (Goes(w[i], r, n) => n \notin T)
    BY DEF Agrees
  <2>1. CASE i = z
    BY <2>1, <1>4 DEF About
  <2>2. CASE i \in DOMAIN q
    BY <2>2, <1>4 DEF Agrees
  <2> QED
    BY <2>1, <2>2, <1>4
<1>8. About(e, r, n) /\ (Comes(e, r, n) => n \in T) /\ (Goes(e, r, n) => n \notin T)
        => Agrees(w, r, n, T)
  <2> SUFFICES ASSUME About(e, r, n), Comes(e, r, n) => n \in T, Goes(e, r, n) => n \notin T,
                      NEW i \in DOMAIN w,
                      \A j \in DOMAIN w : j > i => ~About(w[j], r, n) /\ ~Breaks(w[j])
               PROVE  (Comes(w[i], r, n) => n \in T) /\ (Goes(w[i], r, n) => n \notin T)
    BY DEF Agrees
  <2>1. i = z
    BY <1>4
  <2> QED
    BY <2>1, <1>4
<1> QED
  BY <1>5, <1>6, <1>7, <1>8 DEF w

LEMMA QueueTail ==
  ASSUME NEW S, NEW q \in Seq(S), q # <<>>, NEW r, NEW n, NEW T
  PROVE  /\ Head(q) \in S /\ Tail(q) \in Seq(S)
         /\ Silent(q, r, n) <=> ~About(Head(q), r, n) /\ Silent(Tail(q), r, n)
         /\ RoomsQuiet(q, r, n) => RoomsQuiet(Tail(q), r, n)
         /\ Agrees(q, r, n, T) => Agrees(Tail(q), r, n, T)
         /\ Agrees(q, r, n, T) /\ Silent(Tail(q), r, n)
              /\ (\A i \in DOMAIN Tail(q) : ~Breaks(Tail(q)[i]))
              => (Comes(Head(q), r, n) => n \in T) /\ (Goes(Head(q), r, n) => n \notin T)
         /\ \A s : Holds(q, s) <=> Head(q) = s \/ Holds(Tail(q), s)
<1> DEFINE w == Tail(q)
           e == Head(q)
<1>1. /\ e \in S /\ w \in Seq(S) /\ Len(q) \in Nat /\ Len(q) > 0
      /\ DOMAIN q = 1..Len(q) /\ DOMAIN w = 1..(Len(q) - 1)
      /\ e = q[1] /\ \A i \in 1..(Len(q) - 1) : w[i] = q[i + 1]
  BY HeadTailProperties, LenProperties, EmptySeq
<1> HIDE DEF w, e
<1>2. /\ \A i \in DOMAIN w : i \in Int /\ i + 1 \in DOMAIN q /\ w[i] = q[i + 1] /\ i + 1 > 1
      /\ \A i \in DOMAIN q : i \in Int /\ (i = 1 \/ (i - 1 \in DOMAIN w /\ q[i] = w[i - 1]))
      /\ 1 \in DOMAIN q /\ q[1] = e
  <2>1. ASSUME NEW i \in DOMAIN w
        PROVE  i \in Int /\ i + 1 \in DOMAIN q /\ w[i] = q[i + 1] /\ i + 1 > 1
    <3>1. i \in 1..(Len(q) - 1)
      BY <1>1
    <3>2. i \in Int /\ i + 1 \in 1..Len(q) /\ i + 1 > 1
      BY <3>1, <1>1
    <3> QED
      BY <3>1, <3>2, <1>1
  <2>2. ASSUME NEW i \in DOMAIN q
        PROVE  i \in Int /\ (i = 1 \/ (i - 1 \in DOMAIN w /\ q[i] = w[i - 1]))
    <3>1. i \in 1..Len(q)
      BY <1>1
    <3>2. i = 1 \/ i - 1 \in 1..(Len(q) - 1)
      BY <3>1, <1>1
    <3>3. i - 1 + 1 = i
      BY <3>1, <1>1
    <3> QED
      BY <3>1, <3>2, <3>3, <1>1
  <2>3. 1 \in DOMAIN q /\ q[1] = e
    BY <1>1
  <2> QED
    BY <2>1, <2>2, <2>3
<1>3. Silent(q, r, n) <=> ~About(e, r, n) /\ Silent(w, r, n)
  BY <1>2 DEF Silent
<1>4. \A s : Holds(q, s) <=> e = s \/ Holds(w, s)
  BY <1>2 DEF Holds
<1>5. RoomsQuiet(q, r, n) => RoomsQuiet(w, r, n)
  <2> SUFFICES ASSUME RoomsQuiet(q, r, n), NEW i \in DOMAIN w, About(w[i], r, n)
               PROVE  \E j \in DOMAIN w : j > i /\ Breaks(w[j])
    BY DEF RoomsQuiet
  <2>1. PICK j \in DOMAIN q : j > i + 1 /\ Breaks(q[j])
    BY <1>2 DEF RoomsQuiet
  <2>2. i \in Int /\ j \in Int /\ i + 1 > 1 /\ (j = 1 \/ (j - 1 \in DOMAIN w /\ q[j] = w[j - 1]))
    BY <1>2
  <2>3. j # 1 /\ j - 1 > i
    BY <2>1, <2>2
  <2> QED
    BY <2>1, <2>2, <2>3
<1>6. Agrees(q, r, n, T) => Agrees(w, r, n, T)
  <2> SUFFICES ASSUME Agrees(q, r, n, T), NEW i \in DOMAIN w,
                      \A j \in DOMAIN w : j > i => ~About(w[j], r, n) /\ ~Breaks(w[j])
               PROVE  (Comes(w[i], r, n) => n \in T) /\ (Goes(w[i], r, n) => n \notin T)
    BY DEF Agrees
  <2>1. ASSUME NEW j \in DOMAIN q, j > i + 1
        PROVE  ~About(q[j], r, n) /\ ~Breaks(q[j])
    <3>1. i \in Int /\ j \in Int /\ i + 1 > 1
          /\ (j = 1 \/ (j - 1 \in DOMAIN w /\ q[j] = w[j - 1]))
      BY <1>2
    <3>2. j # 1 /\ j - 1 > i
      BY <2>1, <3>1
    <3> QED
      BY <3>1, <3>2
  <2>2. i + 1 \in DOMAIN q /\ w[i] = q[i + 1]
    BY <1>2
  <2> QED
    BY <2>1, <2>2 DEF Agrees
<1>7. ASSUME Agrees(q, r, n, T), Silent(w, r, n), \A i \in DOMAIN w : ~Breaks(w[i])
      PROVE  (Comes(e, r, n) => n \in T) /\ (Goes(e, r, n) => n \notin T)
  <2>1. ASSUME NEW j \in DOMAIN q, j > 1
        PROVE  ~About(q[j], r, n) /\ ~Breaks(q[j])
    <3>1. j - 1 \in DOMAIN w /\ q[j] = w[j - 1]
      BY <2>1, <1>2
    <3> QED
      BY <3>1, <1>7 DEF Silent
  <2> QED
    BY <2>1, <1>2, <1>7 DEF Agrees
<1> QED
  BY <1>1, <1>3, <1>4, <1>5, <1>6, <1>7 DEF w, e

LEMMA QueueConcat ==
  ASSUME NEW S, NEW q \in Seq(S), NEW w \in Seq(S), NEW r, NEW n, NEW T
  PROVE  /\ q \o w \in Seq(S)
         /\ Silent(q \o w, r, n) <=> Silent(q, r, n) /\ Silent(w, r, n)
         /\ Agrees(w, r, n, T) /\ (Silent(w, r, n) => Agrees(q, r, n, T))
              => Agrees(q \o w, r, n, T)
<1> DEFINE v == q \o w
           a == Len(q)
           b == Len(w)
<1>1. /\ v \in Seq(S) /\ a \in Nat /\ b \in Nat
      /\ DOMAIN q = 1..a /\ DOMAIN w = 1..b /\ DOMAIN v = 1..(a + b)
      /\ \A i \in 1..(a + b) : v[i] = IF i <= a THEN q[i] ELSE w[i - a]
  BY ConcatProperties, LenProperties
<1> HIDE DEF v, a, b
<1>2. /\ \A i \in DOMAIN q : i \in DOMAIN v /\ v[i] = q[i] /\ i \in Int
      /\ \A i \in DOMAIN w : i + a \in DOMAIN v /\ v[i + a] = w[i] /\ i \in Int
           /\ \A k \in DOMAIN q : i + a > k
      /\ \A i \in DOMAIN v : i \in Int /\ (i \in DOMAIN q \/ i - a \in DOMAIN w)
  <2>1. ASSUME NEW i \in DOMAIN q PROVE i \in DOMAIN v /\ v[i] = q[i] /\ i \in Int
    BY <1>1
  <2>2. ASSUME NEW i \in DOMAIN w
        PROVE  i + a \in DOMAIN v /\ v[i + a] = w[i] /\ i \in Int /\ \A k \in DOMAIN q : i + a > k
    <3>1. i + a \in 1..(a + b) /\ ~(i + a <= a) /\ i + a - a = i /\ i \in Int
      BY <1>1
    <3> QED
      BY <3>1, <1>1
  <2>3. ASSUME NEW i \in DOMAIN v PROVE i \in Int /\ (i \in DOMAIN q \/ i - a \in DOMAIN w)
    BY <1>1
  <2> QED
    BY <2>1, <2>2, <2>3
<1>3. \A i \in DOMAIN v : i - a \in DOMAIN w => v[i] = w[i - a]
  <2> SUFFICES ASSUME NEW i \in DOMAIN v, i - a \in DOMAIN w PROVE v[i] = w[i - a]
    OBVIOUS
  <2>1. i - a + a = i
    BY <1>1, <1>2
  <2> QED
    BY <2>1, <1>2
<1>4. Silent(v, r, n) <=> Silent(q, r, n) /\ Silent(w, r, n)
  BY <1>2, <1>3 DEF Silent
<1>5. ASSUME Agrees(w, r, n, T), Silent(w, r, n) => Agrees(q, r, n, T)
      PROVE  Agrees(v, r, n, T)
  <2> SUFFICES ASSUME NEW i \in DOMAIN v,
                      \A j \in DOMAIN v : j > i => ~About(v[j], r, n) /\ ~Breaks(v[j])
               PROVE  (Comes(v[i], r, n) => n \in T) /\ (Goes(v[i], r, n) => n \notin T)
    BY DEF Agrees
  <2>1. CASE i \in DOMAIN q
    <3>1. Silent(w, r, n)
      BY <2>1, <1>2 DEF Silent
    <3>2. Agrees(q, r, n, T)
      BY <3>1, <1>5
    <3>3. \A j \in DOMAIN q : j > i => ~About(q[j], r, n) /\ ~Breaks(q[j])
      BY <1>2
    <3> QED
      BY <2>1, <3>2, <3>3, <1>2 DEF Agrees
  <2>2. CASE i - a \in DOMAIN w
    <3>1. ASSUME NEW j \in DOMAIN w, j > i - a
          PROVE  ~About(w[j], r, n) /\ ~Breaks(w[j])
      <4>1. j + a \in DOMAIN v /\ j + a > i /\ v[j + a] = w[j]
        BY <3>1, <1>1, <1>2
      <4> QED
        BY <4>1
    <3> QED
      BY <2>2, <3>1, <1>3, <1>5 DEF Agrees
  <2> QED
    BY <2>1, <2>2, <1>2
<1> QED
  BY <1>1, <1>4, <1>5 DEF v

LEMMA QueueRenewed ==
  ASSUME NEW S, NEW q \in Seq(S)
  PROVE  /\ Renewed(<<>>)
         /\ \A e \in S : Renewed(q) /\ e # <<"disconnected">> => Renewed(Append(q, e))
         /\ \A e \in S : e = <<"connected">> => Renewed(Append(q, e))
         /\ q # <<>> /\ Renewed(q) => Renewed(Tail(q))
         /\ q # <<>> /\ Renewed(q) /\ Head(q) = <<"disconnected">>
              => Holds(Tail(q), <<"connected">>)
         /\ Renewed(q) /\ ~Holds(q, <<"connected">>) => \A i \in DOMAIN q : ~Breaks(q[i])
<1>1. Renewed(<<>>)
  BY DEF Renewed
<1>2. ASSUME NEW e \in S
      PROVE  /\ Renewed(q) /\ e # <<"disconnected">> => Renewed(Append(q, e))
             /\ e = <<"connected">> => Renewed(Append(q, e))
  <2> DEFINE w == Append(q, e)
  <2>1. /\ Len(q) \in Nat /\ DOMAIN q = 1..Len(q) /\ DOMAIN w = 1..(Len(q) + 1)
        /\ \A i \in 1..Len(q) : w[i] = q[i]
        /\ w[Len(q) + 1] = e
    BY AppendProperties, LenProperties
  <2> HIDE DEF w
  <2>2. PICK z : z = Len(q) + 1
    OBVIOUS
  <2>3. /\ \A i \in DOMAIN q : i \in DOMAIN w /\ w[i] = q[i] /\ z > i
        /\ \A i \in DOMAIN w : i \in DOMAIN q \/ i = z
        /\ z \in DOMAIN w /\ w[z] = e
    BY <2>1, <2>2
  <2>4. <<"connected">> # <<"disconnected">>
    OBVIOUS
  <2> QED
    BY <2>3, <2>4 DEF Renewed, w
<1>3. ASSUME q # <<>>, Renewed(q)
      PROVE  /\ Renewed(Tail(q))
             /\ Head(q) = <<"disconnected">> => Holds(Tail(q), <<"connected">>)
  <2> DEFINE w == Tail(q)
             e == Head(q)
  <2>1. /\ Len(q) \in Nat /\ Len(q) > 0
        /\ DOMAIN q = 1..Len(q) /\ DOMAIN w = 1..(Len(q) - 1)
        /\ e = q[1] /\ \A i \in 1..(Len(q) - 1) : w[i] = q[i + 1]
    BY <1>3, HeadTailProperties, LenProperties, EmptySeq
  <2> HIDE DEF w, e
  <2>2. ASSUME NEW i \in DOMAIN w
        PROVE  i \in Int /\ i + 1 \in DOMAIN q /\ w[i] = q[i + 1] /\ i + 1 > 1
    BY <2>1
  <2>3. ASSUME NEW j \in DOMAIN q, j > 1
        PROVE  j \in Int /\ j - 1 \in DOMAIN w /\ q[j] = w[j - 1]
    <3>1. j \in Int /\ j - 1 \in 1..(Len(q) - 1) /\ j - 1 + 1 = j
      BY <2>3, <2>1
    <3> QED
      BY <3>1, <2>1
  <2>4. ASSUME NEW i \in DOMAIN w, w[i] = <<"disconnected">>
        PROVE  \E j \in DOMAIN w : j > i /\ w[j] = <<"connected">>
    <3>1. i \in Int /\ i + 1 \in DOMAIN q /\ q[i + 1] = <<"disconnected">> /\ i + 1 > 1
      BY <2>2, <2>4
    <3>2. PICK j \in DOMAIN q : j > i + 1 /\ q[j] = <<"connected">>
      BY <3>1, <1>3 DEF Renewed
    <3>3. j \in Int /\ j > 1
      BY <2>1, <3>1, <3>2
    <3>4. j - 1 \in DOMAIN w /\ w[j - 1] = <<"connected">> /\ j - 1 > i
      BY <3>1, <3>2, <3>3, <2>3
    <3> QED
      BY <3>4
  <2>5. ASSUME e = <<"disconnected">> PROVE \E j \in DOMAIN w : w[j] = <<"connected">>
    <3>1. 1 \in DOMAIN q /\ q[1] = <<"disconnected">>
      BY <2>1, <2>5
    <3>2. PICK j \in DOMAIN q : j > 1 /\ q[j] = <<"connected">>
      BY <3>1, <1>3 DEF Renewed
    <3> QED
      BY <3>2, <2>3
  <2> QED
    BY <2>4, <2>5 DEF Renewed, Holds, w, e
<1>4. Renewed(q) /\ ~Holds(q, <<"connected">>) => \A i \in DOMAIN q : ~Breaks(q[i])
  BY DEF Renewed, Holds, Breaks
<1> QED
  BY <1>1, <1>2, <1>3, <1>4

(* Stanzas.                                                                  *)

LEMMA StanzaKinds ==
  /\ \A s \in Stanzas : ~Breaks(s)
  /\ \A s \in Stanzas \cup Tidings :
       s[1] \in {"available", "unavailable"} =>
         /\ s = <<s[1], s[2], s[3]>> /\ s \in Presences
         /\ s[2] \in Halls /\ s[3] \in Nicks
         /\ \A r, n : About(s, r, n) <=> (r = s[2] /\ n = s[3])
         /\ \A r, n : Comes(s, r, n) <=> (r = s[2] /\ n = s[3] /\ s[1] = "available")
         /\ \A r, n : Goes(s, r, n) <=> (r = s[2] /\ n = s[3] /\ s[1] = "unavailable")
  /\ \A s \in Stanzas \cup Tidings :
       s[1] \in {"form", "configured", "invitation"} => s[2] \in Halls /\ s \in RoomsOthers
  /\ \A s \in Stanzas \cup Tidings :
       s[1] \notin {"available", "unavailable", "created"} => \A r, n : ~About(s, r, n)
  /\ \A s \in Stanzas :
       s[1] = "created" =>
         /\ s[2] \in Halls
         /\ \A r, n : About(s, r, n) <=> (r = s[2] /\ n = Me)
         /\ \A r, n : Comes(s, r, n) <=> (r = s[2] /\ n = Me)
         /\ \A r, n : ~Goes(s, r, n)
  /\ \A s \in Tidings : s[1] # "created"
  /\ \A s \in Tidings : s[1] \notin {"connected", "disconnected"} => ~Breaks(s) /\ s \in Stanzas
  /\ \A s \in Tidings : s[1] = "connected" <=> s = <<"connected">>
  /\ \A s \in Tidings : s[1] = "disconnected" <=> s = <<"disconnected">>
<1>1. ASSUME NEW s \in Presences
      PROVE  /\ ~Breaks(s) /\ s[1] \in {"available", "unavailable"}
             /\ s = <<s[1], s[2], s[3]>> /\ s[2] \in Halls /\ s[3] \in Nicks
             /\ \A r, n : About(s, r, n) <=> (r = s[2] /\ n = s[3])
             /\ \A r, n : Comes(s, r, n) <=> (r = s[2] /\ n = s[3] /\ s[1] = "available")
             /\ \A r, n : Goes(s, r, n) <=> (r = s[2] /\ n = s[3] /\ s[1] = "unavailable")
  BY DEF Presences, Breaks, About, Comes, Goes
<1>2. ASSUME NEW s \in RoomsOthers
      PROVE  /\ ~Breaks(s) /\ s[1] \in {"form", "configured", "invitation"} /\ s[2] \in Halls
             /\ \A r, n : ~About(s, r, n)
  BY DEF RoomsOthers, Breaks, About, Comes, Goes
<1>3. ASSUME NEW s \in {"created"} \X Halls
      PROVE  /\ ~Breaks(s) /\ s[1] = "created" /\ s[2] \in Halls
             /\ \A r, n : About(s, r, n) <=> (r = s[2] /\ n = Me)
             /\ \A r, n : Comes(s, r, n) <=> (r = s[2] /\ n = Me)
             /\ \A r, n : ~Goes(s, r, n)
  BY DEF Breaks, About, Comes, Goes
<1>4. ASSUME NEW s, s = <<"bookmarks">>
      PROVE  ~Breaks(s) /\ s[1] = "bookmarks" /\ \A r, n : ~About(s, r, n)
  BY <1>4 DEF Breaks, About, Comes, Goes
<1>5. ASSUME NEW s, s = <<"connected">>
      PROVE  s[1] = "connected" /\ (\A r, n : ~About(s, r, n)) /\ s # <<"disconnected">>
  BY <1>5 DEF About, Comes, Goes
<1>6. ASSUME NEW s, s = <<"disconnected">>
      PROVE  s[1] = "disconnected" /\ (\A r, n : ~About(s, r, n)) /\ s # <<"connected">>
  BY <1>6 DEF About, Comes, Goes
<1>7. \A s \in Stanzas : \/ s \in Presences \/ s \in RoomsOthers \/ s \in {"created"} \X Halls
                         \/ s = <<"bookmarks">>
  BY Zenon DEF Stanzas
<1>8. \A s \in Tidings : \/ s \in Presences \/ s \in RoomsOthers \/ s = <<"bookmarks">>
                         \/ s = <<"connected">> \/ s = <<"disconnected">>
  BY Zenon DEF Tidings
<1>9. /\ \A s \in Presences : s \in Stanzas
      /\ \A s \in RoomsOthers : s \in Stanzas
      /\ <<"bookmarks">> \in Stanzas
  BY Zenon DEF Stanzas
<1>10. \A s \in Stanzas : ~Breaks(s)
  BY <1>1, <1>2, <1>3, <1>4, <1>7
<1>11. ASSUME NEW s \in Stanzas \cup Tidings
       PROVE  /\ s[1] \in {"available", "unavailable"} => s \in Presences
              /\ s[1] \in {"form", "configured", "invitation"} => s \in RoomsOthers
              /\ s[1] \notin {"available", "unavailable", "created"} => \A r, n : ~About(s, r, n)
  BY <1>1, <1>2, <1>3, <1>4, <1>5, <1>6, <1>7, <1>8
<1>12. ASSUME NEW s \in Stanzas, s[1] = "created" PROVE s \in {"created"} \X Halls
  BY <1>12, <1>1, <1>2, <1>4, <1>7
<1>13. ASSUME NEW s \in Tidings
       PROVE  /\ s[1] # "created"
              /\ s[1] \notin {"connected", "disconnected"} => ~Breaks(s) /\ s \in Stanzas
              /\ s[1] = "connected" <=> s = <<"connected">>
              /\ s[1] = "disconnected" <=> s = <<"disconnected">>
  BY <1>1, <1>2, <1>4, <1>5, <1>6, <1>8, <1>9
<1> QED
  BY <1>1, <1>2, <1>3, <1>10, <1>11, <1>12, <1>13

LEMMA SizeOf == ASSUME NEW S PROVE RO!Cardinality(S) = Cardinality(S)
  BY Zenon DEF RO!Cardinality, Cardinality

LEMMA Listed ==
  ASSUME NEW X, IsFiniteSet(X)
  PROVE  /\ RO!SetToSeq(X) \in Seq(X)
         /\ \A x \in X : \E i \in DOMAIN RO!SetToSeq(X) : RO!SetToSeq(X)[i] = x
<1> DEFINE c == Cardinality(X)
           f == RO!SetToSeq(X)
<1>1. c \in Nat /\ ExistsBijection(1..c, X)
  BY FS_CardinalityType
<1>2. \E g \in [1..c -> X] : RO!IsInjective(g)
  BY <1>1 DEF ExistsBijection, Bijection, Injection, IsInjective, RO!IsInjective
<1>3. f \in [1..c -> X] /\ RO!IsInjective(f)
  BY <1>2, SizeOf DEF RO!SetToSeq
<1> HIDE DEF f
<1>4. f \in Injection(1..c, X)
  BY <1>3 DEF Injection, IsInjective, RO!IsInjective
<1>5. IsFiniteSet(1..c) /\ Cardinality(1..c) = c
  BY <1>1, FS_Interval
<1> HIDE DEF c
<1>6. f \in Surjection(1..c, X)
  BY <1>4, <1>5, FS_Injection DEF c
<1>7. \A x \in X : \E i \in 1..c : f[i] = x
  BY <1>6 DEF Surjection
<1>8. f \in Seq(X)
  BY <1>1, <1>3, SeqDef DEF c
<1> QED
  BY <1>3, <1>7, <1>8 DEF f

LEMMA Arrivals ==
  ASSUME NEW r \in Halls, NEW A \in SUBSET Nicks, NEW T, A \subseteq T
  PROVE  /\ RO!Coming(r, A) \in Seq(Stanzas)
         /\ \A h, n : Silent(RO!Coming(r, A), h, n) <=> (h # r \/ n \notin A)
         /\ \A h, n : Agrees(RO!Coming(r, A), h, n, T)
<1> DEFINE X == {<<"available", r, n>> : n \in A}
           q == RO!Coming(r, A)
<1>1. IsFiniteSet(X)
  <2> DEFINE g == [n \in A |-> <<"available", r, n>>]
  <2>1. g \in Surjection(A, X)
    BY DEF Surjection
  <2>2. IsFiniteSet(A)
    BY FS_Subset, RoomsAssumption
  <2> HIDE DEF g, X
  <2> QED
    BY <2>1, <2>2, FS_Surjection
<1>2. q = RO!SetToSeq(X)
  BY DEF RO!Coming
<1>3. q \in Seq(X) /\ \A x \in X : \E i \in DOMAIN q : q[i] = x
  <2> HIDE DEF X, q
  <2> QED
    BY <1>1, <1>2, Listed
<1>4. X \subseteq Stanzas
  <2>1. X \subseteq Presences
    BY DEF Presences
  <2> HIDE DEF X
  <2> QED
    BY <2>1, Zenon DEF Stanzas
<1> HIDE DEF q
<1>5. \A i \in DOMAIN q : \E n \in A : q[i] = <<"available", r, n>>
  <2> HIDE DEF X
  <2>1. \A i \in DOMAIN q : q[i] \in X
    BY <1>3, LenProperties, ElementOfSeq
  <2> QED
    BY <2>1, Zenon DEF X
<1>6. \A h, n, m : /\ About(<<"available", r, m>>, h, n) <=> (h = r /\ n = m)
                   /\ Comes(<<"available", r, m>>, h, n) <=> (h = r /\ n = m)
                   /\ ~Goes(<<"available", r, m>>, h, n)
  BY DEF About, Comes, Goes
<1>7. \A n \in A : \E i \in DOMAIN q : q[i] = <<"available", r, n>>
  BY <1>3, Zenon
<1>8. q \in Seq(Stanzas)
  <2> HIDE DEF X
  <2> QED
    BY <1>3, <1>4, SeqMonotonic
<1>9. \A h, n : Silent(q, h, n) <=> (h # r \/ n \notin A)
  BY <1>5, <1>6, <1>7 DEF Silent
<1>10. \A h, n : Agrees(q, h, n, T)
  BY <1>5, <1>6 DEF Agrees
<1> QED
  BY <1>8, <1>9, <1>10 DEF q

LEMMA Answer ==
  ASSUME NEW r \in Halls, NEW A \in SUBSET Nicks, NEW T, A \subseteq T, Me \in T
  PROVE  /\ RO!Coming(r, A) \o RO!Coming(r, {Me}) \in Seq(Stanzas)
         /\ \A h, n : Silent(RO!Coming(r, A) \o RO!Coming(r, {Me}), h, n)
                        <=> (h # r \/ n \notin (A \cup {Me}))
         /\ \A h, n : Agrees(RO!Coming(r, A) \o RO!Coming(r, {Me}), h, n, T)
<1>1. {Me} \in SUBSET Nicks /\ {Me} \subseteq T
  BY RoomsAssumption
<1> DEFINE a == RO!Coming(r, A)
           b == RO!Coming(r, {Me})
<1>2. /\ a \in Seq(Stanzas) /\ b \in Seq(Stanzas)
      /\ \A h, n : Silent(a, h, n) <=> (h # r \/ n \notin A)
      /\ \A h, n : Silent(b, h, n) <=> (h # r \/ n \notin {Me})
      /\ \A h, n : Agrees(a, h, n, T) /\ Agrees(b, h, n, T)
  BY <1>1, Arrivals
<1> HIDE DEF a, b
<1>3. a \o b \in Seq(Stanzas)
  BY <1>2, ConcatProperties
<1>4. \A h, n : /\ Silent(a \o b, h, n) <=> Silent(a, h, n) /\ Silent(b, h, n)
                /\ Agrees(a \o b, h, n, T)
  BY <1>2, QueueConcat
<1> QED
  BY <1>2, <1>3, <1>4 DEF a, b

(* The invariant holds at first.                                             *)

LEMMA RoomsInit == RO!Init => RoomsInv
<1> SUFFICES ASSUME RO!Init PROVE RoomsInv
  OBVIOUS
<1>1. RO!TypeOK
  BY RoomsAssumption DEF RO!Init, RO!TypeOK, RO!Nobodies, RO!Orders
<1>2. RoomsTyped
  <2>1. <<>> \in Seq(RoomsCalls) /\ <<>> \in Seq(Stanzas) /\ <<>> \in Seq(Tidings)
    BY EmptySeq
  <2>2. up \in Seq(RoomsCalls) /\ down \in Seq(Stanzas) /\ roomsEvents \in Seq(Tidings)
    BY <2>1, Zenon DEF RO!Init
  <2>3. /\ form \in Halls \cup {NoHall} /\ dialog \in Halls \cup {NoHall}
        /\ exists \subseteq Halls /\ seats \in [Halls -> SUBSET Nicks] /\ joined \subseteq Halls
        /\ online \in BOOLEAN /\ (\A r \in Halls \ exists : seats[r] = {})
        /\ registered \subseteq Halls
    BY RoomsAssumption DEF RO!Init
  <2> QED
    BY <1>1, <2>2, <2>3 DEF RoomsTyped
<1>3. \A r \in Halls : Me \notin seats[r]
  BY DEF RO!Init
<1>4. SessionsOK
  BY <1>3 DEF RO!Init, SessionsOK
<1>5. EngineOK
  BY <1>3, QueueEmpty DEF RO!Init, EngineOK, RO!Nobodies
<1>6. EventsOK /\ PanelOK
  BY DEF RO!Init, EventsOK, PanelOK, Live
<1> QED
  BY <1>2, <1>4, <1>5, <1>6 DEF RoomsInv

(* What the user does reaches neither a panel nor the engine.                *)

LEMMA UserStep ==
  ASSUME RoomsInv, RoomsTyped',
         UNCHANGED <<panel, missed, RO!streamVars, roomsEvents, RO!serverVars>>,
         orders \subseteq orders', registered \subseteq registered',
         \A r \in registered' \ registered : <<"join", r>> \in orders'
  PROVE  RoomsInv'
<1>1. SessionsOK'
  BY DEF RoomsInv, SessionsOK, RO!streamVars, RO!serverVars
<1>2. EngineOK'
  BY DEF RoomsInv, EngineOK, RO!streamVars, RO!serverVars
<1>3. EventsOK'
  BY DEF RoomsInv, EventsOK, RO!streamVars, RO!serverVars
<1>4. PanelOK'
  <2> SUFFICES ASSUME Live', NEW r \in Halls
               PROVE  /\ Me \notin seats'[r] => panel'[r] = {}
                      /\ r \notin missed' =>
                           \A n \in Nicks : Silent(roomsEvents', r, n) /\ Silent(down', r, n) =>
                             /\ n \in panel'[r] => n \in seats'[r]
                             /\ r \in registered' /\ n \in seats'[r] /\ Me \in seats'[r]
                                  /\ <<"join", r>> \notin orders' /\ ~Holds(up', <<"join", r>>)
                                  => n \in panel'[r]
    BY DEF PanelOK
  <2>1. Live
    BY DEF Live, RO!streamVars
  <2>2. panel' = panel /\ missed' = missed /\ seats' = seats /\ roomsEvents' = roomsEvents
        /\ down' = down /\ up' = up
    BY DEF RO!streamVars, RO!serverVars
  <2>3. /\ Me \notin seats[r] => panel[r] = {}
        /\ r \notin missed =>
             \A n \in Nicks : Silent(roomsEvents, r, n) /\ Silent(down, r, n) =>
               /\ n \in panel[r] => n \in seats[r]
               /\ r \in registered /\ n \in seats[r] /\ Me \in seats[r]
                    /\ <<"join", r>> \notin orders /\ ~Holds(up, <<"join", r>>)
                    => n \in panel[r]
    BY <2>1 DEF RoomsInv, PanelOK
  <2> QED
    BY <2>2, <2>3
<1> QED
  BY <1>1, <1>2, <1>3, <1>4 DEF RoomsInv

LEMMA UserActions ==
  ASSUME RoomsInv,
         \/ RO!OpenInviteDialog \/ RO!CloseInviteDialog \/ RO!SubmitRoomConfig
         \/ RO!DismissRoomConfig \/ RO!Cover \/ RO!GoBack
         \/ \E r \in Halls : RO!JoinRoom(r) \/ RO!AcceptInvitation(r) \/ RO!DeclineInvitation(r)
                               \/ RO!Prefilled(r)
  PROVE  RoomsInv'
<1>1. /\ UNCHANGED <<panel, missed, RO!streamVars, roomsEvents, RO!serverVars>>
      /\ orders \subseteq orders' /\ registered \subseteq registered'
      /\ \A r \in registered' \ registered : <<"join", r>> \in orders'
  BY Zenon DEF RO!OpenInviteDialog, RO!CloseInviteDialog, RO!SubmitRoomConfig,
     RO!DismissRoomConfig, RO!Cover,
     RO!GoBack, RO!JoinRoom, RO!AcceptInvitation, RO!DeclineInvitation, RO!Prefilled,
     RO!OnJoinRoom, RO!ConfigShown
<1>2. RO!TypeOK'
  <2>1. registered' \subseteq Halls /\ registered \subseteq registered'
        /\ paper' \in {"Login", "Chat", "Over"} /\ (paper' = "Login" => invites' = {})
    BY DEF RoomsInv, RoomsTyped, RO!TypeOK, RO!OpenInviteDialog, RO!CloseInviteDialog,
       RO!SubmitRoomConfig,
     RO!DismissRoomConfig, RO!Cover, RO!GoBack, RO!JoinRoom, RO!AcceptInvitation,
       RO!DeclineInvitation, RO!Prefilled,
     RO!OnJoinRoom, RO!ConfigShown
  <2>2. orders' \subseteq RO!Orders
    BY DEF RoomsInv, RoomsTyped, RO!TypeOK, RO!Orders, RO!OpenInviteDialog, RO!CloseInviteDialog,
     RO!SubmitRoomConfig, RO!DismissRoomConfig, RO!Cover, RO!GoBack, RO!JoinRoom,
       RO!AcceptInvitation,
     RO!DeclineInvitation, RO!Prefilled, RO!OnJoinRoom, RO!ConfigShown
  <2>3. /\ panel' = panel /\ locked' = locked /\ exists' = exists /\ occupants' = occupants
        /\ joined' = joined /\ up' = up /\ down' = down /\ online' = online
    BY <1>1, Zenon DEF RO!streamVars, RO!serverVars
  <2> QED
    BY <2>1, <2>2, <2>3 DEF RoomsInv, RoomsTyped, RO!TypeOK
<1>3. form' \in Halls \cup {NoHall} /\ dialog' \in Halls \cup {NoHall}
  BY DEF RoomsInv, RoomsTyped, RO!TypeOK, RO!OpenInviteDialog, RO!CloseInviteDialog,
     RO!SubmitRoomConfig,
     RO!DismissRoomConfig, RO!Cover, RO!GoBack, RO!JoinRoom, RO!AcceptInvitation,
     RO!DeclineInvitation, RO!Prefilled,
     RO!OnJoinRoom, RO!ConfigShown
<1>4. RoomsTyped'
  <2>1. registered' \subseteq Halls
    BY <1>2 DEF RO!TypeOK
  <2>2. /\ exists' = exists /\ seats' = seats /\ joined' = joined /\ online' = online
        /\ up' = up /\ down' = down /\ roomsEvents' = roomsEvents
    BY <1>1, Zenon DEF RO!streamVars, RO!serverVars
  <2> QED
    BY <1>2, <1>3, <2>1, <2>2 DEF RoomsInv, RoomsTyped
<1> QED
  BY <1>1, <1>4, UserStep

(* The interface takes an event.                                             *)

LEMMA HeadOfEvents ==
  ASSUME RoomsInv, RO!HandleEvent
  PROVE  /\ roomsEvents # <<>> /\ roomsEvents \in Seq(Tidings) /\ down \in Seq(Stanzas)
         /\ Head(roomsEvents) \in Tidings /\ roomsEvents' = Tail(roomsEvents) /\ roomsEvents' \in Seq(Tidings)
         /\ UNCHANGED <<online, joined, occupants, up, down, exists, seats, locked>>
         /\ orders \subseteq orders' /\ orders' \subseteq RO!Orders
         /\ \A r, n : /\ Silent(roomsEvents, r, n)
                           <=> ~About(Head(roomsEvents), r, n) /\ Silent(roomsEvents', r, n)
                      /\ RoomsQuiet(roomsEvents, r, n) => RoomsQuiet(roomsEvents', r, n)
                      /\ \A T : Agrees(roomsEvents, r, n, T) => Agrees(roomsEvents', r, n, T)
         /\ \A s : Holds(roomsEvents, s) <=> Head(roomsEvents) = s \/ Holds(roomsEvents', s)
         /\ Renewed(roomsEvents) => Renewed(roomsEvents')
<1>1. /\ roomsEvents # <<>> /\ roomsEvents' = Tail(roomsEvents)
      /\ UNCHANGED <<online, joined, occupants, up, down, exists, seats, locked>>
  BY Zenon DEF RO!HandleEvent, RO!streamVars, RO!serverVars
<1>2. roomsEvents \in Seq(Tidings) /\ down \in Seq(Stanzas)
  BY DEF RoomsInv, RoomsTyped
<1>3. \A r, n, T :
        /\ Head(roomsEvents) \in Tidings /\ Tail(roomsEvents) \in Seq(Tidings)
        /\ Silent(roomsEvents, r, n) <=> ~About(Head(roomsEvents), r, n) /\ Silent(Tail(roomsEvents), r, n)
        /\ RoomsQuiet(roomsEvents, r, n) => RoomsQuiet(Tail(roomsEvents), r, n)
        /\ Agrees(roomsEvents, r, n, T) => Agrees(Tail(roomsEvents), r, n, T)
        /\ \A s : Holds(roomsEvents, s) <=> Head(roomsEvents) = s \/ Holds(Tail(roomsEvents), s)
  BY <1>1, <1>2, QueueTail
<1>4. Renewed(roomsEvents) => Renewed(Tail(roomsEvents))
  BY <1>1, <1>2, QueueRenewed
<1>5. orders \subseteq orders' /\ orders' \subseteq RO!Orders
  <2>1. {"join"} \X Marked \subseteq RO!Orders
    BY RoomsAssumption DEF RO!Orders
  <2>2. orders \subseteq RO!Orders
    BY DEF RoomsInv, RoomsTyped, RO!TypeOK
  <2> QED
    BY <2>1, <2>2 DEF RO!HandleEvent
<1> QED
  BY <1>1, <1>2, <1>3, <1>4, <1>5

LEMMA EventSteps ==
  ASSUME RoomsInv, RO!HandleEvent
  PROVE  /\ RoomsTyped'
         /\ SessionsOK' /\ EngineOK' /\ EventsOK'
<1>0. /\ roomsEvents # <<>> /\ roomsEvents \in Seq(Tidings)
      /\ Head(roomsEvents) \in Tidings /\ roomsEvents' = Tail(roomsEvents) /\ roomsEvents' \in Seq(Tidings)
      /\ UNCHANGED <<online, joined, occupants, up, down, exists, seats, locked>>
      /\ orders' \subseteq RO!Orders
      /\ \A r, n : /\ RoomsQuiet(roomsEvents, r, n) => RoomsQuiet(roomsEvents', r, n)
                   /\ \A T : Agrees(roomsEvents, r, n, T) => Agrees(roomsEvents', r, n, T)
      /\ Renewed(roomsEvents) => Renewed(roomsEvents')
  BY HeadOfEvents
<1> DEFINE e == Head(roomsEvents)
<1>1. /\ paper' \in {"Login", "Chat", "Over"} /\ registered' \subseteq Halls
      /\ panel' \in [Halls -> SUBSET Nicks]
      /\ \A r \in Halls \ registered' : panel'[r] = {}
      /\ (paper' = "Login" => invites' = {})
      /\ form' \in Halls \cup {NoHall} /\ dialog' \in Halls \cup {NoHall}
  <2>0. /\ paper \in {"Login", "Chat", "Over"} /\ registered \subseteq Halls
        /\ panel \in [Halls -> SUBSET Nicks]
        /\ \A r \in Halls \ registered : panel[r] = {}
        /\ (paper = "Login" => invites = {})
        /\ form \in Halls \cup {NoHall} /\ dialog \in Halls \cup {NoHall}
    BY DEF RoomsInv, RoomsTyped, RO!TypeOK
  <2> DEFINE Goal == /\ paper' \in {"Login", "Chat", "Over"} /\ registered' \subseteq Halls
                     /\ panel' \in [Halls -> SUBSET Nicks]
                     /\ \A r \in Halls \ registered' : panel'[r] = {}
                     /\ (paper' = "Login" => invites' = {})
                     /\ form' \in Halls \cup {NoHall} /\ dialog' \in Halls \cup {NoHall}
  <2>1. ASSUME RO!NewChat, paper' \in {"Chat", "Login"} PROVE Goal
    BY <2>1 DEF RO!NewChat, RO!Nobodies
  <2>2. ASSUME UNCHANGED RO!chatVars PROVE Goal
    BY <2>0, <2>2 DEF RO!chatVars
  <2>3. ASSUME paper = "Chat", RO!OnScreen(e), UNCHANGED paper PROVE Goal
    <3>1. ASSUME e[1] \in {"available", "unavailable"}, RO!OnPresence(e[2], e[3], e[1] = "available"),
                 UNCHANGED <<registered, form, invites, dialog, active, missed>>
          PROVE  Goal
      <4>1. e[3] \in Nicks
        BY <3>1, <1>0, StanzaKinds
      <4>2. PICK b \in BOOLEAN : b <=> (e[1] = "available")
        OBVIOUS
      <4>3. /\ panel' \in [Halls -> SUBSET Nicks]
            /\ \A r \in Halls \ registered : panel'[r] = {}
        <5> HIDE DEF e
        <5> QED
          BY <2>0, <3>1, <4>1 DEF RO!OnPresence, RO!OnMucPresence
      <4> QED
        BY <2>0, <2>3, <3>1, <4>3
    <3>2. ASSUME e[1] = "form", RO!RoomConfigFormReceived(e[2]),
                 UNCHANGED <<registered, panel, invites, dialog, active, missed>>
          PROVE  Goal
      <4>1. e[2] \in Halls
        BY <3>2, <1>0, StanzaKinds
      <4> QED
        BY <2>0, <2>3, <3>2, <4>1 DEF RO!RoomConfigFormReceived
    <3>3. ASSUME RO!RoomConfigured(e[2]), UNCHANGED <<registered, panel, invites, dialog, missed>>
          PROVE  Goal
      BY <2>0, <2>3, <3>3 DEF RO!RoomConfigured
    <3>4. ASSUME UNCHANGED <<registered, panel, form, dialog, active, missed>>
          PROVE  Goal
      BY <2>0, <2>3, <3>4
    <3> HIDE DEF Goal, e
    <3> QED
      BY <2>3, <3>1, <3>2, <3>3, <3>4 DEF RO!OnScreen
  <2>4. ASSUME RO!OffScreen(e), UNCHANGED paper PROVE Goal
    BY <2>0, <2>4 DEF RO!OffScreen
  <2>5. \/ RO!NewChat /\ paper' \in {"Chat", "Login"}
        \/ UNCHANGED RO!chatVars
        \/ paper = "Chat" /\ RO!OnScreen(e) /\ UNCHANGED paper
        \/ RO!OffScreen(e) /\ UNCHANGED paper
    BY Zenon DEF RO!HandleEvent
  <2> HIDE DEF Goal
  <2>6. Goal
    BY <2>1, <2>2, <2>3, <2>4, <2>5
  <2> QED
    BY <2>6 DEF Goal
<1>2. RO!TypeOK'
  BY <1>0, <1>1 DEF RoomsInv, RoomsTyped, RO!TypeOK
<1>3. RoomsTyped'
  BY <1>0, <1>1, <1>2 DEF RoomsInv, RoomsTyped
<1>4. SessionsOK'
  BY <1>0 DEF RoomsInv, SessionsOK
<1>5. EngineOK'
  BY <1>0 DEF RoomsInv, EngineOK
<1>6. EventsOK'
  BY <1>0 DEF RoomsInv, EventsOK
<1> QED
  BY <1>3, <1>4, <1>5, <1>6

LEMMA EventPanel ==
  ASSUME RoomsInv, RO!HandleEvent, Live'
  PROVE  PanelOK'
<1> DEFINE e == Head(roomsEvents)
<1>0. /\ roomsEvents # <<>> /\ roomsEvents \in Seq(Tidings) /\ e \in Tidings
      /\ roomsEvents' = Tail(roomsEvents) /\ roomsEvents' \in Seq(Tidings)
      /\ UNCHANGED <<online, joined, occupants, up, down, exists, seats, locked>>
      /\ orders \subseteq orders'
      /\ \A r, n : Silent(roomsEvents, r, n) <=> ~About(e, r, n) /\ Silent(roomsEvents', r, n)
      /\ \A s : Holds(roomsEvents, s) <=> e = s \/ Holds(roomsEvents', s)
  BY HeadOfEvents
<1>1. online /\ Renewed(roomsEvents) /\ ~Holds(roomsEvents', <<"connected">>) /\ Renewed(roomsEvents')
  <2>1. online /\ ~Holds(roomsEvents', <<"connected">>)
    BY <1>0 DEF Live
  <2> QED
    BY <2>1, HeadOfEvents DEF RoomsInv, SessionsOK
<1>2. e # <<"disconnected">>
  BY <1>0, <1>1, QueueRenewed
<1> HIDE DEF e
<1>3. ASSUME RO!NewChat PROVE PanelOK'
  BY <1>3 DEF RO!NewChat, RO!Nobodies, PanelOK
<1>4. ASSUME e # <<"connected">>,
             \A r \in Halls, n \in Nicks : ~About(e, r, n) =>
               ((n \in panel'[r]) <=> (n \in panel[r])),
             \A r \in Halls, n \in Nicks : About(e, r, n) =>
               \/ r \in missed'
               \/ r \notin registered' /\ panel'[r] = panel[r]
               \/ r \in registered' /\ Comes(e, r, n) /\ n \in panel'[r]
               \/ r \in registered' /\ Goes(e, r, n) /\ n \notin panel'[r],
             registered' = registered, missed \subseteq missed'
      PROVE  PanelOK'
  <2>1. Live
    BY <1>0, <1>1, <1>4 DEF Live
  <2>2. \A i \in DOMAIN roomsEvents : ~Breaks(roomsEvents[i])
    BY <1>0, <1>1, <2>1, QueueRenewed DEF Live
  <2>3. \A i \in DOMAIN Tail(roomsEvents) : ~Breaks(Tail(roomsEvents)[i])
    BY <1>0, <1>1, QueueRenewed
  <2> SUFFICES ASSUME NEW r \in Halls
               PROVE  /\ Me \notin seats[r] => panel'[r] = {}
                      /\ r \notin missed' =>
                           \A n \in Nicks : Silent(roomsEvents', r, n) /\ Silent(down, r, n) =>
                             /\ n \in panel'[r] => n \in seats[r]
                             /\ r \in registered' /\ n \in seats[r] /\ Me \in seats[r]
                                  /\ <<"join", r>> \notin orders' /\ ~Holds(up, <<"join", r>>)
                                  => n \in panel'[r]
    BY <1>0 DEF PanelOK
  <2>4. panel'[r] \subseteq Nicks /\ panel[r] \subseteq Nicks
        /\ (r \notin registered => panel[r] = {})
    <3>1. panel' \in [Halls -> SUBSET Nicks] /\ panel \in [Halls -> SUBSET Nicks]
      BY EventSteps DEF RoomsInv, RoomsTyped, RO!TypeOK
    <3> QED
      BY <3>1 DEF RoomsInv, RoomsTyped, RO!TypeOK
  <2>5. ASSUME Me \notin seats[r] PROVE panel'[r] = {}
    <3>1. \A n \in Nicks : RoomsQuiet(roomsEvents, r, n)
      BY <1>1, <2>5 DEF RoomsInv, EventsOK
    <3>2. \A n \in Nicks : Silent(roomsEvents, r, n)
      BY <3>1, <2>2 DEF RoomsQuiet, Silent
    <3>3. panel[r] = {}
      BY <2>1, <2>5 DEF RoomsInv, PanelOK
    <3> QED
      BY <3>2, <3>3, <1>0, <1>4, <2>4
  <2>6. ASSUME r \notin missed', NEW n \in Nicks, Silent(roomsEvents', r, n), Silent(down, r, n)
        PROVE  /\ n \in panel'[r] => n \in seats[r]
               /\ r \in registered' /\ n \in seats[r] /\ Me \in seats[r]
                    /\ <<"join", r>> \notin orders' /\ ~Holds(up, <<"join", r>>)
                    => n \in panel'[r]
    <3>1. CASE ~About(e, r, n)
      <4>1. Silent(roomsEvents, r, n)
        BY <3>1, <2>6, <1>0
      <4>2. /\ n \in panel[r] => n \in seats[r]
            /\ r \in registered /\ n \in seats[r] /\ Me \in seats[r]
                 /\ <<"join", r>> \notin orders /\ ~Holds(up, <<"join", r>>)
                 => n \in panel[r]
        BY <4>1, <2>1, <2>6, <1>4 DEF RoomsInv, PanelOK
      <4> QED
        BY <4>2, <3>1, <1>0, <1>4
    <3>2. CASE About(e, r, n)
      <4>1. Agrees(roomsEvents, r, n, seats[r])
        BY <1>1, <2>6 DEF RoomsInv, EventsOK
      <4>2. Silent(Tail(roomsEvents), r, n)
        BY <2>6, <1>0
      <4>3. (Comes(e, r, n) => n \in seats[r]) /\ (Goes(e, r, n) => n \notin seats[r])
        BY <4>1, <4>2, <2>3, <1>0, QueueTail DEF e
      <4> QED
        BY <4>3, <3>2, <2>4, <2>6, <1>4
    <3> QED
      BY <3>1, <3>2
  <2> QED
    BY <2>5, <2>6
<1>5. ASSUME paper = "Chat", RO!OnScreen(e) PROVE PanelOK'
  <2>1. e # <<"connected">> /\ registered' = registered /\ missed' = missed
    <3>1. e[1] # "connected" /\ registered' = registered /\ missed' = missed
      BY <1>5 DEF RO!OnScreen
    <3> QED
      BY <3>1, <1>0, StanzaKinds
  <2>2. CASE e[1] \in {"available", "unavailable"}
    <3>1. /\ e[2] \in Halls /\ e[3] \in Nicks
          /\ \A r, n : About(e, r, n) <=> (r = e[2] /\ n = e[3])
          /\ \A r, n : Comes(e, r, n) <=> (r = e[2] /\ n = e[3] /\ e[1] = "available")
          /\ \A r, n : Goes(e, r, n) <=> (r = e[2] /\ n = e[3] /\ e[1] = "unavailable")
      BY <2>2, <1>0, StanzaKinds
    <3>2. IF e[2] \in registered
            THEN panel' = [panel EXCEPT ![e[2]] = IF e[1] = "available" THEN @ \cup {e[3]}
                                                                        ELSE @ \ {e[3]}]
            ELSE panel' = panel
      BY <1>5, <2>2 DEF RO!OnScreen, RO!OnPresence, RO!OnMucPresence
    <3>3. panel \in [Halls -> SUBSET Nicks]
      BY DEF RoomsInv, RoomsTyped, RO!TypeOK
    <3>4. \A r \in Halls, n \in Nicks : ~About(e, r, n) =>
            ((n \in panel'[r]) <=> (n \in panel[r]))
      BY <3>1, <3>2, <3>3
    <3>5. \A r \in Halls, n \in Nicks : About(e, r, n) =>
               \/ r \in missed'
               \/ r \notin registered' /\ panel'[r] = panel[r]
               \/ r \in registered' /\ Comes(e, r, n) /\ n \in panel'[r]
               \/ r \in registered' /\ Goes(e, r, n) /\ n \notin panel'[r]
      BY <3>1, <3>2, <3>3, <2>1, <2>2
    <3> QED
      BY <2>1, <3>4, <3>5, <1>4
  <2>3. CASE e[1] \notin {"available", "unavailable"}
    <3>1. \A r, n : ~About(e, r, n)
      BY <2>3, <1>0, StanzaKinds
    <3>2. panel' = panel
      BY <1>5, <2>3 DEF RO!OnScreen
    <3> QED
      BY <2>1, <3>1, <3>2, <1>4
  <2> QED
    BY <2>2, <2>3
<1>6. ASSUME e # <<"connected">>, RO!OffScreen(e) PROVE PanelOK'
  <2>1. panel' = panel /\ registered' = registered /\ missed \subseteq missed'
    BY <1>6 DEF RO!OffScreen
  <2>2. \A r, n : About(e, r, n) => r \in missed'
    <3>1. CASE e[1] \in {"available", "unavailable"}
      <4>1. e[2] \in missed'
        BY <1>6, <3>1 DEF RO!OffScreen
      <4> QED
        BY <4>1, <3>1, <1>0, StanzaKinds
    <3>2. CASE e[1] \notin {"available", "unavailable"}
      BY <3>2, <1>0, StanzaKinds
    <3> QED
      BY <3>1, <3>2
  <2> QED
    BY <2>1, <2>2, <1>4, <1>6
<1>7. e[1] # "disconnected"
  BY <1>0, <1>2, StanzaKinds
<1>8. \/ RO!NewChat
      \/ paper = "Chat" /\ RO!OnScreen(e)
      \/ e # <<"connected">> /\ RO!OffScreen(e)
  <2>1. \/ RO!NewChat
        \/ paper = "Chat" /\ RO!OnScreen(e)
        \/ e[1] # "connected" /\ RO!OffScreen(e)
    BY <1>7, Zenon DEF RO!HandleEvent, e
  <2> QED
    BY <2>1, <1>0, StanzaKinds
<1> QED
  BY <1>3, <1>5, <1>6, <1>8

LEMMA HandleEventStep == RoomsInv /\ RO!HandleEvent => RoomsInv'
<1> SUFFICES ASSUME RoomsInv, RO!HandleEvent PROVE RoomsInv'
  OBVIOUS
<1>1. PanelOK'
  <2>1. ~Live' => PanelOK'
    BY DEF PanelOK
  <2> QED
    BY <2>1, EventPanel
<1> QED
  BY <1>1, EventSteps DEF RoomsInv

(* The engine.                                                               *)

LEMMA CommandStep ==
  ASSUME RoomsInv, NEW o, RO!Command(o)
  PROVE  RoomsInv'
<1>0. /\ o \in RO!Orders /\ o \in orders /\ orders' = orders \ {o}
      /\ UNCHANGED <<paper, registered, panel, form, invites, dialog, active, missed, online,
                     down, roomsEvents, exists, seats, locked>>
  <2>1. orders \subseteq RO!Orders
    BY DEF RoomsInv, RoomsTyped, RO!TypeOK
  <2>2. /\ o \in orders /\ orders' = orders \ {o}
        /\ UNCHANGED <<paper, registered, panel, form, invites, dialog, active, missed, online,
                       down, roomsEvents, exists, seats, locked>>
    BY Zenon DEF RO!Command, RO!chatVars, RO!serverVars
  <2> QED
    BY <2>1, <2>2
<1>1. up \in Seq(RoomsCalls) /\ o \in RoomsCalls /\ o = <<o[1], o[2]>> /\ o[2] \in Halls
  BY <1>0 DEF RoomsInv, RoomsTyped, RO!Orders, RoomsCalls
<1>2. \A s : Holds(Append(up, o), s) <=> Holds(up, s) \/ o = s
  BY <1>1, QueueAppend
<1>3. /\ Append(up, o) \in Seq(RoomsCalls)
      /\ \A i \in DOMAIN Append(up, o) : (i \in DOMAIN up /\ Append(up, o)[i] = up[i])
                                         \/ Append(up, o)[i] = o
  BY <1>1, AppendProperties, LenProperties
<1>4. \/ online /\ o[1] = "join" /\ joined' = joined \cup {o[2]}
           /\ occupants' = [occupants EXCEPT ![o[2]] = {}] /\ up' = Append(up, o)
      \/ online /\ o[1] # "join" /\ up' = Append(up, o) /\ UNCHANGED <<joined, occupants>>
      \/ ~online /\ UNCHANGED <<joined, occupants, up>>
  BY <1>1 DEF RO!Command, RO!JoinCommand
<1> DEFINE w == Append(up, o)
<1> HIDE DEF w
<1>5. RoomsTyped'
  <2>1. /\ joined' \subseteq Halls /\ joined \subseteq joined'
        /\ occupants' \in [Halls -> SUBSET Nicks]
        /\ \A r \in Halls \ joined' : occupants'[r] = {}
    BY <1>1, <1>4 DEF RoomsInv, RoomsTyped, RO!TypeOK
  <2>2. up' \in Seq(RoomsCalls) /\ (~online => up' = <<>>)
    BY <1>3, <1>4 DEF RoomsInv, RoomsTyped, RO!TypeOK, w
  <2>3. orders' \subseteq RO!Orders
    BY <1>0 DEF RoomsInv, RoomsTyped, RO!TypeOK
  <2>4. RO!TypeOK'
    BY <2>1, <2>2, <2>3, <1>0 DEF RoomsInv, RoomsTyped, RO!TypeOK
  <2> QED
    BY <2>1, <2>2, <2>4, <1>0 DEF RoomsInv, RoomsTyped
<1>6. /\ \A s : Holds(up, s) => Holds(up', s)
      /\ \A r \in Halls : <<"join", r>> \in orders => <<"join", r>> \in orders'
                                           \/ Holds(up', <<"join", r>>) \/ ~online
      /\ o[1] = "join" /\ online => Holds(up', <<"join", o[2]>>)
  BY <1>0, <1>1, <1>2, <1>4
<1>7. /\ \A i \in DOMAIN up' : up'[i][1] = "join" => up'[i][2] \in joined'
      /\ joined \subseteq joined'
      /\ \A r \in joined' \ joined : o = <<"join", r>> /\ online
  <2>1. \A i \in DOMAIN up : up[i][1] = "join" => up[i][2] \in joined
    BY DEF RoomsInv, SessionsOK
  <2> QED
    BY <2>1, <1>1, <1>3, <1>4
<1>8. SessionsOK'
  BY <1>0, <1>4, <1>6, <1>7, <1>1 DEF RoomsInv, SessionsOK
<1>9. EngineOK'
  <2>1. \A r \in Halls : \/ occupants'[r] = occupants[r]
                         \/ occupants'[r] = {} /\ Holds(up', <<"join", r>>)
    BY <1>1, <1>4, <1>6 DEF RoomsInv, RoomsTyped, RO!TypeOK
  <2> QED
    BY <2>1, <1>0, <1>6 DEF RoomsInv, EngineOK
<1>10. EventsOK'
  BY <1>0 DEF RoomsInv, EventsOK
<1>11. PanelOK'
  BY <1>0, <1>6 DEF RoomsInv, PanelOK, Live
<1> QED
  BY <1>5, <1>8, <1>9, <1>10, <1>11 DEF RoomsInv

\* A stanza s of the stream becomes an event e that says the same of everybody.
LEMMA DispatchStep == RoomsInv /\ RO!Dispatch => RoomsInv'
<1> SUFFICES ASSUME RoomsInv, RO!Dispatch PROVE RoomsInv'
  OBVIOUS
<1> DEFINE s == Head(down)
<1>0. /\ online /\ down # <<>> /\ down' = Tail(down)
      /\ UNCHANGED <<paper, registered, panel, form, invites, dialog, active, missed, orders,
                     online, joined, exists, seats, locked>>
  BY Zenon DEF RO!Dispatch, RO!chatVars, RO!serverVars
<1>1. /\ down \in Seq(Stanzas) /\ roomsEvents \in Seq(Tidings) /\ up \in Seq(RoomsCalls)
      /\ s \in Stanzas /\ down' \in Seq(Stanzas)
  <2>1. down \in Seq(Stanzas) /\ roomsEvents \in Seq(Tidings) /\ up \in Seq(RoomsCalls)
    BY DEF RoomsInv, RoomsTyped
  <2> QED
    BY <2>1, <1>0, QueueTail
<1> HIDE DEF s
<1>2. PICK e : /\ e \in Tidings /\ ~Breaks(e) /\ roomsEvents' = Append(roomsEvents, e)
               /\ \A r, n : /\ About(e, r, n) <=> About(s, r, n)
                            /\ Comes(e, r, n) <=> Comes(s, r, n)
                            /\ Goes(e, r, n) <=> Goes(s, r, n)
  <2>1. CASE s[1] = "created"
    <3>1. s[2] \in Halls /\ Me \in Nicks
      BY <2>1, <1>1, StanzaKinds, RoomsAssumption
    <3> DEFINE e == <<"available", s[2], Me>>
    <3>2. e \in Tidings
      <4>1. e \in Presences
        BY <3>1 DEF Presences
      <4> HIDE DEF e
      <4> QED
        BY <4>1, Zenon DEF Tidings
    <3>3. \A r, n : /\ About(e, r, n) <=> (r = s[2] /\ n = Me)
                    /\ Comes(e, r, n) <=> (r = s[2] /\ n = Me)
                    /\ ~Goes(e, r, n)
      BY DEF About, Comes, Goes
    <3>4. roomsEvents' = Append(roomsEvents, e)
      BY <2>1 DEF RO!Dispatch, s
    <3>5. ~Breaks(e)
      BY DEF Breaks
    <3> HIDE DEF e
    <3> QED
      BY <2>1, <3>2, <3>3, <3>4, <3>5, <1>1, StanzaKinds
  <2>2. CASE s[1] # "created"
    <3>1. roomsEvents' = Append(roomsEvents, s)
      BY <2>2 DEF RO!Dispatch, s
    <3>2. s \in Tidings /\ ~Breaks(s)
      <4>1. s \in Presences \/ s \in RoomsOthers \/ s = <<"bookmarks">>
        <5>1. \/ s \in Presences \/ s \in RoomsOthers \/ s \in {"created"} \X Halls
              \/ s = <<"bookmarks">>
          BY <1>1, Zenon DEF Stanzas
        <5>2. s \notin {"created"} \X Halls
          BY <2>2
        <5> QED
          BY <5>1, <5>2
      <4> QED
        BY <4>1, <1>1, StanzaKinds, Zenon DEF Tidings
    <3> QED
      BY <3>1, <3>2
  <2> QED
    BY <2>1, <2>2
<1>3. \/ \A r, n : ~About(s, r, n) /\ occupants' = occupants
      \/ \E r \in Halls, n \in Nicks :
           /\ \A h, m : About(s, h, m) <=> (h = r /\ m = n)
           /\ \/ r \notin joined /\ occupants' = occupants
              \/ r \in joined /\ Comes(s, r, n)
                   /\ occupants' = [occupants EXCEPT ![r] = @ \cup {n}]
              \/ r \in joined /\ Goes(s, r, n)
                   /\ occupants' = [occupants EXCEPT ![r] = @ \ {n}]
  <2>1. CASE s[1] \in {"available", "unavailable"}
    <3>1. RO!MucOnPresence(s[2], s[3], s[1] = "available")
      BY <2>1 DEF RO!Dispatch, s
    <3>2. IF s[2] \notin joined THEN occupants' = occupants
          ELSE occupants' = [occupants EXCEPT ![s[2]] = IF s[1] = "available" THEN @ \cup {s[3]}
                                                         ELSE @ \ {s[3]}]
      BY <3>1 DEF RO!MucOnPresence
    <3>3. /\ s[2] \in Halls /\ s[3] \in Nicks
          /\ \A r, n : About(s, r, n) <=> (r = s[2] /\ n = s[3])
          /\ \A r, n : Comes(s, r, n) <=> (r = s[2] /\ n = s[3] /\ s[1] = "available")
          /\ \A r, n : Goes(s, r, n) <=> (r = s[2] /\ n = s[3] /\ s[1] = "unavailable")
      BY <2>1, <1>1, StanzaKinds
    <3> QED
      BY <3>2, <3>3, <2>1
  <2>2. CASE s[1] = "created"
    <3>1. RO!MucOnPresence(s[2], Me, TRUE)
      BY <2>2 DEF RO!Dispatch, s
    <3>2. /\ s[2] \in Halls /\ Me \in Nicks
          /\ \A r, n : About(s, r, n) <=> (r = s[2] /\ n = Me)
          /\ Comes(s, s[2], Me)
      BY <2>2, <1>1, StanzaKinds, RoomsAssumption
    <3> QED
      BY <3>1, <3>2 DEF RO!MucOnPresence
  <2>3. CASE s[1] \notin {"available", "unavailable", "created"}
    <3>1. \A r, n : ~About(s, r, n)
      BY <2>3, <1>1, StanzaKinds
    <3>2. occupants' = occupants
      BY <2>3 DEF RO!Dispatch, s
    <3> QED
      BY <3>1, <3>2
  <2> QED
    BY <2>1, <2>2, <2>3
<1>4. /\ up' \in Seq(RoomsCalls)
      /\ \A r : Holds(up', <<"join", r>>) <=> Holds(up, <<"join", r>>)
      /\ \A i \in DOMAIN up' : up'[i][1] = "join" => up'[i][2] \in joined
  <2>0. \A i \in DOMAIN up : up[i][1] = "join" => up[i][2] \in joined
    BY DEF RoomsInv, SessionsOK
  <2>1. CASE up' = up
    BY <2>0, <2>1, <1>1
  <2>2. CASE s[1] = "created" /\ up' = Append(up, <<"form", s[2]>>)
    <3>1. s[2] \in Halls
      BY <2>2, <1>1, StanzaKinds
    <3> DEFINE c == <<"form", s[2]>>
    <3>2. c \in RoomsCalls /\ c[1] # "join" /\ \A r : c # <<"join", r>>
      BY <3>1 DEF RoomsCalls
    <3> HIDE DEF c
    <3>3. \A q : Holds(Append(up, c), q) <=> Holds(up, q) \/ c = q
      BY <3>2, <1>1, QueueAppend
    <3>4. /\ Append(up, c) \in Seq(RoomsCalls)
          /\ \A i \in DOMAIN Append(up, c) : (i \in DOMAIN up /\ Append(up, c)[i] = up[i])
                                             \/ Append(up, c)[i] = c
      BY <3>2, <1>1, AppendProperties, LenProperties
    <3>5. up' = Append(up, c)
      BY <2>2 DEF c
    <3> QED
      BY <2>0, <3>2, <3>3, <3>4, <3>5
  <2>3. up' = up \/ (s[1] = "created" /\ up' = Append(up, <<"form", s[2]>>))
    BY Zenon DEF RO!Dispatch, s
  <2> QED
    BY <2>1, <2>2, <2>3
<1>5. \A r, n, T :
        /\ Silent(down, r, n) <=> ~About(s, r, n) /\ Silent(down', r, n)
        /\ Agrees(down, r, n, T) => Agrees(down', r, n, T)
        /\ Agrees(down, r, n, T) /\ Silent(down', r, n) =>
             (Comes(s, r, n) => n \in T) /\ (Goes(s, r, n) => n \notin T)
  <2>1. \A i \in DOMAIN Tail(down) : ~Breaks(Tail(down)[i])
    BY <1>0, <1>1, StanzaKinds, LenProperties, ElementOfSeq
  <2> QED
    BY <2>1, <1>0, <1>1, QueueTail DEF s
<1>6. /\ roomsEvents' \in Seq(Tidings)
      /\ \A r, n, T :
           /\ Silent(roomsEvents', r, n) <=> Silent(roomsEvents, r, n) /\ ~About(s, r, n)
           /\ RoomsQuiet(roomsEvents, r, n) /\ ~About(s, r, n) => RoomsQuiet(roomsEvents', r, n)
           /\ Agrees(roomsEvents, r, n, T) /\ ~About(s, r, n) => Agrees(roomsEvents', r, n, T)
           /\ About(s, r, n) /\ (Comes(s, r, n) => n \in T) /\ (Goes(s, r, n) => n \notin T)
                => Agrees(roomsEvents', r, n, T)
      /\ Holds(roomsEvents', <<"connected">>) <=> Holds(roomsEvents, <<"connected">>)
      /\ Renewed(roomsEvents) => Renewed(roomsEvents')
  <2>1. e # <<"connected">> /\ e # <<"disconnected">>
    BY <1>2 DEF Breaks
  <2>2. Append(roomsEvents, e) \in Seq(Tidings)
    BY <1>1, <1>2, AppendProperties
  <2>3. Renewed(roomsEvents) => Renewed(roomsEvents')
    BY <2>1, <1>1, <1>2, QueueRenewed
  <2> QED
    BY <2>1, <2>2, <2>3, <1>1, <1>2, QueueAppend
<1>7. \A r \in Halls : Me \notin seats[r] =>
        /\ occupants[r] = {}
        /\ \A n \in Nicks : Silent(down, r, n)
  BY DEF RoomsInv, EngineOK
<1>8. \A r \in Halls, n \in Nicks : About(s, r, n) => Me \in seats[r] /\ r \in joined
  BY <1>5, <1>7 DEF RoomsInv, SessionsOK
<1>9. /\ occupants' \in [Halls -> SUBSET Nicks]
      /\ \A r \in Halls : (\A n \in Nicks : ~About(s, r, n)) => occupants'[r] = occupants[r]
      /\ \A r \in Halls, n \in Nicks :
           /\ ~About(s, r, n) => ((n \in occupants'[r]) <=> (n \in occupants[r]))
           /\ About(s, r, n) => \/ n \in occupants'[r] /\ Comes(s, r, n)
                                \/ n \notin occupants'[r] /\ Goes(s, r, n)
  <2>1. occupants \in [Halls -> SUBSET Nicks]
    BY DEF RoomsInv, RoomsTyped, RO!TypeOK
  <2>2. CASE \A r, n : ~About(s, r, n) /\ occupants' = occupants
    BY <2>1, <2>2
  <2>3. ASSUME NEW r \in Halls, NEW n \in Nicks,
               \A h, m : About(s, h, m) <=> (h = r /\ m = n),
               \/ r \in joined /\ Comes(s, r, n)
                    /\ occupants' = [occupants EXCEPT ![r] = @ \cup {n}]
               \/ r \in joined /\ Goes(s, r, n)
                    /\ occupants' = [occupants EXCEPT ![r] = @ \ {n}]
        PROVE  /\ occupants' \in [Halls -> SUBSET Nicks]
               /\ \A h \in Halls : (\A m \in Nicks : ~About(s, h, m)) =>
                                     occupants'[h] = occupants[h]
               /\ \A h \in Halls, m \in Nicks :
                    /\ ~About(s, h, m) => ((m \in occupants'[h]) <=> (m \in occupants[h]))
                    /\ About(s, h, m) => \/ m \in occupants'[h] /\ Comes(s, h, m)
                                         \/ m \notin occupants'[h] /\ Goes(s, h, m)
    BY <2>1, <2>3
  <2> QED
    BY <2>2, <2>3, <1>3, <1>8
<1>10. RoomsTyped'
  <2>1. \A r \in Halls \ joined : occupants'[r] = {}
    BY <1>8, <1>9 DEF RoomsInv, RoomsTyped, RO!TypeOK
  <2>2. RO!TypeOK'
    BY <2>1, <1>0, <1>9 DEF RoomsInv, RoomsTyped, RO!TypeOK
  <2> QED
    BY <2>2, <1>0, <1>1, <1>4, <1>6 DEF RoomsInv, RoomsTyped
<1>11. SessionsOK'
  BY <1>0, <1>4, <1>6 DEF RoomsInv, SessionsOK
<1>12. EngineOK'
  <2> SUFFICES ASSUME NEW r \in Halls
               PROVE  /\ Me \notin seats[r] =>
                           occupants'[r] = {} /\ \A n \in Nicks : Silent(down', r, n)
                      /\ \A n \in Nicks :
                           /\ Agrees(down', r, n, seats[r])
                           /\ Silent(down', r, n) =>
                                /\ n \in occupants'[r] => n \in seats[r]
                                /\ n \in seats[r] /\ Me \in seats[r]
                                     /\ ~Holds(up', <<"join", r>>) => n \in occupants'[r]
    BY <1>0 DEF EngineOK
  <2>1. \A n \in Nicks : Agrees(down, r, n, seats[r])
    BY DEF RoomsInv, EngineOK
  <2>2. ASSUME NEW n \in Nicks, Silent(down', r, n)
        PROVE  /\ n \in occupants'[r] => n \in seats[r]
               /\ n \in seats[r] /\ Me \in seats[r]
                    /\ ~Holds(up', <<"join", r>>) => n \in occupants'[r]
    <3>1. CASE About(s, r, n)
      BY <3>1, <2>1, <2>2, <1>5, <1>9
    <3>2. CASE ~About(s, r, n)
      <4>1. Silent(down, r, n)
        BY <3>2, <2>2, <1>5
      <4> QED
        BY <4>1, <3>2, <1>4, <1>9 DEF RoomsInv, EngineOK
    <3> QED
      BY <3>1, <3>2
  <2>3. Me \notin seats[r] => occupants'[r] = {} /\ \A n \in Nicks : Silent(down', r, n)
    BY <1>5, <1>7, <1>8, <1>9
  <2> QED
    BY <2>1, <2>2, <2>3, <1>5
<1>13. EventsOK'
  <2> SUFFICES ASSUME NEW r \in Halls, NEW n \in Nicks
               PROVE  /\ Me \notin seats[r] => RoomsQuiet(roomsEvents', r, n)
                      /\ Silent(down', r, n) => Agrees(roomsEvents', r, n, seats[r])
    BY <1>0 DEF EventsOK
  <2>1. Me \notin seats[r] => RoomsQuiet(roomsEvents', r, n)
    BY <1>0, <1>6, <1>8 DEF RoomsInv, EventsOK
  <2>2. ASSUME Silent(down', r, n) PROVE Agrees(roomsEvents', r, n, seats[r])
    <3>1. Agrees(down, r, n, seats[r])
      BY DEF RoomsInv, EngineOK
    <3>2. CASE About(s, r, n)
      BY <3>1, <3>2, <2>2, <1>5, <1>6
    <3>3. CASE ~About(s, r, n)
      <4>1. Agrees(roomsEvents, r, n, seats[r])
        BY <3>3, <2>2, <1>0, <1>5 DEF RoomsInv, EventsOK
      <4> QED
        BY <4>1, <3>3, <1>6
    <3> QED
      BY <3>2, <3>3
  <2> QED
    BY <2>1, <2>2
<1>14. PanelOK'
  <2>1. \A r, n : Silent(roomsEvents', r, n) /\ Silent(down', r, n) =>
                    Silent(roomsEvents, r, n) /\ Silent(down, r, n)
    BY <1>5, <1>6
  <2> QED
    BY <2>1, <1>0, <1>4, <1>6 DEF RoomsInv, PanelOK, Live
<1> QED
  BY <1>10, <1>11, <1>12, <1>13, <1>14 DEF RoomsInv

LEMMA OnlineStep == RoomsInv /\ RO!Online => RoomsInv'
<1> SUFFICES ASSUME RoomsInv, RO!Online PROVE RoomsInv'
  OBVIOUS
<1> DEFINE c == <<"connected">>
           b == <<"bookmarks">>
<1>0. /\ ~online /\ online' = TRUE /\ roomsEvents' = Append(roomsEvents, c) /\ down' = <<b>>
      /\ UNCHANGED <<paper, registered, panel, form, invites, dialog, active, missed, orders,
                     joined, occupants, up, exists, seats, locked>>
  BY Zenon DEF RO!Online, RO!chatVars, RO!serverVars
<1>1. /\ roomsEvents \in Seq(Tidings) /\ c \in Tidings /\ Breaks(c) /\ (\A r, n : ~About(c, r, n))
      /\ c # <<"disconnected">> /\ b \in Stanzas /\ \A r, n : ~About(b, r, n)
  <2>1. roomsEvents \in Seq(Tidings)
    BY DEF RoomsInv, RoomsTyped
  <2>2. c \in Tidings /\ b \in Stanzas
    BY Zenon DEF Tidings, Stanzas
  <2>3. Breaks(c) /\ c # <<"disconnected">> /\ \A r, n : ~About(c, r, n)
    BY DEF Breaks, About, Comes, Goes
  <2>4. \A r, n : ~About(b, r, n)
    BY DEF About, Comes, Goes
  <2> QED
    BY <2>1, <2>2, <2>3, <2>4
<1> HIDE DEF c, b
<1>2. /\ Append(roomsEvents, c) \in Seq(Tidings)
      /\ \A r, n : RoomsQuiet(roomsEvents', r, n)
      /\ Holds(roomsEvents', c) /\ Renewed(roomsEvents')
  <2>1. Append(roomsEvents, c) \in Seq(Tidings)
    BY <1>1, AppendProperties
  <2>2. Renewed(Append(roomsEvents, c))
    BY <1>1, QueueRenewed DEF c
  <2>3. \A r, n : RoomsQuiet(Append(roomsEvents, c), r, n) /\ Holds(Append(roomsEvents, c), c)
    BY <1>1, QueueAppend
  <2> QED
    BY <1>0, <2>1, <2>2, <2>3
<1>3. /\ <<b>> \in Seq(Stanzas)
      /\ \A r, n, T : Silent(<<b>>, r, n) /\ Agrees(<<b>>, r, n, T)
  <2>1. <<b>> = Append(<<>>, b)
    OBVIOUS
  <2>2. <<>> \in Seq(Stanzas)
    BY EmptySeq
  <2>3. Append(<<>>, b) \in Seq(Stanzas)
    BY <1>1, <2>2, AppendProperties
  <2>4. \A r, n, T : Silent(Append(<<>>, b), r, n) /\ Agrees(Append(<<>>, b), r, n, T)
    BY <1>1, <2>2, QueueEmpty, QueueAppend
  <2> QED
    BY <2>1, <2>3, <2>4
<1>4. joined = {} /\ \A r \in Halls : Me \notin seats[r] /\ occupants[r] = {}
  BY <1>0 DEF RoomsInv, SessionsOK, EngineOK
<1>5. RoomsTyped'
  <2>1. RO!TypeOK'
    BY <1>0 DEF RoomsInv, RoomsTyped, RO!TypeOK
  <2> QED
    BY <2>1, <1>0, <1>2, <1>3 DEF RoomsInv, RoomsTyped
<1>6. SessionsOK'
  BY <1>0, <1>2, <1>4 DEF RoomsInv, SessionsOK
<1>7. EngineOK'
  BY <1>0, <1>3, <1>4 DEF EngineOK
<1>8. EventsOK'
  <2>1. \A r, n, T : Agrees(roomsEvents', r, n, T)
    BY <1>0, <1>2, QuietAgrees
  <2> QED
    BY <2>1, <1>2 DEF EventsOK
<1>9. PanelOK'
  BY <1>2 DEF PanelOK, Live, c
<1> QED
  BY <1>5, <1>6, <1>7, <1>8, <1>9 DEF RoomsInv

LEMMA SessionEndStep == RoomsInv /\ RO!SessionEnd => RoomsInv'
<1> SUFFICES ASSUME RoomsInv, RO!SessionEnd PROVE RoomsInv'
  OBVIOUS
<1> DEFINE d == <<"disconnected">>
<1>0. /\ online' = FALSE /\ joined' = {} /\ occupants' = RO!Nobodies /\ up' = <<>> /\ down' = <<>>
      /\ roomsEvents' = Append(roomsEvents, d)
      /\ seats' = [r \in Halls |-> seats[r] \ {Me}]
      /\ UNCHANGED <<paper, registered, panel, form, invites, dialog, active, missed, orders,
                     exists, locked>>
  BY Zenon DEF RO!SessionEnd, RO!chatVars
<1>1. roomsEvents' \in Seq(Tidings) /\ down' \in Seq(Stanzas) /\ up' \in Seq(RoomsCalls)
  <2>1. roomsEvents \in Seq(Tidings)
    BY DEF RoomsInv, RoomsTyped
  <2>2. d \in Tidings
    BY Zenon DEF Tidings
  <2> HIDE DEF d
  <2>3. Append(roomsEvents, d) \in Seq(Tidings)
    BY <2>1, <2>2, AppendProperties
  <2>4. <<>> \in Seq(Stanzas) /\ <<>> \in Seq(RoomsCalls)
    BY EmptySeq
  <2> QED
    BY <1>0, <2>3, <2>4
<1> HIDE DEF d
<1>2. /\ seats' \in [Halls -> SUBSET Nicks] /\ occupants' \in [Halls -> SUBSET Nicks]
      /\ \A r \in Halls : Me \notin seats'[r] /\ occupants'[r] = {}
      /\ \A r \in Halls \ exists : seats'[r] = {}
  BY <1>0 DEF RoomsInv, RoomsTyped, RO!Nobodies
<1>3. RoomsTyped'
  <2>1. RO!TypeOK'
    BY <1>0, <1>2 DEF RoomsInv, RoomsTyped, RO!TypeOK
  <2> QED
    BY <2>1, <1>0, <1>1, <1>2 DEF RoomsInv, RoomsTyped
<1>4. SessionsOK'
  BY <1>0, <1>2 DEF SessionsOK
<1>5. EngineOK'
  BY <1>0, <1>2, QueueEmpty DEF EngineOK
<1>6. EventsOK' /\ PanelOK'
  BY <1>0 DEF EventsOK, PanelOK, Live
<1> QED
  BY <1>3, <1>4, <1>5, <1>6 DEF RoomsInv

(* The server.  What it says is put into down; w is down with it.            *)

LEMMA ServerStep ==
  ASSUME RoomsInv, RoomsTyped', online,
         UNCHANGED <<RO!chatVars, orders, online, joined, occupants, roomsEvents>>,
         \A i \in DOMAIN up' : \E j \in DOMAIN up : up'[i] = up[j],
         NEW h \in Halls,
         \A r \in Halls \ {h} : seats'[r] = seats[r],
         \A r \in Halls : Holds(up, <<"join", r>>) =>
           \/ Holds(up', <<"join", r>>)
           \/ r = h /\ Me \in seats'[r] /\ \A n \in Nicks : n \in seats'[r] => ~Silent(down', r, n),
         Me \in seats'[h] => h \in joined,
         Me \notin seats'[h] => Me \notin seats[h] /\ \A n \in Nicks : Silent(down', h, n),
         \A r \in Halls, n \in Nicks : Silent(down', r, n) => Silent(down, r, n),
         \A r \in Halls \ {h}, n \in Nicks : Silent(down, r, n) => Silent(down', r, n),
         \A r \in Halls, n \in Nicks : Agrees(down', r, n, seats'[r]),
         \A n \in Nicks : Silent(down', h, n) => (n \in seats'[h] <=> n \in seats[h])
                                                 \/ (Me \notin seats[h] /\ Me \notin seats'[h]),
         Me \in seats[h] => Me \in seats'[h],
         Me \notin seats[h] /\ Me \in seats'[h] =>
           \A n \in Nicks : n \in seats'[h] => ~Silent(down', h, n)
  PROVE  RoomsInv'
<1>0. UNCHANGED <<paper, registered, panel, form, invites, dialog, active, missed, orders,
                  online, joined, occupants, roomsEvents>>
  BY Zenon DEF RO!chatVars
<1>1. SessionsOK'
  <2>1. \A i \in DOMAIN up' : up'[i][1] = "join" => up'[i][2] \in joined
    BY DEF RoomsInv, SessionsOK
  <2>2. \A r \in Halls : Me \in seats'[r] => r \in joined
    BY DEF RoomsInv, SessionsOK
  <2>3. \A r \in Halls : r \in joined /\ Me \notin seats'[r] => Holds(up', <<"join", r>>)
    BY DEF RoomsInv, SessionsOK
  <2>4. Renewed(roomsEvents) /\ (~online => joined = {})
    BY DEF RoomsInv, SessionsOK
  <2> QED
    BY <1>0, <2>1, <2>2, <2>3, <2>4 DEF SessionsOK
<1>2. \A r \in Halls : Me \notin seats[r] => occupants[r] = {} /\ \A n \in Nicks : Silent(down, r, n)
  BY DEF RoomsInv, EngineOK
<1>3. \A r \in Halls, n \in Nicks : Silent(down, r, n) =>
        /\ n \in occupants[r] => n \in seats[r]
        /\ n \in seats[r] /\ Me \in seats[r] /\ ~Holds(up, <<"join", r>>) => n \in occupants[r]
  BY DEF RoomsInv, EngineOK
<1>4. EngineOK'
  <2> SUFFICES ASSUME NEW r \in Halls
               PROVE  /\ Me \notin seats'[r] =>
                           occupants[r] = {} /\ \A n \in Nicks : Silent(down', r, n)
                      /\ \A n \in Nicks :
                           /\ Agrees(down', r, n, seats'[r])
                           /\ Silent(down', r, n) =>
                                /\ n \in occupants[r] => n \in seats'[r]
                                /\ n \in seats'[r] /\ Me \in seats'[r]
                                     /\ ~Holds(up', <<"join", r>>) => n \in occupants[r]
    BY <1>0 DEF EngineOK
  <2>1. CASE r # h
    BY <2>1, <1>2, <1>3
  <2>2. CASE r = h
    BY <2>2, <1>2, <1>3
  <2> QED
    BY <2>1, <2>2
<1>5. EventsOK'
  <2> SUFFICES ASSUME NEW r \in Halls, NEW n \in Nicks
               PROVE  /\ Me \notin seats'[r] => RoomsQuiet(roomsEvents, r, n)
                      /\ Silent(down', r, n) => Agrees(roomsEvents, r, n, seats'[r])
    BY <1>0 DEF EventsOK
  <2>1. /\ Me \notin seats[r] => RoomsQuiet(roomsEvents, r, n)
        /\ Silent(down, r, n) => Agrees(roomsEvents, r, n, seats[r])
        /\ roomsEvents \in Seq(Tidings)
    BY DEF RoomsInv, EventsOK, RoomsTyped
  <2>2. Me \notin seats'[r] => RoomsQuiet(roomsEvents, r, n)
    BY <2>1
  <2>3. ASSUME Silent(down', r, n) PROVE Agrees(roomsEvents, r, n, seats'[r])
    <3>1. CASE r # h
      BY <3>1, <2>1, <2>3
    <3>2. CASE Me \notin seats[r]
      BY <3>2, <2>1, QuietAgrees
    <3>3. CASE r = h /\ Me \in seats[r]
      <4>1. n \in seats'[r] <=> n \in seats[r]
        BY <3>3, <2>3
      <4>2. Agrees(roomsEvents, r, n, seats[r])
        BY <2>1, <2>3
      <4> QED
        BY <4>1, <4>2 DEF Agrees
    <3> QED
      BY <3>1, <3>2, <3>3
  <2> QED
    BY <2>2, <2>3
<1>6. PanelOK'
  <2> SUFFICES ASSUME Live, NEW r \in Halls
               PROVE  /\ Me \notin seats'[r] => panel[r] = {}
                      /\ r \notin missed =>
                           \A n \in Nicks : Silent(roomsEvents, r, n) /\ Silent(down', r, n) =>
                             /\ n \in panel[r] => n \in seats'[r]
                             /\ r \in registered /\ n \in seats'[r] /\ Me \in seats'[r]
                                  /\ <<"join", r>> \notin orders /\ ~Holds(up', <<"join", r>>)
                                  => n \in panel[r]
    BY <1>0 DEF PanelOK, Live
  <2>1. /\ Me \notin seats[r] => panel[r] = {}
        /\ r \notin missed =>
             \A n \in Nicks : Silent(roomsEvents, r, n) /\ Silent(down, r, n) =>
               /\ n \in panel[r] => n \in seats[r]
               /\ r \in registered /\ n \in seats[r] /\ Me \in seats[r]
                    /\ <<"join", r>> \notin orders /\ ~Holds(up, <<"join", r>>)
                    => n \in panel[r]
    BY DEF RoomsInv, PanelOK
  <2>2. Me \notin seats'[r] => panel[r] = {}
    BY <2>1
  <2>3. ASSUME r \notin missed, NEW n \in Nicks, Silent(roomsEvents, r, n), Silent(down', r, n)
        PROVE  /\ n \in panel[r] => n \in seats'[r]
               /\ r \in registered /\ n \in seats'[r] /\ Me \in seats'[r]
                    /\ <<"join", r>> \notin orders /\ ~Holds(up', <<"join", r>>)
                    => n \in panel[r]
    <3>0. Silent(down, r, n)
      BY <2>3
    <3>1. CASE r # h
      BY <3>0, <3>1, <2>1, <2>3
    <3>2. CASE r = h
      BY <3>0, <3>2, <2>1, <2>3
    <3> QED
      BY <3>1, <3>2
  <2> QED
    BY <2>2, <2>3
<1> QED
  BY <1>1, <1>4, <1>5, <1>6 DEF RoomsInv

\* The server says what is about nobody, or nothing.
LEMMA ServerTells ==
  ASSUME RoomsInv, RoomsTyped', online,
         UNCHANGED <<RO!chatVars, orders, online, joined, occupants, roomsEvents, seats>>,
         \A i \in DOMAIN up' : \E j \in DOMAIN up : up'[i] = up[j],
         \A r \in Halls : Holds(up, <<"join", r>>) => Holds(up', <<"join", r>>),
         NEW h \in Halls, NEW e \in Stanzas, \A r, n : ~About(e, r, n),
         down' = down \/ down' = Append(down, e)
  PROVE  RoomsInv'
<1>1. down \in Seq(Stanzas)
  BY DEF RoomsInv, RoomsTyped
<1>2. \A r, n, T : /\ Silent(down', r, n) <=> Silent(down, r, n)
                   /\ Agrees(down, r, n, T) => Agrees(down', r, n, T)
  <2>1. CASE down' = down
    BY <2>1
  <2>2. CASE down' = Append(down, e)
    <3>1. \A r, n, T : /\ Silent(Append(down, e), r, n) <=> Silent(down, r, n)
                       /\ Agrees(down, r, n, T) => Agrees(Append(down, e), r, n, T)
      BY <1>1, QueueAppend
    <3> QED
      BY <2>2, <3>1
  <2> QED
    BY <2>1, <2>2
<1>3. \A r \in Halls, n \in Nicks : Agrees(down', r, n, seats'[r])
  BY <1>2 DEF RoomsInv, EngineOK
<1>4. \A r \in Halls : Me \notin seats[r] => \A n \in Nicks : Silent(down', r, n)
  BY <1>2 DEF RoomsInv, EngineOK
<1>5. \A r \in Halls : Me \in seats[r] => r \in joined
  BY DEF RoomsInv, SessionsOK
<1> QED
  BY <1>2, <1>3, <1>4, <1>5, ServerStep

LEMMA ServeStep == RoomsInv /\ RO!Serve => RoomsInv'
<1> SUFFICES ASSUME RoomsInv, RO!Serve PROVE RoomsInv'
  OBVIOUS
<1> DEFINE s == Head(up)
<1>0. /\ online /\ up # <<>> /\ up' = Tail(up)
      /\ UNCHANGED <<RO!chatVars, orders, online, joined, occupants, roomsEvents, RO!bounds>>
      /\ UNCHANGED <<paper, registered, panel, form, invites, dialog, active, missed>>
  BY Zenon DEF RO!Serve, RO!chatVars
<1>1. /\ up \in Seq(RoomsCalls) /\ down \in Seq(Stanzas) /\ s \in RoomsCalls /\ up' \in Seq(RoomsCalls)
      /\ \A i \in DOMAIN up' : \E j \in DOMAIN up : up'[i] = up[j]
      /\ \A q : Holds(up, q) <=> s = q \/ Holds(up', q)
      /\ s = up[1] /\ 1 \in DOMAIN up
  <2>1. up \in Seq(RoomsCalls) /\ down \in Seq(Stanzas)
    BY DEF RoomsInv, RoomsTyped
  <2>2. \A i \in DOMAIN Tail(up) : i + 1 \in DOMAIN up /\ Tail(up)[i] = up[i + 1]
    BY <1>0, <2>1, HeadTailProperties, LenProperties, EmptySeq
  <2>3. s = up[1] /\ 1 \in DOMAIN up
    BY <1>0, <2>1, HeadTailProperties, LenProperties, EmptySeq
  <2>4. s \in RoomsCalls /\ Tail(up) \in Seq(RoomsCalls)
        /\ \A q : Holds(up, q) <=> s = q \/ Holds(Tail(up), q)
    BY <1>0, <2>1, QueueTail
  <2> QED
    BY <1>0, <2>1, <2>2, <2>3, <2>4
<1> HIDE DEF s
<1>2. /\ s = <<s[1], s[2]>> /\ s[2] \in Halls /\ s[1] \in {"join", "invite", "configure", "form"}
      /\ \A r : s = <<"join", r>> => s[1] = "join" /\ r = s[2]
  BY <1>1 DEF RoomsCalls
<1> DEFINE r0 == s[2]
<1>3. /\ seats \in [Halls -> SUBSET Nicks] /\ exists \subseteq Halls /\ locked \subseteq exists
      /\ \A r \in Halls \ exists : seats[r] = {}
      /\ panel \in [Halls -> SUBSET Nicks]
  BY DEF RoomsInv, RoomsTyped, RO!TypeOK
<1>4. ASSUME seats' \in [Halls -> SUBSET Nicks], exists' \subseteq Halls, locked' \subseteq exists',
             \A r \in Halls \ exists' : seats'[r] = {}, down' \in Seq(Stanzas)
      PROVE  RoomsTyped'
  <2>1. RO!TypeOK'
    BY <1>0, <1>4 DEF RoomsInv, RoomsTyped, RO!TypeOK
  <2> QED
    BY <2>1, <1>0, <1>1, <1>4 DEF RoomsInv, RoomsTyped
<1>5. /\ \A r \in Halls : Me \notin seats[r] => \A n \in Nicks : Silent(down, r, n)
      /\ \A r \in Halls, n \in Nicks : Agrees(down, r, n, seats[r])
      /\ \A r \in Halls : Me \in seats[r] => r \in joined
      /\ s[1] = "join" => r0 \in joined
  <2>1. \A i \in DOMAIN up : up[i][1] = "join" => up[i][2] \in joined
    BY DEF RoomsInv, SessionsOK
  <2> QED
    BY <2>1, <1>1 DEF RoomsInv, SessionsOK, EngineOK
<1>6. CASE s[1] = "join" /\ r0 \in exists
  <2>1. /\ seats' = [seats EXCEPT ![r0] = @ \cup {Me}]
        /\ down' = down \o RO!Coming(r0, seats[r0] \ {Me}) \o RO!Coming(r0, {Me})
        /\ exists' = exists /\ locked' = locked
    BY <1>6 DEF RO!Serve, s
  <2>2. /\ seats' \in [Halls -> SUBSET Nicks] /\ seats'[r0] = seats[r0] \cup {Me}
        /\ \A r \in Halls \ {r0} : seats'[r] = seats[r]
    BY <2>1, <1>2, <1>3, RoomsAssumption
  <2> DEFINE A == seats[r0] \ {Me}
             w == RO!Coming(r0, A) \o RO!Coming(r0, {Me})
  <2>3. A \in SUBSET Nicks /\ A \subseteq seats'[r0] /\ Me \in seats'[r0] /\ A \cup {Me} = seats'[r0]
    BY <2>2, <1>2, <1>3
  <2>4. /\ w \in Seq(Stanzas)
        /\ \A h, n : Silent(w, h, n) <=> (h # r0 \/ n \notin (A \cup {Me}))
        /\ \A h, n : Agrees(w, h, n, seats'[r0])
    <3>1. PICK T : T = seats'[r0]
      OBVIOUS
    <3>2. A \in SUBSET Nicks /\ A \subseteq T /\ Me \in T /\ r0 \in Halls
      BY <2>3, <3>1, <1>2
    <3> HIDE DEF A, r0
    <3>3. /\ w \in Seq(Stanzas)
          /\ \A h, n : Silent(w, h, n) <=> (h # r0 \/ n \notin (A \cup {Me}))
          /\ \A h, n : Agrees(w, h, n, T)
      BY <3>2, Answer
    <3> QED
      BY <3>1, <3>3
  <2>5. down' = down \o w
    <3>1. RO!Coming(r0, A) \in Seq(Stanzas) /\ RO!Coming(r0, {Me}) \in Seq(Stanzas)
      BY ZenonT(60), <2>3, <1>2, Arrivals, RoomsAssumption
    <3> HIDE DEF A
    <3> QED
      BY <3>1, <2>1, <1>1, ConcatAssociative DEF A
  <2> HIDE DEF A, w
  <2>6. /\ down' \in Seq(Stanzas)
        /\ \A r, n : Silent(down', r, n) <=> Silent(down, r, n) /\ Silent(w, r, n)
    BY <2>4, <2>5, <1>1, QueueConcat
  <2>7. \A r \in Halls, n \in Nicks : Agrees(down', r, n, seats'[r])
    <3> SUFFICES ASSUME NEW r \in Halls, NEW n \in Nicks PROVE Agrees(down', r, n, seats'[r])
      OBVIOUS
    <3>1. Agrees(down, r, n, seats'[r])
      <4>1. CASE n \in seats'[r] <=> n \in seats[r]
        BY <4>1, <1>5 DEF Agrees
      <4>2. CASE r = r0 /\ Me \notin seats[r]
        BY <4>2, <1>5 DEF Agrees, Silent, About
      <4>3. \/ n \in seats'[r] <=> n \in seats[r]
            \/ r = r0 /\ Me \notin seats[r]
        BY <2>2
      <4> QED
        BY <4>1, <4>2, <4>3
    <3>2. Agrees(w, r, n, seats'[r])
      <4>1. CASE r = r0
        BY <4>1, <2>4
      <4>2. CASE r # r0
        BY <4>2, <2>4 DEF Agrees, Silent, About
      <4> QED
        BY <4>1, <4>2
    <3> QED
      BY <3>1, <3>2, <2>4, <2>5, <1>1, QueueConcat
  <2>8. RoomsTyped'
    BY <2>1, <2>2, <2>6, <1>3, <1>4, <1>6
  <2>9. \A n \in Nicks : n \in seats'[r0] => ~Silent(down', r0, n)
    BY <2>3, <2>4, <2>6
  <2>10. \A r \in Halls : Holds(up, <<"join", r>>) =>
           \/ Holds(up', <<"join", r>>)
           \/ r = r0 /\ Me \in seats'[r] /\ \A n \in Nicks : n \in seats'[r] => ~Silent(down', r, n)
    BY <2>3, <2>9, <1>1, <1>2
  <2>11. \A n \in Nicks : Silent(down', r0, n) => (n \in seats'[r0] <=> n \in seats[r0])
                                             \/ (Me \notin seats[r0] /\ Me \notin seats'[r0])
    BY <2>2, <2>9
  <2>12. r0 \in joined /\ r0 \in Halls
    BY <1>5, <1>6, <1>2
  <2>13. /\ \A r \in Halls, n \in Nicks : Silent(down', r, n) => Silent(down, r, n)
         /\ \A r \in Halls \ {r0}, n \in Nicks : Silent(down, r, n) => Silent(down', r, n)
    BY <2>4, <2>6
  <2> HIDE DEF r0
  <2> QED
    BY <2>2, <2>3, <2>7, <2>8, <2>9, <2>10, <2>11, <2>12, <2>13, <1>0, <1>1, ServerStep
<1>7. CASE s[1] = "join" /\ r0 \notin exists
  <2> DEFINE e == <<"created", r0>>
  <2>1. /\ seats' = [seats EXCEPT ![r0] = {Me}] /\ down' = Append(down, e)
        /\ exists' = exists \cup {r0} /\ locked' = locked \cup {r0}
    BY <1>7 DEF RO!Serve, s
  <2>2. /\ seats' \in [Halls -> SUBSET Nicks] /\ seats'[r0] = {Me} /\ seats[r0] = {}
        /\ \A r \in Halls \ {r0} : seats'[r] = seats[r]
    BY <2>1, <1>2, <1>3, <1>7, RoomsAssumption
  <2>3. e \in Stanzas
    <3>1. e \in {"created"} \X Halls
      BY <1>2
    <3> HIDE DEF e
    <3> QED
      BY <3>1, Zenon DEF Stanzas
  <2>4. \A r, n : /\ About(e, r, n) <=> (r = r0 /\ n = Me)
                  /\ Comes(e, r, n) <=> (r = r0 /\ n = Me)
                  /\ ~Goes(e, r, n)
    BY DEF About, Comes, Goes
  <2> HIDE DEF e
  <2>5. /\ down' \in Seq(Stanzas)
        /\ \A r, n : Silent(down', r, n) <=> Silent(down, r, n) /\ ~About(e, r, n)
    BY <2>1, <2>3, <1>1, QueueAppend, AppendProperties
  <2>6. \A r \in Halls, n \in Nicks : Agrees(down', r, n, seats'[r])
    <3> SUFFICES ASSUME NEW r \in Halls, NEW n \in Nicks PROVE Agrees(down', r, n, seats'[r])
      OBVIOUS
    <3>1. Agrees(down, r, n, seats'[r])
      <4>1. CASE r # r0
        BY <4>1, <2>2, <1>5
      <4>2. CASE r = r0
        BY <4>2, <2>2, <1>5 DEF Agrees, Silent, About
      <4> QED
        BY <4>1, <4>2
    <3> QED
      BY <3>1, <2>1, <2>2, <2>3, <2>4, <1>1, QueueAppend
  <2>7. RoomsTyped'
    BY <2>1, <2>2, <2>5, <1>2, <1>3, <1>4
  <2>8. \A n \in Nicks : n \in seats'[r0] => ~Silent(down', r0, n)
    BY <2>2, <2>4, <2>5
  <2>9. \A r \in Halls : Holds(up, <<"join", r>>) =>
           \/ Holds(up', <<"join", r>>)
           \/ r = r0 /\ Me \in seats'[r] /\ \A n \in Nicks : n \in seats'[r] => ~Silent(down', r, n)
    BY <2>2, <2>8, <1>1, <1>2
  <2>10. \A n \in Nicks : Silent(down', r0, n) => (n \in seats'[r0] <=> n \in seats[r0])
                                             \/ (Me \notin seats[r0] /\ Me \notin seats'[r0])
    BY <2>2, <2>8
  <2>11. r0 \in joined /\ r0 \in Halls
    BY <1>5, <1>7, <1>2
  <2>12. /\ \A r \in Halls, n \in Nicks : Silent(down', r, n) => Silent(down, r, n)
         /\ \A r \in Halls \ {r0}, n \in Nicks : Silent(down, r, n) => Silent(down', r, n)
    BY <2>4, <2>5
  <2> HIDE DEF r0
  <2> QED
    BY <2>2, <2>6, <2>7, <2>8, <2>9, <2>10, <2>11, <2>12, <1>0, <1>1, ServerStep
<1>8. ASSUME s[1] # "join", NEW e \in Stanzas, \A r, n : ~About(e, r, n),
             down' = down \/ down' = Append(down, e),
             UNCHANGED <<exists, seats>>, locked' \subseteq locked
      PROVE  RoomsInv'
  <2>1. down' \in Seq(Stanzas)
    BY <1>1, <1>8, AppendProperties
  <2>2. RoomsTyped'
    BY <2>1, <1>3, <1>4, <1>8
  <2>3. \A r \in Halls : Holds(up, <<"join", r>>) => Holds(up', <<"join", r>>)
    BY <1>1, <1>2, <1>8
  <2> HIDE DEF r0
  <2> QED
    BY <2>2, <2>3, <1>0, <1>1, <1>2, <1>8, ServerTells
<1>9. \A x \in {"form", "configured"} :
        <<x, r0>> \in Stanzas /\ \A r, n : ~About(<<x, r0>>, r, n)
  <2> SUFFICES ASSUME NEW x \in {"form", "configured"}
               PROVE  <<x, r0>> \in Stanzas /\ \A r, n : ~About(<<x, r0>>, r, n)
    OBVIOUS
  <2>1. <<x, r0>> \in RoomsOthers
    BY <1>2 DEF RoomsOthers
  <2>2. <<x, r0>> \in Stanzas
    BY <2>1, Zenon DEF Stanzas
  <2>3. <<x, r0>>[1] \notin {"available", "unavailable", "created"}
    OBVIOUS
  <2> QED
    BY <2>2, <2>3, StanzaKinds
<1>10. CASE s[1] = "form"
  <2>1. down' = Append(down, s) /\ UNCHANGED <<exists, seats, locked>>
    BY <1>10 DEF RO!Serve, s
  <2>2. s = <<"form", r0>>
    BY <1>2, <1>10
  <2> QED
    BY <2>1, <2>2, <1>8, <1>9, <1>10
<1>11. CASE s[1] = "configure"
  <2>1. down' = Append(down, <<"configured", r0>>) /\ UNCHANGED <<exists, seats>>
        /\ locked' \subseteq locked
    BY <1>11 DEF RO!Serve, s
  <2> QED
    BY <2>1, <1>8, <1>9, <1>11
<1>12. CASE s[1] = "invite"
  <2>1. down' = down /\ UNCHANGED <<exists, seats, locked>>
    BY <1>12 DEF RO!Serve, s
  <2> QED
    BY <2>1, <1>8, <1>9, <1>12
<1> QED
  BY <1>2, <1>6, <1>7, <1>10, <1>11, <1>12

LEMMA InviteStep == \A r \in Halls : RoomsInv /\ RO!Invite(r) => RoomsInv'
<1> SUFFICES ASSUME NEW r \in Halls, RoomsInv, RO!Invite(r) PROVE RoomsInv'
  OBVIOUS
<1> DEFINE e == <<"invitation", r>>
<1>0. /\ online /\ down' = Append(down, e)
      /\ UNCHANGED <<RO!chatVars, orders, online, joined, occupants, up, roomsEvents, exists, seats,
                     locked>>
      /\ UNCHANGED <<paper, registered, panel, form, invites, dialog, active, missed>>
  BY Zenon DEF RO!Invite, RO!chatVars, RO!serverVars
<1>1. e \in Stanzas /\ \A h, n : ~About(e, h, n)
  <2>1. e \in RoomsOthers /\ e[1] \notin {"available", "unavailable", "created"}
    BY DEF RoomsOthers
  <2> HIDE DEF e
  <2>2. e \in Stanzas
    BY <2>1, Zenon DEF Stanzas
  <2> QED
    BY <2>1, <2>2, StanzaKinds
<1> HIDE DEF e
<1>2. down' \in Seq(Stanzas)
  BY <1>0, <1>1, AppendProperties DEF RoomsInv, RoomsTyped
<1>3. RO!TypeOK'
  BY <1>0 DEF RoomsInv, RoomsTyped, RO!TypeOK
<1>4. RoomsTyped'
  BY <1>0, <1>2, <1>3 DEF RoomsInv, RoomsTyped
<1> QED
  BY <1>0, <1>1, <1>4, ServerTells

LEMMA SeatChangesStep ==
  \A r0 \in Halls, n0 \in Nicks : RoomsInv /\ RO!SeatChanges(r0, n0) => RoomsInv'
<1> SUFFICES ASSUME NEW r0 \in Halls, NEW n0 \in Nicks, RoomsInv, RO!SeatChanges(r0, n0)
             PROVE  RoomsInv'
  OBVIOUS
<1> DEFINE e == <<IF n0 \in seats[r0] THEN "unavailable" ELSE "available", r0, n0>>
<1>0. /\ r0 \in exists /\ n0 # Me
      /\ seats' = [seats EXCEPT ![r0] = IF n0 \in @ THEN @ \ {n0} ELSE @ \cup {n0}]
      /\ down' = IF Me \in seats[r0] THEN Append(down, e) ELSE down
      /\ UNCHANGED <<RO!chatVars, orders, online, joined, occupants, up, roomsEvents, exists, locked>>
      /\ UNCHANGED <<paper, registered, panel, form, invites, dialog, active, missed>>
  BY Zenon DEF RO!SeatChanges, RO!chatVars
<1>1. /\ seats \in [Halls -> SUBSET Nicks] /\ down \in Seq(Stanzas)
      /\ \A r \in Halls \ exists : seats[r] = {}
  BY DEF RoomsInv, RoomsTyped
<1>2. /\ seats' \in [Halls -> SUBSET Nicks]
      /\ \A r \in Halls \ {r0} : seats'[r] = seats[r]
      /\ \A n \in Nicks : n # n0 => (n \in seats'[r0] <=> n \in seats[r0])
      /\ n0 \in seats'[r0] <=> n0 \notin seats[r0]
      /\ Me \in seats'[r0] <=> Me \in seats[r0]
  BY <1>0, <1>1, RoomsAssumption
<1>3. /\ e \in Stanzas
      /\ \A r, n : About(e, r, n) <=> (r = r0 /\ n = n0)
      /\ Comes(e, r0, n0) <=> n0 \in seats'[r0]
      /\ Goes(e, r0, n0) <=> n0 \notin seats'[r0]
  <2>1. PICK x \in {"available", "unavailable"} :
          x = (IF n0 \in seats[r0] THEN "unavailable" ELSE "available")
    OBVIOUS
  <2>2. e = <<x, r0, n0>> /\ (x = "available" <=> n0 \in seats'[r0])
    BY <2>1, <1>2
  <2> HIDE DEF e
  <2>3. e \in Presences /\ e[1] = x /\ e[2] = r0 /\ e[3] = n0
    BY <2>2 DEF Presences
  <2>4. e \in Stanzas
    BY <2>3, Zenon DEF Stanzas
  <2> QED
    BY <2>2, <2>3, <2>4, StanzaKinds
<1> HIDE DEF e
<1>4. /\ \A r \in Halls : Me \notin seats[r] => \A n \in Nicks : Silent(down, r, n)
      /\ \A r \in Halls, n \in Nicks : Agrees(down, r, n, seats[r])
      /\ \A r \in Halls : Me \in seats[r] => r \in joined /\ online
  BY DEF RoomsInv, SessionsOK, EngineOK
<1>5. down' \in Seq(Stanzas)
  BY <1>0, <1>1, <1>3, AppendProperties
<1>6. RoomsTyped'
  <2>1. ~online => down' = <<>>
    BY <1>0, <1>4 DEF RoomsInv, RoomsTyped, RO!TypeOK
  <2>2. RO!TypeOK'
    BY <2>1, <1>0 DEF RoomsInv, RoomsTyped, RO!TypeOK
  <2>3. \A r \in Halls \ exists : seats'[r] = {}
    BY <1>0, <1>1, <1>2
  <2> QED
    BY <2>2, <2>3, <1>0, <1>2, <1>5 DEF RoomsInv, RoomsTyped
<1>7. CASE Me \in seats[r0]
  <2>1. \A r, n : Silent(down', r, n) <=> Silent(down, r, n) /\ ~About(e, r, n)
    BY <1>0, <1>1, <1>3, <1>7, QueueAppend
  <2>2. \A r \in Halls, n \in Nicks : Agrees(down', r, n, seats'[r])
    <3> SUFFICES ASSUME NEW r \in Halls, NEW n \in Nicks PROVE Agrees(down', r, n, seats'[r])
      OBVIOUS
    <3>1. CASE About(e, r, n)
      BY <3>1, <1>0, <1>1, <1>3, <1>7, QueueAppend
    <3>2. CASE ~About(e, r, n)
      <4>1. n \in seats'[r] <=> n \in seats[r]
        BY <3>2, <1>2, <1>3
      <4>2. Agrees(down, r, n, seats'[r])
        BY <4>1, <1>4 DEF Agrees
      <4> QED
        BY <4>2, <3>2, <1>0, <1>1, <1>3, <1>7, QueueAppend
    <3> QED
      BY <3>1, <3>2
  <2>3. \A n \in Nicks : Silent(down', r0, n) => (n \in seats'[r0] <=> n \in seats[r0])
    BY <2>1, <1>2, <1>3
  <2>4. /\ \A r \in Halls, n \in Nicks : Silent(down', r, n) => Silent(down, r, n)
        /\ \A r \in Halls \ {r0}, n \in Nicks : Silent(down, r, n) => Silent(down', r, n)
    BY <2>1, <1>3
  <2> QED
    BY <2>2, <2>3, <2>4, <1>0, <1>2, <1>4, <1>6, <1>7, ServerStep
<1>8. CASE Me \notin seats[r0]
  <2>1. down' = down
    BY <1>0, <1>8
  <2>2. \A r \in Halls, n \in Nicks : Agrees(down, r, n, seats'[r])
    <3> SUFFICES ASSUME NEW r \in Halls, NEW n \in Nicks PROVE Agrees(down, r, n, seats'[r])
      OBVIOUS
    <3>1. CASE r # r0
      BY <3>1, <1>2, <1>4
    <3>2. CASE r = r0
      BY <3>2, <1>4, <1>8 DEF Agrees, Silent, About
    <3> QED
      BY <3>1, <3>2
  <2>3. CASE online
    <3>1. Me \notin seats'[r0] /\ \A n \in Nicks : Silent(down', r0, n)
      BY <2>1, <1>2, <1>4, <1>8
    <3>2. /\ \A i \in DOMAIN up' : \E j \in DOMAIN up : up'[i] = up[j]
          /\ \A r \in Halls : Holds(up, <<"join", r>>) => Holds(up', <<"join", r>>)
      BY <1>0
    <3>3. /\ \A r \in Halls, n \in Nicks : Agrees(down', r, n, seats'[r])
          /\ \A r \in Halls, n \in Nicks : Silent(down', r, n) => Silent(down, r, n)
          /\ \A r \in Halls \ {r0}, n \in Nicks : Silent(down, r, n) => Silent(down', r, n)
      BY <2>1, <2>2
    <3> QED
      BY <2>3, <3>1, <3>2, <3>3, <1>0, <1>2, <1>6, <1>8, ServerStep
  <2>4. CASE ~online
    <3>1. \A r \in Halls : Me \notin seats'[r]
      BY <2>4, <1>2, <1>4, <1>8
    <3>2. SessionsOK'
      BY <2>4, <3>1, <1>0 DEF RoomsInv, SessionsOK
    <3>3. EngineOK'
      <4>1. \A r \in Halls : occupants[r] = {} /\ \A n \in Nicks : Silent(down, r, n)
        BY <2>4, <1>4 DEF RoomsInv, EngineOK
      <4> QED
        BY <4>1, <3>1, <2>1, <2>2, <1>0 DEF EngineOK
    <3>4. EventsOK' /\ PanelOK'
      BY <2>4, <1>0 DEF EventsOK, PanelOK, Live
    <3> QED
      BY <3>2, <3>3, <3>4, <1>6 DEF RoomsInv
  <2> QED
    BY <2>3, <2>4
<1> QED
  BY <1>7, <1>8


LEMMA RoomsStep == RoomsInv /\ RO!Next => RoomsInv'
<1> SUFFICES ASSUME RoomsInv, RO!Next PROVE RoomsInv'
  OBVIOUS
<1>1. \/ \/ RO!OpenInviteDialog \/ RO!CloseInviteDialog \/ RO!SubmitRoomConfig
         \/ RO!DismissRoomConfig \/ RO!Cover \/ RO!GoBack
         \/ \E r \in Halls : RO!JoinRoom(r) \/ RO!AcceptInvitation(r) \/ RO!DeclineInvitation(r)
                               \/ RO!Prefilled(r)
      \/ RO!HandleEvent \/ RO!Dispatch \/ RO!Online \/ RO!SessionEnd \/ RO!Serve
      \/ \E o \in orders : RO!Command(o)
      \/ \E r \in Halls : RO!Invite(r)
      \/ \E r \in Halls : \E n \in Nicks : RO!SeatChanges(r, n)
  BY Zenon DEF RO!Next
<1> QED
  BY <1>1, UserActions, HandleEventStep, DispatchStep, OnlineStep, SessionEndStep, ServeStep,
     CommandStep, InviteStep, SeatChangesStep

LEMMA RoomsStutter == RoomsInv /\ UNCHANGED RO!vars => RoomsInv'
  BY DEF RoomsInv, RoomsTyped, RO!TypeOK, SessionsOK, EngineOK, EventsOK, PanelOK, Live, RO!vars,
     RO!chatVars, RO!streamVars, RO!serverVars, RO!bounds

LEMMA RoomsHeld == RoomsInv => RO!TypeOK /\ RO!PanelAgrees
<1> SUFFICES ASSUME RoomsInv PROVE RO!TypeOK /\ RO!PanelAgrees
  OBVIOUS
<1>1. RO!TypeOK
  BY DEF RoomsInv, RoomsTyped
<1>2. RO!PanelAgrees
  <2> SUFFICES ASSUME online, orders = {}, up = <<>>, down = <<>>, roomsEvents = <<>>,
                      NEW r \in (registered \cap joined) \ missed
               PROVE  panel[r] = occupants[r] /\ panel[r] = seats[r]
    BY DEF RO!PanelAgrees
  <2>1. /\ r \in Halls /\ panel[r] \subseteq Nicks /\ occupants[r] \subseteq Nicks
        /\ seats[r] \subseteq Nicks
    BY DEF RoomsInv, RoomsTyped, RO!TypeOK
  <2>2. Live /\ \A n \in Nicks : Silent(roomsEvents, r, n) /\ Silent(down, r, n)
    BY QueueEmpty DEF Live
  <2>3. ~Holds(up, <<"join", r>>) /\ <<"join", r>> \notin orders
    BY QueueEmpty
  <2>4. Me \in seats[r]
    BY <2>1, <2>3 DEF RoomsInv, SessionsOK
  <2>5. \A n \in Nicks : n \in occupants[r] <=> n \in seats[r]
    BY <2>1, <2>2, <2>3, <2>4 DEF RoomsInv, EngineOK
  <2>6. \A n \in Nicks : n \in panel[r] <=> n \in seats[r]
    BY <2>1, <2>2, <2>3, <2>4 DEF RoomsInv, PanelOK
  <2> QED
    BY <2>1, <2>5, <2>6
<1> QED
  BY <1>1, <1>2

-----------------------------------------------------------------------------
(* Timeline: a line never changes who wrote it.                            *)

LinesOK ==
  /\ lines \in Seq(TI!Lines) /\ kept \in Seq(TI!Lines) /\ Len(lines) <= MaxLines /\ Len(kept) <= MaxLines
  /\ minute \in 0..MaxClock

CountersOK ==
  /\ timelinePresses \in 0..MaxTimelinePresses /\ loads \in 0..timelinePresses
  /\ lastSeen \in 0..MaxLines /\ atOpening \in 0..MaxLines

FieldOK == timelineTyped \in TI!Drafts /\ {searchOpen, searching, completes, picker} \subseteq BOOLEAN

TimelineMarksOK == {replyTo, editMode, hovered} \subseteq 0..(2 * MaxLines) /\ pointer \in 0..MaxLines

TimelineInv == LinesOK /\ CountersOK /\ FieldOK /\ TimelineMarksOK

LEMMA DraftsAre == "" \in TI!Drafts /\ "plain" \in TI!Drafts /\ "@pre" \in TI!Drafts /\ "@bob and" \in TI!Drafts
  BY Zenon DEF TI!Drafts

LEMMA LeastNat ==
  ASSUME NEW T, T \subseteq Nat, T # {}
  PROVE  \E x \in T : \A y \in T : x <= y
<1>1. PICK x \in T : \A y \in T : ~(<<y, x>> \in OpToRel(<, Nat))
  BY NatLessThanWellFounded, WFMin
<1>2. \A y \in T : ~(y < x)
  BY <1>1 DEF OpToRel
<1> QED
  BY <1>2

LEMMA GreatestNat ==
  ASSUME NEW b \in Nat, NEW T, T \subseteq 0..b, T # {}
  PROVE  \E x \in T : \A y \in T : y <= x
<1> DEFINE U == {b - x : x \in T}
<1>1. U \subseteq Nat /\ U # {}
  <2>1. ASSUME NEW x \in T PROVE b - x \in Nat
    BY <2>1
  <2> QED
    BY <2>1
<1>2. PICK u \in U : \A w \in U : u <= w
  BY <1>1, LeastNat
<1>3. PICK x \in T : u = b - x
  OBVIOUS
<1>4. ASSUME NEW y \in T PROVE y <= x
  <2>1. b - x <= b - y
    BY <1>2, <1>3
  <2>2. x \in Int /\ y \in Int /\ b \in Int
    BY <1>3
  <2> HIDE DEF U
  <2> QED
    BY <2>1, <2>2
<1> QED
  BY <1>3, <1>4

LEMMA LabelsHold == ASSUME lines \in Seq(TI!Lines) PROVE TI!LabelSurvivesSearch
<1>0. /\ TI!Shown \subseteq 1..Len(lines) /\ Len(lines) \in Nat /\ TI!Shown \subseteq 0..Len(lines)
      /\ TI!Shown \subseteq Nat
  <2>1. DOMAIN lines = 1..Len(lines) /\ Len(lines) \in Nat
    BY LenProperties
  <2>2. 1..Len(lines) \subseteq 0..Len(lines) /\ 0..Len(lines) \subseteq Nat
    BY <2>1
  <2>3. TI!Shown \subseteq DOMAIN lines
    BY Zenon DEF TI!Shown
  <2> QED
    BY <2>1, <2>2, <2>3, Zenon
<1>1. SUFFICES ASSUME NEW i \in TI!Shown
               PROVE  \E j \in TI!Shown :
                        /\ j <= i /\ (TI!ShowSender(j) \/ lines[j].gone)
                        /\ \A k \in TI!Shown : j <= k /\ k <= i => lines[k].who = lines[i].who
  BY DEF TI!LabelSurvivesSearch
<1> DEFINE Upto == {j \in TI!Shown : j <= i}
           Labelled == {j \in Upto : TI!ShowSender(j)}
<1>2. ASSUME NEW k \in Upto, NEW k0 \in Upto, k0 < k
      PROVE  \E j \in TI!Before(k) : TRUE
  <2> DEFINE B == {j \in TI!Shown : j < k}
  <2>1. B \subseteq 0..Len(lines) /\ B # {}
    <3>1. B \subseteq TI!Shown /\ k0 \in B
      BY <1>2, Zenon
    <3> QED
      BY <1>0, <3>1, Zenon
  <2>2. PICK j \in B : \A x \in B : x <= j
    BY <1>0, <2>1, GreatestNat
  <2> QED
    BY <2>2 DEF TI!Before
<1>3. Labelled # {}
  <2>1. Upto \subseteq Nat /\ Upto # {}
    <3>1. Upto \subseteq TI!Shown /\ i \in Upto
      BY <1>0, <1>1
    <3> QED
      BY <1>0, <3>1, Zenon
  <2>2. PICK f \in Upto : \A x \in Upto : f <= x
    BY <2>1, LeastNat
  <2>3. TI!Before(f) = {}
    <3>1. ASSUME NEW j \in TI!Before(f) PROVE FALSE
      <4>1. j \in TI!Shown /\ j < f
        BY <3>1 DEF TI!Before
      <4>2. j \in Upto
        BY <1>0, <1>1, <2>2, <4>1
      <4> QED
        BY <1>0, <2>1, <2>2, <4>1, <4>2
    <3> QED
      BY <3>1
  <2> QED
    BY <2>2, <2>3 DEF TI!ShowSender
<1>4. PICK j \in Labelled : \A x \in Labelled : x <= j
  <2>1. Labelled \subseteq 0..Len(lines)
    BY <1>0, Zenon
  <2> QED
    BY <1>0, <1>3, <2>1, GreatestNat
<1> DEFINE Odd == {k \in Upto : j <= k /\ lines[k].who # lines[i].who}
<1>5. ASSUME Odd # {} PROVE FALSE
  <2>1. Odd \subseteq 0..Len(lines)
    BY <1>0, Zenon
  <2>2. PICK k \in Odd : \A x \in Odd : x <= k
    BY <1>0, <1>5, <2>1, GreatestNat
  <2> DEFINE After == {x \in Upto : k < x}
  <2>3. k < i /\ i \in After
    BY <1>0, <1>1, <2>2
  <2>4. After \subseteq Nat /\ After # {}
    BY <1>0, <2>3, Zenon
  <2>5. PICK m \in After : \A x \in After : m <= x
    BY <2>4, LeastNat
  <2>6. m \in Upto /\ m \notin Labelled /\ lines[m].who = lines[i].who /\ k < m
    BY <1>0, <1>4, <2>2, <2>5
  <2>7. PICK p \in TI!Before(m) : ~(lines[p].who # lines[m].who \/ lines[m].at > lines[p].at + 1)
    BY <2>6 DEF TI!ShowSender
  <2>8. p \in TI!Shown /\ p < m /\ k <= p
    BY <1>0, <2>2, <2>6, <2>7 DEF TI!Before
  <2>9. p = k
    BY <1>0, <1>1, <2>2, <2>5, <2>6, <2>8
  <2> QED
    BY <2>2, <2>6, <2>7, <2>9
<1> QED
  BY <1>0, <1>1, <1>4, <1>5

LEMMA Numbers ==
  /\ MaxLines \in Nat /\ MaxClock \in Nat /\ MaxTimelinePresses \in Nat
  /\ Kept \in Seq(TI!Lines) /\ Len(Kept) <= MaxLines
  BY TimelineAssumption

LEMMA LineTyped ==
  ASSUME NEW id \in 1..(2 * MaxLines), NEW who \in Others \cup {Self}, NEW text \in TI!Drafts,
         NEW at \in 0..MaxClock, NEW hit \in BOOLEAN
  PROVE  TI!Line(id, who, text, at, hit) \in TI!Lines
  BY DEF TI!Line, TI!Lines

LEMMA LineMoved ==
  ASSUME NEW m \in TI!Lines, NEW id \in 1..(2 * MaxLines) PROVE [m EXCEPT !.id = id] \in TI!Lines
  BY DEF TI!Lines

LEMMA LineFields ==
  ASSUME NEW m \in TI!Lines PROVE m.id \in 1..(2 * MaxLines) /\ m.text \in TI!Drafts
  BY DEF TI!Lines

LEMMA EditedLine ==
  ASSUME NEW m \in TI!Lines, NEW text \in TI!Drafts
  PROVE  [m EXCEPT !.text = text, !.edited = TRUE] \in TI!Lines
  BY DEF TI!Lines

LEMMA GoneLine == ASSUME NEW m \in TI!Lines PROVE [m EXCEPT !.gone = TRUE] \in TI!Lines
  BY DEF TI!Lines

LEMMA LinesStep == ASSUME LinesOK, timelineTyped \in TI!Drafts, TI!Next PROVE LinesOK'
<1>0. /\ lines \in Seq(TI!Lines) /\ kept \in Seq(TI!Lines) /\ Len(lines) <= MaxLines /\ Len(kept) <= MaxLines
      /\ minute \in 0..MaxClock /\ Len(lines) \in Nat /\ Len(kept) \in Nat
  BY LenProperties DEF LinesOK
<1>1. CASE TI!Receive
  <2>1. PICK who \in Others, hit \in BOOLEAN :
          /\ lines' = Append(lines, TI!Line(Len(kept) + 1, who, "plain", minute, hit))
          /\ kept' = Append(kept, TI!Line(Len(kept) + 1, who, "plain", minute, hit))
    BY <1>1, Zenon DEF TI!Receive
  <2> DEFINE m == TI!Line(Len(kept) + 1, who, "plain", minute, hit)
  <2>2. Len(lines) < MaxLines /\ Len(kept) < MaxLines /\ minute' = minute
    BY <1>1, Zenon DEF TI!Receive
  <2>3. Len(kept) + 1 \in 1..(2 * MaxLines)
    BY <1>0, <2>2, Numbers
  <2>4. m \in TI!Lines
    BY <1>0, <2>3, DraftsAre, LineTyped, Zenon
  <2> HIDE DEF m
  <2>5. lines' = Append(lines, m) /\ kept' = Append(kept, m)
    BY <2>1, Zenon DEF m
  <2> QED
    BY <1>0, <2>2, <2>4, <2>5, AppendProperties, Numbers DEF LinesOK
<1>2. CASE TI!Send
  <2>1. CASE editMode # 0
    <3>1. /\ lines' = [i \in DOMAIN lines |->
                         IF lines[i].id = editMode
                           THEN [lines[i] EXCEPT !.text = timelineTyped, !.edited = TRUE] ELSE lines[i]]
          /\ kept' = kept /\ minute' = minute
      BY <1>2, <2>1, Zenon DEF TI!Send
    <3>2. DOMAIN lines = 1..Len(lines) /\ \A i \in 1..Len(lines) : lines[i] \in TI!Lines
      BY <1>0, LenProperties, ElementOfSeq
    <3>3. \A i \in 1..Len(lines) : lines'[i] \in TI!Lines
      BY <3>1, <3>2, EditedLine
    <3>4. lines' \in [1..Len(lines) -> TI!Lines]
      BY <3>1, <3>2, <3>3
    <3>5. lines' \in Seq(TI!Lines) /\ Len(lines') = Len(lines)
      BY <1>0, <3>4, SeqDef, LenProperties
    <3> QED
      BY <1>0, <3>1, <3>5 DEF LinesOK
  <2>2. CASE editMode = 0
    <3> DEFINE m == TI!Line(Len(kept) + 1, Self, timelineTyped, minute, FALSE)
               mine == [m EXCEPT !.id = m.id + MaxLines]
    <3>1. /\ Len(lines) < MaxLines /\ Len(kept) < MaxLines /\ minute' = minute
          /\ lines' = Append(lines, mine) /\ kept' = Append(kept, m)
      BY <1>2, <2>2, Zenon DEF TI!Send
    <3>2. Len(kept) + 1 \in 1..(2 * MaxLines) /\ Len(kept) + 1 + MaxLines \in 1..(2 * MaxLines)
      BY <1>0, <3>1, Numbers
    <3>3. m.id = Len(kept) + 1
      BY DEF TI!Line
    <3>4. Self \in Others \cup {Self} /\ FALSE \in BOOLEAN
      OBVIOUS
    <3>5. m \in TI!Lines
      BY <1>0, <3>2, <3>4, LineTyped
    <3> HIDE DEF m
    <3>6. mine \in TI!Lines
      BY <3>2, <3>3, <3>5, LineMoved
    <3> HIDE DEF m, mine
    <3> QED
      BY <1>0, <3>1, <3>5, <3>6, AppendProperties, Numbers DEF LinesOK
  <2> QED
    BY <2>1, <2>2
<1>3. CASE TI!MessagesLoaded
  <2>1. lines' = kept /\ kept' = kept /\ minute' = minute
    BY <1>3, Zenon DEF TI!MessagesLoaded
  <2> QED
    BY <1>0, <2>1 DEF LinesOK
<1>4. CASE TI!Tick
  <2>1. UNCHANGED <<lines, kept>> /\ minute < MaxClock /\ minute' = minute + 1
    BY <1>4, Zenon DEF TI!Tick
  <2> QED
    BY <1>0, <2>1, Numbers DEF LinesOK
<1>5. ASSUME NEW i \in DOMAIN lines, TI!RetractMessage(i) PROVE LinesOK'
  <2>1. UNCHANGED <<kept, minute>> /\ lines' = [lines EXCEPT ![i] = [lines[i] EXCEPT !.gone = TRUE]]
    BY <1>5 DEF TI!RetractMessage
  <2>2. i \in 1..Len(lines) /\ lines[i] \in TI!Lines
    BY <1>0, LenProperties, ElementOfSeq
  <2>3. [lines[i] EXCEPT !.gone = TRUE] \in TI!Lines
    BY <2>2, GoneLine
  <2>4. lines' \in Seq(TI!Lines) /\ Len(lines') = Len(lines)
    BY <1>0, <2>1, <2>2, <2>3, ExceptSeq
  <2> QED
    BY <1>0, <2>1, <2>4 DEF LinesOK
<1>6. CASE \/ TI!SelectContact \/ (\E v \in TI!Drafts : TI!ComposerChanged(v))
           \/ TI!EmojiPickerToggled \/ TI!EmojiSelected \/ TI!MentionSelected \/ TI!MentionDismissed
           \/ TI!CancelReply \/ TI!CancelEdit \/ (\E i \in DOMAIN lines : TI!ReplyTo(i) \/ TI!StartEdit(i))
           \/ TI!SearchToggled \/ TI!SearchQueryChanged \/ \E i \in 0..MaxLines : TI!SetHoveredMessage(i)
  <2>1. UNCHANGED <<lines, kept, minute>>
    BY <1>6, Zenon DEF TI!SelectContact, TI!ComposerChanged, TI!EmojiPickerToggled,
       TI!EmojiSelected,
       TI!MentionSelected, TI!MentionDismissed, TI!CancelReply, TI!CancelEdit, TI!ReplyTo,
       TI!StartEdit,
       TI!SearchToggled, TI!SearchQueryChanged, TI!SetHoveredMessage
  <2> QED
    BY <2>1, Zenon DEF LinesOK
<1> QED
  BY <1>1, <1>2, <1>3, <1>4, <1>5, <1>6, Zenon DEF TI!Next

LEMMA CountersStep == ASSUME CountersOK, LinesOK, TI!Next PROVE CountersOK'
<1>0. /\ timelinePresses \in 0..MaxTimelinePresses /\ loads \in 0..timelinePresses
      /\ lastSeen \in 0..MaxLines /\ atOpening \in 0..MaxLines /\ MaxTimelinePresses \in Nat
  BY Numbers DEF CountersOK
<1>1. CASE TI!SelectContact
  <2>1. /\ timelinePresses < MaxTimelinePresses /\ timelinePresses' = timelinePresses + 1 /\ loads' = loads + 1
        /\ lastSeen' = Len(lines) /\ atOpening' = Len(kept)
    BY <1>1, Zenon DEF TI!SelectContact, TI!Press
  <2>2. Len(lines) \in 0..MaxLines /\ Len(kept) \in 0..MaxLines
    BY LenProperties, Numbers DEF LinesOK
  <2> QED
    BY <1>0, <2>1, <2>2 DEF CountersOK
<1>2. CASE ~TI!SelectContact
  <2>1. /\ UNCHANGED <<lastSeen, atOpening>>
        /\ \/ timelinePresses' = timelinePresses /\ loads > 0 /\ loads' = loads - 1
           \/ timelinePresses' = timelinePresses /\ loads' = loads
           \/ timelinePresses < MaxTimelinePresses /\ timelinePresses' = timelinePresses + 1 /\ loads' = loads
    <3>1. CASE TI!Receive \/ TI!MessagesLoaded \/ TI!Tick
      BY <3>1, Zenon DEF TI!Receive, TI!MessagesLoaded, TI!Tick, TI!seen
    <3>2. CASE \/ (\E v \in TI!Drafts : TI!ComposerChanged(v))
               \/ TI!EmojiPickerToggled \/ TI!EmojiSelected \/ TI!MentionSelected \/ TI!MentionDismissed
               \/ TI!CancelReply \/ TI!CancelEdit \/ TI!Send
      BY <3>2, Zenon DEF TI!ComposerChanged, TI!EmojiPickerToggled, TI!EmojiSelected,
         TI!MentionSelected,
         TI!MentionDismissed, TI!CancelReply, TI!CancelEdit, TI!Send, TI!Press, TI!seen
    <3>3. CASE \/ (\E i \in DOMAIN lines : TI!ReplyTo(i) \/ TI!StartEdit(i) \/ TI!RetractMessage(i))
               \/ TI!SearchToggled \/ TI!SearchQueryChanged \/ \E i \in 0..MaxLines : TI!SetHoveredMessage(i)
      BY <3>3, Zenon DEF TI!ReplyTo, TI!StartEdit, TI!RetractMessage, TI!SearchToggled,
         TI!SearchQueryChanged,
         TI!SetHoveredMessage, TI!Press, TI!seen
    <3> QED
      BY <1>2, <3>1, <3>2, <3>3, Zenon DEF TI!Next
  <2> QED
    BY <1>0, <2>1 DEF CountersOK
<1> QED
  BY <1>1, <1>2

LEMMA FieldStep == ASSUME FieldOK, LinesOK, TI!Next PROVE FieldOK'
<1>0. /\ timelineTyped \in TI!Drafts /\ searchOpen \in BOOLEAN /\ searching \in BOOLEAN
      /\ completes \in BOOLEAN /\ picker \in BOOLEAN
  BY Zenon DEF FieldOK
<1> SUFFICES /\ timelineTyped' \in TI!Drafts /\ searchOpen' \in BOOLEAN /\ searching' \in BOOLEAN
             /\ completes' \in BOOLEAN /\ picker' \in BOOLEAN
  BY Zenon DEF FieldOK
<1>1. CASE TI!Receive \/ TI!SelectContact \/ TI!MessagesLoaded \/ TI!Tick
  BY <1>0, <1>1, Zenon DEF TI!Receive, TI!SelectContact, TI!MessagesLoaded, TI!Tick, TI!field,
     TI!find
<1>2. ASSUME NEW v \in TI!Drafts, TI!ComposerChanged(v)
      PROVE  /\ timelineTyped' \in TI!Drafts /\ searchOpen' \in BOOLEAN /\ searching' \in BOOLEAN
             /\ completes' \in BOOLEAN /\ picker' \in BOOLEAN
  BY <1>0, <1>2, Zenon DEF TI!ComposerChanged, TI!find
<1>3. CASE TI!EmojiPickerToggled \/ TI!EmojiSelected \/ TI!MentionSelected \/ TI!MentionDismissed
  BY <1>0, <1>3, DraftsAre, Zenon DEF TI!EmojiPickerToggled, TI!EmojiSelected, TI!MentionSelected,
     TI!MentionDismissed, TI!find
<1>4. CASE TI!CancelReply \/ TI!CancelEdit \/ TI!Send
  BY <1>0, <1>4, DraftsAre, Zenon DEF TI!CancelReply, TI!CancelEdit, TI!Send, TI!find
<1>5. ASSUME NEW i \in DOMAIN lines, TI!ReplyTo(i) \/ TI!StartEdit(i) \/ TI!RetractMessage(i)
      PROVE  /\ timelineTyped' \in TI!Drafts /\ searchOpen' \in BOOLEAN /\ searching' \in BOOLEAN
             /\ completes' \in BOOLEAN /\ picker' \in BOOLEAN
  <2>1. lines[i] \in TI!Lines
    BY ElementOfSeq, LenProperties DEF LinesOK
  <2>2. lines[i].text \in TI!Drafts
    BY <2>1, LineFields, Zenon
  <2> QED
    BY <1>0, <1>5, <2>2, Zenon DEF TI!ReplyTo, TI!StartEdit, TI!RetractMessage, TI!field, TI!find
<1>6. CASE TI!SearchToggled \/ TI!SearchQueryChanged \/ \E i \in 0..MaxLines : TI!SetHoveredMessage(i)
  BY <1>0, <1>6, Zenon DEF TI!SearchToggled, TI!SearchQueryChanged, TI!SetHoveredMessage,
     TI!field, TI!find
<1> QED
  BY <1>1, <1>2, <1>3, <1>4, <1>5, <1>6, Zenon DEF TI!Next

LEMMA MarksStep == ASSUME TimelineMarksOK, LinesOK, TI!Next PROVE TimelineMarksOK'
<1>0. /\ replyTo \in 0..(2 * MaxLines) /\ editMode \in 0..(2 * MaxLines)
      /\ hovered \in 0..(2 * MaxLines) /\ pointer \in 0..MaxLines
      /\ 0 \in 0..(2 * MaxLines) /\ 0 \in 0..MaxLines
  BY Numbers DEF TimelineMarksOK
<1> SUFFICES /\ replyTo' \in 0..(2 * MaxLines) /\ editMode' \in 0..(2 * MaxLines)
             /\ hovered' \in 0..(2 * MaxLines) /\ pointer' \in 0..MaxLines
  BY Zenon DEF TimelineMarksOK
<1>6. ASSUME NEW i \in DOMAIN lines PROVE lines[i].id \in 0..(2 * MaxLines)
  <2>1. lines[i] \in TI!Lines
    BY ElementOfSeq, LenProperties DEF LinesOK
  <2>2. lines[i].id \in 1..(2 * MaxLines)
    BY <2>1, LineFields, Zenon
  <2> QED
    BY <2>2, Numbers
<1>1. CASE TI!Receive \/ TI!SelectContact \/ TI!MessagesLoaded \/ TI!Tick
  BY <1>0, <1>1, Zenon DEF TI!Receive, TI!SelectContact, TI!MessagesLoaded, TI!Tick, TI!field,
     TI!mouse
<1>2. CASE \/ (\E v \in TI!Drafts : TI!ComposerChanged(v))
           \/ TI!EmojiPickerToggled \/ TI!EmojiSelected \/ TI!MentionSelected \/ TI!MentionDismissed
           \/ TI!CancelReply \/ TI!CancelEdit \/ TI!Send
  BY <1>0, <1>2, Zenon DEF TI!ComposerChanged, TI!EmojiPickerToggled, TI!EmojiSelected,
     TI!MentionSelected,
     TI!MentionDismissed, TI!CancelReply, TI!CancelEdit, TI!Send, TI!mouse
<1>3. ASSUME NEW i \in DOMAIN lines, TI!ReplyTo(i) \/ TI!StartEdit(i) \/ TI!RetractMessage(i)
      PROVE  /\ replyTo' \in 0..(2 * MaxLines) /\ editMode' \in 0..(2 * MaxLines)
             /\ hovered' \in 0..(2 * MaxLines) /\ pointer' \in 0..MaxLines
  BY <1>0, <1>3, <1>6, Zenon DEF TI!ReplyTo, TI!StartEdit, TI!RetractMessage, TI!field, TI!mouse
<1>4. CASE TI!SearchToggled \/ TI!SearchQueryChanged
  BY <1>0, <1>4, Zenon DEF TI!SearchToggled, TI!SearchQueryChanged, TI!field, TI!mouse
<1>5. ASSUME NEW i \in 0..MaxLines, TI!SetHoveredMessage(i)
      PROVE  /\ replyTo' \in 0..(2 * MaxLines) /\ editMode' \in 0..(2 * MaxLines)
             /\ hovered' \in 0..(2 * MaxLines) /\ pointer' \in 0..MaxLines
  <2>1. i \in TI!Shown \cup {0} /\ pointer' = i /\ (hovered' = 0 \/ (i # 0 /\ hovered' = lines[i].id))
        /\ UNCHANGED <<replyTo, editMode>>
    BY <1>5, Zenon DEF TI!SetHoveredMessage, TI!field
  <2>2. i \in TI!Shown => i \in DOMAIN lines
    BY Zenon DEF TI!Shown
  <2> QED
    BY <1>0, <1>6, <2>1, <2>2
<1> QED
  BY <1>1, <1>2, <1>3, <1>4, <1>5, Zenon DEF TI!Next

LEMMA TimelineInit == ASSUME TI!Init PROVE TimelineInv
<1>1. /\ lines = <<>> /\ kept = Kept /\ loads = 0 /\ lastSeen = 0 /\ replyTo = 0 /\ editMode = 0
      /\ pointer = 0 /\ hovered = 0 /\ minute = 0 /\ timelinePresses = 0 /\ atOpening = 0
  BY Zenon DEF TI!Init
<1>2. LinesOK
  BY <1>1, Numbers DEF LinesOK
<1>3. CountersOK /\ TimelineMarksOK
  BY <1>1, Numbers DEF CountersOK, TimelineMarksOK
<1>4. FieldOK
  BY DraftsAre, Zenon DEF TI!Init, FieldOK
<1> QED
  BY <1>2, <1>3, <1>4 DEF TimelineInv

LEMMA TimelineStep == ASSUME TimelineInv, TI!Next PROVE TimelineInv'
<1>1. timelineTyped \in TI!Drafts
  BY Zenon DEF TimelineInv, FieldOK
<1> QED
  BY <1>1, LinesStep, CountersStep, FieldStep, MarksStep DEF TimelineInv

LEMMA TimelineStutter == ASSUME TimelineInv, UNCHANGED TI!tlVars PROVE TimelineInv'
  BY Zenon DEF TI!tlVars, TimelineInv, LinesOK, CountersOK, FieldOK, TimelineMarksOK

LEMMA TimelineHeld == TimelineInv => TI!TypeOK /\ TI!LabelSurvivesSearch
<1> SUFFICES ASSUME TimelineInv PROVE TI!TypeOK /\ TI!LabelSurvivesSearch
  OBVIOUS
<1>1. LinesOK /\ CountersOK /\ FieldOK /\ TimelineMarksOK
  BY DEF TimelineInv
<1>2. loads \in 0..MaxTimelinePresses /\ {lastSeen, atOpening} \subseteq 0..MaxLines
  BY <1>1, Numbers DEF CountersOK
<1>3. TI!TypeOK
  BY <1>1, <1>2, Zenon DEF TI!TypeOK, LinesOK, CountersOK, FieldOK, TimelineMarksOK
<1> QED
  BY <1>1, <1>3, LabelsHold DEF LinesOK

-----------------------------------------------------------------------------
(* Sidebar: the active conversation is listed.                             *)

SidebarCalls == {"add", "join", "create", "rename", "remove"} \X Jids

SidebarMarksOK == archivedJids \subseteq Jids /\ mutedJids \subseteq Jids /\ badges \subseteq Jids
ConvsOK ==
  /\ drafts \subseteq sidebarOpened /\ sidebarOpened \subseteq Jids /\ activeJid \in sidebarOpened \cup {NoJid}
PopupsOK ==
  /\ chatting \in {"no", "yes", "over"} /\ menu \in BOOLEAN
  /\ selected \in Jids \cup {NoJid} /\ profile \in Jids \cup {NoJid} /\ renaming \in Jids \cup {NoJid}
FormsOK == inputs \subseteq forms /\ forms \subseteq SB!Forms
WiresOK ==
  /\ contacts \subseteq Jids /\ asks \subseteq SidebarCalls
  /\ rosters \subseteq ({"table", "server"} \X SUBSET Jids)
  /\ table \subseteq Jids /\ served \subseteq Jids /\ loaded \subseteq Jids
TallyOK == sidebarClicks \in 0..MaxClicks /\ news \in 0..MaxNews /\ sidebarStarts \in 0..MaxStarts

SidebarInv == SidebarMarksOK /\ ConvsOK /\ PopupsOK /\ FormsOK /\ WiresOK /\ TallyOK

\* The rows, the forms, and the rest.
RowStep(j) ==
  \/ SB!SelectContact(j) \/ SB!ShowProfile(j) \/ SB!StartRename(j) \/ SB!RemoveContact(j)
  \/ SB!ArchiveConversation(j) \/ SB!ToggleMute(j) \/ SB!MessageReceived(j)
FormStep(f) == SB!ToggleForm(f) \/ SB!Fill(f) \/ \E j \in Jids : SB!Submit(f, j)
OtherStep ==
  \/ SB!CloseProfile \/ SB!CancelRename \/ SB!ToggleAccountMenu \/ SB!GoBack \/ SB!CloseConversation \/ SB!Draft
  \/ \E blank \in BOOLEAN : SB!SubmitRename(blank)
  \/ \E b \in {"presence", "settings", "switch"} : SB!MenuChosen(b)
WireStep == SB!Connected \/ (\E c \in asks : SB!Serve(c)) \/ \E r \in rosters : SB!RosterReceived(r)

LEMMA SidebarSplit ==
  ASSUME SB!Next
  PROVE  (\E j \in Jids : RowStep(j)) \/ (\E f \in SB!Forms : FormStep(f)) \/ OtherStep \/ WireStep
  BY Zenon DEF SB!Next, RowStep, FormStep, OtherStep, WireStep

LEMMA RowKeeps ==
  ASSUME SidebarInv, NEW j \in Jids, RowStep(j)
  PROVE  SidebarMarksOK' /\ ConvsOK' /\ PopupsOK' /\ FormsOK' /\ WiresOK'
<1>1. UNCHANGED <<chatting, menu, inputs, forms, contacts, rosters, table, served, loaded>>
  BY Zenon DEF RowStep, SB!SelectContact, SB!ShowProfile, SB!StartRename, SB!RemoveContact,
     SB!ArchiveConversation,
     SB!ToggleMute, SB!MessageReceived, SB!Click, SB!popups, SB!wires
<1>2. /\ selected' \in {selected, j, NoJid} /\ profile' \in {profile, j, NoJid}
      /\ renaming' \in {renaming, j}
      /\ asks' = asks \/ asks' = asks \cup {<<"remove", j>>}
  BY Zenon DEF RowStep, SB!SelectContact, SB!ShowProfile, SB!StartRename, SB!RemoveContact,
     SB!ArchiveConversation,
     SB!ToggleMute, SB!MessageReceived, SB!popups
<1>3. /\ archivedJids' \subseteq archivedJids \cup {j} /\ mutedJids' \subseteq mutedJids \cup {j}
      /\ badges' \subseteq badges \cup {j}
  BY Zenon DEF RowStep, SB!SelectContact, SB!ShowProfile, SB!StartRename, SB!RemoveContact,
     SB!ArchiveConversation,
     SB!ToggleMute, SB!MessageReceived, SB!marks
<1>4. \/ UNCHANGED <<drafts, sidebarOpened, activeJid>>
      \/ drafts' = drafts /\ sidebarOpened' = sidebarOpened \cup {j} /\ (activeJid' = activeJid \/ activeJid' = j)
      \/ /\ sidebarOpened' = sidebarOpened \ {j} /\ drafts' = drafts \ {j}
         /\ activeJid' = IF activeJid = j THEN NoJid ELSE activeJid
  BY Zenon DEF RowStep, SB!SelectContact, SB!ShowProfile, SB!StartRename, SB!RemoveContact,
     SB!ArchiveConversation,
     SB!ToggleMute, SB!MessageReceived, SB!convs
<1>5. SidebarMarksOK'
  BY <1>3 DEF SidebarInv, SidebarMarksOK
<1>6. ConvsOK'
  BY <1>4 DEF SidebarInv, ConvsOK
<1>7. PopupsOK'
  BY <1>1, <1>2, Zenon DEF SidebarInv, PopupsOK
<1>8. FormsOK'
  BY <1>1, Zenon DEF SidebarInv, FormsOK
<1>9. WiresOK'
  <2>1. <<"remove", j>> \in SidebarCalls
    BY DEF SidebarCalls
  <2> QED
    BY <1>1, <1>2, <2>1, Zenon DEF SidebarInv, WiresOK
<1> QED
  BY <1>5, <1>6, <1>7, <1>8, <1>9

LEMMA FormKeeps ==
  ASSUME SidebarInv, NEW f \in SB!Forms, FormStep(f)
  PROVE  SidebarMarksOK' /\ ConvsOK' /\ PopupsOK' /\ FormsOK' /\ WiresOK'
<1>1. UNCHANGED <<chatting, menu, contacts, rosters, table, served, loaded, archivedJids, mutedJids,
                  badges, drafts, sidebarOpened, activeJid, selected, profile, renaming>>
  BY Zenon DEF FormStep, SB!ToggleForm, SB!Fill, SB!Submit, SB!Click, SB!wires, SB!marks, SB!convs
<1>2. \/ inputs' = inputs \ {f} /\ (forms' = forms \ {f} \/ forms' = forms \cup {f})
      \/ f \in forms /\ inputs' = inputs \cup {f} /\ forms' = forms
  BY Zenon DEF FormStep, SB!ToggleForm, SB!Fill, SB!Submit
<1>3. asks' = asks \/ \E j \in Jids : asks' = asks \cup {<<f, j>>}
  BY Zenon DEF FormStep, SB!ToggleForm, SB!Fill, SB!Submit
<1>4. \A j \in Jids : <<f, j>> \in SidebarCalls
  BY DEF SidebarCalls, SB!Forms
<1>5. FormsOK'
  BY <1>2 DEF SidebarInv, FormsOK
<1>6. WiresOK'
  BY <1>1, <1>3, <1>4, Zenon DEF SidebarInv, WiresOK
<1> QED
  BY <1>1, <1>5, <1>6, Zenon DEF SidebarInv, SidebarMarksOK, ConvsOK, PopupsOK

LEMMA OtherKeeps ==
  ASSUME SidebarInv, OtherStep
  PROVE  SidebarMarksOK' /\ ConvsOK' /\ PopupsOK' /\ FormsOK' /\ WiresOK'
<1>1. UNCHANGED <<contacts, rosters, table, served, loaded, archivedJids, mutedJids,
                  badges, selected, forms, inputs>>
  BY Zenon DEF OtherStep, SB!CloseProfile, SB!CancelRename, SB!ToggleAccountMenu, SB!GoBack,
     SB!CloseConversation,
     SB!Draft, SB!SubmitRename, SB!MenuChosen, SB!wires, SB!marks, SB!popups
<1>2. /\ chatting' \in {chatting, "yes", "over"} /\ profile' \in {profile, NoJid}
      /\ renaming' \in {renaming, NoJid}
  BY Zenon DEF OtherStep, SB!CloseProfile, SB!CancelRename, SB!ToggleAccountMenu, SB!GoBack,
     SB!CloseConversation,
     SB!Draft, SB!SubmitRename, SB!MenuChosen, SB!popups, SB!Click
<1>3. menu' = menu \/ menu' = ~menu \/ menu' = FALSE
  BY Zenon DEF OtherStep, SB!CloseProfile, SB!CancelRename, SB!ToggleAccountMenu, SB!GoBack,
     SB!CloseConversation,
     SB!Draft, SB!SubmitRename, SB!MenuChosen, SB!popups
<1>4. asks' = asks \/ (renaming \in SB!Rows /\ asks' = asks \cup {<<"rename", renaming>>})
  BY Zenon DEF OtherStep, SB!CloseProfile, SB!CancelRename, SB!ToggleAccountMenu, SB!GoBack,
     SB!CloseConversation,
     SB!Draft, SB!SubmitRename, SB!MenuChosen
<1>5. \/ UNCHANGED <<drafts, sidebarOpened, activeJid>>
      \/ sidebarOpened' = sidebarOpened \ {activeJid} /\ drafts' = drafts \ {activeJid} /\ activeJid' = NoJid
      \/ /\ activeJid # NoJid /\ drafts' = drafts \cup {activeJid}
         /\ UNCHANGED <<sidebarOpened, activeJid>>
  BY Zenon DEF OtherStep, SB!CloseProfile, SB!CancelRename, SB!ToggleAccountMenu, SB!GoBack,
     SB!CloseConversation,
     SB!Draft, SB!SubmitRename, SB!MenuChosen, SB!convs
<1>6. ConvsOK'
  BY <1>5 DEF SidebarInv, ConvsOK
<1>7. menu' \in BOOLEAN
  BY <1>3, Zenon DEF SidebarInv, PopupsOK
<1>8. PopupsOK'
  BY <1>1, <1>2, <1>7, Zenon DEF SidebarInv, PopupsOK
<1>9. WiresOK'
  <2>1. renaming \in SB!Rows => <<"rename", renaming>> \in SidebarCalls
    BY DEF SB!Rows, SidebarCalls, SidebarInv, WiresOK
  <2> QED
    BY <1>1, <1>4, <2>1, Zenon DEF SidebarInv, WiresOK
<1> QED
  BY <1>1, <1>6, <1>8, <1>9, Zenon DEF SidebarInv, SidebarMarksOK, FormsOK

LEMMA SidebarWireKeeps ==
  ASSUME SidebarInv, WireStep
  PROVE  SidebarMarksOK' /\ ConvsOK' /\ PopupsOK' /\ FormsOK' /\ WiresOK'
<1>1. CASE SB!Connected
  <2>1. /\ contacts' = {} /\ archivedJids' = {} /\ mutedJids' = {} /\ badges' = {} /\ drafts' = {}
        /\ sidebarOpened' = {} /\ selected' = NoJid /\ activeJid' = NoJid /\ profile' = NoJid
        /\ renaming' = NoJid /\ forms' = {} /\ inputs' = {} /\ menu' = FALSE /\ chatting' = "yes"
        /\ rosters' = {<<"table", table>>, <<"server", served>>} /\ loaded' = {}
        /\ UNCHANGED <<asks, table, served>>
    BY <1>1, Zenon DEF SB!Connected, SB!Fresh
  <2>2. rosters' \subseteq ({"table", "server"} \X SUBSET Jids)
    BY <2>1 DEF SidebarInv, WiresOK
  <2>3. PopupsOK'
    BY <2>1, Zenon DEF PopupsOK
  <2>4. SidebarMarksOK' /\ ConvsOK' /\ FormsOK'
    BY <2>1, Zenon DEF SidebarMarksOK, ConvsOK, FormsOK
  <2> QED
    BY <2>1, <2>2, <2>3, <2>4, Zenon DEF SidebarInv, WiresOK
<1>2. ASSUME NEW c \in asks, SB!Serve(c)
      PROVE  SidebarMarksOK' /\ ConvsOK' /\ PopupsOK' /\ FormsOK' /\ WiresOK'
  <2>1. /\ UNCHANGED <<chatting, menu, contacts, rosters, table, loaded, archivedJids, mutedJids,
                       badges, drafts, sidebarOpened, activeJid, selected, profile, renaming, forms, inputs>>
        /\ asks' = asks \ {c} /\ served' \subseteq served \cup {c[2]}
    BY <1>2, Zenon DEF SB!Serve, SB!marks, SB!convs, SB!popups
  <2>2. c[2] \in Jids
    BY DEF SidebarInv, WiresOK, SidebarCalls
  <2>3. WiresOK'
    BY <2>1, <2>2, Zenon DEF SidebarInv, WiresOK
  <2> QED
    BY <2>1, <2>3, Zenon DEF SidebarInv, SidebarMarksOK, ConvsOK, PopupsOK, FormsOK
<1>3. ASSUME NEW r \in rosters, SB!RosterReceived(r)
      PROVE  SidebarMarksOK' /\ ConvsOK' /\ PopupsOK' /\ FormsOK' /\ WiresOK'
  <2>1. /\ UNCHANGED <<chatting, menu, served, asks, archivedJids, mutedJids,
                       badges, drafts, sidebarOpened, activeJid, selected, profile, renaming, forms, inputs>>
        /\ rosters' = rosters \ {r} /\ (contacts' = contacts \/ contacts' = r[2])
        /\ table' = table \cup r[2] /\ (loaded' = loaded \/ loaded' = r[2])
    BY <1>3, Zenon DEF SB!RosterReceived, SB!marks, SB!convs, SB!popups
  <2>2. r[2] \subseteq Jids
    BY DEF SidebarInv, WiresOK
  <2>3. WiresOK'
    BY <2>1, <2>2, Zenon DEF SidebarInv, WiresOK
  <2> QED
    BY <2>1, <2>3, Zenon DEF SidebarInv, SidebarMarksOK, ConvsOK, PopupsOK, FormsOK
<1> QED
  BY <1>1, <1>2, <1>3 DEF WireStep

LEMMA TallyStep == ASSUME TallyOK, SB!Next PROVE TallyOK'
<1>1. /\ sidebarClicks' = sidebarClicks \/ (sidebarClicks < MaxClicks /\ sidebarClicks' = sidebarClicks + 1)
      /\ news' = news \/ (news < MaxNews /\ news' = news + 1)
      /\ sidebarStarts' = sidebarStarts \/ (sidebarStarts < MaxStarts /\ sidebarStarts' = sidebarStarts + 1)
  <2>1. ASSUME NEW j \in Jids, RowStep(j)
        PROVE  /\ sidebarClicks' = sidebarClicks \/ (sidebarClicks < MaxClicks /\ sidebarClicks' = sidebarClicks + 1)
               /\ news' = news \/ (news < MaxNews /\ news' = news + 1)
               /\ sidebarStarts' = sidebarStarts \/ (sidebarStarts < MaxStarts /\ sidebarStarts' = sidebarStarts + 1)
    BY <2>1, Zenon DEF RowStep, SB!SelectContact, SB!ShowProfile, SB!StartRename, SB!RemoveContact,
       SB!ArchiveConversation, SB!ToggleMute, SB!MessageReceived, SB!Click, SB!Press
  <2>2. ASSUME NEW f \in SB!Forms, FormStep(f)
        PROVE  /\ sidebarClicks' = sidebarClicks \/ (sidebarClicks < MaxClicks /\ sidebarClicks' = sidebarClicks + 1)
               /\ news' = news \/ (news < MaxNews /\ news' = news + 1)
               /\ sidebarStarts' = sidebarStarts \/ (sidebarStarts < MaxStarts /\ sidebarStarts' = sidebarStarts + 1)
    BY <2>2, Zenon DEF FormStep, SB!ToggleForm, SB!Fill, SB!Submit, SB!Click, SB!Press
  <2>3. CASE OtherStep
    BY <2>3, Zenon DEF OtherStep, SB!CloseProfile, SB!CancelRename, SB!ToggleAccountMenu, SB!GoBack,
       SB!CloseConversation, SB!Draft, SB!SubmitRename, SB!MenuChosen, SB!Click, SB!Press, SB!counts
  <2>4. CASE WireStep
    BY <2>4, Zenon DEF WireStep, SB!Connected, SB!Serve, SB!RosterReceived, SB!counts
  <2> QED
    BY <2>1, <2>2, <2>3, <2>4, SidebarSplit
<1> QED
  BY <1>1, SidebarAssumption DEF TallyOK

LEMMA SidebarInit == ASSUME SB!Init PROVE SidebarInv
<1>1. SidebarMarksOK /\ ConvsOK /\ FormsOK
  BY Zenon DEF SB!Init, SidebarMarksOK, ConvsOK, FormsOK
<1>2. PopupsOK
  BY Zenon DEF SB!Init, PopupsOK
<1>3. WiresOK
  BY SidebarAssumption, Zenon DEF SB!Init, WiresOK
<1>4. TallyOK
  BY SidebarAssumption DEF SB!Init, TallyOK
<1> QED
  BY <1>1, <1>2, <1>3, <1>4 DEF SidebarInv

LEMMA SidebarStep == ASSUME SidebarInv, SB!Next PROVE SidebarInv'
<1>1. TallyOK'
  BY TallyStep DEF SidebarInv
<1>2. SidebarMarksOK' /\ ConvsOK' /\ PopupsOK' /\ FormsOK' /\ WiresOK'
  BY SidebarSplit, RowKeeps, FormKeeps, OtherKeeps, SidebarWireKeeps
<1> QED
  BY <1>1, <1>2 DEF SidebarInv

LEMMA SidebarStutter == ASSUME SidebarInv, UNCHANGED SB!sbVars PROVE SidebarInv'
  BY Zenon DEF SB!sbVars, SidebarInv, SidebarMarksOK, ConvsOK, PopupsOK, FormsOK, WiresOK, TallyOK

LEMMA SidebarHeld == SidebarInv => SB!TypeOK /\ SB!ActiveIsOpen
<1> SUFFICES ASSUME SidebarInv PROVE SB!TypeOK /\ SB!ActiveIsOpen
  OBVIOUS
<1>1. SidebarMarksOK /\ ConvsOK /\ PopupsOK /\ FormsOK /\ WiresOK /\ TallyOK
  BY DEF SidebarInv
<1>2. SB!ActiveIsOpen /\ contacts \cup archivedJids \cup mutedJids \cup badges \cup drafts \cup sidebarOpened \subseteq Jids
  BY <1>1 DEF SB!ActiveIsOpen, SidebarMarksOK, ConvsOK, WiresOK
<1>3. {selected, activeJid, profile, renaming} \subseteq Jids \cup {NoJid}
  BY <1>1 DEF ConvsOK, PopupsOK
<1>4. table \cup served \cup loaded \subseteq Jids
  BY <1>1 DEF WiresOK
<1> QED
  BY <1>1, <1>2, <1>3, <1>4, Zenon DEF SB!TypeOK, PopupsOK, FormsOK, WiresOK, TallyOK, SidebarCalls

-----------------------------------------------------------------------------
(* Shell: toasts and timers are paired, and the console is the end of the log. *)

LEMMA Bounds ==
  Capacity \in Nat \ {0} /\ MaxKeys \in Nat /\ MaxToasts \in Nat /\ MaxDepth \in Nat \ {0}
  BY ShellAssumption, Zenon

Names == {"Login", "Chat"} \cup SH!Range(Palette)

ScreensOK == screens \in Seq(Names) /\ Len(screens) \in 1..MaxDepth

FlagsOK == {palette, trust, banner, console} \subseteq BOOLEAN

DialogsOK == query \in Queries /\ spam \in {"closed", "blank", "filled"}

ToastsOK ==
  /\ nextToast \in 0..MaxToasts /\ toasts \cup timers \subseteq 0..MaxToasts /\ keys \in 0..MaxKeys
  /\ SH!ToastsExpire

ConsoleOK ==
  /\ entries \in Seq(Nat) /\ log \in Seq(Nat) /\ Len(entries) <= Capacity /\ Len(entries) <= Len(log)
  /\ SH!ConsoleIsTail

ShellInv == ScreensOK /\ FlagsOK /\ DialogsOK /\ ToastsOK /\ ConsoleOK

LEMMA ScreensChange ==
  ASSUME SH!Next
  PROVE  \/ screens' = screens \/ screens' = <<"Login">> \/ screens' = <<"Chat">>
         \/ Len(screens) > 1 /\ screens' = Tail(screens)
         \/ \E s \in SH!Range(Palette) : SH!Open(s)
<1>1. CASE SH!GoToSettings
  BY <1>1, ShellAssumption, Zenon DEF SH!GoToSettings
<1>2. CASE \E i \in 0..Len(Palette) : SH!PaletteExecute(i)
  BY <1>2, Zenon DEF SH!PaletteExecute, SH!Found
<1>3. CASE SH!TogglePalette \/ SH!SubmitEmpty \/ \E q \in Queries : SH!PaletteQuery(q)
  BY <1>3, Zenon DEF SH!TogglePalette, SH!SubmitEmpty, SH!PaletteQuery
<1>4. CASE \/ SH!GoBack \/ SH!AddAccount \/ SH!Logout \/ SH!AttemptConnect \/ SH!OpenOmemoTrust \/ SH!CloseTrust
           \/ SH!JidChanged \/ SH!SubmitSpamReport \/ SH!CancelSpamReport \/ SH!ToggleConsole
           \/ (\E t \in timers : SH!DismissToast(t)) \/ \E t \in toasts : SH!DismissByHand(t)
  BY <1>4, Zenon DEF SH!GoBack, SH!AddAccount, SH!Logout, SH!AttemptConnect, SH!OpenOmemoTrust, SH!CloseTrust, SH!JidChanged,
     SH!SubmitSpamReport,
     SH!CancelSpamReport, SH!ToggleConsole, SH!DismissToast, SH!DismissByHand
<1>5. CASE SH!Connected \/ SH!Reconnecting \/ SH!ConsoleEntry
  BY <1>5, Zenon DEF SH!Connected, SH!Reconnecting, SH!ConsoleEntry
<1> QED
  BY <1>1, <1>2, <1>3, <1>4, <1>5, Zenon DEF SH!Next

LEMMA ScreensStep == ASSUME ScreensOK, SH!Next PROVE ScreensOK'
<1>1. screens \in Seq(Names) /\ Len(screens) \in 1..MaxDepth /\ MaxDepth \in Nat \ {0}
  BY Bounds DEF ScreensOK
<1>2. ASSUME NEW s \in Names, screens' = <<s>> PROVE ScreensOK'
  BY <1>1, <1>2 DEF ScreensOK
<1>3. ASSUME NEW s \in Names, SH!Open(s) PROVE ScreensOK'
  <2>1. <<s>> \in Seq(Names) /\ Len(<<s>>) = 1
    OBVIOUS
  <2>2. screens' = <<s>> \o screens /\ Len(screens) < MaxDepth
    BY <1>3, Zenon DEF SH!Open
  <2>3. screens' \in Seq(Names) /\ Len(screens') = 1 + Len(screens)
    BY <1>1, <2>1, <2>2, ConcatProperties
  <2> QED
    BY <1>1, <2>2, <2>3 DEF ScreensOK
<1>4. ASSUME Len(screens) > 1, screens' = Tail(screens) PROVE ScreensOK'
  BY <1>1, <1>4, HeadTailProperties DEF ScreensOK
<1>5. "Login" \in Names /\ "Chat" \in Names /\ SH!Range(Palette) \subseteq Names
  BY Zenon DEF Names
<1>6. ASSUME screens' = screens PROVE ScreensOK'
  BY <1>6, Zenon DEF ScreensOK
<1> QED
  BY <1>2, <1>3, <1>4, <1>5, <1>6, ScreensChange

LEMMA FlagsStep == ASSUME FlagsOK, SH!Next PROVE FlagsOK'
<1>1. palette \in BOOLEAN /\ trust \in BOOLEAN /\ banner \in BOOLEAN /\ console \in BOOLEAN
  BY Zenon DEF FlagsOK
<1>2. palette' \in BOOLEAN /\ trust' \in BOOLEAN /\ banner' \in BOOLEAN /\ console' \in BOOLEAN
  <2>1. CASE SH!TogglePalette \/ SH!SubmitEmpty \/ (\E q \in Queries : SH!PaletteQuery(q)) \/ SH!GoToSettings
    BY <1>1, <2>1, Zenon DEF SH!TogglePalette, SH!SubmitEmpty, SH!PaletteQuery, SH!GoToSettings,
       SH!dialogs, SH!search
  <2>2. CASE \E i \in 0..Len(Palette) : SH!PaletteExecute(i)
    BY <1>1, <2>2, Zenon DEF SH!PaletteExecute, SH!dialogs
  <2>4. CASE \/ SH!GoBack \/ SH!AddAccount \/ SH!Logout \/ SH!AttemptConnect \/ SH!OpenOmemoTrust \/ SH!CloseTrust
             \/ SH!JidChanged \/ SH!SubmitSpamReport \/ SH!CancelSpamReport \/ SH!ToggleConsole
             \/ (\E t \in timers : SH!DismissToast(t)) \/ \E t \in toasts : SH!DismissByHand(t)
    BY <1>1, <2>4, Zenon DEF SH!GoBack, SH!AddAccount, SH!Logout, SH!AttemptConnect, SH!OpenOmemoTrust, SH!CloseTrust,
       SH!JidChanged,
       SH!SubmitSpamReport, SH!CancelSpamReport, SH!ToggleConsole, SH!DismissToast,
       SH!DismissByHand, SH!dialogs, SH!search
  <2>5. CASE SH!Connected \/ SH!Reconnecting \/ SH!ConsoleEntry
    BY <1>1, <2>5, Zenon DEF SH!Connected, SH!Reconnecting, SH!ConsoleEntry, SH!dialogs, SH!search
  <2> QED
    BY <2>1, <2>2, <2>4, <2>5, Zenon DEF SH!Next
<1> QED
  BY <1>2, Zenon DEF FlagsOK

LEMMA DialogsStep == ASSUME DialogsOK, SH!Next PROVE DialogsOK'
<1>2. /\ query' = query \/ query' \in Queries
      /\ spam' = spam \/ spam' = "closed" \/ spam' = "blank" \/ spam' = "filled"
  <2>1. CASE SH!TogglePalette \/ SH!SubmitEmpty \/ (\E q \in Queries : SH!PaletteQuery(q)) \/ SH!GoToSettings
    BY ShellAssumption, <2>1, Zenon DEF SH!TogglePalette, SH!SubmitEmpty, SH!PaletteQuery,
       SH!GoToSettings, SH!dialogs, SH!search
  <2>2. CASE \E i \in 0..Len(Palette) : SH!PaletteExecute(i)
    BY ShellAssumption, <2>2, Zenon DEF SH!PaletteExecute, SH!dialogs
  <2>4. CASE \/ SH!GoBack \/ SH!AddAccount \/ SH!Logout \/ SH!AttemptConnect \/ SH!OpenOmemoTrust \/ SH!CloseTrust
             \/ SH!JidChanged \/ SH!SubmitSpamReport \/ SH!CancelSpamReport \/ SH!ToggleConsole
             \/ (\E t \in timers : SH!DismissToast(t)) \/ \E t \in toasts : SH!DismissByHand(t)
    BY <2>4, Zenon DEF SH!GoBack, SH!AddAccount, SH!Logout, SH!AttemptConnect, SH!OpenOmemoTrust, SH!CloseTrust, SH!JidChanged,
       SH!SubmitSpamReport, SH!CancelSpamReport, SH!ToggleConsole, SH!DismissToast,
       SH!DismissByHand, SH!dialogs, SH!search
  <2>5. CASE SH!Connected \/ SH!Reconnecting \/ SH!ConsoleEntry
    BY <2>5, Zenon DEF SH!Connected, SH!Reconnecting, SH!ConsoleEntry, SH!dialogs, SH!search
  <2> QED
    BY <2>1, <2>2, <2>4, <2>5, Zenon DEF SH!Next
<1> QED
  BY <1>2, Zenon DEF DialogsOK

LEMMA ToastsStep == ASSUME ToastsOK, SH!Next PROVE ToastsOK'
<1>1. /\ nextToast \in 0..MaxToasts /\ toasts \subseteq 0..MaxToasts /\ timers \subseteq 0..MaxToasts
      /\ keys \in 0..MaxKeys /\ toasts \subseteq timers /\ (\A t \in toasts : t < nextToast)
      /\ MaxToasts \in Nat /\ MaxKeys \in Nat
  BY Bounds DEF ToastsOK, SH!ToastsExpire
<1>2. /\ SH!Key \/ keys' = keys
      /\ \/ UNCHANGED <<toasts, nextToast, timers>>
         \/ SH!ShowToast
         \/ \E t : toasts' = toasts \ {t} /\ timers' = timers \ {t} /\ nextToast' = nextToast
         \/ \E t : toasts' = toasts \ {t} /\ timers' = timers /\ nextToast' = nextToast
  <2>1. CASE SH!TogglePalette \/ SH!SubmitEmpty \/ (\E q \in Queries : SH!PaletteQuery(q)) \/ SH!GoToSettings
    BY <2>1, Zenon DEF SH!TogglePalette, SH!SubmitEmpty, SH!PaletteQuery, SH!GoToSettings,
       SH!toastVars
  <2>2. CASE \E i \in 0..Len(Palette) : SH!PaletteExecute(i)
    BY <2>2, Zenon DEF SH!PaletteExecute, SH!toastVars
  <2>4. CASE \/ SH!GoBack \/ SH!AddAccount \/ SH!Logout \/ SH!AttemptConnect \/ SH!OpenOmemoTrust \/ SH!CloseTrust
             \/ SH!JidChanged \/ SH!SubmitSpamReport \/ SH!CancelSpamReport \/ SH!ToggleConsole
             \/ (\E t \in timers : SH!DismissToast(t)) \/ \E t \in toasts : SH!DismissByHand(t)
    BY <2>4, Zenon DEF SH!GoBack, SH!AddAccount, SH!Logout, SH!AttemptConnect, SH!OpenOmemoTrust, SH!CloseTrust, SH!JidChanged,
       SH!SubmitSpamReport, SH!CancelSpamReport, SH!ToggleConsole, SH!DismissToast,
       SH!DismissByHand, SH!toastVars
  <2>5. CASE SH!Connected \/ SH!Reconnecting \/ SH!ConsoleEntry
    BY <2>5, Zenon DEF SH!Connected, SH!Reconnecting, SH!ConsoleEntry, SH!toastVars
  <2> QED
    BY <2>1, <2>2, <2>4, <2>5, Zenon DEF SH!Next
<1>3. keys' \in 0..MaxKeys
  BY <1>1, <1>2 DEF SH!Key
<1>4. ASSUME SH!ShowToast PROVE ToastsOK'
  BY <1>1, <1>3, <1>4 DEF SH!ShowToast, ToastsOK, SH!ToastsExpire
<1> QED
  BY <1>1, <1>2, <1>3, <1>4 DEF ToastsOK, SH!ToastsExpire

LEMMA LastOf ==
  ASSUME NEW s \in Seq(Nat), NEW k \in Nat, k <= Len(s)
  PROVE  /\ SubSeq(s, Len(s) - k + 1, Len(s)) \in Seq(Nat)
         /\ Len(SubSeq(s, Len(s) - k + 1, Len(s))) = k
         /\ \A i \in 1..k : SubSeq(s, Len(s) - k + 1, Len(s))[i] = s[Len(s) - k + i]
<1> DEFINE a == Len(s) - k + 1
           b == Len(s)
<1>1. a \in Int /\ b \in Int /\ b - a + 1 = k /\ a >= 1 /\ (a <= b <=> k > 0) /\ (k = 0 => a = b + 1)
  BY LenProperties
<1>2. \A i \in a..b : s[i] \in Nat
  <2>1. \A i \in 1..Len(s) : s[i] \in Nat
    BY ElementOfSeq
  <2> QED
    BY <1>1, <2>1
<1>3. \A i \in 1..k : a + i - 1 = Len(s) - k + i
  BY LenProperties
<1> HIDE DEF a, b
<1>4. /\ SubSeq(s, a, b) \in Seq(Nat)
      /\ Len(SubSeq(s, a, b)) = IF a <= b THEN b - a + 1 ELSE 0
      /\ \A i \in 1..(b - a + 1) : SubSeq(s, a, b)[i] = s[a + i - 1]
  BY <1>1, <1>2, SubSeqProperties
<1>6. Len(SubSeq(s, a, b)) = k
  BY <1>1, <1>4
<1>7. ASSUME NEW i \in 1..k PROVE SubSeq(s, a, b)[i] = s[Len(s) - k + i]
  <2>1. SubSeq(s, a, b)[i] = s[a + i - 1]
    BY <1>1, <1>4, <1>7
  <2> QED
    BY <2>1, <1>3, <1>7
<1>5. /\ SubSeq(s, a, b) \in Seq(Nat) /\ Len(SubSeq(s, a, b)) = k
      /\ \A i \in 1..k : SubSeq(s, a, b)[i] = s[Len(s) - k + i]
  BY <1>4, <1>6, <1>7
<1> QED
  BY <1>5 DEF a, b

LEMMA TailItems ==
  ASSUME NEW s \in Seq(Nat), NEW e \in Seq(Nat), Len(e) <= Len(s),
         e = SubSeq(s, Len(s) - Len(e) + 1, Len(s))
  PROVE  \A i \in 1..Len(e) : e[i] = s[Len(s) - Len(e) + i]
<1> DEFINE k == Len(e)
<1>1. k \in Nat /\ k <= Len(s) /\ e = SubSeq(s, Len(s) - k + 1, Len(s))
  BY LenProperties
<1> HIDE DEF k
<1>2. \A i \in 1..k : SubSeq(s, Len(s) - k + 1, Len(s))[i] = s[Len(s) - k + i]
  BY <1>1, LastOf
<1>3. \A i \in 1..k : e[i] = s[Len(s) - k + i]
  BY <1>1, <1>2, Zenon
<1> QED
  BY <1>3, Zenon DEF k

LEMMA ConsoleStep == ASSUME ConsoleOK, SH!Next PROVE ConsoleOK'
<1>1. SH!ConsoleEntry \/ UNCHANGED <<entries, log>>
  <2>1. CASE SH!TogglePalette \/ SH!SubmitEmpty \/ (\E q \in Queries : SH!PaletteQuery(q)) \/ SH!GoToSettings
    BY <2>1, Zenon DEF SH!TogglePalette, SH!SubmitEmpty, SH!PaletteQuery, SH!GoToSettings,
       SH!logVars
  <2>2. CASE \E i \in 0..Len(Palette) : SH!PaletteExecute(i)
    BY <2>2, Zenon DEF SH!PaletteExecute, SH!logVars
  <2>4. CASE \/ SH!GoBack \/ SH!AddAccount \/ SH!Logout \/ SH!AttemptConnect \/ SH!OpenOmemoTrust \/ SH!CloseTrust
             \/ SH!JidChanged \/ SH!SubmitSpamReport \/ SH!CancelSpamReport \/ SH!ToggleConsole
             \/ (\E t \in timers : SH!DismissToast(t)) \/ \E t \in toasts : SH!DismissByHand(t)
    BY <2>4, Zenon DEF SH!GoBack, SH!AddAccount, SH!Logout, SH!AttemptConnect, SH!OpenOmemoTrust, SH!CloseTrust, SH!JidChanged,
       SH!SubmitSpamReport, SH!CancelSpamReport, SH!ToggleConsole, SH!DismissToast,
       SH!DismissByHand, SH!logVars
  <2>5. CASE SH!Connected \/ SH!Reconnecting \/ SH!ConsoleEntry
    BY <2>5, Zenon DEF SH!Connected, SH!Reconnecting, SH!logVars
  <2> QED
    BY <2>1, <2>2, <2>4, <2>5, Zenon DEF SH!Next
<1>2. CASE UNCHANGED <<entries, log>>
  BY <1>2, Zenon DEF ConsoleOK, SH!ConsoleIsTail
<1>3. CASE SH!ConsoleEntry
  <2> DEFINE n == Len(log)
             part1 == IF Len(entries) = Capacity THEN Tail(entries) ELSE entries
  <2>0. /\ entries \in Seq(Nat) /\ log \in Seq(Nat) /\ Len(entries) <= Capacity
        /\ Len(entries) <= n /\ Len(entries) \in Nat /\ n \in Nat /\ Capacity \in Nat /\ Capacity > 0
        /\ entries = SubSeq(log, n - Len(entries) + 1, n) /\ (n <= Capacity => entries = log)
    BY Bounds, LenProperties DEF ConsoleOK, SH!ConsoleIsTail
  <2>1. log' = Append(log, n) /\ entries' = Append(part1, n)
    BY <1>3, Zenon DEF SH!ConsoleEntry
  <2>2. \A i \in 1..Len(entries) : entries[i] = log[n - Len(entries) + i]
    BY <2>0, TailItems
  <2>3. /\ part1 \in Seq(Nat) /\ Len(part1) < Capacity /\ Len(part1) <= n /\ Len(part1) \in Nat
        /\ \A i \in 1..Len(part1) : part1[i] = log[n - Len(part1) + i]
    <3>1. CASE Len(entries) = Capacity
      <4>1. entries # <<>> /\ part1 = Tail(entries)
        BY <2>0, <3>1
      <4>2. /\ Tail(entries) \in Seq(Nat) /\ Len(Tail(entries)) = Len(entries) - 1
            /\ \A i \in 1..Len(Tail(entries)) : Tail(entries)[i] = entries[i + 1]
        BY <2>0, <4>1, HeadTailProperties
      <4> HIDE DEF part1
      <4> QED
        BY SMTT(30), <2>0, <2>2, <3>1, <4>1, <4>2
    <3>2. CASE Len(entries) # Capacity
      <4>1. part1 = entries
        BY <3>2
      <4>2. Len(entries) < Capacity
        <5>1. Len(entries) <= Capacity /\ Len(entries) \in Nat /\ Capacity \in Nat
          BY <2>0, Zenon
        <5> QED
          BY <5>1, <3>2
      <4> HIDE DEF part1
      <4> QED
        BY <2>0, <2>2, <4>1, <4>2
    <3> QED
      BY <3>1, <3>2
  <2>4. ASSUME n + 1 <= Capacity PROVE part1 = log
    BY <2>0, <2>4
  <2>11. n = Len(log)
    OBVIOUS
  <2>12. n \in Nat
    BY <2>0
  <2> HIDE DEF part1, n
  <2>5. /\ log' \in Seq(Nat) /\ Len(log') = n + 1 /\ log'[n + 1] = n
        /\ \A i \in 1..n : log'[i] = log[i]
    <3>1. log \in Seq(Nat)
      BY Zenon, <2>0
    <3> QED
      BY <2>1, <2>11, <2>12, <3>1, AppendProperties
  <2>6. /\ entries' \in Seq(Nat) /\ Len(entries') = Len(part1) + 1 /\ entries'[Len(part1) + 1] = n
        /\ \A i \in 1..Len(part1) : entries'[i] = part1[i]
    BY <2>0, <2>1, <2>3, AppendProperties
  <2> DEFINE last == SubSeq(log', Len(log') - Len(entries') + 1, Len(log'))
  <2>7. /\ last \in Seq(Nat) /\ Len(last) = Len(entries')
        /\ \A i \in 1..Len(last) : last[i] = log'[Len(log') - Len(entries') + i]
    <3>1. log' \in Seq(Nat) /\ Len(entries') \in Nat /\ Len(entries') <= Len(log')
      BY <2>3, <2>5, <2>6, <2>12
    <3>2. /\ last \in Seq(Nat) /\ Len(last) = Len(entries')
          /\ \A i \in 1..Len(entries') : last[i] = log'[Len(log') - Len(entries') + i]
      BY <3>1, LastOf
    <3> QED
      BY <3>2, Zenon
  <2>8. ASSUME NEW i \in 1..Len(entries') PROVE entries'[i] = last[i]
    <3>1. last[i] = log'[n - Len(part1) + i] /\ i \in 1..(Len(part1) + 1)
      <4>1. last[i] = log'[Len(log') - Len(entries') + i]
        BY Zenon, <2>7, <2>8
      <4>2. /\ Len(log') = n + 1 /\ Len(entries') = Len(part1) + 1
            /\ Len(part1) \in Nat
        BY Zenon, <2>3, <2>5, <2>6, LenProperties
      <4>3. i \in 1..(Len(part1) + 1)
        BY Zenon, <2>8, <4>2
      <4> HIDE DEF last
      <4>4. Len(log') - Len(entries') + i = n - Len(part1) + i
        BY <2>12, <4>2, <4>3
      <4> QED
        BY Zenon, <4>1, <4>3, <4>4
    <3>2. CASE i = Len(part1) + 1
      BY <2>0, <2>3, <2>5, <2>6, <3>1, <3>2
    <3>3. CASE i \in 1..Len(part1)
      <4>1. n - Len(part1) + i \in 1..n
        BY <2>0, <2>3, <3>3
      <4> QED
        BY <2>3, <2>5, <2>6, <3>1, <3>3, <4>1
    <3> QED
      BY <2>3, <3>1, <3>2, <3>3
  <2>9. entries' = last
    BY <2>6, <2>7, <2>8, SeqEqual
  <2>10. SH!ConsoleIsTail'
    BY <2>0, <2>1, <2>4, <2>5, <2>9 DEF SH!ConsoleIsTail
  <2> QED
    BY <2>0, <2>3, <2>5, <2>6, <2>10 DEF ConsoleOK
<1> QED
  BY <1>1, <1>2, <1>3

LEMMA ShellInit == ASSUME SH!Init PROVE ShellInv
<1>1. ScreensOK
  <2>1. screens = <<"Login">> /\ "Login" \in Names
    BY Zenon DEF SH!Init, Names
  <2> QED
    BY <2>1, Bounds DEF ScreensOK
<1>2. FlagsOK /\ DialogsOK
  BY ShellAssumption, Zenon DEF SH!Init, FlagsOK, DialogsOK
<1>3. toasts = {} /\ timers = {} /\ nextToast = 0 /\ keys = 0 /\ entries = <<>> /\ log = <<>>
  BY Zenon DEF SH!Init
<1>4. ToastsOK
  BY <1>3, Bounds DEF ToastsOK, SH!ToastsExpire
<1>5. ConsoleOK
  BY <1>3, Bounds DEF ConsoleOK, SH!ConsoleIsTail
<1> QED
  BY <1>1, <1>2, <1>4, <1>5 DEF ShellInv

LEMMA ShellStep == ASSUME ShellInv, SH!Next PROVE ShellInv'
  BY ScreensStep, FlagsStep, DialogsStep, ToastsStep, ConsoleStep DEF ShellInv

LEMMA ShellStutter == ASSUME ShellInv, UNCHANGED SH!shVars PROVE ShellInv'
  BY Zenon DEF SH!shVars, ShellInv, ScreensOK, FlagsOK, DialogsOK, ToastsOK, ConsoleOK,
     SH!ToastsExpire,
     SH!ConsoleIsTail

LEMMA ShellHeld == ShellInv => SH!TypeOK /\ SH!ToastsExpire /\ SH!ConsoleIsTail
  BY Zenon DEF ShellInv, ScreensOK, FlagsOK, DialogsOK, ToastsOK, ConsoleOK, SH!TypeOK, Names

-----------------------------------------------------------------------------
(* Forms: what was typed belongs to the form that is shown.                *)

\* What the form of a room may say, and the configuration of that room.
Config(r) ==
  [name : {r} \cup {x \in {"typed"} : r \in namedFor}, public : BOOLEAN, persistent : BOOLEAN,
   history : {20, 50}]
Filling == {p \in Venues \X UNION {Config(r) : r \in Venues} : p[2] \in Config(p[1])}
Tellings ==
  {e \in [kind : {"form"}, room : Venues, config : UNION {Config(r) : r \in Venues}] :
     e.config \in Config(e.room)}
  \cup [kind : {"done"}, room : Venues]

RoomFormsOK ==
  /\ rooms = [r \in Venues |-> rooms[r]] /\ \A r \in Venues : rooms[r] \in Config(r)
  /\ wanted \in Seq(Venues)
  /\ formsEvents \in Seq(Tellings)
  /\ pending = <<>> \/ pending \in Filling
  /\ sent \in Seq(Filling)

Own(sheet, v) == FO!Current(sheet, v) = FO!First(sheet[v]) \/ (v \in formsTyped /\ FO!Editable(sheet[v]))

SheetsOK ==
  /\ step.at \in {"list", "executing", "form", "done"}
  /\ (step.at = "form" => step.sheet \in Sheets /\ \A v \in DOMAIN step.sheet : Own(step.sheet, v))
  /\ FO!TypedForThisForm

CountsOK == created \in 0..MaxAsked /\ formsPresses \in 0..MaxFormsPresses /\ formsShown \in 0..MaxSheets

FormsInv == RoomFormsOK /\ SheetsOK /\ CountsOK

RoomFormsStep ==
  \/ \E r \in Venues : FO!BuildConfigRequest(r)
  \/ FO!HandleConfigForm \/ FO!HandleEvent \/ FO!RoomConfigNameChanged \/ FO!RoomConfigPublicChanged
  \/ FO!RoomConfigPersistentChanged \/ FO!SubmitRoomConfig \/ FO!DismissRoomConfig \/ FO!Configure \/ FO!Cover

SheetsStep ==
  \/ FO!CommandSelected \/ FO!Finish \/ FO!SubmitForm \/ FO!BackToList
  \/ \E s \in Sheets : FO!ShowForm(s)
  \/ \E v \in UNION {DOMAIN s : s \in Sheets} : FO!FieldChanged(v)

LEMMA FormsSplit == ASSUME FO!Next PROVE RoomFormsStep \/ SheetsStep
  BY Zenon DEF FO!Next, RoomFormsStep, SheetsStep

LEMMA RoomFormsApart == ASSUME RoomFormsStep PROVE UNCHANGED <<step, values, answers, owed, formsTyped>>
  BY Zenon DEF RoomFormsStep, FO!BuildConfigRequest, FO!HandleConfigForm, FO!HandleEvent,
     FO!RoomConfigNameChanged,
     FO!RoomConfigPublicChanged, FO!RoomConfigPersistentChanged, FO!Edit, FO!SubmitRoomConfig,
     FO!DismissRoomConfig,
     FO!Configure, FO!Cover, FO!sheetVars

LEMMA SheetsApart ==
  ASSUME SheetsStep PROVE UNCHANGED <<rooms, wanted, formsEvents, pending, sent, hidden, namedFor>>
  BY Zenon DEF SheetsStep, FO!CommandSelected, FO!Finish, FO!SubmitForm, FO!BackToList,
     FO!ShowForm, FO!FieldChanged, FO!roomVars

LEMMA CountsStep == ASSUME CountsOK, FO!Next PROVE CountsOK'
<1>1. /\ created' = created \/ (created < MaxAsked /\ created' = created + 1)
      /\ formsPresses' = formsPresses \/ (formsPresses < MaxFormsPresses /\ formsPresses' = formsPresses + 1)
      /\ formsShown' = formsShown \/ (formsShown < MaxSheets /\ formsShown' = formsShown + 1)
  <2>1. CASE RoomFormsStep
    BY <2>1, Zenon DEF RoomFormsStep, FO!BuildConfigRequest, FO!HandleConfigForm, FO!HandleEvent,
       FO!RoomConfigNameChanged, FO!RoomConfigPublicChanged, FO!RoomConfigPersistentChanged,
       FO!Edit,
       FO!SubmitRoomConfig, FO!DismissRoomConfig, FO!Configure, FO!Cover, FO!Press, FO!Quietly
  <2>2. CASE SheetsStep
    BY <2>2, Zenon DEF SheetsStep, FO!CommandSelected, FO!Finish, FO!SubmitForm, FO!BackToList,
       FO!ShowForm,
       FO!FieldChanged, FO!Press, FO!Quietly
  <2> QED
    BY <2>1, <2>2, FormsSplit
<1> QED
  BY <1>1, FormsAssumption DEF CountsOK


LEMMA SheetsTyped == ASSUME SheetsOK, SheetsStep PROVE SheetsOK'
<1>0. /\ step.at \in {"list", "executing", "form", "done"}
      /\ (step.at = "form" => step.sheet \in Sheets /\ \A v \in DOMAIN step.sheet : Own(step.sheet, v))
      /\ FO!TypedForThisForm
  BY DEF SheetsOK
<1>1. ASSUME answers' = answers, NEW a \in {"list", "executing", "done"}, step' = [at |-> a]
      PROVE  SheetsOK'
  <2>1. step'.at = a
    BY <1>1
  <2>2. FO!TypedForThisForm'
    BY <1>0, <1>1, Zenon DEF FO!TypedForThisForm
  <2> QED
    BY <2>1, <2>2 DEF SheetsOK
<1>2. CASE FO!CommandSelected \/ FO!Finish \/ FO!BackToList
  <2>1. answers' = answers /\ \E a \in {"list", "executing", "done"} : step' = [at |-> a]
    BY <1>2, Zenon DEF FO!CommandSelected, FO!Finish, FO!BackToList
  <2> QED
    BY <1>1, <2>1
<1>3. ASSUME NEW s \in Sheets, FO!ShowForm(s) PROVE SheetsOK'
  <2>1. answers' = answers /\ step' = [at |-> "form", sheet |-> s, nr |-> formsShown'] /\ values' = FO!Filled(s)
    BY <1>3, Zenon DEF FO!ShowForm
  <2>2. step'.at = "form" /\ step'.sheet = s
    BY <2>1
  <2>3. ASSUME NEW v \in DOMAIN s PROVE FO!Current(s, v)' = FO!First(s[v])
    BY <2>1 DEF FO!Current, FO!Filled
  <2>4. FO!TypedForThisForm'
    BY <1>0, <2>1, Zenon DEF FO!TypedForThisForm
  <2> QED
    BY <2>2, <2>3, <2>4 DEF SheetsOK, Own
<1>4. ASSUME NEW w, FO!FieldChanged(w) PROVE SheetsOK'
  <2>1. /\ UNCHANGED <<step, answers>> /\ formsTyped' = formsTyped \cup {w} /\ FO!Editable(step.sheet[w])
        /\ values' = [x \in DOMAIN values \cup {w} |-> IF x = w THEN "typed" ELSE values[x]]
    BY <1>4, Zenon DEF FO!FieldChanged
  <2>2. ASSUME NEW v \in DOMAIN step.sheet, Own(step.sheet, v) PROVE Own(step.sheet, v)'
    <3>1. CASE v = w
      BY <2>1, <3>1 DEF Own
    <3>2. CASE v # w
      <4>1. FO!Current(step.sheet, v)' = FO!Current(step.sheet, v)
        BY <2>1, <3>2 DEF FO!Current
      <4> QED
        BY <2>1, <2>2, <4>1 DEF Own
    <3> QED
      BY <3>1, <3>2
  <2>3. FO!TypedForThisForm'
    BY <1>0, <2>1, Zenon DEF FO!TypedForThisForm
  <2> QED
    BY <1>0, <2>1, <2>2, <2>3 DEF SheetsOK
<1>5. CASE FO!SubmitForm
  <2> DEFINE a == [nr |-> step.nr, sheet |-> step.sheet, typed |-> formsTyped, fields |-> FO!CollectFields(step.sheet)]
  <2>1. UNCHANGED <<step, values, formsTyped>> /\ answers' = answers \cup {a} /\ step.at = "form"
    BY <1>5, Zenon DEF FO!SubmitForm
  <2>2. a.sheet = step.sheet /\ a.typed = formsTyped /\ a.fields = FO!CollectFields(step.sheet)
    OBVIOUS
  <2> HIDE DEF a
  <2>3. ASSUME NEW v \in DOMAIN a.sheet
        PROVE  a.fields[v] = FO!First(a.sheet[v]) \/ (v \in a.typed /\ FO!Editable(a.sheet[v]))
    <3>1. a.fields[v] = FO!Current(step.sheet, v) /\ Own(step.sheet, v)
      BY <1>0, <2>1, <2>2, <2>3 DEF FO!CollectFields
    <3> QED
      BY <2>2, <3>1, Zenon DEF Own
  <2>4. FO!TypedForThisForm'
    BY <1>0, <2>1, <2>3, Zenon DEF FO!TypedForThisForm
  <2>5. \A v \in DOMAIN step.sheet : Own(step.sheet, v)' <=> Own(step.sheet, v)
    BY <2>1, Zenon DEF Own, FO!Current
  <2> QED
    BY <1>0, <2>1, <2>4, <2>5 DEF SheetsOK
<1> QED
  BY <1>2, <1>3, <1>4, <1>5 DEF SheetsStep

LEMMA SheetsStay ==
  ASSUME SheetsOK, UNCHANGED <<step, values, answers, formsTyped>> PROVE SheetsOK'
  BY Zenon DEF SheetsOK, Own, FO!Current, FO!TypedForThisForm


LEMMA ConfigGrows == ASSUME namedFor \subseteq namedFor', NEW r PROVE Config(r) \subseteq Config(r)'
<1>1. {x \in {"typed"} : r \in namedFor} \subseteq {x \in {"typed"} : r \in namedFor'}
  BY Zenon
<1> QED
  BY <1>1 DEF Config

LEMMA FillingGrows == ASSUME namedFor \subseteq namedFor' PROVE Filling \subseteq Filling'
<1>1. ASSUME NEW p \in Filling PROVE p \in Filling'
  <2>1. p \in Venues \X UNION {Config(r) : r \in Venues} /\ p[2] \in Config(p[1]) /\ p[1] \in Venues
    BY <1>1 DEF Filling
  <2>2. p[2] \in Config(p[1])'
    BY <2>1, ConfigGrows, Zenon
  <2>3. p[2] \in UNION {Config(r)' : r \in Venues}
    BY <2>1, <2>2, Zenon
  <2>4. p = <<p[1], p[2]>>
    BY <2>1
  <2>5. <<p[1], p[2]>> \in Venues \X UNION {Config(r)' : r \in Venues}
    BY <2>1, <2>3
  <2> QED
    BY <2>2, <2>4, <2>5, Zenon DEF Filling
<1> QED
  BY <1>1

LEMMA TellingForm ==
  ASSUME NEW r \in Venues, NEW c \in Config(r)
  PROVE  [kind |-> "form", room |-> r, config |-> c] \in Tellings
<1>1. c \in UNION {Config(x) : x \in Venues}
  BY Zenon
<1>2. [kind |-> "form", room |-> r, config |-> c] \in
         [kind : {"form"}, room : Venues, config : UNION {Config(x) : x \in Venues}]
  BY <1>1
<1> QED
  BY <1>2 DEF Tellings

LEMMA TellingIs ==
  ASSUME NEW e \in Tellings
  PROVE  /\ e.room \in Venues
         /\ \/ e.kind = "form" /\ e.config \in Config(e.room)
               /\ e = [kind |-> "form", room |-> e.room, config |-> e.config]
            \/ e.kind = "done" /\ e = [kind |-> "done", room |-> e.room]
  BY DEF Tellings

LEMMA TellingsGrow == ASSUME namedFor \subseteq namedFor' PROVE Tellings \subseteq Tellings'
<1>1. ASSUME NEW r \in Venues, NEW c \in Config(r)'
      PROVE  [kind |-> "form", room |-> r, config |-> c] \in Tellings'
  <2>1. c \in UNION {Config(x)' : x \in Venues}
    BY Zenon
  <2>2. [kind |-> "form", room |-> r, config |-> c] \in
           [kind : {"form"}, room : Venues, config : UNION {Config(x)' : x \in Venues}]
    BY <2>1
  <2> QED
    BY <2>2 DEF Tellings
<1>2. ASSUME NEW r \in Venues PROVE [kind |-> "done", room |-> r] \in Tellings'
  BY DEF Tellings
<1>3. ASSUME NEW e \in Tellings PROVE e \in Tellings'
  BY <1>1, <1>2, TellingIs, ConfigGrows
<1> QED
  BY <1>3

LEMMA SeqGrows == ASSUME NEW S, NEW T, S \subseteq T, NEW s \in Seq(S) PROVE s \in Seq(T)
<1>1. \A i \in 1..Len(s) : s[i] \in T
  BY ElementOfSeq
<1> QED
  BY <1>1, SeqDef

LEMMA FilledIn ==
  ASSUME NEW r \in Venues, NEW c \in Config(r) PROVE <<r, c>> \in Filling
<1>1. c \in UNION {Config(x) : x \in Venues}
  BY Zenon
<1>2. <<r, c>> \in Venues \X UNION {Config(x) : x \in Venues}
  BY <1>1
<1> QED
  BY <1>2 DEF Filling

LEMMA FilledFor ==
  ASSUME NEW p \in Filling PROVE p[1] \in Venues /\ p[2] \in Config(p[1]) /\ p = <<p[1], p[2]>>
  BY DEF Filling

LEMMA ConfigFields ==
  ASSUME NEW r, NEW c \in Config(r)
  PROVE  /\ c.name \in {r} \cup {x \in {"typed"} : r \in namedFor}
         /\ c.public \in BOOLEAN /\ c.persistent \in BOOLEAN /\ c.history \in {20, 50}
         /\ c = [name |-> c.name, public |-> c.public, persistent |-> c.persistent, history |-> c.history]
  BY DEF Config

LEMMA ConfigMade ==
  ASSUME NEW r, NEW nm \in {r} \cup {x \in {"typed"} : r \in namedFor},
         NEW pub \in BOOLEAN, NEW per \in BOOLEAN, NEW h \in {20, 50}
  PROVE  [name |-> nm, public |-> pub, persistent |-> per, history |-> h] \in Config(r)
  BY DEF Config

LEMMA ParsedFits ==
  ASSUME NEW r, rooms[r] \in Config(r), NEW c \in FO!ParseConfigForm(r) PROVE c \in Config(r)
<1> DEFINE pub == FO!Read(r, rooms[r].public)
           per == FO!Read(r, rooms[r].persistent)
<1>1. c = [FO!DefaultConfig EXCEPT !.name = rooms[r].name, !.public = pub, !.persistent = per]
  BY Zenon DEF FO!ParseConfigForm
<1>2. pub \in BOOLEAN /\ per \in BOOLEAN
  BY Zenon DEF FO!Read
<1> HIDE DEF pub, per
<1>3. c = [name |-> rooms[r].name, public |-> pub, persistent |-> per, history |-> 50]
  BY <1>1 DEF FO!DefaultConfig
<1>4. rooms[r].name \in {r} \cup {x \in {"typed"} : r \in namedFor}
  BY ConfigFields
<1> QED
  BY <1>2, <1>3, <1>4, ConfigMade

LEMMA EditFits ==
  ASSUME RoomFormsOK, pending # <<>>, FO!RoomConfigNameChanged \/ FO!RoomConfigPublicChanged \/ FO!RoomConfigPersistentChanged
  PROVE  /\ pending' \in Filling' /\ namedFor \subseteq namedFor'
         /\ UNCHANGED <<rooms, wanted, formsEvents, sent>>
<1>1. PICK r, c : r \in Venues /\ c \in Config(r) /\ pending = <<r, c>>
  BY FilledFor DEF RoomFormsOK
<1>10. pending[1] = r /\ pending[2] = c
  BY <1>1
<1> DEFINE nm == c.name
           pub == c.public
           per == c.persistent
           h == c.history
<1>2. /\ nm \in {r} \cup {x \in {"typed"} : r \in namedFor}
      /\ pub \in BOOLEAN /\ per \in BOOLEAN /\ h \in {20, 50}
      /\ c = [name |-> nm, public |-> pub, persistent |-> per, history |-> h]
  BY <1>1, ConfigFields
<1>3. UNCHANGED <<rooms, wanted, formsEvents, sent>>
  BY Zenon DEF FO!RoomConfigNameChanged, FO!RoomConfigPublicChanged,
     FO!RoomConfigPersistentChanged, FO!Edit
<1>4. CASE FO!RoomConfigNameChanged
  <2>1. pending' = [pending EXCEPT ![2] = [c EXCEPT !.name = "typed"]] /\ namedFor' = namedFor \cup {r}
    BY <1>4, <1>10, Zenon DEF FO!RoomConfigNameChanged, FO!Edit
  <2> HIDE DEF nm, pub, per, h
  <2> DEFINE new == [name |-> "typed", public |-> pub, persistent |-> per, history |-> h]
  <2>2. pending' = <<r, new>>
    BY <1>1, <1>2, <2>1
  <2>3. new \in Config(r)'
    <3>1. "typed" \in {x \in {"typed"} : r \in namedFor'}
      BY <2>1
    <3> QED
      BY <1>2, <3>1 DEF Config
  <2> HIDE DEF new
  <2>4. new \in UNION {Config(x)' : x \in Venues}
    BY <1>1, <2>3, Zenon
  <2>5. <<r, new>> \in Venues \X UNION {Config(x)' : x \in Venues}
    BY <1>1, <2>4
  <2> QED
    BY <1>3, <2>1, <2>2, <2>3, <2>5 DEF Filling
<1>5. CASE FO!RoomConfigPublicChanged \/ FO!RoomConfigPersistentChanged
  <2> DEFINE npub == ~pub
             nper == ~per
  <2>1. namedFor' = namedFor
    BY <1>5, Zenon DEF FO!RoomConfigPublicChanged, FO!RoomConfigPersistentChanged
  <2>2. \/ pending' = [pending EXCEPT ![2] = [c EXCEPT !.public = npub]]
        \/ pending' = [pending EXCEPT ![2] = [c EXCEPT !.persistent = nper]]
    <3>1. CASE FO!RoomConfigPublicChanged
      BY <1>10, <3>1 DEF FO!RoomConfigPublicChanged, FO!Edit
    <3>2. CASE FO!RoomConfigPersistentChanged
      BY <1>10, <3>2 DEF FO!RoomConfigPersistentChanged, FO!Edit
    <3> QED
      BY <1>5, <3>1, <3>2
  <2>3. npub \in BOOLEAN /\ nper \in BOOLEAN
    BY Zenon
  <2> HIDE DEF nm, pub, per, h, npub, nper
  <2>4. \/ pending' = <<r, [name |-> nm, public |-> npub, persistent |-> per, history |-> h]>>
        \/ pending' = <<r, [name |-> nm, public |-> pub, persistent |-> nper, history |-> h]>>
    BY <1>1, <1>2, <2>2
  <2>5. /\ [name |-> nm, public |-> npub, persistent |-> per, history |-> h] \in Config(r)
        /\ [name |-> nm, public |-> pub, persistent |-> nper, history |-> h] \in Config(r)
    BY <1>2, <2>3, ConfigMade, ZenonT(60)
  <2>6. pending' \in Filling
    BY <1>1, <2>4, <2>5, FilledIn, Zenon
  <2> QED
    BY <1>3, <2>1, <2>6, FillingGrows
<1> QED
  BY <1>4, <1>5

LEMMA ConfigureFits ==
  ASSUME RoomFormsOK, FO!Configure
  PROVE  /\ rooms' = [r \in Venues |-> rooms'[r]] /\ (\A r \in Venues : rooms'[r] \in Config(r))
         /\ formsEvents' \in Seq(Tellings) /\ sent' \in Seq(Filling)
<1> DEFINE r == Head(sent)[1]
           c == Head(sent)[2]
           nm == IF c.name = FO!Blank THEN rooms[r].name ELSE c.name
<1>1. sent \in Seq(Filling) /\ sent # <<>> /\ sent' = Tail(sent)
  BY Zenon DEF FO!Configure, RoomFormsOK
<1>2. Head(sent) \in Filling /\ sent' \in Seq(Filling)
  BY <1>1, HeadTailProperties
<1>3. r \in Venues /\ c \in Config(r)
  BY <1>2, FilledFor
<1>4. /\ rooms' = [rooms EXCEPT ![r] = [c EXCEPT !.name = nm]]
      /\ formsEvents' = Append(formsEvents, [kind |-> "done", room |-> r])
  BY DEF FO!Configure
<1>5. nm \in {r} \cup {x \in {"typed"} : r \in namedFor}
  BY <1>3, ConfigFields DEF RoomFormsOK
<1> DEFINE new == [name |-> nm, public |-> c.public, persistent |-> c.persistent, history |-> c.history]
<1>6. [c EXCEPT !.name = nm] = new
  BY <1>3, ConfigFields
<1>7. new \in Config(r)
  BY ZenonT(60), <1>3, <1>5, ConfigFields, ConfigMade
<1>8. [kind |-> "done", room |-> r] \in Tellings /\ formsEvents \in Seq(Tellings)
  BY <1>3 DEF Tellings, RoomFormsOK
<1>9. formsEvents' \in Seq(Tellings)
  BY <1>4, <1>8, AppendProperties
<1>10. rooms = [x \in Venues |-> rooms[x]] /\ (\A x \in Venues : rooms[x] \in Config(x))
  BY DEF RoomFormsOK
<1>11. rooms' = [rooms EXCEPT ![r] = new]
  BY <1>4, <1>6, Zenon
<1> HIDE DEF r, c, nm, new
<1>12. rooms' = [x \in Venues |-> rooms'[x]] /\ (\A x \in Venues : rooms'[x] \in Config(x))
  BY <1>3, <1>7, <1>10, <1>11
<1> QED
  BY <1>2, <1>9, <1>12

LEMMA RoomFormsTyped == ASSUME RoomFormsOK, RoomFormsStep PROVE RoomFormsOK'
<1>0. /\ rooms = [r \in Venues |-> rooms[r]] /\ (\A r \in Venues : rooms[r] \in Config(r))
      /\ wanted \in Seq(Venues) /\ formsEvents \in Seq(Tellings)
      /\ (pending = <<>> \/ pending \in Filling) /\ sent \in Seq(Filling)
  BY DEF RoomFormsOK
<1>1. ASSUME rooms' = [r \in Venues |-> rooms'[r]], \A r \in Venues : rooms'[r] \in Config(r),
             wanted' \in Seq(Venues), formsEvents' \in Seq(Tellings),
             pending' = <<>> \/ pending' \in Filling', sent' \in Seq(Filling),
             namedFor \subseteq namedFor'
      PROVE  RoomFormsOK'
  <2>1. \A r \in Venues : rooms'[r] \in Config(r)'
    BY <1>1, ConfigGrows
  <2>2. formsEvents' \in Seq(Tellings') /\ sent' \in Seq(Filling')
    BY <1>1, TellingsGrow, FillingGrows, SeqGrows
  <2> QED
    BY <1>1, <2>1, <2>2, Zenon DEF RoomFormsOK
<1>2. CASE FO!RoomConfigNameChanged \/ FO!RoomConfigPublicChanged \/ FO!RoomConfigPersistentChanged
  <2>1. pending # <<>>
    BY <1>2, Zenon DEF FO!RoomConfigNameChanged, FO!RoomConfigPublicChanged,
       FO!RoomConfigPersistentChanged
  <2> QED
    BY <1>0, <1>1, <1>2, <2>1, EditFits
<1>3. namedFor' = namedFor \/ FO!RoomConfigNameChanged
  BY Zenon DEF RoomFormsStep, FO!BuildConfigRequest, FO!HandleConfigForm, FO!HandleEvent,
     FO!RoomConfigPublicChanged, FO!RoomConfigPersistentChanged, FO!SubmitRoomConfig,
     FO!DismissRoomConfig,
     FO!Configure, FO!Cover
<1>4. ASSUME rooms' = [r \in Venues |-> rooms'[r]], \A r \in Venues : rooms'[r] \in Config(r),
             wanted' \in Seq(Venues), formsEvents' \in Seq(Tellings),
             pending' = <<>> \/ pending' \in Filling, sent' \in Seq(Filling),
             namedFor' = namedFor
      PROVE  RoomFormsOK'
  BY <1>1, <1>4, FillingGrows
<1>5. ASSUME NEW r \in Venues, FO!BuildConfigRequest(r), namedFor' = namedFor PROVE RoomFormsOK'
  <2>1. wanted' = Append(wanted, r) /\ UNCHANGED <<rooms, formsEvents, pending, sent>>
    BY <1>5, Zenon DEF FO!BuildConfigRequest
  <2>2. wanted' \in Seq(Venues)
    BY <1>0, <2>1, AppendProperties
  <2>3. /\ rooms' = [x \in Venues |-> rooms'[x]] /\ (\A x \in Venues : rooms'[x] \in Config(x))
        /\ formsEvents' \in Seq(Tellings) /\ (pending' = <<>> \/ pending' \in Filling) /\ sent' \in Seq(Filling)
    BY <1>0, <2>1, Zenon
  <2> QED
    BY <1>4, <1>5, <2>2, <2>3
<1>6. CASE FO!HandleConfigForm /\ namedFor' = namedFor
  <2>1. /\ wanted # <<>> /\ wanted' = Tail(wanted) /\ UNCHANGED <<rooms, pending, sent>>
        /\ \/ formsEvents' = formsEvents
           \/ \E c \in FO!ParseConfigForm(Head(wanted)) :
                formsEvents' = Append(formsEvents, [kind |-> "form", room |-> Head(wanted), config |-> c])
    BY <1>6, Zenon DEF FO!HandleConfigForm
  <2>2. wanted' \in Seq(Venues) /\ Head(wanted) \in Venues
    BY <1>0, <2>1, HeadTailProperties
  <2>3. formsEvents' \in Seq(Tellings)
    <3>1. ASSUME NEW c \in FO!ParseConfigForm(Head(wanted)),
                 formsEvents' = Append(formsEvents, [kind |-> "form", room |-> Head(wanted), config |-> c])
          PROVE  formsEvents' \in Seq(Tellings)
      <4>1. c \in Config(Head(wanted))
        BY <1>0, <2>2, <3>1, ParsedFits
      <4>2. [kind |-> "form", room |-> Head(wanted), config |-> c] \in Tellings
        BY <2>2, <4>1, TellingForm
      <4> QED
        BY <1>0, <3>1, <4>2, AppendProperties
    <3> QED
      BY <1>0, <2>1, <3>1
  <2>4. /\ rooms' = [x \in Venues |-> rooms'[x]] /\ (\A x \in Venues : rooms'[x] \in Config(x))
        /\ (pending' = <<>> \/ pending' \in Filling) /\ sent' \in Seq(Filling)
    BY <1>0, <2>1, Zenon
  <2> QED
    BY <1>4, <1>6, <2>2, <2>3, <2>4
<1>7. CASE FO!HandleEvent /\ namedFor' = namedFor
  <2>1. /\ formsEvents # <<>> /\ formsEvents' = Tail(formsEvents) /\ UNCHANGED <<rooms, wanted, sent>>
        /\ \/ pending' = pending \/ pending' = <<>>
           \/ Head(formsEvents).kind = "form" /\ pending' = <<Head(formsEvents).room, Head(formsEvents).config>>
    BY <1>7, Zenon DEF FO!HandleEvent, FO!RoomConfigFormReceived, FO!RoomConfigured
  <2>2. Head(formsEvents) \in Tellings /\ formsEvents' \in Seq(Tellings)
    BY <1>0, <2>1, HeadTailProperties
  <2>3. Head(formsEvents).kind = "form" =>
          Head(formsEvents).room \in Venues /\ Head(formsEvents).config \in Config(Head(formsEvents).room)
    BY <2>2, TellingIs
  <2>4. pending' = <<>> \/ pending' \in Filling
    BY <1>0, <2>1, <2>3, FilledIn
  <2>5. /\ rooms' = [x \in Venues |-> rooms'[x]] /\ (\A x \in Venues : rooms'[x] \in Config(x))
        /\ wanted' \in Seq(Venues) /\ sent' \in Seq(Filling)
    BY <1>0, <2>1, Zenon
  <2> QED
    BY <1>4, <1>7, <2>2, <2>4, <2>5
<1>8. CASE (FO!SubmitRoomConfig \/ FO!DismissRoomConfig \/ FO!Cover) /\ namedFor' = namedFor
  <2>1. /\ UNCHANGED <<rooms, wanted, formsEvents>>
        /\ pending' = pending \/ pending' = <<>>
        /\ sent' = sent \/ (pending # <<>> /\ sent' = Append(sent, pending))
    BY <1>8, Zenon DEF FO!SubmitRoomConfig, FO!DismissRoomConfig, FO!Cover
  <2>2. sent' \in Seq(Filling)
    BY <1>0, <2>1, AppendProperties
  <2>3. /\ rooms' = [x \in Venues |-> rooms'[x]] /\ (\A x \in Venues : rooms'[x] \in Config(x))
        /\ wanted' \in Seq(Venues) /\ formsEvents' \in Seq(Tellings)
        /\ (pending' = <<>> \/ pending' \in Filling)
    BY <1>0, <2>1, Zenon
  <2> QED
    BY <1>4, <1>8, <2>2, <2>3
<1>9. CASE FO!Configure /\ namedFor' = namedFor
  <2>1. UNCHANGED <<wanted, pending>>
    BY <1>9, Zenon DEF FO!Configure
  <2>2. wanted' \in Seq(Venues) /\ (pending' = <<>> \/ pending' \in Filling)
    BY <1>0, <2>1, Zenon
  <2> QED
    BY <1>4, <1>9, <2>2, ConfigureFits
<1> QED
  BY <1>2, <1>3, <1>5, <1>6, <1>7, <1>8, <1>9 DEF RoomFormsStep

LEMMA RoomFormsStay ==
  ASSUME RoomFormsOK, UNCHANGED <<rooms, wanted, formsEvents, pending, sent, namedFor>> PROVE RoomFormsOK'
<1>1. \A r : Config(r)' = Config(r)
  BY Zenon DEF Config
<1>2. Filling' = Filling
  BY <1>1, Zenon DEF Filling
<1>3. Tellings' = Tellings
  BY <1>1, Zenon DEF Tellings
<1> QED
  BY <1>1, <1>2, <1>3, Zenon DEF RoomFormsOK

LEMMA FormsInit == ASSUME FO!Init PROVE FormsInv
<1>1. /\ rooms = [r \in Venues |-> [name |-> r, public |-> FALSE, persistent |-> TRUE, history |-> 20]]
      /\ wanted = <<>> /\ formsEvents = <<>> /\ pending = <<>> /\ sent = <<>>
  BY Zenon DEF FO!Init
<1>2. \A r \in Venues : rooms[r] \in Config(r)
  BY <1>1 DEF Config
<1>3. <<>> \in Seq(Venues) /\ <<>> \in Seq(Tellings) /\ <<>> \in Seq(Filling)
  BY EmptySeq
<1>4. rooms = [r \in Venues |-> rooms[r]]
  BY <1>1
<1>5. RoomFormsOK
  BY <1>1, <1>2, <1>3, <1>4, Zenon DEF RoomFormsOK
<1>6. step.at = "list" /\ answers = {}
  BY DEF FO!Init
<1>7. SheetsOK
  BY <1>6 DEF SheetsOK, FO!TypedForThisForm
<1>8. CountsOK
  BY FormsAssumption DEF FO!Init, CountsOK
<1> QED
  BY <1>5, <1>7, <1>8 DEF FormsInv

LEMMA FormsStep == ASSUME FormsInv, FO!Next PROVE FormsInv'
<1>1. CASE RoomFormsStep
  BY <1>1, RoomFormsApart, RoomFormsTyped, SheetsStay, CountsStep DEF FormsInv
<1>2. CASE SheetsStep
  BY <1>2, SheetsApart, SheetsTyped, RoomFormsStay, CountsStep DEF FormsInv
<1> QED
  BY <1>1, <1>2, FormsSplit

LEMMA FormsStutter == ASSUME FormsInv, UNCHANGED FO!foVars PROVE FormsInv'
<1>1. /\ UNCHANGED <<rooms, wanted, formsEvents, pending, sent, namedFor>>
      /\ UNCHANGED <<step, values, answers, formsTyped>> /\ UNCHANGED <<created, formsPresses, formsShown>>
  BY Zenon DEF FO!foVars
<1>2. CountsOK'
  BY <1>1 DEF FormsInv, CountsOK
<1> QED
  BY <1>1, <1>2, RoomFormsStay, SheetsStay DEF FormsInv

LEMMA FormsHeld == FormsInv => FO!TypeOK /\ FO!NameIsOfRoom /\ FO!TypedForThisForm
<1> SUFFICES ASSUME FormsInv PROVE FO!TypeOK /\ FO!NameIsOfRoom /\ FO!TypedForThisForm
  OBVIOUS
<1>1. RoomFormsOK /\ SheetsOK /\ CountsOK
  BY DEF FormsInv
<1>2. ASSUME NEW r \in Venues
      PROVE  /\ rooms[r].public \in BOOLEAN /\ rooms[r].history \in {20, 50}
             /\ rooms[r].name # r => rooms[r].name = "typed" /\ r \in namedFor
  BY <1>1, ConfigFields DEF RoomFormsOK
<1>3. \A i \in DOMAIN wanted : wanted[i] \in Venues
  BY <1>1, ElementOfSeq DEF RoomFormsOK
<1>4. pending = <<>> \/ pending[1] \in Venues
  BY <1>1, FilledFor DEF RoomFormsOK
<1>5. FO!TypeOK
  BY <1>1, <1>2, <1>3, <1>4, Zenon DEF FO!TypeOK, SheetsOK, CountsOK
<1> QED
  BY <1>1, <1>2, <1>5 DEF FO!NameIsOfRoom, SheetsOK

-----------------------------------------------------------------------------
(* The composite: a step is one of the component that runs, and each of the *)
(* inductive invariants holds, whichever component that is.                *)

LEMMA AlwaysPresence == AllSpec => []PresenceInv
<1>1. AllInit => PresenceInv
  BY PresenceInit, Zenon DEF AllInit
<1>2. PresenceInv /\ [AllNext]_allVars => PresenceInv'
  <2> SUFFICES ASSUME PresenceInv, [AllNext]_allVars PROVE PresenceInv'
    OBVIOUS
  <2>1. CASE Next
    BY <2>1, PresenceStep, Zenon
  <2>2. CASE UNCHANGED vars
    BY <2>2, PresenceStutter
  <2>3. Next \/ UNCHANGED vars
    BY Zenon DEF AllNext, allVars
  <2> QED
    BY <2>1, <2>2, <2>3
<1> QED
  BY <1>1, <1>2, PTL DEF AllSpec

LEMMA AlwaysHistory == AllSpec => []HistoryInv
<1>1. AllInit => HistoryInv
  BY HistoryInit, Zenon DEF AllInit
<1>2. HistoryInv /\ [AllNext]_allVars => HistoryInv'
  <2> SUFFICES ASSUME HistoryInv, [AllNext]_allVars PROVE HistoryInv'
    OBVIOUS
  <2>1. CASE HI!Next
    BY <2>1, HistoryStep, Zenon
  <2>2. CASE UNCHANGED historyState
    <3>1. UNCHANGED HI!vars
      BY <2>2, Zenon DEF historyState, HI!vars, HI!screen, HI!db, HI!bounds
    <3> QED
      BY <3>1, HistoryStutter
  <2>3. HI!Next \/ UNCHANGED historyState
    BY Zenon DEF AllNext, allVars
  <2> QED
    BY <2>1, <2>2, <2>3
<1> QED
  BY <1>1, <1>2, PTL DEF AllSpec

LEMMA AlwaysMutations == AllSpec => []MutationsInv
<1>1. AllInit => MutationsInv
  BY MutationsInit, Zenon DEF AllInit
<1>2. MutationsInv /\ [AllNext]_allVars => MutationsInv'
  <2> SUFFICES ASSUME MutationsInv, [AllNext]_allVars PROVE MutationsInv'
    OBVIOUS
  <2>1. CASE MU!Next
    BY <2>1, MutationsStep, Zenon
  <2>2. CASE UNCHANGED mutationsState
    <3>1. UNCHANGED MU!vars
      BY <2>2, Zenon DEF mutationsState, MU!vars, MU!shownVars, MU!peerVars
    <3> QED
      BY <3>1, MutationsStutter
  <2>3. MU!Next \/ UNCHANGED mutationsState
    BY Zenon DEF AllNext, allVars
  <2> QED
    BY <2>1, <2>2, <2>3
<1> QED
  BY <1>1, <1>2, PTL DEF AllSpec

LEMMA AlwaysMuting == AllSpec => []MutingInv
<1>1. AllInit => MutingInv
  BY MutingInit, Zenon DEF AllInit
<1>2. MutingInv /\ [AllNext]_allVars => MutingInv'
  <2> SUFFICES ASSUME MutingInv, [AllNext]_allVars PROVE MutingInv'
    OBVIOUS
  <2>1. CASE MT!Next
    BY <2>1, MutingStep, Zenon
  <2>2. CASE UNCHANGED mutingState
    <3>1. UNCHANGED MT!vars
      BY <2>2, Zenon DEF mutingState, MT!vars
    <3> QED
      BY <3>1, MutingStutter
  <2>3. MT!Next \/ UNCHANGED mutingState
    BY Zenon DEF AllNext, allVars
  <2> QED
    BY <2>1, <2>2, <2>3
<1> QED
  BY <1>1, <1>2, PTL DEF AllSpec

LEMMA AlwaysRooms == AllSpec => []RoomsInv
<1>1. AllInit => RoomsInv
  BY RoomsInit, Zenon DEF AllInit
<1>2. RoomsInv /\ [AllNext]_allVars => RoomsInv'
  <2> SUFFICES ASSUME RoomsInv, [AllNext]_allVars PROVE RoomsInv'
    OBVIOUS
  <2>1. CASE RO!Next
    BY <2>1, RoomsStep, Zenon
  <2>2. CASE UNCHANGED roomsState
    <3>1. UNCHANGED RO!vars
      BY <2>2, Zenon DEF roomsState, RO!vars, RO!chatVars, RO!streamVars, RO!serverVars, RO!bounds
    <3> QED
      BY <3>1, RoomsStutter
  <2>3. RO!Next \/ UNCHANGED roomsState
    BY Zenon DEF AllNext, allVars
  <2> QED
    BY <2>1, <2>2, <2>3
<1> QED
  BY <1>1, <1>2, PTL DEF AllSpec

LEMMA AlwaysTimeline == AllSpec => []TimelineInv
<1>1. AllInit => TimelineInv
  BY TimelineInit, Zenon DEF AllInit
<1>2. TimelineInv /\ [AllNext]_allVars => TimelineInv'
  <2> SUFFICES ASSUME TimelineInv, [AllNext]_allVars PROVE TimelineInv'
    OBVIOUS
  <2>1. CASE TI!Next
    BY <2>1, TimelineStep, Zenon
  <2>2. CASE UNCHANGED timelineState
    <3>1. UNCHANGED TI!tlVars
      BY <2>2, Zenon DEF timelineState, TI!tlVars
    <3> QED
      BY <3>1, TimelineStutter
  <2>3. TI!Next \/ UNCHANGED timelineState
    BY Zenon DEF AllNext, allVars
  <2> QED
    BY <2>1, <2>2, <2>3
<1> QED
  BY <1>1, <1>2, PTL DEF AllSpec

LEMMA AlwaysSidebar == AllSpec => []SidebarInv
<1>1. AllInit => SidebarInv
  BY SidebarInit, Zenon DEF AllInit
<1>2. SidebarInv /\ [AllNext]_allVars => SidebarInv'
  <2> SUFFICES ASSUME SidebarInv, [AllNext]_allVars PROVE SidebarInv'
    OBVIOUS
  <2>1. CASE SB!Next
    BY <2>1, SidebarStep, Zenon
  <2>2. CASE UNCHANGED sidebarState
    <3>1. UNCHANGED SB!sbVars
      BY <2>2, Zenon DEF sidebarState, SB!sbVars
    <3> QED
      BY <3>1, SidebarStutter
  <2>3. SB!Next \/ UNCHANGED sidebarState
    BY Zenon DEF AllNext, allVars
  <2> QED
    BY <2>1, <2>2, <2>3
<1> QED
  BY <1>1, <1>2, PTL DEF AllSpec

LEMMA AlwaysShell == AllSpec => []ShellInv
<1>1. AllInit => ShellInv
  BY ShellInit, Zenon DEF AllInit
<1>2. ShellInv /\ [AllNext]_allVars => ShellInv'
  <2> SUFFICES ASSUME ShellInv, [AllNext]_allVars PROVE ShellInv'
    OBVIOUS
  <2>1. CASE SH!Next
    BY <2>1, ShellStep, Zenon
  <2>2. CASE UNCHANGED shellState
    <3>1. UNCHANGED SH!shVars
      BY <2>2, Zenon DEF shellState, SH!shVars
    <3> QED
      BY <3>1, ShellStutter
  <2>3. SH!Next \/ UNCHANGED shellState
    BY Zenon DEF AllNext, allVars
  <2> QED
    BY <2>1, <2>2, <2>3
<1> QED
  BY <1>1, <1>2, PTL DEF AllSpec

LEMMA AlwaysForms == AllSpec => []FormsInv
<1>1. AllInit => FormsInv
  BY FormsInit, Zenon DEF AllInit
<1>2. FormsInv /\ [AllNext]_allVars => FormsInv'
  <2> SUFFICES ASSUME FormsInv, [AllNext]_allVars PROVE FormsInv'
    OBVIOUS
  <2>1. CASE FO!Next
    BY <2>1, FormsStep, Zenon
  <2>2. CASE UNCHANGED formsState
    <3>1. UNCHANGED FO!foVars
      BY <2>2, Zenon DEF formsState, FO!foVars
    <3> QED
      BY <3>1, FormsStutter
  <2>3. FO!Next \/ UNCHANGED formsState
    BY Zenon DEF AllNext, allVars
  <2> QED
    BY <2>1, <2>2, <2>3
<1> QED
  BY <1>1, <1>2, PTL DEF AllSpec

LEMMA AlwaysStyling == AllSpec => []BodyOK
<1>1. AllInit => BodyOK
  BY BodyInit, Zenon DEF AllInit
<1>2. BodyOK /\ [AllNext]_allVars => BodyOK'
  <2> SUFFICES ASSUME BodyOK, [AllNext]_allVars PROVE BodyOK'
    OBVIOUS
  <2>1. CASE StylingNext
    BY <2>1, BodyStep, Zenon
  <2>2. CASE UNCHANGED body
    BY <2>2 DEF BodyOK
  <2>3. StylingNext \/ UNCHANGED body
    BY Zenon DEF AllNext, allVars
  <2> QED
    BY <2>1, <2>2, <2>3
<1> QED
  BY <1>1, <1>2, PTL DEF AllSpec

-----------------------------------------------------------------------------
(* The theorems.                                                             *)

\* Every variable of the ten keeps its type: in particular the panel of a room
\* that is not registered is empty, as is what the engine knows of a room that it
\* did not join (chat.rs, on_presence; muc.rs, on_presence), and a conversation
\* with a page of its own has one on the screen.
THEOREM ChatTypesCorrect == AllSpec => []AllTypesOK
<1>1. ASSUME PresenceInv, HistoryInv, MutationsInv, MutingInv, RoomsInv, TimelineInv, SidebarInv,
             ShellInv, FormsInv, BodyOK
      PROVE  AllTypesOK
  <2>1. /\ TypeOK /\ HI!TypeOK /\ MU!TypeOK /\ MT!TypeOK /\ RO!TypeOK /\ TI!TypeOK
        /\ SB!TypeOK /\ SH!TypeOK /\ FO!TypeOK /\ body \in Seq(Alphabet)
    BY <1>1, PresenceHeld, HistoryHeld, MutationsTyped, MutingTyped, RoomsHeld, TimelineHeld,
       SidebarHeld, ShellHeld, FormsHeld, Zenon DEF BodyOK
  <2> QED
    BY <2>1 DEF AllTypesOK
<1> QED
  BY <1>1, AlwaysPresence, AlwaysHistory, AlwaysMutations, AlwaysMuting, AlwaysRooms,
     AlwaysTimeline, AlwaysSidebar, AlwaysShell, AlwaysForms, AlwaysStyling, PTL

\* While the machine is away of its own accord, what the user chose is what it will
\* return to, and an explicit status is never changed by it (presence_machine.rs,
\* on_auto_away, on_auto_xa and on_user_active).
THEOREM ExplicitStatusKept == AllSpec => [](NeverAutoModified /\ AutoRestores)
<1>1. PresenceInv => NeverAutoModified /\ AutoRestores
  BY PresenceHeld
<1> QED
  BY <1>1, AlwaysPresence, PTL

\* What the server shows of the user is the machine's status, for any thresholds and
\* every order in which the tasks of the interface reach the engine (engine.rs,
\* SetPresence and the idle events).
THEOREM AnnouncedIsShown == AllSpec => []ShownIsEffective
<1>1. PresenceInv => ShownIsEffective
  BY PresenceHeld, Zenon
<1> QED
  BY <1>1, AlwaysPresence, PTL

\* What a conversation shows is in the database or on its way there, whatever is
\* loaded, cleared, covered or stored in between, and its badge counts only what
\* came since it was looked at (mod.rs, MessageReceived and ClearHistory).
THEOREM ShownIsStored == AllSpec => []HistoryIsTrue
<1>1. HistoryInv => HistoryIsTrue
  BY HistoryHeld, Zenon DEF HistoryIsTrue
<1> QED
  BY <1>1, AlwaysHistory, PTL

\* A retracted row is never shown whole again, whatever is delivered twice; a
\* message that was read stays read, whatever receipts come late (message_repo.rs,
\* insert; update.rs, MessageDelivered).
THEOREM WhatIsGoneStaysGone == AllSpec => NothingComesBack
<1>1. [AllNext]_allVars => [\A m \in struck : m \in rows' => m \in struck']_(HI!vars)
  <2> SUFFICES ASSUME [AllNext]_allVars, NEW m \in struck, m \in rows' PROVE m \in struck'
    OBVIOUS
  <2>1. HI!Next \/ UNCHANGED historyState
    BY Zenon DEF AllNext, allVars
  <2>2. UNCHANGED historyState => UNCHANGED HI!vars
    BY Zenon DEF historyState, HI!vars, HI!screen, HI!db, HI!bounds
  <2>3. [HI!Next]_(HI!vars)
    BY <2>1, <2>2, Zenon
  <2> QED
    BY <2>3, StruckStays
<1>2. MutationsInv /\ [AllNext]_allVars
        => [\A m \in Sent : mark[m] = "Read" => mark'[m] = "Read"]_(MU!vars)
  <2> SUFFICES ASSUME MutationsInv, [AllNext]_allVars, NEW m \in Sent, mark[m] = "Read"
               PROVE  mark'[m] = "Read"
    OBVIOUS
  <2>1. MU!Next \/ UNCHANGED mutationsState
    BY Zenon DEF AllNext, allVars
  <2>2. UNCHANGED mutationsState => UNCHANGED MU!vars
    BY Zenon DEF mutationsState, MU!vars, MU!shownVars, MU!peerVars
  <2>3. [MU!Next]_(MU!vars)
    BY <2>1, <2>2, Zenon
  <2> QED
    BY <2>3, MarksStay
<1> QED
  BY <1>1, <1>2, AlwaysMutations, PTL
     DEF AllSpec, NothingComesBack, HI!RetractionSticks, MU!ReadStays

\* When all is delivered, the panel of a room that is not covered meanwhile shows the
\* occupants that the engine knows, and they are those of the room: for any rooms,
\* nicknames, joins and sessions (muc.rs, on_presence; chat.rs, on_presence).
THEOREM PanelShowsTheRoom == AllSpec => []PanelAgrees
<1>1. RoomsInv => PanelAgrees
  BY RoomsHeld, Zenon DEF PanelAgrees
<1> QED
  BY <1>1, AlwaysRooms, PTL

\* Nobody's words stand under another's name, and the active conversation is listed
\* (conversation/view.rs; chat.rs, ArchiveConversation).
THEOREM ScreensStayTrue == AllSpec => []ScreensAgree
<1>1. TimelineInv /\ SidebarInv => ScreensAgree
  BY TimelineHeld, SidebarHeld, Zenon DEF ScreensAgree
<1> QED
  BY <1>1, AlwaysTimeline, AlwaysSidebar, PTL

\* Each toast has a timer that names it and no other, and the console shows the last
\* stanzas in order, for any capacity (mod.rs, ShowToast; console.rs, push).
THEOREM FrameStaysTrue == AllSpec => []FrameKeepsUp
<1>1. ShellInv => FrameKeepsUp
  BY ShellHeld, Zenon DEF FrameKeepsUp
<1> QED
  BY <1>1, AlwaysShell, PTL

\* A room gets no name, and a service no value, that was typed into the form of
\* another (chat.rs, RoomConfigFormReceived; adhoc.rs, CommandResponseReceived).
THEOREM FormsStayApart == AllSpec => []FormsKeepApart
<1>1. FormsInv => FormsKeepApart
  BY FormsHeld, Zenon DEF FormsKeepApart
<1> QED
  BY <1>1, AlwaysForms, PTL

\* Whatever is typed: the spans a body is shown in are the body, and they are whole,
\* by the lemmas of Styling_proofs (styling.rs, parse).
THEOREM BodiesAreKept == AllSpec => []BodiesKept
<1>1. BodyOK => BodiesKept
  BY BodyIsKept, BodyIsWhole DEF BodiesKept
<1> QED
  BY <1>1, AlwaysStyling, PTL
=============================================================================
