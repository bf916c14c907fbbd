-------------------------------- MODULE Upload --------------------------------
(***************************************************************************)
(* Sending attachments.  The UI remembers one file to upload and spawns a  *)
(* task that asks the engine for a slot for each attachment; the engine    *)
(* lets one request be under way; the slot the server grants comes back as *)
(* an event, and the UI puts the file it remembers there and posts its     *)
(* address.  A file stands for its path, and for the request made for it.  *)
(***************************************************************************)
EXTENDS Naturals, Sequences

CONSTANTS
  Files,       \* the attachments the user may send
  None,        \* no file
  MaxBatch,    \* bound: attachments of one message
  MaxSessions  \* bound: sessions

ASSUME UploadAssumption ==
  /\ None \notin Files
  /\ MaxBatch \in Nat /\ MaxSessions \in Nat

VARIABLES
  sent,      \* the attachments sent so far: each is sent once
  chat,      \* a Chat screen has been opened: some session was online
  upload,    \* pending_upload of the UI
  tasks,     \* what each spawned task has still to send
  cmds,      \* the command channel
  stream,    \* the session: none, or what its client is doing
  pending,   \* pending slot requests of the session's FileUploadManager
  asked,     \* external: requests the server has and will answer
  events,    \* the event channel
  puts,      \* the PUTs under way
  sessions,  \* sessions so far (bound)
  used,      \* history: every PUT ever made
  posted,    \* history: the PUTs whose address was posted
  early,     \* history: requests the session made without a stream
  misread    \* history: requests of the session answered by what cannot be read

vars == <<sent, chat, upload, tasks, cmds, stream, pending, asked, events, puts,
          sessions, used, posted, early, misread>>

\* A file is put into the slot that was requested for some file.
Puts   == [slot : Files, file : Files]
Cmds   == [op : {"request"}, file : Files] \cup [op : {"post"}, put : Puts]
Events == [type : {"slot", "error"}, file : Files]

Request(f) == [op |-> "request", file |-> f]
Post(p)    == [op |-> "post", put |-> p]
Put(s, f)  == [slot |-> s, file |-> f]

Init ==
  /\ sent = {} /\ chat = FALSE /\ upload = None /\ tasks = {} /\ cmds = <<>>
  /\ stream = "none" /\ pending = {} /\ asked = {} /\ events = <<>>
  /\ puts = {} /\ sessions = 0
  /\ used = {} /\ posted = {} /\ early = {} /\ misread = {}

-----------------------------------------------------------------------------
(* The UI *)

Batches == {b \in UNION {[1..k -> Files \ sent] : k \in 1..MaxBatch} :
              \A i, j \in DOMAIN b : b[i] = b[j] => i = j}

\* handle_send, and what the App does with its outcome: the first attachment is
\* remembered unless another one is, and one task requests a slot for each.
\* The Chat screen outlives its session below a screen that was opened above it.
UserSend(b) ==
  /\ chat /\ sent' = sent \cup {b[i] : i \in DOMAIN b}
  /\ upload' = IF upload = None THEN b[1] ELSE upload
  /\ tasks' = tasks \cup {[i \in DOMAIN b |-> Request(b[i])]}
  /\ UNCHANGED <<chat, cmds, stream, pending, asked, events, puts, sessions,
                 used, posted, early, misread>>

\* (mutant) The loop over the commands goes on when none is left.
RestAlways(t) == {Tail(t)}
\* What is left of a task.
Rest(t) == IF Len(t) = 1 THEN {} ELSE {Tail(t)}

\* A task sends its next command; the channel has room for all of them.
TaskSend(t) ==
  /\ cmds' = Append(cmds, Head(t))
  /\ tasks' = (tasks \ {t}) \cup Rest(t)
  /\ UNCHANGED <<sent, chat, upload, stream, pending, asked, events, puts,
                 sessions, used, posted, early, misread>>

\* pending_upload.take()
Taken == None

\* Any slot is taken to be that of the remembered file.
HandleSlot ==
  /\ events # <<>> /\ Head(events).type = "slot" /\ events' = Tail(events)
  /\ IF upload = None
     THEN UNCHANGED <<upload, puts, used>>
     ELSE LET p == Put(Head(events).file, upload)
          IN puts' = puts \cup {p} /\ used' = used \cup {p} /\ upload' = Taken
  /\ UNCHANGED <<sent, chat, tasks, cmds, stream, pending, asked, sessions,
                 posted, early, misread>>

\* UploadSlotError is ignored.
HandleError ==
  /\ events # <<>> /\ Head(events).type = "error" /\ events' = Tail(events)
  /\ UNCHANGED <<sent, chat, upload, tasks, cmds, stream, pending, asked,
                 puts, sessions, used, posted, early, misread>>

\* The server of the slot takes the file, and its address is to be posted.
PutDone(p) ==
  /\ puts' = puts \ {p}
  /\ tasks' = tasks \cup {<<Post(p)>>}
  /\ UNCHANGED <<sent, chat, upload, cmds, stream, pending, asked, events,
                 sessions, used, posted, early, misread>>

\* The file cannot be read or put: this is only logged.
PutFailed(p) ==
  /\ puts' = puts \ {p}
  /\ UNCHANGED <<sent, chat, upload, tasks, cmds, stream, pending, asked,
                 events, sessions, used, posted, early, misread>>

-----------------------------------------------------------------------------
(* The engine *)

TakeCmd(op) == cmds # <<>> /\ Head(cmds).op = op /\ cmds' = Tail(cmds)

\* (mutant) The guard looks for the same request only.
MayRequestOther(f) == f \notin pending
\* The concurrency guard; a request that does not pass is dropped.
MayRequest(f) == pending = {}

\* Without a stream the stanza is lost, and the request stays pending.
RequestSlot ==
  /\ stream # "none" /\ TakeCmd("request")
  /\ LET f == Head(cmds).file
     IN IF ~MayRequest(f)
        THEN UNCHANGED <<pending, asked, early>>
        ELSE /\ pending' = pending \cup {f}
             /\ asked' = IF stream = "online" THEN asked \cup {f} ELSE asked
             /\ early' = IF stream = "online" THEN early ELSE early \cup {f}
  /\ UNCHANGED <<sent, chat, upload, tasks, stream, events, puts, sessions,
                 used, posted, misread>>

SendMessage ==
  /\ stream # "none" /\ TakeCmd("post")
  /\ posted' = posted \cup (IF stream = "online" THEN {Head(cmds).put} ELSE {})
  /\ UNCHANGED <<sent, chat, upload, tasks, stream, pending, asked, events,
                 puts, sessions, used, early, misread>>

DiscardCmd ==
  /\ stream = "none" /\ cmds # <<>> /\ cmds' = Tail(cmds)
  /\ UNCHANGED <<sent, chat, upload, tasks, stream, pending, asked, events,
                 puts, sessions, used, posted, early, misread>>

\* A result is taken off the pending requests once its slot, with both addresses,
\* has been read; one that cannot be read leaves them and tells nobody.
SlotResult(f) == f \in pending /\ pending' = pending \ {f}
SlotUnreadable(f) == f \in pending /\ UNCHANGED pending /\ misread' = misread \cup {f}

SlotError(f) == f \in pending /\ pending' = pending \ {f}

\* The server grants a slot or refuses one.
Answered(f, type) ==
  /\ stream = "online" /\ f \in asked /\ asked' = asked \ {f}
  /\ events' = Append(events, [type |-> type, file |-> f])
  /\ UNCHANGED <<sent, chat, upload, tasks, cmds, stream, puts, sessions,
                 used, posted, early, misread>>

\* The server grants a slot without an address, or answers with something else.
Misread(f) ==
  /\ stream = "online" /\ f \in asked /\ asked' = asked \ {f}
  /\ SlotUnreadable(f)
  /\ UNCHANGED <<sent, chat, upload, tasks, cmds, stream, events, puts, sessions,
                 used, posted, early>>

Granted(f) == Answered(f, "slot") /\ SlotResult(f)
Refused(f) == Answered(f, "error") /\ SlotError(f)

-----------------------------------------------------------------------------
(* Sessions *)

StartSession ==
  /\ stream = "none" /\ sessions < MaxSessions
  /\ stream' = "connecting" /\ sessions' = sessions + 1
  /\ pending' = {} /\ early' = {} /\ misread' = {}
  /\ UNCHANGED <<sent, chat, upload, tasks, cmds, asked, events, puts, used,
                 posted>>

GoOnline ==
  /\ stream = "connecting" /\ stream' = "online"
  /\ chat' = TRUE
  /\ UNCHANGED <<sent, upload, tasks, cmds, pending, asked, events, puts,
                 sessions, used, posted, early, misread>>

\* The stream breaks, and with it what the server would have answered.
GoOffline ==
  /\ stream \in {"connecting", "online"} /\ stream' = "down"
  /\ asked' = {}
  /\ UNCHANGED <<sent, chat, upload, tasks, cmds, pending, events, puts,
                 sessions, used, posted, early, misread>>

EndSession ==
  /\ stream # "none" /\ stream' = "none"
  /\ asked' = {}
  /\ UNCHANGED <<sent, chat, upload, tasks, cmds, pending, events, puts,
                 sessions, used, posted, early, misread>>

-----------------------------------------------------------------------------
Ui ==
  \/ \E b \in Batches : UserSend(b)
  \/ \E t \in tasks : TaskSend(t)
  \/ HandleSlot \/ HandleError
  \/ \E p \in puts : PutDone(p) \/ PutFailed(p)

Engine ==
  \/ RequestSlot \/ SendMessage \/ DiscardCmd
  \/ \E f \in asked : Granted(f) \/ Refused(f) \/ Misread(f)

Next == Ui \/ Engine \/ StartSession \/ GoOnline \/ GoOffline \/ EndSession

Spec == Init /\ [][Next]_vars

-----------------------------------------------------------------------------
(* Properties *)

\* The shape of the state.
TypeOK ==
  /\ sent \subseteq Files /\ chat \in BOOLEAN /\ upload \in Files \cup {None}
  /\ tasks \subseteq Seq(Cmds) \ {<<>>} /\ cmds \in Seq(Cmds)
  /\ stream \in {"none", "connecting", "online", "down"}
  /\ pending \subseteq Files /\ asked \subseteq pending
  /\ events \in Seq(Events) /\ puts \subseteq Puts /\ sessions \in Nat
  /\ used \subseteq Puts /\ posted \subseteq used /\ early \subseteq Files
  /\ misread \subseteq Files

\* No file is uploaded twice and no slot is used twice, whatever requests are
\* refused or lost and however late the slots come.
PutOnce ==
  \A p, q \in used : p.file = q.file \/ p.slot = q.slot => p = q

\* What keeps the guard shut while online is one request, and it is one that the
\* server still owes an answer, or that was made without a stream, or whose
\* result could not be read; nothing else that happens leaves it shut.
GuardIsReleased ==
  stream = "online" =>
    \A f, g \in pending : f = g /\ (f \in asked \/ f \in early \/ f \in misread)

\* "IQ id used for correlation with the server's result": a file is put into
\* the slot that was requested for it.
OwnSlot == \A p \in used : p.slot = p.file
=============================================================================
