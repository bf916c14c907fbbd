---------------------------- MODULE MessageParts ----------------------------
(***************************************************************************)
(* Three components side by side: the counters of the stream, the queries  *)
(* of the archive, and the composer.  They share no state in the model, so *)
(* a behaviour is one of a single component, chosen at first.              *)
(***************************************************************************)
EXTENDS Stream, FiniteSets

CONSTANTS
  Parts,                                                 \* the components to run
  None,                                                  \* no filter, no edit
  Convs, Server, Stored, Blocked, Cursors, PageMax, MaxSessions, MaxSyncs, \* of Archive
  MaxTexts, MaxLinks, MaxPresses, MaxStaged, MaxThreads, MaxTasks         \* of Composer

\* What the archive holds are messages of conversations, and neither the server
\* nor nobody is one of these; bounds that the guards compare with are numbers.
ASSUME ArchiveAssumption ==
  /\ Stored \in Seq([id : Nat, conv : Convs, text : BOOLEAN])
  /\ Server \notin Convs /\ MaxSessions \in Nat /\ MaxSyncs \in Nat
  /\ None \notin [n : 0..MaxSyncs, conv : Convs \cup {Server}]
ASSUME ComposerAssumption ==
  MaxTexts \in Nat /\ MaxLinks \in Nat /\ MaxPresses \in Nat /\ MaxStaged \in Nat

VARIABLES
  part,
  finId, sessions, online, syncs, mam, catchup, sync, blocked, known, wire, told,
  finished, again,
  open, visible, covered, draft, edit, staged, voice, encrypted, capture, shown, rows, tasks,
  sent, links, presses, orphans, unstaged, dropped

AR == INSTANCE Archive WITH seen <- known, shown <- told

CO == INSTANCE Composer

archived == <<finId, sessions, online, syncs, mam, catchup, sync, blocked, known, wire, told,
              finished, again>>
composed == <<open, visible, covered, draft, edit, staged, voice, encrypted, capture, shown, rows,
              tasks, sent, links, presses, orphans, unstaged, dropped>>
allVars == <<part, streamVars, archived, composed>>

\* A step of one component leaves the others alone.
InStream   == part = "stream" /\ UNCHANGED <<part, archived, composed>>
InArchive  == part = "archive" /\ UNCHANGED <<part, streamVars, composed>>
InComposer == part = "composer" /\ UNCHANGED <<part, streamVars, archived>>

AllInit == part \in Parts /\ Init /\ AR!Init /\ CO!Init /\ (part # "archive" => finId)
AllNext == (InStream /\ Next) \/ (InArchive /\ AR!Next) \/ (InComposer /\ CO!Next)

\* The fairness of FairSpec in Archive and in Composer.
AllSpec ==
  /\ AllInit /\ [][AllNext]_allVars
  /\ WF_allVars(InArchive /\ AR!Answered)
  /\ WF_allVars(InComposer /\ CO!EncoderAnswers)
  /\ WF_allVars(InComposer /\ CO!SendArrives)

\* Every variable of the three keeps its type.
AllTypesOK == TypeOK /\ AR!TypeOK /\ CO!TypeOK

\* When the catch-up is reported as finished, its page has arrived (mam.rs,
\* on_fin_iq; catchup.rs, on_fin).
CaughtUp == AR!CaughtUp

\* A sync that says it is complete has no query under way (sync.rs, is_complete).
CompleteMeansFetched == AR!CompleteMeansFetched

\* A sync ends for every conversation (sync.rs, on_fin).
SyncCompletes == AR!SyncCompletes

\* The catch-up brings the last messages of the archive (engine.rs).
LastFifty == AR!LastFifty

\* The microphone is recorded only while the recorder is shown, but for the
\* recordings whose handle was dropped (update.rs, StopRecording).
CaptureBound == CO!CaptureBound

\* An own message on the screen is one that was sent (chat.rs, handle_send).
ShownIsSent == CO!ShownIsSent

\* A text leaves only when the user sends it (chat.rs, on_message_received).
SentByUser == CO!SentByUser

\* The recorder is idle again after a voice message, unless it was unstaged or
\* its message met another screen (update.rs, VoiceEncodingDone; mod.rs,
\* Message::Chat).
VoiceEnds == CO!VoiceEnds
=============================================================================
