------------------------------ MODULE Composer ------------------------------
(***************************************************************************)
(* The composer of one conversation, as the chat screen and the view of    *)
(* the conversation drive it: the draft, the edit mode, the files staged   *)
(* for upload, the voice recorder, and the tasks that run beside the user  *)
(* and answer with a message of their own (file picker, clipboard, WAV     *)
(* encoder, history load, previews of links).  Another screen of the       *)
(* application may box the chat screen: what a task answers is then thrown *)
(* away.  An identifier is the number of the text it was drawn for;        *)
(* Copy(n) is the identifier of its own that the row of text n gets in the *)
(* database.                                                               *)
(***************************************************************************)
EXTENDS Naturals, FiniteSets

CONSTANTS
  None,       \* no edit
  MaxTexts,   \* bound: texts that left the composer
  MaxLinks,   \* bound: messages of the peer that hold a link
  MaxPresses, \* bound: times the user presses Send
  MaxStaged,  \* bound: files staged at once
  MaxThreads, \* bound: threads that record
  MaxTasks    \* bound: tasks running when the user starts another

VARIABLES
  open,      \* the conversation is in the map of the chat screen
  visible,   \* it is the active one
  covered,   \* the settings, the switcher or the like box the chat screen
  draft,     \* composer: "" or what the text in it holds
  edit,      \* edit_mode: the message that is being edited
  staged,    \* pending_attachments: how many files
  voice,     \* voice_state
  encrypted, \* is_encryption_enabled
  capture,   \* threads that record from the microphone
  shown,     \* own messages of the view, by identifier
  rows,      \* own messages of the database, by identifier
  tasks,     \* what runs beside the user
  sent,      \* history: SendMessage and OmemoEncryptMessage commands
  links,     \* history: messages of the peer with a link
  presses,   \* history: how often the user pressed Send
  orphans,   \* history: recordings whose handle was dropped
  unstaged,  \* history: a voice message was unstaged before its Send came
  dropped    \* history: the encoder answered, or its Send came, to a covered chat

composerVars == <<open, visible, covered, draft, edit, staged, voice, encrypted, capture, shown,
          rows, tasks, sent, links, presses, orphans, unstaged, dropped>>
view == <<open, visible, covered>>
composer == <<draft, edit, staged, voice, encrypted>>
history  == <<links, presses, orphans, unstaged, dropped>>

Drafts == {"", "text", "link"}
Voices == {"Idle", "Recording", "Encoding", "Uploading"}
Texts  == 1..MaxTexts
Copy(n) == n + MaxTexts
Ids    == 1..(2 * MaxTexts)
Commands == [n : Texts, omemo : BOOLEAN]
NextText == Cardinality(sent) + 1

\* A task is a pair: what runs, and what it runs for.
Simple == {<<"pick", 0>>, <<"paste", 0>>, <<"encode", 0>>, <<"send", 0>>, <<"read", 0>>}
Tasks  == Simple \cup ({"store"} \X Texts) \cup ({"preview"} \X (1..(MaxTexts + MaxLinks)))
                 \cup ({"loaded"} \X SUBSET Ids)
\* Those that answer with a message; storing and reading go to the database.
Answers == {t \in Tasks : t[1] \notin {"store", "read"}}
Room == Cardinality(tasks) < MaxTasks
OnScreen == open /\ visible /\ ~covered

\* ConversationView::new
NewView ==
  /\ draft' = "" /\ edit' = None /\ staged' = 0 /\ voice' = "Idle"
  /\ encrypted' = FALSE /\ shown' = {}

Init ==
  /\ open = FALSE /\ visible = FALSE /\ covered = FALSE
  /\ draft = "" /\ edit = None /\ staged = 0 /\ voice = "Idle"
  /\ encrypted = FALSE /\ capture = 0 /\ shown = {} /\ rows = {}
  /\ tasks = {} /\ sent = {} /\ links = 0 /\ presses = 0 /\ orphans = 0
  /\ unstaged = FALSE /\ dropped = FALSE

-----------------------------------------------------------------------------
(* handle_send: what Send does, whoever sends it.  rest are the tasks that   *)
(* are left when it is handled.                                              *)

\* (mutant) The recorder is not reset.
SendAttachmentsVoice(rest) ==
  /\ staged' = 0 /\ draft' = "" /\ edit' = None
  /\ tasks' = rest
  /\ UNCHANGED <<voice, shown, sent>>

\* The files are queued for upload, and Send clears the composer with them.
SendAttachments(rest) ==
  /\ staged' = 0 /\ draft' = "" /\ edit' = None
  /\ voice' = IF voice = "Uploading" THEN "Idle" ELSE voice
  /\ tasks' = rest
  /\ UNCHANGED <<shown, sent>>

SendEdit(rest) ==
  /\ edit' = None /\ draft' = "" /\ tasks' = rest
  /\ UNCHANGED <<staged, voice, shown, sent>>

\* (mutant) The message is shown before the draft is looked at.
SendDraftShown(rest) ==
  /\ draft' = ""
  /\ NextText \in Texts
  /\ shown' = shown \cup {NextText}
  /\ sent' = IF draft = "" THEN sent ELSE sent \cup {[n |-> NextText, omemo |-> encrypted]}
  /\ tasks' = rest
  /\ UNCHANGED <<edit, staged, voice>>

\* Only plain texts get a row; a link gets a task that fetches its preview.
SendDraft(rest) ==
  /\ draft' = ""
  /\ IF draft = ""
       THEN tasks' = rest /\ UNCHANGED <<shown, sent>>
       ELSE /\ NextText \in Texts
            /\ shown' = shown \cup {NextText}
            /\ sent' = sent \cup {[n |-> NextText, omemo |-> encrypted]}
            /\ tasks' = rest
                 \cup (IF encrypted THEN {} ELSE {<<"store", NextText>>})
                 \cup (IF draft = "link" THEN {<<"preview", NextText>>} ELSE {})
  /\ UNCHANGED <<edit, staged, voice>>

HandleSend(rest) ==
  /\ UNCHANGED <<view, encrypted, capture, rows, links, orphans, unstaged, dropped>>
  /\ CASE ~open -> tasks' = rest
                   /\ UNCHANGED <<draft, edit, staged, voice, shown, sent>>
       [] open /\ staged > 0 -> SendAttachments(rest)
       [] open /\ staged = 0 /\ edit # None -> SendEdit(rest)
       [] OTHER -> SendDraft(rest)

-----------------------------------------------------------------------------
(* Another screen boxes the chat screen and gives it back.                   *)

\* GoToSettings, GoToAbout, GoToVCardEditor, GoToAdhoc, GoToAccountSwitcher
Cover ==
  /\ ~covered
  /\ covered' = TRUE
  /\ UNCHANGED <<open, visible, composer, capture, shown, rows, tasks, sent, history>>

Uncover ==
  /\ covered
  /\ covered' = FALSE
  /\ UNCHANGED <<open, visible, composer, capture, shown, rows, tasks, sent, history>>

\* Only the chat screen hears what a task answers.
Heard(task) == task \in tasks /\ ~covered

\* Message::Chat and MessagesLoaded on any other screen: nothing happens, and
\* nothing keeps the answer.
Unheard(task) ==
  /\ task \in tasks /\ covered
  /\ tasks' = tasks \ {task}
  /\ dropped' = (dropped \/ task[1] \in {"encode", "send"})
  /\ UNCHANGED <<view, composer, capture, shown, rows, sent, links, presses, orphans, unstaged>>

-----------------------------------------------------------------------------
(* The user at the composer.  The row with the text field, the buttons and   *)
(* the microphone is there only while the recorder is idle.                  *)

Composing == OnScreen /\ voice = "Idle"

\* ComposerChanged; the chat states it announces are left out.
ComposerChanged(text) ==
  /\ Composing /\ text # draft
  /\ draft' = text
  /\ UNCHANGED <<view, edit, staged, voice, encrypted, capture, shown,
                 rows, tasks, sent, history>>

EmojiSelected ==
  /\ Composing
  /\ draft' = IF draft = "" THEN "text" ELSE draft
  /\ UNCHANGED <<view, edit, staged, voice, encrypted, capture, shown,
                 rows, tasks, sent, history>>

\* Enter sends also an empty draft.
PressSend ==
  /\ Composing /\ presses < MaxPresses
  /\ presses' = presses + 1
  /\ HandleSend(tasks)

StartEdit(id) ==
  /\ OnScreen /\ id \in shown
  /\ draft' = "text" /\ edit' = id
  /\ UNCHANGED <<view, staged, voice, encrypted, capture, shown, rows,
                 tasks, sent, history>>

CancelEdit ==
  /\ OnScreen /\ edit # None
  /\ draft' = "" /\ edit' = None
  /\ UNCHANGED <<view, staged, voice, encrypted, capture, shown, rows,
                 tasks, sent, history>>

ToggleEncryption ==
  /\ OnScreen
  /\ encrypted' = ~encrypted
  /\ UNCHANGED <<view, draft, edit, staged, voice, capture, shown, rows,
                 tasks, sent, history>>

-----------------------------------------------------------------------------
(* Files                                                                     *)

\* The count stays at the bound.
Stage == staged' = IF staged < MaxStaged THEN staged + 1 ELSE staged

FilesDropped ==
  /\ OnScreen /\ staged < MaxStaged
  /\ Stage
  /\ UNCHANGED <<view, draft, edit, voice, encrypted, capture, shown,
                 rows, tasks, sent, history>>

RemoveAttachment ==
  /\ OnScreen /\ staged > 0
  /\ staged' = staged - 1
  /\ unstaged' = (unstaged \/ voice = "Uploading")
  /\ UNCHANGED <<view, draft, edit, voice, encrypted, capture, shown,
                 rows, tasks, sent, links, presses, orphans, dropped>>

OpenFilePicker ==
  /\ Composing /\ Room
  /\ tasks' = tasks \cup {<<"pick", 0>>}
  /\ UNCHANGED <<view, composer, capture, shown, rows, sent, history>>

PasteFromClipboard ==
  /\ OnScreen /\ Room
  /\ tasks' = tasks \cup {<<"paste", 0>>}
  /\ UNCHANGED <<view, composer, capture, shown, rows, sent, history>>

\* FilePicked, with or without a path; a message for a conversation that is
\* gone is dropped.
FilePicked ==
  /\ Heard(<<"pick", 0>>)
  /\ tasks' = tasks \ {<<"pick", 0>>}
  /\ UNCHANGED staged \/ (open /\ Stage)
  /\ UNCHANGED <<view, draft, edit, voice, encrypted, capture, shown,
                 rows, sent, history>>

\* An image is staged; without one the answer is PasteFromClipboard again,
\* which looks at the clipboard once more.
ClipboardImageReady ==
  /\ Heard(<<"paste", 0>>)
  /\ tasks' = tasks \ {<<"paste", 0>>}
  /\ IF open THEN Stage ELSE UNCHANGED staged
  /\ UNCHANGED <<view, draft, edit, voice, encrypted, capture, shown,
                 rows, sent, history>>

NoClipboardImage ==
  /\ Heard(<<"paste", 0>>)
  /\ tasks' = IF open THEN tasks ELSE tasks \ {<<"paste", 0>>}
  /\ UNCHANGED <<view, composer, capture, shown, rows, sent, history>>

-----------------------------------------------------------------------------
(* The voice recorder: a thread captures until its stop flag is set.         *)

\* Without an input device nothing happens.
StartRecording ==
  /\ Composing /\ capture < MaxThreads
  /\ voice' = "Recording" /\ capture' = capture + 1
  /\ UNCHANGED <<view, draft, edit, staged, encrypted, shown, rows,
                 tasks, sent, history>>

\* (mutant) The stop flag is not set.
StopRecordingRuns ==
  /\ OnScreen /\ voice = "Recording" /\ Room
  /\ voice' = "Encoding"
  /\ tasks' = tasks \cup {<<"encode", 0>>}
  /\ UNCHANGED <<view, draft, edit, staged, encrypted, capture, shown,
                 rows, sent, history>>

StopRecording ==
  /\ OnScreen /\ voice = "Recording" /\ Room
  /\ voice' = "Encoding" /\ capture' = capture - 1
  /\ tasks' = tasks \cup {<<"encode", 0>>}
  /\ unstaged' = FALSE /\ dropped' = FALSE
  /\ UNCHANGED <<view, draft, edit, staged, encrypted, shown, rows,
                 sent, links, presses, orphans>>

CancelRecording ==
  /\ OnScreen /\ voice = "Recording"
  /\ voice' = "Idle" /\ capture' = capture - 1
  /\ UNCHANGED <<view, draft, edit, staged, encrypted, shown, rows,
                 tasks, sent, history>>

\* The WAV file is staged and a Send is on its way.  The view may be another
\* one by now, closed and opened again: if that one records, its recording is
\* forgotten and the thread of it runs on.
VoiceEncodingDone ==
  /\ Heard(<<"encode", 0>>)
  /\ IF open
       THEN /\ voice' = "Uploading" /\ Stage
            /\ tasks' = (tasks \ {<<"encode", 0>>}) \cup {<<"send", 0>>}
            /\ orphans' = IF voice = "Recording" THEN orphans + 1 ELSE orphans
       ELSE /\ tasks' = tasks \ {<<"encode", 0>>}
            /\ UNCHANGED <<voice, staged, orphans>>
  /\ UNCHANGED <<view, draft, edit, encrypted, capture, shown, rows,
                 sent, links, presses, unstaged, dropped>>

\* The encoder failed: its answer is CancelRecording, which would also stop
\* the recording of a view that was opened since.
EncodingFailed ==
  /\ Heard(<<"encode", 0>>)
  /\ tasks' = tasks \ {<<"encode", 0>>}
  /\ voice' = IF open THEN "Idle" ELSE voice
  /\ capture' = IF open /\ voice = "Recording" THEN capture - 1 ELSE capture
  /\ UNCHANGED <<view, draft, edit, staged, encrypted, shown, rows,
                 sent, history>>

\* The Send of VoiceEncodingDone arrives.
VoiceSend ==
  /\ Heard(<<"send", 0>>)
  /\ HandleSend(tasks \ {<<"send", 0>>})
  /\ UNCHANGED presses

-----------------------------------------------------------------------------
(* The conversation appears and goes, and its history is loaded              *)

\* SelectContact
Select ==
  /\ ~covered /\ ~(open /\ visible) /\ Room
  /\ open' = TRUE /\ visible' = TRUE
  /\ tasks' = tasks \cup {<<"read", 0>>}
  /\ IF open THEN UNCHANGED <<composer, shown>> ELSE NewView
  /\ UNCHANGED <<covered, capture, rows, sent, history>>

SelectOther ==
  /\ OnScreen
  /\ visible' = FALSE
  /\ UNCHANGED <<open, covered, composer, capture, shown, rows, tasks, sent, history>>

\* (mutant) The conversation that goes stays the active one.
RemoveActive ==
  /\ open
  /\ open' = FALSE /\ covered' = FALSE
  /\ orphans' = IF voice = "Recording" THEN orphans + 1 ELSE orphans
  /\ NewView
  /\ UNCHANGED <<visible, capture, rows, tasks, sent, links, presses, unstaged, dropped>>

\* Close, BlockPeer or ArchiveConversation on the chat screen, or the end of
\* that screen, with the one that boxes it (Logout, Connected).  What
\* the view held is dropped, the handle of a recording with it: its thread is
\* not told to stop.
Remove ==
  /\ open
  /\ open' = FALSE /\ visible' = FALSE /\ covered' = FALSE
  /\ orphans' = IF voice = "Recording" THEN orphans + 1 ELSE orphans
  /\ NewView
  /\ UNCHANGED <<capture, rows, tasks, sent, links, presses, unstaged, dropped>>

\* A message of the peer that holds a link or the address of an image.
OnLinkReceived ==
  /\ ~covered /\ links < MaxLinks
  /\ links' = links + 1
  /\ open' = TRUE
  /\ tasks' = tasks \cup {<<"preview", MaxTexts + links + 1>>}
  /\ IF open THEN UNCHANGED <<composer, shown>> ELSE NewView
  /\ UNCHANGED <<visible, covered, capture, rows, sent, presses, orphans, unstaged, dropped>>

\* The row gets an identifier of its own.
Store(n) ==
  /\ <<"store", n>> \in tasks
  /\ rows' = rows \cup {Copy(n)}
  /\ tasks' = tasks \ {<<"store", n>>}
  /\ UNCHANGED <<view, composer, capture, shown, sent, history>>

ReadRows ==
  /\ <<"read", 0>> \in tasks
  /\ tasks' = (tasks \ {<<"read", 0>>}) \cup {<<"loaded", rows>>}
  /\ UNCHANGED <<view, composer, capture, shown, rows, sent, history>>

\* MessagesLoaded: load_history replaces what the view shows.
MessagesLoaded(found) ==
  /\ Heard(<<"loaded", found>>)
  /\ tasks' = tasks \ {<<"loaded", found>>}
  /\ shown' = IF open THEN found ELSE shown
  /\ UNCHANGED <<view, composer, capture, rows, sent, history>>

PreviewReady(n) ==
  /\ Heard(<<"preview", n>>)
  /\ tasks' = tasks \ {<<"preview", n>>}
  /\ UNCHANGED <<view, composer, capture, shown, rows, sent, history>>

\* A page that cannot be fetched or says nothing of itself: the task answers
\* with Send, for whatever is in the composer now.
PreviewFails(n) ==
  /\ Heard(<<"preview", n>>)
  /\ HandleSend(tasks \ {<<"preview", n>>})
  /\ UNCHANGED presses

-----------------------------------------------------------------------------

Previews == 1..(MaxTexts + MaxLinks)

User ==
  \/ \E text \in Drafts : ComposerChanged(text)
  \/ EmojiSelected \/ PressSend \/ CancelEdit \/ ToggleEncryption
  \/ \E id \in Ids : StartEdit(id)
  \/ FilesDropped \/ RemoveAttachment \/ OpenFilePicker \/ PasteFromClipboard
  \/ StartRecording \/ StopRecording \/ CancelRecording
  \/ Select \/ SelectOther \/ Remove \/ Cover \/ Uncover

Task ==
  \/ FilePicked \/ ClipboardImageReady \/ NoClipboardImage
  \/ VoiceEncodingDone \/ EncodingFailed \/ VoiceSend
  \/ \E n \in Texts : Store(n)
  \/ ReadRows
  \/ \E found \in SUBSET Ids : MessagesLoaded(found)
  \/ \E n \in Previews : PreviewReady(n) \/ PreviewFails(n)
  \/ \E task \in Answers : Unheard(task)

Next == User \/ Task \/ OnLinkReceived

Spec == Init /\ [][Next]_composerVars

\* What becomes of the answer of the encoder, and of the Send that follows it.
EncoderAnswers == VoiceEncodingDone \/ EncodingFailed \/ Unheard(<<"encode", 0>>)
SendArrives    == VoiceSend \/ Unheard(<<"send", 0>>)

\* The runtime runs every task to its end and delivers what it answers, to
\* whichever screen is there; the user need not come back to the chat.
FairSpec ==
  /\ Spec
  /\ WF_composerVars(EncoderAnswers)
  /\ WF_composerVars(SendArrives)

-----------------------------------------------------------------------------
(* Properties                                                                *)

\* Every variable keeps its type, and the active conversation is an open one.
TypeOK ==
  /\ open \in BOOLEAN /\ visible \in BOOLEAN /\ (visible => open) /\ covered \in BOOLEAN
  /\ draft \in Drafts /\ edit \in Ids \cup {None}
  /\ staged \in 0..MaxStaged /\ voice \in Voices /\ encrypted \in BOOLEAN
  /\ capture \in Nat /\ shown \subseteq Ids /\ rows \subseteq Ids
  /\ tasks \subseteq Tasks /\ sent \subseteq Commands
  /\ links \in 0..MaxLinks /\ presses \in 0..MaxPresses
  /\ orphans \in Nat /\ unstaged \in BOOLEAN /\ dropped \in BOOLEAN

\* The microphone is recorded only while the view shows the recorder, except
\* by the threads of recordings whose handle was dropped: the conversation was
\* removed, or the encoder of an earlier view of it answered
\* (update.rs: the stop flag of StopRecording and CancelRecording).
CaptureBound ==
  capture = orphans + IF voice = "Recording" THEN 1 ELSE 0

\* An own message on the screen is one the engine was given, under the
\* identifier it was sent with or, once the history was loaded from the
\* database, under that of a row; and only an unencrypted text has a row
\* (chat.rs, handle_send; mod.rs, Message::Chat).
ShownIsSent ==
  \A id \in shown \cup rows :
    \E c \in sent : id = c.n \/ (id = Copy(c.n) /\ ~c.omemo)

\* The composer comes back after a voice message: since the recording stopped,
\* the recorder is idle again, but for the two ways the code loses it - the file
\* was unstaged between the encoder and its Send, or the encoder answered, or
\* the Send came, while another screen covered the chat and the message was
\* thrown away (mod.rs, Message::Chat; update.rs, VoiceEncodingDone and Send).
VoiceEnds ==
  (voice \in {"Encoding", "Uploading"}) ~> (voice = "Idle" \/ unstaged \/ dropped)

\* A text leaves only when the user sends it: a task that fetches a preview
\* sends nothing (chat.rs, on_message_received).
SentByUser == Cardinality(sent) <= presses
=============================================================================
