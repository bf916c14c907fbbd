------------------------------ MODULE Timeline ------------------------------
(***************************************************************************)
(* What a conversation shows and which buttons it offers, computed from    *)
(* its messages in every state, and what those buttons do to it: search,   *)
(* replies, edits, retractions, completion of mentions, the row under the  *)
(* pointer.  Bodies are abstracted to what tells them apart on screen; the *)
(* file, voice and sending parts of the composer are those of Composer.    *)
(***************************************************************************)
EXTENDS Naturals, Sequences

CONSTANTS
  Self,     \* this account
  Others,   \* who else writes
  Kept,     \* the messages of the database at the start
  OmemoOn,  \* vctx.omemo_enabled
  MaxLines, \* bound: messages
  MaxClock, \* bound: minutes
  MaxPresses \* bound: what the user does to it

VARIABLES
  lines,     \* messages of the view
  kept,      \* and of the database
  loads,     \* reads of the database under way
  lastSeen,  \* last_seen_count
  searchOpen, searching, \* search_open; search_query is not empty
  typed,     \* the text in the composer
  completes, \* mention_prefix is Some
  replyTo, editMode, picker,
  pointer,   \* external: the row under the pointer, 0 for none
  hovered,   \* hovered_message
  minute,    \* external: time
  presses,   \* counter for the bound
  atOpening  \* history: messages there when the conversation was opened

tlVars == <<lines, kept, loads, lastSeen, searchOpen, searching, typed, completes, replyTo,
            editMode, picker, pointer, hovered, minute, presses, atOpening>>
field  == <<typed, completes, replyTo, editMode, picker>>
seen   == <<lastSeen, atOpening>>
find   == <<searchOpen, searching>>
mouse  == <<pointer, hovered>>

Press == presses < MaxPresses /\ presses' = presses + 1

\* In the composer: a mention that is being typed, or one with text after it.
Drafts == {"", "plain", "@pre", "@bob and"}
\* hit: the search query occurs in it.
Line(id, who, text, at, hit) ==
  [id |-> id, who |-> who, text |-> text, at |-> at, hit |-> hit, gone |-> FALSE, edited |-> FALSE]

Init ==
  /\ lines = <<>> /\ kept = Kept /\ loads = 0 /\ lastSeen = 0
  /\ searchOpen = FALSE /\ searching = FALSE
  /\ typed = "" /\ completes = FALSE /\ replyTo = 0 /\ editMode = 0 /\ picker = FALSE
  /\ pointer = 0 /\ hovered = 0 /\ minute = 0 /\ presses = 0 /\ atOpening = 0

-----------------------------------------------------------------------------
(* The rows.                                                                 *)

Shown == {i \in DOMAIN lines : ~searching \/ lines[i].hit}

\* (mutant) The message above, shown or not.
BeforeAny(i) == {j \in DOMAIN lines : j + 1 = i}

\* The row above, among those that are shown.
Before(i) == {j \in Shown : j < i /\ \A k \in Shown : k < i => k <= j}

Separator(i) == ~searching /\ lastSeen > 0 /\ i = lastSeen + 1

\* A minute of the model is a calendar day apart from the one after the next.
DateRow(i) == \A j \in Before(i) : lines[i].at \div 2 # lines[j].at \div 2

\* Two minutes: less than 120 s apart is the same minute or the next.
ShowSender(i) ==
  \A j \in Before(i) : lines[j].who # lines[i].who \/ lines[i].at > lines[j].at + 1

Body(i) == IF lines[i].gone THEN "tombstone" ELSE lines[i].text

\* is_mentioned
Highlighted(i) == ~lines[i].gone /\ lines[i].text = "@bob and" /\ Self = "bob"

Quick(i) == IF hovered = lines[i].id THEN {"react"} ELSE {}

\* Incoming messages and own ones; without their header they have no buttons.
Incoming(i) == IF ShowSender(i) THEN {"copy", "reply"} ELSE {}
Own(i) == IF ShowSender(i) THEN {"copy", "reply", "edit", "retract"} ELSE {}
Buttons(i) ==
  IF i \notin Shown \/ lines[i].gone THEN {}
  ELSE Quick(i) \cup (IF lines[i].who = Self THEN Own(i) ELSE Incoming(i))

\* The bar at the top, or the search field in its place.
Header ==
  {"search", "close"} \cup
  (IF searchOpen THEN {"query"}
   ELSE {"block", "mute"} \cup (IF OmemoOn THEN {"lock"} ELSE {}))

\* What stands between the messages and the composer.
Strips ==
  {s \in {"cancel reply", "cancel edit", "emoji", "mention"} :
     CASE s = "cancel reply" -> replyTo # 0
       [] s = "cancel edit"  -> editMode # 0
       [] s = "emoji"        -> picker
       [] s = "mention"      -> completes}

-----------------------------------------------------------------------------
(* Messages come and go.                                                     *)

\* push_message, after the row was stored
Receive ==
  /\ Len(lines) < MaxLines /\ Len(kept) < MaxLines
  /\ \E who \in Others, hit \in BOOLEAN :
       LET m == Line(Len(kept) + 1, who, "plain", minute, hit)
       IN lines' = Append(lines, m) /\ kept' = Append(kept, m)
  /\ UNCHANGED <<loads, seen, find, field, mouse, minute, presses>>

\* SelectContact: the count is taken before the history is read.
SelectContact ==
  /\ Press
  /\ lastSeen' = Len(lines) /\ loads' = loads + 1 /\ atOpening' = Len(kept)
  /\ UNCHANGED <<lines, kept, find, field, mouse, minute>>

\* load_history
MessagesLoaded ==
  /\ loads > 0 /\ loads' = loads - 1
  /\ lines' = kept
  /\ UNCHANGED <<kept, seen, find, field, mouse, minute, presses>>

Tick ==
  /\ minute < MaxClock /\ minute' = minute + 1
  /\ UNCHANGED <<lines, kept, loads, seen, find, field, mouse, presses>>

-----------------------------------------------------------------------------
(* The composer.                                                             *)

ComposerChanged(v) ==
  /\ Press /\ typed' = v /\ completes' = (v = "@pre")
  /\ UNCHANGED <<lines, kept, loads, seen, find, replyTo, editMode, picker, mouse, minute>>

EmojiPickerToggled ==
  /\ Press /\ picker' = ~picker
  /\ UNCHANGED <<lines, kept, loads, seen, find, typed, completes, replyTo, editMode, mouse, minute>>

EmojiSelected ==
  /\ Press /\ "emoji" \in Strips /\ picker' = FALSE
  /\ typed' = IF typed = "" THEN "plain" ELSE typed
  /\ UNCHANGED <<lines, kept, loads, seen, find, completes, replyTo, editMode, mouse, minute>>

\* From the last @ on, the text is replaced by the nick and a blank.
MentionSelected ==
  /\ Press /\ "mention" \in Strips /\ completes' = FALSE
  /\ typed' = IF typed \in {"@pre", "@bob and"} THEN "@bob and" ELSE typed
  /\ UNCHANGED <<lines, kept, loads, seen, find, replyTo, editMode, picker, mouse, minute>>

MentionDismissed ==
  /\ Press /\ "mention" \in Strips /\ completes' = FALSE
  /\ UNCHANGED <<lines, kept, loads, seen, find, typed, replyTo, editMode, picker, mouse, minute>>

CancelReply ==
  /\ Press /\ "cancel reply" \in Strips /\ replyTo' = 0
  /\ UNCHANGED <<lines, kept, loads, seen, find, typed, completes, editMode, picker, mouse, minute>>

CancelEdit ==
  /\ Press /\ "cancel edit" \in Strips /\ typed' = "" /\ editMode' = 0
  /\ UNCHANGED <<lines, kept, loads, seen, find, completes, replyTo, picker, mouse, minute>>

\* can_send; handle_send writes a correction or a message of one's own,
\* whose row gets an identifier of its own.
Send ==
  /\ Press /\ typed # ""
  /\ IF editMode # 0
       THEN /\ lines' = [i \in DOMAIN lines |->
                           IF lines[i].id = editMode
                             THEN [lines[i] EXCEPT !.text = typed, !.edited = TRUE] ELSE lines[i]]
            /\ UNCHANGED kept
       ELSE /\ Len(lines) < MaxLines /\ Len(kept) < MaxLines
            /\ LET m == Line(Len(kept) + 1, Self, typed, minute, FALSE)
               IN lines' = Append(lines, [m EXCEPT !.id = m.id + MaxLines]) /\ kept' = Append(kept, m)
  /\ typed' = "" /\ completes' = FALSE /\ replyTo' = 0 /\ editMode' = 0
  /\ UNCHANGED <<loads, seen, find, picker, mouse, minute>>

-----------------------------------------------------------------------------
(* Buttons of a row and of the header.                                       *)

ReplyTo(i) ==
  /\ Press /\ "reply" \in Buttons(i) /\ replyTo' = lines[i].id
  /\ UNCHANGED <<lines, kept, loads, seen, find, typed, completes, editMode, picker, mouse, minute>>

StartEdit(i) ==
  /\ Press /\ "edit" \in Buttons(i)
  /\ typed' = lines[i].text /\ editMode' = lines[i].id /\ replyTo' = 0
  /\ UNCHANGED <<lines, kept, loads, seen, find, completes, picker, mouse, minute>>

RetractMessage(i) ==
  /\ Press /\ "retract" \in Buttons(i) /\ lines' = [lines EXCEPT ![i].gone = TRUE]
  /\ UNCHANGED <<kept, loads, seen, find, field, mouse, minute>>

SearchToggled ==
  /\ Press /\ searchOpen' = ~searchOpen /\ searching' = (searching /\ searchOpen')
  /\ UNCHANGED <<lines, kept, loads, seen, field, mouse, minute>>

SearchQueryChanged ==
  /\ Press /\ "query" \in Header /\ searching' = ~searching
  /\ UNCHANGED <<lines, kept, loads, seen, searchOpen, field, mouse, minute>>

\* Every row sees the pointer move, from the top down: the one it leaves says
\* None and the one it enters says Some, in the order of the rows.
SetHoveredMessage(i) ==
  /\ Press /\ i # pointer /\ i \in Shown \cup {0} /\ pointer' = i
  /\ hovered' = IF i # 0 /\ (pointer = 0 \/ pointer < i) THEN lines[i].id ELSE 0
  /\ UNCHANGED <<lines, kept, loads, seen, find, field, minute>>

Next ==
  \/ Receive \/ SelectContact \/ MessagesLoaded \/ Tick
  \/ \E v \in Drafts : ComposerChanged(v)
  \/ EmojiPickerToggled \/ EmojiSelected \/ MentionSelected \/ MentionDismissed
  \/ CancelReply \/ CancelEdit \/ Send
  \/ \E i \in DOMAIN lines : ReplyTo(i) \/ StartEdit(i) \/ RetractMessage(i)
  \/ SearchToggled \/ SearchQueryChanged
  \/ \E i \in 0..MaxLines : SetHoveredMessage(i)

Spec == Init /\ [][Next]_tlVars

-----------------------------------------------------------------------------

Lines == [id : 1..(2 * MaxLines), who : Others \cup {Self}, text : Drafts, at : 0..MaxClock, hit : BOOLEAN,
          gone : BOOLEAN, edited : BOOLEAN]

TypeOK ==
  /\ lines \in Seq(Lines) /\ kept \in Seq(Lines) /\ Len(lines) <= MaxLines
  /\ loads \in 0..MaxPresses /\ {lastSeen, atOpening} \subseteq 0..MaxLines /\ typed \in Drafts
  /\ {searchOpen, searching, completes, picker} \subseteq BOOLEAN
  /\ {replyTo, editMode, hovered} \subseteq 0..(2 * MaxLines) /\ pointer \in 0..MaxLines
  /\ minute \in 0..MaxClock /\ presses \in 0..MaxPresses

\* Nobody's words stand under another's name: a message without a sender label
\* continues, row by row as they are shown, a labelled row of the same sender,
\* also when a search hides what lies between; only a tombstone may stand in
\* for the label ("suppress sender label for consecutive same-sender").
LabelSurvivesSearch ==
  \A i \in Shown :
    \E j \in Shown :
      /\ j <= i /\ (ShowSender(j) \/ lines[j].gone)
      /\ \A k \in Shown : j <= k /\ k <= i => lines[k].who = lines[i].who

\* "@mention autocomplete - Some(prefix) when active": it completes what is
\* being typed (not so after an edit was started or cancelled).
PanelIsOfPrefix == completes => typed = "@pre"

\* "action bar ... only visible on hover": the row under the pointer has it.
HoverAgrees == pointer \in DOMAIN lines => hovered = lines[pointer].id

\* "separator before the first unseen message": what was there when
\* the conversation was opened stands above it.
SeparatorAtUnseen ==
  \A i \in Shown : Separator(i) /\ loads = 0 => i > atOpening
=============================================================================
