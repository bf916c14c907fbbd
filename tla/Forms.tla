-------------------------------- MODULE Forms --------------------------------
(***************************************************************************)
(* Data forms (XEP-0004).  A room that was just created sends the form of  *)
(* its configuration: the engine reads seven settings out of it, the chat  *)
(* shows three of them, and what is submitted is made from the seven, not  *)
(* from the form.  A service sends forms in answer to a command: they are  *)
(* shown and sent back field by field.  How commands reach a service, and  *)
(* rooms are joined, is in Queries and Rooms.                              *)
(***************************************************************************)
EXTENDS Naturals, Sequences, FiniteSets

CONSTANTS
  Halls,      \* rooms
  Unnamed,    \* external: those whose form has a heading, a field without a name
  InWords,    \* external: those that write truth values as words
  Sheets,     \* external: forms of services, functions from names to [kind, values]
  MaxAsked,   \* bound: rooms created
  MaxPresses, \* bound: what the user does
  MaxSheets   \* bound: forms of services

VARIABLES
  rooms,      \* external: how each room is configured
  wanted,     \* rooms asked for their form, on the way there
  events,     \* to the window
  pending,    \* pending_room_config
  sent,       \* ConfigureRoom, on the way to the room
  hidden,     \* another screen covers the chat
  step,       \* of the command screen, with the form it shows
  values,     \* field_values
  owed,       \* what services were asked and have not answered
  answers,    \* forms sent back to services
  namedFor,   \* history: rooms in whose form the user typed a name
  typed,      \* history: fields the user filled since the form is shown
  created, presses, shown \* history: counters for the bounds

foVars == <<rooms, wanted, events, pending, sent, hidden, step, values, answers, owed, namedFor, typed,
            created, presses, shown>>
roomVars  == <<rooms, wanted, events, pending, sent, hidden, namedFor>>
sheetVars == <<step, values, answers, owed, typed>>

Blank == "none"
Press == presses < MaxPresses /\ presses' = presses + 1 /\ UNCHANGED <<created, shown>>
Quietly == UNCHANGED <<created, presses, shown>>

Init ==
  /\ rooms = [r \in Halls |-> [name |-> r, public |-> FALSE, persistent |-> TRUE, history |-> 20]]
  /\ wanted = <<>> /\ events = <<>> /\ pending = <<>> /\ sent = <<>> /\ hidden = FALSE
  /\ step = [at |-> "list"] /\ values = <<>> /\ answers = {} /\ owed = 0
  /\ namedFor = {} /\ typed = {} /\ created = 0 /\ presses = 0 /\ shown = 0

-----------------------------------------------------------------------------
(* The configuration of a room.                                              *)

\* Defaults for what a form does not say; the length of the history never is
\* read from a form. Its values and those of the names are of no concern here.
DefaultConfig == [name |-> Blank, public |-> TRUE, persistent |-> TRUE, history |-> 50]

\* Only "1" is true.
Read(r, truth) == truth /\ r \notin InWords

\* parse_config_form gives up at a field without a name.
ParseConfigForm(r) ==
  IF r \in Unnamed THEN {}
  ELSE {[DefaultConfig EXCEPT !.name = rooms[r].name, !.public = Read(r, rooms[r].public),
                              !.persistent = Read(r, rooms[r].persistent)]}

\* A room says it was created: its form is asked for.
BuildConfigRequest(r) ==
  /\ created < MaxAsked /\ created' = created + 1
  /\ wanted' = Append(wanted, r)
  /\ UNCHANGED <<rooms, events, pending, sent, hidden, namedFor, sheetVars, presses, shown>>

HandleConfigForm ==
  /\ wanted # <<>> /\ wanted' = Tail(wanted)
  /\ LET r == Head(wanted) IN
       IF ParseConfigForm(r) = {} THEN UNCHANGED events
       ELSE \E c \in ParseConfigForm(r) :
              events' = Append(events, [kind |-> "form", room |-> r, config |-> c])
  /\ Quietly /\ UNCHANGED <<rooms, pending, sent, hidden, namedFor, sheetVars>>

\* (mutant) The form that is being filled is kept, for the other room.
RoomConfigFormReceivedKeeps(e) ==
  pending' = <<e.room, IF pending = <<>> THEN e.config ELSE pending[2]>>

\* A form replaces one that is being filled.
RoomConfigFormReceived(e) == pending' = <<e.room, e.config>>

\* Whichever room it was that is configured, no form is shown any more; its
\* conversation, opened here, is in Rooms.
RoomConfigured == pending' = <<>>

\* Events are for the chat if it is on top, and lost otherwise.
HandleEvent ==
  /\ events # <<>> /\ events' = Tail(events)
  /\ LET e == Head(events) IN
       \/ hidden /\ UNCHANGED pending
       \/ ~hidden /\ e.kind = "form" /\ RoomConfigFormReceived(e)
       \/ ~hidden /\ e.kind = "done" /\ RoomConfigured
  /\ Quietly /\ UNCHANGED <<rooms, wanted, sent, hidden, namedFor, sheetVars>>

Edit(c) ==
  /\ ~hidden /\ pending # <<>> /\ Press /\ pending' = [pending EXCEPT ![2] = c]
  /\ UNCHANGED <<rooms, wanted, events, sent, hidden, sheetVars>>

RoomConfigNameChanged ==
  /\ pending # <<>> /\ Edit([pending[2] EXCEPT !.name = "typed"])
  /\ namedFor' = namedFor \cup {pending[1]}

RoomConfigPublicChanged ==
  /\ pending # <<>> /\ Edit([pending[2] EXCEPT !.public = ~@]) /\ UNCHANGED namedFor

RoomConfigPersistentChanged ==
  /\ pending # <<>> /\ Edit([pending[2] EXCEPT !.persistent = ~@]) /\ UNCHANGED namedFor

SubmitRoomConfig ==
  /\ ~hidden /\ pending # <<>> /\ Press
  /\ sent' = Append(sent, pending) /\ pending' = <<>>
  /\ UNCHANGED <<rooms, wanted, events, hidden, namedFor, sheetVars>>

DismissRoomConfig ==
  /\ ~hidden /\ pending # <<>> /\ Press /\ pending' = <<>>
  /\ UNCHANGED <<rooms, wanted, events, sent, hidden, namedFor, sheetVars>>

\* build_config_submit sends the settings that have a value, read or not; the
\* room takes them and says so.
Configure ==
  /\ sent # <<>> /\ sent' = Tail(sent)
  /\ LET r == Head(sent)[1]
         c == Head(sent)[2]
     IN /\ rooms' = [rooms EXCEPT ![r] = [c EXCEPT !.name = IF @ = Blank THEN rooms[r].name ELSE @]]
        /\ events' = Append(events, [kind |-> "done", room |-> r])
  /\ Quietly /\ UNCHANGED <<wanted, pending, hidden, namedFor, sheetVars>>

Cover ==
  /\ Press /\ hidden' = ~hidden
  /\ UNCHANGED <<rooms, wanted, events, pending, sent, namedFor, sheetVars>>

-----------------------------------------------------------------------------
(* The forms of services.                                                    *)

\* parse_data_form takes the first value of a field, none if there is none.
First(field) == IF field.values = <<>> THEN Blank ELSE Head(field.values)

\* What render_form_interactive gives an input to; the others are only shown.
Editable(field) ==
  field.kind \in {"text-single", "text-private", "jid-single", "text-multi", "jid-multi"}

\* What the user was given, or what was typed over it.
Current(sheet, v) == IF v \in DOMAIN values THEN values[v] ELSE First(sheet[v])
CollectFields(sheet) == [v \in DOMAIN sheet |-> Current(sheet, v)]

CommandSelected ==
  /\ step.at = "list" /\ Press
  /\ step' = [at |-> "executing"] /\ values' = <<>> /\ owed' = owed + 1
  /\ UNCHANGED <<answers, typed, roomVars>>

\* field_values starts with what the form brings.
Filled(sheet) ==
  LET given == {v \in DOMAIN sheet : First(sheet[v]) # Blank}
  IN [v \in given |-> First(sheet[v])]

\* CommandResponseReceived, with a form: the first or the next one, which may
\* come while the last is still on the screen, or after the user has gone back.
ShowForm(sheet) ==
  /\ owed > 0 /\ owed' = owed - 1 /\ shown < MaxSheets /\ shown' = shown + 1
  /\ step' = [at |-> "form", sheet |-> sheet, nr |-> shown'] /\ values' = Filled(sheet)
  /\ typed' = {}
  /\ UNCHANGED <<answers, roomVars, created, presses>>

\* Completed, or cancelled by the service. What was typed is kept.
Finish ==
  /\ owed > 0 /\ owed' = owed - 1
  /\ \E a \in {"done", "list"} : step' = [at |-> a]
  /\ Quietly /\ UNCHANGED <<values, answers, typed, roomVars>>

FieldChanged(v) ==
  /\ step.at = "form" /\ v \in DOMAIN step.sheet /\ Editable(step.sheet[v]) /\ Press
  /\ values' = [w \in DOMAIN values \cup {v} |-> IF w = v THEN "typed" ELSE values[w]]
  /\ typed' = typed \cup {v}
  /\ UNCHANGED <<step, answers, owed, roomVars>>

\* The form stays on the screen until the service answers.
SubmitForm ==
  /\ step.at = "form" /\ Press /\ owed' = owed + 1
  /\ answers' = answers \cup {[nr |-> step.nr, sheet |-> step.sheet, typed |-> typed,
                               fields |-> CollectFields(step.sheet)]}
  /\ UNCHANGED <<step, values, typed, roomVars>>

\* CancelCommand, which the service is told, and BackToList
BackToList ==
  /\ step.at \in {"form", "done"} /\ Press
  /\ owed' = IF step.at = "form" THEN owed + 1 ELSE owed
  /\ step' = [at |-> "list"] /\ values' = <<>>
  /\ UNCHANGED <<answers, typed, roomVars>>

Next ==
  \/ \E r \in Halls : BuildConfigRequest(r)
  \/ HandleConfigForm \/ HandleEvent \/ RoomConfigNameChanged \/ RoomConfigPublicChanged
  \/ RoomConfigPersistentChanged \/ SubmitRoomConfig \/ DismissRoomConfig \/ Configure \/ Cover
  \/ CommandSelected \/ Finish \/ SubmitForm \/ BackToList
  \/ \E s \in Sheets : ShowForm(s)
  \/ \E v \in UNION {DOMAIN s : s \in Sheets} : FieldChanged(v)

Spec == Init /\ [][Next]_foVars

-----------------------------------------------------------------------------

TypeOK ==
  /\ \A r \in Halls : rooms[r].public \in BOOLEAN /\ rooms[r].history \in {20, 50}
  /\ \A i \in DOMAIN wanted : wanted[i] \in Halls
  /\ pending = <<>> \/ pending[1] \in Halls
  /\ step.at \in {"list", "executing", "form", "done"}
  /\ (step.at = "form" => step.sheet \in Sheets)
  /\ created \in 0..MaxAsked /\ presses \in 0..MaxPresses /\ shown \in 0..MaxSheets

\* A room has its own name, or one the user typed while the form of that very
\* room was shown: forms replace each other, are dismissed by the success of
\* another room and submitted late, and no name goes to the wrong room.
NameIsOfRoom ==
  \A r \in Halls : rooms[r].name # r => rooms[r].name = "typed" /\ r \in namedFor

\* A service gets for a field what its own form said, or what the user typed
\* since that form is shown: nothing that was typed into an earlier one, also
\* when the next form comes while the last is being filled.
TypedForThisForm ==
  \A a \in answers : \A v \in DOMAIN a.sheet :
    a.fields[v] = First(a.sheet[v]) \/ (v \in a.typed /\ Editable(a.sheet[v]))

\* "Use render_form_interactive when the user needs to fill in the form": a
\* field that asks for a value can be given one.
FormCanBeFilled ==
  step.at = "form" =>
    \A v \in DOMAIN step.sheet : step.sheet[v].kind \in {"fixed", "hidden"} \/ Editable(step.sheet[v])

\* What the user did not change in the form of a room stays as it was.
SubmitKeeps == \A r \in Halls : rooms[r].history = 20 /\ (r \notin namedFor => rooms[r].name = r)
=============================================================================
