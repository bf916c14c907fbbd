------------------------------- MODULE Profile -------------------------------
(***************************************************************************)
(* Profiles: the user's own vCard, which an editor over another screen     *)
(* loads and replaces, and the avatars of the contacts, taken from their   *)
(* vCards.  Every request is an IQ whose id the session remembers; a       *)
(* command travels in a task of its own; answers that find no editor are   *)
(* dropped.                                                                *)
(***************************************************************************)
EXTENDS Naturals, Sequences, FiniteSets

CONSTANTS
  Mates,       \* contacts on the roster
  Resources,   \* what a contact may be logged in with
  Texts,       \* what the user may write into the profile
  MaxEdits,    \* bound: what the user does in the editor
  MaxRosters,  \* bound: rosters and presences
  MaxSessions  \* bound: sessions

VARIABLES
  editor,    \* the editor on the screen, if there is one
  faces,     \* avatar_cache
  fetching,  \* avatar_fetching
  tasks,     \* commands on their way to the engine, numbered
  live,      \* a session is up
  waiting,   \* pending_get, pending_set and pending_vcards: ids
  asks,      \* IQs on their way to the server
  answers,   \* IQs on their way back
  card,      \* external: the vCard of the user: its text, its photo
  refusal,   \* history: the last vCard the user saved was refused
  calls,     \* history: how often the avatar of each address was asked for
  edits, rosters, sessions, n \* history: counters for the bounds, IQs and tasks ever

uiVars     == <<editor, faces, fetching>>
engineVars == <<live, waiting>>
streamVars == <<asks, answers>>
history    == <<refusal, calls>>
bounds     == <<edits, rosters, sessions>>
vars       == <<uiVars, tasks, engineVars, streamVars, card, history, bounds, n>>

Blank == "blank"
Closed == [open |-> FALSE, text |-> Blank, loading |-> FALSE, saving |-> FALSE, saved |-> FALSE]
Opened == [Closed EXCEPT !.open = TRUE, !.loading = TRUE]

\* An address is a string: a contact's bare one, which the roster has, or one
\* with a resource, which a presence has. The caches know no other key.
Bare == "bare"
Roster == Mates \X {Bare}
Addresses == Roster \cup (Mates \X Resources)

Commands ==
  {<<"fetch own">>} \cup ({"set own"} \X (Texts \cup {Blank})) \cup ({"fetch"} \X Addresses)
Carried(cs) == {<<n, c>> : c \in cs}
Edits == edits < MaxEdits /\ edits' = edits + 1 /\ UNCHANGED <<rosters, sessions>>

Init ==
  /\ editor = Closed /\ faces = {} /\ fetching = {} /\ tasks = {}
  /\ live = FALSE /\ waiting = {} /\ asks = <<>> /\ answers = <<>>
  /\ card \in [text : Texts \cup {Blank}, photo : BOOLEAN]
  /\ refusal = FALSE /\ calls = [a \in Addresses |-> 0]
  /\ edits = 0 /\ rosters = 0 /\ sessions = 0 /\ n = 0

-----------------------------------------------------------------------------
(* The editor.                                                               *)

\* go_to_vcard_editor
GoToVCardEditor ==
  /\ ~editor.open /\ Edits
  /\ editor' = Opened
  /\ tasks' = tasks \cup Carried({<<"fetch own">>}) /\ n' = n + 1
  /\ UNCHANGED <<faces, fetching, engineVars, streamVars, card, history>>

\* NicknameChanged and the other four
FieldChanged(t) ==
  /\ editor.open /\ Edits
  /\ editor' = [editor EXCEPT !.text = t]
  /\ UNCHANGED <<faces, fetching, tasks, engineVars, streamVars, card, history, n>>

\* FetchRequested: Refresh shows that it loads; no command goes out.
FetchRequested ==
  /\ editor.open /\ Edits
  /\ editor' = [editor EXCEPT !.loading = TRUE, !.saved = FALSE]
  /\ UNCHANGED <<faces, fetching, tasks, engineVars, streamVars, card, history, n>>

\* SaveRequested: also while the fields are still being loaded.
SaveRequested ==
  /\ editor.open /\ Edits
  /\ editor' = [editor EXCEPT !.saving = TRUE, !.saved = FALSE]
  /\ tasks' = tasks \cup Carried({<<"set own", editor.text>>}) /\ n' = n + 1
  /\ UNCHANGED <<faces, fetching, engineVars, streamVars, card, history>>

Close ==
  /\ editor.open
  /\ editor' = Closed
  /\ UNCHANGED <<faces, fetching, tasks, engineVars, streamVars, card, history, bounds, n>>

-----------------------------------------------------------------------------
(* Contacts.                                                                 *)

Unknown(s) == s \ (faces \cup fetching)

\* RosterReceived: one task asks for every avatar that is neither there nor
\* asked for; the roster may come from the database before any session.
RosterReceived ==
  /\ rosters < MaxRosters /\ rosters' = rosters + 1
  /\ fetching' = fetching \cup Unknown(Roster)
  /\ tasks' = tasks \cup Carried({"fetch"} \X Unknown(Roster)) /\ n' = n + 1
  /\ UNCHANGED <<editor, faces, engineVars, streamVars, card, history, edits, sessions>>

Noted(a) == fetching \cup {a}

\* PresenceUpdated, available: handle_presence leaves the resource in the
\* address, and the avatar is looked up and asked for under it.
PresenceUpdated(a) ==
  /\ live /\ rosters < MaxRosters /\ rosters' = rosters + 1
  /\ a \in Unknown(Addresses)
  /\ fetching' = Noted(a)
  /\ tasks' = tasks \cup Carried({<<"fetch", a>>}) /\ n' = n + 1
  /\ UNCHANGED <<editor, faces, engineVars, streamVars, card, history, edits, sessions>>

-----------------------------------------------------------------------------
(* The engine.                                                               *)

Online ==
  /\ ~live /\ sessions < MaxSessions /\ sessions' = sessions + 1
  /\ live' = TRUE
  /\ UNCHANGED <<uiVars, tasks, waiting, streamVars, card, history, edits, rosters, n>>

\* The managers go with the session. Connected and Disconnected of the screen
\* are left out: an editor stays, the chat below is replaced.
SessionEnd ==
  /\ live
  /\ live' = FALSE /\ waiting' = {} /\ asks' = <<>> /\ answers' = <<>>
  /\ UNCHANGED <<uiVars, tasks, card, history, bounds, n>>

\* build_get, build_set, build_vcard_request; an idle engine drops the command.
Command ==
  \E t \in tasks :
    /\ tasks' = tasks \ {t}
    /\ IF live
         THEN /\ waiting' = waiting \cup {<<t[1], t[2]>>} /\ asks' = Append(asks, <<t[1], t[2]>>)
              /\ calls' = IF t[2][1] = "fetch" THEN [calls EXCEPT ![t[2][2]] = @ + 1] ELSE calls
         ELSE UNCHANGED <<waiting, asks, calls>>
    /\ UNCHANGED <<uiVars, live, answers, card, refusal, bounds, n>>

\* on_get_result: an answer without a vCard is forgotten with its request.
OwnVCardReceived(a) ==
  /\ a[2][1] = "fetch own"
  /\ editor' = IF editor.open /\ a[3] THEN [editor EXCEPT !.loading = FALSE, !.text = a[4]]
               ELSE editor
  /\ UNCHANGED faces

\* on_set_result: an error counts as an answer too.
OwnVCardSaved(a) ==
  /\ a[2][1] = "set own"
  /\ editor' = IF editor.open THEN [editor EXCEPT !.saving = FALSE, !.saved = TRUE] ELSE editor
  /\ UNCHANGED faces

\* on_vcard_result: an answer without a photo leaves the address asked for.
AvatarReceived(a) ==
  /\ a[2][1] = "fetch"
  /\ faces' = IF a[3] THEN faces \cup {a[2][2]} ELSE faces
  /\ UNCHANGED editor

HandleIq ==
  /\ live /\ answers # <<>> /\ answers' = Tail(answers)
  /\ LET a == Head(answers) IN
       /\ waiting' = waiting \ {<<a[1], a[2]>>}
       /\ OwnVCardReceived(a) \/ OwnVCardSaved(a) \/ AvatarReceived(a)
  /\ UNCHANGED <<fetching, tasks, live, asks, card, history, bounds, n>>

-----------------------------------------------------------------------------
(* The server: a vCard that is set takes the place of the whole old one.     *)

Replaced(t) == [text |-> t, photo |-> FALSE]

Serve ==
  /\ live /\ asks # <<>> /\ asks' = Tail(asks)
  /\ LET q == Head(asks) IN
       \E ok \in BOOLEAN :
         /\ answers' = Append(answers, <<q[1], q[2], ok, card.text>>)
         /\ card' = IF q[2][1] = "set own" /\ ok THEN Replaced(q[2][2]) ELSE card
         /\ refusal' = IF q[2][1] = "set own" THEN ~ok ELSE refusal
  /\ UNCHANGED <<uiVars, tasks, engineVars, calls, bounds, n>>

Next ==
  \/ GoToVCardEditor \/ FetchRequested \/ SaveRequested \/ Close \/ RosterReceived
  \/ Online \/ SessionEnd \/ Command \/ HandleIq \/ Serve
  \/ \E t \in Texts : FieldChanged(t)
  \/ \E a \in Addresses : PresenceUpdated(a)

Spec == Init /\ [][Next]_vars

-----------------------------------------------------------------------------

TypeOK ==
  /\ editor \in [open : BOOLEAN, text : Texts \cup {Blank}, loading : BOOLEAN, saving : BOOLEAN,
                 saved : BOOLEAN]
  /\ faces \cup fetching \subseteq Addresses
  /\ \A t \in tasks : t[1] < n /\ t[2] \in Commands
  /\ {<<asks[i][1], asks[i][2]>> : i \in DOMAIN asks}
       \cup {<<answers[i][1], answers[i][2]>> : i \in DOMAIN answers} = waiting
  /\ (~live => asks = <<>> /\ answers = <<>>)

\* "Skip JIDs already cached or already being fetched to avoid duplicates": the
\* avatar of an address is asked for once, whether the roster, its copy in the
\* database or a presence brings the address up, in whatever session. A contact
\* has one address for each resource, and each of them is asked for.
AskedOnce == \A a \in Addresses : calls[a] <= 1

\* "Engine confirmed the vCard was saved": once everything is answered, the
\* editor says so only if the server did not refuse.
SavedIsStored == tasks = {} /\ waiting = {} /\ editor.saved => ~refusal
=============================================================================
