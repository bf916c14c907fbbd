------------------------------- MODULE Settings -------------------------------
(***************************************************************************)
(* The settings and the stored password.  App keeps the settings, each     *)
(* settings screen a copy of them, the disk what was saved last, and a     *)
(* session what the disk said when the login form made its ConnectConfig.  *)
(* Cmd+, opens settings over any screen, settings too.  A loss of the      *)
(* connection is followed by a retry with the configuration of the last    *)
(* login, whose delay is left out.                                         *)
(***************************************************************************)
EXTENDS Naturals, Sequences, FiniteSets

CONSTANTS
  MaxEdits,  \* bound: what the user types and clicks
  MaxLinks,  \* bound: connections that the engine is asked for
  MaxPrefs,  \* bound: answers of the server about its archive
  MaxRuns,   \* bound: starts of the program
  MaxCopies  \* bound: settings screens on top of each other

VARIABLES
  scene,   \* the screen under the settings: "Login" or "Chat"
  copies,  \* SettingsScreen.settings of the screens over it, the last on top
  typed,   \* password field of the login screen; "" is empty
  ticked,  \* its Remember me
  app,     \* App.settings
  file,    \* settings.json
  creds,   \* the password in credentials.json
  known,   \* last_jid is set
  lastCfg, \* last_connect_cfg
  calls,   \* commands on their way to the engine
  link,    \* what the session was made from
  news,    \* events on their way to the interface
  chosen,  \* history: what the user chose last
  overruled, \* history: the modes that the server said since the user chose one
  outdated,  \* history: settings that a screen the user went back to has otherwise
  spurned, \* history: a displayed marker went out against the user's choice
  owed,    \* history: the next start has to connect by itself
  edits, links, prefs, runs \* history: counters for the bounds

historyVars  == <<chosen, overruled, outdated>>
settingsVars == <<app, copies, file, historyVars>>
loginVars    == <<typed, ticked>>
storeVars    == <<creds, known>>
engineVars   == <<calls, link, news>>
bounds       == <<edits, links, prefs, runs>>
vars == <<scene, loginVars, settingsVars, storeVars, lastCfg, engineVars, spurned, owed, bounds>>

\* Settings: markers stands for every switch of the screen, mam is also set by
\* the server, remember by the login screen.
Settings == [markers : BOOLEAN, mam : {"roster", "always"}, remember : BOOLEAN]
Default  == [markers |-> TRUE, mam |-> "roster", remember |-> TRUE]
NoConfig == [pw |-> "", markers |-> FALSE]
Edits    == edits < MaxEdits /\ edits' = edits + 1 /\ UNCHANGED <<links, prefs, runs>>
Quietly  == UNCHANGED bounds

OnLogin == scene = "Login" /\ copies = <<>>
OnChat  == scene = "Chat" /\ copies = <<>>
Copy    == copies[Len(copies)]

Init ==
  /\ scene = "Login" /\ typed = "" /\ ticked = TRUE
  /\ app = Default /\ copies = <<>> /\ file = Default
  /\ creds = "" /\ known = FALSE /\ lastCfg = NoConfig
  /\ calls = <<>> /\ link = NoConfig /\ news = <<>>
  /\ chosen = Default /\ overruled = {} /\ outdated = {}
  /\ spurned = FALSE /\ owed = FALSE
  /\ edits = 0 /\ links = 0 /\ prefs = 0 /\ runs = 0

\* The user chooses a setting.
Chooses(f, value) == chosen' = [chosen EXCEPT ![f] = value] /\ outdated' = outdated \ {f}

\* What s has is what the user chose; of the mode, also what the server said since.
Stands(s, f) == s[f] = chosen[f] \/ (f = "mam" /\ s[f] \in overruled)

-----------------------------------------------------------------------------
(* The login screen.                                                         *)

PasswordChanged(pw) ==
  /\ OnLogin /\ Edits
  /\ typed' = pw
  /\ UNCHANGED <<scene, ticked, settingsVars, storeVars, lastCfg, engineVars, spurned, owed>>

\* RememberMeToggled: saved at once; the password that is stored stays.
RememberMeToggled ==
  /\ OnLogin /\ Edits
  /\ ticked' = ~ticked
  /\ app' = [app EXCEPT !.remember = ~ticked] /\ file' = app'
  /\ Chooses("remember", ~ticked) /\ UNCHANGED overruled
  /\ owed' = FALSE
  /\ UNCHANGED <<scene, copies, typed, storeVars, lastCfg, engineVars, spurned>>

\* To the benchmark and back, or Add account: a login screen without the saved
\* fields, and with Remember me ticked.
NewLogin ==
  /\ OnLogin /\ Edits
  /\ typed' = "" /\ ticked' = TRUE
  /\ UNCHANGED <<scene, settingsVars, storeVars, lastCfg, engineVars, spurned, owed>>

\* connect_config reads the settings from the disk.
ConnectConfig(pw) == [pw |-> pw, markers |-> file.markers]

\* AttemptConnect
Connect ==
  /\ OnLogin /\ typed # "" /\ links < MaxLinks
  /\ links' = links + 1
  /\ known' = TRUE /\ file' = app
  /\ lastCfg' = ConnectConfig(typed) /\ calls' = Append(calls, ConnectConfig(typed))
  /\ UNCHANGED <<scene, loginVars, app, copies, creds, link, news, historyVars, spurned, owed,
                 edits, prefs, runs>>

-----------------------------------------------------------------------------
(* The settings screen.                                                      *)

\* go_to_settings
GoToSettings ==
  /\ Len(copies) < MaxCopies /\ Edits
  /\ copies' = Append(copies, app)
  /\ UNCHANGED <<scene, loginVars, app, file, historyVars, storeVars, lastCfg, engineVars,
                 spurned, owed>>

\* (mutant) App takes the settings only when the screen is left.
TakeLate(new) == copies' = [copies EXCEPT ![Len(copies)] = new] /\ UNCHANGED app

\* After every message of the screen, App takes its settings.
Take(new) == copies' = [copies EXCEPT ![Len(copies)] = new] /\ app' = new

\* A switch: the copy is saved.
Toggled ==
  /\ copies # <<>> /\ Edits
  /\ LET new == [Copy EXCEPT !.markers = ~@] IN Take(new) /\ file' = new
  /\ Chooses("markers", ~Copy.markers) /\ UNCHANGED overruled
  /\ UNCHANGED <<scene, loginVars, storeVars, lastCfg, engineVars, spurned, owed>>

MamModeSelected ==
  /\ copies # <<>> /\ Edits
  /\ \E m \in {"roster", "always"} \ {Copy.mam} :
       LET new == [Copy EXCEPT !.mam = m] IN
         Take(new) /\ file' = new /\ Chooses("mam", m) /\ overruled' = {}
  /\ UNCHANGED <<scene, loginVars, storeVars, lastCfg, engineVars, spurned, owed>>

\* A tab, a field that is not valid yet, the question before the history is
\* cleared: nothing is saved.
Looked ==
  /\ copies # <<>> /\ app # Copy
  /\ Take(Copy)
  /\ Quietly
  /\ UNCHANGED <<scene, loginVars, file, historyVars, storeVars, lastCfg, engineVars, spurned,
                 owed>>

\* go_back; settings that lay below have, and will save, what they were opened with.
GoBack ==
  /\ copies # <<>>
  /\ app' = Copy /\ copies' = SubSeq(copies, 1, Len(copies) - 1)
  /\ outdated' = outdated \cup
       {f \in DOMAIN chosen : Len(copies) > 1 /\ ~Stands(copies[Len(copies) - 1], f)}
  /\ Quietly
  /\ UNCHANGED <<scene, loginVars, file, chosen, overruled, storeVars, lastCfg, engineVars,
                 spurned, owed>>

-----------------------------------------------------------------------------
(* The chat.                                                                 *)

\* logout: the password is dropped unless it is to be remembered.
Logout ==
  /\ ~OnLogin /\ Edits
  /\ scene' = "Login" /\ copies' = <<>> /\ typed' = ""
  /\ app' = IF copies # <<>> THEN Copy ELSE app
  /\ ticked' = app'.remember
  /\ creds' = IF ~app'.remember /\ known THEN "" ELSE creds
  /\ calls' = Append(calls, NoConfig)
  /\ owed' = (owed /\ app'.remember)
  /\ UNCHANGED <<file, historyVars, known, lastCfg, link, news, spurned>>

\* SendDisplayed, for a message the user reads: the flags of the session decide.
SendDisplayed ==
  /\ OnChat /\ link # NoConfig
  /\ spurned' = (spurned \/ (link.markers /\ ~chosen.markers))
  /\ Quietly
  /\ UNCHANGED <<scene, loginVars, settingsVars, storeVars, lastCfg, engineVars, owed>>

-----------------------------------------------------------------------------
(* The engine and the server: only the password "good" is accepted.          *)

\* A command: Connect between two sessions; in one, Connect ends it as
\* Disconnect does.
Serve ==
  /\ calls # <<>> /\ calls' = Tail(calls)
  /\ LET c == Head(calls) IN
       \/ /\ link = NoConfig /\ c.pw = "good"
          /\ link' = c /\ news' = Append(news, <<"connected">>)
       \/ /\ link = NoConfig /\ c.pw = "bad"
          /\ news' = Append(news, <<"disconnected">>) /\ UNCHANGED link
       \/ /\ link # NoConfig
          /\ link' = NoConfig /\ news' = Append(news, <<"disconnected">>)
       \/ /\ link = NoConfig /\ c = NoConfig
          /\ UNCHANGED <<link, news>>
  /\ Quietly
  /\ UNCHANGED <<scene, loginVars, settingsVars, storeVars, lastCfg, spurned, owed>>

Drop ==
  /\ link # NoConfig /\ links < MaxLinks
  /\ link' = NoConfig
  /\ news' = news \o <<<<"reconnecting">>, <<"disconnected">>>>
  /\ Quietly
  /\ UNCHANGED <<scene, loginVars, settingsVars, storeVars, lastCfg, calls, spurned, owed>>

AnswerPrefs ==
  /\ link # NoConfig /\ prefs < MaxPrefs /\ prefs' = prefs + 1
  /\ \E m \in {"roster", "always"} : news' = Append(news, <<"prefs", m>>)
  /\ UNCHANGED <<scene, loginVars, settingsVars, storeVars, lastCfg, calls, link, spurned, owed,
                 edits, links, runs>>

-----------------------------------------------------------------------------
(* Events of the engine.                                                     *)

\* Connected: the password that is stored is the one in the form now.
Connected ==
  /\ news # <<>> /\ Head(news)[1] = "connected" /\ news' = Tail(news)
  /\ scene' = "Chat" /\ copies' = <<>>
  /\ LET saves == OnLogin /\ typed # "" /\ ticked IN
       /\ creds' = IF saves THEN typed ELSE creds
       /\ owed' = (owed \/ saves)
  /\ Quietly
  /\ UNCHANGED <<loginVars, app, file, historyVars, known, lastCfg, calls, link, spurned>>

\* Disconnected: on the login screen the configuration is forgotten; the chat
\* gives way to a login screen; the settings stay.
Disconnected ==
  /\ news # <<>> /\ Head(news)[1] = "disconnected" /\ news' = Tail(news)
  /\ lastCfg' = IF OnLogin THEN NoConfig ELSE lastCfg
  /\ scene' = IF OnChat THEN "Login" ELSE scene
  /\ typed' = IF OnChat THEN IF app.remember THEN creds ELSE "" ELSE typed
  /\ ticked' = IF OnChat THEN app.remember ELSE ticked
  /\ Quietly
  /\ UNCHANGED <<settingsVars, storeVars, calls, link, spurned, owed>>

\* Reconnecting: on the login screen nothing is retried.
Reconnecting ==
  /\ news # <<>> /\ Head(news)[1] = "reconnecting" /\ news' = Tail(news)
  /\ IF OnLogin \/ lastCfg = NoConfig \/ links = MaxLinks
       THEN UNCHANGED <<calls, links>>
       ELSE calls' = Append(calls, lastCfg) /\ links' = links + 1
  /\ UNCHANGED <<scene, loginVars, settingsVars, storeVars, lastCfg, link, spurned, owed, edits,
                 prefs, runs>>

\* MamPrefsReceived: App's settings, the copy of an open screen aside, are saved.
MamPrefsReceived ==
  /\ news # <<>> /\ Head(news)[1] = "prefs" /\ news' = Tail(news)
  /\ app' = [app EXCEPT !.mam = Head(news)[2]] /\ file' = app'
  /\ overruled' = overruled \cup {Head(news)[2]}
  /\ Quietly
  /\ UNCHANGED <<scene, copies, chosen, outdated, loginVars, storeVars, lastCfg, calls, link,
                 spurned, owed>>

-----------------------------------------------------------------------------

\* The program ends and is started again: it connects by itself if the settings
\* say so and a password is there.
Launch ==
  /\ runs < MaxRuns /\ runs' = runs + 1
  /\ scene' = "Login" /\ typed' = creds /\ ticked' = file.remember
  /\ app' = file /\ copies' = <<>>
  /\ link' = NoConfig /\ news' = <<>>
  /\ LET auto == file.remember /\ known /\ creds # "" IN
       /\ calls' = IF auto THEN <<ConnectConfig(creds)>> ELSE <<>>
       /\ lastCfg' = IF auto THEN ConnectConfig(creds) ELSE NoConfig
  /\ UNCHANGED <<file, storeVars, historyVars, spurned, owed, edits, links, prefs>>

Next ==
  \/ RememberMeToggled \/ NewLogin \/ Connect \/ GoToSettings \/ Toggled \/ MamModeSelected
  \/ Looked \/ GoBack \/ Logout \/ SendDisplayed \/ Serve \/ Drop \/ AnswerPrefs
  \/ Connected \/ Disconnected \/ Reconnecting \/ MamPrefsReceived \/ Launch
  \/ \E pw \in {"good", "bad"} : PasswordChanged(pw)

Spec == Init /\ [][Next]_vars

-----------------------------------------------------------------------------

TypeOK ==
  /\ scene \in {"Login", "Chat"} /\ typed \in {"", "good", "bad"}
  /\ {app, file} \subseteq Settings /\ copies \in Seq(Settings) /\ creds \in {"", "good", "bad"}
  /\ {lastCfg, link} \subseteq [pw : {"", "good", "bad"}, markers : BOOLEAN]
  /\ link.pw # "bad" /\ (creds # "" => known)
  /\ chosen \in Settings /\ overruled \subseteq {"roster", "always"}
  /\ outdated \subseteq DOMAIN Default

\* What the user chose last is what the settings and the disk have, through
\* settings over settings, logins and starts; the mode of the archive is that or
\* one that the server said since.  A setting is excepted from where the user goes
\* back to an older settings screen, which has it otherwise, to where it is chosen
\* anew.
ChoiceKept ==
  \A f \in DOMAIN chosen \ outdated : Stands(app, f) /\ Stands(file, f)

\* "respect user's privacy preference for read markers": none goes out once the
\* user has switched them off.
PreferenceRespected == ~spurned

\* "password stays in keychain and we auto-connect next launch": after a login
\* with Remember me ticked, until it is unticked or the user logs out without
\* it, a start that finds the login screen connects with the password that was
\* accepted.
Remembers == owed => file.remember /\ creds = "good"
=============================================================================
